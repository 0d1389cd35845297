--------------------------- MODULE DeliveryProofs ---------------------------
(***************************************************************************)
(* Proofs about Delivery, for every window, number of retries, messages,   *)
(* faults and restarts: what has left the producer controller can be       *)
(* recovered, what counts as confirmed was handed to the consumer, and the *)
(* consumer sees the numbers in order.                                     *)
(***************************************************************************)
EXTENDS Delivery, SequenceTheorems, FiniteSetTheorems, WellFoundedInduction, TLAPS

-----------------------------------------------------------------------------
(* Sequences                                                               *)

\* The elements of a sequence are those at its indices.
LEMMA RangeMember ==
  ASSUME NEW S, NEW s \in Seq(S), NEW x
  PROVE  x \in Range(s) <=> \E i \in 1 .. Len(s) : s[i] = x
  BY DEF Range

\* The empty sequence has no elements, and only it.
LEMMA RangeEmpty ==
  ASSUME NEW S, NEW s \in Seq(S)
  PROVE  /\ Range(s) = {} <=> s = <<>>
         /\ Range(s) \subseteq S
<1>1. s # <<>> => s[1] \in Range(s)
  BY DEF Range
<1>2. s = <<>> => Range(s) = {}
  BY DEF Range
<1>3. Range(s) \subseteq S
  BY DEF Range
<1> QED
  BY <1>1, <1>2, <1>3

\* Appending adds one element.
LEMMA RangeAppend ==
  ASSUME NEW S, NEW s \in Seq(S), NEW x \in S
  PROVE  /\ Append(s, x) \in Seq(S)
         /\ Append(s, x) # <<>>
         /\ Range(Append(s, x)) = Range(s) \cup {x}
<1> DEFINE a == Append(s, x)
<1>1. /\ a \in Seq(S) /\ Len(a) = Len(s) + 1 /\ Len(s) \in Nat
      /\ \A i \in 1 .. Len(s) : a[i] = s[i]
      /\ a[Len(s) + 1] = x
  OBVIOUS
<1>2. ASSUME NEW y PROVE y \in Range(a) <=> y \in Range(s) \cup {x}
  <2>0. y \in Range(a) <=> \E i \in 1 .. Len(a) : a[i] = y
    <3> HIDE DEF a
    <3> QED
      BY <1>1, RangeMember
  <2>1. y \in Range(a) <=> \E i \in 1 .. Len(s) + 1 : a[i] = y
    BY <1>1, <2>0
  <2>2. y \in Range(s) <=> \E i \in 1 .. Len(s) : s[i] = y
    BY RangeMember
  <2> QED
    BY <1>1, <2>1, <2>2
<1>3. a # <<>>
  BY <1>1
<1> QED
  BY <1>1, <1>2, <1>3

\* The elements of a sequence are its head and those of its tail.
LEMMA RangeTail ==
  ASSUME NEW S, NEW s \in Seq(S), s # <<>>
  PROVE  /\ Tail(s) \in Seq(S)
         /\ Head(s) \in S /\ Head(s) \in Range(s)
         /\ Range(s) = Range(Tail(s)) \cup {Head(s)}
<1> DEFINE r == Tail(s)
<1>1. /\ r \in Seq(S) /\ Len(s) \in Nat \ {0} /\ Len(r) = Len(s) - 1 /\ Len(r) \in Nat
      /\ \A i \in 1 .. Len(r) : r[i] = s[i + 1]
      /\ Head(s) = s[1] /\ s[1] \in S
  OBVIOUS
<1>3. \A y : y \in Range(r) <=> \E i \in 1 .. Len(r) : r[i] = y
  BY <1>1, RangeMember
<1>4. \A y : y \in Range(s) <=> \E i \in 1 .. Len(s) : s[i] = y
  BY RangeMember
<1> HIDE DEF r
<1>5. \A i \in 1 .. Len(s) : i = 1 \/ (i - 1 \in 1 .. Len(r) /\ s[i] = r[i - 1])
  BY <1>1
<1>6. Range(s) = Range(r) \cup {Head(s)}
  <2>1. Range(s) \subseteq Range(r) \cup {Head(s)}
    BY <1>1, <1>3, <1>4, <1>5
  <2>2. Range(r) \subseteq Range(s)
    <3> SUFFICES ASSUME NEW i \in 1 .. Len(r) PROVE r[i] \in Range(s)
      BY <1>3
    <3>1. i + 1 \in 1 .. Len(s) /\ s[i + 1] = r[i]
      BY <1>1
    <3> QED
      BY <3>1, <1>4
  <2>3. Head(s) \in Range(s)
    BY <1>1, <1>4
  <2> QED
    BY <2>1, <2>2, <2>3
<1> QED
  BY <1>1, <1>6 DEF r

\* Joining sequences joins their elements.
LEMMA RangeConcat ==
  ASSUME NEW S, NEW s \in Seq(S), NEW t \in Seq(S)
  PROVE  /\ s \o t \in Seq(S)
         /\ Range(s \o t) = Range(s) \cup Range(t)
<1> DEFINE a == s \o t
<1>1. /\ a \in Seq(S) /\ Len(a) = Len(s) + Len(t) /\ Len(s) \in Nat /\ Len(t) \in Nat
      /\ \A i \in 1 .. Len(s) : a[i] = s[i]
      /\ \A i \in 1 .. Len(t) : a[Len(s) + i] = t[i]
  OBVIOUS
<1>2. \A y : y \in Range(a) <=> \E i \in 1 .. Len(a) : a[i] = y
  BY <1>1, RangeMember
<1>3. \A y : y \in Range(s) <=> \E i \in 1 .. Len(s) : s[i] = y
  BY RangeMember
<1>4. \A y : y \in Range(t) <=> \E i \in 1 .. Len(t) : t[i] = y
  BY RangeMember
<1> HIDE DEF a
<1>5. ASSUME NEW i \in 1 .. Len(a) PROVE a[i] \in Range(s) \cup Range(t)
  <2>1. CASE i <= Len(s)
    BY <1>1, <1>3, <2>1
  <2>2. CASE i > Len(s)
    <3>1. i - Len(s) \in 1 .. Len(t) /\ a[Len(s) + (i - Len(s))] = t[i - Len(s)]
      BY <1>1, <2>2
    <3>2. Len(s) + (i - Len(s)) = i
      BY <1>1
    <3> QED
      BY <1>4, <3>1, <3>2
  <2> QED
    BY <1>1, <2>1, <2>2
<1>6. ASSUME NEW i \in 1 .. Len(s) PROVE s[i] \in Range(a)
  <2>1. i \in 1 .. Len(a) /\ a[i] = s[i]
    BY <1>1
  <2> QED
    BY <1>2, <2>1
<1>7. ASSUME NEW i \in 1 .. Len(t) PROVE t[i] \in Range(a)
  <2>1. Len(s) + i \in 1 .. Len(a) /\ a[Len(s) + i] = t[i]
    BY <1>1
  <2> QED
    BY <1>2, <2>1
<1>8. Range(a) = Range(s) \cup Range(t)
  BY <1>2, <1>3, <1>4, <1>5, <1>6, <1>7
<1> QED
  BY <1>1, <1>8 DEF a

\* Removing one place removes at most the element there.
LEMMA RangeRemoveAt ==
  ASSUME NEW S, NEW s \in Seq(S), NEW i \in 1 .. Len(s)
  PROVE  /\ RemoveAt(s, i) \in Seq(S)
         /\ Range(RemoveAt(s, i)) \subseteq Range(s)
         /\ \A x \in Range(s) : x # s[i] => x \in Range(RemoveAt(s, i))
<1> DEFINE u == SubSeq(s, 1, i - 1)
           w == SubSeq(s, i + 1, Len(s))
<1>1. Len(s) \in Nat /\ i - 1 \in 0 .. Len(s) /\ i \in Nat
  OBVIOUS
<1>2. u \in Seq(S) /\ Len(u) = i - 1 /\ \A k \in 1 .. i - 1 : u[k] = s[k]
  BY <1>1
<1>3. /\ w \in Seq(S) /\ Len(w) = Len(s) - i
      /\ \A k \in 1 .. Len(s) - i : w[k] = s[i + k]
  BY <1>1
<1> HIDE DEF u, w
<1>4. u \o w \in Seq(S) /\ Range(u \o w) = Range(u) \cup Range(w)
  BY <1>2, <1>3, RangeConcat
<1>5. \A y : y \in Range(s) <=> \E k \in 1 .. Len(s) : s[k] = y
  BY RangeMember
<1>6. \A y : y \in Range(u) <=> \E k \in 1 .. Len(u) : u[k] = y
  BY <1>2, RangeMember
<1>7. \A y : y \in Range(w) <=> \E k \in 1 .. Len(w) : w[k] = y
  BY <1>3, RangeMember
<1>8. ASSUME NEW k \in 1 .. Len(u) PROVE u[k] \in Range(s)
  <2>1. k \in 1 .. Len(s) /\ u[k] = s[k]
    BY <1>1, <1>2
  <2> QED
    BY <1>5, <2>1
<1>9. ASSUME NEW k \in 1 .. Len(w) PROVE w[k] \in Range(s)
  <2>1. i + k \in 1 .. Len(s) /\ w[k] = s[i + k]
    BY <1>1, <1>3
  <2> QED
    BY <1>5, <2>1
<1>10. ASSUME NEW k \in 1 .. Len(s), s[k] # s[i] PROVE s[k] \in Range(u) \cup Range(w)
  <2>1. CASE k < i
    <3>1. k \in 1 .. Len(u) /\ u[k] = s[k]
      BY <1>1, <1>2, <2>1
    <3> QED
      BY <1>6, <3>1
  <2>2. CASE k > i
    <3>1. k - i \in 1 .. Len(w) /\ w[k - i] = s[i + (k - i)] /\ i + (k - i) = k
      BY <1>1, <1>3, <2>2
    <3> QED
      BY <1>7, <3>1
  <2> QED
    BY <1>1, <1>10, <2>1, <2>2
<1>11. Range(u \o w) \subseteq Range(s)
  BY <1>4, <1>6, <1>7, <1>8, <1>9
<1>12. \A x \in Range(s) : x # s[i] => x \in Range(u \o w)
  BY <1>4, <1>5, <1>10
<1>13. RemoveAt(s, i) = u \o w
  BY DEF RemoveAt, u, w
<1> QED
  BY <1>4, <1>11, <1>12, <1>13

\* An element occurs at most once; other elements may be repeated.
AtMostOnce(s, x) == \A i, j \in DOMAIN s : s[i] = x /\ s[j] = x => i = j

\* Appending does not repeat an element that was not there.
LEMMA OnceAppend ==
  ASSUME NEW S, NEW s \in Seq(S), NEW x \in S, NEW y,
         AtMostOnce(s, y), x = y => y \notin Range(s)
  PROVE  AtMostOnce(Append(s, x), y)
<1> DEFINE a == Append(s, x)
<1>1. /\ DOMAIN a = 1 .. Len(s) + 1 /\ DOMAIN s = 1 .. Len(s) /\ Len(s) \in Nat
      /\ \A i \in 1 .. Len(s) : a[i] = s[i]
      /\ a[Len(s) + 1] = x
  OBVIOUS
<1>2. x = y => \A i \in 1 .. Len(s) : s[i] # y
  BY RangeMember
<1> HIDE DEF a
<1>3. \A i, j \in 1 .. Len(s) + 1 : a[i] = y /\ a[j] = y => i = j
  BY <1>1, <1>2 DEF AtMostOnce
<1> QED
  BY <1>1, <1>3 DEF AtMostOnce, a

\* Taking the head does not repeat an element, and removes its only occurrence.
LEMMA OnceTail ==
  ASSUME NEW S, NEW s \in Seq(S), s # <<>>, NEW y, AtMostOnce(s, y)
  PROVE  /\ AtMostOnce(Tail(s), y)
         /\ Head(s) = y => y \notin Range(Tail(s))
<1> DEFINE r == Tail(s)
<1>1. /\ r \in Seq(S) /\ Len(s) \in Nat \ {0} /\ Len(r) = Len(s) - 1 /\ Len(r) \in Nat
      /\ DOMAIN r = 1 .. Len(r) /\ DOMAIN s = 1 .. Len(s)
      /\ \A i \in 1 .. Len(r) : r[i] = s[i + 1]
      /\ Head(s) = s[1]
  OBVIOUS
<1> HIDE DEF r
<1>2. \A i \in 1 .. Len(r) : i + 1 \in DOMAIN s
  BY <1>1
<1>3. ASSUME NEW i \in 1 .. Len(r), NEW j \in 1 .. Len(r), r[i] = y, r[j] = y PROVE i = j
  <2>1. i + 1 = j + 1
    BY <1>1, <1>2, <1>3 DEF AtMostOnce
  <2> QED
    BY <2>1
<1>4. ASSUME Head(s) = y, NEW i \in 1 .. Len(r), r[i] = y PROVE FALSE
  <2>1. i + 1 = 1
    BY <1>1, <1>2, <1>4 DEF AtMostOnce
  <2> QED
    BY <2>1
<1>5. Head(s) = y => y \notin Range(r)
  BY <1>1, <1>4, RangeMember
<1> QED
  BY <1>1, <1>3, <1>5 DEF AtMostOnce, r

\* A set of numbers has a least member.
LEMMA NatMin ==
  ASSUME NEW T \in SUBSET Nat, T # {}
  PROVE  \E x \in T : \A y \in T : x <= y
<1> DEFINE R == {ss \in Nat \X Nat : ss[1] < ss[2]}
<1>1. IsWellFoundedOn(R, Nat)
  BY NatLessThanWellFounded DEF OpToRel
<1>2. \A x, y \in Nat : y < x => <<y, x>> \in R
  OBVIOUS
<1> HIDE DEF R
<1>3. PICK x \in T : \A y \in T : ~ (<<y, x>> \in R)
  BY <1>1, WFMin
<1>4. ASSUME NEW y \in T PROVE x <= y
  <2>1. ~(y < x)
    BY <1>2, <1>3, Zenon
  <2> QED
    BY <2>1
<1> QED
  BY <1>4

\* A set that holds 0, and with a number the next one, holds them all.
LEMMA NatSteps ==
  ASSUME NEW T, 0 \in T, \A n \in Nat : n \in T => n + 1 \in T
  PROVE  \A n \in Nat : n \in T
<1> SUFFICES ASSUME Nat \ T # {} PROVE FALSE
  OBVIOUS
<1>1. PICK x \in Nat \ T : \A y \in Nat \ T : x <= y
  BY NatMin
<1>2. x # 0 /\ x \in Nat
  OBVIOUS
<1>3. x - 1 \in Nat /\ x - 1 \in T
  BY <1>1, <1>2
<1> QED
  BY <1>2, <1>3, (x - 1) + 1 = x

-----------------------------------------------------------------------------
\* A list of numbered messages is closed when every number below one of its
\* own is in G or comes earlier in the list.
Closed(s, G) ==
  \A i \in 1 .. Len(s) : \A k \in 1 .. (s[i].n - 1) :
    k \in G \/ \E j \in 1 .. (i - 1) : s[j].n = k

\* The numbers of the messages of a list.
Numbers(s) == {m.n : m \in Range(s)}

\* The entries of kind t come before all others.
Leading(q, t) == \A j \in 1 .. Len(q) : q[j].t = t => \A i \in 1 .. (j - 1) : q[i].t = t

\* There is an entry of kind t.
Has(q, t) == \E x \in Range(q) : x.t = t

-----------------------------------------------------------------------------
(* The inductive invariant                                                 *)

\* One request to the durable queue is outstanding, for a load or for the
\* pending message, and nothing is produced before the state is loaded.
RequestInv ==
  /\ Len(pc.pending) <= 1
  /\ attempt # 0 /\ ~pc.awaitingLoad => pc.pending # <<>>
  /\ asked # 0 => ~pc.awaitingLoad /\ pc.consumer
  /\ pc.awaitingLoad =>
       /\ pc.pending = <<>> /\ pc.unconfirmed = <<>> /\ ~Has(fromQueue, "stored")
       /\ \A x \in Range(toQueue) : x.t = "store" => x.to # Incarnation

\* The durable queue holds m or its confirmation.
Safe(m) == m.n > queue.confirmed => m \in Range(queue.unconfirmed)

\* A number stands for one message: the answer to a store that the pending
\* message takes for its own is its own.
StoredInv ==
  /\ \A m \in Range(pc.pending) : m.n < pc.current
  /\ \A x \in Range(fromQueue) : x.t = "stored" =>
       /\ x.n < pc.current
       /\ \A m \in Range(pc.pending) : m.n = x.n => Safe(Plain(m))
  /\ \A x \in Range(toQueue) : x.t = "store" /\ x.to = Incarnation =>
       /\ x.m.n < pc.current
       /\ \A m \in Range(pc.pending) : m.n = x.m.n => x.m = Plain(m)

\* Whatever was sent, or may be sent again, is safe.
SafeInv ==
  /\ \A m \in Range(toCc) : Safe(Plain(m))
  /\ \A m \in Range(cc.stash) : Safe(Plain(m))
  /\ \A m \in Range(pc.unconfirmed) : Safe(Plain(m))
  /\ \A m \in given : Safe(m)
  /\ \A x \in Range(fromQueue) : x.t = "loaded" => \A m \in Range(x.q.unconfirmed) : Safe(m)

RecInv == "reloaded" \notin mishaps => StoredInv /\ SafeInv

Given == {m.n : m \in given}
GivenTo(k) == 1 .. k \subseteq Given

\* The consumer controller, with G the numbers the consumer has seen.  What is
\* between the last delivery and the last message received is in the stash,
\* and a consumer that is ready has been given it.
Counts(c, G) ==
  /\ 1 .. c.delivered \subseteq G /\ 1 .. c.confirmed \subseteq G
  /\ ~c.waiting => c.confirmed = c.delivered
  /\ \A k \in (c.delivered + 1) .. c.received : k \in Numbers(c.stash)
InStep(c, G) == Counts(c, G) /\ (Ready(c) => c.received <= c.delivered)
ConsumerInv == InStep(cc, Given)

\* Confirmations under way cover only what was given, and so does a message
\* that starts a session.
WordInv ==
  /\ GivenTo(pc.confirmed) /\ GivenTo(queue.confirmed)
  /\ \A x \in Range(toPc) : x.t \in {"ack", "request"} => GivenTo(x.confirmed)
  /\ \A x \in Range(toQueue) : x.t = "confirmed" => GivenTo(x.n)
  /\ \A m \in Range(toCc) : m.first => GivenTo(m.n - 1)

\* The producer controller has every number it gave out that the consumer has
\* not seen, in order.
ProducerInv ==
  /\ \A m \in Range(pc.unconfirmed) : m.first => m.n = 1
  /\ \A m \in Range(pc.pending) :
       /\ m.first => m.n = 1
       /\ \A k \in 1 .. (m.n - 1) : k \in Given \cup Numbers(pc.unconfirmed)
  /\ Closed(pc.unconfirmed, Given)
  /\ \A k \in 1 .. (pc.current - 1) :
       k \in Given \cup Numbers(pc.unconfirmed) \cup Numbers(pc.pending)

NewQueue == [current |-> 1, confirmed |-> 0, unconfirmed |-> <<>>]

\* Without a restart all loads come before all stores: they find nothing.
LoadInv ==
  /\ \A x \in Range(fromQueue) : x.t = "loaded" => x.q = NewQueue
  /\ Leading(toQueue, "load") /\ Leading(fromQueue, "loaded")
  /\ Has(toQueue, "load") => queue = NewQueue /\ ~Has(fromQueue, "stored")
  /\ ~pc.sendFirst => ~Has(toQueue, "load") /\ ~Has(fromQueue, "loaded") /\ ~pc.awaitingLoad
  /\ pc.awaitingLoad => queue = NewQueue

\* The first message of the session has not been sent.
FirstInv ==
  pc.sendFirst =>
    /\ pc.unconfirmed = <<>> /\ toCc = <<>> /\ cc.stash = <<>> /\ given = {}
    /\ ~Has(toQueue, "confirmed")
    /\ pc.pending = <<>> => pc.current = 1
    /\ \A m \in Range(pc.pending) : m.first

\* The consumer controller registers once.
Registration == [t |-> "register"]
RegisterInv ==
  /\ cc.producer = 0 => Registration \notin Range(toPc) /\ ~pc.consumer
  /\ Registration \in Range(toPc) => ~pc.consumer
  /\ AtMostOnce(toPc, Registration)
  /\ ~pc.consumer => pc.sendFirst /\ pc.pending = <<>>

Undisturbed == restarts = 0 /\ "displaced" \notin mishaps
ConfInv ==
  Undisturbed =>
    ConsumerInv /\ WordInv /\ ProducerInv /\ LoadInv /\ FirstInv /\ RegisterInv

IInv == TypeOK /\ RequestInv /\ RecInv /\ ConfInv

-----------------------------------------------------------------------------
(* From                                                                    *)

\* From is what its recursion says: the function exists.
LEMMA FromSteps ==
  ASSUME NEW S, NEW s \in Seq(S), NEW n
  PROVE  \E g : /\ From(s, n) = g[Len(s)]
                /\ g[0] = <<>>
                /\ \A i \in 1 .. Len(s) :
                     g[i] = IF s[i].n >= n THEN Append(g[i - 1], s[i]) ELSE g[i - 1]
<1> DEFINE Step(g, k) == [i \in 0 .. k |->
                            IF i = 0 THEN <<>>
                            ELSE IF s[i].n >= n THEN Append(g[i - 1], s[i]) ELSE g[i - 1]]
           T == {k \in Nat : \E g : g = Step(g, k)}
           kept == CHOOSE g : g = Step(g, Len(s))
<1>1. 0 \in T
  <2> DEFINE z == [i \in 0 .. 0 |-> <<>>]
  <2>1. z = Step(z, 0)
    OBVIOUS
  <2> QED
    BY <2>1
<1>2. ASSUME NEW k \in Nat, k \in T PROVE k + 1 \in T
  <2>1. PICK g : g = Step(g, k)
    BY <1>2
  <2> DEFINE last == IF s[k + 1].n >= n THEN Append(g[k], s[k + 1]) ELSE g[k]
             h == [i \in 0 .. k + 1 |-> IF i = k + 1 THEN last ELSE g[i]]
  <2>2. DOMAIN g = 0 .. k
    BY <2>1
  <2>3. \A i \in 0 .. k : g[i] = IF i = 0 THEN <<>>
                                ELSE IF s[i].n >= n THEN Append(g[i - 1], s[i]) ELSE g[i - 1]
    BY <2>1
  <2>4. ASSUME NEW i \in 0 .. k + 1
        PROVE  h[i] = IF i = 0 THEN <<>>
                      ELSE IF s[i].n >= n THEN Append(h[i - 1], s[i]) ELSE h[i - 1]
    <3>1. CASE i = k + 1
      <4>1. h[i] = last /\ h[i - 1] = g[k] /\ i # 0
        BY <3>1
      <4> QED
        BY <3>1, <4>1
    <3>2. CASE i # k + 1 /\ i # 0
      <4>1. i \in 0 .. k /\ i - 1 \in 0 .. k + 1 /\ i - 1 # k + 1
        BY <3>2
      <4>2. h[i] = g[i] /\ h[i - 1] = g[i - 1]
        BY <3>2, <4>1
      <4> HIDE DEF h
      <4> QED
        BY <2>3, <3>2, <4>1, <4>2
    <3>3. CASE i = 0
      BY <2>3, <3>3
    <3> QED
      BY <3>1, <3>2, <3>3
  <2>5. h = Step(h, k + 1)
    BY <2>4
  <2> HIDE DEF h
  <2>6. \E g2 : g2 = Step(g2, k + 1)
    BY <2>5
  <2>7. k + 1 \in Nat
    OBVIOUS
  <2> HIDE DEF Step
  <2> QED
    BY <2>6, <2>7
<1>3. Len(s) \in T
  <2> HIDE DEF T
  <2>1. \A k \in Nat : k \in T
    BY <1>1, <1>2, NatSteps
  <2> QED
    BY <2>1
<1>4. kept = Step(kept, Len(s))
  BY <1>3
<1>5. From(s, n) = kept[Len(s)]
  BY DEF From
<1> HIDE DEF kept
<1>6. kept[0] = <<>>
  BY <1>4
<1>7. \A i \in 1 .. Len(s) :
        kept[i] = IF s[i].n >= n THEN Append(kept[i - 1], s[i]) ELSE kept[i - 1]
  <2>1. \A i \in 1 .. Len(s) : i \in 0 .. Len(s) /\ i # 0
    OBVIOUS
  <2>2. \A i \in 0 .. Len(s) :
          kept[i] = IF i = 0 THEN <<>>
                    ELSE IF s[i].n >= n THEN Append(kept[i - 1], s[i]) ELSE kept[i - 1]
    BY <1>4
  <2> QED
    BY <2>1, <2>2
<1> QED
  BY <1>5, <1>6, <1>7

\* From keeps the messages numbered n and up, and no others.
LEMMA FromRange ==
  ASSUME NEW S, NEW s \in Seq(S), NEW n
  PROVE  /\ From(s, n) \in Seq(S)
         /\ \A x : x \in Range(From(s, n)) <=> x \in Range(s) /\ x.n >= n
<1>1. PICK g : /\ From(s, n) = g[Len(s)]
               /\ g[0] = <<>>
               /\ \A i \in 1 .. Len(s) :
                    g[i] = IF s[i].n >= n THEN Append(g[i - 1], s[i]) ELSE g[i - 1]
  BY FromSteps
<1> DEFINE Upto(i) == {x \in S : x.n >= n /\ \E j \in 1 .. i : s[j] = x}
           T == {i \in Nat : i <= Len(s) => g[i] \in Seq(S) /\ Range(g[i]) = Upto(i)}
<1>2. Len(s) \in Nat /\ \A i \in 1 .. Len(s) : s[i] \in S
  OBVIOUS
<1>3. 0 \in T
  <2>1. <<>> \in Seq(S) /\ Range(<<>>) = {}
    BY DEF Range
  <2>2. Upto(0) = {}
    OBVIOUS
  <2> QED
    BY <1>1, <2>1, <2>2
<1>4. ASSUME NEW i \in Nat, i \in T PROVE i + 1 \in T
  <2> SUFFICES ASSUME i + 1 <= Len(s)
               PROVE  g[i + 1] \in Seq(S) /\ Range(g[i + 1]) = Upto(i + 1)
    OBVIOUS
  <2>1. g[i] \in Seq(S) /\ Range(g[i]) = Upto(i)
    BY <1>2, <1>4
  <2>2. i + 1 \in 1 .. Len(s) /\ (i + 1) - 1 = i
    BY <1>2
  <2>3. g[i + 1] = IF s[i + 1].n >= n THEN Append(g[i], s[i + 1]) ELSE g[i]
    BY <1>1, <2>2
  <2>4. s[i + 1] \in S
    BY <1>2, <2>2
  <2>5. \A j \in 1 .. i + 1 : j \in 1 .. i \/ j = i + 1
    OBVIOUS
  <2>6. 1 .. i \subseteq 1 .. i + 1 /\ i + 1 \in 1 .. i + 1
    OBVIOUS
  <2>7. CASE s[i + 1].n >= n
    <3>1. /\ Append(g[i], s[i + 1]) \in Seq(S)
          /\ Range(Append(g[i], s[i + 1])) = Range(g[i]) \cup {s[i + 1]}
      BY <2>1, <2>4, RangeAppend
    <3>2. Upto(i + 1) = Upto(i) \cup {s[i + 1]}
      BY <2>4, <2>5, <2>6, <2>7
    <3> QED
      BY <2>1, <2>3, <2>7, <3>1, <3>2
  <2>8. CASE ~(s[i + 1].n >= n)
    <3>1. Upto(i + 1) = Upto(i)
      BY <2>5, <2>6, <2>8
    <3> QED
      BY <2>1, <2>3, <2>8, <3>1
  <2> QED
    BY <2>7, <2>8
<1>5. Len(s) \in T
  <2> HIDE DEF T
  <2>1. \A k \in Nat : k \in T
    BY <1>3, <1>4, NatSteps
  <2> QED
    BY <1>2, <2>1
<1>6. g[Len(s)] \in Seq(S) /\ Range(g[Len(s)]) = Upto(Len(s))
  BY <1>2, <1>5
<1>7. \A x : x \in Upto(Len(s)) <=> x \in Range(s) /\ x.n >= n
  BY RangeMember, <1>2
<1> QED
  BY <1>1, <1>6, <1>7

\* What a longer list keeps closed, and a larger set.
LEMMA ClosedAppend ==
  ASSUME NEW S, NEW s \in Seq(S), NEW x \in S, NEW G, Closed(s, G),
         \A k \in 1 .. (x.n - 1) : k \in G \cup Numbers(s)
  PROVE  Closed(Append(s, x), G)
<1> DEFINE a == Append(s, x)
<1>1. /\ a \in Seq(S) /\ Len(a) = Len(s) + 1 /\ Len(s) \in Nat
      /\ \A i \in 1 .. Len(s) : a[i] = s[i]
      /\ a[Len(s) + 1] = x
  OBVIOUS
<1>2. \A k \in Numbers(s) : \E j \in 1 .. Len(s) : s[j].n = k
  BY RangeMember DEF Numbers
<1> HIDE DEF a
<1> SUFFICES ASSUME NEW i \in 1 .. Len(a), NEW k \in 1 .. (a[i].n - 1), k \notin G
             PROVE  \E j \in 1 .. (i - 1) : a[j].n = k
  BY DEF Closed, a
<1>3. CASE i = Len(s) + 1
  <2>1. PICK j \in 1 .. Len(s) : s[j].n = k
    BY <1>1, <1>2, <1>3
  <2>2. j \in 1 .. (i - 1) /\ a[j] = s[j]
    BY <1>1, <1>3
  <2> QED
    BY <2>1, <2>2
<1>4. CASE i # Len(s) + 1
  <2>1. i \in 1 .. Len(s) /\ a[i] = s[i]
    BY <1>1, <1>4
  <2>2. PICK j \in 1 .. (i - 1) : s[j].n = k
    BY <2>1 DEF Closed
  <2>3. j \in 1 .. Len(s) /\ a[j] = s[j]
    BY <1>1, <2>1
  <2> QED
    BY <2>2, <2>3
<1> QED
  BY <1>3, <1>4

\* A list stays closed when more numbers are in the set.
LEMMA ClosedMore ==
  ASSUME NEW s, NEW G, NEW H, Closed(s, G), G \subseteq H
  PROVE  Closed(s, H)
  BY DEF Closed

\* A closed list has every number below its first one in the set.
LEMMA ClosedHead ==
  ASSUME NEW S, NEW s \in Seq(S), s # <<>>, NEW G, Closed(s, G)
  PROVE  \A k \in 1 .. (Head(s).n - 1) : k \in G
<1>1. Head(s) = s[1] /\ 1 \in 1 .. Len(s)
  OBVIOUS
<1>2. 1 .. (1 - 1) = {}
  OBVIOUS
<1> QED
  BY <1>1, <1>2 DEF Closed

\* Dropping numbers that are in the set leaves a closed list.
LEMMA FromClosed ==
  ASSUME NEW S, NEW s \in Seq(S), NEW n \in Nat, \A x \in S : x.n \in Nat,
         NEW G, Closed(s, G), \A k \in Nat : 1 <= k /\ k < n => k \in G
  PROVE  Closed(From(s, n), G)
<1>1. PICK g : /\ From(s, n) = g[Len(s)]
               /\ g[0] = <<>>
               /\ \A i \in 1 .. Len(s) :
                    g[i] = IF s[i].n >= n THEN Append(g[i - 1], s[i]) ELSE g[i - 1]
  BY FromSteps
<1> DEFINE KeptUpTo(i) == /\ g[i] \in Seq(S) /\ Closed(g[i], G)
                      /\ \A j \in 1 .. i : s[j].n >= n => s[j].n \in Numbers(g[i])
           T == {i \in Nat : i <= Len(s) => KeptUpTo(i)}
<1>2. Len(s) \in Nat /\ \A i \in 1 .. Len(s) : s[i] \in S
  OBVIOUS
<1>3. 0 \in T
  <2>1. <<>> \in Seq(S) /\ Closed(<<>>, G) /\ 1 .. 0 = {}
    BY DEF Closed
  <2> QED
    BY <1>1, <2>1
<1>4. ASSUME NEW i \in Nat, i \in T PROVE i + 1 \in T
  <2> SUFFICES ASSUME i + 1 <= Len(s) PROVE KeptUpTo(i + 1)
    OBVIOUS
  <2>1. KeptUpTo(i)
    BY <1>2, <1>4
  <2>2. i + 1 \in 1 .. Len(s) /\ (i + 1) - 1 = i
    BY <1>2
  <2>3. g[i + 1] = IF s[i + 1].n >= n THEN Append(g[i], s[i + 1]) ELSE g[i]
    BY <1>1, <2>2
  <2>4. s[i + 1] \in S /\ s[i + 1].n \in Nat
    BY <1>2, <2>2
  <2>5. \A j \in 1 .. i + 1 : j \in 1 .. i \/ j = i + 1
    OBVIOUS
  <2>6. CASE s[i + 1].n >= n
    <3>1. /\ Append(g[i], s[i + 1]) \in Seq(S)
          /\ Range(Append(g[i], s[i + 1])) = Range(g[i]) \cup {s[i + 1]}
      BY <2>1, <2>4, RangeAppend
    <3>2. ASSUME NEW k \in 1 .. (s[i + 1].n - 1) PROVE k \in G \cup Numbers(g[i])
      <4>1. k \in Nat /\ 1 <= k
        BY <2>4
      <4>2. CASE k < n
        BY <4>1, <4>2
      <4>3. CASE ~(k < n) /\ k \notin G
        <5>1. PICK j \in 1 .. ((i + 1) - 1) : s[j].n = k
          BY <2>2, <4>3 DEF Closed
        <5>2. j \in 1 .. i /\ s[j].n >= n
          BY <2>2, <4>1, <4>3, <5>1
        <5> QED
          BY <2>1, <5>1, <5>2
      <4> QED
        BY <4>2, <4>3
    <3>3. Closed(Append(g[i], s[i + 1]), G)
      BY <2>1, <2>4, <3>2, ClosedAppend
    <3>4. Numbers(Append(g[i], s[i + 1])) = Numbers(g[i]) \cup {s[i + 1].n}
      BY <3>1 DEF Numbers
    <3> QED
      BY <2>1, <2>3, <2>5, <2>6, <3>1, <3>3, <3>4
  <2>7. CASE ~(s[i + 1].n >= n)
    BY <2>1, <2>3, <2>5, <2>7
  <2> QED
    BY <2>6, <2>7
<1>5. Len(s) \in T
  <2> HIDE DEF T
  <2>1. \A k \in Nat : k \in T
    BY <1>3, <1>4, NatSteps
  <2> QED
    BY <1>2, <2>1
<1>6. Closed(g[Len(s)], G)
  BY <1>2, <1>5
<1> QED
  BY <1>1, <1>6

-----------------------------------------------------------------------------
(* Entries of one kind at the front of a queue                             *)

\* At the end comes an entry of another kind, or all are of this kind.
LEMMA LeadingAppend ==
  ASSUME NEW S, NEW q \in Seq(S), NEW x \in S, NEW t, Leading(q, t),
         x.t = t => \A y \in Range(q) : y.t = t
  PROVE  Leading(Append(q, x), t)
<1> DEFINE a == Append(q, x)
<1>1. /\ a \in Seq(S) /\ Len(a) = Len(q) + 1 /\ Len(q) \in Nat
      /\ \A i \in 1 .. Len(q) : a[i] = q[i]
      /\ a[Len(q) + 1] = x
  OBVIOUS
<1>2. x.t = t => \A i \in 1 .. Len(q) : q[i].t = t
  BY RangeMember
<1> HIDE DEF a
<1> SUFFICES ASSUME NEW j \in 1 .. Len(a), a[j].t = t, NEW i \in 1 .. (j - 1)
             PROVE  a[i].t = t
  BY DEF Leading, a
<1>3. i \in 1 .. Len(q) /\ a[i] = q[i]
  BY <1>1
<1>4. CASE j = Len(q) + 1
  BY <1>1, <1>2, <1>3, <1>4
<1>5. CASE j # Len(q) + 1
  <2>1. j \in 1 .. Len(q) /\ a[j] = q[j]
    BY <1>1, <1>5
  <2> QED
    BY <1>3, <2>1 DEF Leading
<1> QED
  BY <1>4, <1>5

\* The entry at the head is one of them, or there is none.
LEMMA LeadingTail ==
  ASSUME NEW S, NEW q \in Seq(S), q # <<>>, NEW t, Leading(q, t)
  PROVE  Leading(Tail(q), t) /\ (Head(q).t # t => ~Has(q, t))
<1> DEFINE r == Tail(q)
<1>1. /\ Len(q) \in Nat \ {0} /\ Len(r) = Len(q) - 1
      /\ \A i \in 1 .. Len(r) : r[i] = q[i + 1]
      /\ Head(q) = q[1]
  OBVIOUS
<1> HIDE DEF r
<1>2. ASSUME NEW j \in 1 .. Len(r), r[j].t = t, NEW i \in 1 .. (j - 1) PROVE r[i].t = t
  <2>1. /\ j + 1 \in 1 .. Len(q) /\ i + 1 \in 1 .. ((j + 1) - 1)
        /\ r[j] = q[j + 1] /\ r[i] = q[i + 1]
    BY <1>1
  <2> QED
    BY <1>2, <2>1 DEF Leading
<1>3. ASSUME NEW x \in Range(q), x.t = t PROVE Head(q).t = t
  <2>1. PICK j \in 1 .. Len(q) : q[j] = x
    BY RangeMember
  <2>2. CASE j = 1
    BY <1>1, <1>3, <2>1, <2>2
  <2>3. CASE j # 1
    <3>1. 1 \in 1 .. (j - 1)
      BY <1>1, <2>3
    <3> QED
      BY <1>1, <1>3, <2>1, <3>1 DEF Leading
  <2> QED
    BY <2>2, <2>3
<1>4. Leading(r, t)
  BY <1>2 DEF Leading
<1> QED
  BY <1>3, <1>4 DEF Has, r

-----------------------------------------------------------------------------
(* The consumer controller                                                 *)

\* The fields of a consumer controller.
LEMMA ConsumerFields ==
  ASSUME NEW c \in ConsumerStates
  PROVE  /\ c.received \in Nat /\ c.delivered \in Nat /\ c.confirmed \in Nat
         /\ c.requested \in Nat /\ c.up \in BOOLEAN
         /\ c.consumer \in BOOLEAN /\ c.producer \in 0 .. Incarnation
         /\ c.waiting \in BOOLEAN /\ c.stash \in Seq(Messages) /\ c.stopping \in BOOLEAN
  BY DEF ConsumerStates

\* The fields of a message.
LEMMA MessageFields ==
  ASSUME NEW m \in Messages, produced \in Nat, restarts \in Nat
  PROVE  /\ m.n \in Nat \ {0} /\ m.n \in 1 .. produced /\ m.v \in 1 .. produced
         /\ m.first \in BOOLEAN /\ m.pc \in 1 .. Incarnation
         /\ Plain(m) \in Stores /\ Plain(m).n = m.n
  BY DEF Messages, Stores, Plain, Incarnation

\* Stashed finds the next message if it is there.
LEMMA StashedFacts ==
  ASSUME NEW c \in ConsumerStates
  PROVE  \/ Stashed(c) = 0 /\ (Ready(c) => (c.delivered + 1) \notin Numbers(c.stash))
         \/ /\ Stashed(c) \in 1 .. Len(c.stash) /\ Stashed(c) # 0 /\ Ready(c)
            /\ c.stash[Stashed(c)].n = c.delivered + 1
<1> DEFINE I == {i \in 1 .. Len(c.stash) : c.stash[i].n = c.delivered + 1}
<1>1. c.stash \in Seq(Messages)
  BY ConsumerFields
<1>2. \A x : x \in Range(c.stash) <=> \E i \in 1 .. Len(c.stash) : c.stash[i] = x
  BY <1>1, RangeMember
<1>3. Stashed(c) = IF Ready(c) THEN IF I # {} THEN Min(I) ELSE 0 ELSE 0
  BY DEF Stashed, SelectInSeq
<1>4. I = {} => (c.delivered + 1) \notin Numbers(c.stash)
  BY <1>2 DEF Numbers
<1>5. I \subseteq Nat /\ 0 \notin I
  BY <1>1
<1>6. ASSUME I # {} PROVE Min(I) \in I
  <2> HIDE DEF I
  <2>1. \E x \in I : \A y \in I : x <= y
    BY <1>5, <1>6, NatMin
  <2>2. Min(I) = CHOOSE x \in I : \A y \in I : x <= y
    BY DEF Min
  <2> QED
    BY <2>1, <2>2
<1>7. \A i \in I : i \in 1 .. Len(c.stash) /\ i # 0 /\ c.stash[i].n = c.delivered + 1
  BY <1>1
<1> HIDE DEF I
<1>8. CASE Ready(c) /\ I # {}
  <2>1. Stashed(c) \in I
    BY <1>3, <1>6, <1>8
  <2> QED
    BY <1>7, <1>8, <2>1
<1>9. CASE ~(Ready(c) /\ I # {})
  BY <1>3, <1>4, <1>9
<1> QED
  BY <1>8, <1>9

\* Unstash delivers the next message, or does nothing when it is not there.
LEMMA UnstashFacts ==
  ASSUME NEW c \in ConsumerStates, produced \in Nat, restarts \in Nat
  PROVE  /\ Unstash(c) \in ConsumerStates
         /\ Unstash(c).confirmed = c.confirmed /\ Unstash(c).received = c.received
         /\ Unstash(c).consumer = c.consumer /\ Unstash(c).producer = c.producer
         /\ Unstash(c).requested = c.requested
         /\ Range(Unstash(c).stash) \subseteq Range(c.stash)
         /\ Unstashed(c) \subseteq Range(c.stash)
         /\ Cardinality(Unstashed(c)) \in Nat
         /\ \/ /\ Unstash(c) = c /\ Unstashed(c) = {}
               /\ Ready(c) => (c.delivered + 1) \notin Numbers(c.stash)
            \/ \E m \in Range(c.stash) :
                 /\ Unstashed(c) = {m} /\ m.n = c.delivered + 1 /\ Ready(c)
                 /\ Unstash(c).delivered = m.n /\ Unstash(c).waiting
                 /\ \A x \in Range(c.stash) : x.n # m.n => x \in Range(Unstash(c).stash)
<1>1. c.stash \in Seq(Messages)
  BY ConsumerFields
<1>2. CASE Stashed(c) = 0
  <2>1. Unstash(c) = c /\ Unstashed(c) = {}
    BY <1>2 DEF Unstash, Unstashed
  <2>2. Cardinality({}) \in Nat
    BY FS_EmptySet
  <2>3. Ready(c) => (c.delivered + 1) \notin Numbers(c.stash)
    BY <1>2, StashedFacts
  <2> QED
    BY <2>1, <2>2, <2>3
<1>3. CASE Stashed(c) # 0
  <2> DEFINE i == Stashed(c)
             m == c.stash[i]
             r == RemoveAt(c.stash, i)
  <2>1. i \in 1 .. Len(c.stash) /\ m.n = c.delivered + 1 /\ Ready(c)
    BY <1>3, StashedFacts
  <2>2. m \in Range(c.stash) /\ m \in Messages
    BY <1>1, <2>1, RangeMember
  <2>3. /\ r \in Seq(Messages) /\ Range(r) \subseteq Range(c.stash)
        /\ \A x \in Range(c.stash) : x # m => x \in Range(r)
    BY <1>1, <2>1, RangeRemoveAt
  <2>4. Unstash(c) = [[c EXCEPT !.stash = r] EXCEPT !.delivered = m.n, !.waiting = TRUE]
    BY <1>3 DEF Unstash, Deliver
  <2>5. Unstashed(c) = {m}
    BY <1>3 DEF Unstashed
  <2>6. m.n \in Nat
    BY <2>2, MessageFields
  <2> HIDE DEF i, m, r
  <2>7. Cardinality({m}) \in Nat
    BY FS_Singleton
  <2>8. /\ Unstash(c) \in ConsumerStates
        /\ Unstash(c).confirmed = c.confirmed /\ Unstash(c).received = c.received
        /\ Unstash(c).consumer = c.consumer /\ Unstash(c).producer = c.producer
        /\ Unstash(c).requested = c.requested
        /\ Unstash(c).stash = r /\ Unstash(c).delivered = m.n /\ Unstash(c).waiting
    BY <2>3, <2>4, <2>6 DEF ConsumerStates
  <2>9. \A x \in Range(c.stash) : x.n # m.n => x \in Range(r)
    BY <2>3
  <2> QED
    BY <2>1, <2>2, <2>3, <2>5, <2>7, <2>8, <2>9
<1> QED
  BY <1>2, <1>3

\* After Unstash a ready consumer has been given all that was received.
LEMMA UnstashInStep ==
  ASSUME NEW c \in ConsumerStates, produced \in Nat, restarts \in Nat, NEW G, Counts(c, G)
  PROVE  /\ InStep(Unstash(c), G \cup {m.n : m \in Unstashed(c)})
         /\ \A m \in Unstashed(c) : 1 .. (m.n - 1) \subseteq G
<1>1. c.delivered \in Nat /\ c.received \in Nat /\ c.confirmed \in Nat
  BY ConsumerFields
<1>2. CASE Unstash(c) = c /\ Unstashed(c) = {}
           /\ (Ready(c) => (c.delivered + 1) \notin Numbers(c.stash))
  <2>1. Ready(c) => c.received <= c.delivered
    <3> SUFFICES ASSUME Ready(c), c.received > c.delivered PROVE FALSE
      BY <1>1
    <3>1. c.delivered + 1 \in (c.delivered + 1) .. c.received
      BY <1>1
    <3> QED
      BY <1>2, <3>1 DEF Counts
  <2>2. G \cup {m.n : m \in {}} = G
    OBVIOUS
  <2> QED
    BY <1>2, <2>1, <2>2 DEF InStep
<1>3. ASSUME NEW m \in Range(c.stash),
             Unstashed(c) = {m}, m.n = c.delivered + 1, Ready(c),
             Unstash(c).delivered = m.n, Unstash(c).waiting,
             \A x \in Range(c.stash) : x.n # m.n => x \in Range(Unstash(c).stash)
      PROVE  /\ InStep(Unstash(c), G \cup {z.n : z \in Unstashed(c)})
             /\ \A z \in Unstashed(c) : 1 .. (z.n - 1) \subseteq G
  <2>1. Unstash(c).confirmed = c.confirmed /\ Unstash(c).received = c.received
    BY UnstashFacts
  <2>2. {z.n : z \in Unstashed(c)} = {c.delivered + 1}
    BY <1>3
  <2>3. 1 .. (c.delivered + 1) \subseteq G \cup {c.delivered + 1}
    BY <1>1 DEF Counts
  <2>4. 1 .. c.confirmed \subseteq G \cup {c.delivered + 1}
    BY DEF Counts
  <2>5. ASSUME NEW k \in ((c.delivered + 1) + 1) .. c.received
        PROVE  k \in Numbers(Unstash(c).stash)
    <3>1. k \in (c.delivered + 1) .. c.received /\ k # c.delivered + 1
      BY <1>1
    <3>2. PICK x \in Range(c.stash) : x.n = k
      BY <3>1 DEF Counts, Numbers
    <3>3. x \in Range(Unstash(c).stash)
      BY <1>3, <3>1, <3>2
    <3> QED
      BY <3>2, <3>3 DEF Numbers
  <2>6. \A z \in Unstashed(c) : 1 .. (z.n - 1) \subseteq G
    <3>1. (c.delivered + 1) - 1 = c.delivered
      BY <1>1
    <3> QED
      BY <1>3, <3>1 DEF Counts
  <2>7. ~Ready(Unstash(c))
    BY <1>3 DEF Ready
  <2>8. Counts(Unstash(c), G \cup {c.delivered + 1})
    BY <1>3, <2>1, <2>3, <2>4, <2>5 DEF Counts
  <2> QED
    BY <2>2, <2>6, <2>7, <2>8 DEF InStep
<1> QED
  BY <1>2, <1>3, UnstashFacts

\* Accepting a message hands it over or keeps it.
LEMMA AcceptFacts ==
  ASSUME NEW c \in ConsumerStates, NEW m \in Messages, produced \in Nat, restarts \in Nat
  PROVE  /\ Accept(c, m) \in ConsumerStates
         /\ Accept(c, m).received = m.n /\ Accept(c, m).confirmed = c.confirmed
         /\ Accept(c, m).consumer = c.consumer /\ Accept(c, m).producer = c.producer
         /\ Range(Accept(c, m).stash) \subseteq Range(c.stash) \cup {m}
         /\ Ready(c) => /\ Accept(c, m).delivered = m.n /\ Accept(c, m).waiting
         /\ ~Ready(c) => /\ Accept(c, m).delivered = c.delivered
                         /\ Accept(c, m).waiting = c.waiting
                         /\ Range(Accept(c, m).stash) = Range(c.stash) \cup {m}
<1>1. m.n \in Nat
  BY MessageFields
<1>2. c.stash \in Seq(Messages)
  BY ConsumerFields
<1>3. PICK t : t = Append(c.stash, m)
  OBVIOUS
<1>4. t \in Seq(Messages) /\ Range(t) = Range(c.stash) \cup {m}
  BY <1>2, <1>3, RangeAppend
<1>5. CASE Ready(c)
  <2>1. Accept(c, m) = [[c EXCEPT !.received = m.n] EXCEPT !.delivered = m.n, !.waiting = TRUE]
    BY <1>5 DEF Accept, Deliver
  <2> QED
    BY <1>1, <1>5, <2>1 DEF ConsumerStates
<1>6. CASE ~Ready(c)
  <2>1. Accept(c, m) = [c EXCEPT !.received = m.n, !.stash = t]
    BY <1>3, <1>6 DEF Accept
  <2> QED
    BY <1>1, <1>4, <1>6, <2>1 DEF ConsumerStates
<1> QED
  BY <1>5, <1>6

\* A message that is accepted is the next one the consumer is to see.
LEMMA AcceptInStep ==
  ASSUME NEW c \in ConsumerStates, NEW m \in Messages, produced \in Nat, restarts \in Nat,
         NEW G, InStep(c, G), m.n = c.received + 1, m.n > c.confirmed
  PROVE  /\ InStep(Accept(c, m), G \cup {z.n : z \in IF Ready(c) THEN {m} ELSE {}})
         /\ Ready(c) => 1 .. (m.n - 1) \subseteq G
<1>1. /\ c.delivered \in Nat /\ c.received \in Nat /\ c.confirmed \in Nat /\ m.n \in Nat
      /\ c.waiting \in BOOLEAN /\ c.consumer \in BOOLEAN
  BY ConsumerFields, MessageFields
<1> DEFINE a == Accept(c, m)
<1>2. /\ a.received = m.n /\ a.confirmed = c.confirmed /\ a.consumer = c.consumer
      /\ Range(a.stash) \subseteq Range(c.stash) \cup {m}
      /\ Ready(c) => a.delivered = m.n /\ a.waiting
      /\ ~Ready(c) => /\ a.delivered = c.delivered /\ a.waiting = c.waiting
                      /\ Range(a.stash) = Range(c.stash) \cup {m}
  BY AcceptFacts
<1> HIDE DEF a
<1>3. /\ 1 .. c.delivered \subseteq G /\ 1 .. c.confirmed \subseteq G
      /\ ~c.waiting => c.confirmed = c.delivered
      /\ \A k \in (c.delivered + 1) .. c.received : k \in Numbers(c.stash)
      /\ Ready(c) => c.received <= c.delivered
  BY DEF InStep, Counts
<1>4. CASE Ready(c)
  <2>1. m.n = c.delivered + 1 /\ m.n - 1 = c.delivered
    BY <1>1, <1>3, <1>4 DEF Ready
  <2>2. {z.n : z \in IF Ready(c) THEN {m} ELSE {}} = {m.n}
    BY <1>4
  <2>3. 1 .. m.n \subseteq G \cup {m.n}
    BY <1>1, <1>3, <2>1
  <2>4. (m.n + 1) .. m.n = {}
    BY <1>1
  <2>5. Counts(a, G \cup {m.n})
    BY <1>2, <1>3, <1>4, <2>3, <2>4 DEF Counts
  <2>6. ~Ready(a)
    BY <1>2, <1>4 DEF Ready
  <2> QED
    BY <1>3, <2>1, <2>2, <2>5, <2>6 DEF InStep, a
<1>5. CASE ~Ready(c)
  <2>1. {z.n : z \in IF Ready(c) THEN {m} ELSE {}} = {}
    BY <1>5
  <2>2. ASSUME NEW k \in (c.delivered + 1) .. m.n PROVE k \in Numbers(a.stash)
    <3>1. k = m.n \/ k \in (c.delivered + 1) .. c.received
      BY <1>1
    <3>2. Numbers(a.stash) = Numbers(c.stash) \cup {m.n}
      BY <1>2, <1>5 DEF Numbers
    <3> QED
      BY <1>3, <3>1, <3>2
  <2>3. Counts(a, G)
    BY <1>2, <1>3, <1>5, <2>2 DEF Counts
  <2>4. ~Ready(a)
    BY <1>2, <1>5 DEF Ready
  <2> QED
    BY <1>5, <2>1, <2>3, <2>4 DEF InStep, a
<1> QED
  BY <1>4, <1>5

\* A request changes what was asked for, and no more.
LEMMA RequestingFacts ==
  ASSUME NEW c \in ConsumerStates, NEW w, produced \in Nat, restarts \in Nat
  PROVE  LET r == Requesting(c, w)
         IN  /\ r.c \in ConsumerStates
             /\ r.c.received = c.received /\ r.c.delivered = c.delivered
             /\ r.c.confirmed = c.confirmed /\ r.c.consumer = c.consumer
             /\ r.c.producer = c.producer /\ r.c.waiting = c.waiting /\ r.c.stash = c.stash
             /\ r.out \in Seq(Commands)
             /\ \A x \in Range(r.out) : x.t = "request" /\ x.confirmed = c.confirmed
<1>1. c.received \in Nat /\ c.confirmed \in Nat /\ Window \in Nat
  BY ConsumerFields, DeliveryAssumption
<1>2. PICK k : k = c.received + Window
  OBVIOUS
<1>3. k \in Nat
  BY <1>1, <1>2
<1> DEFINE x == [t |-> "request", confirmed |-> c.confirmed, upTo |-> k]
<1>4. <<x>> \in Seq(Commands) /\ Range(<<x>>) = {x}
  BY <1>1, <1>3 DEF Commands, Range
<1>5. <<>> \in Seq(Commands) /\ Range(<<>>) = {}
  BY DEF Range
<1>6. CASE w /\ c.producer # 0 /\ k > c.requested
  <2>1. Requesting(c, w) = [c |-> [c EXCEPT !.requested = k], out |-> <<x>>]
    BY <1>2, <1>6 DEF Requesting
  <2>2. PICK r : r = [c EXCEPT !.requested = k]
    OBVIOUS
  <2>3. /\ r \in ConsumerStates
        /\ r.received = c.received /\ r.delivered = c.delivered
        /\ r.confirmed = c.confirmed /\ r.consumer = c.consumer
        /\ r.producer = c.producer /\ r.waiting = c.waiting /\ r.stash = c.stash
    BY <1>3, <2>2 DEF ConsumerStates
  <2>4. Requesting(c, w).c = r /\ Requesting(c, w).out = <<x>>
    BY <2>1, <2>2
  <2>5. x.t = "request" /\ x.confirmed = c.confirmed
    OBVIOUS
  <2> HIDE DEF x
  <2> QED
    BY <1>4, <2>3, <2>4, <2>5
<1>7. CASE ~(w /\ c.producer # 0 /\ k > c.requested)
  <2>1. Requesting(c, w) = [c |-> c, out |-> <<>>]
    BY <1>2, <1>7 DEF Requesting
  <2> QED
    BY <1>5, <2>1
<1> QED
  BY <1>6, <1>7

\* InStep looks at these fields only.
LEMMA InStepSame ==
  ASSUME NEW c, NEW d, NEW G, InStep(c, G),
         d.received = c.received, d.delivered = c.delivered, d.confirmed = c.confirmed,
         d.consumer = c.consumer, d.waiting = c.waiting, Range(c.stash) \subseteq Range(d.stash)
  PROVE  InStep(d, G)
  BY DEF InStep, Counts, Ready, Numbers

\* What a handler of the consumer controller does: it becomes d, sends out and
\* hands over messages, each the next in order.
ConsumerMove(d, out, handed) ==
  /\ UNCHANGED <<producerSide, queueSide, restarts>>
  /\ d \in ConsumerStates /\ out \in Seq(Commands)
  /\ \E e \in BOOLEAN : cc' = [d EXCEPT !.up = e]
  /\ toPc' = IF d.producer = Incarnation THEN toPc \o out ELSE toPc
  /\ given' = given \cup {Plain(m) : m \in handed}
  /\ handed \subseteq Range(cc.stash) \cup Range(toCc)
  /\ toCc' \in Seq(Messages) /\ Range(toCc') \subseteq Range(toCc)
  /\ Range(d.stash) \subseteq Range(cc.stash) \cup Range(toCc)
  /\ held' \in Nat /\ faults' \in 0 .. MaxFaults
  /\ Undisturbed =>
       /\ InStep(d, Given \cup {m.n : m \in handed})
       /\ \A m \in handed : 1 .. (m.n - 1) \subseteq Given
       /\ \A x \in Range(out) : x.t \in {"ack", "request"} =>
            1 .. x.confirmed \subseteq Given \cup {m.n : m \in handed}
       /\ Registration \in Range(out) => out = <<Registration>> /\ cc.producer = 0
       /\ d.producer = 0 => cc.producer = 0

\* The types of the variables, and that they stay when no message is produced
\* and the producer controller is not spawned again.
LEMMA TypesKeep ==
  ASSUME produced' = produced, restarts' = restarts
  PROVE  /\ Incarnation' = Incarnation /\ Messages' = Messages /\ Stores' = Stores
         /\ Queues' = Queues /\ QueueCommands' = QueueCommands /\ Answers' = Answers
         /\ ProducerStates' = ProducerStates /\ ConsumerStates' = ConsumerStates
         /\ Commands' = Commands
<1>1. Incarnation' = Incarnation
  BY DEF Incarnation
<1>2. Messages' = Messages /\ Stores' = Stores
  BY <1>1 DEF Messages, Stores
<1>3. Queues' = Queues
  BY <1>2 DEF Queues
<1>4. QueueCommands' = QueueCommands
  BY <1>1, <1>2 DEF QueueCommands
<1>5. Answers' = Answers
  BY <1>3 DEF Answers
<1>6. ProducerStates' = ProducerStates
  BY <1>2 DEF ProducerStates
<1>7. ConsumerStates' = ConsumerStates
  BY <1>1, <1>2 DEF ConsumerStates
<1>8. Commands' = Commands
  BY DEF Commands
<1> QED
  BY <1>1, <1>2, <1>3, <1>4, <1>5, <1>6, <1>7, <1>8

\* The counts the types are made of are natural numbers.
LEMMA Bounds ==
  ASSUME TypeOK
  PROVE  produced \in Nat /\ restarts \in Nat /\ Incarnation \in Nat
  BY DeliveryAssumption DEF TypeOK, Incarnation

\* A move of the consumer controller keeps the types; what it became and what was given.
LEMMA MoveType ==
  ASSUME TypeOK, NEW d, NEW out, NEW handed, ConsumerMove(d, out, handed)
  PROVE  /\ TypeOK'
         /\ cc'.received = d.received /\ cc'.delivered = d.delivered
         /\ cc'.confirmed = d.confirmed /\ cc'.consumer = d.consumer
         /\ cc'.waiting = d.waiting /\ cc'.stash = d.stash /\ cc'.producer = d.producer
         /\ {Plain(m) : m \in handed} \subseteq Stores
         /\ \A m \in handed : m \in Messages
         /\ Given' = Given \cup {m.n : m \in handed}
<1>0. produced \in Nat /\ restarts \in Nat
  BY Bounds
<1>1. PICK e \in BOOLEAN : cc' = [d EXCEPT !.up = e]
  BY DEF ConsumerMove
<1>2. d \in ConsumerStates /\ out \in Seq(Commands)
  BY DEF ConsumerMove
<1>3. /\ cc' \in ConsumerStates
      /\ cc'.received = d.received /\ cc'.delivered = d.delivered
      /\ cc'.confirmed = d.confirmed /\ cc'.consumer = d.consumer
      /\ cc'.waiting = d.waiting /\ cc'.stash = d.stash /\ cc'.producer = d.producer
  BY <1>1, <1>2 DEF ConsumerStates
<1>4. produced' = produced /\ restarts' = restarts
  BY DEF ConsumerMove, producerSide
<1>5. /\ Incarnation' = Incarnation /\ Messages' = Messages /\ Stores' = Stores
      /\ Queues' = Queues /\ QueueCommands' = QueueCommands /\ Answers' = Answers
      /\ ProducerStates' = ProducerStates /\ ConsumerStates' = ConsumerStates
      /\ Commands' = Commands
  BY <1>4, TypesKeep
<1>6. cc \in ConsumerStates /\ toCc \in Seq(Messages) /\ toPc \in Seq(Commands)
  BY DEF TypeOK
<1>7. Range(cc.stash) \subseteq Messages /\ Range(toCc) \subseteq Messages
  <2>1. cc.stash \in Seq(Messages)
    BY <1>6, ConsumerFields
  <2> QED
    BY <1>6, <2>1, RangeEmpty
<1>8. \A m \in handed : m \in Messages
  BY <1>7 DEF ConsumerMove
<1>9. \A m \in handed : Plain(m) \in Stores /\ Plain(m).n = m.n
  BY <1>0, <1>8, MessageFields
<1>10. {Plain(m) : m \in handed} \subseteq Stores
  BY <1>9
<1>11. given' = given \cup {Plain(m) : m \in handed}
  BY DEF ConsumerMove
<1>12. Given' = Given \cup {m.n : m \in handed}
  BY <1>9, <1>11 DEF Given
<1>13. toPc' \in Seq(Commands)
  <2>1. toPc \o out \in Seq(Commands)
    BY <1>2, <1>6, RangeConcat
  <2> QED
    BY <1>6, <2>1 DEF ConsumerMove
<1>14. /\ toCc' \in Seq(Messages) /\ held' \in Nat /\ faults' \in 0 .. MaxFaults
       /\ UNCHANGED <<pc, timers, asked, produced, queue, toQueue, fromQueue, attempt, mishaps,
                      restarts>>
  BY DEF ConsumerMove, producerSide, queueSide
<1>15. given' \subseteq Stores
  BY <1>10, <1>11 DEF TypeOK
<1>16. TypeOK'
  BY <1>3, <1>5, <1>13, <1>14, <1>15 DEF TypeOK
<1> QED
  BY <1>3, <1>8, <1>10, <1>12, <1>16

\* The durable queue keeps what the consumer controller has and hands over.
LEMMA MoveSafe ==
  ASSUME TypeOK, RequestInv, RecInv,
         NEW d, NEW out, NEW handed, ConsumerMove(d, out, handed)
  PROVE  RequestInv' /\ RecInv'
<1>1. /\ UNCHANGED <<pc, timers, asked, produced, queue, toQueue, fromQueue, attempt, mishaps,
                     restarts>>
      /\ given' = given \cup {Plain(m) : m \in handed}
      /\ handed \subseteq Range(cc.stash) \cup Range(toCc)
      /\ Range(toCc') \subseteq Range(toCc)
      /\ Range(d.stash) \subseteq Range(cc.stash) \cup Range(toCc)
  BY DEF ConsumerMove, producerSide, queueSide
<1>2. cc'.stash = d.stash
  BY MoveType
<1>3. Incarnation' = Incarnation /\ \A m : Safe(m)' <=> Safe(m)
  BY <1>1 DEF Incarnation, Safe
<1>4. RequestInv'
  BY <1>1, <1>3 DEF RequestInv
<1>5. ASSUME StoredInv PROVE StoredInv'
  BY <1>1, <1>3, <1>5 DEF StoredInv, Safe
<1>6. ASSUME SafeInv PROVE SafeInv'
  <2>1. \A m \in Range(toCc') : Safe(Plain(m))
    BY <1>1, <1>6 DEF SafeInv
  <2>2. \A m \in Range(cc'.stash) : Safe(Plain(m))
    BY <1>1, <1>2, <1>6 DEF SafeInv
  <2>3. \A m \in given' : Safe(m)
    BY <1>1, <1>6 DEF SafeInv
  <2> QED
    BY <1>1, <1>6, <2>1, <2>2, <2>3 DEF SafeInv, Safe
<1> QED
  BY <1>1, <1>4, <1>5, <1>6 DEF RecInv

\* Adding entries that are not x leaves x at most once.
LEMMA OnceConcat ==
  ASSUME NEW S, NEW s \in Seq(S), NEW t \in Seq(S), NEW x, AtMostOnce(s, x), x \notin Range(t)
  PROVE  AtMostOnce(s \o t, x)
<1> DEFINE a == s \o t
<1>1. /\ a \in Seq(S) /\ Len(a) = Len(s) + Len(t) /\ Len(s) \in Nat /\ Len(t) \in Nat
      /\ DOMAIN a = 1 .. Len(a) /\ DOMAIN s = 1 .. Len(s)
      /\ \A i \in 1 .. Len(s) : a[i] = s[i]
      /\ \A i \in 1 .. Len(t) : a[Len(s) + i] = t[i]
  OBVIOUS
<1>2. \A i \in 1 .. Len(t) : t[i] # x
  BY RangeMember
<1> HIDE DEF a
<1>3. ASSUME NEW i \in 1 .. Len(a), a[i] = x PROVE i \in 1 .. Len(s)
  <2> SUFFICES ASSUME i > Len(s) PROVE FALSE
    BY <1>1
  <2>1. i - Len(s) \in 1 .. Len(t) /\ Len(s) + (i - Len(s)) = i
    BY <1>1
  <2>2. t[i - Len(s)] = x
    BY <1>1, <1>3, <2>1
  <2> QED
    BY <1>2, <2>1, <2>2
<1>4. \A i, j \in 1 .. Len(a) : a[i] = x /\ a[j] = x => i = j
  BY <1>1, <1>3 DEF AtMostOnce
<1> QED
  BY <1>1, <1>4 DEF AtMostOnce, a

\* Confirmations stay honest and the session in order.
LEMMA MoveConf ==
  ASSUME TypeOK, Undisturbed, ConfInv,
         NEW d, NEW out, NEW handed, ConsumerMove(d, out, handed)
  PROVE  ConfInv'
<1> DEFINE New == Given \cup {m.n : m \in handed}
<1>1. /\ UNCHANGED <<pc, timers, asked, produced, queue, toQueue, fromQueue, attempt, mishaps,
                     restarts>>
      /\ given' = given \cup {Plain(m) : m \in handed}
      /\ handed \subseteq Range(cc.stash) \cup Range(toCc)
      /\ Range(toCc') \subseteq Range(toCc) /\ toCc' \in Seq(Messages)
      /\ Range(d.stash) \subseteq Range(cc.stash) \cup Range(toCc)
      /\ toPc' = IF d.producer = Incarnation THEN toPc \o out ELSE toPc
      /\ d \in ConsumerStates /\ out \in Seq(Commands)
  BY DEF ConsumerMove, producerSide, queueSide
<1>2. /\ InStep(d, New)
      /\ \A x \in Range(out) : x.t \in {"ack", "request"} => 1 .. x.confirmed \subseteq New
      /\ Registration \in Range(out) => out = <<Registration>> /\ cc.producer = 0
      /\ d.producer = 0 => cc.producer = 0
  BY DEF ConsumerMove
<1>3. /\ cc'.received = d.received /\ cc'.delivered = d.delivered
      /\ cc'.confirmed = d.confirmed /\ cc'.consumer = d.consumer
      /\ cc'.waiting = d.waiting /\ cc'.stash = d.stash /\ cc'.producer = d.producer
      /\ Given' = New
  BY MoveType
<1>4. ConsumerInv /\ WordInv /\ ProducerInv /\ LoadInv /\ FirstInv /\ RegisterInv
  BY DEF ConfInv
<1>5. Given \subseteq Given' /\ \A k : GivenTo(k) => GivenTo(k)'
  BY <1>3 DEF GivenTo
<1>6. \A k : GivenTo(k)' <=> 1 .. k \subseteq New
  BY <1>3 DEF GivenTo
<1>7. toPc \in Seq(Commands)
  BY DEF TypeOK
<1>8. \A x \in Range(toPc') : x \in Range(toPc) \/ x \in Range(out)
  <2>1. Range(toPc \o out) = Range(toPc) \cup Range(out)
    BY <1>1, <1>7, RangeConcat
  <2> QED
    BY <1>1, <2>1
<1> HIDE DEF New
<1>9. ConsumerInv'
  <2>1. InStep(cc', New)
    BY <1>2, <1>3, InStepSame
  <2> QED
    BY <1>3, <2>1 DEF ConsumerInv, InStep, Counts, Ready, Numbers
<1>10. WordInv'
  <2>1. GivenTo(pc.confirmed)' /\ GivenTo(queue.confirmed)'
    BY <1>1, <1>4, <1>6, <1>5 DEF WordInv, GivenTo
  <2>2. \A x \in Range(toPc') : x.t \in {"ack", "request"} => 1 .. x.confirmed \subseteq Given'
    BY <1>2, <1>3, <1>4, <1>5, <1>8 DEF WordInv, GivenTo
  <2>3. \A x \in Range(toQueue') : x.t = "confirmed" => 1 .. x.n \subseteq Given'
    BY <1>1, <1>4, <1>5 DEF WordInv, GivenTo
  <2>4. \A m \in Range(toCc') : m.first => 1 .. (m.n - 1) \subseteq Given'
    BY <1>1, <1>4, <1>5 DEF WordInv, GivenTo
  <2> QED
    BY <2>1, <2>2, <2>3, <2>4 DEF WordInv, GivenTo
<1>11. ProducerInv'
  <2>1. Closed(pc.unconfirmed, Given')
    BY <1>4, <1>5, ClosedMore DEF ProducerInv
  <2> QED
    BY <1>1, <1>4, <1>5, <2>1 DEF ProducerInv, Numbers
<1>12. LoadInv'
  BY <1>1, <1>4 DEF LoadInv, NewQueue
<1>13. FirstInv'
  <2> SUFFICES ASSUME pc.sendFirst PROVE FirstInv'
    BY <1>1 DEF FirstInv
  <2>1. toCc = <<>> /\ cc.stash = <<>> /\ given = {}
    BY <1>4 DEF FirstInv
  <2>2. Range(toCc) = {} /\ Range(cc.stash) = {}
    BY <2>1 DEF Range
  <2>3. handed = {} /\ Range(toCc') = {} /\ Range(d.stash) = {}
    BY <1>1, <2>2
  <2>4. toCc' = <<>>
    BY <1>1, <2>3, RangeEmpty
  <2>5. d.stash = <<>>
    <3>1. d.stash \in Seq(Messages)
      BY <1>1, ConsumerFields
    <3> QED
      BY <2>3, <3>1, RangeEmpty
  <2>6. given' = {}
    BY <1>1, <2>1, <2>3
  <2> QED
    BY <1>1, <1>3, <1>4, <2>4, <2>5, <2>6 DEF FirstInv
<1>14. RegisterInv'
  <2>1. CASE Registration \notin Range(out) \/ d.producer # Incarnation
    <3>1. Registration \in Range(toPc') => Registration \in Range(toPc)
      BY <1>1, <1>8, <2>1
    <3>2. AtMostOnce(toPc', Registration)
      <4>1. Registration \notin Range(out) => AtMostOnce(toPc \o out, Registration)
        BY <1>1, <1>4, <1>7, OnceConcat DEF RegisterInv
      <4> QED
        BY <1>1, <1>4, <2>1, <4>1 DEF RegisterInv
    <3> QED
      BY <1>1, <1>2, <1>3, <1>4, <3>1, <3>2 DEF RegisterInv
  <2>2. CASE Registration \in Range(out) /\ d.producer = Incarnation
    <3>1. out = <<Registration>> /\ cc.producer = 0 /\ d.producer # 0
      BY <1>2, <2>2, Bounds DEF Incarnation
    <3>2. Registration \notin Range(toPc) /\ ~pc.consumer
      BY <1>4, <3>1 DEF RegisterInv
    <3>3. toPc' = Append(toPc, Registration)
      BY <1>1, <1>7, <2>2, <3>1
    <3>4. Registration \in Commands
      BY DEF Registration, Commands
    <3>5. AtMostOnce(toPc', Registration)
      BY <1>4, <1>7, <3>2, <3>3, <3>4, OnceAppend DEF RegisterInv
    <3> QED
      BY <1>1, <1>3, <1>4, <3>1, <3>2, <3>5 DEF RegisterInv
  <2> QED
    BY <2>1, <2>2
<1> QED
  BY <1>9, <1>10, <1>11, <1>12, <1>13, <1>14 DEF ConfInv

\* A consumer's move shows in the variables as Handled says.
LEMMA HandledMove ==
  ASSUME TypeOK, NEW d \in ConsumerStates, NEW out \in Seq(Commands), NEW handed,
         Handled(d, out, handed),
         handed \subseteq Range(cc.stash) \cup Range(toCc),
         toCc' \in Seq(Messages), Range(toCc') \subseteq Range(toCc),
         Range(d.stash) \subseteq Range(cc.stash) \cup Range(toCc),
         held' \in Nat, faults' \in 0 .. MaxFaults,
         Undisturbed =>
           /\ InStep(d, Given \cup {m.n : m \in handed})
           /\ \A m \in handed : 1 .. (m.n - 1) \subseteq Given
           /\ \A x \in Range(out) : x.t \in {"ack", "request"} =>
                1 .. x.confirmed \subseteq Given \cup {m.n : m \in handed}
           /\ Registration \in Range(out) => out = <<Registration>> /\ cc.producer = 0
           /\ d.producer = 0 => cc.producer = 0
  PROVE  ConsumerMove(d, out, handed)
<1>1. \E e \in BOOLEAN : cc' = [d EXCEPT !.up = e]
  BY DEF Handled
<1> QED
  BY <1>1 DEF Handled, ConsumerMove

\* ConsumerController::start is such a move.
LEMMA StartConsumerMove ==
  ASSUME IInv, StartConsumer
  PROVE  \E d, out, handed : ConsumerMove(d, out, handed)
<1> DEFINE c == [cc EXCEPT !.consumer = TRUE]
           u == Unstash(c)
           handed == Unstashed(c)
<1>1. TypeOK /\ cc \in ConsumerStates /\ produced \in Nat /\ restarts \in Nat
  BY Bounds DEF IInv, TypeOK
<1>2. /\ c \in ConsumerStates /\ c.received = cc.received /\ c.delivered = cc.delivered
      /\ c.confirmed = cc.confirmed /\ c.waiting = cc.waiting /\ c.stash = cc.stash
      /\ c.producer = cc.producer
  BY <1>1 DEF ConsumerStates
<1>3. Handled(u, <<>>, handed) /\ held' = held + Cardinality(handed)
      /\ UNCHANGED <<toCc, faults>>
  BY DEF StartConsumer
<1> HIDE DEF c
<1>4. /\ u \in ConsumerStates /\ u.producer = c.producer
      /\ Range(u.stash) \subseteq Range(c.stash) /\ handed \subseteq Range(c.stash)
      /\ Cardinality(handed) \in Nat
  BY <1>1, <1>2, UnstashFacts
<1>5. ASSUME Undisturbed
      PROVE  /\ InStep(u, Given \cup {m.n : m \in handed})
             /\ \A m \in handed : 1 .. (m.n - 1) \subseteq Given
  <2>1. Counts(c, Given)
    BY <1>2, <1>5 DEF IInv, ConfInv, ConsumerInv, InStep, Counts
  <2> QED
    BY <1>1, <1>2, <2>1, UnstashInStep
<1> HIDE DEF u, handed
<1>6. held' \in Nat /\ faults' \in 0 .. MaxFaults /\ toCc' \in Seq(Messages)
  BY <1>1, <1>3, <1>4 DEF TypeOK
<1>7. <<>> \in Seq(Commands) /\ Range(<<>>) = {}
  BY DEF Range
<1>8. ConsumerMove(u, <<>>, handed)
  BY <1>1, <1>2, <1>3, <1>4, <1>5, <1>6, <1>7, HandledMove
<1> QED
  BY <1>8

\* So is the registration, which in a first session happens once.
LEMMA RegisterMove ==
  ASSUME IInv, Register
  PROVE  \E d, out, handed : ConsumerMove(d, out, handed)
<1> DEFINE d == [cc EXCEPT !.producer = Incarnation]
           out == <<Registration>>
<1>1. TypeOK /\ cc \in ConsumerStates /\ produced \in Nat /\ restarts \in Nat
  BY Bounds DEF IInv, TypeOK
<1>2. /\ d \in ConsumerStates /\ d.received = cc.received /\ d.delivered = cc.delivered
      /\ d.confirmed = cc.confirmed /\ d.waiting = cc.waiting /\ d.stash = cc.stash
      /\ d.consumer = cc.consumer /\ d.producer = Incarnation /\ Incarnation # 0
  BY <1>1 DEF ConsumerStates, Incarnation
<1>3. Handled(d, out, {}) /\ UNCHANGED <<toCc, held, faults>> /\ cc.producer # Incarnation
  BY DEF Register, Registration
<1> HIDE DEF d
<1>4. out \in Seq(Commands) /\ Range(out) = {Registration}
  BY DEF Commands, Registration, Range
<1>5. ASSUME Undisturbed PROVE cc.producer = 0 /\ InStep(d, Given \cup {m.n : m \in {}})
  <2>1. Incarnation = 1
    BY <1>5 DEF Undisturbed, Incarnation
  <2>2. cc.producer \in 0 .. Incarnation
    BY <1>1, ConsumerFields
  <2>3. cc.producer = 0
    BY <1>3, <2>1, <2>2
  <2>4. InStep(cc, Given)
    BY <1>5 DEF IInv, ConfInv, ConsumerInv
  <2>5. InStep(d, Given)
    BY <1>2, <2>4, InStepSame
  <2>6. Given \cup {m.n : m \in {}} = Given
    OBVIOUS
  <2> QED
    BY <2>3, <2>5, <2>6
<1>6. \A x \in Range(out) : x.t \notin {"ack", "request"}
  BY <1>4 DEF Registration
<1>7. /\ held' \in Nat /\ faults' \in 0 .. MaxFaults /\ toCc' \in Seq(Messages)
      /\ toCc' = toCc
  BY <1>1, <1>3 DEF TypeOK
<1>8. {} \subseteq Range(cc.stash) \cup Range(toCc)
  OBVIOUS
<1>9. Undisturbed =>
        /\ InStep(d, Given \cup {m.n : m \in {}})
        /\ \A m \in {} : 1 .. (m.n - 1) \subseteq Given
        /\ \A x \in Range(out) : x.t \in {"ack", "request"} =>
             1 .. x.confirmed \subseteq Given \cup {m.n : m \in {}}
        /\ Registration \in Range(out) => out = <<Registration>> /\ cc.producer = 0
        /\ d.producer = 0 => cc.producer = 0
  BY <1>2, <1>5, <1>6
<1> HIDE DEF out
<1>10. ConsumerMove(d, out, {})
  BY <1>1, <1>2, <1>3, <1>4, <1>7, <1>8, <1>9, HandledMove
<1> QED
  BY <1>10

\* So is DeliverThenStop.
LEMMA DeliverThenStopMove ==
  ASSUME IInv, DeliverThenStop
  PROVE  \E d, out, handed : ConsumerMove(d, out, handed)
<1> DEFINE d == [cc EXCEPT !.stopping = TRUE]
<1>1. TypeOK /\ cc \in ConsumerStates /\ produced \in Nat /\ restarts \in Nat
  BY Bounds DEF IInv, TypeOK
<1>2. /\ d \in ConsumerStates /\ d.received = cc.received /\ d.delivered = cc.delivered
      /\ d.confirmed = cc.confirmed /\ d.waiting = cc.waiting /\ d.stash = cc.stash
      /\ d.consumer = cc.consumer /\ d.producer = cc.producer
  BY <1>1 DEF ConsumerStates
<1>3. /\ Handled(d, <<>>, {}) /\ UNCHANGED <<toCc, held>>
      /\ faults < MaxFaults /\ faults' = faults + 1
  BY DEF DeliverThenStop
<1> HIDE DEF d
<1>4. <<>> \in Seq(Commands) /\ Range(<<>>) = {}
  BY DEF Range
<1>5. ASSUME Undisturbed PROVE InStep(d, Given \cup {m.n : m \in {}})
  <2>1. InStep(cc, Given)
    BY <1>5 DEF IInv, ConfInv, ConsumerInv
  <2>2. InStep(d, Given)
    BY <1>2, <2>1, InStepSame
  <2>3. Given \cup {m.n : m \in {}} = Given
    OBVIOUS
  <2> QED
    BY <2>2, <2>3
<1>6. /\ held' \in Nat /\ faults' \in 0 .. MaxFaults /\ toCc' \in Seq(Messages)
      /\ toCc' = toCc
  BY <1>1, <1>3, DeliveryAssumption DEF TypeOK
<1>7. {} \subseteq Range(cc.stash) \cup Range(toCc)
  OBVIOUS
<1>8. ConsumerMove(d, <<>>, {})
  BY <1>1, <1>2, <1>3, <1>4, <1>5, <1>6, <1>7, HandledMove
<1> QED
  BY <1>8

\* So is a confirmation: its ack covers what was delivered.
LEMMA ConfirmedMove ==
  ASSUME IInv, Confirmed
  PROVE  \E d, out, handed : ConsumerMove(d, out, handed)
<1> DEFINE c == [cc EXCEPT !.confirmed = cc.delivered, !.waiting = FALSE]
           u == Unstash(c)
           next == Requesting(u, ShouldRequest(u))
           handed == Unstashed(c)
           ack == [t |-> "ack", confirmed |-> c.confirmed]
           out == <<ack>> \o next.out
<1>1. TypeOK /\ cc \in ConsumerStates /\ produced \in Nat /\ restarts \in Nat
  BY Bounds DEF IInv, TypeOK
<1>2. /\ c \in ConsumerStates /\ c.received = cc.received /\ c.delivered = cc.delivered
      /\ c.confirmed = cc.delivered /\ ~c.waiting /\ c.stash = cc.stash
      /\ c.producer = cc.producer /\ c.consumer = cc.consumer /\ c.confirmed \in Nat
  BY <1>1 DEF ConsumerStates
<1>3. /\ Handled(next.c, out, handed) /\ held' = held - 1 + Cardinality(handed) /\ held > 0
      /\ UNCHANGED <<toCc, faults>>
  BY DEF Confirmed
<1> HIDE DEF c
<1>4. /\ u \in ConsumerStates /\ u.producer = c.producer /\ u.confirmed = c.confirmed
      /\ Range(u.stash) \subseteq Range(c.stash) /\ handed \subseteq Range(c.stash)
      /\ Cardinality(handed) \in Nat
  BY <1>1, <1>2, UnstashFacts
<1>5. ASSUME Undisturbed
      PROVE  /\ InStep(u, Given \cup {m.n : m \in handed})
             /\ \A m \in handed : 1 .. (m.n - 1) \subseteq Given
             /\ 1 .. c.confirmed \subseteq Given
  <2>1. Counts(cc, Given)
    BY <1>5 DEF IInv, ConfInv, ConsumerInv, InStep
  <2>2. Counts(c, Given)
    BY <1>2, <2>1 DEF Counts
  <2>3. 1 .. c.confirmed \subseteq Given
    BY <2>2 DEF Counts
  <2> QED
    BY <1>1, <1>2, <2>2, <2>3, UnstashInStep
<1> HIDE DEF u, handed
<1>6. /\ next.c \in ConsumerStates
      /\ next.c.received = u.received /\ next.c.delivered = u.delivered
      /\ next.c.confirmed = u.confirmed /\ next.c.consumer = u.consumer
      /\ next.c.producer = u.producer /\ next.c.waiting = u.waiting /\ next.c.stash = u.stash
      /\ next.out \in Seq(Commands)
      /\ \A x \in Range(next.out) : x.t = "request" /\ x.confirmed = u.confirmed
  BY <1>1, <1>4, RequestingFacts
<1> HIDE DEF next
<1>7. <<ack>> \in Seq(Commands) /\ Range(<<ack>>) = {ack} /\ ack.t = "ack"
      /\ ack.confirmed = c.confirmed
  BY <1>2 DEF Commands, Range
<1> HIDE DEF ack
<1>8. out \in Seq(Commands) /\ Range(out) = {ack} \cup Range(next.out)
  <2>1. PICK a, b : a = <<ack>> /\ b = next.out
    OBVIOUS
  <2>2. a \in Seq(Commands) /\ b \in Seq(Commands)
    BY <1>6, <1>7, <2>1
  <2>3. a \o b \in Seq(Commands) /\ Range(a \o b) = Range(a) \cup Range(b)
    BY <2>2, RangeConcat
  <2> QED
    BY <1>7, <2>1, <2>3
<1>9. \A x \in Range(out) : x.t # "register" /\ x.confirmed = c.confirmed
  BY <1>4, <1>6, <1>7, <1>8
<1>10. held' \in Nat /\ faults' \in 0 .. MaxFaults /\ toCc' \in Seq(Messages) /\ toCc' = toCc
  BY <1>1, <1>3, <1>4 DEF TypeOK
<1> HIDE DEF out
<1>11. Registration \notin Range(out)
  BY <1>9 DEF Registration
<1>12. ASSUME Undisturbed PROVE InStep(next.c, Given \cup {m.n : m \in handed})
  BY <1>5, <1>6, <1>12, InStepSame
<1>13. Undisturbed =>
        /\ InStep(next.c, Given \cup {m.n : m \in handed})
        /\ \A m \in handed : 1 .. (m.n - 1) \subseteq Given
        /\ \A x \in Range(out) : x.t \in {"ack", "request"} =>
             1 .. x.confirmed \subseteq Given \cup {m.n : m \in handed}
        /\ Registration \in Range(out) => out = <<Registration>> /\ cc.producer = 0
        /\ next.c.producer = 0 => cc.producer = 0
  BY <1>2, <1>4, <1>5, <1>6, <1>9, <1>11, <1>12
<1>14. ConsumerMove(next.c, out, handed)
  BY <1>1, <1>2, <1>3, <1>4, <1>6, <1>8, <1>10, <1>13, HandledMove
<1> QED
  BY <1>14

\* A message that starts a session puts the controller right before it.
LEMMA SessionFacts ==
  ASSUME TypeOK, NEW m \in Messages,
         NEW c, c = IF m.first THEN NewSession(cc, m) ELSE cc
  PROVE  /\ c \in ConsumerStates /\ Range(c.stash) \subseteq Range(cc.stash)
         /\ c.producer = 0 => cc.producer = 0
         /\ Undisturbed /\ ConfInv /\ m \in Range(toCc) => InStep(c, Given)
         /\ m.first => m.n = c.received + 1 /\ c.confirmed = c.received
<1>1. cc \in ConsumerStates /\ produced \in Nat /\ restarts \in Nat
  BY Bounds DEF TypeOK
<1>2. CASE ~m.first
  BY <1>1, <1>2 DEF ConfInv, ConsumerInv
<1>3. CASE m.first
  <2>1. m.n \in Nat \ {0} /\ m.pc \in 1 .. Incarnation
    BY <1>1, MessageFields
  <2>2. m.n - 1 \in Nat /\ m.pc \in 0 .. Incarnation /\ m.pc # 0 /\ <<>> \in Seq(Messages)
    BY <2>1
  <2>3. PICK k : k = m.n - 1
    OBVIOUS
  <2>4. c = [cc EXCEPT !.producer = m.pc, !.received = k, !.delivered = k,
                       !.confirmed = k, !.stash = <<>>, !.waiting = FALSE, !.requested = 0]
    BY <1>3, <2>3 DEF NewSession
  <2>5. /\ c \in ConsumerStates /\ c.producer = m.pc /\ c.received = k /\ c.delivered = k
        /\ c.confirmed = k /\ c.stash = <<>> /\ ~c.waiting
    <3>1. PICK e, q : e = m.pc /\ q = <<>>
      OBVIOUS
    <3>2. e \in 0 .. Incarnation /\ k \in Nat /\ q \in Seq(Messages) /\ 0 \in Nat
      BY <2>2, <2>3, <3>1
    <3>3. c = [cc EXCEPT !.producer = e, !.received = k, !.delivered = k,
                         !.confirmed = k, !.stash = q, !.waiting = FALSE, !.requested = 0]
      BY <2>4, <3>1
    <3>4. /\ c \in ConsumerStates /\ c.producer = e /\ c.received = k /\ c.delivered = k
          /\ c.confirmed = k /\ c.stash = q /\ ~c.waiting
      BY <1>1, <3>2, <3>3 DEF ConsumerStates
    <3> QED
      BY <3>1, <3>4
  <2>6. ASSUME Undisturbed, ConfInv, m \in Range(toCc) PROVE InStep(c, Given)
    <3>1. 1 .. k \subseteq Given
      BY <1>3, <2>3, <2>6 DEF ConfInv, WordInv, GivenTo
    <3>2. (k + 1) .. k = {} /\ k <= k
      BY <2>2, <2>3
    <3> QED
      BY <2>5, <3>1, <3>2 DEF InStep, Counts
  <2>7. Range(<<>>) = {}
    BY DEF Range
  <2>8. m.n = k + 1
    BY <2>1, <2>3
  <2> QED
    BY <2>2, <2>5, <2>6, <2>7, <2>8
<1> QED
  BY <1>2, <1>3, <1>1, MessageFields

\* So is the handler of a sequenced message, in all three of its cases.
LEMMA SequencedMove ==
  ASSUME IInv, OnSequenced
  PROVE  \E d, out, handed : ConsumerMove(d, out, handed)
<1>1. /\ TypeOK /\ cc \in ConsumerStates /\ produced \in Nat /\ restarts \in Nat
      /\ toCc \in Seq(Messages) /\ toCc # <<>> /\ toCc' = Tail(toCc)
  BY Bounds DEF IInv, TypeOK, OnSequenced
<1>2. PICK m : m = Head(toCc)
  OBVIOUS
<1>3. /\ m \in Messages /\ m \in Range(toCc) /\ toCc' \in Seq(Messages)
      /\ Range(toCc') \subseteq Range(toCc)
  BY <1>1, <1>2, RangeTail
<1>4. PICK c : c = IF m.first THEN NewSession(cc, m) ELSE cc
  OBVIOUS
<1>5. /\ c \in ConsumerStates /\ Range(c.stash) \subseteq Range(cc.stash)
      /\ c.producer = 0 => cc.producer = 0
      /\ Undisturbed => InStep(c, Given)
  BY <1>1, <1>3, <1>4, SessionFacts DEF IInv
<1>6. faults' = faults /\ faults' \in 0 .. MaxFaults
  BY <1>1 DEF OnSequenced, TypeOK
<1>7. c.received \in Nat /\ c.confirmed \in Nat /\ c.stash \in Seq(Messages) /\ m.n \in Nat
  BY <1>1, <1>3, <1>5, ConsumerFields, MessageFields
<1>8. <<>> \in Seq(Commands) /\ Range(<<>>) = {}
  BY DEF Range
<1>9. Given \cup {z.n : z \in {}} = Given
  OBVIOUS
<1> DEFINE next == Requesting(Accept(c, m), ShouldRequest(Accept(c, m)) \/ c.requested = 0)
           inWindow == m.first \/ m.n <= c.requested
           gap == [c EXCEPT !.stash = IF ~inWindow \/ \E i \in DOMAIN c.stash : c.stash[i].n = m.n
                                      THEN c.stash ELSE Append(c.stash, m)]
<1>10. \/ Handled(c, <<>>, {}) /\ UNCHANGED held
       \/ /\ m.n > c.confirmed /\ m.n = c.received + 1
          /\ held' = IF Ready(c) THEN held + 1 ELSE held
          /\ Handled(next.c, next.out, IF Ready(c) THEN {m} ELSE {})
       \/ Handled(gap, Resend(c), {}) /\ UNCHANGED held
  BY <1>2, <1>4 DEF OnSequenced
<1>11. CASE Handled(c, <<>>, {}) /\ UNCHANGED held
  <2>1. held' \in Nat
    BY <1>1, <1>11 DEF TypeOK
  <2>2. {} \subseteq Range(cc.stash) \cup Range(toCc)
    OBVIOUS
  <2>3. ConsumerMove(c, <<>>, {})
    BY <1>1, <1>3, <1>5, <1>6, <1>8, <1>9, <1>11, <2>1, <2>2, HandledMove
  <2> QED
    BY <2>3
<1>12. CASE /\ m.n > c.confirmed /\ m.n = c.received + 1
            /\ held' = IF Ready(c) THEN held + 1 ELSE held
            /\ Handled(next.c, next.out, IF Ready(c) THEN {m} ELSE {})
  <2>1. PICK a : a = Accept(c, m)
    OBVIOUS
  <2>2. PICK handed : handed = IF Ready(c) THEN {m} ELSE {}
    OBVIOUS
  <2>3. /\ a \in ConsumerStates /\ a.confirmed = c.confirmed /\ a.producer = c.producer
        /\ Range(a.stash) \subseteq Range(c.stash) \cup {m}
    BY <1>1, <1>3, <1>5, <2>1, AcceptFacts
  <2>4. ASSUME Undisturbed
        PROVE  /\ InStep(a, Given \cup {z.n : z \in handed})
               /\ Ready(c) => 1 .. (m.n - 1) \subseteq Given
    <3>1. InStep(c, Given)
      BY <1>5, <2>4
    <3>2. m.n > c.confirmed /\ m.n = c.received + 1
      BY <1>12
    <3> QED
      BY <1>1, <1>3, <1>5, <2>1, <2>2, <3>1, <3>2, AcceptInStep
  <2>5. /\ next.c \in ConsumerStates
        /\ next.c.received = a.received /\ next.c.delivered = a.delivered
        /\ next.c.confirmed = a.confirmed /\ next.c.consumer = a.consumer
        /\ next.c.producer = a.producer /\ next.c.waiting = a.waiting /\ next.c.stash = a.stash
        /\ next.out \in Seq(Commands)
        /\ \A x \in Range(next.out) : x.t = "request" /\ x.confirmed = a.confirmed
    <3>1. next = Requesting(a, ShouldRequest(a) \/ c.requested = 0)
      BY <2>1
    <3> QED
      BY <1>1, <2>3, <3>1, RequestingFacts
  <2> HIDE DEF next
  <2>6. ASSUME Undisturbed PROVE InStep(next.c, Given \cup {z.n : z \in handed})
    BY <2>4, <2>5, <2>6, InStepSame
  <2>7. Registration \notin Range(next.out)
    BY <2>5 DEF Registration
  <2>8. ASSUME Undisturbed PROVE 1 .. c.confirmed \subseteq Given
    BY <1>5, <2>8 DEF InStep, Counts
  <2>9. Undisturbed =>
        /\ InStep(next.c, Given \cup {z.n : z \in handed})
        /\ \A z \in handed : 1 .. (z.n - 1) \subseteq Given
        /\ \A x \in Range(next.out) : x.t \in {"ack", "request"} =>
             1 .. x.confirmed \subseteq Given \cup {z.n : z \in handed}
        /\ Registration \in Range(next.out) => next.out = <<Registration>> /\ cc.producer = 0
        /\ next.c.producer = 0 => cc.producer = 0
    <3> SUFFICES ASSUME Undisturbed
                 PROVE  /\ \A z \in handed : 1 .. (z.n - 1) \subseteq Given
                        /\ \A x \in Range(next.out) : 1 .. x.confirmed \subseteq Given
                        /\ next.c.producer = 0 => cc.producer = 0
      BY <2>6, <2>7
    <3>1. \A z \in handed : 1 .. (z.n - 1) \subseteq Given
      BY <2>2, <2>4
    <3>2. \A x \in Range(next.out) : x.confirmed = c.confirmed
      BY <2>3, <2>5
    <3> QED
      BY <1>5, <2>3, <2>5, <2>8, <3>1, <3>2
  <2>10. held' \in Nat
    BY <1>1, <1>12 DEF TypeOK
  <2>11. handed \subseteq Range(cc.stash) \cup Range(toCc)
    BY <1>3, <2>2
  <2>12. Range(next.c.stash) \subseteq Range(cc.stash) \cup Range(toCc)
    BY <1>3, <1>5, <2>3, <2>5
  <2>13. Handled(next.c, next.out, handed)
    BY <1>12, <2>2
  <2>14. ConsumerMove(next.c, next.out, handed)
    BY <1>1, <1>3, <1>6, <2>5, <2>9, <2>10, <2>11, <2>12, <2>13, HandledMove
  <2> QED
    BY <2>14
<1>13. CASE Handled(gap, Resend(c), {}) /\ UNCHANGED held
  <2>1. PICK s : s = IF ~inWindow \/ \E i \in DOMAIN c.stash : c.stash[i].n = m.n
                     THEN c.stash ELSE Append(c.stash, m)
    OBVIOUS
  <2>2. PICK a : a = Append(c.stash, m)
    OBVIOUS
  <2>3. a \in Seq(Messages) /\ Range(a) = Range(c.stash) \cup {m}
    BY <1>3, <1>7, <2>2, RangeAppend
  <2>4. s \in Seq(Messages) /\ Range(c.stash) \subseteq Range(s)
        /\ Range(s) \subseteq Range(c.stash) \cup {m}
    BY <1>7, <2>1, <2>2, <2>3
  <2>5. gap = [c EXCEPT !.stash = s]
    BY <2>1
  <2> HIDE DEF gap
  <2>6. /\ gap \in ConsumerStates /\ gap.stash = s
        /\ gap.received = c.received /\ gap.delivered = c.delivered
        /\ gap.confirmed = c.confirmed /\ gap.consumer = c.consumer
        /\ gap.producer = c.producer /\ gap.waiting = c.waiting
    BY <1>5, <2>4, <2>5 DEF ConsumerStates
  <2>7. ASSUME Undisturbed PROVE InStep(gap, Given \cup {z.n : z \in {}})
    <3>1. InStep(c, Given)
      BY <1>5, <2>7
    <3>2. InStep(gap, Given)
      BY <2>4, <2>6, <3>1, InStepSame
    <3> QED
      BY <1>9, <3>2
  <2>8. PICK out : out = Resend(c)
    OBVIOUS
  <2>9. out \in Seq(Commands) /\ \A x \in Range(out) : x.t = "resend"
    <3>1. PICK k : k = c.received + 1
      OBVIOUS
    <3>2. k \in Nat \ {0}
      BY <1>7, <3>1
    <3>3. out = <<[t |-> "resend", from |-> k]>>
      BY <2>8, <3>1 DEF Resend
    <3> QED
      BY <3>2, <3>3 DEF Commands, Range
  <2>10. Undisturbed =>
        /\ InStep(gap, Given \cup {z.n : z \in {}})
        /\ \A z \in {} : 1 .. (z.n - 1) \subseteq Given
        /\ \A x \in Range(out) : x.t \in {"ack", "request"} =>
             1 .. x.confirmed \subseteq Given \cup {z.n : z \in {}}
        /\ Registration \in Range(out) => out = <<Registration>> /\ cc.producer = 0
        /\ gap.producer = 0 => cc.producer = 0
    BY <1>5, <2>6, <2>7, <2>9 DEF Registration
  <2>11. held' \in Nat
    BY <1>1, <1>13 DEF TypeOK
  <2>12. Range(gap.stash) \subseteq Range(cc.stash) \cup Range(toCc)
    BY <1>3, <1>5, <2>4, <2>6
  <2>13. {} \subseteq Range(cc.stash) \cup Range(toCc)
    OBVIOUS
  <2>14. Handled(gap, out, {})
    BY <1>13, <2>8
  <2>15. ConsumerMove(gap, out, {})
    BY <1>1, <1>3, <1>6, <2>6, <2>9, <2>10, <2>11, <2>12, <2>13, <2>14, HandledMove
  <2> QED
    BY <2>15
<1> QED
  BY <1>10, <1>11, <1>12, <1>13

-----------------------------------------------------------------------------
(* The producer controller                                                 *)

\* Sequences over a larger set.
LEMMA SeqGrow ==
  ASSUME NEW A, NEW B, A \subseteq B, NEW s \in Seq(A)
  PROVE  s \in Seq(B)
<1>1. Len(s) \in Nat /\ \A i \in 1 .. Len(s) : s[i] \in B
  OBVIOUS
<1>2. s = [i \in 1 .. Len(s) |-> s[i]]
  OBVIOUS
<1> QED
  BY <1>1, <1>2, SeqDef

\* The states of a producer controller that has given out N numbers, with
\* messages in M.
PcStates(N, M) ==
  [up : BOOLEAN, current : 1..(N + 1), confirmed : Nat, requestedTo : Nat,
   requested : BOOLEAN, awaitingMsg : BOOLEAN, awaitingLoad : BOOLEAN, sendFirst : BOOLEAN,
   unconfirmed : Seq(M), pending : Seq(M), producer : BOOLEAN,
   consumer : BOOLEAN, resendFirst : 0..N]

\* The fields of a producer controller.
LEMMA PcFields ==
  ASSUME NEW N, NEW M, NEW p \in PcStates(N, M)
  PROVE  /\ p.up \in BOOLEAN /\ p.current \in 1 .. (N + 1) /\ p.confirmed \in Nat
         /\ p.requestedTo \in Nat /\ p.requested \in BOOLEAN /\ p.awaitingMsg \in BOOLEAN
         /\ p.awaitingLoad \in BOOLEAN /\ p.sendFirst \in BOOLEAN
         /\ p.unconfirmed \in Seq(M) /\ p.pending \in Seq(M) /\ p.producer \in BOOLEAN
         /\ p.consumer \in BOOLEAN /\ p.resendFirst \in 0 .. N
  BY DEF PcStates

\* The fields that neither the resend timer nor a request to the producer touches.
Same(p, q) ==
  /\ q.up = p.up /\ q.current = p.current /\ q.confirmed = p.confirmed
  /\ q.requestedTo = p.requestedTo /\ q.requested = p.requested
  /\ q.awaitingLoad = p.awaitingLoad /\ q.sendFirst = p.sendFirst
  /\ q.unconfirmed = p.unconfirmed /\ q.pending = p.pending /\ q.producer = p.producer
  /\ q.consumer = p.consumer

\* maybe_schedule_resend_first changes the mark of the timer, and no more.
LEMMA ScheduleFacts ==
  ASSUME NEW N \in Nat, NEW M, \A m \in M : m.n \in 1 .. N, NEW p \in PcStates(N, M),
         NEW running \in SUBSET (1 .. N), ScheduleResend(p, running)
  PROVE  pc' \in PcStates(N, M) /\ timers' \subseteq 1 .. N /\ Same(p, pc')
<1>1. PICK oldest : oldest = IF p.unconfirmed = <<>> \/ ~p.consumer THEN 0
                             ELSE Head(p.unconfirmed).n
  OBVIOUS
<1>2. /\ timers' = IF oldest \in {0, p.resendFirst} THEN running ELSE running \cup {oldest}
      /\ pc' = [p EXCEPT !.resendFirst = oldest]
  BY <1>1 DEF ScheduleResend
<1>3. oldest = 0 \/ oldest \in 1 .. N
  <2>1. p.unconfirmed \in Seq(M)
    BY PcFields
  <2>2. p.unconfirmed # <<>> => Head(p.unconfirmed) \in M
    BY <2>1, RangeTail
  <2> QED
    BY <1>1, <2>2
<1>4. oldest \in 0 .. N
  BY <1>3
<1>5. timers' \subseteq 1 .. N
  BY <1>2, <1>3
<1>6. pc' \in PcStates(N, M)
  BY <1>2, <1>4 DEF PcStates
<1>7. Same(p, pc')
  BY <1>2 DEF PcStates, Same
<1> QED
  BY <1>5, <1>6, <1>7

\* A command's end asks the producer only when loaded and with a consumer.
LEMMA EndFacts ==
  ASSUME NEW N \in Nat, NEW M, \A m \in M : m.n \in 1 .. N, NEW p \in PcStates(N, M),
         timers \subseteq 1 .. N, asked \in Nat, EndWithRequest(p)
  PROVE  /\ pc' \in PcStates(N, M) /\ timers' \subseteq 1 .. N /\ Same(p, pc')
         /\ asked' \in Nat
         /\ asked' # 0 => asked # 0 \/ (~p.awaitingLoad /\ p.consumer)
<1>1. PICK q : q = IF WantsNext(p) THEN [p EXCEPT !.awaitingMsg = TRUE] ELSE p
  OBVIOUS
<1>2. q \in PcStates(N, M) /\ Same(p, q)
  BY <1>1 DEF PcStates, Same
<1>3. ScheduleResend(q, timers)
  BY <1>1 DEF EndWithRequest
<1>4. pc' \in PcStates(N, M) /\ timers' \subseteq 1 .. N /\ Same(q, pc')
  BY <1>2, <1>3, ScheduleFacts
<1>5. Same(p, pc')
  BY <1>2, <1>4 DEF Same
<1>6. asked' \in Nat /\ (asked' # 0 => asked # 0 \/ (~p.awaitingLoad /\ p.consumer))
  <2>1. asked' = IF WantsNext(p) THEN asked + 1 ELSE asked
    BY DEF EndWithRequest
  <2>2. WantsNext(p) => ~p.awaitingLoad /\ p.consumer
    BY DEF WantsNext
  <2>3. CASE WantsNext(p)
    BY <2>1, <2>2, <2>3
  <2>4. CASE ~WantsNext(p)
    BY <2>1, <2>4
  <2> QED
    BY <2>3, <2>4
<1> QED
  BY <1>4, <1>5, <1>6

\* These are the states of the type invariant, before and after a step.
LEMMA StatesAre ==
  /\ ProducerStates = PcStates(produced, Messages)
  /\ ProducerStates' = PcStates(produced', Messages')
  BY DEF ProducerStates, PcStates

\* The numbers up to n are forgotten, and no others; G are numbers the consumer has seen.
Forgets(p, q, n, G) ==
  /\ q.up = p.up /\ q.current = p.current /\ q.pending = p.pending
  /\ q.awaitingLoad = p.awaitingLoad /\ q.sendFirst = p.sendFirst
  /\ q.consumer = p.consumer
  /\ Range(q.unconfirmed) \subseteq Range(p.unconfirmed)
  /\ q.confirmed = p.confirmed \/ q.confirmed = n
  /\ q.confirmed > p.confirmed => q.confirmed = n /\ n # 0
  /\ 1 .. n \subseteq G /\ Closed(p.unconfirmed, G) =>
       /\ Closed(q.unconfirmed, G)
       /\ Numbers(p.unconfirmed) \subseteq G \cup Numbers(q.unconfirmed)

\* on_confirmed forgets so.
LEMMA OnConfirmedFacts ==
  ASSUME NEW N \in Nat, NEW M, \A m \in M : m.n \in 1 .. N, NEW p \in PcStates(N, M),
         NEW n \in Nat, NEW G, NEW q, q = OnConfirmed(p, n)
  PROVE  q \in PcStates(N, M) /\ Forgets(p, q, n, G)
<1>1. p.confirmed \in Nat /\ p.unconfirmed \in Seq(M)
  BY PcFields
<1>2. CASE ~(n > p.confirmed)
  <2>1. q = p
    BY <1>2 DEF OnConfirmed
  <2> QED
    BY <1>1, <2>1 DEF Forgets
<1>3. CASE n > p.confirmed
  <2>1. PICK k, s, u : k = n + 1 /\ u = p.unconfirmed /\ s = From(u, k)
    OBVIOUS
  <2>2. k \in Nat /\ u \in Seq(M)
    BY <1>1, <2>1
  <2>3. From(u, k) \in Seq(M) /\ \A x : x \in Range(From(u, k)) <=> x \in Range(u) /\ x.n >= k
    BY <2>2, FromRange
  <2>5. q = [p EXCEPT !.confirmed = n, !.unconfirmed = s]
    BY <1>3, <2>1 DEF OnConfirmed
  <2>6. /\ q \in PcStates(N, M)
        /\ q.up = p.up /\ q.current = p.current /\ q.pending = p.pending
        /\ q.awaitingLoad = p.awaitingLoad /\ q.sendFirst = p.sendFirst
        /\ q.consumer = p.consumer /\ q.confirmed = n /\ q.unconfirmed = s
    BY <2>1, <2>3, <2>5 DEF PcStates
  <2>7. Range(s) \subseteq Range(u)
    BY <2>1, <2>3
  <2>8. ASSUME 1 .. n \subseteq G, Closed(u, G)
        PROVE  Closed(s, G) /\ Numbers(u) \subseteq G \cup Numbers(s)
    <3>1. \A i \in Nat : 1 <= i /\ i < k => i \in G
      BY <2>1, <2>8
    <3>2. \A x \in M : x.n \in Nat
      OBVIOUS
    <3>3. Closed(From(u, k), G)
      BY <2>2, <2>8, <3>1, <3>2, FromClosed
    <3>4. ASSUME NEW x \in Range(u), x.n \notin G PROVE x \in Range(s)
      <4>1. x \in M
        BY <2>2, RangeEmpty
      <4>2. x.n \in Nat /\ 1 <= x.n
        BY <4>1
      <4>3. x.n >= k
        BY <2>2, <3>1, <3>4, <4>2
      <4> QED
        BY <2>1, <2>3, <4>3
    <3> QED
      BY <2>1, <3>3, <3>4 DEF Numbers
  <2>9. n # 0
    BY <1>1, <1>3
  <2> QED
    BY <2>1, <2>6, <2>7, <2>8, <2>9 DEF Forgets
<1> QED
  BY <1>2, <1>3

\* A request to the durable queue, or a confirmation for it.
NewRequest(x) ==
  \/ x.t = "load" /\ pc.awaitingLoad
  \/ x.t = "store" /\ ~pc.awaitingLoad /\ \E m \in Range(pc.pending) : x.m = Plain(m)
  \/ x.t = "confirmed" /\ x.n \in Nat \ {0} /\ (Undisturbed => GivenTo(x.n))

\* What the producer controller does when no message of the producer is numbered
\* or stored: it may forget what is confirmed, send again and ask again,
\* and find an answer of the durable queue of no use.
ProducerMove ==
  /\ UNCHANGED <<produced, queue, mishaps, cc, held, given, restarts>>
  /\ fromQueue' = fromQueue \/ (fromQueue # <<>> /\ fromQueue' = Tail(fromQueue))
  /\ pc' \in ProducerStates /\ timers' \subseteq 1 .. produced
  /\ pc'.current = pc.current /\ pc'.pending = pc.pending
  /\ pc'.awaitingLoad = pc.awaitingLoad
  /\ Range(pc'.unconfirmed) \subseteq Range(pc.unconfirmed)
  /\ toCc' \in Seq(Messages)
  /\ \A m \in Range(toCc') :
       m \in Range(toCc) \/ \E x \in Range(pc.unconfirmed) : Plain(m) = Plain(x)
  /\ faults' \in 0 .. MaxFaults /\ attempt' \in 0 .. Retries /\ asked' \in Nat
  /\ attempt' # 0 => attempt # 0
  /\ asked' # 0 => asked # 0 \/ (~pc.awaitingLoad /\ pc'.consumer)
  /\ pc.consumer => pc'.consumer
  /\ toPc' = toPc \/ (toPc # <<>> /\ toPc' = Tail(toPc))
  /\ toQueue' = toQueue \/ \E x \in QueueCommands : toQueue' = Append(toQueue, x) /\ NewRequest(x)
  /\ Undisturbed =>
       /\ GivenTo(pc'.confirmed)
       /\ \A m \in Range(toCc') : m.first => GivenTo(m.n - 1)
       /\ Closed(pc'.unconfirmed, Given)
       /\ Numbers(pc.unconfirmed) \subseteq Given \cup Numbers(pc'.unconfirmed)
       /\ pc'.sendFirst = pc.sendFirst
       /\ pc'.consumer # pc.consumer =>
            Registration \in Range(toPc) /\ Registration \notin Range(toPc')

\* The answers left after such a move.
LEMMA AnswersLeft ==
  ASSUME TypeOK, ProducerMove
  PROVE  /\ fromQueue' \in Seq(Answers) /\ Range(fromQueue') \subseteq Range(fromQueue)
         /\ Has(fromQueue', "stored") => Has(fromQueue, "stored")
         /\ Has(fromQueue', "loaded") => Has(fromQueue, "loaded")
         /\ Leading(fromQueue, "loaded") => Leading(fromQueue', "loaded")
<1>1. fromQueue \in Seq(Answers)
  BY DEF TypeOK
<1>2. CASE fromQueue' = fromQueue
  BY <1>1, <1>2
<1>3. CASE fromQueue # <<>> /\ fromQueue' = Tail(fromQueue)
  <2>1. Tail(fromQueue) \in Seq(Answers) /\ Range(Tail(fromQueue)) \subseteq Range(fromQueue)
    BY <1>1, <1>3, RangeTail
  <2>2. Leading(fromQueue, "loaded") => Leading(Tail(fromQueue), "loaded")
    BY <1>1, <1>3, LeadingTail
  <2> QED
    BY <1>3, <2>1, <2>2 DEF Has
<1> QED
  BY <1>2, <1>3 DEF ProducerMove

\* Such a move keeps the types.
LEMMA ProducerType ==
  ASSUME TypeOK, ProducerMove
  PROVE  TypeOK'
<1>1. produced' = produced /\ restarts' = restarts
  BY DEF ProducerMove
<1>2. /\ Incarnation' = Incarnation /\ Messages' = Messages /\ Stores' = Stores
      /\ Queues' = Queues /\ QueueCommands' = QueueCommands /\ Answers' = Answers
      /\ ProducerStates' = ProducerStates /\ ConsumerStates' = ConsumerStates
      /\ Commands' = Commands
  BY <1>1, TypesKeep
<1>3. toPc' \in Seq(Commands)
  <2>1. toPc \in Seq(Commands)
    BY DEF TypeOK
  <2>2. toPc # <<>> => Tail(toPc) \in Seq(Commands)
    BY <2>1, RangeTail
  <2> QED
    BY <2>1, <2>2 DEF ProducerMove
<1>4. toQueue' \in Seq(QueueCommands)
  <2>1. toQueue \in Seq(QueueCommands)
    BY DEF TypeOK
  <2>2. \A x \in QueueCommands : Append(toQueue, x) \in Seq(QueueCommands)
    BY <2>1, RangeAppend
  <2> QED
    BY <2>1, <2>2 DEF ProducerMove
<1>5. fromQueue' \in Seq(Answers)
  BY AnswersLeft
<1> QED
  BY <1>1, <1>2, <1>3, <1>4, <1>5 DEF TypeOK, ProducerMove

\* What is in the durable queue's mailbox after it.
LEMMA ProducerRequests ==
  ASSUME TypeOK, ProducerMove
  PROVE  \A y \in Range(toQueue') :
           y \in Range(toQueue) \/ (y \in QueueCommands /\ NewRequest(y))
<1>1. toQueue \in Seq(QueueCommands)
  BY DEF TypeOK
<1>2. CASE toQueue' = toQueue
  BY <1>2
<1>3. ASSUME NEW x \in QueueCommands, toQueue' = Append(toQueue, x), NewRequest(x)
      PROVE  \A y \in Range(toQueue') :
               y \in Range(toQueue) \/ (y \in QueueCommands /\ NewRequest(y))
  <2>1. Range(Append(toQueue, x)) = Range(toQueue) \cup {x}
    BY <1>1, RangeAppend
  <2> QED
    BY <1>3, <2>1
<1> QED
  BY <1>2, <1>3 DEF ProducerMove

\* A list of at most one entry has at most one.
LEMMA OneInRange ==
  ASSUME NEW S, NEW s \in Seq(S), Len(s) <= 1, NEW x \in Range(s), NEW y \in Range(s)
  PROVE  x = y
<1>1. PICK i \in 1 .. Len(s) : s[i] = x
  BY RangeMember
<1>2. PICK j \in 1 .. Len(s) : s[j] = y
  BY RangeMember
<1> QED
  BY <1>1, <1>2

\* The producer controller is one of these.
LEMMA PcTyped ==
  ASSUME TypeOK
  PROVE  /\ pc \in PcStates(produced, Messages)
         /\ produced \in Nat /\ restarts \in Nat
         /\ \A m \in Messages : m.n \in 1 .. produced
<1>1. produced \in Nat /\ restarts \in Nat
  BY Bounds
<1>2. pc \in PcStates(produced, Messages)
  BY StatesAre DEF TypeOK
<1> QED
  BY <1>1, <1>2, MessageFields

\* It keeps what the durable queue has, and asks it for the pending message only.
LEMMA ProducerSafe ==
  ASSUME TypeOK, RequestInv, RecInv, ProducerMove
  PROVE  RequestInv' /\ RecInv'
<1>1. Incarnation' = Incarnation /\ \A m : Safe(m)' <=> Safe(m)
  BY DEF Incarnation, Safe, ProducerMove
<1>2. \A y \in Range(toQueue') :
        y \in Range(toQueue) \/ (y \in QueueCommands /\ NewRequest(y))
  BY ProducerRequests
<1>3. /\ UNCHANGED <<produced, queue, mishaps, cc, held, given, restarts>>
      /\ pc'.current = pc.current /\ pc'.pending = pc.pending
      /\ pc'.awaitingLoad = pc.awaitingLoad
      /\ Range(pc'.unconfirmed) \subseteq Range(pc.unconfirmed)
      /\ pc' \in ProducerStates
  BY DEF ProducerMove
<1>4. pc \in PcStates(produced, Messages) /\ pc' \in PcStates(produced, Messages)
  BY <1>3, PcTyped, StatesAre
<1>5. pc.pending \in Seq(Messages) /\ pc.unconfirmed \in Seq(Messages)
      /\ pc'.unconfirmed \in Seq(Messages)
  BY <1>4, PcFields
<1>6. Range(fromQueue') \subseteq Range(fromQueue)
      /\ (~Has(fromQueue, "stored") => ~Has(fromQueue', "stored"))
  BY AnswersLeft
<1>7. RequestInv'
  <2>1. Len(pc'.pending) <= 1 /\ (attempt' # 0 /\ ~pc'.awaitingLoad => pc'.pending # <<>>)
    BY <1>3 DEF RequestInv, ProducerMove
  <2>2. asked' # 0 => ~pc'.awaitingLoad /\ pc'.consumer
    BY <1>3 DEF RequestInv, ProducerMove
  <2>3. ASSUME pc'.awaitingLoad
        PROVE  /\ pc'.pending = <<>> /\ pc'.unconfirmed = <<>> /\ ~Has(fromQueue', "stored")
               /\ \A x \in Range(toQueue') : x.t = "store" => x.to # Incarnation
    <3>1. /\ pc.awaitingLoad /\ pc.pending = <<>> /\ pc.unconfirmed = <<>>
          /\ ~Has(fromQueue, "stored")
          /\ \A x \in Range(toQueue) : x.t = "store" => x.to # Incarnation
      BY <1>3, <2>3 DEF RequestInv
    <3>2. pc'.unconfirmed = <<>>
      <4>1. Range(pc.unconfirmed) = {}
        BY <3>1 DEF Range
      <4>2. Range(pc'.unconfirmed) = {}
        BY <1>3, <4>1
      <4> QED
        BY <1>5, <4>2, RangeEmpty
    <3>3. \A x \in Range(toQueue') : x.t = "store" => x.to # Incarnation
      BY <1>2, <3>1 DEF NewRequest
    <3> QED
      BY <1>3, <1>6, <3>1, <3>2, <3>3
  <2> QED
    BY <1>1, <1>3, <2>1, <2>2, <2>3 DEF RequestInv, Has
<1>8. ASSUME StoredInv PROVE StoredInv'
  <2>1. ASSUME NEW x \in Range(toQueue'), x.t = "store", x.to = Incarnation
        PROVE  /\ x.m.n < pc.current
               /\ \A m \in Range(pc.pending) : m.n = x.m.n => x.m = Plain(m)
    <3>1. CASE x \in Range(toQueue)
      BY <1>8, <2>1, <3>1 DEF StoredInv
    <3>2. CASE NewRequest(x)
      <4>1. PICK m \in Range(pc.pending) : x.m = Plain(m)
        BY <2>1, <3>2 DEF NewRequest
      <4>2. x.m.n < pc.current
        BY <1>8, <4>1 DEF StoredInv, Plain
      <4>3. \A z \in Range(pc.pending) : z = m
        BY <1>5, OneInRange DEF RequestInv
      <4> QED
        BY <4>1, <4>2, <4>3
    <3> QED
      BY <1>2, <2>1, <3>1, <3>2
  <2> QED
    BY <1>1, <1>3, <1>6, <1>8, <2>1 DEF StoredInv
<1>9. ASSUME SafeInv PROVE SafeInv'
  <2>1. \A m \in Range(toCc') : Safe(Plain(m))
    BY <1>9 DEF SafeInv, ProducerMove
  <2> QED
    BY <1>1, <1>3, <1>6, <1>9, <2>1 DEF SafeInv
<1> QED
  BY <1>3, <1>7, <1>8, <1>9 DEF RecInv

\* The empty list has no numbers.
LEMMA NumbersNone ==
  Numbers(<<>>) = {}
<1>1. Range(<<>>) = {}
  BY DEF Range
<1> QED
  BY <1>1 DEF Numbers

\* Until the state is loaded all that is on its way to the queue are loads.
LEMMA OnlyLoads ==
  ASSUME TypeOK, RequestInv, Undisturbed, ConfInv, pc.awaitingLoad
  PROVE  /\ \A y \in Range(toQueue) : y.t = "load"
         /\ queue = NewQueue /\ pc.sendFirst /\ ~Has(fromQueue, "stored")
<1>1. pc \in PcStates(produced, Messages) /\ produced \in Nat /\ restarts \in Nat
  BY PcTyped
<1>2. pc.sendFirst
  <2>1. pc.sendFirst \in BOOLEAN
    BY <1>1, PcFields
  <2> QED
    BY <2>1 DEF ConfInv, LoadInv
<1>3. ~Has(toQueue, "confirmed")
  BY <1>2 DEF ConfInv, FirstInv
<1>4. toQueue \in Seq(QueueCommands) /\ Range(toQueue) \subseteq QueueCommands
  BY RangeEmpty DEF TypeOK
<1>5. Incarnation = 1 /\ \A k \in 1 .. Incarnation : k = Incarnation
  BY DEF Undisturbed, Incarnation
<1>6. ASSUME NEW y \in Range(toQueue) PROVE y.t = "load"
  <2>1. y.t # "confirmed"
    BY <1>3 DEF Has
  <2>2. y.t = "store" => y.to # Incarnation
    BY DEF RequestInv
  <2>3. y \in QueueCommands
    BY <1>4
  <2> QED
    BY <1>5, <2>1, <2>2, <2>3 DEF QueueCommands
<1> QED
  BY <1>2, <1>6 DEF ConfInv, LoadInv, RequestInv

\* It keeps the confirmations honest and the session in order.
LEMMA ProducerConf ==
  ASSUME TypeOK, RequestInv, Undisturbed, ConfInv, ProducerMove
  PROVE  ConfInv'
<1>1. /\ UNCHANGED <<produced, queue, mishaps, cc, held, given, restarts>>
      /\ pc'.current = pc.current /\ pc'.pending = pc.pending
      /\ pc'.awaitingLoad = pc.awaitingLoad
      /\ Range(pc'.unconfirmed) \subseteq Range(pc.unconfirmed)
      /\ pc' \in ProducerStates /\ toCc' \in Seq(Messages)
      /\ \A m \in Range(toCc') :
           m \in Range(toCc) \/ \E x \in Range(pc.unconfirmed) : Plain(m) = Plain(x)
      /\ pc.consumer => pc'.consumer
      /\ toPc' = toPc \/ (toPc # <<>> /\ toPc' = Tail(toPc))
      /\ \/ toQueue' = toQueue
         \/ \E x \in QueueCommands : toQueue' = Append(toQueue, x) /\ NewRequest(x)
  BY DEF ProducerMove
<1>2. /\ GivenTo(pc'.confirmed)
      /\ \A m \in Range(toCc') : m.first => GivenTo(m.n - 1)
      /\ Closed(pc'.unconfirmed, Given)
      /\ Numbers(pc.unconfirmed) \subseteq Given \cup Numbers(pc'.unconfirmed)
      /\ pc'.sendFirst = pc.sendFirst
      /\ pc'.consumer # pc.consumer =>
           Registration \in Range(toPc) /\ Registration \notin Range(toPc')
  BY DEF ProducerMove
<1>3. ConsumerInv /\ WordInv /\ ProducerInv /\ LoadInv /\ FirstInv /\ RegisterInv
  BY DEF ConfInv
<1>4. Given' = Given /\ \A k : GivenTo(k)' <=> GivenTo(k)
  BY <1>1 DEF Given, GivenTo
<1>5. \A y \in Range(toQueue') :
        y \in Range(toQueue) \/ (y \in QueueCommands /\ NewRequest(y))
  BY ProducerRequests
<1>6. toPc \in Seq(Commands) /\ Range(toPc') \subseteq Range(toPc)
  <2>1. toPc \in Seq(Commands)
    BY DEF TypeOK
  <2>2. toPc # <<>> => Range(Tail(toPc)) \subseteq Range(toPc)
    BY <2>1, RangeTail
  <2> QED
    BY <1>1, <2>1, <2>2
<1>7. ConsumerInv'
  BY <1>1, <1>3, <1>4 DEF ConsumerInv, InStep, Counts, Ready, Numbers
<1>8. WordInv'
  <2>1. \A x \in Range(toPc') : x.t \in {"ack", "request"} => 1 .. x.confirmed \subseteq Given'
    BY <1>3, <1>4, <1>6 DEF WordInv, GivenTo
  <2>2. \A x \in Range(toQueue') : x.t = "confirmed" => 1 .. x.n \subseteq Given'
    BY <1>3, <1>4, <1>5 DEF WordInv, GivenTo, NewRequest
  <2>3. \A m \in Range(toCc') : m.first => 1 .. (m.n - 1) \subseteq Given'
    BY <1>2, <1>4 DEF GivenTo
  <2>4. 1 .. pc'.confirmed \subseteq Given' /\ 1 .. queue'.confirmed \subseteq Given'
    BY <1>1, <1>2, <1>3, <1>4 DEF GivenTo, WordInv
  <2> QED
    BY <2>1, <2>2, <2>3, <2>4 DEF WordInv, GivenTo
<1>9. ProducerInv'
  <2>1. \A m \in Range(pc'.unconfirmed) : m.first => m.n = 1
    BY <1>1, <1>3 DEF ProducerInv
  <2>2. \A m \in Range(pc'.pending) :
          /\ m.first => m.n = 1
          /\ \A k \in 1 .. (m.n - 1) : k \in Given \cup Numbers(pc'.unconfirmed)
    BY <1>1, <1>2, <1>3 DEF ProducerInv
  <2>3. \A k \in 1 .. (pc'.current - 1) :
          k \in Given \cup Numbers(pc'.unconfirmed) \cup Numbers(pc'.pending)
    BY <1>1, <1>2, <1>3 DEF ProducerInv
  <2> QED
    BY <1>2, <1>4, <2>1, <2>2, <2>3 DEF ProducerInv, Numbers
<1>10. LoadInv'
  <2>1. Leading(toQueue', "load")
    <3>1. CASE toQueue' = toQueue
      BY <1>3, <3>1 DEF LoadInv
    <3>2. ASSUME NEW x \in QueueCommands, toQueue' = Append(toQueue, x), NewRequest(x)
          PROVE  Leading(toQueue', "load")
      <4>1. x.t = "load" => \A y \in Range(toQueue) : y.t = "load"
        BY <3>2, OnlyLoads DEF NewRequest
      <4>2. toQueue \in Seq(QueueCommands) /\ Leading(toQueue, "load")
        BY <1>3 DEF TypeOK, LoadInv
      <4>3. Leading(Append(toQueue, x), "load")
        BY <4>1, <4>2, LeadingAppend
      <4> QED
        BY <3>2, <4>3
    <3> QED
      BY <1>1, <3>1, <3>2
  <2>2. Has(toQueue', "load") => Has(toQueue, "load") \/ pc.awaitingLoad
    BY <1>5 DEF Has, NewRequest
  <2>3. Has(toQueue', "load") => queue = NewQueue /\ ~Has(fromQueue, "stored")
    BY <1>3, <2>2, OnlyLoads DEF LoadInv
  <2>4. ~pc.sendFirst => ~Has(toQueue', "load") /\ ~Has(fromQueue, "loaded") /\ ~pc.awaitingLoad
    BY <1>3, <2>2 DEF LoadInv
  <2>5. /\ Range(fromQueue') \subseteq Range(fromQueue) /\ Leading(fromQueue', "loaded")
        /\ Has(fromQueue', "stored") => Has(fromQueue, "stored")
        /\ Has(fromQueue', "loaded") => Has(fromQueue, "loaded")
    BY <1>3, AnswersLeft DEF LoadInv
  <2> QED
    BY <1>1, <1>2, <1>3, <2>1, <2>3, <2>4, <2>5 DEF LoadInv, NewQueue, Has, Leading
<1>11. FirstInv'
  <2> SUFFICES ASSUME pc.sendFirst PROVE FirstInv'
    BY <1>2 DEF FirstInv
  <2>1. pc.unconfirmed = <<>> /\ toCc = <<>> /\ given = {} /\ ~Has(toQueue, "confirmed")
    BY <1>3 DEF FirstInv
  <2>2. Range(pc.unconfirmed) = {} /\ Range(toCc) = {}
    BY <2>1 DEF Range
  <2>3. Range(pc'.unconfirmed) = {} /\ Range(toCc') = {}
    BY <1>1, <2>2
  <2>4. pc'.unconfirmed = <<>>
    <3>1. pc' \in PcStates(produced, Messages)
      BY <1>1, StatesAre
    <3>2. pc'.unconfirmed \in Seq(Messages)
      BY <3>1, PcFields
    <3> QED
      BY <2>3, <3>2, RangeEmpty
  <2>5. toCc' = <<>>
    BY <1>1, <2>3, RangeEmpty
  <2>6. ~Has(toQueue', "confirmed")
    <3> SUFFICES ASSUME NEW y \in Range(toQueue'), y.t = "confirmed" PROVE FALSE
      BY DEF Has
    <3>1. y.n \in Nat \ {0} /\ GivenTo(y.n)
      BY <1>5, <2>1 DEF NewRequest, Has
    <3>2. 1 \in Given
      BY <3>1 DEF GivenTo
    <3> QED
      BY <2>1, <3>2 DEF Given
  <2> QED
    BY <1>1, <1>3, <2>1, <2>4, <2>5, <2>6 DEF FirstInv, Has
<1>12. RegisterInv'
  <2>1. AtMostOnce(toPc', Registration)
    <3>1. AtMostOnce(toPc, Registration)
      BY <1>3 DEF RegisterInv
    <3>2. toPc # <<>> => AtMostOnce(Tail(toPc), Registration)
      BY <1>6, <3>1, OnceTail
    <3> QED
      BY <1>1, <3>1, <3>2
  <2> QED
    BY <1>1, <1>2, <1>3, <1>6, <2>1 DEF RegisterInv
<1> QED
  BY <1>7, <1>8, <1>9, <1>10, <1>11, <1>12 DEF ConfInv

\* A move of either controller keeps the invariant.
LEMMA ProducerMoveInv ==
  ASSUME IInv, ProducerMove
  PROVE  IInv'
<1>1. Undisturbed' <=> Undisturbed
  BY DEF Undisturbed, ProducerMove
<1>2. Undisturbed => ConfInv'
  BY ProducerConf DEF IInv
<1>3. ~Undisturbed' => ConfInv'
  BY DEF ConfInv
<1> QED
  BY <1>1, <1>2, <1>3, ProducerType, ProducerSafe DEF IInv

\* The same for the consumer controller.
LEMMA ConsumerMoveInv ==
  ASSUME IInv, NEW d, NEW out, NEW handed, ConsumerMove(d, out, handed)
  PROVE  IInv'
<1>1. Undisturbed' <=> Undisturbed
  BY DEF Undisturbed, ConsumerMove, queueSide
<1>2. Undisturbed => ConfInv'
  BY MoveConf DEF IInv
<1>3. ~Undisturbed' => ConfInv'
  BY DEF ConfInv
<1> QED
  BY <1>1, <1>2, <1>3, MoveType, MoveSafe DEF IInv

\* What holds of the producer controller's state as it stands.
LEMMA Standing ==
  ASSUME IInv, Undisturbed
  PROVE  /\ GivenTo(pc.confirmed)
         /\ \A m \in Range(toCc) : m.first => GivenTo(m.n - 1)
         /\ Closed(pc.unconfirmed, Given)
         /\ \A m \in Range(pc.unconfirmed) : m.first => m.n = 1
         /\ \A x \in Range(toPc) : x.t \in {"ack", "request"} => GivenTo(x.confirmed)
  BY DEF IInv, ConfInv, WordInv, ProducerInv

\* What the type invariant says of the variables a producer's step reads.
LEMMA Typed ==
  ASSUME IInv
  PROVE  /\ TypeOK /\ RequestInv /\ pc \in PcStates(produced, Messages)
         /\ produced \in Nat /\ restarts \in Nat /\ Incarnation \in 1 .. Incarnation
         /\ timers \in SUBSET (1 .. produced) /\ asked \in Nat
         /\ attempt \in 0 .. Retries /\ faults \in 0 .. MaxFaults
         /\ toCc \in Seq(Messages) /\ toPc \in Seq(Commands) /\ toQueue \in Seq(QueueCommands)
         /\ fromQueue \in Seq(Answers) /\ queue \in Queues
         /\ \A m \in Messages : m.n \in 1 .. produced
<1>1. TypeOK /\ RequestInv
  BY DEF IInv
<1>2. produced \in Nat /\ restarts \in Nat /\ Incarnation \in 1 .. Incarnation
  BY <1>1, Bounds DEF Incarnation
<1> QED
  BY <1>1, <1>2, PcTyped DEF TypeOK

\* ProducerController::start is such a move.
LEMMA StartMove ==
  ASSUME IInv, Start
  PROVE  ProducerMove
<1>1. PICK p : p = [pc EXCEPT !.producer = TRUE]
  OBVIOUS
<1>2. EndWithRequest(p)
      /\ UNCHANGED <<produced, queue, toQueue, fromQueue, attempt, mishaps, cc, held, given,
                     toCc, toPc, faults, restarts>>
  BY <1>1 DEF Start, queueSide, consumerSide
<1>3. /\ p \in PcStates(produced, Messages) /\ p.current = pc.current /\ p.pending = pc.pending
      /\ p.awaitingLoad = pc.awaitingLoad /\ p.unconfirmed = pc.unconfirmed
      /\ p.confirmed = pc.confirmed /\ p.consumer = pc.consumer /\ p.sendFirst = pc.sendFirst
  BY <1>1, Typed DEF PcStates
<1>4. /\ pc' \in PcStates(produced, Messages) /\ timers' \subseteq 1 .. produced /\ Same(p, pc')
      /\ asked' \in Nat
      /\ asked' # 0 => asked # 0 \/ (~p.awaitingLoad /\ p.consumer)
  BY <1>2, <1>3, Typed, EndFacts
<1>5. pc' \in ProducerStates
  BY <1>4, StatesAre
<1> QED
  BY <1>2, <1>3, <1>4, <1>5, Typed, Standing DEF ProducerMove, Same

\* So is a timed out request to the durable queue, repeated or given up.
LEMMA TimedOutMove ==
  ASSUME IInv, QueueTimedOut
  PROVE  ProducerMove
<1>1. /\ UNCHANGED <<timers, asked, produced, queue, fromQueue, mishaps, cc, held, given,
                     toCc, toPc, restarts>>
      /\ attempt # 0
  BY DEF QueueTimedOut, consumerSide
<1>2. /\ pc' \in PcStates(produced, Messages)
      /\ pc'.current = pc.current /\ pc'.pending = pc.pending
      /\ pc'.awaitingLoad = pc.awaitingLoad /\ pc'.unconfirmed = pc.unconfirmed
      /\ pc'.confirmed = pc.confirmed /\ pc'.consumer = pc.consumer
      /\ pc'.sendFirst = pc.sendFirst
  <2>1. pc' = [pc EXCEPT !.up = FALSE] \/ pc' = pc
    BY DEF QueueTimedOut, TellQueue, Stopped
  <2> QED
    BY <2>1, Typed DEF PcStates
<1>3. pc' \in ProducerStates
  BY <1>2, StatesAre
<1>4. attempt' \in 0 .. Retries /\ faults' \in 0 .. MaxFaults
  <2>1. Retries \in Nat /\ MaxFaults \in Nat
    BY DeliveryAssumption
  <2>2. \/ attempt' = 0 /\ faults' = faults
        \/ /\ attempt < Retries /\ attempt' \in {0, attempt + 1}
           /\ faults < MaxFaults /\ faults' = faults + 1
    BY DEF QueueTimedOut, TellQueue
  <2>3. attempt \in 0 .. Retries /\ faults \in 0 .. MaxFaults
    BY Typed
  <2> QED
    BY <2>1, <2>2, <2>3
<1>5. \/ toQueue' = toQueue
      \/ \E x \in QueueCommands : toQueue' = Append(toQueue, x) /\ NewRequest(x)
  <2> SUFFICES ASSUME toQueue' # toQueue
               PROVE  \E x \in QueueCommands : toQueue' = Append(toQueue, x) /\ NewRequest(x)
    OBVIOUS
  <2>1. PICK x : /\ x = IF pc.awaitingLoad THEN [t |-> "load", to |-> Incarnation]
                        ELSE [t |-> "store", m |-> Plain(pc.pending[1]), to |-> Incarnation]
                 /\ toQueue' = Append(toQueue, x)
    BY DEF QueueTimedOut, TellQueue
  <2>2. CASE pc.awaitingLoad
    <3>1. x = [t |-> "load", to |-> Incarnation]
      BY <2>1, <2>2
    <3>2. x \in QueueCommands /\ x.t = "load"
      BY <3>1, Typed DEF QueueCommands
    <3> QED
      BY <2>1, <2>2, <3>2 DEF NewRequest
  <2>3. CASE ~pc.awaitingLoad
    <3>1. x = [t |-> "store", m |-> Plain(pc.pending[1]), to |-> Incarnation]
      BY <2>1, <2>3
    <3>2. pc.pending # <<>> /\ pc.pending \in Seq(Messages)
      BY <1>1, <2>3, Typed, PcFields DEF RequestInv
    <3>3. pc.pending[1] \in Range(pc.pending) /\ pc.pending[1] \in Messages
      BY <3>2, RangeMember
    <3>4. PICK z : z = Plain(pc.pending[1])
      OBVIOUS
    <3>5. z \in Stores
      BY <3>3, <3>4, Typed, MessageFields
    <3>6. x = [t |-> "store", m |-> z, to |-> Incarnation]
      BY <3>1, <3>4
    <3>7. x \in QueueCommands /\ x.t = "store" /\ x.m = z
      BY <3>5, <3>6, Typed DEF QueueCommands
    <3> QED
      BY <2>1, <2>3, <3>3, <3>4, <3>7 DEF NewRequest
  <2> QED
    BY <2>2, <2>3
<1> QED
  BY <1>1, <1>2, <1>3, <1>4, <1>5, Typed, Standing DEF ProducerMove

\* So is the loss of a message.
LEMMA LoseMove ==
  ASSUME IInv, Lose
  PROVE  ProducerMove
<1>1. /\ UNCHANGED <<pc, timers, asked, produced, queue, toQueue, fromQueue, attempt, mishaps,
                     cc, held, given, toPc, restarts>>
      /\ faults < MaxFaults /\ faults' = faults + 1
      /\ toCc # <<>> /\ toCc' = Tail(toCc)
  BY DEF Lose, producerSide, queueSide, consumerSide
<1>2. toCc' \in Seq(Messages) /\ Range(toCc') \subseteq Range(toCc)
  BY <1>1, Typed, RangeTail
<1>3. faults' \in 0 .. MaxFaults
  <2>1. faults \in 0 .. MaxFaults
    BY Typed
  <2>2. MaxFaults \in Nat /\ faults < MaxFaults /\ faults' = faults + 1
    BY <1>1, DeliveryAssumption
  <2> QED
    BY <2>1, <2>2
<1>4. pc' \in ProducerStates
  BY <1>1, Typed, StatesAre
<1> QED
  BY <1>1, <1>2, <1>3, <1>4, Typed, Standing DEF ProducerMove

\* So is a resend: everything before the oldest unconfirmed message was given.
LEMMA ResendMove ==
  ASSUME IInv, NEW n \in timers, ResendFirst(n)
  PROVE  ProducerMove
<1>1. UNCHANGED <<asked, produced, queue, toQueue, fromQueue, attempt, mishaps, cc, held, given,
                  toPc, faults, restarts>>
  BY DEF ResendFirst, queueSide, consumerSide
<1>2. PICK p : p = IF pc.resendFirst = n THEN [pc EXCEPT !.resendFirst = 0] ELSE pc
  OBVIOUS
<1>3. /\ p \in PcStates(produced, Messages) /\ p.current = pc.current /\ p.pending = pc.pending
      /\ p.awaitingLoad = pc.awaitingLoad /\ p.unconfirmed = pc.unconfirmed
      /\ p.confirmed = pc.confirmed /\ p.consumer = pc.consumer /\ p.sendFirst = pc.sendFirst
  <2>1. 0 \in 0 .. produced
    BY Typed
  <2> QED
    BY <1>2, <2>1, Typed DEF PcStates
<1>4. PICK running : running = timers \ {n}
  OBVIOUS
<1>5. ScheduleResend(p, running) /\ running \in SUBSET (1 .. produced)
  BY <1>2, <1>4, Typed DEF ResendFirst
<1>6. pc' \in PcStates(produced, Messages) /\ timers' \subseteq 1 .. produced /\ Same(p, pc')
  BY <1>3, <1>5, Typed, ScheduleFacts
<1>7. pc' \in ProducerStates
  BY <1>6, StatesAre
<1>8. /\ toCc' \in Seq(Messages)
      /\ \A m \in Range(toCc') :
           m \in Range(toCc) \/ \E x \in Range(pc.unconfirmed) : Plain(m) = Plain(x)
      /\ Undisturbed => \A m \in Range(toCc') : m.first => GivenTo(m.n - 1)
  <2>1. CASE toCc' = toCc
    BY <2>1, Typed, Standing
  <2>2. CASE toCc' # toCc
    <3>1. PICK h, m : h = Head(pc.unconfirmed) /\ m = [h EXCEPT !.first = TRUE]
      OBVIOUS
    <3>2. pc.unconfirmed # <<>> /\ toCc' = Append(toCc, m)
      BY <1>2, <1>3, <2>2, <3>1 DEF ResendFirst
    <3>3. pc.unconfirmed \in Seq(Messages)
      BY Typed, PcFields
    <3>4. h \in Range(pc.unconfirmed) /\ h \in Messages
      BY <3>1, <3>2, <3>3, RangeTail
    <3>5. m \in Messages /\ m.n = h.n /\ m.v = h.v
      BY <3>1, <3>4 DEF Messages
    <3>6. toCc \in Seq(Messages)
      BY Typed
    <3>7. Append(toCc, m) \in Seq(Messages) /\ Range(Append(toCc, m)) = Range(toCc) \cup {m}
      BY <3>5, <3>6, RangeAppend
    <3>8. Plain(m) = Plain(h)
      BY <3>5 DEF Plain
    <3>9. ASSUME Undisturbed PROVE GivenTo(m.n - 1)
      <4>1. Closed(pc.unconfirmed, Given)
        BY <3>9, Standing
      <4>2. \A k \in 1 .. (h.n - 1) : k \in Given
        BY <3>1, <3>2, <3>3, <4>1, ClosedHead
      <4> QED
        BY <3>5, <4>2 DEF GivenTo
    <3> QED
      BY <3>2, <3>4, <3>7, <3>8, <3>9, Standing
  <2> QED
    BY <2>1, <2>2
<1> QED
  BY <1>1, <1>3, <1>6, <1>7, <1>8, Typed, Standing DEF ProducerMove, Same

\* So are the four commands of the consumer controller.
LEMMA CommandMove ==
  ASSUME IInv, Command
  PROVE  ProducerMove
<1>1. /\ UNCHANGED <<produced, queue, fromQueue, mishaps, cc, held, given, restarts>>
      /\ pc.up /\ toPc # <<>> /\ toPc' = Tail(toPc)
  BY DEF Command, consumerSide
<1>2. PICK c : c = Head(toPc)
  OBVIOUS
<1>3. c \in Commands /\ c \in Range(toPc) /\ Range(toPc') \subseteq Range(toPc)
  BY <1>1, <1>2, Typed, RangeTail
<1>4. PICK b : b = IF c.t \in {"ack", "request"} THEN OnConfirmed(pc, c.confirmed) ELSE pc
  OBVIOUS
<1>5. PICK p \in {b, Stopped(b)} :
        /\ \/ /\ b.confirmed > pc.confirmed
              /\ TellQueue(b, [t |-> "confirmed", n |-> b.confirmed], attempt, p)
           \/ ~(b.confirmed > pc.confirmed) /\ p = b /\ toQueue' = toQueue /\ attempt' = attempt
        /\ RefusalCounted(p) /\ CarryOut(c, p)
  BY <1>2, <1>4 DEF Command
<1>6. /\ b \in PcStates(produced, Messages)
      /\ b.up = pc.up /\ b.current = pc.current /\ b.pending = pc.pending
      /\ b.awaitingLoad = pc.awaitingLoad /\ b.sendFirst = pc.sendFirst
      /\ b.consumer = pc.consumer
      /\ Range(b.unconfirmed) \subseteq Range(pc.unconfirmed)
      /\ b.confirmed \in Nat
      /\ b.confirmed > pc.confirmed => b.confirmed # 0
      /\ Undisturbed =>
           /\ GivenTo(b.confirmed) /\ Closed(b.unconfirmed, Given)
           /\ Numbers(pc.unconfirmed) \subseteq Given \cup Numbers(b.unconfirmed)
  <2>1. CASE c.t \in {"ack", "request"}
    <3>1. PICK n : n = c.confirmed
      OBVIOUS
    <3>2. n \in Nat
      BY <1>3, <2>1, <3>1 DEF Commands
    <3>3. b = OnConfirmed(pc, n)
      BY <1>4, <2>1, <3>1
    <3>4. PICK N, M, d, G : N = produced /\ M = Messages /\ d = pc /\ G = Given
      OBVIOUS
    <3>5. N \in Nat /\ (\A m \in M : m.n \in 1 .. N) /\ d \in PcStates(N, M)
      BY <3>4, Typed
    <3>6. b = OnConfirmed(d, n)
      BY <3>3, <3>4
    <3>7. b \in PcStates(N, M) /\ Forgets(d, b, n, G)
      BY <3>2, <3>5, <3>6, OnConfirmedFacts
    <3>8. ASSUME Undisturbed
          PROVE  /\ GivenTo(b.confirmed) /\ Closed(b.unconfirmed, Given)
                 /\ Numbers(pc.unconfirmed) \subseteq Given \cup Numbers(b.unconfirmed)
      <4>1. GivenTo(pc.confirmed) /\ GivenTo(n) /\ Closed(pc.unconfirmed, Given)
        BY <1>3, <2>1, <3>1, <3>8, Standing
      <4>2. 1 .. n \subseteq Given
        BY <4>1 DEF GivenTo
      <4> QED
        BY <3>4, <3>7, <4>1, <4>2 DEF Forgets
    <3>9. b.confirmed \in Nat
      BY <3>7, PcFields
    <3> QED
      BY <3>4, <3>7, <3>8, <3>9 DEF Forgets
  <2>2. CASE c.t \notin {"ack", "request"}
    <3>1. b = pc
      BY <1>4, <2>2
    <3>2. pc.confirmed \in Nat
      BY Typed, PcFields
    <3>3. ~(pc.confirmed > pc.confirmed)
      BY <3>2
    <3> QED
      BY <3>1, <3>2, <3>3, Typed, Standing
  <2> QED
    BY <2>1, <2>2
<1>7. \/ toQueue' = toQueue
      \/ \E x \in QueueCommands : toQueue' = Append(toQueue, x) /\ NewRequest(x)
  <2> SUFFICES ASSUME toQueue' # toQueue
               PROVE  \E x \in QueueCommands : toQueue' = Append(toQueue, x) /\ NewRequest(x)
    OBVIOUS
  <2>1. PICK n, x : n = b.confirmed /\ x = [t |-> "confirmed", n |-> n]
    OBVIOUS
  <2>2. b.confirmed > pc.confirmed /\ toQueue' = Append(toQueue, x)
    BY <1>5, <2>1 DEF TellQueue
  <2>3. n \in Nat \ {0} /\ (Undisturbed => GivenTo(n))
    BY <1>6, <2>1, <2>2
  <2>4. x \in QueueCommands /\ x.t = "confirmed" /\ x.n = n
    BY <2>1, <2>3 DEF QueueCommands
  <2> QED
    BY <2>2, <2>3, <2>4 DEF NewRequest
<1>15. attempt' \in {0, attempt} /\ faults' \in 0 .. MaxFaults
  <2>1. faults \in 0 .. MaxFaults /\ MaxFaults \in Nat
    BY Typed, DeliveryAssumption
  <2>2. CASE p = b
    <3>1. faults' = faults
      BY <1>1, <1>5, <1>6, <2>2 DEF RefusalCounted
    <3>2. attempt' \in {0, attempt}
      BY <1>5 DEF TellQueue
    <3> QED
      BY <2>1, <3>1, <3>2
  <2>3. CASE p # b
    <3>1. faults < MaxFaults /\ attempt' = 0
      BY <1>5, <2>3 DEF TellQueue
    <3>2. faults' = faults \/ faults' = faults + 1
      BY <1>5 DEF RefusalCounted
    <3> QED
      BY <2>1, <3>1, <3>2
  <2> QED
    BY <2>2, <2>3
<1>16. /\ p \in PcStates(produced, Messages)
       /\ p.current = pc.current /\ p.pending = pc.pending
       /\ p.awaitingLoad = pc.awaitingLoad /\ p.sendFirst = pc.sendFirst
       /\ p.consumer = pc.consumer
       /\ Range(p.unconfirmed) \subseteq Range(pc.unconfirmed)
       /\ Undisturbed =>
            /\ GivenTo(p.confirmed) /\ Closed(p.unconfirmed, Given)
            /\ Numbers(pc.unconfirmed) \subseteq Given \cup Numbers(p.unconfirmed)
  <2>1. PICK q : q = [b EXCEPT !.up = FALSE]
    OBVIOUS
  <2>2. /\ q \in PcStates(produced, Messages)
        /\ q.current = b.current /\ q.pending = b.pending /\ q.confirmed = b.confirmed
        /\ q.awaitingLoad = b.awaitingLoad /\ q.sendFirst = b.sendFirst
        /\ q.consumer = b.consumer /\ q.unconfirmed = b.unconfirmed
    BY <1>6, <2>1 DEF PcStates
  <2>3. p = b \/ p = q
    BY <1>5, <2>1 DEF Stopped
  <2> QED
    BY <1>6, <2>2, <2>3
<1>8. \A q \in PcStates(produced, Messages) : ScheduleResend(q, timers) =>
        pc' \in PcStates(produced, Messages) /\ timers' \subseteq 1 .. produced /\ Same(q, pc')
  BY Typed, ScheduleFacts
<1>9. \A q \in PcStates(produced, Messages) : EndWithRequest(q) =>
        /\ pc' \in PcStates(produced, Messages) /\ timers' \subseteq 1 .. produced /\ Same(q, pc')
        /\ asked' \in Nat
        /\ asked' # 0 => asked # 0 \/ (~q.awaitingLoad /\ q.consumer)
  BY Typed, EndFacts
<1>10. ASSUME NEW q \in PcStates(produced, Messages), Same(q, pc'),
              pc' \in PcStates(produced, Messages), timers' \subseteq 1 .. produced,
              asked' \in Nat, asked' # 0 => asked # 0 \/ (~q.awaitingLoad /\ q.consumer),
              q.current = p.current, q.pending = p.pending, q.awaitingLoad = p.awaitingLoad,
              q.unconfirmed = p.unconfirmed, q.confirmed = p.confirmed,
              p.consumer => q.consumer,
              toCc' \in Seq(Messages),
              \A m \in Range(toCc') : m \in Range(toCc) \/ m \in Range(pc.unconfirmed),
              Undisturbed =>
                /\ q.sendFirst = p.sendFirst
                /\ q.consumer # p.consumer =>
                     Registration \in Range(toPc) /\ Registration \notin Range(toPc')
       PROVE  ProducerMove
  <2>1. pc' \in ProducerStates
    BY <1>10, StatesAre
  <2>2. ASSUME Undisturbed, NEW m \in Range(toCc'), m.first PROVE GivenTo(m.n - 1)
    <3>1. CASE m \in Range(toCc)
      BY <2>2, <3>1, Standing
    <3>2. CASE m \in Range(pc.unconfirmed)
      <4>1. m.n - 1 = 0
        BY <2>2, <3>2, Standing
      <4> QED
        BY <4>1 DEF GivenTo
    <3> QED
      BY <1>10, <3>1, <3>2
  <2>3. attempt' \in 0 .. Retries /\ (attempt' # 0 => attempt # 0)
    <3>1. attempt \in 0 .. Retries /\ Retries \in Nat
      BY Typed, DeliveryAssumption
    <3> QED
      BY <1>15, <3>1
  <2>4. /\ pc'.current = pc.current /\ pc'.pending = pc.pending
        /\ pc'.awaitingLoad = pc.awaitingLoad
        /\ Range(pc'.unconfirmed) \subseteq Range(pc.unconfirmed)
        /\ pc'.confirmed = p.confirmed /\ pc'.unconfirmed = p.unconfirmed
        /\ pc'.sendFirst = q.sendFirst /\ pc'.consumer = q.consumer
        /\ pc.consumer => pc'.consumer
        /\ asked' # 0 => asked # 0 \/ (~pc.awaitingLoad /\ pc'.consumer)
    BY <1>10, <1>16 DEF Same
  <2>5. Undisturbed =>
          /\ GivenTo(pc'.confirmed)
          /\ \A m \in Range(toCc') : m.first => GivenTo(m.n - 1)
          /\ Closed(pc'.unconfirmed, Given)
          /\ Numbers(pc.unconfirmed) \subseteq Given \cup Numbers(pc'.unconfirmed)
          /\ pc'.sendFirst = pc.sendFirst
          /\ pc'.consumer # pc.consumer =>
               Registration \in Range(toPc) /\ Registration \notin Range(toPc')
    BY <1>10, <1>16, <2>2, <2>4
  <2> QED
    BY <1>1, <1>7, <1>10, <1>15, <2>1, <2>3, <2>4, <2>5 DEF ProducerMove
<1>17. c.t \notin {"ack", "request"} => p = pc
  <2>1. pc.confirmed \in Nat
    BY Typed, PcFields
  <2> QED
    BY <1>4, <1>5, <2>1
<1>11. CASE c.t = "register"
  <2>1. p = pc
    BY <1>11, <1>17
  <2>2. PICK q : q = [p EXCEPT !.consumer = TRUE, !.sendFirst = TRUE, !.requested = FALSE,
                               !.requestedTo = 0, !.awaitingMsg = FALSE]
    OBVIOUS
  <2>3. EndWithRequest(q) /\ toCc' = toCc
    BY <1>5, <1>11, <2>2 DEF CarryOut
  <2>4. /\ q \in PcStates(produced, Messages)
        /\ q.current = p.current /\ q.pending = p.pending /\ q.awaitingLoad = p.awaitingLoad
        /\ q.unconfirmed = p.unconfirmed /\ q.confirmed = p.confirmed /\ q.consumer
        /\ q.sendFirst
    BY <1>16, <2>2 DEF PcStates
  <2>5. ASSUME Undisturbed
        PROVE  /\ q.sendFirst = p.sendFirst
               /\ Registration \in Range(toPc) /\ Registration \notin Range(toPc')
    <3>1. c = Registration
      BY <1>3, <1>11 DEF Commands, Registration
    <3>2. RegisterInv
      BY <2>5 DEF IInv, ConfInv
    <3>3. ~pc.consumer /\ pc.sendFirst /\ AtMostOnce(toPc, Registration)
      BY <1>3, <3>1, <3>2 DEF RegisterInv
    <3>4. Registration \notin Range(Tail(toPc))
      BY <1>1, <1>2, <3>1, <3>3, Typed, OnceTail
    <3>5. pc.sendFirst \in BOOLEAN /\ q.sendFirst \in BOOLEAN
      BY <2>4, Typed, PcFields
    <3> QED
      BY <1>1, <1>3, <2>1, <2>4, <3>1, <3>3, <3>4, <3>5
  <2> QED
    BY <1>9, <1>10, <2>3, <2>4, <2>5, Typed
<1>12. CASE c.t = "request"
  <2>1. PICK q : q = [p EXCEPT !.requestedTo = c.upTo, !.requested = TRUE]
    OBVIOUS
  <2>2. EndWithRequest(q) /\ toCc' = toCc
    BY <1>5, <1>12, <2>1 DEF CarryOut
  <2>3. c.upTo \in Nat
    BY <1>3, <1>12 DEF Commands
  <2>4. /\ q \in PcStates(produced, Messages)
        /\ q.current = p.current /\ q.pending = p.pending /\ q.awaitingLoad = p.awaitingLoad
        /\ q.unconfirmed = p.unconfirmed /\ q.confirmed = p.confirmed
        /\ q.consumer = p.consumer /\ q.sendFirst = p.sendFirst
    BY <1>16, <2>1, <2>3 DEF PcStates
  <2> QED
    BY <1>9, <1>10, <2>2, <2>4, Typed
<1>13. CASE c.t = "ack"
  <2>1. ScheduleResend(p, timers) /\ toCc' = toCc /\ asked' = asked
    BY <1>5, <1>13 DEF CarryOut
  <2> QED
    BY <1>16, <1>8, <1>10, <2>1, Typed
<1>14. CASE c.t = "resend"
  <2>1. p = pc
    BY <1>14, <1>17
  <2>2. PICK u, k, s : u = pc.unconfirmed /\ k = c.from /\ s = From(u, k)
    OBVIOUS
  <2>3. /\ ScheduleResend(p, timers) /\ asked' = asked
        /\ toCc' = IF p.consumer THEN toCc \o s ELSE toCc
    BY <1>5, <1>14, <2>1, <2>2 DEF CarryOut
  <2>4. u \in Seq(Messages)
    BY <2>2, Typed, PcFields
  <2>5. From(u, k) \in Seq(Messages) /\ \A x : x \in Range(From(u, k)) <=> x \in Range(u) /\ x.n >= k
    BY <2>4, FromRange
  <2>6. s \in Seq(Messages) /\ toCc \in Seq(Messages)
    BY <2>2, <2>5, Typed
  <2>7. toCc \o s \in Seq(Messages) /\ Range(toCc \o s) = Range(toCc) \cup Range(s)
    BY <2>6, RangeConcat
  <2>8. toCc' \in Seq(Messages)
        /\ \A m \in Range(toCc') : m \in Range(toCc) \/ m \in Range(pc.unconfirmed)
    BY <2>2, <2>3, <2>5, <2>6, <2>7
  <2> QED
    BY <1>16, <1>8, <1>10, <2>3, <2>8, Typed
<1> QED
  <2>1. c.t \in {"register", "request", "ack", "resend"}
    BY <1>3 DEF Commands
  <2> QED
    BY <1>11, <1>12, <1>13, <1>14, <2>1

-----------------------------------------------------------------------------
(* A message is numbered; the controller is spawned again                  *)

\* Types only grow.
LEMMA TypesGrow ==
  ASSUME TypeOK, produced' \in Nat, produced <= produced', restarts' \in Nat, restarts <= restarts'
  PROVE  /\ Messages \subseteq Messages' /\ Stores \subseteq Stores'
         /\ queue \in Queues' /\ cc \in ConsumerStates' /\ toCc \in Seq(Messages')
         /\ toPc \in Seq(Commands') /\ toQueue \in Seq(QueueCommands')
         /\ fromQueue \in Seq(Answers') /\ pc \in PcStates(produced', Messages')
         /\ timers \subseteq 1 .. produced' /\ given \subseteq Stores'
         /\ \A m \in Messages' : m.n \in 1 .. produced'
<1>1. produced \in Nat /\ restarts \in Nat /\ Incarnation \in Nat
  BY Bounds
<1>2. PICK a, b, c, d : a = produced /\ b = produced' /\ c = Incarnation /\ d = Incarnation'
  OBVIOUS
<1>3. /\ 1 .. produced \subseteq 1 .. produced' /\ 1 .. Incarnation \subseteq 1 .. Incarnation'
      /\ 0 .. Incarnation \subseteq 0 .. Incarnation' /\ 0 .. produced \subseteq 0 .. produced'
      /\ 1 .. (produced + 1) \subseteq 1 .. (produced' + 1)
  <2>1. PICK e, f : e = restarts /\ f = restarts'
    OBVIOUS
  <2>2. e \in Nat /\ f \in Nat /\ e <= f
    BY <1>1, <2>1
  <2>3. c = e + 1 /\ d = f + 1
    BY <1>2, <2>1 DEF Incarnation
  <2>4. a \in Nat /\ b \in Nat /\ a <= b /\ c \in Nat /\ d \in Nat /\ c <= d
    BY <1>1, <1>2, <2>2, <2>3
  <2>5. /\ 1 .. a \subseteq 1 .. b /\ 1 .. c \subseteq 1 .. d /\ 0 .. c \subseteq 0 .. d
        /\ 0 .. a \subseteq 0 .. b /\ 1 .. (a + 1) \subseteq 1 .. (b + 1)
    BY <2>4
  <2> QED
    BY <1>2, <2>5
<1>4. Messages \subseteq Messages' /\ Stores \subseteq Stores'
  BY <1>3 DEF Messages, Stores
<1>5. \A s \in Seq(Stores) : s \in Seq(Stores')
  BY <1>4, SeqGrow
<1>6. \A s \in Seq(Messages) : s \in Seq(Messages')
  BY <1>4, SeqGrow
<1>7. Queues \subseteq Queues'
  BY <1>3, <1>5 DEF Queues
<1>8. QueueCommands \subseteq QueueCommands'
  BY <1>3, <1>4 DEF QueueCommands
<1>9. Answers \subseteq Answers'
  BY <1>3, <1>7 DEF Answers
<1>10. ConsumerStates \subseteq ConsumerStates'
  BY <1>3, <1>6 DEF ConsumerStates
<1>11. PcStates(produced, Messages) \subseteq PcStates(produced', Messages')
  BY <1>3, <1>6 DEF PcStates
<1>12. toQueue \in Seq(QueueCommands')
  <2>1. toQueue \in Seq(QueueCommands)
    BY DEF TypeOK
  <2> QED
    BY <1>8, <2>1, SeqGrow
<1>13. fromQueue \in Seq(Answers')
  <2>1. fromQueue \in Seq(Answers)
    BY DEF TypeOK
  <2> QED
    BY <1>9, <2>1, SeqGrow
<1>14. Commands' = Commands
  BY DEF Commands
<1>15. \A m \in Messages' : m.n \in 1 .. produced'
  BY DEF Messages
<1> QED
  BY <1>3, <1>4, <1>6, <1>7, <1>10, <1>11, <1>12, <1>13, <1>14, <1>15, PcTyped DEF TypeOK

\* A new controller waits for its load, and no store under way is its own.
LEMMA RestartInv ==
  ASSUME IInv, Restart
  PROVE  IInv'
<1>1. /\ UNCHANGED <<produced, queue, mishaps, cc, held, given, toCc>>
      /\ restarts < MaxRestarts /\ restarts' = restarts + 1
      /\ faults < MaxFaults /\ faults' = faults + 1
      /\ pc' \in {NewPc, Stopped(NewPc)} /\ timers' = {} /\ asked' = 0 /\ fromQueue' = <<>>
      /\ attempt' \in {0, 1} /\ toPc' = <<>>
  BY DEF Restart, consumerSide
<1>2. /\ TypeOK /\ RequestInv /\ RecInv /\ produced \in Nat /\ restarts \in Nat
      /\ toQueue \in Seq(QueueCommands)
  BY Typed DEF IInv
<1>3. /\ produced' \in Nat /\ produced <= produced' /\ restarts' \in Nat /\ restarts <= restarts'
      /\ Incarnation' = Incarnation + 1 /\ Incarnation \in Nat
      /\ Incarnation' \in 1 .. Incarnation'
  BY <1>1, <1>2 DEF Incarnation
<1>4. /\ Messages \subseteq Messages' /\ Stores \subseteq Stores'
      /\ queue \in Queues' /\ cc \in ConsumerStates' /\ toCc \in Seq(Messages')
      /\ toQueue \in Seq(QueueCommands') /\ given \subseteq Stores'
  BY <1>2, <1>3, TypesGrow
<1>5. PICK x : x = [t |-> "load", to |-> Incarnation + 1]
  OBVIOUS
<1>6. x \in QueueCommands' /\ x.t = "load"
  BY <1>3, <1>5 DEF QueueCommands
<1>7. PICK left \in {<<>>, toQueue} : toQueue' = Append(left, x) \/ toQueue' = left
  BY <1>5 DEF Restart
<1>8. toQueue' \in Seq(QueueCommands') /\ Range(toQueue') \subseteq Range(toQueue) \cup {x}
  <2>1. left \in Seq(QueueCommands') /\ Range(left) \subseteq Range(toQueue)
    <3>1. <<>> \in Seq(QueueCommands') /\ Range(<<>>) = {}
      BY DEF Range
    <3> QED
      BY <1>4, <1>7, <3>1
  <2>2. Append(left, x) \in Seq(QueueCommands') /\ Range(Append(left, x)) = Range(left) \cup {x}
    BY <1>6, <2>1, RangeAppend
  <2> QED
    BY <1>7, <2>1, <2>2
<1>9. /\ pc' \in PcStates(produced', Messages')
      /\ pc'.pending = <<>> /\ pc'.unconfirmed = <<>> /\ pc'.awaitingLoad
  <2>1. 1 \in 1 .. (produced' + 1) /\ 0 \in 0 .. produced'
    BY <1>1, <1>2
  <2>2. <<>> \in Seq(Messages')
    OBVIOUS
  <2>3. CASE pc' = NewPc
    BY <2>1, <2>2, <2>3 DEF NewPc, PcStates
  <2>4. CASE pc' = Stopped(NewPc)
    BY <2>1, <2>2, <2>4 DEF NewPc, Stopped, PcStates
  <2> QED
    BY <1>1, <2>3, <2>4
<1>10. TypeOK'
  <2>1. pc' \in ProducerStates'
    BY <1>9, StatesAre
  <2>2. attempt' \in 0 .. Retries /\ faults' \in 0 .. MaxFaults /\ restarts' \in 0 .. MaxRestarts
    BY <1>1, <1>2, DeliveryAssumption DEF TypeOK
  <2>3. toPc' \in Seq(Commands') /\ fromQueue' \in Seq(Answers') /\ asked' \in Nat
    BY <1>1
  <2>4. held' \in Nat /\ produced' \in 0 .. MaxMessages
        /\ mishaps' \subseteq {"reloaded", "displaced"}
    BY <1>1, <1>2 DEF TypeOK
  <2> QED
    BY <1>1, <1>4, <1>8, <2>1, <2>2, <2>3, <2>4 DEF TypeOK
<1>11. Range(fromQueue') = {} /\ pc'.pending = <<>> /\ pc'.unconfirmed = <<>> /\ pc'.awaitingLoad
       /\ Range(pc'.pending) = {} /\ Range(pc'.unconfirmed) = {} /\ Len(pc'.pending) = 0
  BY <1>1, <1>9 DEF Range
<1>12. \A y \in Range(toQueue') : y.t = "store" => y.to # Incarnation'
  <2>1. \A y \in Range(toQueue) : y \in QueueCommands
    BY <1>2, RangeEmpty
  <2>2. \A y \in QueueCommands : y.t = "store" => y.to \in 1 .. Incarnation
    BY DEF QueueCommands
  <2>3. \A k \in 1 .. Incarnation : k # Incarnation'
    BY <1>3
  <2> QED
    BY <1>6, <1>8, <2>1, <2>2, <2>3
<1>13. RequestInv'
  BY <1>1, <1>11, <1>12 DEF RequestInv, Has
<1>14. StoredInv'
  BY <1>11, <1>12 DEF StoredInv
<1>15. ASSUME SafeInv PROVE SafeInv'
  <2>1. \A m : Safe(m)' <=> Safe(m)
    BY <1>1 DEF Safe
  <2> QED
    BY <1>1, <1>11, <1>15, <2>1 DEF SafeInv
<1>16. RecInv'
  BY <1>1, <1>2, <1>14, <1>15 DEF RecInv
<1>17. restarts' # 0
  BY <1>1, <1>2
<1> QED
  BY <1>10, <1>13, <1>16, <1>17 DEF IInv, ConfInv, Undisturbed

\* A new number is above all others, and what is below it is given, kept or pending.
LEMMA MsgInv ==
  ASSUME IInv, Msg
  PROVE  IInv'
<1>1. PICK z : z = [n |-> pc.current, v |-> produced + 1, first |-> pc.sendFirst,
                    pc |-> Incarnation]
  OBVIOUS
<1>2. PICK p, x : /\ p = [pc EXCEPT !.awaitingMsg = FALSE, !.current = @ + 1, !.pending = <<z>>]
                  /\ x = [t |-> "store", m |-> Plain(z), to |-> Incarnation]
  OBVIOUS
<1>3. /\ asked > 0 /\ produced < MaxMessages /\ asked' = asked - 1 /\ produced' = produced + 1
      /\ pc.up
      /\ mishaps' = IF pc.pending = <<>> THEN mishaps ELSE mishaps \cup {"displaced"}
      /\ UNCHANGED <<queue, fromQueue, cc, held, given, toCc, toPc, restarts>>
  BY DEF Msg, consumerSide
<1>25. PICK q \in {p, Stopped(p)} :
         TellQueue(p, x, 1, q) /\ RefusalCounted(q) /\ ScheduleResend(q, timers)
  BY <1>1, <1>2 DEF Msg
<1>4. /\ TypeOK /\ RequestInv /\ RecInv /\ produced \in Nat /\ restarts \in Nat
      /\ Incarnation \in 1 .. Incarnation /\ pc \in PcStates(produced, Messages)
      /\ asked \in Nat
  BY Typed DEF IInv
<1>5. /\ produced' \in Nat /\ produced <= produced' /\ restarts' \in Nat /\ restarts <= restarts'
      /\ Incarnation' = Incarnation
  BY <1>3, <1>4 DEF Incarnation
<1>6. /\ Messages \subseteq Messages' /\ Stores \subseteq Stores'
      /\ queue \in Queues' /\ cc \in ConsumerStates' /\ toCc \in Seq(Messages')
      /\ toPc \in Seq(Commands') /\ toQueue \in Seq(QueueCommands')
      /\ fromQueue \in Seq(Answers') /\ pc \in PcStates(produced', Messages')
      /\ timers \subseteq 1 .. produced' /\ given \subseteq Stores'
      /\ \A m \in Messages' : m.n \in 1 .. produced'
  BY <1>4, <1>5, TypesGrow
<1>7. /\ pc.current \in 1 .. (produced + 1) /\ pc.sendFirst \in BOOLEAN
      /\ pc.pending \in Seq(Messages) /\ pc.consumer \in BOOLEAN
      /\ pc.unconfirmed \in Seq(Messages)
  BY <1>4, PcFields
<1>8. /\ pc.current \in 1 .. produced' /\ produced + 1 \in 1 .. produced'
      /\ pc.current + 1 \in 1 .. (produced' + 1)
  BY <1>3, <1>4, <1>7
<1>9. /\ z \in Messages' /\ z.n = pc.current /\ z.first = pc.sendFirst
      /\ Plain(z) \in Stores' /\ Plain(z).n = pc.current
  BY <1>1, <1>4, <1>5, <1>7, <1>8 DEF Messages, Stores, Plain
<1>10. <<z>> \in Seq(Messages') /\ Range(<<z>>) = {z} /\ Len(<<z>>) = 1 /\ <<z>> # <<>>
  BY <1>9 DEF Range
<1>26. /\ p \in PcStates(produced', Messages') /\ p.up = pc.up
       /\ p.pending = <<z>> /\ p.current = pc.current + 1 /\ p.awaitingLoad = pc.awaitingLoad
       /\ p.unconfirmed = pc.unconfirmed /\ p.confirmed = pc.confirmed
       /\ p.consumer = pc.consumer /\ p.sendFirst = pc.sendFirst
  <2>1. PICK k, s : k = pc.current + 1 /\ s = <<z>>
    OBVIOUS
  <2>2. p = [pc EXCEPT !.awaitingMsg = FALSE, !.current = k, !.pending = s]
    BY <1>2, <2>1
  <2>3. k \in 1 .. (produced' + 1) /\ s \in Seq(Messages')
    BY <1>8, <1>10, <2>1
  <2>4. /\ p \in PcStates(produced', Messages') /\ p.up = pc.up
        /\ p.pending = s /\ p.current = k /\ p.awaitingLoad = pc.awaitingLoad
        /\ p.unconfirmed = pc.unconfirmed /\ p.confirmed = pc.confirmed
        /\ p.consumer = pc.consumer /\ p.sendFirst = pc.sendFirst
    BY <1>6, <2>2, <2>3 DEF PcStates
  <2> QED
    BY <2>1, <2>4
<1>11. /\ q \in PcStates(produced', Messages')
       /\ q.pending = <<z>> /\ q.current = pc.current + 1 /\ q.awaitingLoad = pc.awaitingLoad
       /\ q.unconfirmed = pc.unconfirmed /\ q.confirmed = pc.confirmed
       /\ q.consumer = pc.consumer /\ q.sendFirst = pc.sendFirst
  <2>1. PICK y : y = [p EXCEPT !.up = FALSE]
    OBVIOUS
  <2>2. /\ y \in PcStates(produced', Messages')
        /\ y.pending = p.pending /\ y.current = p.current /\ y.awaitingLoad = p.awaitingLoad
        /\ y.unconfirmed = p.unconfirmed /\ y.confirmed = p.confirmed
        /\ y.consumer = p.consumer /\ y.sendFirst = p.sendFirst
    BY <1>26, <2>1 DEF PcStates
  <2>3. q = p \/ q = y
    BY <1>25, <2>1 DEF Stopped
  <2> QED
    BY <1>26, <2>2, <2>3
<1>12. /\ pc' \in PcStates(produced', Messages') /\ timers' \subseteq 1 .. produced'
       /\ Same(q, pc')
  <2>1. PICK N, M, running : N = produced' /\ M = Messages' /\ running = timers
    OBVIOUS
  <2>2. /\ N \in Nat /\ (\A m \in M : m.n \in 1 .. N) /\ q \in PcStates(N, M)
        /\ running \in SUBSET (1 .. N) /\ ScheduleResend(q, running)
    BY <1>5, <1>25, <1>6, <1>11, <2>1
  <2>3. pc' \in PcStates(N, M) /\ timers' \subseteq 1 .. N /\ Same(q, pc')
    BY <2>2, ScheduleFacts
  <2> QED
    BY <2>1, <2>3
<1>13. /\ pc'.pending = <<z>> /\ pc'.current = pc.current + 1
       /\ pc'.awaitingLoad = pc.awaitingLoad /\ pc'.unconfirmed = pc.unconfirmed
       /\ pc'.confirmed = pc.confirmed /\ pc'.consumer = pc.consumer
       /\ pc'.sendFirst = pc.sendFirst
  BY <1>11, <1>12 DEF Same
<1>14. /\ x \in QueueCommands' /\ x.t = "store" /\ x.m = Plain(z) /\ x.to = Incarnation
  BY <1>2, <1>4, <1>5, <1>9 DEF QueueCommands
<1>15. /\ toQueue' = toQueue \/ toQueue' = Append(toQueue, x)
       /\ toQueue' \in Seq(QueueCommands') /\ Range(toQueue') \subseteq Range(toQueue) \cup {x}
  <2>1. toQueue' = toQueue \/ toQueue' = Append(toQueue, x)
    BY <1>25 DEF TellQueue
  <2>2. Append(toQueue, x) \in Seq(QueueCommands')
        /\ Range(Append(toQueue, x)) = Range(toQueue) \cup {x}
    BY <1>6, <1>14, RangeAppend
  <2> QED
    BY <1>6, <2>1, <2>2
<1>16. ~pc.awaitingLoad /\ pc.consumer
  BY <1>3, <1>4 DEF RequestInv
<1>17. TypeOK'
  <2>1. pc' \in ProducerStates'
    BY <1>12, StatesAre
  <2>2. attempt' \in 0 .. Retries /\ asked' \in Nat /\ produced' \in 0 .. MaxMessages
    <3>1. attempt' \in {0, 1}
      BY <1>25 DEF TellQueue
    <3> QED
      BY <1>3, <1>4, <3>1, DeliveryAssumption
  <2>3. held' \in Nat /\ mishaps' \subseteq {"reloaded", "displaced"}
        /\ restarts' \in 0 .. MaxRestarts
    BY <1>3, <1>4 DEF TypeOK
  <2>4. faults' \in 0 .. MaxFaults
    <3>1. faults \in 0 .. MaxFaults /\ MaxFaults \in Nat
      BY <1>4, DeliveryAssumption DEF TypeOK
    <3>2. CASE q = p
      BY <1>3, <1>25, <1>26, <3>1, <3>2 DEF RefusalCounted
    <3>3. CASE q # p
      <4>1. faults < MaxFaults
        BY <1>25, <3>3 DEF TellQueue
      <4>2. faults' = faults \/ faults' = faults + 1
        BY <1>25 DEF RefusalCounted
      <4> QED
        BY <3>1, <4>1, <4>2
    <3> QED
      BY <3>2, <3>3
  <2> QED
    BY <1>3, <1>6, <1>12, <1>15, <2>1, <2>2, <2>3, <2>4 DEF TypeOK
<1>18. RequestInv'
  <2>1. asked' # 0 => asked # 0
    BY <1>3, <1>4
  <2>2. Len(pc'.pending) <= 1 /\ pc'.pending # <<>>
    BY <1>10, <1>13
  <2> QED
    BY <1>13, <1>16, <2>1, <2>2 DEF RequestInv
<1>19. \A m : Safe(m)' <=> Safe(m)
  BY <1>3 DEF Safe
<1>20. ASSUME StoredInv PROVE StoredInv'
  <2>1. Range(pc'.pending) = {z}
    BY <1>10, <1>13
  <2>2. pc.current \in Nat
    BY <1>7
  <2>3. ASSUME NEW k \in Nat, k < pc.current PROVE k < pc.current + 1 /\ pc.current # k
    BY <2>2, <2>3
  <2>4. ASSUME NEW y \in Range(fromQueue), y.t = "stored"
        PROVE  /\ y.n < pc.current + 1 /\ z.n # y.n
    <3>1. y.n < pc.current
      BY <1>20, <2>4 DEF StoredInv
    <3>2. y \in Answers
      BY <1>4, <2>4, RangeEmpty DEF TypeOK
    <3>3. y.n \in Nat
      BY <1>4, <2>4, <3>2 DEF Answers
    <3> QED
      BY <1>9, <2>3, <3>1, <3>3
  <2>5. ASSUME NEW y \in Range(toQueue), y.t = "store", y.to = Incarnation
        PROVE  /\ y.m.n < pc.current + 1 /\ z.n # y.m.n
    <3>1. y.m.n < pc.current
      BY <1>20, <2>5 DEF StoredInv
    <3>2. y \in QueueCommands
      BY <1>4, <2>5, RangeEmpty DEF TypeOK
    <3>3. y.m.n \in Nat
      BY <1>4, <2>5, <3>2 DEF QueueCommands, Stores
    <3> QED
      BY <1>9, <2>3, <3>1, <3>3
  <2>6. z.n < pc.current + 1 /\ x.m.n < pc.current + 1
    BY <1>9, <1>14, <2>2
  <2> QED
    BY <1>3, <1>5, <1>13, <1>14, <1>15, <2>1, <2>4, <2>5, <2>6 DEF StoredInv
<1>21. ASSUME SafeInv PROVE SafeInv'
  BY <1>3, <1>13, <1>19, <1>21 DEF SafeInv
<1>22. RecInv'
  BY <1>3, <1>4, <1>20, <1>21 DEF RecInv
<1>23. ASSUME Undisturbed' PROVE ConfInv'
  <2>1. Undisturbed /\ pc.pending = <<>>
    BY <1>3, <1>23 DEF Undisturbed
  <2>2. ConsumerInv /\ WordInv /\ ProducerInv /\ LoadInv /\ FirstInv /\ RegisterInv
    BY <2>1 DEF IInv, ConfInv
  <2>3. Given' = Given
    BY <1>3 DEF Given
  <2>4. ConsumerInv'
    BY <1>3, <2>2, <2>3 DEF ConsumerInv, InStep, Counts, Ready, Numbers
  <2>5. WordInv'
    BY <1>3, <1>13, <1>14, <1>15, <2>2, <2>3 DEF WordInv, GivenTo
  <2>6. Range(pc'.pending) = {z} /\ Numbers(pc'.pending) = {z.n} /\ Numbers(pc.pending) = {}
    BY <1>10, <1>13, <2>1, NumbersNone DEF Numbers
  <2>7. ProducerInv'
    <3>1. z.first => z.n = 1
      BY <1>9, <2>1, <2>2 DEF FirstInv
    <3>2. \A k \in 1 .. (pc.current - 1) : k \in Given \cup Numbers(pc.unconfirmed)
      BY <2>2, <2>6 DEF ProducerInv
    <3>3. \A k \in 1 .. (z.n - 1) : k \in Given \cup Numbers(pc.unconfirmed)
      BY <1>9, <3>2
    <3>4. \A k \in 1 .. ((pc.current + 1) - 1) :
            k \in Given \cup Numbers(pc.unconfirmed) \cup {z.n}
      <4>1. \A k \in 1 .. ((pc.current + 1) - 1) : k \in 1 .. (pc.current - 1) \/ k = pc.current
        BY <1>7
      <4> QED
        BY <1>9, <3>2, <4>1
    <3> QED
      BY <1>13, <2>2, <2>3, <2>6, <3>1, <3>3, <3>4 DEF ProducerInv
  <2>8. LoadInv'
    <3>1. Leading(toQueue, "load")
      BY <2>2 DEF LoadInv
    <3>2. Leading(toQueue', "load")
      BY <1>6, <1>14, <1>15, <3>1, LeadingAppend
    <3>3. Has(toQueue', "load") => Has(toQueue, "load")
      BY <1>14, <1>15 DEF Has
    <3> QED
      BY <1>3, <1>13, <2>2, <3>2, <3>3 DEF LoadInv, NewQueue
  <2>9. FirstInv'
    <3>1. Has(toQueue', "confirmed") => Has(toQueue, "confirmed")
      BY <1>14, <1>15 DEF Has
    <3>2. pc'.pending # <<>>
      BY <1>10, <1>13
    <3> QED
      BY <1>3, <1>9, <1>13, <2>2, <2>6, <3>1, <3>2 DEF FirstInv
  <2>10. RegisterInv'
    BY <1>3, <1>13, <1>16, <2>2 DEF RegisterInv
  <2> QED
    BY <2>4, <2>5, <2>7, <2>8, <2>9, <2>10 DEF ConfInv
<1>24. ~Undisturbed' => ConfInv'
  BY DEF ConfInv
<1> QED
  BY <1>17, <1>18, <1>22, <1>23, <1>24 DEF IInv

-----------------------------------------------------------------------------
(* The durable queue and its answers                                       *)

\* What every answered step leaves alone, and what it takes away.
LEMMA AnswerTaken ==
  ASSUME IInv, QueueAnswered
  PROVE  /\ UNCHANGED <<produced, queue, toQueue, cc, held, given, toPc, faults, restarts>>
         /\ fromQueue # <<>> /\ fromQueue' = Tail(fromQueue)
         /\ Head(fromQueue) \in Range(fromQueue) /\ Head(fromQueue) \in Answers
         /\ fromQueue' \in Seq(Answers) /\ Range(fromQueue') \subseteq Range(fromQueue)
<1>1. /\ UNCHANGED <<produced, queue, toQueue, cc, held, given, toPc, faults, restarts>>
      /\ fromQueue # <<>> /\ fromQueue' = Tail(fromQueue)
  BY DEF QueueAnswered, consumerSide
<1> QED
  BY <1>1, Typed, RangeTail

\* The messages of a loaded queue, as the controller keeps them.
LEMMA LoadedList ==
  ASSUME TypeOK, NEW s \in Seq(Stores),
         NEW u, u = [i \in DOMAIN s |->
                       [n |-> s[i].n, v |-> s[i].v, first |-> FALSE, pc |-> Incarnation]]
  PROVE  /\ u \in Seq(Messages)
         /\ \A m \in Range(u) : Plain(m) \in Range(s)
         /\ s = <<>> => u = <<>>
<1>1. DOMAIN s = 1 .. Len(s) /\ Len(s) \in Nat
  OBVIOUS
<1>2. produced \in Nat /\ restarts \in Nat /\ Incarnation \in 1 .. Incarnation
  BY Bounds DEF Incarnation
<1>3. ASSUME NEW i \in 1 .. Len(s)
      PROVE  u[i] \in Messages /\ Plain(u[i]) = s[i]
  <2>1. s[i] \in Stores
    OBVIOUS
  <2>2. u[i] = [n |-> s[i].n, v |-> s[i].v, first |-> FALSE, pc |-> Incarnation]
    BY <1>1
  <2> QED
    BY <1>2, <2>1, <2>2 DEF Stores, Messages, Plain
<1>4. u = [i \in 1 .. Len(s) |-> u[i]]
  BY <1>1
<1>5. u \in Seq(Messages) /\ Len(u) = Len(s)
  <2>1. \E k \in Nat : u \in [1 .. k -> Messages]
    BY <1>1, <1>3, <1>4
  <2>2. u \in Seq(Messages)
    BY <2>1, SeqDef
  <2>3. DOMAIN u = 1 .. Len(s)
    BY <1>4
  <2> QED
    BY <1>1, <2>2, <2>3
<1>6. ASSUME NEW m \in Range(u) PROVE Plain(m) \in Range(s)
  <2>1. PICK i \in 1 .. Len(u) : u[i] = m
    BY <1>5, RangeMember
  <2>2. Plain(m) = s[i] /\ i \in 1 .. Len(s)
    BY <1>3, <1>5, <2>1
  <2> QED
    BY <2>2, RangeMember
<1>7. s = <<>> => Len(u) = 0
  BY <1>5
<1> QED
  BY <1>5, <1>6, <1>7

\* The state loaded holds what was safe; without a restart it is a new one.
LEMMA LoadedInv ==
  ASSUME IInv, QueueAnswered, Head(fromQueue).t = "loaded"
  PROVE  IInv'
<1>1. /\ UNCHANGED <<produced, queue, toQueue, cc, held, given, toPc, faults, restarts>>
      /\ fromQueue # <<>> /\ fromQueue' = Tail(fromQueue)
      /\ Head(fromQueue) \in Range(fromQueue) /\ Head(fromQueue) \in Answers
      /\ fromQueue' \in Seq(Answers) /\ Range(fromQueue') \subseteq Range(fromQueue)
  BY AnswerTaken
<1>2. PICK a, q : a = Head(fromQueue) /\ q = a.q
  OBVIOUS
<1>3. a.t = "loaded" /\ q \in Queues /\ a \in Range(fromQueue)
  <2>1. a.t = "loaded" /\ a \in Answers
    BY <1>1, <1>2
  <2> QED
    BY <1>1, <1>2, <2>1 DEF Answers
<1>4. Loaded(q)
  BY <1>2, <1>3 DEF QueueAnswered
<1>5. PICK u : u = [i \in DOMAIN q.unconfirmed |->
                     [n |-> q.unconfirmed[i].n, v |-> q.unconfirmed[i].v, first |-> FALSE,
                      pc |-> Incarnation]]
  OBVIOUS
<1>6. q.current \in 1 .. (produced + 1) /\ q.confirmed \in Nat /\ q.unconfirmed \in Seq(Stores)
  BY <1>3 DEF Queues
<1>7. /\ TypeOK /\ RequestInv /\ RecInv /\ produced \in Nat /\ restarts \in Nat
      /\ pc \in PcStates(produced, Messages)
  BY Typed DEF IInv
<1>8. /\ u \in Seq(Messages) /\ \A m \in Range(u) : Plain(m) \in Range(q.unconfirmed)
      /\ q.unconfirmed = <<>> => u = <<>>
  <2>1. PICK s : s = q.unconfirmed
    OBVIOUS
  <2>2. s \in Seq(Stores) /\ u = [i \in DOMAIN s |->
                     [n |-> s[i].n, v |-> s[i].v, first |-> FALSE, pc |-> Incarnation]]
    BY <1>5, <1>6, <2>1
  <2>3. /\ u \in Seq(Messages) /\ \A m \in Range(u) : Plain(m) \in Range(s)
        /\ s = <<>> => u = <<>>
    BY <1>7, <2>2, LoadedList
  <2> QED
    BY <2>1, <2>3
<1>9. PICK p : p = [pc EXCEPT !.current = q.current, !.confirmed = q.confirmed,
                              !.awaitingLoad = FALSE, !.unconfirmed = u]
  OBVIOUS
<1>10. /\ EndWithRequest(p) /\ toCc' = toCc
       /\ attempt' = IF pc.awaitingLoad THEN 0 ELSE attempt
       /\ mishaps' = IF pc.awaitingLoad THEN mishaps ELSE mishaps \cup {"reloaded"}
  BY <1>4, <1>5, <1>9 DEF Loaded
<1>11. /\ p \in PcStates(produced, Messages) /\ p.current = q.current /\ p.pending = pc.pending
       /\ ~p.awaitingLoad /\ p.unconfirmed = u /\ p.confirmed = q.confirmed
       /\ p.consumer = pc.consumer /\ p.sendFirst = pc.sendFirst
  <2>1. PICK k, l : k = q.current /\ l = q.confirmed
    OBVIOUS
  <2>2. p = [pc EXCEPT !.current = k, !.confirmed = l, !.awaitingLoad = FALSE, !.unconfirmed = u]
    BY <1>9, <2>1
  <2>3. k \in 1 .. (produced + 1) /\ l \in Nat
    BY <1>6, <2>1
  <2>4. /\ p \in PcStates(produced, Messages) /\ p.current = k /\ p.pending = pc.pending
        /\ ~p.awaitingLoad /\ p.unconfirmed = u /\ p.confirmed = l
        /\ p.consumer = pc.consumer /\ p.sendFirst = pc.sendFirst
    BY <1>7, <1>8, <2>2, <2>3 DEF PcStates
  <2> QED
    BY <2>1, <2>4
<1>12. /\ pc' \in PcStates(produced, Messages) /\ timers' \subseteq 1 .. produced /\ Same(p, pc')
       /\ asked' \in Nat
       /\ asked' # 0 => asked # 0 \/ (~p.awaitingLoad /\ p.consumer)
  BY <1>10, <1>11, Typed, EndFacts
<1>13. /\ pc'.current = q.current /\ pc'.pending = pc.pending /\ ~pc'.awaitingLoad
       /\ pc'.unconfirmed = u /\ pc'.confirmed = q.confirmed /\ pc'.consumer = pc.consumer
       /\ pc'.sendFirst = pc.sendFirst
  BY <1>11, <1>12 DEF Same
<1>14. Incarnation' = Incarnation /\ \A m : Safe(m)' <=> Safe(m)
  BY <1>1 DEF Incarnation, Safe
<1>15. TypeOK'
  <2>1. /\ Messages' = Messages /\ Stores' = Stores
        /\ Queues' = Queues /\ QueueCommands' = QueueCommands /\ Answers' = Answers
        /\ ProducerStates' = ProducerStates /\ ConsumerStates' = ConsumerStates
        /\ Commands' = Commands
    BY <1>1, TypesKeep
  <2>2. pc' \in ProducerStates
    BY <1>12, StatesAre
  <2>3. attempt' \in 0 .. Retries
    BY <1>7, <1>10, DeliveryAssumption DEF TypeOK
  <2>4. mishaps' \subseteq {"reloaded", "displaced"}
    BY <1>7, <1>10 DEF TypeOK
  <2> QED
    BY <1>1, <1>7, <1>10, <1>12, <2>1, <2>2, <2>3, <2>4 DEF TypeOK
<1>16. RequestInv'
  <2>1. attempt' # 0 => pc'.pending # <<>>
    BY <1>7, <1>10, <1>13 DEF RequestInv
  <2>2. asked' # 0 => pc'.consumer
    BY <1>7, <1>11, <1>12, <1>13 DEF RequestInv
  <2> QED
    BY <1>7, <1>13, <2>1, <2>2 DEF RequestInv
<1>17. RecInv'
  <2> SUFFICES ASSUME "reloaded" \notin mishaps' PROVE StoredInv' /\ SafeInv'
    BY DEF RecInv
  <2>1. pc.awaitingLoad /\ "reloaded" \notin mishaps
    BY <1>10
  <2>2. /\ pc.pending = <<>> /\ ~Has(fromQueue, "stored")
        /\ \A x \in Range(toQueue) : x.t = "store" => x.to # Incarnation
    BY <1>7, <2>1 DEF RequestInv
  <2>3. StoredInv /\ SafeInv
    BY <1>7, <2>1 DEF RecInv
  <2>4. Range(pc'.pending) = {}
    BY <1>13, <2>2 DEF Range
  <2>5. \A x \in Range(fromQueue') : x.t # "stored"
    BY <1>1, <2>2 DEF Has
  <2>6. StoredInv'
    BY <1>1, <1>14, <2>2, <2>4, <2>5 DEF StoredInv
  <2>7. \A m \in Range(u) : Safe(Plain(m))
    BY <1>2, <1>3, <1>8, <2>3 DEF SafeInv
  <2>8. SafeInv'
    BY <1>1, <1>10, <1>13, <1>14, <2>3, <2>7 DEF SafeInv
  <2> QED
    BY <2>6, <2>8
<1>18. ASSUME Undisturbed' PROVE ConfInv'
  <2>1. Undisturbed
    BY <1>1, <1>10, <1>18 DEF Undisturbed
  <2>2. ConsumerInv /\ WordInv /\ ProducerInv /\ LoadInv /\ FirstInv /\ RegisterInv
    BY <2>1 DEF IInv, ConfInv
  <2>3. q = NewQueue /\ Has(fromQueue, "loaded")
    BY <1>2, <1>3, <2>2 DEF LoadInv, Has
  <2>4. q.current = 1 /\ q.confirmed = 0 /\ u = <<>>
    BY <1>8, <2>3 DEF NewQueue
  <2>5. pc.sendFirst
    <3>1. pc.sendFirst \in BOOLEAN
      BY <1>7, PcFields
    <3> QED
      BY <2>2, <2>3, <3>1 DEF LoadInv
  <2>6. Given' = Given /\ pc.unconfirmed = <<>>
    BY <1>1, <2>2, <2>5 DEF Given, FirstInv
  <2>7. ConsumerInv'
    BY <1>1, <2>2, <2>6 DEF ConsumerInv, InStep, Counts, Ready, Numbers
  <2>8. WordInv'
    <3>1. 1 .. 0 \subseteq Given
      OBVIOUS
    <3> QED
      BY <1>1, <1>10, <1>13, <2>2, <2>4, <2>6, <3>1 DEF WordInv, GivenTo
  <2>9. ProducerInv'
    <3>1. pc'.unconfirmed = pc.unconfirmed /\ 1 .. (pc'.current - 1) = {}
      BY <1>13, <2>4, <2>6
    <3> QED
      BY <1>13, <2>2, <2>6, <3>1 DEF ProducerInv
  <2>10. LoadInv'
    <3>1. fromQueue \in Seq(Answers) /\ Leading(fromQueue, "loaded")
      BY <1>7, <2>2 DEF TypeOK, LoadInv
    <3>2. Leading(Tail(fromQueue), "loaded")
      BY <1>1, <3>1, LeadingTail
    <3>3. Has(fromQueue', "stored") => Has(fromQueue, "stored")
      BY <1>1 DEF Has
    <3> QED
      BY <1>1, <1>13, <2>2, <2>5, <3>2, <3>3 DEF LoadInv, NewQueue
  <2>11. FirstInv'
    BY <1>1, <1>10, <1>13, <2>2, <2>4, <2>5 DEF FirstInv
  <2>12. RegisterInv'
    BY <1>1, <1>13, <2>2 DEF RegisterInv
  <2> QED
    BY <2>7, <2>8, <2>9, <2>10, <2>11, <2>12 DEF ConfInv
<1>19. ~Undisturbed' => ConfInv'
  BY DEF ConfInv
<1> QED
  BY <1>15, <1>16, <1>17, <1>18, <1>19 DEF IInv

\* The answer to a store that the controller does not wait for changes nothing.
LEMMA StoredLate ==
  ASSUME IInv, QueueAnswered, Head(fromQueue).t = "stored",
         ~(pc.pending # <<>> /\ pc.pending[1].n = Head(fromQueue).n)
  PROVE  ProducerMove
<1>1. /\ UNCHANGED <<produced, queue, toQueue, cc, held, given, toPc, faults, restarts>>
      /\ fromQueue # <<>> /\ fromQueue' = Tail(fromQueue)
  BY AnswerTaken
<1>2. /\ ScheduleResend(pc, timers) /\ UNCHANGED <<toCc, attempt, asked, mishaps>>
  BY DEF QueueAnswered, Stored
<1>3. /\ pc' \in PcStates(produced, Messages) /\ timers' \subseteq 1 .. produced /\ Same(pc, pc')
  <2>1. PICK p, running : p = pc /\ running = timers
    OBVIOUS
  <2>2. p \in PcStates(produced, Messages) /\ running \in SUBSET (1 .. produced)
        /\ ScheduleResend(p, running)
    BY <1>2, <2>1, Typed
  <2>3. pc' \in PcStates(produced, Messages) /\ timers' \subseteq 1 .. produced /\ Same(p, pc')
    BY <2>2, Typed, ScheduleFacts
  <2> QED
    BY <2>1, <2>3
<1>4. pc' \in ProducerStates
  BY <1>3, StatesAre
<1> QED
  BY <1>1, <1>2, <1>3, <1>4, Typed, Standing DEF ProducerMove, Same

\* The pending message is in the durable queue: it is sent and kept until it is confirmed.
LEMMA StoredAwaited ==
  ASSUME IInv, QueueAnswered, Head(fromQueue).t = "stored",
         pc.pending # <<>>, pc.pending[1].n = Head(fromQueue).n
  PROVE  IInv'
<1>1. /\ UNCHANGED <<produced, queue, toQueue, cc, held, given, toPc, faults, restarts>>
      /\ fromQueue # <<>> /\ fromQueue' = Tail(fromQueue)
      /\ Head(fromQueue) \in Range(fromQueue) /\ Head(fromQueue) \in Answers
      /\ fromQueue' \in Seq(Answers) /\ Range(fromQueue') \subseteq Range(fromQueue)
  BY AnswerTaken
<1>2. PICK a, m, s : a = Head(fromQueue) /\ m = pc.pending[1] /\ s = Append(pc.unconfirmed, m)
  OBVIOUS
<1>3. PICK p : p = [pc EXCEPT !.sendFirst = @ /\ ~m.first, !.unconfirmed = s, !.pending = <<>>]
  OBVIOUS
<1>4. a \in Range(fromQueue) /\ a.t = "stored" /\ m.n = a.n
  BY <1>1, <1>2
<1>5. /\ toCc' = IF pc.consumer THEN Append(toCc, m) ELSE toCc
      /\ ScheduleResend(p, timers) /\ attempt' = 0 /\ UNCHANGED <<asked, mishaps>>
  BY <1>2, <1>3, <1>4 DEF QueueAnswered, Stored
<1>6. /\ TypeOK /\ RequestInv /\ RecInv /\ produced \in Nat /\ restarts \in Nat
      /\ pc \in PcStates(produced, Messages) /\ toCc \in Seq(Messages)
      /\ timers \in SUBSET (1 .. produced)
  BY Typed DEF IInv
<1>7. /\ pc.pending \in Seq(Messages) /\ pc.unconfirmed \in Seq(Messages)
      /\ pc.sendFirst \in BOOLEAN /\ pc.consumer \in BOOLEAN
  BY <1>6, PcFields
<1>8. m \in Range(pc.pending) /\ m \in Messages
  BY <1>2, <1>7, RangeMember
<1>9. m.n \in Nat \ {0} /\ m.first \in BOOLEAN
  BY <1>6, <1>8, MessageFields
<1>10. s \in Seq(Messages) /\ Range(s) = Range(pc.unconfirmed) \cup {m}
  BY <1>2, <1>7, <1>8, RangeAppend
<1>11. toCc' \in Seq(Messages) /\ Range(toCc') \subseteq Range(toCc) \cup {m}
  <2>1. Append(toCc, m) \in Seq(Messages) /\ Range(Append(toCc, m)) = Range(toCc) \cup {m}
    BY <1>6, <1>8, RangeAppend
  <2> QED
    BY <1>5, <1>6, <2>1
<1>12. /\ p \in PcStates(produced, Messages) /\ p.current = pc.current /\ p.pending = <<>>
       /\ p.awaitingLoad = pc.awaitingLoad /\ p.unconfirmed = s
       /\ p.confirmed = pc.confirmed /\ p.consumer = pc.consumer
       /\ p.sendFirst = (pc.sendFirst /\ ~m.first)
  <2>1. PICK e, z : e = (pc.sendFirst /\ ~m.first) /\ z = <<>>
    OBVIOUS
  <2>2. e \in BOOLEAN /\ z \in Seq(Messages)
    BY <2>1
  <2>3. p = [pc EXCEPT !.sendFirst = e, !.unconfirmed = s, !.pending = z]
    BY <1>3, <2>1
  <2>4. /\ p \in PcStates(produced, Messages) /\ p.current = pc.current /\ p.pending = z
        /\ p.awaitingLoad = pc.awaitingLoad /\ p.unconfirmed = s
        /\ p.confirmed = pc.confirmed /\ p.consumer = pc.consumer /\ p.sendFirst = e
    BY <1>6, <1>10, <2>2, <2>3 DEF PcStates
  <2> QED
    BY <2>1, <2>4
<1>13. pc' \in PcStates(produced, Messages) /\ timers' \subseteq 1 .. produced /\ Same(p, pc')
  BY <1>5, <1>6, <1>12, Typed, ScheduleFacts
<1>14. /\ pc'.current = pc.current /\ pc'.pending = <<>>
       /\ pc'.awaitingLoad = pc.awaitingLoad /\ pc'.unconfirmed = s
       /\ pc'.confirmed = pc.confirmed /\ pc'.consumer = pc.consumer
       /\ pc'.sendFirst = (pc.sendFirst /\ ~m.first)
  BY <1>12, <1>13 DEF Same
<1>15. Incarnation' = Incarnation /\ \A x : Safe(x)' <=> Safe(x)
  BY <1>1 DEF Incarnation, Safe
<1>16. ~pc.awaitingLoad /\ Range(pc'.pending) = {} /\ Len(pc'.pending) = 0
  <2>1. ~pc.awaitingLoad
    BY <1>6 DEF RequestInv
  <2> QED
    BY <1>14, <2>1 DEF Range
<1>17. TypeOK'
  <2>1. /\ Messages' = Messages /\ Stores' = Stores
        /\ Queues' = Queues /\ QueueCommands' = QueueCommands /\ Answers' = Answers
        /\ ProducerStates' = ProducerStates /\ ConsumerStates' = ConsumerStates
        /\ Commands' = Commands
    BY <1>1, TypesKeep
  <2>2. pc' \in ProducerStates
    BY <1>13, StatesAre
  <2>3. attempt' \in 0 .. Retries
    BY <1>5, DeliveryAssumption
  <2> QED
    BY <1>1, <1>5, <1>6, <1>11, <1>13, <2>1, <2>2, <2>3 DEF TypeOK
<1>18. RequestInv'
  BY <1>5, <1>6, <1>14, <1>16 DEF RequestInv
<1>19. ASSUME StoredInv PROVE StoredInv'
  BY <1>1, <1>14, <1>15, <1>16, <1>19 DEF StoredInv
<1>20. ASSUME StoredInv, SafeInv PROVE SafeInv'
  <2>1. Safe(Plain(m))
    BY <1>4, <1>8, <1>20 DEF StoredInv
  <2>2. \A x \in Range(toCc') : Safe(Plain(x))
    BY <1>11, <1>20, <2>1 DEF SafeInv
  <2>3. \A x \in Range(s) : Safe(Plain(x))
    BY <1>10, <1>20, <2>1 DEF SafeInv
  <2> QED
    BY <1>1, <1>14, <1>15, <1>20, <2>2, <2>3 DEF SafeInv
<1>21. RecInv'
  BY <1>5, <1>6, <1>19, <1>20 DEF RecInv
<1>22. ASSUME Undisturbed' PROVE ConfInv'
  <2>1. Undisturbed
    BY <1>1, <1>5, <1>22 DEF Undisturbed
  <2>2. ConsumerInv /\ WordInv /\ ProducerInv /\ LoadInv /\ FirstInv /\ RegisterInv
    BY <2>1 DEF IInv, ConfInv
  <2>3. Given' = Given
    BY <1>1 DEF Given
  <2>4. ConsumerInv'
    BY <1>1, <2>2, <2>3 DEF ConsumerInv, InStep, Counts, Ready, Numbers
  <2>5. /\ m.first => m.n = 1
        /\ \A k \in 1 .. (m.n - 1) : k \in Given \cup Numbers(pc.unconfirmed)
    BY <1>8, <2>2 DEF ProducerInv
  <2>6. WordInv'
    <3>1. m.first => 1 .. (m.n - 1) \subseteq Given
      <4>1. m.first => m.n - 1 = 0
        BY <2>5
      <4> QED
        BY <4>1
    <3>2. \A x \in Range(toCc') : x.first => 1 .. (x.n - 1) \subseteq Given
      BY <1>11, <2>2, <3>1 DEF WordInv, GivenTo
    <3> QED
      BY <1>1, <1>14, <2>2, <2>3, <3>2 DEF WordInv, GivenTo
  <2>7. ProducerInv'
    <3>1. Closed(pc.unconfirmed, Given)
      BY <2>2 DEF ProducerInv
    <3>2. Closed(s, Given)
      <4>1. Closed(Append(pc.unconfirmed, m), Given)
        BY <1>7, <1>8, <2>5, <3>1, ClosedAppend
      <4> QED
        BY <1>2, <4>1
    <3>3. Numbers(s) = Numbers(pc.unconfirmed) \cup {m.n}
      BY <1>10 DEF Numbers
    <3>4. Numbers(pc.pending) = {m.n}
      <4>1. \A x \in Range(pc.pending) : x = m
        BY <1>6, <1>7, <1>8, OneInRange DEF RequestInv
      <4> QED
        BY <1>8, <4>1 DEF Numbers
    <3>5. \A k \in 1 .. (pc.current - 1) : k \in Given \cup Numbers(s)
      BY <2>2, <3>3, <3>4 DEF ProducerInv
    <3>6. \A x \in Range(s) : x.first => x.n = 1
      BY <1>10, <2>2, <2>5 DEF ProducerInv
    <3> QED
      BY <1>14, <1>16, <2>3, <3>2, <3>5, <3>6 DEF ProducerInv
  <2>8. LoadInv'
    <3>1. fromQueue \in Seq(Answers) /\ Leading(fromQueue, "loaded")
      BY <1>6, <2>2 DEF TypeOK, LoadInv
    <3>2. Leading(Tail(fromQueue), "loaded") /\ ~Has(fromQueue, "loaded")
      BY <1>1, <1>2, <1>4, <3>1, LeadingTail
    <3>3. Has(fromQueue, "stored") /\ ~Has(toQueue, "load")
      BY <1>4, <2>2 DEF LoadInv, Has
    <3>4. ~Has(fromQueue', "loaded")
      BY <1>1, <3>2 DEF Has
    <3>5. \A x \in Range(fromQueue') : x.t # "loaded"
      BY <3>4 DEF Has
    <3> QED
      BY <1>1, <1>14, <1>16, <2>2, <3>2, <3>3, <3>4, <3>5 DEF LoadInv
  <2>9. FirstInv'
    <3>1. pc.sendFirst => m.first
      BY <1>8, <2>2 DEF FirstInv
    <3> QED
      BY <1>14, <3>1 DEF FirstInv
  <2>10. RegisterInv'
    BY <1>1, <1>14, <2>2 DEF RegisterInv
  <2> QED
    BY <2>4, <2>6, <2>7, <2>8, <2>9, <2>10 DEF ConfInv
<1>23. ~Undisturbed' => ConfInv'
  BY DEF ConfInv
<1> QED
  BY <1>17, <1>18, <1>21, <1>22, <1>23 DEF IInv

\* Any answer of the durable queue keeps the invariant.
LEMMA QueueAnsweredInv ==
  ASSUME IInv, QueueAnswered
  PROVE  IInv'
<1>1. Head(fromQueue).t \in {"loaded", "stored"}
  <2>1. Head(fromQueue) \in Answers
    BY AnswerTaken
  <2> QED
    BY <2>1 DEF Answers
<1> QED
  BY <1>1, LoadedInv, StoredLate, StoredAwaited, ProducerMoveInv

\* What a step of the durable queue leaves alone.
QueueMove(c, a) ==
  /\ UNCHANGED <<pc, timers, asked, produced, attempt, mishaps, cc, held, given, toCc, toPc,
                 faults, restarts>>
  /\ toQueue # <<>> /\ c = Head(toQueue) /\ toQueue' = Tail(toQueue)
  /\ queue' \in Queues
  /\ fromQueue' = fromQueue \/ (a \in Answers /\ fromQueue' = Append(fromQueue, a))

\* What such a step keeps.
LEMMA QueueMoveFacts ==
  ASSUME IInv, NEW c, NEW a, QueueMove(c, a)
  PROVE  /\ TypeOK' /\ Incarnation' = Incarnation /\ Given' = Given
         /\ toQueue' \in Seq(QueueCommands) /\ Range(toQueue') \subseteq Range(toQueue)
         /\ c \in QueueCommands /\ c \in Range(toQueue)
         /\ \A x \in Range(fromQueue') :
              x \in Range(fromQueue) \/ (fromQueue' = Append(fromQueue, a) /\ x = a)
         /\ \A k : GivenTo(k)' <=> GivenTo(k)
         /\ Leading(toQueue, "load") => /\ Leading(toQueue', "load")
                                        /\ c.t # "load" => ~Has(toQueue, "load")
         /\ fromQueue \in Seq(Answers)
<1>1. /\ UNCHANGED <<pc, timers, asked, produced, attempt, mishaps, cc, held, given, toCc, toPc,
                 faults, restarts>>
      /\ toQueue # <<>> /\ c = Head(toQueue) /\ toQueue' = Tail(toQueue)
      /\ queue' \in Queues
      /\ fromQueue' = fromQueue \/ (a \in Answers /\ fromQueue' = Append(fromQueue, a))
  BY DEF QueueMove
<1>2. TypeOK /\ toQueue \in Seq(QueueCommands) /\ fromQueue \in Seq(Answers)
  BY Typed
<1>3. /\ toQueue' \in Seq(QueueCommands) /\ Range(toQueue') \subseteq Range(toQueue)
      /\ c \in QueueCommands /\ c \in Range(toQueue)
  BY <1>1, <1>2, RangeTail
<1>4. /\ fromQueue' \in Seq(Answers)
      /\ \A x \in Range(fromQueue') :
           x \in Range(fromQueue) \/ (fromQueue' = Append(fromQueue, a) /\ x = a)
  <2>1. a \in Answers => /\ Append(fromQueue, a) \in Seq(Answers)
                         /\ Range(Append(fromQueue, a)) = Range(fromQueue) \cup {a}
    BY <1>2, RangeAppend
  <2> QED
    BY <1>1, <1>2, <2>1
<1>5. Leading(toQueue, "load") => /\ Leading(toQueue', "load")
                                  /\ c.t # "load" => ~Has(toQueue, "load")
  BY <1>1, <1>2, LeadingTail
<1>6. TypeOK'
  <2>1. /\ Messages' = Messages /\ Stores' = Stores
        /\ Queues' = Queues /\ QueueCommands' = QueueCommands /\ Answers' = Answers
        /\ ProducerStates' = ProducerStates /\ ConsumerStates' = ConsumerStates
        /\ Commands' = Commands
    BY <1>1, TypesKeep
  <2> QED
    BY <1>1, <1>2, <1>3, <1>4, <2>1 DEF TypeOK
<1>7. Incarnation' = Incarnation /\ Given' = Given /\ \A k : GivenTo(k)' <=> GivenTo(k)
  BY <1>1 DEF Incarnation, Given, GivenTo
<1> QED
  BY <1>2, <1>3, <1>4, <1>5, <1>6, <1>7

\* What the durable queue does for the invariant when it keeps what is safe:
\* what is left are the answer and what a load finds.
LEMMA QueueMoveInv ==
  ASSUME IInv, NEW c, NEW a, QueueMove(c, a),
         \A m \in Stores : Safe(m) => Safe(m)',
         fromQueue' # fromQueue /\ a.t = "loaded" =>
           a.q = queue /\ queue' = queue /\ c.t = "load",
         fromQueue' # fromQueue /\ a.t = "stored" =>
           /\ c.t = "store" /\ c.to = Incarnation /\ a.n = c.m.n
           /\ \A m \in Range(pc.pending) : c.m = Plain(m) => Safe(Plain(m))',
         c.t = "load" => queue' = queue,
         Undisturbed => GivenTo(queue'.confirmed)
  PROVE  IInv'
<1>1. /\ UNCHANGED <<pc, timers, asked, produced, attempt, mishaps, cc, held, given, toCc, toPc,
                     faults, restarts>>
      /\ fromQueue' = fromQueue \/ (a \in Answers /\ fromQueue' = Append(fromQueue, a))
  BY DEF QueueMove
<1>2. /\ TypeOK' /\ Incarnation' = Incarnation /\ Given' = Given
      /\ toQueue' \in Seq(QueueCommands) /\ Range(toQueue') \subseteq Range(toQueue)
      /\ c \in QueueCommands /\ c \in Range(toQueue)
      /\ \A x \in Range(fromQueue') :
           x \in Range(fromQueue) \/ (fromQueue' = Append(fromQueue, a) /\ x = a)
      /\ \A k : GivenTo(k)' <=> GivenTo(k)
      /\ Leading(toQueue, "load") => /\ Leading(toQueue', "load")
                                     /\ c.t # "load" => ~Has(toQueue, "load")
      /\ fromQueue \in Seq(Answers)
  BY QueueMoveFacts
<1>3. /\ TypeOK /\ RequestInv /\ RecInv /\ produced \in Nat /\ restarts \in Nat
      /\ pc \in PcStates(produced, Messages) /\ queue \in Queues
  BY Typed DEF IInv
<1>4. pc.pending \in Seq(Messages) /\ pc.unconfirmed \in Seq(Messages) /\ cc.stash \in Seq(Messages)
      /\ toCc \in Seq(Messages) /\ given \subseteq Stores
  BY <1>3, PcFields, ConsumerFields DEF TypeOK
<1>5. \A x \in Range(fromQueue') : x \in Range(fromQueue) \/ (fromQueue' # fromQueue /\ x = a)
  <2>1. Append(fromQueue, a) # fromQueue
    <3>1. Len(Append(fromQueue, a)) = Len(fromQueue) + 1 /\ Len(fromQueue) \in Nat
      BY <1>2
    <3> QED
      BY <3>1
  <2> QED
    BY <1>2, <2>1
<1>6. \A m \in Messages : Plain(m) \in Stores
  BY <1>3, MessageFields
<1>7. RequestInv'
  <2>1. ASSUME pc.awaitingLoad PROVE ~Has(fromQueue', "stored")
    <3>1. ~Has(fromQueue, "stored") /\ \A x \in Range(toQueue) : x.t = "store" => x.to # Incarnation
      BY <1>3, <2>1 DEF RequestInv
    <3>2. fromQueue' # fromQueue => a.t # "stored"
      BY <1>2, <3>1
    <3> QED
      BY <1>5, <3>1, <3>2 DEF Has
  <2> QED
    BY <1>1, <1>2, <1>3, <2>1 DEF RequestInv
<1>8. ASSUME StoredInv PROVE StoredInv'
  <2>1. ASSUME NEW x \in Range(fromQueue'), x.t = "stored"
        PROVE  /\ x.n < pc.current
               /\ \A m \in Range(pc.pending) : m.n = x.n => Safe(Plain(m))'
    <3>1. CASE x \in Range(fromQueue)
      <4>1. \A m \in Range(pc.pending) : Plain(m) \in Stores
        BY <1>4, <1>6, RangeEmpty
      <4> QED
        BY <1>8, <2>1, <3>1, <4>1 DEF StoredInv
    <3>2. CASE fromQueue' # fromQueue /\ x = a
      <4>1. /\ c.t = "store" /\ c.to = Incarnation /\ a.n = c.m.n
            /\ \A m \in Range(pc.pending) : c.m = Plain(m) => Safe(Plain(m))'
        BY <2>1, <3>2
      <4>2. /\ c.m.n < pc.current
            /\ \A m \in Range(pc.pending) : m.n = c.m.n => c.m = Plain(m)
        BY <1>2, <1>8, <4>1 DEF StoredInv
      <4> QED
        BY <3>2, <4>1, <4>2
    <3> QED
      BY <1>5, <2>1, <3>1, <3>2
  <2>2. \A x \in Range(toQueue') : x.t = "store" /\ x.to = Incarnation =>
          /\ x.m.n < pc.current
          /\ \A m \in Range(pc.pending) : m.n = x.m.n => x.m = Plain(m)
    BY <1>2, <1>8 DEF StoredInv
  <2>3. \A m \in Range(pc.pending) : m.n < pc.current
    BY <1>8 DEF StoredInv
  <2> QED
    BY <1>1, <1>2, <2>1, <2>2, <2>3 DEF StoredInv
<1>9. ASSUME SafeInv PROVE SafeInv'
  <2>1. \A m \in Range(toCc) : Safe(Plain(m))'
    <3>1. \A m \in Range(toCc) : Plain(m) \in Stores
      BY <1>4, <1>6, RangeEmpty
    <3> QED
      BY <1>9, <3>1 DEF SafeInv
  <2>2. \A m \in Range(cc.stash) : Safe(Plain(m))'
    <3>1. \A m \in Range(cc.stash) : Plain(m) \in Stores
      BY <1>4, <1>6, RangeEmpty
    <3> QED
      BY <1>9, <3>1 DEF SafeInv
  <2>3. \A m \in Range(pc.unconfirmed) : Safe(Plain(m))'
    <3>1. \A m \in Range(pc.unconfirmed) : Plain(m) \in Stores
      BY <1>4, <1>6, RangeEmpty
    <3> QED
      BY <1>9, <3>1 DEF SafeInv
  <2>4. \A m \in given : Safe(m)'
    BY <1>4, <1>9 DEF SafeInv
  <2>5. ASSUME NEW x \in Range(fromQueue'), x.t = "loaded", NEW m \in Range(x.q.unconfirmed)
        PROVE  Safe(m)'
    <3>1. CASE x \in Range(fromQueue)
      <4>1. x \in Answers
        BY <1>2, <3>1, RangeEmpty
      <4>2. x.q \in Queues
        BY <2>5, <4>1 DEF Answers
      <4>3. x.q.unconfirmed \in Seq(Stores)
        BY <4>2 DEF Queues
      <4>4. m \in Stores
        BY <2>5, <4>3, RangeEmpty
      <4> QED
        BY <1>9, <2>5, <3>1, <4>4 DEF SafeInv
    <3>2. CASE fromQueue' # fromQueue /\ x = a
      <4>1. x.q = queue /\ queue' = queue
        BY <2>5, <3>2
      <4> QED
        BY <2>5, <4>1 DEF Safe
    <3> QED
      BY <1>5, <2>5, <3>1, <3>2
  <2> QED
    BY <1>1, <2>1, <2>2, <2>3, <2>4, <2>5 DEF SafeInv
<1>10. RecInv'
  BY <1>1, <1>3, <1>8, <1>9 DEF RecInv
<1>11. ASSUME Undisturbed' PROVE ConfInv'
  <2>1. Undisturbed
    BY <1>1, <1>11 DEF Undisturbed
  <2>2. /\ ConsumerInv /\ WordInv /\ ProducerInv /\ LoadInv /\ FirstInv /\ RegisterInv
        /\ ConfInv
    BY <2>1 DEF IInv, ConfInv
  <2>3. ConsumerInv'
    BY <1>1, <1>2, <2>2 DEF ConsumerInv, InStep, Counts, Ready, Numbers
  <2>4. WordInv'
    <3>1. 1 .. queue'.confirmed \subseteq Given
      BY <2>1 DEF GivenTo
    <3> QED
      BY <1>1, <1>2, <2>2, <3>1 DEF WordInv, GivenTo
  <2>5. ProducerInv'
    BY <1>1, <1>2, <2>2 DEF ProducerInv
  <2>6. LoadInv'
    <3>1. Leading(toQueue, "load") /\ Leading(toQueue', "load")
          /\ (c.t # "load" => ~Has(toQueue, "load"))
      BY <1>2, <2>2 DEF LoadInv
    <3>2. Has(toQueue', "load") => Has(toQueue, "load")
      BY <1>2 DEF Has
    <3>3. c.t = "load" => Has(toQueue, "load")
      BY <1>2 DEF Has
    <3>4. Has(toQueue, "load") => queue = NewQueue /\ ~Has(fromQueue, "stored")
      BY <2>2 DEF LoadInv
    <3>5. \A x \in Range(fromQueue') : x.t = "loaded" => x.q = NewQueue
      BY <1>5, <2>2, <3>3, <3>4 DEF LoadInv
    <3>6. Leading(fromQueue', "loaded")
      <4>1. Leading(fromQueue, "loaded")
        BY <2>2 DEF LoadInv
      <4>2. ASSUME a \in Answers, fromQueue' = Append(fromQueue, a), fromQueue' # fromQueue
            PROVE  Leading(Append(fromQueue, a), "loaded")
        <5>1. a.t = "loaded" => \A y \in Range(fromQueue) : y.t = "loaded"
          <6>1. a.t = "loaded" => ~Has(fromQueue, "stored")
            BY <3>3, <3>4, <4>2
          <6>2. \A y \in Range(fromQueue) : y \in Answers
            BY <1>2, RangeEmpty
          <6>3. \A y \in Answers : y.t = "loaded" \/ y.t = "stored"
            BY DEF Answers
          <6> QED
            BY <6>1, <6>2, <6>3 DEF Has
        <5> QED
          BY <1>2, <4>1, <4>2, <5>1, LeadingAppend
      <4> QED
        BY <1>1, <4>1, <4>2
    <3>7. Has(toQueue', "load") => queue' = NewQueue /\ ~Has(fromQueue', "stored")
      <4> SUFFICES ASSUME Has(toQueue', "load")
                   PROVE  queue' = NewQueue /\ ~Has(fromQueue', "stored")
        OBVIOUS
      <4>1. c.t = "load" /\ queue = NewQueue /\ ~Has(fromQueue, "stored")
        BY <3>1, <3>2, <3>4
      <4>2. queue' = queue /\ (fromQueue' # fromQueue => a.t # "stored")
        BY <4>1
      <4> QED
        BY <1>5, <4>1, <4>2 DEF Has
    <3>8. ~pc.sendFirst => ~Has(toQueue', "load") /\ ~Has(fromQueue', "loaded") /\ ~pc.awaitingLoad
      <4> SUFFICES ASSUME ~pc.sendFirst
                   PROVE  ~Has(toQueue', "load") /\ ~Has(fromQueue', "loaded") /\ ~pc.awaitingLoad
        OBVIOUS
      <4>1. ~Has(toQueue, "load") /\ ~Has(fromQueue, "loaded") /\ ~pc.awaitingLoad
        BY <2>2 DEF LoadInv
      <4>2. fromQueue' # fromQueue => a.t # "loaded"
        BY <3>3, <4>1
      <4> QED
        BY <1>5, <3>2, <4>1, <4>2 DEF Has
    <3>9. pc.awaitingLoad => queue' = NewQueue
      <4> SUFFICES ASSUME pc.awaitingLoad PROVE queue' = NewQueue
        OBVIOUS
      <4>1. (\A y \in Range(toQueue) : y.t = "load") /\ queue = NewQueue
        BY <1>3, <2>1, <2>2, OnlyLoads
      <4> QED
        BY <1>2, <4>1
    <3> QED
      BY <1>1, <3>1, <3>5, <3>6, <3>7, <3>8, <3>9 DEF LoadInv, NewQueue
  <2>7. FirstInv'
    <3>1. Has(toQueue', "confirmed") => Has(toQueue, "confirmed")
      BY <1>2 DEF Has
    <3> QED
      BY <1>1, <2>2, <3>1 DEF FirstInv
  <2>8. RegisterInv'
    BY <1>1, <2>2 DEF RegisterInv
  <2> QED
    BY <2>3, <2>4, <2>5, <2>6, <2>7, <2>8 DEF ConfInv
<1>12. ~Undisturbed' => ConfInv'
  BY DEF ConfInv
<1> QED
  BY <1>2, <1>7, <1>10, <1>11, <1>12 DEF IInv

\* Any step of the durable queue keeps the invariant.
LEMMA QueueStepInv ==
  ASSUME IInv, QueueStep
  PROVE  IInv'
<1>1. /\ UNCHANGED <<pc, timers, asked, produced, attempt, mishaps, cc, held, given, toCc, toPc,
                     faults, restarts>>
      /\ toQueue # <<>> /\ toQueue' = Tail(toQueue)
  BY DEF QueueStep, producerSide, consumerSide
<1>2. PICK c : c = Head(toQueue)
  OBVIOUS
<1>3. c \in QueueCommands /\ c \in Range(toQueue)
  BY <1>1, <1>2, Typed, RangeTail
<1>4. queue \in Queues /\ produced \in Nat
  BY Typed
<1>5. /\ queue.current \in 1 .. (produced + 1) /\ queue.confirmed \in Nat
      /\ queue.unconfirmed \in Seq(Stores)
  BY <1>4 DEF Queues
<1>6. Undisturbed => GivenTo(queue.confirmed)
  BY DEF IInv, ConfInv, WordInv
<1>7. CASE c.t = "load"
  <2>1. PICK a : a = [t |-> "loaded", q |-> queue]
    OBVIOUS
  <2>2. /\ queue' = queue
        /\ fromQueue' = IF c.to = Incarnation THEN Append(fromQueue, a) ELSE fromQueue
    BY <1>2, <1>7, <2>1 DEF QueueStep
  <2>3. a \in Answers /\ a.t = "loaded" /\ a.q = queue
    BY <1>4, <2>1 DEF Answers
  <2>4. QueueMove(c, a)
    BY <1>1, <1>2, <1>4, <2>2, <2>3 DEF QueueMove
  <2>5. \A m \in Stores : Safe(m) => Safe(m)'
    BY <2>2 DEF Safe
  <2>6. Undisturbed => GivenTo(queue'.confirmed)
    BY <1>6, <2>2
  <2> QED
    BY <1>7, <2>2, <2>3, <2>4, <2>5, <2>6, QueueMoveInv
<1>8. CASE c.t = "store"
  <2>1. PICK z, s : z = c.m /\ s = Append(queue.unconfirmed, z)
    OBVIOUS
  <2>2. PICK a : a = [t |-> "stored", n |-> z.n]
    OBVIOUS
  <2>3. /\ queue' = QueueStore(queue, z)
        /\ fromQueue' = IF c.to = Incarnation THEN Append(fromQueue, a) ELSE fromQueue
    BY <1>2, <1>8, <2>1, <2>2 DEF QueueStep
  <2>4. z \in Stores
    BY <1>3, <1>8, <2>1 DEF QueueCommands
  <2>5. z.n \in 1 .. produced
    BY <2>4 DEF Stores
  <2>6. a \in Answers /\ a.t = "stored" /\ a.n = z.n
    BY <2>2, <2>5 DEF Answers
  <2>7. s \in Seq(Stores) /\ Range(s) = Range(queue.unconfirmed) \cup {z}
    BY <1>5, <2>1, <2>4, RangeAppend
  <2>8. queue' \in Queues /\ queue'.confirmed = queue.confirmed /\ queue'.unconfirmed = s
    <3>1. PICK k : k = z.n + 1
      OBVIOUS
    <3>2. k \in 1 .. (produced + 1)
      BY <1>4, <2>5, <3>1
    <3>3. queue' = [queue EXCEPT !.current = k, !.unconfirmed = s]
      BY <2>1, <2>3, <3>1 DEF QueueStore
    <3> QED
      BY <1>4, <2>7, <3>2, <3>3 DEF Queues
  <2>9. QueueMove(c, a)
    BY <1>1, <1>2, <2>3, <2>6, <2>8 DEF QueueMove
  <2>10. \A m \in Stores : Safe(m) => Safe(m)'
    BY <2>7, <2>8 DEF Safe
  <2>11. \A m \in Range(pc.pending) : c.m = Plain(m) => Safe(Plain(m))'
    <3> SUFFICES ASSUME NEW m \in Range(pc.pending), c.m = Plain(m) PROVE Safe(Plain(m))'
      OBVIOUS
    <3>1. Plain(m) = z
      BY <2>1
    <3>2. Plain(m) \in Range(s)
      BY <2>7, <3>1
    <3> QED
      BY <1>1, <2>8, <3>2 DEF Safe
  <2>12. fromQueue' # fromQueue => c.to = Incarnation
    BY <2>3
  <2>13. Undisturbed => GivenTo(queue'.confirmed)
    BY <1>6, <2>8
  <2> QED
    BY <1>8, <2>1, <2>6, <2>9, <2>10, <2>11, <2>12, <2>13, QueueMoveInv
<1>9. CASE c.t = "confirmed"
  <2>1. PICK n, k, u, s : n = c.n /\ k = n + 1 /\ u = queue.unconfirmed /\ s = From(u, k)
    OBVIOUS
  <2>2. queue' = QueueConfirmed(queue, n) /\ fromQueue' = fromQueue
    BY <1>2, <1>9, <2>1 DEF QueueStep
  <2>3. n \in Nat
    BY <1>3, <1>9, <2>1 DEF QueueCommands
  <2>4. u \in Seq(Stores) /\ k \in Nat
    BY <1>5, <2>1, <2>3
  <2>5. From(u, k) \in Seq(Stores) /\ \A x : x \in Range(From(u, k)) <=> x \in Range(u) /\ x.n >= k
    BY <2>4, FromRange
  <2>6. PICK l : l = IF n > queue.confirmed THEN n ELSE queue.confirmed
    OBVIOUS
  <2>7. l \in Nat /\ (l = n \/ l = queue.confirmed) /\ l >= n /\ l >= queue.confirmed
    BY <1>5, <2>3, <2>6
  <2>8. queue' \in Queues /\ queue'.confirmed = l /\ queue'.unconfirmed = s
    <3>1. queue' = [queue EXCEPT !.unconfirmed = s, !.confirmed = l]
      BY <2>1, <2>2, <2>6 DEF QueueConfirmed
    <3> QED
      BY <1>4, <2>1, <2>5, <2>7, <3>1 DEF Queues
  <2>9. ASSUME NEW m \in Stores, Safe(m) PROVE Safe(m)'
    <3> SUFFICES ASSUME m.n > l PROVE m \in Range(s)
      BY <2>8 DEF Safe
    <3>1. m.n \in Nat
      BY <1>4 DEF Stores
    <3>2. m.n > queue.confirmed /\ m.n >= k
      BY <1>5, <2>1, <2>3, <2>7, <3>1
    <3>3. m \in Range(u)
      BY <2>1, <2>9, <3>2 DEF Safe
    <3> QED
      BY <2>1, <2>5, <3>2, <3>3
  <2>10. PICK a : a = c
    OBVIOUS
  <2>11. QueueMove(c, a)
    BY <1>1, <1>2, <2>2, <2>8 DEF QueueMove
  <2>12. Undisturbed => GivenTo(queue'.confirmed)
    <3> SUFFICES ASSUME Undisturbed PROVE GivenTo(l)
      BY <2>8
    <3>1. GivenTo(n)
      BY <1>3, <1>9, <2>1 DEF IInv, ConfInv, WordInv
    <3> QED
      BY <1>6, <2>7, <3>1
  <2> QED
    BY <1>9, <2>2, <2>9, <2>11, <2>12, QueueMoveInv
<1> QED
  <2>1. c.t \in {"load", "store", "confirmed"}
    BY <1>3 DEF QueueCommands
  <2> QED
    BY <1>7, <1>8, <1>9, <2>1

-----------------------------------------------------------------------------
(* The theorems                                                            *)

\* The invariant holds at the start.
LEMMA InitInv ==
  ASSUME Init
  PROVE  IInv
<1>1. /\ pc \in {NewPc, Stopped(NewPc)} /\ timers = {} /\ asked = 0 /\ produced = 0
      /\ queue = NewQueue /\ fromQueue = <<>> /\ attempt \in {0, 1} /\ mishaps = {}
      /\ toQueue = <<[t |-> "load", to |-> 1]>> \/ toQueue = <<>>
      /\ cc = NewCc /\ held = 0 /\ given = {}
      /\ toCc = <<>> /\ toPc = <<>> /\ faults = 0 /\ restarts = 0
  BY DEF Init, NewQueue
<1>2. Incarnation = 1
  BY <1>1 DEF Incarnation
<1>3. PICK x : x = [t |-> "load", to |-> 1]
  OBVIOUS
<1>4. x \in QueueCommands /\ x.t = "load"
  BY <1>2, <1>3 DEF QueueCommands
<1>5. /\ toQueue \in Seq(QueueCommands) /\ Range(toQueue) \subseteq {x}
      /\ Len(toQueue) \in {0, 1}
  <2>1. CASE toQueue = <<x>>
    BY <1>4, <2>1 DEF Range
  <2>2. CASE toQueue = <<>>
    BY <2>2 DEF Range
  <2> QED
    BY <1>1, <1>3, <2>1, <2>2
<1>6. /\ <<>> \in Seq(Messages) /\ <<>> \in Seq(Stores) /\ <<>> \in Seq(Answers)
      /\ <<>> \in Seq(Commands) /\ Range(<<>>) = {} /\ Len(<<>>) = 0
  BY DEF Range
<1>7. 1 \in 1 .. (produced + 1) /\ 0 \in 0 .. produced
  BY <1>1
<1>8. /\ pc \in PcStates(produced, Messages)
      /\ pc.pending = <<>> /\ pc.unconfirmed = <<>> /\ pc.awaitingLoad /\ pc.current = 1
      /\ pc.confirmed = 0 /\ pc.sendFirst /\ ~pc.consumer
  <2>1. CASE pc = NewPc
    BY <1>6, <1>7, <2>1 DEF NewPc, PcStates
  <2>2. CASE pc = Stopped(NewPc)
    BY <1>6, <1>7, <2>2 DEF NewPc, Stopped, PcStates
  <2> QED
    BY <1>1, <2>1, <2>2
<1>9. cc \in ConsumerStates
  BY <1>1, <1>2, <1>6 DEF NewCc, ConsumerStates
<1>10. queue \in Queues
  BY <1>1, <1>6, <1>7 DEF NewQueue, Queues
<1>11. TypeOK
  <2>1. pc \in ProducerStates
    BY <1>8, StatesAre
  <2>2. attempt \in 0 .. Retries /\ produced \in 0 .. MaxMessages /\ faults \in 0 .. MaxFaults
        /\ restarts \in 0 .. MaxRestarts
    BY <1>1, DeliveryAssumption
  <2> QED
    BY <1>1, <1>5, <1>6, <1>9, <1>10, <2>1, <2>2 DEF TypeOK
<1>12. /\ pc.pending = <<>> /\ pc.unconfirmed = <<>> /\ pc.awaitingLoad /\ pc.current = 1
       /\ pc.confirmed = 0 /\ pc.sendFirst /\ ~pc.consumer
       /\ queue.confirmed = 0
       /\ cc.stash = <<>> /\ cc.received = 0 /\ cc.delivered = 0 /\ cc.confirmed = 0
       /\ ~cc.consumer /\ cc.producer = 0
  BY <1>1, <1>8 DEF NewCc, NewQueue
<1>13. RequestInv
  BY <1>1, <1>4, <1>5, <1>6, <1>12 DEF RequestInv, Has
<1>14. RecInv
  BY <1>1, <1>4, <1>5, <1>6, <1>12 DEF RecInv, StoredInv, SafeInv
<1>15. 1 .. 0 = {} /\ 1 .. (1 - 1) = {} /\ (0 + 1) .. 0 = {}
  OBVIOUS
<1>16. ConsumerInv /\ WordInv
  BY <1>1, <1>4, <1>5, <1>6, <1>12, <1>15
     DEF ConsumerInv, InStep, Counts, Ready, WordInv, GivenTo
<1>17. ProducerInv
  BY <1>6, <1>12, <1>15 DEF ProducerInv, Closed
<1>18. LoadInv
  <2>1. Leading(toQueue, "load") /\ Leading(fromQueue, "loaded")
    BY <1>1, <1>4, <1>5, <1>6 DEF Leading
  <2> QED
    BY <1>1, <1>6, <1>12, <2>1 DEF LoadInv, Has
<1>19. FirstInv
  BY <1>1, <1>4, <1>5, <1>6, <1>12 DEF FirstInv, Has
<1>20. RegisterInv
  BY <1>1, <1>6, <1>12 DEF RegisterInv, AtMostOnce
<1> QED
  BY <1>11, <1>13, <1>14, <1>16, <1>17, <1>18, <1>19, <1>20 DEF IInv, ConfInv

\* Every step is a move of the consumer controller or leaves what was given.
LEMMA NextKinds ==
  ASSUME IInv, Next
  PROVE  \/ \E d, out, handed : ConsumerMove(d, out, handed)
         \/ IInv' /\ given' = given
<1>1. CASE Start
  BY <1>1, StartMove, ProducerMoveInv DEF ProducerMove
<1>2. CASE StartConsumer
  BY <1>2, StartConsumerMove
<1>3. CASE Register
  BY <1>3, RegisterMove
<1>4. CASE Msg
  BY <1>4, MsgInv DEF Msg, consumerSide
<1>5. CASE QueueStep
  BY <1>5, QueueStepInv DEF QueueStep, consumerSide
<1>6. CASE QueueAnswered
  BY <1>6, QueueAnsweredInv DEF QueueAnswered, consumerSide
<1>7. CASE Command
  BY <1>7, CommandMove, ProducerMoveInv DEF ProducerMove
<1>8. CASE OnSequenced
  BY <1>8, SequencedMove
<1>9. CASE Confirmed
  BY <1>9, ConfirmedMove
<1>10. CASE ResendTimer
  <2>1. PICK n \in timers : ResendFirst(n)
    BY <1>10 DEF ResendTimer
  <2> QED
    BY <2>1, ResendMove, ProducerMoveInv DEF ProducerMove
<1>11. CASE QueueTimedOut
  BY <1>11, TimedOutMove, ProducerMoveInv DEF ProducerMove
<1>12. CASE Restart
  BY <1>12, RestartInv DEF Restart, consumerSide
<1>13. CASE DeliverThenStop
  BY <1>13, DeliverThenStopMove
<1>14. CASE Lose
  BY <1>14, LoseMove, ProducerMoveInv DEF ProducerMove
<1> QED
  BY <1>1, <1>2, <1>3, <1>4, <1>5, <1>6, <1>7, <1>8, <1>9, <1>10, <1>11, <1>12, <1>13, <1>14
     DEF Next, Setup

\* A step that changes nothing keeps the invariant.
LEMMA StutterInv ==
  ASSUME IInv, UNCHANGED vars
  PROVE  IInv'
<1>1. UNCHANGED <<pc, timers, asked, produced, queue, toQueue, fromQueue, attempt, mishaps, cc,
                  held, given, toCc, toPc, faults, restarts>>
  BY DEF vars, producerSide, queueSide, consumerSide
<1>2. pc' \in ProducerStates
  BY <1>1, Typed, StatesAre
<1>3. ProducerMove
  BY <1>1, <1>2, Typed, Standing DEF ProducerMove
<1> QED
  BY <1>3, ProducerMoveInv

\* Every step keeps the invariant.
LEMMA NextInv ==
  ASSUME IInv, [Next]_vars
  PROVE  IInv'
  BY NextKinds, ConsumerMoveInv, StutterInv

(* The inductive invariant of the reliable delivery holds in every reachable *)
(* state.                                                                     *)
THEOREM Invariance == Spec => []IInv
<1>1. Init => IInv
  BY InitInv
<1>2. IInv /\ [Next]_vars => IInv'
  BY NextInv
<1> QED
  BY <1>1, <1>2, PTL DEF Spec

(* Every variable of the two controllers and of the durable queue has its    *)
(* type: in particular no number is given out that has no message.           *)
THEOREM TypeCorrect == Spec => []TypeOK
<1>1. IInv => TypeOK
  BY DEF IInv
<1> QED
  BY <1>1, Invariance, PTL

(* Store-before-send is crash safe: whatever has left the producer           *)
(* controller is in the durable queue until the queue holds its confirmation *)
(* (producer_controller.rs), unless a late second answer to LoadState set    *)
(* the controller back.                                                      *)
THEOREM CrashSafe == Spec => []Recoverable
<1>1. IInv => Recoverable
  <2> SUFFICES ASSUME IInv, "reloaded" \notin mishaps PROVE Kept
    BY DEF Recoverable
  <2>1. SafeInv
    BY DEF IInv, RecInv
  <2>2. toCc \in Seq(Messages) /\ cc.stash \in Seq(Messages)
    BY Typed, ConsumerFields DEF TypeOK
  <2>3. Range(toCc \o cc.stash) = Range(toCc) \cup Range(cc.stash)
    BY <2>2, RangeConcat
  <2>4. ToSet(toCc \o cc.stash) = Range(toCc \o cc.stash)
    BY DEF ToSet, Range
  <2>5. \A m \in Out : Safe(m)
    BY <2>1, <2>3, <2>4 DEF Out, SafeInv
  <2>6. ToSet(queue.unconfirmed) = Range(queue.unconfirmed)
    BY DEF ToSet, Range
  <2> QED
    BY <2>5, <2>6 DEF Kept, Safe
<1> QED
  BY <1>1, Invariance, PTL

(* What the producer controller or its durable queue counts as confirmed was *)
(* handed to the consumer (on_confirmed, DurableProducerQueueState), in a    *)
(* session without a restart or an overwritten pending message.              *)
THEOREM HonestConfirmations == Spec => []ConfirmedWasGiven
<1>1. IInv => ConfirmedWasGiven
  <2> SUFFICES ASSUME IInv, restarts = 0, "displaced" \notin mishaps,
                      NEW n \in 1 .. MaxMessages, n <= pc.confirmed \/ n <= queue.confirmed
               PROVE  \E m \in given : m.n = n
    BY DEF ConfirmedWasGiven, Honest
  <2>1. GivenTo(pc.confirmed) /\ GivenTo(queue.confirmed)
    BY DEF IInv, ConfInv, Undisturbed, WordInv
  <2>2. pc.confirmed \in Nat /\ queue.confirmed \in Nat
    <3>1. pc.confirmed \in Nat
      BY Typed, PcFields
    <3>2. queue \in Queues
      BY Typed
    <3> QED
      BY <3>1, <3>2 DEF Queues
  <2>3. n \in 1 .. pc.confirmed \/ n \in 1 .. queue.confirmed
    BY <2>2, DeliveryAssumption
  <2>4. n \in Given
    BY <2>1, <2>3 DEF GivenTo
  <2> QED
    BY <2>4 DEF Given
<1> QED
  BY <1>1, Invariance, PTL

(* The consumer sees a number for the first time only after the one before   *)
(* it (collect_on_sequenced_message, collect_try_deliver_stashed), whatever  *)
(* was lost, stashed and sent again, in a session without a restart or an    *)
(* overwritten pending message.                                              *)
THEOREM SeenInOrder == Spec => InOrder
<1> DEFINE A == restarts = 0 /\ "displaced" \notin mishaps =>
                  \A m \in given' \ given : m.n = 1 \/ \E k \in given : k.n \in {m.n, m.n - 1}
<1>1. IInv /\ [Next]_vars => [A]_vars
  <2> SUFFICES ASSUME IInv, Next, Undisturbed, NEW m \in given' \ given, m.n # 1
               PROVE  \E k \in given : k.n \in {m.n, m.n - 1}
    BY DEF Undisturbed
  <2>1. PICK d, out, handed : ConsumerMove(d, out, handed)
    BY NextKinds
  <2>2. /\ given' = given \cup {Plain(z) : z \in handed}
        /\ \A z \in handed : 1 .. (z.n - 1) \subseteq Given
    BY <2>1 DEF ConsumerMove
  <2>3. PICK z \in handed : m = Plain(z)
    BY <2>2
  <2>4. z \in Messages
    BY <2>1, <2>3, MoveType, Typed
  <2>5. z.n \in Nat \ {0} /\ m.n = z.n
    BY <2>3, <2>4, Typed, MessageFields
  <2>6. m.n - 1 \in 1 .. (z.n - 1)
    BY <2>5
  <2>7. m.n - 1 \in Given
    BY <2>2, <2>3, <2>6
  <2> QED
    BY <2>7 DEF Given
<1>2. Spec => []IInv
  BY Invariance
<1>3. InOrder <=> [][A]_vars
  BY DEF InOrder
<1> HIDE DEF A
<1> QED
  BY <1>1, <1>2, <1>3, PTL DEF Spec
=============================================================================
