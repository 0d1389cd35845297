--------------------------- MODULE ProtocolProofs ---------------------------
(***************************************************************************)
(* Proofs about the two protocols that number what they send: Association, *)
(* for every script, window, queue size, lane and number of faults, that   *)
(* system envelopes reach the peer in order and once and that what was     *)
(* acknowledged was handled; and Persistence, for every command handler, *)
(* that the handlers of persisted and deferred events run in the order of  *)
(* the calls.  Both need the same facts about recursion.                   *)
(***************************************************************************)
EXTENDS Association, PersistenceContext, FiniteSetTheorems, WellFoundedInduction, TLAPS

-----------------------------------------------------------------------------
(* Sequences, and recursion over them                                      *)

\* The elements of a sequence are those at its indices.
LEMMA RangeMember ==
  ASSUME NEW S, NEW s \in Seq(S), NEW x
  PROVE  x \in Range(s) <=> \E i \in 1 .. Len(s) : s[i] = x
  BY DEF Range

\* Appending adds one element.
LEMMA RangeAppend ==
  ASSUME NEW S, NEW s \in Seq(S), NEW x \in S
  PROVE  /\ Append(s, x) \in Seq(S)
         /\ Append(s, x) # <<>>
         /\ Range(Append(s, x)) = Range(s) \cup {x}
<1> DEFINE a == Append(s, x)
<1>1. /\ a \in Seq(S) /\ Len(a) = Len(s) + 1 /\ Len(s) \in Nat
      /\ \A i \in 1 .. Len(s) : a[i] = s[i]
      /\ a[Len(s) + 1] = x
  OBVIOUS
<1>2. ASSUME NEW y PROVE y \in Range(a) <=> y \in Range(s) \cup {x}
  <2>0. y \in Range(a) <=> \E i \in 1 .. Len(a) : a[i] = y
    <3> HIDE DEF a
    <3> QED
      BY <1>1, RangeMember
  <2>1. y \in Range(a) <=> \E i \in 1 .. Len(s) + 1 : a[i] = y
    BY <1>1, <2>0
  <2>2. y \in Range(s) <=> \E i \in 1 .. Len(s) : s[i] = y
    BY RangeMember
  <2> QED
    BY <1>1, <2>1, <2>2
<1>3. a # <<>>
  BY <1>1
<1> QED
  BY <1>1, <1>2, <1>3

\* The elements of a sequence are its head and those of its tail.
LEMMA RangeTail ==
  ASSUME NEW S, NEW s \in Seq(S), s # <<>>
  PROVE  /\ Tail(s) \in Seq(S)
         /\ Head(s) \in S /\ Head(s) \in Range(s)
         /\ Range(s) = Range(Tail(s)) \cup {Head(s)}
<1> DEFINE r == Tail(s)
<1>1. /\ r \in Seq(S) /\ Len(s) \in Nat \ {0} /\ Len(r) = Len(s) - 1 /\ Len(r) \in Nat
      /\ \A i \in 1 .. Len(r) : r[i] = s[i + 1]
      /\ Head(s) = s[1] /\ s[1] \in S
  OBVIOUS
<1>3. \A y : y \in Range(r) <=> \E i \in 1 .. Len(r) : r[i] = y
  BY <1>1, RangeMember
<1>4. \A y : y \in Range(s) <=> \E i \in 1 .. Len(s) : s[i] = y
  BY RangeMember
<1> HIDE DEF r
<1>5. \A i \in 1 .. Len(s) : i = 1 \/ (i - 1 \in 1 .. Len(r) /\ s[i] = r[i - 1])
  BY <1>1
<1>6. Range(s) = Range(r) \cup {Head(s)}
  <2>1. Range(s) \subseteq Range(r) \cup {Head(s)}
    BY <1>1, <1>3, <1>4, <1>5
  <2>2. Range(r) \subseteq Range(s)
    <3> SUFFICES ASSUME NEW i \in 1 .. Len(r) PROVE r[i] \in Range(s)
      BY <1>3
    <3>1. i + 1 \in 1 .. Len(s) /\ s[i + 1] = r[i]
      BY <1>1
    <3> QED
      BY <3>1, <1>4
  <2>3. Head(s) \in Range(s)
    BY <1>1, <1>4
  <2> QED
    BY <2>1, <2>2, <2>3
<1> QED
  BY <1>1, <1>6 DEF r

\* Joining sequences joins their elements.
LEMMA RangeConcat ==
  ASSUME NEW S, NEW s \in Seq(S), NEW t \in Seq(S)
  PROVE  /\ s \o t \in Seq(S)
         /\ Range(s \o t) = Range(s) \cup Range(t)
<1> DEFINE a == s \o t
<1>1. /\ a \in Seq(S) /\ Len(a) = Len(s) + Len(t) /\ Len(s) \in Nat /\ Len(t) \in Nat
      /\ \A i \in 1 .. Len(s) : a[i] = s[i]
      /\ \A i \in 1 .. Len(t) : a[Len(s) + i] = t[i]
  OBVIOUS
<1>2. \A y : y \in Range(a) <=> \E i \in 1 .. Len(a) : a[i] = y
  BY <1>1, RangeMember
<1>3. \A y : y \in Range(s) <=> \E i \in 1 .. Len(s) : s[i] = y
  BY RangeMember
<1>4. \A y : y \in Range(t) <=> \E i \in 1 .. Len(t) : t[i] = y
  BY RangeMember
<1> HIDE DEF a
<1>5. ASSUME NEW i \in 1 .. Len(a) PROVE a[i] \in Range(s) \cup Range(t)
  <2>1. CASE i <= Len(s)
    BY <1>1, <1>3, <2>1
  <2>2. CASE i > Len(s)
    <3>1. i - Len(s) \in 1 .. Len(t) /\ a[Len(s) + (i - Len(s))] = t[i - Len(s)]
      BY <1>1, <2>2
    <3>2. Len(s) + (i - Len(s)) = i
      BY <1>1
    <3> QED
      BY <1>4, <3>1, <3>2
  <2> QED
    BY <1>1, <2>1, <2>2
<1>6. ASSUME NEW i \in 1 .. Len(s) PROVE s[i] \in Range(a)
  <2>1. i \in 1 .. Len(a) /\ a[i] = s[i]
    BY <1>1
  <2> QED
    BY <1>2, <2>1
<1>7. ASSUME NEW i \in 1 .. Len(t) PROVE t[i] \in Range(a)
  <2>1. Len(s) + i \in 1 .. Len(a) /\ a[Len(s) + i] = t[i]
    BY <1>1
  <2> QED
    BY <1>2, <2>1
<1>8. Range(a) = Range(s) \cup Range(t)
  BY <1>2, <1>3, <1>4, <1>5, <1>6, <1>7
<1> QED
  BY <1>1, <1>8 DEF a

\* Removing an element leaves the others.
LEMMA RangeRemoveAt ==
  ASSUME NEW S, NEW s \in Seq(S), NEW i \in 1 .. Len(s)
  PROVE  /\ RemoveAt(s, i) \in Seq(S)
         /\ Range(RemoveAt(s, i)) \subseteq Range(s)
<1> DEFINE u == SubSeq(s, 1, i - 1)
           w == SubSeq(s, i + 1, Len(s))
<1>1. Len(s) \in Nat /\ i - 1 \in 0 .. Len(s) /\ i \in Nat
  OBVIOUS
<1>2. u \in Seq(S) /\ Len(u) = i - 1 /\ \A k \in 1 .. i - 1 : u[k] = s[k]
  BY <1>1
<1>3. /\ w \in Seq(S) /\ Len(w) = Len(s) - i
      /\ \A k \in 1 .. Len(s) - i : w[k] = s[i + k]
  BY <1>1
<1> HIDE DEF u, w
<1>4. u \o w \in Seq(S) /\ Range(u \o w) = Range(u) \cup Range(w)
  BY <1>2, <1>3, RangeConcat
<1>5. \A y : y \in Range(s) <=> \E k \in 1 .. Len(s) : s[k] = y
  BY RangeMember
<1>6. \A y : y \in Range(u) <=> \E k \in 1 .. Len(u) : u[k] = y
  BY <1>2, RangeMember
<1>7. \A y : y \in Range(w) <=> \E k \in 1 .. Len(w) : w[k] = y
  BY <1>3, RangeMember
<1>8. ASSUME NEW k \in 1 .. Len(u) PROVE u[k] \in Range(s)
  <2>1. k \in 1 .. Len(s) /\ u[k] = s[k]
    BY <1>1, <1>2
  <2> QED
    BY <1>5, <2>1
<1>9. ASSUME NEW k \in 1 .. Len(w) PROVE w[k] \in Range(s)
  <2>1. i + k \in 1 .. Len(s) /\ w[k] = s[i + k]
    BY <1>1, <1>3
  <2> QED
    BY <1>5, <2>1
<1>10. Range(u \o w) \subseteq Range(s)
  BY <1>4, <1>6, <1>7, <1>8, <1>9
<1>11. RemoveAt(s, i) = u \o w
  BY DEF RemoveAt, u, w
<1> QED
  BY <1>4, <1>10, <1>11

\* A set of numbers has a least member.
LEMMA NatMin ==
  ASSUME NEW T \in SUBSET Nat, T # {}
  PROVE  \E x \in T : \A y \in T : x <= y
<1> DEFINE R == {ss \in Nat \X Nat : ss[1] < ss[2]}
<1>1. IsWellFoundedOn(R, Nat)
  BY NatLessThanWellFounded DEF OpToRel
<1>2. \A x, y \in Nat : y < x => <<y, x>> \in R
  OBVIOUS
<1> HIDE DEF R
<1>3. PICK x \in T : \A y \in T : ~ (<<y, x>> \in R)
  BY <1>1, WFMin
<1>4. ASSUME NEW y \in T PROVE x <= y
  <2>1. ~(y < x)
    BY <1>2, <1>3, Zenon
  <2> QED
    BY <2>1
<1> QED
  BY <1>4

\* A set that holds 0, and with a number the next one, holds them all.
LEMMA NatSteps ==
  ASSUME NEW T, 0 \in T, \A n \in Nat : n \in T => n + 1 \in T
  PROVE  \A n \in Nat : n \in T
<1> SUFFICES ASSUME Nat \ T # {} PROVE FALSE
  OBVIOUS
<1>1. PICK x \in Nat \ T : \A y \in Nat \ T : x <= y
  BY NatMin
<1>2. x # 0 /\ x \in Nat
  OBVIOUS
<1>3. x - 1 \in Nat /\ x - 1 \in T
  BY <1>1, <1>2
<1> QED
  BY <1>2, <1>3, (x - 1) + 1 = x

\* g begins with z and goes on by the steps F, and so does only what ends as g.
Goes(g, F, z, n) == g[0] = z /\ \A i \in 1 .. n : g[i] = F[<<g[i - 1], i>>]
Ends(g, F, z, n, S) ==
  \A h : h[0] = z /\ (\A i \in 1 .. n : h[i - 1] \in S => h[i] = F[<<h[i - 1], i>>])
           => h[n] = g[n]

\* A function given by its first value and by steps exists, in any set that
\* the steps do not leave, and is the only one.
LEMMA Recursion ==
  ASSUME NEW S, NEW z \in S, NEW F \in [S \X Nat -> S], NEW n \in Nat
  PROVE  \E g \in [0 .. n -> S] : Goes(g, F, z, n) /\ Ends(g, F, z, n, S)
<1> DEFINE T == {k \in Nat : \E g \in [0 .. k -> S] : Goes(g, F, z, k)}
<1>1. 0 \in T
  <2>1. [i \in 0 .. 0 |-> z] \in [0 .. 0 -> S] /\ Goes([i \in 0 .. 0 |-> z], F, z, 0)
    BY DEF Goes
  <2> QED
    BY <2>1
<1>2. ASSUME NEW k \in Nat, k \in T PROVE k + 1 \in T
  <2>1. PICK g \in [0 .. k -> S] : Goes(g, F, z, k)
    BY <1>2
  <2> DEFINE h == [i \in 0 .. k + 1 |-> IF i = k + 1 THEN F[<<g[k], k + 1>>] ELSE g[i]]
  <2>2. g[k] \in S /\ k + 1 \in Nat
    OBVIOUS
  <2>3. F[<<g[k], k + 1>>] \in S
    BY <2>2
  <2>4. h \in [0 .. k + 1 -> S]
    BY <2>3
  <2>5. h[0] = z
    BY <2>1 DEF Goes
  <2>6. ASSUME NEW i \in 1 .. k + 1 PROVE h[i] = F[<<h[i - 1], i>>]
    <3>1. CASE i = k + 1
      <4>1. i - 1 = k /\ h[k] = g[k] /\ h[i] = F[<<g[k], k + 1>>]
        BY <3>1
      <4> QED
        BY <3>1, <4>1
    <3>2. CASE i # k + 1
      <4>1. i \in 1 .. k /\ i - 1 \in 0 .. k + 1 /\ i - 1 # k + 1
        BY <3>2
      <4>2. h[i] = g[i] /\ h[i - 1] = g[i - 1]
        BY <3>2, <4>1
      <4> QED
        BY <2>1, <4>1, <4>2 DEF Goes
    <3> QED
      BY <3>1, <3>2
  <2> HIDE DEF h
  <2>7. Goes(h, F, z, k + 1)
    BY <2>5, <2>6 DEF Goes
  <2> QED
    BY <2>4, <2>7, <2>2
<1>3. n \in T
  <2> HIDE DEF T
  <2> QED
    BY <1>1, <1>2, NatSteps
<1>4. PICK g \in [0 .. n -> S] : Goes(g, F, z, n)
  BY <1>3
<1>5. ASSUME NEW h, h[0] = z,
             \A i \in 1 .. n : h[i - 1] \in S => h[i] = F[<<h[i - 1], i>>]
      PROVE  h[n] = g[n]
  <2> DEFINE U == {k \in Nat : k <= n => h[k] = g[k]}
  <2>1. 0 \in U
    BY <1>4, <1>5 DEF Goes
  <2>2. ASSUME NEW k \in Nat, k \in U PROVE k + 1 \in U
    <3> SUFFICES ASSUME k + 1 <= n PROVE h[k + 1] = g[k + 1]
      OBVIOUS
    <3>1. k + 1 \in 1 .. n /\ (k + 1) - 1 = k /\ k \in 0 .. n
      OBVIOUS
    <3>2. h[k] = g[k] /\ g[k] \in S
      BY <2>2, <3>1
    <3>3. h[k + 1] = F[<<h[k], k + 1>>] /\ g[k + 1] = F[<<g[k], k + 1>>]
      BY <1>4, <1>5, <3>1, <3>2 DEF Goes
    <3> QED
      BY <3>2, <3>3
  <2>3. n \in U
    <3> HIDE DEF U
    <3> QED
      BY <2>1, <2>2, NatSteps
  <2> QED
    BY <2>3
<1> QED
  BY <1>4, <1>5 DEF Ends

\* g goes over q as Only does.
Sieves(g, q, S) ==
  /\ g[0] = <<>>
  /\ \A i \in 1 .. Len(q) : g[i] = IF q[i] \in S THEN Append(g[i - 1], q[i]) ELSE g[i - 1]

\* Only is what its recursion says.
LEMMA OnlySteps ==
  ASSUME NEW E, NEW q \in Seq(E), NEW S
  PROVE  \E g \in [0 .. Len(q) -> Seq(E)] : Only(q, S) = g[Len(q)] /\ Sieves(g, q, S)
<1> DEFINE F == [x \in Seq(E) \X Nat |->
                   IF x[2] \in 1 .. Len(q) /\ q[x[2]] \in S THEN Append(x[1], q[x[2]])
                   ELSE x[1]]
           Step(g) == [i \in 0 .. Len(q) |->
                         IF i = 0 THEN <<>>
                         ELSE IF q[i] \in S THEN Append(g[i - 1], q[i]) ELSE g[i - 1]]
           kept == CHOOSE g : g = Step(g)
<1>1. Len(q) \in Nat /\ \A i \in 1 .. Len(q) : q[i] \in E
  OBVIOUS
<1>2. F \in [Seq(E) \X Nat -> Seq(E)]
  <2>1. ASSUME NEW x \in Seq(E) \X Nat
        PROVE  (IF x[2] \in 1 .. Len(q) /\ q[x[2]] \in S THEN Append(x[1], q[x[2]])
                ELSE x[1]) \in Seq(E)
    <3>1. PICK s \in Seq(E), i \in Nat : x = <<s, i>>
      OBVIOUS
    <3>2. i \in 1 .. Len(q) => Append(s, q[i]) \in Seq(E)
      BY <1>1
    <3> QED
      BY <3>1, <3>2
  <2> QED
    BY <2>1
<1>3. <<>> \in Seq(E)
  OBVIOUS
<1>4. ASSUME NEW s \in Seq(E), NEW i \in 1 .. Len(q)
      PROVE  F[<<s, i>>] = IF q[i] \in S THEN Append(s, q[i]) ELSE s
  <2>1. <<s, i>> \in Seq(E) \X Nat
    OBVIOUS
  <2> QED
    BY <2>1
<1> HIDE DEF F
<1>5. PICK g \in [0 .. Len(q) -> Seq(E)] :
        Goes(g, F, <<>>, Len(q)) /\ Ends(g, F, <<>>, Len(q), Seq(E))
  BY <1>1, <1>2, <1>3, Recursion
<1>6. \A i \in 1 .. Len(q) : i - 1 \in 0 .. Len(q)
  BY <1>1
<1>7. Sieves(g, q, S)
  BY <1>4, <1>5, <1>6 DEF Goes, Sieves
<1>8. g = Step(g)
  <2>1. \A i \in 0 .. Len(q) : i = 0 \/ i \in 1 .. Len(q)
    BY <1>1
  <2>2. \A i \in 0 .. Len(q) : g[i] = Step(g)[i]
    BY <1>7, <2>1 DEF Sieves
  <2> QED
    BY <2>2
<1>9. kept = Step(kept)
  BY <1>8
<1>10. Only(q, S) = kept[Len(q)]
  BY DEF Only
<1>11. Sieves(kept, q, S)
  <2>1. ASSUME NEW h, h = Step(h) PROVE Sieves(h, q, S)
    <3>1. \A i \in 0 .. Len(q) : h[i] = Step(h)[i]
      BY <2>1
    <3>2. \A i \in 1 .. Len(q) : i \in 0 .. Len(q) /\ i # 0
      OBVIOUS
    <3> QED
      BY <1>1, <3>1, <3>2 DEF Sieves
  <2> HIDE DEF kept, Step
  <2> QED
    BY <1>9, <2>1
<1> HIDE DEF kept, Step
<1>12. kept[Len(q)] = g[Len(q)]
  BY <1>4, <1>5, <1>11 DEF Ends, Sieves
<1> QED
  BY <1>7, <1>10, <1>12

\* Only keeps the elements that are in S, and no others.
LEMMA OnlyRange ==
  ASSUME NEW E, NEW q \in Seq(E), NEW S
  PROVE  /\ Only(q, S) \in Seq(E)
         /\ Range(Only(q, S)) = Range(q) \cap S
<1>1. PICK g \in [0 .. Len(q) -> Seq(E)] :
        Only(q, S) = g[Len(q)] /\ Sieves(g, q, S)
  BY OnlySteps
<1> DEFINE Upto(i) == {x \in S : \E j \in 1 .. i : q[j] = x}
           T == {i \in Nat : i <= Len(q) => Range(g[i]) = Upto(i)}
<1>2. Len(q) \in Nat /\ \A i \in 1 .. Len(q) : q[i] \in E
  OBVIOUS
<1>3. 0 \in T
  <2>1. Range(<<>>) = {} /\ Upto(0) = {}
    BY DEF Range
  <2> QED
    BY <1>1, <2>1 DEF Sieves
<1>4. ASSUME NEW i \in Nat, i \in T PROVE i + 1 \in T
  <2> SUFFICES ASSUME i + 1 <= Len(q) PROVE Range(g[i + 1]) = Upto(i + 1)
    OBVIOUS
  <2>1. i + 1 \in 1 .. Len(q) /\ (i + 1) - 1 = i /\ i \in 0 .. Len(q)
    BY <1>2
  <2>2. Range(g[i]) = Upto(i) /\ g[i] \in Seq(E)
    BY <1>4, <2>1
  <2>3. g[i + 1] = IF q[i + 1] \in S THEN Append(g[i], q[i + 1]) ELSE g[i]
    BY <1>1, <2>1 DEF Sieves
  <2>4. \A j \in 1 .. i + 1 : j \in 1 .. i \/ j = i + 1
    OBVIOUS
  <2>5. 1 .. i \subseteq 1 .. i + 1 /\ i + 1 \in 1 .. i + 1
    OBVIOUS
  <2>6. Range(Append(g[i], q[i + 1])) = Range(g[i]) \cup {q[i + 1]}
    BY <1>2, <2>1, <2>2, RangeAppend
  <2>7. Upto(i + 1) = Upto(i) \cup ({q[i + 1]} \cap S)
    BY <2>4, <2>5
  <2> QED
    BY <2>2, <2>3, <2>6, <2>7
<1>5. Len(q) \in T
  <2> HIDE DEF T
  <2> QED
    BY <1>2, <1>3, <1>4, NatSteps
<1>6. \A x : x \in Range(q) <=> \E i \in 1 .. Len(q) : q[i] = x
  BY RangeMember
<1>7. Len(q) \in 0 .. Len(q)
  BY <1>2
<1>8. Range(g[Len(q)]) = Range(q) \cap S
  BY <1>5, <1>6, <1>7
<1> QED
  BY <1>1, <1>7, <1>8

\* Only goes over a sequence from its front.
LEMMA OnlyAppend ==
  ASSUME NEW E, NEW q \in Seq(E), NEW e \in E, NEW S
  PROVE  Only(Append(q, e), S) = IF e \in S THEN Append(Only(q, S), e) ELSE Only(q, S)
<1> DEFINE r == Append(q, e)
<1>1. /\ r \in Seq(E) /\ Len(r) = Len(q) + 1 /\ Len(q) \in Nat
      /\ \A i \in 1 .. Len(q) : r[i] = q[i]
      /\ r[Len(q) + 1] = e
  OBVIOUS
<1> HIDE DEF r
<1>2. PICK g \in [0 .. Len(q) -> Seq(E)] :
        Only(q, S) = g[Len(q)] /\ Sieves(g, q, S)
  BY OnlySteps
<1>3. PICK h \in [0 .. Len(r) -> Seq(E)] :
        Only(r, S) = h[Len(r)] /\ Sieves(h, r, S)
  BY <1>1, OnlySteps
<1> DEFINE T == {i \in Nat : i <= Len(q) => h[i] = g[i]}
<1>4. 0 \in T
  BY <1>2, <1>3 DEF Sieves
<1>5. ASSUME NEW i \in Nat, i \in T PROVE i + 1 \in T
  <2> SUFFICES ASSUME i + 1 <= Len(q) PROVE h[i + 1] = g[i + 1]
    OBVIOUS
  <2>1. i + 1 \in 1 .. Len(q) /\ i + 1 \in 1 .. Len(r) /\ (i + 1) - 1 = i
    BY <1>1
  <2>2. h[i] = g[i]
    BY <1>1, <1>5
  <2> QED
    BY <1>1, <1>2, <1>3, <2>1, <2>2 DEF Sieves
<1>6. Len(q) \in T
  <2> HIDE DEF T
  <2> QED
    BY <1>1, <1>4, <1>5, NatSteps
<1>7. h[Len(q)] = g[Len(q)]
  BY <1>1, <1>6
<1>8. Len(r) \in 1 .. Len(r) /\ Len(r) - 1 = Len(q)
  BY <1>1
<1> QED
  BY <1>1, <1>2, <1>3, <1>7, <1>8 DEF r, Sieves

\* Only of nothing is nothing.
LEMMA OnlyEmpty ==
  ASSUME NEW S
  PROVE  Only(<<>>, S) = <<>>
<1>1. <<>> \in Seq({}) /\ Len(<<>>) = 0
  OBVIOUS
<1>2. PICK g \in [0 .. Len(<<>>) -> Seq({})] :
        Only(<<>>, S) = g[Len(<<>>)] /\ Sieves(g, <<>>, S)
  BY <1>1, OnlySteps
<1> QED
  BY <1>1, <1>2 DEF Sieves

\* Appending a number above all others.
LEMMA IncreasingAbove ==
  ASSUME NEW q \in Seq(Nat), NEW c \in Nat, Increasing(q), \A i \in 1 .. Len(q) : q[i] < c
  PROVE  /\ Append(q, c) \in Seq(Nat) /\ Increasing(Append(q, c))
         /\ \A i \in 1 .. Len(Append(q, c)) : Append(q, c)[i] <= c
<1>1. PICK r : r = Append(q, c)
  OBVIOUS
<1>2. /\ r \in Seq(Nat) /\ Len(r) = Len(q) + 1 /\ Len(q) \in Nat /\ DOMAIN r = 1 .. Len(r)
      /\ \A i \in 1 .. Len(q) : r[i] = q[i] /\ q[i] \in Nat
      /\ r[Len(q) + 1] = c
  BY <1>1
<1>3. \A i \in 1 .. Len(r) : i \in 1 .. Len(q) \/ i = Len(q) + 1
  BY <1>2
<1>4. \A i \in 1 .. Len(q) : r[i] < c
  BY <1>2
<1>5. ASSUME NEW i \in DOMAIN r, NEW j \in DOMAIN r, i < j PROVE r[i] < r[j]
  <2>1. i \in 1 .. Len(q)
    BY <1>2, <1>5
  <2>2. CASE j = Len(q) + 1
    BY <1>2, <1>4, <2>1, <2>2
  <2>3. CASE j \in 1 .. Len(q)
    <3>1. q[i] < q[j]
      BY <1>5, <2>1, <2>3 DEF Increasing
    <3> QED
      BY <1>2, <2>1, <2>3, <3>1
  <2> QED
    BY <1>2, <1>3, <2>2, <2>3
<1>6. ASSUME NEW i \in 1 .. Len(r) PROVE r[i] <= c
  <2>1. CASE i \in 1 .. Len(q)
    <3>1. r[i] < c /\ r[i] \in Nat
      BY <1>2, <1>4, <2>1
    <3> QED
      BY <3>1
  <2>2. CASE i = Len(q) + 1
    BY <1>2, <2>2
  <2> QED
    BY <1>3, <2>1, <2>2
<1> QED
  BY <1>1, <1>2, <1>5, <1>6 DEF Increasing

-----------------------------------------------------------------------------
(* The inductive invariant                                                 *)

\* A system envelope that carries the number it was given.
Numbered(a, e) == e.sys /\ e.seq \in 1 .. Len(a.numbered) /\ a.numbered[e.seq] = e.id

\* A system envelope that waits for its number.
Fresh(e) == e.sys /\ e.seq = 0

\* What the queues hold is numbered, is to be numbered or is of a user.
QueuesOK(a) ==
  /\ \A e \in Range(a.system) : Numbered(a, e)
  /\ \A e \in Range(a.user) : ~e.sys
  /\ \A e \in Range(a.deferred) : e.sys => Fresh(e) \/ Numbered(a, e)

\* The window holds every number above c that was given.
WindowOK(a, c) ==
  /\ a.next = Len(a.numbered) + 1
  /\ \A x \in Range(a.pending) : x.seq = x.env.seq /\ Numbered(a, x.env)
  /\ \A s \in (c + 1) .. Len(a.numbered) : \E x \in Range(a.pending) : x.seq = s

\* id is above every id that was given a number.
Above(a, id) == \A j \in 1 .. Len(a.numbered) : a.numbered[j] < id

\* id is above that of every envelope among the first n of q that waits.
Behind(q, n, id) == \A j \in 1 .. n : Fresh(q[j]) => q[j].id < id

\* Numbers were given, and are to be given, in the order of the ids.
OrderOK(a, k) ==
  /\ Increasing(a.numbered)
  /\ \A i \in 1 .. Len(a.numbered) : a.numbered[i] <= k
  /\ \A i \in 1 .. Len(a.deferred) : Fresh(a.deferred[i]) =>
       /\ a.deferred[i].id <= k
       /\ Above(a, a.deferred[i].id)
       /\ Behind(a.deferred, i - 1, a.deferred[i].id)
  /\ a.state = "Active" => a.deferred = <<>>

\* An association after k sends whose peer has accepted the numbers up to c.
Sound(a, k, c) == ~a.reset => QueuesOK(a) /\ WindowOK(a, c) /\ OrderOK(a, k)

\* b has the numbers of a, and perhaps more.
Extends(a, b) ==
  /\ a.reset => b.reset
  /\ ~b.reset =>
       /\ b.cumulative = a.cumulative
       /\ Len(a.numbered) <= Len(b.numbered)
       /\ \A i \in 1 .. Len(a.numbered) : b.numbered[i] = a.numbered[i]

\* A frame that a has sent.
FrameOK(a, f) ==
  /\ f.t = "Envelope" /\ f.env.sys => Numbered(a, f.env)
  /\ f.t = "Ack" => f.cumulative <= a.cumulative

WireOK(a, w) == ~a.reset => \A l \in Lanes : \A f \in Range(w[l]) : FrameOK(a, f)

\* What n has, whatever its peer did.
Own(n) ==
  /\ Sound(assoc[n], sends[n], Len(assoc[n].numbered))
  /\ WireOK(assoc[n], wire[n])

\* Of the first c of the ids in s those of x were delivered, in order, and the
\* others discarded.
Received(x, gone, s, c) ==
  /\ x \in Seq(Nat) /\ Increasing(x)
  /\ \A id \in Range(x) : \E i \in 1 .. c : s[i] = id
  /\ \A i \in 1 .. c : s[i] \in Range(x) \cup gone

\* What n sends and what its peer has accepted of it.
Channel(n) ==
  /\ Sound(assoc[n], sends[n], assoc[Peer(n)].cumulative)
  /\ assoc[Peer(n)].cumulative <= Len(assoc[n].numbered)
  /\ Received(System(Peer(n)), discarded[Peer(n)], assoc[n].numbered,
              assoc[Peer(n)].cumulative)

IInv ==
  /\ TypeOK
  /\ \A n \in Nodes : Own(n)
  /\ Unreset => \A n \in Nodes : Channel(n)

-----------------------------------------------------------------------------
(* Enqueue                                                                 *)

States == {"Idle", "Handshaking", "Active", "Gated", "Quarantined"}

\* An association as the record of its fields.
LEMMA Fields ==
  ASSUME NEW a \in Associations
  PROVE  /\ a.state \in States
         /\ a.system \in Seq(Envelopes) /\ a.user \in Seq(Envelopes)
         /\ a.deferred \in Seq(Envelopes) /\ a.pending \in Seq(Entries)
         /\ a.next \in Nat /\ a.cumulative \in Nat /\ a.highest \in Nat
         /\ a.generation \in Nat /\ a.numbered \in Seq(Nat) /\ a.reset \in BOOLEAN
  BY DEF Associations, States

\* What quarantine leaves of an association.
LEMMA QuarantineStep ==
  ASSUME NEW a \in Associations
  PROVE  /\ Quarantine(a) \in Associations
         /\ a.reset => Quarantine(a).reset
         /\ a.state # "Quarantined" => Quarantine(a).reset
<1>1. CASE a.state = "Quarantined"
  BY <1>1 DEF Quarantine
<1>2. CASE a.state # "Quarantined"
  <2> DEFINE r == ResetRedelivery(a)
             b == [r EXCEPT !.state = "Quarantined", !.deferred = <<>>,
                            !.system = <<>>, !.user = <<>>]
  <2>1. <<>> \in Seq(Envelopes) /\ <<>> \in Seq(Entries)
    OBVIOUS
  <2>2. r \in Associations /\ r.reset
    BY <2>1 DEF ResetRedelivery, Associations
  <2> HIDE DEF r
  <2>3. b \in Associations /\ b.reset
    BY <2>1, <2>2 DEF Associations
  <2> QED
    BY <1>2, <2>3 DEF Quarantine, r
<1> QED
  BY <1>1, <1>2

\* An envelope as the record of its fields.
LEMMA EnvelopeFields ==
  ASSUME NEW e \in Envelopes
  PROVE  /\ e.id \in Nat /\ e.sys \in BOOLEAN /\ e.lane \in Lanes /\ e.seq \in Nat
         /\ \A s \in Nat : /\ [e EXCEPT !.seq = s] \in Envelopes
                           /\ [e EXCEPT !.seq = s].seq = s
                           /\ [e EXCEPT !.seq = s].id = e.id
                           /\ [e EXCEPT !.seq = s].sys = e.sys
  BY DEF Envelopes

\* What entering the redelivery window does to it.
Tracked(a, env) ==
  IF IsPending(a, env.seq) THEN a.pending
  ELSE Append(a.pending, [seq |-> env.seq, env |-> env, sent |-> FALSE])

\* What enqueue may do to an association.
Outcome(a, e, b) ==
  \/ b = a
  \/ b.reset
  \/ /\ a.state = "Active" /\ ~e.sys
     /\ b = [a EXCEPT !.user = Append(@, e)]
  \/ /\ a.state \in {"Handshaking", "Gated", "Idle"}
     /\ b = [a EXCEPT !.deferred = Append(@, e)]
  \/ /\ a.state = "Active" /\ e.sys /\ e.seq # 0
     /\ b = [a EXCEPT !.system = Append(@, e), !.pending = Tracked(a, e)]
  \/ /\ a.state = "Active" /\ Fresh(e)
     /\ b = [a EXCEPT !.system = Append(@, [e EXCEPT !.seq = a.next]),
                      !.next = a.next + 1, !.numbered = Append(@, e.id),
                      !.pending = Tracked(a, [e EXCEPT !.seq = a.next])]

\* Enqueue has one of its outcomes.
LEMMA EnqueueOutcome ==
  ASSUME NEW a \in Associations, NEW e \in Envelopes
  PROVE  /\ Enqueue(a, e) \in Associations
         /\ a.reset => Enqueue(a, e).reset
         /\ Outcome(a, e, Enqueue(a, e))
<1> DEFINE env == [e EXCEPT !.seq = a.next]
           over == \/ Len(a.system) >= ControlQueue
                   \/ e.seq = 0 /\ Len(a.pending) >= SendWindow
<1>1. /\ a.state \in States
      /\ a.system \in Seq(Envelopes) /\ a.user \in Seq(Envelopes)
      /\ a.deferred \in Seq(Envelopes) /\ a.pending \in Seq(Entries)
      /\ a.next \in Nat /\ a.numbered \in Seq(Nat) /\ a.reset \in BOOLEAN
  BY Fields
<1>2. /\ e.id \in Nat /\ e.sys \in BOOLEAN /\ e.seq \in Nat
      /\ env \in Envelopes /\ env.seq = a.next
  BY <1>1, EnvelopeFields
<1>3. ASSUME NEW x \in Envelopes, x.seq \in Nat PROVE Tracked(a, x) \in Seq(Entries)
  <2>1. [seq |-> x.seq, env |-> x, sent |-> FALSE] \in Entries
    BY <1>3 DEF Entries
  <2> QED
    BY <1>1, <2>1 DEF Tracked
<1>4. CASE a.state = "Active" /\ e.sys /\ over
  <2>1. Enqueue(a, e) = Quarantine(a)
    BY <1>4 DEF Enqueue, EnqueueActive
  <2> QED
    BY <1>4, <2>1, QuarantineStep DEF Outcome
<1>5. CASE a.state = "Active" /\ e.sys /\ ~over /\ e.seq = 0
  <2> DEFINE b == [a EXCEPT !.system = Append(@, env), !.next = a.next + 1,
                            !.numbered = Append(@, e.id), !.pending = Tracked(a, env)]
  <2>1. Enqueue(a, e) = b
    BY <1>2, <1>5 DEF Enqueue, EnqueueActive, Tracked
  <2>2. /\ Append(a.system, env) \in Seq(Envelopes) /\ a.next + 1 \in Nat
        /\ Append(a.numbered, e.id) \in Seq(Nat) /\ Tracked(a, env) \in Seq(Entries)
    <3> HIDE DEF env
    <3> QED
      BY <1>1, <1>2, <1>3
  <2>3. b \in Associations /\ b.reset = a.reset
    BY <2>2 DEF Associations
  <2>4. Outcome(a, e, b)
    BY <1>5 DEF Outcome, Fresh
  <2> QED
    BY <2>1, <2>3, <2>4
<1>6. CASE a.state = "Active" /\ e.sys /\ ~over /\ e.seq # 0
  <2> DEFINE b == [a EXCEPT !.system = Append(@, e), !.pending = Tracked(a, e)]
  <2>1. Enqueue(a, e) = [a EXCEPT !.system = Append(@, e), !.next = @, !.numbered = @,
                                  !.pending = Tracked(a, e)]
    BY <1>2, <1>6 DEF Enqueue, EnqueueActive, Tracked
  <2>2. Enqueue(a, e) = b
    BY <2>1 DEF Associations
  <2>3. /\ Append(a.system, e) \in Seq(Envelopes) /\ Tracked(a, e) \in Seq(Entries)
    BY <1>1, <1>2, <1>3
  <2>4. b \in Associations /\ b.reset = a.reset
    BY <2>3 DEF Associations
  <2>5. Outcome(a, e, b)
    BY <1>6 DEF Outcome
  <2> QED
    BY <2>2, <2>4, <2>5
<1>7. CASE a.state = "Active" /\ ~e.sys
  <2> DEFINE b == [a EXCEPT !.user = Append(@, e)]
  <2>1. Enqueue(a, e) \in {a, b}
    BY <1>7 DEF Enqueue, EnqueueActive
  <2>2. Append(a.user, e) \in Seq(Envelopes)
    BY <1>1
  <2>3. b \in Associations /\ b.reset = a.reset
    BY <2>2 DEF Associations
  <2>4. Outcome(a, e, b) /\ Outcome(a, e, a)
    BY <1>7 DEF Outcome
  <2> QED
    BY <2>1, <2>3, <2>4
<1>8. CASE a.state \in {"Handshaking", "Gated", "Idle"}
  <2> DEFINE b == [a EXCEPT !.deferred = Append(@, e)]
  <2>1. Enqueue(a, e) \in {a, b}
    BY <1>8 DEF Enqueue, EnqueueDeferred
  <2>2. Append(a.deferred, e) \in Seq(Envelopes)
    BY <1>1
  <2>3. b \in Associations /\ b.reset = a.reset
    BY <2>2 DEF Associations
  <2>4. Outcome(a, e, b) /\ Outcome(a, e, a)
    BY <1>8 DEF Outcome
  <2> QED
    BY <2>1, <2>3, <2>4
<1>9. CASE a.state = "Quarantined"
  BY <1>9 DEF Enqueue, Outcome
<1> QED
  BY <1>1, <1>2, <1>4, <1>5, <1>6, <1>7, <1>8, <1>9 DEF States

\* A number that was given stays given.
LEMMA NumberedGrows ==
  ASSUME NEW a \in Associations, NEW b \in Associations, Extends(a, b), ~b.reset, NEW e
  PROVE  Numbered(a, e) => Numbered(b, e)
<1>1. Len(a.numbered) \in Nat /\ Len(b.numbered) \in Nat
  BY Fields
<1> QED
  BY <1>1 DEF Numbered, Extends

\* The same numbers are the same for everything that is said of them.
LEMMA SameNumbers ==
  ASSUME NEW a \in Associations, NEW b \in Associations,
         b.numbered = a.numbered, b.reset = a.reset, b.cumulative = a.cumulative
  PROVE  /\ Extends(a, b)
         /\ \A e : Numbered(a, e) <=> Numbered(b, e)
         /\ \A id : Above(a, id) <=> Above(b, id)
<1>1. Len(a.numbered) \in Nat
  BY Fields
<1> QED
  BY <1>1 DEF Extends, Numbered, Above

\* An envelope that may be enqueued.
Fit(a, e, k) ==
  ~a.reset =>
    /\ e.sys => Fresh(e) \/ Numbered(a, e)
    /\ Fresh(e) => /\ e.id <= k /\ Above(a, e.id)
                   /\ Behind(a.deferred, Len(a.deferred), e.id)

\* What enqueue keeps.
Kept(a, e, b, k, c) ==
  /\ b \in Associations /\ Sound(b, k, c) /\ Extends(a, b)
  /\ ~b.reset => /\ b.state = a.state
                 /\ a.state = "Active" => b.deferred = <<>>
                 /\ \/ b.numbered = a.numbered
                    \/ Fresh(e) /\ b.numbered = Append(a.numbered, e.id)

\* A user envelope goes to its queue.
LEMMA KeptUser ==
  ASSUME NEW a \in Associations, NEW e \in Envelopes, NEW k \in Nat, NEW c \in Nat,
         Sound(a, k, c), ~a.reset, ~e.sys, NEW b \in Associations,
         b = [a EXCEPT !.user = Append(@, e)]
  PROVE  Kept(a, e, b, k, c)
<1>1. /\ b.user = Append(a.user, e) /\ b.reset = a.reset /\ b.numbered = a.numbered
      /\ b.system = a.system /\ b.deferred = a.deferred /\ b.pending = a.pending
      /\ b.next = a.next /\ b.state = a.state /\ b.cumulative = a.cumulative
  BY DEF Associations
<1>2. /\ Extends(a, b) /\ \A x : Numbered(a, x) <=> Numbered(b, x)
      /\ \A id : Above(a, id) <=> Above(b, id)
  BY <1>1, SameNumbers
<1>3. Range(b.user) = Range(a.user) \cup {e}
  BY <1>1, Fields, RangeAppend
<1>4. QueuesOK(a) /\ WindowOK(a, c) /\ OrderOK(a, k)
  BY DEF Sound
<1>5. QueuesOK(b)
  BY <1>1, <1>2, <1>3, <1>4 DEF QueuesOK
<1>6. WindowOK(b, c)
  BY <1>1, <1>2, <1>4 DEF WindowOK
<1>7. OrderOK(b, k)
  BY <1>1, <1>2, <1>4 DEF OrderOK
<1> QED
  BY <1>1, <1>2, <1>4, <1>5, <1>6, <1>7 DEF Kept, Sound, OrderOK

\* An envelope is deferred.
LEMMA KeptDeferred ==
  ASSUME NEW a \in Associations, NEW e \in Envelopes, NEW k \in Nat, NEW c \in Nat,
         Sound(a, k, c), ~a.reset, Fit(a, e, k), a.state # "Active", NEW b \in Associations,
         b = [a EXCEPT !.deferred = Append(@, e)]
  PROVE  Kept(a, e, b, k, c)
<1>1. /\ b.deferred = Append(a.deferred, e) /\ b.reset = a.reset /\ b.numbered = a.numbered
      /\ b.system = a.system /\ b.user = a.user /\ b.pending = a.pending
      /\ b.next = a.next /\ b.state = a.state /\ b.cumulative = a.cumulative
  BY DEF Associations
<1>2. /\ Extends(a, b) /\ \A x : Numbered(a, x) <=> Numbered(b, x)
      /\ \A id : Above(a, id) <=> Above(b, id)
  BY <1>1, SameNumbers
<1>3. a.deferred \in Seq(Envelopes) /\ Len(a.deferred) \in Nat
  BY Fields
<1>4. Range(b.deferred) = Range(a.deferred) \cup {e}
  BY <1>1, <1>3, RangeAppend
<1>5. /\ Len(b.deferred) = Len(a.deferred) + 1
      /\ \A i \in 1 .. Len(a.deferred) : b.deferred[i] = a.deferred[i]
      /\ b.deferred[Len(a.deferred) + 1] = e
  BY <1>1, <1>3
<1>6. QueuesOK(a) /\ WindowOK(a, c) /\ OrderOK(a, k)
  BY DEF Sound
<1>7. QueuesOK(b)
  BY <1>1, <1>2, <1>4, <1>6 DEF QueuesOK, Fit
<1>8. WindowOK(b, c)
  <2>1. \A x \in Range(b.pending) : x.seq = x.env.seq /\ Numbered(b, x.env)
    BY <1>1, <1>2, <1>6 DEF WindowOK
  <2>2. b.next = Len(b.numbered) + 1
    BY <1>1, <1>6 DEF WindowOK
  <2>3. \A s \in (c + 1) .. Len(b.numbered) : \E x \in Range(b.pending) : x.seq = s
    BY <1>1, <1>6 DEF WindowOK
  <2> QED
    BY <2>1, <2>2, <2>3 DEF WindowOK
<1>9. ASSUME NEW i \in 1 .. Len(b.deferred), Fresh(b.deferred[i])
      PROVE  /\ b.deferred[i].id <= k
             /\ Above(b, b.deferred[i].id)
             /\ Behind(b.deferred, i - 1, b.deferred[i].id)
  <2>1. CASE i \in 1 .. Len(a.deferred)
    <3>1. \A j \in 1 .. (i - 1) : j \in 1 .. Len(a.deferred)
      BY <1>3, <2>1
    <3> QED
      BY <1>2, <1>3, <1>5, <1>6, <1>9, <2>1, <3>1 DEF OrderOK, Behind
  <2>2. CASE i = Len(a.deferred) + 1
    <3>1. i - 1 = Len(a.deferred)
      BY <1>3, <2>2
    <3> QED
      BY <1>2, <1>3, <1>5, <1>9, <2>2, <3>1 DEF Fit, Behind
  <2> QED
    BY <1>3, <1>5, <2>1, <2>2
<1>10. OrderOK(b, k)
  BY <1>1, <1>6, <1>9 DEF OrderOK
<1> QED
  BY <1>1, <1>2, <1>7, <1>8, <1>10 DEF Kept, Sound

\* What entering the window adds to it.
LEMMA TrackedRange ==
  ASSUME NEW a \in Associations, NEW env \in Envelopes
  PROVE  /\ Tracked(a, env) \in Seq(Entries)
         /\ Range(a.pending) \subseteq Range(Tracked(a, env))
         /\ \A x \in Range(Tracked(a, env)) :
              x \in Range(a.pending) \/ (x.seq = env.seq /\ x.env = env)
         /\ \E x \in Range(Tracked(a, env)) : x.seq = env.seq
<1> DEFINE x == [seq |-> env.seq, env |-> env, sent |-> FALSE]
<1>1. a.pending \in Seq(Entries)
  BY Fields
<1>2. x \in Entries /\ x.seq = env.seq /\ x.env = env
  BY DEF Entries, Envelopes
<1>3. CASE IsPending(a, env.seq)
  <2>1. PICK i \in DOMAIN a.pending : a.pending[i].seq = env.seq
    BY <1>3 DEF IsPending
  <2>2. a.pending[i] \in Range(a.pending)
    BY DEF Range
  <2> QED
    BY <1>1, <1>3, <2>1, <2>2 DEF Tracked
<1>4. CASE ~IsPending(a, env.seq)
  <2> HIDE DEF x
  <2>1. Append(a.pending, x) \in Seq(Entries) /\ Range(Append(a.pending, x)) = Range(a.pending) \cup {x}
    BY <1>1, <1>2, RangeAppend
  <2>2. Tracked(a, env) = Append(a.pending, x)
    BY <1>4 DEF Tracked, x
  <2> QED
    BY <1>2, <2>1, <2>2
<1> QED
  BY <1>3, <1>4

\* A numbered envelope is queued again.
LEMMA KeptAgain ==
  ASSUME NEW a \in Associations, NEW e \in Envelopes, NEW k \in Nat, NEW c \in Nat,
         Sound(a, k, c), ~a.reset, Numbered(a, e), NEW b \in Associations,
         b = [a EXCEPT !.system = Append(@, e), !.pending = Tracked(a, e)]
  PROVE  Kept(a, e, b, k, c)
<1>1. /\ b.system = Append(a.system, e) /\ b.reset = a.reset /\ b.numbered = a.numbered
      /\ b.deferred = a.deferred /\ b.user = a.user /\ b.pending = Tracked(a, e)
      /\ b.next = a.next /\ b.state = a.state /\ b.cumulative = a.cumulative
  BY DEF Associations
<1>2. /\ Extends(a, b) /\ \A x : Numbered(a, x) <=> Numbered(b, x)
      /\ \A id : Above(a, id) <=> Above(b, id)
  BY <1>1, SameNumbers
<1>3. Range(b.system) = Range(a.system) \cup {e}
  BY <1>1, Fields, RangeAppend
<1>4. QueuesOK(a) /\ WindowOK(a, c) /\ OrderOK(a, k)
  BY DEF Sound
<1>5. QueuesOK(b)
  BY <1>1, <1>2, <1>3, <1>4 DEF QueuesOK
<1>6. /\ Range(a.pending) \subseteq Range(b.pending)
      /\ \A x \in Range(b.pending) : x \in Range(a.pending) \/ (x.seq = e.seq /\ x.env = e)
  BY <1>1, TrackedRange
<1>7. WindowOK(b, c)
  <2>1. \A x \in Range(b.pending) : x.seq = x.env.seq /\ Numbered(b, x.env)
    BY <1>2, <1>4, <1>6 DEF WindowOK
  <2>2. \A s \in (c + 1) .. Len(b.numbered) : \E x \in Range(b.pending) : x.seq = s
    BY <1>1, <1>4, <1>6 DEF WindowOK
  <2>3. b.next = Len(b.numbered) + 1
    BY <1>1, <1>4 DEF WindowOK
  <2> QED
    BY <2>1, <2>2, <2>3 DEF WindowOK
<1>8. OrderOK(b, k)
  BY <1>1, <1>2, <1>4 DEF OrderOK
<1> QED
  BY <1>1, <1>2, <1>4, <1>5, <1>7, <1>8 DEF Kept, Sound, OrderOK

\* A new system envelope is given the next number.
LEMMA KeptFresh ==
  ASSUME NEW a \in Associations, NEW e \in Envelopes, NEW k \in Nat, NEW c \in Nat,
         Sound(a, k, c), ~a.reset, Fit(a, e, k), Fresh(e), a.state = "Active",
         NEW b \in Associations,
         b = [a EXCEPT !.system = Append(@, [e EXCEPT !.seq = a.next]),
                       !.next = a.next + 1, !.numbered = Append(@, e.id),
                       !.pending = Tracked(a, [e EXCEPT !.seq = a.next])]
  PROVE  Kept(a, e, b, k, c)
<1> DEFINE env == [e EXCEPT !.seq = a.next]
           n == Len(a.numbered)
<1>1. /\ b.system = Append(a.system, env) /\ b.reset = a.reset
      /\ b.numbered = Append(a.numbered, e.id)
      /\ b.deferred = a.deferred /\ b.user = a.user /\ b.pending = Tracked(a, env)
      /\ b.next = a.next + 1 /\ b.state = a.state /\ b.cumulative = a.cumulative
  BY DEF Associations
<1>2. QueuesOK(a) /\ WindowOK(a, c) /\ OrderOK(a, k)
  BY DEF Sound
<1>3. a.deferred = <<>> /\ a.next = n + 1
  BY <1>2 DEF OrderOK, WindowOK
<1>4. a.numbered \in Seq(Nat) /\ n \in Nat /\ a.next \in Nat /\ e.id \in Nat
  BY Fields, EnvelopeFields
<1>5. /\ env \in Envelopes /\ env.seq = n + 1 /\ env.id = e.id /\ env.sys
  BY <1>3, <1>4, EnvelopeFields DEF Fresh
<1>6. /\ Len(b.numbered) = n + 1 /\ b.numbered[n + 1] = e.id
      /\ \A i \in 1 .. n : b.numbered[i] = a.numbered[i]
      /\ b.numbered \in Seq(Nat)
  BY <1>1, <1>4
<1> HIDE DEF env
<1>7. Extends(a, b)
  BY <1>1, <1>4, <1>6 DEF Extends
<1>8. \A x : Numbered(a, x) => Numbered(b, x)
  BY <1>1, <1>7, NumberedGrows
<1>9. Numbered(b, env)
  BY <1>4, <1>5, <1>6 DEF Numbered
<1>10. Range(b.system) = Range(a.system) \cup {env}
  <2>1. a.system \in Seq(Envelopes)
    BY Fields
  <2>2. Range(Append(a.system, env)) = Range(a.system) \cup {env}
    BY <1>5, <2>1, RangeAppend
  <2> QED
    BY <1>1, <2>2
<1>11. QueuesOK(b)
  BY <1>1, <1>2, <1>8, <1>9, <1>10 DEF QueuesOK
<1>12. /\ Range(a.pending) \subseteq Range(b.pending)
       /\ \A x \in Range(b.pending) : x \in Range(a.pending) \/ (x.seq = env.seq /\ x.env = env)
       /\ \E x \in Range(b.pending) : x.seq = env.seq
  <2>1. PICK t : t = Tracked(a, env)
    OBVIOUS
  <2>2. /\ Range(a.pending) \subseteq Range(t)
        /\ \A x \in Range(t) : x \in Range(a.pending) \/ (x.seq = env.seq /\ x.env = env)
        /\ \E x \in Range(t) : x.seq = env.seq
    BY <1>5, <2>1, TrackedRange
  <2>3. b.pending = t
    BY <1>1, <2>1
  <2> QED
    BY <2>2, <2>3
<1>13. WindowOK(b, c)
  <2>1. \A x \in Range(b.pending) : x.seq = x.env.seq /\ Numbered(b, x.env)
    BY <1>2, <1>8, <1>9, <1>12 DEF WindowOK
  <2>2. \A s \in (c + 1) .. Len(b.numbered) : s \in (c + 1) .. n \/ s = env.seq
    BY <1>4, <1>5, <1>6
  <2>3. \A s \in (c + 1) .. Len(b.numbered) : \E x \in Range(b.pending) : x.seq = s
    BY <1>2, <1>12, <2>2 DEF WindowOK
  <2>4. b.next = Len(b.numbered) + 1
    BY <1>1, <1>3, <1>6
  <2> QED
    BY <2>1, <2>3, <2>4 DEF WindowOK
<1>14. OrderOK(b, k)
  <2>1. e.id <= k /\ \A j \in 1 .. n : a.numbered[j] < e.id
    BY DEF Fit, Above
  <2>2. Increasing(b.numbered)
    <3>1. DOMAIN b.numbered = 1 .. n + 1 /\ DOMAIN a.numbered = 1 .. n
      BY <1>4, <1>6
    <3>2. \A i, j \in 1 .. n : i < j => a.numbered[i] < a.numbered[j]
      BY <1>2, <3>1 DEF OrderOK, Increasing
    <3>3. \A i \in 1 .. n + 1 : i \in 1 .. n \/ i = n + 1
      BY <1>4
    <3> QED
      BY <1>4, <1>6, <2>1, <3>1, <3>2, <3>3 DEF Increasing
  <2>3. \A i \in 1 .. Len(b.numbered) : b.numbered[i] <= k
    <3>1. \A i \in 1 .. n + 1 : i \in 1 .. n \/ i = n + 1
      BY <1>4
    <3> QED
      BY <1>2, <1>6, <2>1, <3>1 DEF OrderOK
  <2> QED
    BY <1>1, <1>3, <2>2, <2>3 DEF OrderOK
<1> QED
  BY <1>1, <1>3, <1>7, <1>11, <1>13, <1>14 DEF Kept, Sound

\* An association that has reset its numbers makes no promise.
LEMMA KeptReset ==
  ASSUME NEW a, NEW e, NEW k, NEW c, NEW b \in Associations, b.reset
  PROVE  Kept(a, e, b, k, c)
  BY DEF Kept, Sound, Extends

\* Enqueue keeps what is said of an association.
LEMMA EnqueueSound ==
  ASSUME NEW a \in Associations, NEW e \in Envelopes, NEW k \in Nat, NEW c \in Nat,
         Sound(a, k, c), Fit(a, e, k)
  PROVE  Kept(a, e, Enqueue(a, e), k, c)
<1>1. PICK b : b = Enqueue(a, e)
  OBVIOUS
<1>2. b \in Associations /\ (a.reset => b.reset) /\ Outcome(a, e, b)
  BY <1>1, EnqueueOutcome
<1>3. CASE b.reset
  BY <1>1, <1>2, <1>3, KeptReset
<1>4. CASE ~b.reset /\ b = a
  <2>1. Extends(a, a)
    BY SameNumbers
  <2>2. ~a.reset /\ OrderOK(a, k)
    BY <1>4 DEF Sound
  <2> QED
    BY <1>1, <1>4, <2>1, <2>2 DEF Kept, OrderOK
<1>5. CASE ~b.reset /\ b # a
  <2>1. ~a.reset
    BY <1>2, <1>5, Fields
  <2>2. CASE ~e.sys /\ b = [a EXCEPT !.user = Append(@, e)]
    BY <1>1, <1>2, <2>1, <2>2, KeptUser
  <2>3. CASE /\ a.state \in {"Handshaking", "Gated", "Idle"}
             /\ b = [a EXCEPT !.deferred = Append(@, e)]
    BY <1>1, <1>2, <2>1, <2>3, KeptDeferred
  <2>4. CASE /\ e.sys /\ e.seq # 0
             /\ b = [a EXCEPT !.system = Append(@, e), !.pending = Tracked(a, e)]
    <3>1. Numbered(a, e)
      BY <2>1, <2>4 DEF Fit, Fresh
    <3> QED
      BY <1>1, <1>2, <2>1, <2>4, <3>1, KeptAgain
  <2>5. CASE /\ a.state = "Active" /\ Fresh(e)
             /\ b = [a EXCEPT !.system = Append(@, [e EXCEPT !.seq = a.next]),
                              !.next = a.next + 1, !.numbered = Append(@, e.id),
                              !.pending = Tracked(a, [e EXCEPT !.seq = a.next])]
    BY <1>1, <1>2, <2>1, <2>5, KeptFresh
  <2> QED
    BY <1>2, <1>5, <2>2, <2>3, <2>4, <2>5 DEF Outcome
<1> QED
  BY <1>3, <1>4, <1>5

-----------------------------------------------------------------------------
(* Several envelopes                                                       *)

\* What the other methods keep.
Good(a, b, k, c) == b \in Associations /\ Sound(b, k, c) /\ Extends(a, b)

\* Extends is transitive.
LEMMA ExtendsOn ==
  ASSUME NEW a \in Associations, NEW b \in Associations, NEW d \in Associations,
         Extends(a, b), Extends(b, d)
  PROVE  Extends(a, d)
<1>1. /\ Len(a.numbered) \in Nat /\ Len(b.numbered) \in Nat /\ Len(d.numbered) \in Nat
      /\ b.reset \in BOOLEAN /\ a.reset \in BOOLEAN /\ d.reset \in BOOLEAN
  BY Fields
<1>2. a.reset => d.reset
  BY DEF Extends
<1>3. ASSUME ~d.reset
      PROVE  /\ d.cumulative = a.cumulative
             /\ Len(a.numbered) <= Len(d.numbered)
             /\ \A i \in 1 .. Len(a.numbered) : d.numbered[i] = a.numbered[i]
  <2>1. ~b.reset
    BY <1>3 DEF Extends
  <2> QED
    BY <1>1, <1>3, <2>1 DEF Extends
<1> QED
  BY <1>2, <1>3 DEF Extends

\* g goes over es as EnqueueAll does.
Enqueues(g, a, es) ==
  g[0] = a /\ \A i \in 1 .. Len(es) : g[i] = Enqueue(g[i - 1], es[i])

\* EnqueueAll is what its recursion says.
LEMMA EnqueueAllSteps ==
  ASSUME NEW a \in Associations, NEW es \in Seq(Envelopes)
  PROVE  \E g \in [0 .. Len(es) -> Associations] :
           EnqueueAll(a, es) = g[Len(es)] /\ Enqueues(g, a, es)
<1> DEFINE F == [x \in Associations \X Nat |->
                   IF x[2] \in 1 .. Len(es) THEN Enqueue(x[1], es[x[2]]) ELSE x[1]]
           Step(g) == [i \in 0 .. Len(es) |-> IF i = 0 THEN a ELSE Enqueue(g[i - 1], es[i])]
           after == CHOOSE g : g = Step(g)
<1>1. Len(es) \in Nat /\ \A i \in 1 .. Len(es) : es[i] \in Envelopes
  OBVIOUS
<1>2. F \in [Associations \X Nat -> Associations]
  <2>1. ASSUME NEW x \in Associations \X Nat
        PROVE  (IF x[2] \in 1 .. Len(es) THEN Enqueue(x[1], es[x[2]]) ELSE x[1])
                 \in Associations
    <3>1. PICK b \in Associations, i \in Nat : x = <<b, i>>
      OBVIOUS
    <3>2. i \in 1 .. Len(es) => Enqueue(b, es[i]) \in Associations
      BY <1>1, EnqueueOutcome
    <3> QED
      BY <3>1, <3>2
  <2> QED
    BY <2>1
<1>3. ASSUME NEW b \in Associations, NEW i \in 1 .. Len(es)
      PROVE  F[<<b, i>>] = Enqueue(b, es[i])
  <2>1. <<b, i>> \in Associations \X Nat
    OBVIOUS
  <2> QED
    BY <2>1
<1> HIDE DEF F
<1>4. PICK g \in [0 .. Len(es) -> Associations] :
        Goes(g, F, a, Len(es)) /\ Ends(g, F, a, Len(es), Associations)
  BY <1>1, <1>2, Recursion
<1>5. \A i \in 1 .. Len(es) : i - 1 \in 0 .. Len(es)
  BY <1>1
<1>6. Enqueues(g, a, es)
  BY <1>3, <1>4, <1>5 DEF Goes, Enqueues
<1>7. g = Step(g)
  <2>1. \A i \in 0 .. Len(es) : i = 0 \/ i \in 1 .. Len(es)
    BY <1>1
  <2>2. \A i \in 0 .. Len(es) : g[i] = Step(g)[i]
    BY <1>6, <2>1 DEF Enqueues
  <2> QED
    BY <2>2
<1>8. after = Step(after)
  BY <1>7
<1>9. EnqueueAll(a, es) = after[Len(es)]
  BY DEF EnqueueAll
<1>10. Enqueues(after, a, es)
  <2>1. ASSUME NEW h, h = Step(h) PROVE Enqueues(h, a, es)
    <3>1. \A i \in 0 .. Len(es) : h[i] = Step(h)[i]
      BY <2>1
    <3>2. \A i \in 1 .. Len(es) : i \in 0 .. Len(es) /\ i # 0
      OBVIOUS
    <3> QED
      BY <1>1, <3>1, <3>2 DEF Enqueues
  <2> HIDE DEF after, Step
  <2> QED
    BY <1>8, <2>1
<1> HIDE DEF after, Step
<1>11. after[Len(es)] = g[Len(es)]
  BY <1>3, <1>4, <1>10 DEF Ends, Enqueues
<1> QED
  BY <1>6, <1>9, <1>11

\* Envelopes that may be enqueued one after the other.
Line(a, es, k) ==
  ~a.reset => \A i \in 1 .. Len(es) :
    /\ es[i].sys => Fresh(es[i]) \/ Numbered(a, es[i])
    /\ Fresh(es[i]) => /\ es[i].id <= k /\ Above(a, es[i].id)
                       /\ Behind(es, i - 1, es[i].id)

\* Enqueueing a line keeps what is said of an association.
LEMMA EnqueueAllSound ==
  ASSUME NEW a \in Associations, NEW es \in Seq(Envelopes), NEW k \in Nat, NEW c \in Nat,
         Sound(a, k, c), a.state = "Active", Line(a, es, k)
  PROVE  Good(a, EnqueueAll(a, es), k, c)
<1>1. PICK g \in [0 .. Len(es) -> Associations] :
        EnqueueAll(a, es) = g[Len(es)] /\ Enqueues(g, a, es)
  BY EnqueueAllSteps
<1> DEFINE Inv(i, b) ==
             /\ Good(a, b, k, c)
             /\ ~b.reset => /\ b.state = "Active"
                            /\ \A j \in 1 .. Len(es) :
                                 j > i /\ Fresh(es[j]) => Above(b, es[j].id)
           T == {i \in Nat : i <= Len(es) => Inv(i, g[i])}
<1>2. Len(es) \in Nat /\ \A i \in 1 .. Len(es) : es[i] \in Envelopes
  OBVIOUS
<1>3. 0 \in T
  <2>1. g[0] = a /\ Extends(a, a)
    BY <1>1, SameNumbers DEF Enqueues
  <2>2. Inv(0, a)
    BY <2>1 DEF Line, Good
  <2> QED
    BY <2>1, <2>2
<1>4. ASSUME NEW i \in Nat, i \in T PROVE i + 1 \in T
  <2> SUFFICES ASSUME i + 1 <= Len(es) PROVE Inv(i + 1, g[i + 1])
    OBVIOUS
  <2>1. i + 1 \in 1 .. Len(es) /\ (i + 1) - 1 = i /\ i \in 0 .. Len(es) /\ i + 1 \in 0 .. Len(es)
    BY <1>2
  <2>2. PICK b, d : b = g[i] /\ d = g[i + 1]
    OBVIOUS
  <2>3. PICK e : e = es[i + 1]
    OBVIOUS
  <2>4. Inv(i, b) /\ b \in Associations /\ d \in Associations /\ e \in Envelopes
    BY <1>2, <1>4, <2>1, <2>2, <2>3
  <2>5. d = Enqueue(b, e)
    BY <1>1, <2>1, <2>2, <2>3 DEF Enqueues
  <2>6. Sound(b, k, c) /\ Extends(a, b)
    BY <2>4 DEF Good
  <2>7. ~b.reset => ~a.reset /\ b.deferred = <<>>
    BY <2>4, <2>6 DEF Extends, Sound, OrderOK
  <2>8. Fit(b, e, k)
    <3> SUFFICES ASSUME ~b.reset
                 PROVE  /\ e.sys => Fresh(e) \/ Numbered(b, e)
                        /\ Fresh(e) => /\ e.id <= k /\ Above(b, e.id)
                                       /\ Behind(b.deferred, Len(b.deferred), e.id)
      BY DEF Fit
    <3>1. e.sys => Fresh(e) \/ Numbered(a, e)
      BY <2>1, <2>3, <2>7 DEF Line
    <3>2. Numbered(a, e) => Numbered(b, e)
      BY <2>4, <2>6, NumberedGrows
    <3>3. Fresh(e) => e.id <= k
      BY <2>1, <2>3, <2>7 DEF Line
    <3>4. Fresh(e) => Above(b, e.id)
      BY <2>1, <2>3, <2>4
    <3>5. Behind(b.deferred, Len(b.deferred), e.id)
      <4>1. b.deferred = <<>> /\ Len(<<>>) = 0
        BY <2>7
      <4>2. 1 .. 0 = {}
        OBVIOUS
      <4> QED
        BY <4>1, <4>2 DEF Behind
    <3> QED
      BY <3>1, <3>2, <3>3, <3>4, <3>5
  <2>9. Kept(b, e, d, k, c)
    BY <2>4, <2>5, <2>6, <2>8, EnqueueSound
  <2>10. Good(a, d, k, c)
    <3>1. Extends(a, d)
      BY <2>4, <2>6, <2>9, ExtendsOn DEF Kept
    <3> QED
      BY <2>9, <3>1 DEF Kept, Good
  <2>11. ASSUME ~d.reset PROVE ~b.reset /\ d.state = "Active"
    <3>1. ~b.reset
      BY <2>9, <2>11 DEF Kept, Extends
    <3> QED
      BY <2>4, <2>9, <2>11, <3>1 DEF Kept
  <2>12. ASSUME ~d.reset, NEW j \in 1 .. Len(es), j > i + 1, Fresh(es[j])
         PROVE  Above(d, es[j].id)
    <3>1. ~a.reset /\ Above(b, es[j].id)
      BY <2>4, <2>7, <2>11, <2>12
    <3>2. i + 1 \in 1 .. (j - 1)
      BY <2>12
    <3>3. Fresh(e) => e.id < es[j].id
      BY <2>3, <2>12, <3>1, <3>2 DEF Line, Behind
    <3>4. CASE d.numbered = b.numbered
      BY <3>1, <3>4 DEF Above
    <3>5. CASE Fresh(e) /\ d.numbered = Append(b.numbered, e.id)
      <4>1. b.numbered \in Seq(Nat) /\ e.id \in Nat /\ Len(b.numbered) \in Nat
        BY <2>4, Fields, EnvelopeFields
      <4>2. /\ Len(d.numbered) = Len(b.numbered) + 1
            /\ \A m \in 1 .. Len(b.numbered) : d.numbered[m] = b.numbered[m]
            /\ d.numbered[Len(b.numbered) + 1] = e.id
        BY <3>5, <4>1
      <4>3. \A m \in 1 .. Len(d.numbered) : m \in 1 .. Len(b.numbered) \/ m = Len(b.numbered) + 1
        BY <4>1, <4>2
      <4> QED
        BY <3>1, <3>3, <3>5, <4>2, <4>3 DEF Above
    <3> QED
      BY <2>9, <2>12, <3>4, <3>5 DEF Kept
  <2> QED
    BY <2>2, <2>10, <2>11, <2>12
<1>5. Len(es) \in T
  <2> HIDE DEF T
  <2> QED
    BY <1>2, <1>3, <1>4, NatSteps
<1> QED
  BY <1>1, <1>2, <1>5

\* Accepting the handshake keeps what is said of an association.
LEMMA HandshakeAcceptedSound ==
  ASSUME NEW a \in Associations, NEW k \in Nat, NEW c \in Nat, Sound(a, k, c)
  PROVE  Good(a, HandshakeAccepted(a), k, c)
<1>1. CASE a.state # "Handshaking"
  BY <1>1, SameNumbers DEF HandshakeAccepted, Good
<1>2. CASE a.state = "Handshaking"
  <2> DEFINE b == [a EXCEPT !.state = "Active", !.deferred = <<>>]
  <2>1. /\ b \in Associations /\ b.state = "Active" /\ b.deferred = <<>>
        /\ b.numbered = a.numbered /\ b.reset = a.reset /\ b.cumulative = a.cumulative
        /\ b.system = a.system /\ b.user = a.user /\ b.pending = a.pending /\ b.next = a.next
    <3>1. <<>> \in Seq(Envelopes)
      OBVIOUS
    <3> QED
      BY <3>1 DEF Associations
  <2>2. HandshakeAccepted(a) = EnqueueAll(b, a.deferred)
    BY <1>2 DEF HandshakeAccepted
  <2> HIDE DEF b
  <2>3. /\ Extends(a, b) /\ \A x : Numbered(a, x) <=> Numbered(b, x)
        /\ \A id : Above(a, id) <=> Above(b, id)
    BY <2>1, SameNumbers
  <2>4. Sound(b, k, c)
    <3> SUFFICES ASSUME ~a.reset PROVE QueuesOK(b) /\ WindowOK(b, c) /\ OrderOK(b, k)
      BY <2>1 DEF Sound
    <3>1. QueuesOK(a) /\ WindowOK(a, c) /\ OrderOK(a, k)
      BY DEF Sound
    <3>2. Range(<<>>) = {} /\ 1 .. Len(<<>>) = {}
      BY DEF Range
    <3>3. QueuesOK(b)
      BY <2>1, <2>3, <3>1, <3>2 DEF QueuesOK
    <3>4. WindowOK(b, c)
      BY <2>1, <2>3, <3>1 DEF WindowOK
    <3>5. OrderOK(b, k)
      BY <2>1, <2>3, <3>1, <3>2 DEF OrderOK
    <3> QED
      BY <3>3, <3>4, <3>5
  <2>5. a.deferred \in Seq(Envelopes)
    BY Fields
  <2>6. Line(b, a.deferred, k)
    <3> SUFFICES ASSUME ~a.reset, NEW i \in 1 .. Len(a.deferred)
                 PROVE  /\ a.deferred[i].sys => Fresh(a.deferred[i]) \/ Numbered(a, a.deferred[i])
                        /\ Fresh(a.deferred[i]) =>
                             /\ a.deferred[i].id <= k /\ Above(a, a.deferred[i].id)
                             /\ Behind(a.deferred, i - 1, a.deferred[i].id)
      BY <2>1, <2>3 DEF Line
    <3>1. a.deferred[i] \in Range(a.deferred)
      BY <2>5, RangeMember
    <3> QED
      BY <3>1 DEF Sound, QueuesOK, OrderOK
  <2>7. Good(b, EnqueueAll(b, a.deferred), k, c)
    BY <2>1, <2>4, <2>5, <2>6, EnqueueAllSound
  <2>8. Extends(a, EnqueueAll(b, a.deferred))
    BY <2>1, <2>3, <2>7, ExtendsOn DEF Good
  <2> QED
    BY <2>2, <2>7, <2>8 DEF Good
<1> QED
  BY <1>1, <1>2

-----------------------------------------------------------------------------
(* The redelivery window                                                   *)

\* The window of b holds the entries of a, apart from when they were sent.
SameWindow(p, q) ==
  /\ \A x \in Range(q) : \E y \in Range(p) : x.seq = y.seq /\ x.env = y.env
  /\ \A y \in Range(p) : \E x \in Range(q) : x.seq = y.seq /\ x.env = y.env

\* Marking changes no number and no envelope.
LEMMA MarkSentSame ==
  ASSUME NEW a \in Associations, NEW seqs
  PROVE  LET b == MarkSent(a, seqs)
         IN /\ b \in Associations
            /\ b.system = a.system /\ b.user = a.user /\ b.deferred = a.deferred
            /\ b.next = a.next /\ b.numbered = a.numbered /\ b.reset = a.reset
            /\ b.state = a.state /\ b.cumulative = a.cumulative
            /\ SameWindow(a.pending, b.pending)
<1> DEFINE p == [i \in DOMAIN a.pending |->
                   IF a.pending[i].seq \in seqs THEN [a.pending[i] EXCEPT !.sent = TRUE]
                   ELSE a.pending[i]]
<1>1. a.pending \in Seq(Entries) /\ DOMAIN a.pending = 1 .. Len(a.pending) /\ Len(a.pending) \in Nat
  BY Fields
<1>2. ASSUME NEW i \in 1 .. Len(a.pending)
      PROVE  p[i] \in Entries /\ p[i].seq = a.pending[i].seq /\ p[i].env = a.pending[i].env
  <2>1. a.pending[i] \in Entries
    BY <1>1
  <2> QED
    BY <1>1, <2>1 DEF Entries
<1>3. p \in Seq(Entries) /\ Len(p) = Len(a.pending)
  <2>1. p \in [1 .. Len(a.pending) -> Entries]
    BY <1>1, <1>2
  <2> HIDE DEF p
  <2> QED
    BY <1>1, <2>1
<1>4. MarkSent(a, seqs) = [a EXCEPT !.pending = p]
  BY DEF MarkSent
<1> HIDE DEF p
<1>5. SameWindow(a.pending, p)
  <2>1. \A x : x \in Range(p) <=> \E i \in 1 .. Len(p) : p[i] = x
    BY <1>3, RangeMember
  <2>2. \A x : x \in Range(a.pending) <=> \E i \in 1 .. Len(a.pending) : a.pending[i] = x
    BY <1>1, RangeMember
  <2>3. ASSUME NEW x \in Range(p) PROVE \E y \in Range(a.pending) : x.seq = y.seq /\ x.env = y.env
    <3>1. PICK i \in 1 .. Len(p) : p[i] = x
      BY <2>1
    <3> QED
      BY <1>2, <1>3, <2>2, <3>1
  <2>4. ASSUME NEW y \in Range(a.pending) PROVE \E x \in Range(p) : x.seq = y.seq /\ x.env = y.env
    <3>1. PICK i \in 1 .. Len(a.pending) : a.pending[i] = y
      BY <2>2
    <3> QED
      BY <1>2, <1>3, <2>1, <3>1
  <2> QED
    BY <2>3, <2>4 DEF SameWindow
<1>6. LET b == [a EXCEPT !.pending = p]
      IN /\ b \in Associations /\ b.pending = p
         /\ b.system = a.system /\ b.user = a.user /\ b.deferred = a.deferred
         /\ b.next = a.next /\ b.numbered = a.numbered /\ b.reset = a.reset
         /\ b.state = a.state /\ b.cumulative = a.cumulative
  BY <1>3 DEF Associations
<1> QED
  BY <1>4, <1>5, <1>6

\* The system and the user queue lose envelopes, the window keeps its own.
LEMMA FewerQueued ==
  ASSUME NEW a \in Associations, NEW b \in Associations, NEW k \in Nat, NEW c \in Nat,
         Sound(a, k, c),
         b.numbered = a.numbered, b.reset = a.reset, b.cumulative = a.cumulative,
         b.next = a.next, b.state = a.state, b.deferred = a.deferred,
         Range(b.system) \subseteq Range(a.system), Range(b.user) \subseteq Range(a.user),
         SameWindow(a.pending, b.pending)
  PROVE  Good(a, b, k, c)
<1>1. /\ Extends(a, b) /\ \A x : Numbered(a, x) <=> Numbered(b, x)
      /\ \A id : Above(a, id) <=> Above(b, id)
  BY SameNumbers
<1>2. ASSUME ~a.reset PROVE QueuesOK(b) /\ WindowOK(b, c) /\ OrderOK(b, k)
  <2>1. QueuesOK(a) /\ WindowOK(a, c) /\ OrderOK(a, k)
    BY <1>2 DEF Sound
  <2>2. QueuesOK(b)
    BY <1>1, <2>1 DEF QueuesOK
  <2>3. WindowOK(b, c)
    <3>1. ASSUME NEW x \in Range(b.pending) PROVE x.seq = x.env.seq /\ Numbered(b, x.env)
      <4>1. PICK y \in Range(a.pending) : x.seq = y.seq /\ x.env = y.env
        BY <3>1 DEF SameWindow
      <4> QED
        BY <1>1, <2>1, <4>1 DEF WindowOK
    <3>2. ASSUME NEW s \in (c + 1) .. Len(b.numbered)
          PROVE  \E x \in Range(b.pending) : x.seq = s
      <4>1. PICK y \in Range(a.pending) : y.seq = s
        BY <2>1 DEF WindowOK
      <4> QED
        BY <4>1 DEF SameWindow
    <3>3. b.next = Len(b.numbered) + 1
      BY <2>1 DEF WindowOK
    <3> QED
      BY <3>1, <3>2, <3>3 DEF WindowOK
  <2>4. OrderOK(b, k)
    BY <1>1, <2>1 DEF OrderOK
  <2> QED
    BY <2>2, <2>3, <2>4
<1> QED
  BY <1>1, <1>2 DEF Good, Sound

\* Marking keeps what is said of an association.
LEMMA MarkSentSound ==
  ASSUME NEW a \in Associations, NEW k \in Nat, NEW c \in Nat, Sound(a, k, c), NEW seqs
  PROVE  Good(a, MarkSent(a, seqs), k, c)
  BY MarkSentSame, FewerQueued

\* What an ACK removes from the window, the peer has accepted.
LEMMA RetainedSound ==
  ASSUME NEW a \in Associations, NEW k \in Nat, NEW c \in Nat, Sound(a, k, c),
         NEW f, f.cumulative \in Nat, ~a.reset => f.cumulative <= c
  PROVE  Good(a, Retained(a, f), k, c)
<1> DEFINE p == Only(a.pending, {x \in Range(a.pending) : x.seq > f.cumulative})
           b == [a EXCEPT !.pending = p]
<1>1. a.pending \in Seq(Entries)
  BY Fields
<1>2. p \in Seq(Entries) /\ Range(p) = {x \in Range(a.pending) : x.seq > f.cumulative}
  <2>1. /\ p \in Seq(Entries)
        /\ Range(p) = Range(a.pending) \cap {x \in Range(a.pending) : x.seq > f.cumulative}
    BY <1>1, OnlyRange
  <2> HIDE DEF p
  <2> QED
    BY <2>1
<1>3. Retained(a, f) = b
  BY DEF Retained
<1> HIDE DEF p
<1>4. /\ b \in Associations /\ b.pending = p
      /\ b.system = a.system /\ b.user = a.user /\ b.deferred = a.deferred
      /\ b.next = a.next /\ b.numbered = a.numbered /\ b.reset = a.reset
      /\ b.state = a.state /\ b.cumulative = a.cumulative
  BY <1>2 DEF Associations
<1> HIDE DEF b
<1>5. /\ Extends(a, b) /\ \A x : Numbered(a, x) <=> Numbered(b, x)
      /\ \A id : Above(a, id) <=> Above(b, id)
  BY <1>4, SameNumbers
<1>6. ASSUME ~a.reset PROVE QueuesOK(b) /\ WindowOK(b, c) /\ OrderOK(b, k)
  <2>1. QueuesOK(a) /\ WindowOK(a, c) /\ OrderOK(a, k) /\ f.cumulative <= c
    BY <1>6 DEF Sound
  <2>2. QueuesOK(b)
    BY <1>4, <1>5, <2>1 DEF QueuesOK
  <2>3. \A x \in Range(b.pending) : x.seq = x.env.seq /\ Numbered(b, x.env)
    BY <1>2, <1>4, <1>5, <2>1 DEF WindowOK
  <2>4. ASSUME NEW s \in (c + 1) .. Len(b.numbered)
        PROVE  \E x \in Range(b.pending) : x.seq = s
    <3>1. PICK x \in Range(a.pending) : x.seq = s
      BY <1>4, <2>1 DEF WindowOK
    <3>2. s > f.cumulative
      BY <2>1, Fields
    <3> QED
      BY <1>2, <1>4, <3>1, <3>2
  <2>5. WindowOK(b, c)
    BY <1>4, <2>1, <2>3, <2>4 DEF WindowOK
  <2>6. OrderOK(b, k)
    BY <1>4, <1>5, <2>1 DEF OrderOK
  <2> QED
    BY <2>2, <2>5, <2>6
<1> QED
  BY <1>3, <1>4, <1>5, <1>6 DEF Good, Sound

\* What is due for a resend carries its number.
LEMMA PendingInSound ==
  ASSUME NEW a \in Associations, NEW k \in Nat, NEW c \in Nat, Sound(a, k, c), NEW seqs
  PROVE  /\ PendingIn(a, seqs) \in Seq(Envelopes)
         /\ ~a.reset => \A i \in 1 .. Len(PendingIn(a, seqs)) : Numbered(a, PendingIn(a, seqs)[i])
<1> DEFINE S == {x \in Range(a.pending) : x.seq \in seqs}
           due == Only(a.pending, S)
           es == [i \in DOMAIN due |-> due[i].env]
<1>1. a.pending \in Seq(Entries)
  BY Fields
<1>2. due \in Seq(Entries) /\ Range(due) = Range(a.pending) \cap S
  BY <1>1, OnlyRange
<1>3. PendingIn(a, seqs) = es
  BY DEF PendingIn
<1> HIDE DEF due
<1>4. DOMAIN due = 1 .. Len(due) /\ Len(due) \in Nat
  BY <1>2
<1>5. ASSUME NEW i \in 1 .. Len(due)
      PROVE  es[i] \in Envelopes /\ (~a.reset => Numbered(a, es[i]))
  <2>1. due[i] \in Entries /\ es[i] = due[i].env
    BY <1>2, <1>4
  <2>2. due[i] \in Range(due)
    BY <1>2, RangeMember
  <2>3. due[i] \in Range(a.pending)
    BY <1>2, <2>2
  <2> QED
    BY <2>1, <2>3 DEF Sound, WindowOK, Entries
<1>6. es \in Seq(Envelopes) /\ Len(es) = Len(due)
  <2>1. es \in [1 .. Len(due) -> Envelopes]
    BY <1>4, <1>5
  <2> HIDE DEF es
  <2> QED
    BY <1>4, <2>1
<1> QED
  BY <1>3, <1>5, <1>6

-----------------------------------------------------------------------------
(* The connections                                                         *)

Wires == [Lanes -> Seq(Frames)]

\* A frame that was sent stays one, whatever is numbered after it.
LEMMA WireGrows ==
  ASSUME NEW a \in Associations, NEW b \in Associations, Extends(a, b), NEW w, WireOK(a, w)
  PROVE  WireOK(b, w)
<1> SUFFICES ASSUME ~b.reset, NEW l \in Lanes, NEW f \in Range(w[l]) PROVE FrameOK(b, f)
  BY DEF WireOK
<1>1. ~a.reset /\ b.cumulative = a.cumulative
  BY DEF Extends
<1>2. FrameOK(a, f)
  BY <1>1 DEF WireOK
<1>3. Numbered(a, f.env) => Numbered(b, f.env)
  BY NumberedGrows
<1> QED
  BY <1>1, <1>2, <1>3 DEF FrameOK

\* Lane 0 is a lane.
LEMMA ZeroLane == 0 \in Lanes
  BY DEF Lanes

\* A lane gets one more frame.
LEMMA WireAppend ==
  ASSUME NEW a, NEW w \in Wires, NEW l \in Lanes, NEW f \in Frames,
         WireOK(a, w), ~a.reset => FrameOK(a, f)
  PROVE  /\ [w EXCEPT ![l] = Append(@, f)] \in Wires
         /\ WireOK(a, [w EXCEPT ![l] = Append(@, f)])
<1> DEFINE v == [w EXCEPT ![l] = Append(@, f)]
<1>1. w[l] \in Seq(Frames)
  BY DEF Wires
<1>2. Append(w[l], f) \in Seq(Frames) /\ Range(Append(w[l], f)) = Range(w[l]) \cup {f}
  BY <1>1, RangeAppend
<1>3. v \in Wires /\ v[l] = Append(w[l], f) /\ \A m \in Lanes : m # l => v[m] = w[m]
  BY <1>2 DEF Wires
<1> HIDE DEF v
<1>4. WireOK(a, v)
  BY <1>2, <1>3 DEF WireOK
<1> QED
  BY <1>3, <1>4 DEF v

\* Sending or dropping a frame.
LEMMA SendOrDropOK ==
  ASSUME NEW a, NEW w \in Wires, NEW f \in Frames, WireOK(a, w), ~a.reset => FrameOK(a, f)
  PROVE  SendOrDrop(w, f) \in Wires /\ WireOK(a, SendOrDrop(w, f))
  BY ZeroLane, WireAppend DEF SendOrDrop

\* The frame of an envelope.
LEMMA FrameFacts ==
  ASSUME NEW e \in Envelopes, NEW a, e.sys => Numbered(a, e)
  PROVE  Frame(e) \in Frames /\ FrameOK(a, Frame(e))
  BY DEF Frame, Frames, FrameOK

\* Sending several envelopes.
LEMMA SendAllOK ==
  ASSUME NEW a, NEW w \in Wires, NEW es \in Seq(Envelopes), WireOK(a, w),
         ~a.reset => \A i \in 1 .. Len(es) : es[i].sys => Numbered(a, es[i])
  PROVE  SendAll(w, es) \in Wires /\ WireOK(a, SendAll(w, es))
<1> DEFINE mine(l) == OnLane(es, l)
           fs(l) == [i \in DOMAIN mine(l) |-> Frame(mine(l)[i])]
<1>1. ASSUME NEW l \in Lanes
      PROVE  /\ w[l] \o fs(l) \in Seq(Frames)
             /\ ~a.reset => \A f \in Range(w[l] \o fs(l)) : FrameOK(a, f)
  <2>1. PICK m : m = OnLane(es, l)
    OBVIOUS
  <2>2. m \in Seq(Envelopes) /\ Range(m) \subseteq Range(es)
    BY <2>1, OnlyRange DEF OnLane
  <2> DEFINE g == [i \in DOMAIN m |-> Frame(m[i])]
  <2>3. DOMAIN m = 1 .. Len(m) /\ Len(m) \in Nat
    BY <2>2
  <2>4. ASSUME NEW i \in 1 .. Len(m)
        PROVE  g[i] \in Frames /\ (~a.reset => FrameOK(a, g[i]))
    <3>1. m[i] \in Envelopes /\ m[i] \in Range(es)
      BY <2>2, RangeMember
    <3>2. PICK j \in 1 .. Len(es) : es[j] = m[i]
      BY <3>1, RangeMember
    <3>3. g[i] = Frame(m[i])
      BY <2>3
    <3>4. Frame(m[i]) \in Frames
      BY <3>1 DEF Frame, Frames
    <3>5. ~a.reset => FrameOK(a, Frame(m[i]))
      BY <3>1, <3>2, FrameFacts
    <3> QED
      BY <3>3, <3>4, <3>5
  <2>5. g \in Seq(Frames) /\ Len(g) = Len(m)
    <3>1. g \in [1 .. Len(m) -> Frames]
      BY <2>3, <2>4
    <3> HIDE DEF g
    <3> QED
      BY <2>3, <3>1
  <2>6. w[l] \in Seq(Frames)
    BY DEF Wires
  <2> HIDE DEF g
  <2>7. w[l] \o g \in Seq(Frames) /\ Range(w[l] \o g) = Range(w[l]) \cup Range(g)
    BY <2>5, <2>6, RangeConcat
  <2>8. ~a.reset => \A f \in Range(g) : FrameOK(a, f)
    BY <2>4, <2>5, RangeMember
  <2>9. ~a.reset => \A f \in Range(w[l] \o g) : FrameOK(a, f)
    BY <2>7, <2>8 DEF WireOK
  <2>10. fs(l) = g
    BY <2>1 DEF g
  <2> QED
    BY <2>7, <2>9, <2>10
<1>2. SendAll(w, es) = [l \in Lanes |-> w[l] \o fs(l)]
  BY DEF SendAll
<1> HIDE DEF fs
<1>3. SendAll(w, es) \in Wires
  BY <1>1, <1>2 DEF Wires
<1>4. \A l \in Lanes : SendAll(w, es)[l] = w[l] \o fs(l)
  BY <1>2
<1> QED
  BY <1>1, <1>3, <1>4 DEF WireOK

\* g goes over es as Resend does.
ResendStep(x, e, j, failed, back) ==
  IF j \in failed THEN x
  ELSE IF j \notin back /\ HasRoom(x.wire, e.lane) THEN [x EXCEPT !.wire[e.lane] = Append(@, Frame(e))]
  ELSE [x EXCEPT !.assoc = Enqueue(@, e)]

Resends(g, z, es, failed, back) ==
  g[0] = z /\ \A i \in 1 .. Len(es) :
                g[i] = ResendStep(g[i - 1], es[i], i, failed, back)

Pairs == [assoc : Associations, wire : Wires]

\* y is x, x with the frame of e on its lane, or x with e enqueued.
ResendOf(x, e, y) ==
  \/ y = x
  \/ y.assoc = x.assoc /\ y.wire = [x.wire EXCEPT ![e.lane] = Append(@, Frame(e))]
  \/ y.assoc = Enqueue(x.assoc, e) /\ y.wire = x.wire

\* One resend, as the record of its fields.
LEMMA ResendStepFields ==
  ASSUME NEW x \in Pairs, NEW e \in Envelopes, NEW j, NEW failed, NEW back
  PROVE  /\ ResendStep(x, e, j, failed, back) \in Pairs
         /\ ResendOf(x, e, ResendStep(x, e, j, failed, back))
<1>1. x.assoc \in Associations /\ x.wire \in Wires /\ x = [assoc |-> x.assoc, wire |-> x.wire]
  BY DEF Pairs
<1>2. e.lane \in Lanes /\ Frame(e) \in Frames
  BY EnvelopeFields DEF Frame, Frames
<1>3. CASE j \notin failed /\ j \notin back /\ HasRoom(x.wire, e.lane)
  <2>1. PICK v : v = [x.wire EXCEPT ![e.lane] = Append(@, Frame(e))]
    OBVIOUS
  <2>2. x.wire[e.lane] \in Seq(Frames)
    BY <1>1, <1>2 DEF Wires
  <2>3. Append(x.wire[e.lane], Frame(e)) \in Seq(Frames)
    BY <1>2, <2>2
  <2>4. v \in Wires
    BY <1>1, <1>2, <2>1, <2>3 DEF Wires
  <2>5. ResendStep(x, e, j, failed, back) = [assoc |-> x.assoc, wire |-> v]
    BY <1>1, <1>3, <2>1 DEF ResendStep
  <2> QED
    BY <1>1, <2>1, <2>4, <2>5 DEF Pairs, ResendOf
<1>4. CASE j \notin failed /\ (j \in back \/ ~HasRoom(x.wire, e.lane))
  <2>1. PICK b : b = Enqueue(x.assoc, e)
    OBVIOUS
  <2>2. b \in Associations
    BY <1>1, <2>1, EnqueueOutcome
  <2>3. ResendStep(x, e, j, failed, back) = [assoc |-> b, wire |-> x.wire]
    BY <1>1, <1>4, <2>1 DEF ResendStep
  <2> QED
    BY <1>1, <2>1, <2>2, <2>3 DEF Pairs, ResendOf
<1>5. CASE j \in failed
  BY <1>5 DEF ResendStep, ResendOf
<1> QED
  BY <1>3, <1>4, <1>5

\* Resend is what its recursion says.
LEMMA ResendSteps ==
  ASSUME NEW a \in Associations, NEW w \in Wires, NEW es \in Seq(Envelopes),
         NEW failed, NEW back
  PROVE  \E g \in [0 .. Len(es) -> Pairs] :
           /\ Resend(a, w, es, failed, back) = g[Len(es)]
           /\ Resends(g, [assoc |-> MarkSent(a, Seqs(es)), wire |-> w], es, failed, back)
<1> DEFINE Resent(b, i) == ResendStep(b, es[i], i, failed, back)
           z == [assoc |-> MarkSent(a, Seqs(es)), wire |-> w]
           F == [x \in Pairs \X Nat |->
                   IF x[2] \in 1 .. Len(es) THEN Resent(x[1], x[2]) ELSE x[1]]
           Step(g) == [i \in 0 .. Len(es) |->
                         IF i = 0 THEN z
                         ELSE IF i \in failed THEN g[i - 1]
                         ELSE IF i \notin back /\ HasRoom(g[i - 1].wire, es[i].lane)
                         THEN [g[i - 1] EXCEPT !.wire[es[i].lane] = Append(@, Frame(es[i]))]
                         ELSE [g[i - 1] EXCEPT !.assoc = Enqueue(@, es[i])]]
           after == CHOOSE g : g = Step(g)
<1>1. Len(es) \in Nat /\ \A i \in 1 .. Len(es) : es[i] \in Envelopes
  OBVIOUS
<1>2. z \in Pairs
  <2>1. MarkSent(a, Seqs(es)) \in Associations
    BY MarkSentSame
  <2> QED
    BY <2>1 DEF Pairs
<1>3. F \in [Pairs \X Nat -> Pairs]
  <2>1. ASSUME NEW x \in Pairs \X Nat
        PROVE  (IF x[2] \in 1 .. Len(es) THEN Resent(x[1], x[2]) ELSE x[1]) \in Pairs
    <3>1. PICK b \in Pairs, i \in Nat : x = <<b, i>>
      OBVIOUS
    <3>2. i \in 1 .. Len(es) => Resent(b, i) \in Pairs
      BY <1>1, ResendStepFields
    <3> QED
      BY <3>1, <3>2
  <2> QED
    BY <2>1
<1>4. ASSUME NEW b \in Pairs, NEW i \in 1 .. Len(es)
      PROVE  F[<<b, i>>] = Resent(b, i)
  <2>1. <<b, i>> \in Pairs \X Nat
    OBVIOUS
  <2> QED
    BY <2>1
<1>5. \A g : Step(g) = [i \in 0 .. Len(es) |-> IF i = 0 THEN z ELSE Resent(g[i - 1], i)]
  BY DEF ResendStep
<1>6. Resend(a, w, es, failed, back) = after[Len(es)]
  BY DEF Resend
<1> HIDE DEF F, Step, z
<1>7. PICK g \in [0 .. Len(es) -> Pairs] :
        Goes(g, F, z, Len(es)) /\ Ends(g, F, z, Len(es), Pairs)
  BY <1>1, <1>2, <1>3, Recursion
<1>8. \A i \in 1 .. Len(es) : i - 1 \in 0 .. Len(es)
  BY <1>1
<1>9. Resends(g, z, es, failed, back)
  BY <1>4, <1>7, <1>8 DEF Goes, Resends
<1>10. g = Step(g)
  <2>1. \A i \in 0 .. Len(es) : i = 0 \/ i \in 1 .. Len(es)
    BY <1>1
  <2>2. \A i \in 0 .. Len(es) : g[i] = IF i = 0 THEN z ELSE Resent(g[i - 1], i)
    BY <1>9, <2>1 DEF Resends
  <2>3. g = [i \in 0 .. Len(es) |-> IF i = 0 THEN z ELSE Resent(g[i - 1], i)]
    BY <2>2
  <2> QED
    BY <1>5, <2>3
<1>11. after = Step(after)
  BY <1>10
<1>12. Resends(after, z, es, failed, back)
  <2>1. ASSUME NEW h, h = Step(h) PROVE Resends(h, z, es, failed, back)
    <3>1. h = [i \in 0 .. Len(es) |-> IF i = 0 THEN z ELSE Resent(h[i - 1], i)]
      BY <1>5, <2>1
    <3>2. \A i \in 0 .. Len(es) : h[i] = IF i = 0 THEN z ELSE Resent(h[i - 1], i)
      BY <3>1
    <3>3. \A i \in 1 .. Len(es) : i \in 0 .. Len(es) /\ i # 0
      OBVIOUS
    <3> QED
      BY <1>1, <3>2, <3>3 DEF Resends
  <2> HIDE DEF after
  <2> QED
    BY <1>11, <2>1
<1> HIDE DEF after
<1>13. after[Len(es)] = g[Len(es)]
  BY <1>4, <1>7, <1>12 DEF Ends, Resends
<1> QED
  BY <1>6, <1>9, <1>13 DEF z

\* A numbered envelope may be enqueued at any time.
LEMMA NumberedFits ==
  ASSUME NEW a, NEW e, NEW k, ~a.reset => (e.sys => Numbered(a, e))
  PROVE  Fit(a, e, k)
  BY DEF Fit, Fresh, Numbered

\* Resending keeps what is said of an association and of its frames.
LEMMA ResendSound ==
  ASSUME NEW a \in Associations, NEW w \in Wires, NEW es \in Seq(Envelopes),
         NEW failed, NEW back,
         NEW k \in Nat, NEW c \in Nat, Sound(a, k, c), WireOK(a, w),
         ~a.reset => \A i \in 1 .. Len(es) : Numbered(a, es[i])
  PROVE  LET r == Resend(a, w, es, failed, back)
         IN Good(a, r.assoc, k, c) /\ r.wire \in Wires /\ WireOK(r.assoc, r.wire)
<1> DEFINE z == [assoc |-> MarkSent(a, Seqs(es)), wire |-> w]
           Inv(x) == Good(a, x.assoc, k, c) /\ WireOK(x.assoc, x.wire)
<1>1. PICK g \in [0 .. Len(es) -> Pairs] :
        Resend(a, w, es, failed, back) = g[Len(es)] /\ Resends(g, z, es, failed, back)
  BY ResendSteps
<1>2. Len(es) \in Nat /\ \A i \in 1 .. Len(es) : es[i] \in Envelopes
  OBVIOUS
<1> DEFINE T == {i \in Nat : i <= Len(es) => Inv(g[i])}
<1>3. 0 \in T
  <2>1. g[0] = z /\ z.assoc = MarkSent(a, Seqs(es)) /\ z.wire = w
    BY <1>1 DEF Resends
  <2>2. Good(a, z.assoc, k, c)
    BY <2>1, MarkSentSound
  <2>3. WireOK(z.assoc, z.wire)
    BY <2>1, <2>2, WireGrows DEF Good
  <2> QED
    BY <2>1, <2>2, <2>3
<1>4. ASSUME NEW i \in Nat, i \in T PROVE i + 1 \in T
  <2> SUFFICES ASSUME i + 1 <= Len(es) PROVE Inv(g[i + 1])
    OBVIOUS
  <2>1. i + 1 \in 1 .. Len(es) /\ (i + 1) - 1 = i /\ i \in 0 .. Len(es) /\ i + 1 \in 0 .. Len(es)
    BY <1>2
  <2>2. PICK x, y, e : x = g[i] /\ y = g[i + 1] /\ e = es[i + 1]
    OBVIOUS
  <2>3. Inv(x) /\ x \in Pairs /\ y \in Pairs /\ e \in Envelopes
    BY <1>2, <1>4, <2>1, <2>2
  <2>4. y = ResendStep(x, e, i + 1, failed, back)
    BY <1>1, <2>1, <2>2 DEF Resends
  <2>5. x.assoc \in Associations /\ x.wire \in Wires
    BY <2>3 DEF Pairs
  <2>6. ~x.assoc.reset => Numbered(x.assoc, e)
    <3> SUFFICES ASSUME ~x.assoc.reset PROVE Numbered(x.assoc, e)
      OBVIOUS
    <3>1. ~a.reset /\ Extends(a, x.assoc)
      BY <2>3 DEF Good, Extends
    <3>2. Numbered(a, e)
      BY <2>1, <2>2, <3>1
    <3> QED
      BY <2>5, <3>1, <3>2, NumberedGrows
  <2>7. CASE y.assoc = x.assoc /\ y.wire = [x.wire EXCEPT ![e.lane] = Append(@, Frame(e))]
    <3>1. e.lane \in Lanes /\ Frame(e) \in Frames
      BY <2>3, EnvelopeFields DEF Frame, Frames
    <3>2. ~x.assoc.reset => FrameOK(x.assoc, Frame(e))
      BY <2>3, <2>6, FrameFacts
    <3>3. WireOK(x.assoc, [x.wire EXCEPT ![e.lane] = Append(@, Frame(e))])
      BY <2>3, <2>5, <3>1, <3>2, WireAppend
    <3> QED
      BY <2>2, <2>3, <2>7, <3>3
  <2>8. CASE y.assoc = Enqueue(x.assoc, e) /\ y.wire = x.wire
    <3>1. Fit(x.assoc, e, k)
      BY <2>6, NumberedFits
    <3>2. Kept(x.assoc, e, y.assoc, k, c)
      BY <2>3, <2>5, <2>8, <3>1, EnqueueSound DEF Good
    <3>3. Good(a, y.assoc, k, c)
      BY <2>3, <2>5, <3>2, ExtendsOn DEF Good, Kept
    <3>4. WireOK(y.assoc, y.wire)
      BY <2>3, <2>5, <2>8, <3>2, WireGrows DEF Kept
    <3> QED
      BY <2>2, <3>3, <3>4
  <2>9. CASE y = x
    BY <2>2, <2>3, <2>9
  <2>10. ResendOf(x, e, y)
    BY <2>3, <2>4, ResendStepFields
  <2> QED
    BY <2>7, <2>8, <2>9, <2>10 DEF ResendOf
<1>5. Len(es) \in T
  <2> HIDE DEF T
  <2> QED
    BY <1>2, <1>3, <1>4, NatSteps
<1>6. g[Len(es)] \in Pairs
  BY <1>2
<1> QED
  BY <1>1, <1>2, <1>5, <1>6 DEF Pairs

\* What waits to be sent carries its number.
LEMMA OutboundFacts ==
  ASSUME NEW a \in Associations, NEW k, NEW c, Sound(a, k, c)
  PROVE  /\ Outbound(a) \in Seq(Envelopes)
         /\ Range(Outbound(a)) = Range(a.system) \cup Range(a.user)
         /\ ~a.reset => \A i \in 1 .. Len(Outbound(a)) :
                          Outbound(a)[i].sys => Numbered(a, Outbound(a)[i])
<1>1. a.system \in Seq(Envelopes) /\ a.user \in Seq(Envelopes)
  BY Fields
<1>2. PICK q : q = Outbound(a)
  OBVIOUS
<1>3. q \in Seq(Envelopes) /\ Range(q) = Range(a.system) \cup Range(a.user)
  BY <1>1, <1>2, RangeConcat DEF Outbound
<1>4. ASSUME ~a.reset, NEW i \in 1 .. Len(q), q[i].sys PROVE Numbered(a, q[i])
  <2>1. q[i] \in Range(a.system) \cup Range(a.user)
    BY <1>3, RangeMember
  <2> QED
    BY <1>4, <2>1 DEF Sound, QueuesOK
<1> QED
  BY <1>2, <1>3, <1>4

\* At most what waits is sent.
LEMMA SendableRange ==
  ASSUME NEW a, NEW w, Len(Outbound(a)) \in Nat
  PROVE  Sendable(a, w) \in 0 .. Len(Outbound(a))
<1> DEFINE n == Len(Outbound(a))
           T == {i \in 1 .. n : Fits(w, SubSeq(Outbound(a), 1, i))}
<1>1. IsFiniteSet(1 .. n) /\ Cardinality(1 .. n) = n
  <2>1. PICK m \in Nat : m = n
    OBVIOUS
  <2>2. IsFiniteSet(1 .. m) /\ Cardinality(1 .. m) = IF 1 > m THEN 0 ELSE m - 1 + 1
    BY FS_Interval
  <2>3. (IF 1 > m THEN 0 ELSE m - 1 + 1) = m
    OBVIOUS
  <2> QED
    BY <2>1, <2>2, <2>3
<1>2. Cardinality(T) \in Nat /\ Cardinality(T) <= n
  <2>1. T \subseteq 1 .. n
    OBVIOUS
  <2> HIDE DEF T
  <2>2. IsFiniteSet(T) /\ Cardinality(T) <= Cardinality(1 .. n)
    BY <1>1, <2>1, FS_Subset
  <2>3. Cardinality(T) \in Nat
    BY <2>2, FS_CardinalityType
  <2> QED
    BY <1>1, <2>2, <2>3
<1>3. Sendable(a, w) = Cardinality(T)
  BY DEF Sendable
<1> HIDE DEF T
<1> QED
  BY <1>2, <1>3

\* Once the numbers are reset nothing is promised.
LEMMA GoodReset ==
  ASSUME NEW a, NEW b \in Associations, b.reset, NEW k, NEW c
  PROVE  Good(a, b, k, c)
  BY DEF Good, Sound, Extends

\* What Drain leaves in the queues.
Rest(a, taken) ==
  LET q == Outbound(a)  rest == SubSeq(q, taken + 1, Len(q))
  IN  [a EXCEPT !.system = OfKind(rest, TRUE), !.user = OfKind(rest, FALSE)]

\* Sending from the queues keeps what is said of an association.
LEMMA RestSound ==
  ASSUME NEW a \in Associations, NEW k \in Nat, NEW c \in Nat, Sound(a, k, c),
         NEW taken \in 0 .. Len(Outbound(a))
  PROVE  Good(a, Rest(a, taken), k, c)
<1>1. PICK q : q = Outbound(a)
  OBVIOUS
<1>2. /\ q \in Seq(Envelopes) /\ Len(q) \in Nat
      /\ Range(q) = Range(a.system) \cup Range(a.user)
  BY <1>1, OutboundFacts
<1>3. PICK rest : rest = SubSeq(q, taken + 1, Len(q))
  OBVIOUS
<1>4. rest \in Seq(Envelopes) /\ Len(rest) = Len(q) - taken
      /\ \A i \in 1 .. Len(rest) : rest[i] = q[taken + i]
  BY <1>1, <1>2, <1>3
<1>5. Range(rest) \subseteq Range(q)
  <2> SUFFICES ASSUME NEW x \in Range(rest) PROVE x \in Range(q)
    OBVIOUS
  <2>1. PICK i \in 1 .. Len(rest) : rest[i] = x
    BY <1>4, RangeMember
  <2>2. taken + i \in 1 .. Len(q) /\ q[taken + i] = x
    BY <1>1, <1>2, <1>4, <2>1
  <2> QED
    BY <1>2, <2>2, RangeMember
<1>6. PICK s, u : s = OfKind(rest, TRUE) /\ u = OfKind(rest, FALSE)
  OBVIOUS
<1>7. /\ s \in Seq(Envelopes) /\ \A x \in Range(s) : x \in Range(rest) /\ x.sys = TRUE
      /\ u \in Seq(Envelopes) /\ \A x \in Range(u) : x \in Range(rest) /\ x.sys = FALSE
  BY <1>4, <1>6, OnlyRange DEF OfKind
<1>8. PICK b : b = Rest(a, taken)
  OBVIOUS
<1>9. b = [a EXCEPT !.system = s, !.user = u]
  BY <1>1, <1>3, <1>6, <1>8 DEF Rest
<1>10. /\ b \in Associations /\ b.system = s /\ b.user = u
       /\ b.numbered = a.numbered /\ b.reset = a.reset /\ b.cumulative = a.cumulative
       /\ b.next = a.next /\ b.state = a.state /\ b.deferred = a.deferred
       /\ b.pending = a.pending
  BY <1>7, <1>9 DEF Associations
<1>11. CASE a.reset
  BY <1>8, <1>10, <1>11, GoodReset
<1>12. CASE ~a.reset
  <2>1. Range(s) \subseteq Range(a.system) /\ Range(u) \subseteq Range(a.user)
    <3>1. /\ \A x \in Range(a.system) : x.sys
          /\ \A x \in Range(a.user) : ~x.sys
      BY <1>12 DEF Sound, QueuesOK, Numbered
    <3> QED
      BY <1>2, <1>5, <1>7, <3>1
  <2>2. SameWindow(a.pending, b.pending)
    BY <1>10 DEF SameWindow
  <2>3. Good(a, b, k, c)
    BY <1>10, <2>1, <2>2, FewerQueued
  <2> QED
    BY <1>8, <2>3
<1> QED
  BY <1>11, <1>12

\* Draining keeps what is said of an association and of its frames.
LEMMA DrainSound ==
  ASSUME NEW a \in Associations, NEW w \in Wires, NEW k \in Nat, NEW c \in Nat,
         Sound(a, k, c), WireOK(a, w), NEW failed \in 0 .. Sendable(a, w), NEW discards
  PROVE  LET d == Drain(a, w, failed, discards)
         IN Good(a, d.assoc, k, c) /\ d.wire \in Wires /\ WireOK(d.assoc, d.wire)
<1>1. PICK q : q = Outbound(a)
  OBVIOUS
<1>2. /\ q \in Seq(Envelopes) /\ Len(q) \in Nat
      /\ ~a.reset => \A i \in 1 .. Len(q) : q[i].sys => Numbered(a, q[i])
  BY <1>1, OutboundFacts
<1>3. Sendable(a, w) \in 0 .. Len(q)
  BY <1>1, <1>2, SendableRange
<1>4. PICK sent : sent = IF failed > 0 THEN failed - 1 ELSE Sendable(a, w)
  OBVIOUS
<1>5. PICK taken : taken = IF sent < Len(q) THEN sent + 1 ELSE sent
  OBVIOUS
<1>6. sent \in 0 .. Len(q) /\ taken \in 0 .. Len(q) /\ (taken > sent => taken \in 1 .. Len(q))
  BY <1>2, <1>3, <1>4, <1>5
<1>7. PICK first : first = SubSeq(q, 1, sent)
  OBVIOUS
<1>8. PICK left : left = MarkSent(Rest(a, taken), Seqs(SubSeq(q, 1, taken)))
  OBVIOUS
<1>9. PICK b : b = IF taken > sent /\ ~discards THEN Enqueue(left, q[taken]) ELSE left
  OBVIOUS
<1>10. Drain(a, w, failed, discards) = [assoc |-> b, wire |-> SendAll(w, first)]
  BY <1>1, <1>4, <1>5, <1>7, <1>8, <1>9 DEF Drain, Rest
<1>11. Good(a, Rest(a, taken), k, c)
  BY <1>1, <1>6, RestSound
<1>12. Good(Rest(a, taken), left, k, c)
  BY <1>8, <1>11, MarkSentSound DEF Good
<1>13. Good(a, left, k, c)
  BY <1>11, <1>12, ExtendsOn DEF Good
<1>14. Good(a, b, k, c)
  <2>1. CASE taken > sent /\ ~discards
    <3>1. PICK e : e = q[taken]
      OBVIOUS
    <3>2. e \in Envelopes
      BY <1>2, <1>6, <2>1, <3>1
    <3>3. ~left.reset => (e.sys => Numbered(left, e))
      <4> SUFFICES ASSUME ~left.reset, e.sys PROVE Numbered(left, e)
        OBVIOUS
      <4>1. ~a.reset
        BY <1>13 DEF Good, Extends
      <4>2. Numbered(a, e)
        BY <1>2, <1>6, <2>1, <3>1, <4>1
      <4> QED
        BY <1>13, <4>2, NumberedGrows DEF Good
    <3>4. Fit(left, e, k)
      BY <3>3, NumberedFits
    <3>5. Kept(left, e, Enqueue(left, e), k, c)
      BY <1>13, <3>2, <3>4, EnqueueSound DEF Good
    <3>6. b = Enqueue(left, e)
      BY <1>9, <2>1, <3>1
    <3>7. b \in Associations /\ Sound(b, k, c) /\ Extends(left, b)
      BY <3>5, <3>6 DEF Kept
    <3> QED
      BY <1>13, <3>7, ExtendsOn DEF Good
  <2>2. CASE ~(taken > sent /\ ~discards)
    BY <1>9, <1>13, <2>2
  <2> QED
    BY <2>1, <2>2
<1>15. first \in Seq(Envelopes) /\ Len(first) = sent /\ \A i \in 1 .. sent : first[i] = q[i]
  BY <1>2, <1>6, <1>7
<1>16. ~a.reset => \A i \in 1 .. Len(first) : first[i].sys => Numbered(a, first[i])
  <2>1. \A i \in 1 .. sent : i \in 1 .. Len(q)
    BY <1>2, <1>6
  <2> QED
    BY <1>2, <1>15, <2>1
<1>17. SendAll(w, first) \in Wires /\ WireOK(a, SendAll(w, first))
  BY <1>15, <1>16, SendAllOK
<1>18. WireOK(b, SendAll(w, first))
  BY <1>14, <1>17, WireGrows DEF Good
<1> QED
  BY <1>10, <1>14, <1>17, <1>18

-----------------------------------------------------------------------------
(* The two ends                                                            *)

\* Each node is the peer of the other.
LEMMA PeerFacts ==
  ASSUME NEW n \in Nodes
  PROVE  /\ Peer(n) \in Nodes /\ Peer(n) # n /\ Peer(Peer(n)) = n
         /\ \A m \in Nodes : m = n \/ m = Peer(n)
<1>1. PICK x \in Nodes, y \in Nodes : x # y /\ Nodes = {x, y}
  BY NodesAssumption
<1>2. Peer(x) = y /\ Peer(y) = x
  BY <1>1 DEF Peer
<1> QED
  BY <1>1, <1>2

\* Less is asked of the window when the peer has accepted more.
LEMMA SoundMore ==
  ASSUME NEW a \in Associations, NEW k \in Nat, NEW m \in Nat, NEW c \in Nat, NEW d \in Nat,
         Sound(a, k, c), m >= k, d >= c \/ d >= Len(a.numbered)
  PROVE  Sound(a, m, d)
<1> SUFFICES ASSUME ~a.reset PROVE QueuesOK(a) /\ WindowOK(a, d) /\ OrderOK(a, m)
  BY DEF Sound
<1>1. QueuesOK(a) /\ WindowOK(a, c) /\ OrderOK(a, k)
  BY DEF Sound
<1>2. a.numbered \in Seq(Nat) /\ Len(a.numbered) \in Nat /\ a.deferred \in Seq(Envelopes)
  BY Fields
<1>3. \A s \in (d + 1) .. Len(a.numbered) : s \in (c + 1) .. Len(a.numbered)
  BY <1>2
<1>4. WindowOK(a, d)
  BY <1>1, <1>3 DEF WindowOK
<1>5. \A i \in 1 .. Len(a.numbered) : a.numbered[i] <= m
  BY <1>1, <1>2 DEF OrderOK
<1>6. \A i \in 1 .. Len(a.deferred) : a.deferred[i].id \in Nat
  BY <1>2, EnvelopeFields
<1>7. \A i \in 1 .. Len(a.deferred) : Fresh(a.deferred[i]) => a.deferred[i].id <= m
  BY <1>1, <1>6 DEF OrderOK
<1>8. OrderOK(a, m)
  BY <1>1, <1>5, <1>7 DEF OrderOK
<1> QED
  BY <1>1, <1>4, <1>8

\* b follows a, when the peer has accepted the numbers up to bd, while the
\* sends go from k to m.
Moves(a, b, k, m, bd) == \A c \in Nat : c >= bd /\ Sound(a, k, c) => Good(a, b, m, c)

\* One move after another.
LEMMA MovesOn ==
  ASSUME NEW a \in Associations, NEW b \in Associations, NEW d, NEW k, NEW m, NEW o,
         NEW bd \in Nat, Moves(a, b, k, m, bd), Moves(b, d, m, o, 0)
  PROVE  Moves(a, d, k, o, bd)
<1> SUFFICES ASSUME NEW c \in Nat, c >= bd, Sound(a, k, c) PROVE Good(a, d, o, c)
  BY DEF Moves
<1>1. Good(a, b, m, c)
  BY DEF Moves
<1>2. Good(b, d, o, c)
  BY <1>1 DEF Moves, Good
<1> QED
  BY <1>1, <1>2, ExtendsOn DEF Good

\* What was received of the first c ids, whatever follows them.
LEMMA SameReceived ==
  ASSUME NEW x, NEW gone, NEW s, NEW t, NEW c, \A i \in 1 .. c : t[i] = s[i],
         Received(x, gone, s, c)
  PROVE  Received(x, gone, t, c)
  BY DEF Received

\* A step of n that delivers nothing.
LEMMA OwnStep ==
  ASSUME IInv, NEW n \in Nodes, NEW b, NEW bd \in Nat,
         assoc' = [assoc EXCEPT ![n] = b],
         Moves(assoc[n], b, sends[n], sends'[n], bd),
         Unreset => bd <= assoc[Peer(n)].cumulative,
         wire' \in [Nodes -> Wires], WireOK(b, wire'[n]),
         \A l \in Lanes : Range(wire'[Peer(n)][l]) \subseteq Range(wire[Peer(n)][l]),
         UNCHANGED <<delivered, discarded>>, running' \subseteq Nodes, faults' \in Nat,
         timers' \in [Nodes -> SUBSET Nat],
         sends' \in [Nodes -> Nat], sends'[Peer(n)] = sends[Peer(n)]
  PROVE  IInv'
<1> DEFINE p == Peer(n)
           a == assoc[n]
<1>1. /\ p \in Nodes /\ p # n /\ Peer(p) = n /\ \A m \in Nodes : m = n \/ m = p
  BY PeerFacts
<1>2. /\ TypeOK /\ Own(n) /\ Own(p) /\ (Unreset => Channel(n) /\ Channel(p))
  BY <1>1 DEF IInv
<1>3. /\ a \in Associations /\ assoc[p] \in Associations /\ sends[n] \in Nat /\ sends'[n] \in Nat
      /\ wire[p] \in Wires /\ wire[n] \in Wires /\ assoc \in [Nodes -> Associations]
  BY <1>1, <1>2 DEF TypeOK, Wires
<1>4. a.numbered \in Seq(Nat) /\ Len(a.numbered) \in Nat
      /\ assoc[p].cumulative \in Nat /\ Len(assoc[p].numbered) \in Nat
      /\ assoc[p].numbered \in Seq(Nat) /\ a.cumulative \in Nat
  BY <1>3, Fields
<1>5. PICK c \in Nat : c >= bd /\ Sound(a, sends[n], c)
  <2>1. PICK c \in Nat : c = IF bd >= Len(a.numbered) THEN bd ELSE Len(a.numbered)
    BY <1>4
  <2>2. c >= bd /\ c >= Len(a.numbered)
    BY <1>4, <2>1
  <2>3. Sound(a, sends[n], c)
    BY <1>2, <1>3, <1>4, <2>2, SoundMore DEF Own
  <2> QED
    BY <2>2, <2>3
<1>6. Good(a, b, sends'[n], c)
  BY <1>5 DEF Moves
<1>7. b \in Associations /\ Sound(b, sends'[n], c) /\ Extends(a, b)
  BY <1>6 DEF Good
<1>8. Len(b.numbered) \in Nat /\ b.numbered \in Seq(Nat)
  BY <1>7, Fields
<1>9. assoc'[n] = b /\ assoc'[p] = assoc[p] /\ assoc' \in [Nodes -> Associations]
  BY <1>1, <1>3, <1>7
<1>10. TypeOK'
  BY <1>2, <1>9 DEF TypeOK, Wires
<1>11. Own(n)'
  <2>1. Sound(b, sends'[n], Len(b.numbered))
    BY <1>3, <1>7, <1>8, SoundMore
  <2> QED
    BY <1>9, <2>1 DEF Own
<1>12. WireOK(assoc[p], wire'[p])
  BY <1>2 DEF Own, WireOK
<1>13. Own(p)'
  BY <1>2, <1>9, <1>12 DEF Own
<1>14. \A m : System(m)' = System(m)
  BY DEF System
<1>15. ASSUME Unreset' PROVE Channel(n)' /\ Channel(p)'
  <2>1. ~b.reset /\ ~assoc[p].reset
    BY <1>1, <1>9, <1>15 DEF Unreset
  <2>2. ~a.reset /\ b.cumulative = a.cumulative
    BY <1>7, <2>1 DEF Extends
  <2>3. Unreset
    BY <1>1, <2>1, <2>2 DEF Unreset
  <2>4. Channel(n) /\ Channel(p)
    BY <1>2, <2>3
  <2>5. Sound(a, sends[n], assoc[p].cumulative) /\ assoc[p].cumulative <= Len(a.numbered)
    BY <2>4 DEF Channel
  <2>6. Good(a, b, sends'[n], assoc[p].cumulative)
    BY <1>4, <2>3, <2>5 DEF Moves
  <2>7. /\ Len(a.numbered) <= Len(b.numbered)
        /\ \A i \in 1 .. Len(a.numbered) : b.numbered[i] = a.numbered[i]
    BY <1>7, <2>1 DEF Extends
  <2>8. Received(System(p), discarded[p], b.numbered, assoc[p].cumulative)
    <3>1. Received(System(p), discarded[p], a.numbered, assoc[p].cumulative)
      BY <2>4 DEF Channel
    <3>2. \A i \in 1 .. assoc[p].cumulative : b.numbered[i] = a.numbered[i]
      BY <1>4, <2>5, <2>7
    <3> QED
      BY <3>1, <3>2, SameReceived
  <2>9. Channel(n)'
    <3>1. Sound(b, sends'[n], assoc[p].cumulative)
      BY <2>6 DEF Good
    <3>2. assoc[p].cumulative <= Len(b.numbered)
      BY <1>4, <1>8, <2>5, <2>7
    <3> QED
      BY <1>9, <1>14, <2>8, <3>1, <3>2 DEF Channel
  <2>10. Channel(p)'
    <3>1. /\ Sound(assoc[p], sends[p], a.cumulative)
          /\ a.cumulative <= Len(assoc[p].numbered)
          /\ Received(System(n), discarded[n], assoc[p].numbered, a.cumulative)
      BY <1>1, <2>4 DEF Channel
    <3> QED
      BY <1>1, <1>9, <1>14, <2>2, <3>1 DEF Channel
  <2> QED
    BY <2>9, <2>10
<1> QED
  BY <1>1, <1>10, <1>11, <1>13, <1>15 DEF IInv

-----------------------------------------------------------------------------
(* The handlers                                                            *)

\* A change of the state that does not activate.
LEMMA StateMoves ==
  ASSUME NEW a \in Associations, NEW b \in Associations, NEW k,
         b.state # "Active",
         b.numbered = a.numbered, b.reset = a.reset, b.cumulative = a.cumulative,
         b.next = a.next, b.deferred = a.deferred, b.system = a.system,
         b.user = a.user, b.pending = a.pending
  PROVE  Moves(a, b, k, k, 0)
<1> SUFFICES ASSUME NEW c \in Nat, Sound(a, k, c) PROVE Good(a, b, k, c)
  BY DEF Moves
<1>1. /\ Extends(a, b) /\ \A x : Numbered(a, x) <=> Numbered(b, x)
      /\ \A id : Above(a, id) <=> Above(b, id)
  BY SameNumbers
<1>2. ASSUME ~a.reset PROVE QueuesOK(b) /\ WindowOK(b, c) /\ OrderOK(b, k)
  <2>1. QueuesOK(a) /\ WindowOK(a, c) /\ OrderOK(a, k)
    BY <1>2 DEF Sound
  <2>2. QueuesOK(b)
    BY <1>1, <2>1 DEF QueuesOK
  <2>3. WindowOK(b, c)
    BY <1>1, <2>1 DEF WindowOK
  <2>4. OrderOK(b, k)
    BY <1>1, <2>1 DEF OrderOK
  <2> QED
    BY <2>2, <2>3, <2>4
<1> QED
  BY <1>1, <1>2 DEF Good, Sound

\* No change.
LEMMA NoMove ==
  ASSUME NEW a \in Associations, NEW k
  PROVE  Moves(a, a, k, k, 0)
  BY SameNumbers DEF Moves, Good

\* Starting a handshake is such a change.
LEMMA StartsMoves ==
  ASSUME NEW a \in Associations, NEW k
  PROVE  /\ StartsHandshake(a) \in Associations
         /\ StartsHandshake(a).generation \in Nat
         /\ Moves(a, StartsHandshake(a), k, k, 0)
<1>1. PICK b : b = StartsHandshake(a)
  OBVIOUS
<1>0. PICK g \in Nat : g = a.generation + 1
  BY Fields
<1>4. b = [a EXCEPT !.state = "Handshaking", !.generation = g]
  BY <1>0, <1>1 DEF StartsHandshake
<1>2. /\ b \in Associations /\ b.state = "Handshaking" /\ b.generation \in Nat
      /\ b.numbered = a.numbered /\ b.reset = a.reset /\ b.cumulative = a.cumulative
      /\ b.next = a.next /\ b.deferred = a.deferred /\ b.system = a.system
      /\ b.user = a.user /\ b.pending = a.pending
  BY <1>4 DEF Associations
<1>3. Moves(a, b, k, k, 0)
  BY <1>2, StateMoves
<1> QED
  BY <1>1, <1>2, <1>3

\* So is gating.
LEMMA GateMoves ==
  ASSUME NEW a \in Associations, NEW k
  PROVE  Gate(a) \in Associations /\ Moves(a, Gate(a), k, k, 0)
<1>1. CASE a.state = "Active"
  <2>1. PICK b : b = [a EXCEPT !.state = "Gated"]
    OBVIOUS
  <2>2. /\ b \in Associations /\ b.state = "Gated"
        /\ b.numbered = a.numbered /\ b.reset = a.reset /\ b.cumulative = a.cumulative
        /\ b.next = a.next /\ b.deferred = a.deferred /\ b.system = a.system
        /\ b.user = a.user /\ b.pending = a.pending
    BY <2>1 DEF Associations
  <2>3. Moves(a, b, k, k, 0)
    BY <2>2, StateMoves
  <2> QED
    BY <1>1, <2>1, <2>2, <2>3 DEF Gate
<1>2. CASE a.state # "Active"
  BY <1>2, NoMove DEF Gate
<1> QED
  BY <1>1, <1>2

\* A reset ends what is promised.
LEMMA ResetMoves ==
  ASSUME NEW a, NEW b \in Associations, b.reset, NEW k
  PROVE  Moves(a, b, k, k, 0)
  BY GoodReset DEF Moves

\* Quarantine resets, or does nothing.
LEMMA QuarantineMoves ==
  ASSUME NEW a \in Associations, NEW k
  PROVE  Moves(a, Quarantine(a), k, k, 0)
<1>1. CASE a.state = "Quarantined"
  BY <1>1, NoMove DEF Quarantine
<1>2. CASE a.state # "Quarantined"
  BY <1>2, QuarantineStep, ResetMoves
<1> QED
  BY <1>1, <1>2

\* So does a handshake that times out.
LEMMA TimedOutMoves ==
  ASSUME NEW a \in Associations, NEW k
  PROVE  Moves(a, HandshakeTimedOut(a), k, k, 0)
<1>1. CASE a.state = "Handshaking"
  <2>1. PICK r : r = ResetRedelivery(a)
    OBVIOUS
  <2>2. <<>> \in Seq(Envelopes) /\ <<>> \in Seq(Entries)
    OBVIOUS
  <2>3. r \in Associations /\ r.reset
    BY <2>1, <2>2 DEF ResetRedelivery, Associations
  <2>4. PICK b : b = [r EXCEPT !.state = "Gated", !.deferred = <<>>]
    OBVIOUS
  <2>5. b \in Associations /\ b.reset
    BY <2>2, <2>3, <2>4 DEF Associations
  <2> QED
    BY <1>1, <2>1, <2>4, <2>5, ResetMoves DEF HandshakeTimedOut
<1>2. CASE a.state # "Handshaking"
  BY <1>2, NoMove DEF HandshakeTimedOut
<1> QED
  BY <1>1, <1>2

\* What Own gives to a handler.
LEMMA OwnFacts ==
  ASSUME IInv, NEW n \in Nodes
  PROVE  /\ assoc[n] \in Associations /\ assoc[Peer(n)] \in Associations
         /\ sends[n] \in Nat /\ assoc \in [Nodes -> Associations]
         /\ wire \in [Nodes -> Wires] /\ wire[n] \in Wires /\ wire[Peer(n)] \in Wires
         /\ timers \in [Nodes -> SUBSET Nat] /\ sends \in [Nodes -> Nat] /\ faults \in Nat
         /\ running \subseteq Nodes
         /\ Sound(assoc[n], sends[n], Len(assoc[n].numbered))
         /\ Len(assoc[n].numbered) \in Nat
         /\ WireOK(assoc[n], wire[n])
<1>1. Peer(n) \in Nodes /\ TypeOK /\ Own(n)
  BY PeerFacts DEF IInv
<1>2. assoc[n] \in Associations
  BY <1>1 DEF TypeOK
<1>3. Len(assoc[n].numbered) \in Nat
  BY <1>2, Fields
<1> QED
  BY <1>1, <1>2, <1>3 DEF TypeOK, Own, Wires

\* Faults are counted.
LEMMA FaultsCounted ==
  ASSUME faults \in Nat, Fault \/ NoFault
  PROVE  faults' \in Nat
  BY DEF Fault, NoFault

\* An event loop may end.
LEMMA LoopCounted ==
  ASSUME running \subseteq Nodes, NEW n, LoopEnds(n) \/ LoopGoesOn
  PROVE  running' \subseteq Nodes
  BY DEF LoopEnds, LoopGoesOn

\* An action that only moves the association of n and appends to its lanes.
LEMMA QuietStep ==
  ASSUME IInv, NEW n \in Nodes, NEW b,
         assoc' = [assoc EXCEPT ![n] = b], Moves(assoc[n], b, sends[n], sends[n], 0),
         wire' \in [Nodes -> Wires], WireOK(b, wire'[n]), wire'[Peer(n)] = wire[Peer(n)],
         UNCHANGED <<delivered, discarded, sends>>, faults' \in Nat,
         running' \subseteq Nodes, timers' \in [Nodes -> SUBSET Nat]
  PROVE  IInv'
<1>1. assoc[Peer(n)].cumulative \in Nat
  BY OwnFacts, Fields
<1>2. sends' \in [Nodes -> Nat] /\ sends'[n] = sends[n] /\ sends'[Peer(n)] = sends[Peer(n)]
  BY OwnFacts
<1>3. Moves(assoc[n], b, sends[n], sends'[n], 0)
  BY <1>2
<1>4. \A l \in Lanes : Range(wire'[Peer(n)][l]) \subseteq Range(wire[Peer(n)][l])
  OBVIOUS
<1>5. 0 <= assoc[Peer(n)].cumulative /\ 0 \in Nat
  BY <1>1
<1> QED
  BY <1>2, <1>3, <1>4, <1>5, OwnStep

\* What a move says of the frames that were sent before it.
LEMMA MovedWire ==
  ASSUME IInv, NEW n \in Nodes, NEW b, NEW m, Moves(assoc[n], b, sends[n], m, 0)
  PROVE  b \in Associations /\ WireOK(b, wire[n]) /\ Extends(assoc[n], b)
<1>1. PICK c \in Nat : c = Len(assoc[n].numbered)
  BY OwnFacts
<1>2. c >= 0 /\ Sound(assoc[n], sends[n], c)
  BY <1>1, OwnFacts
<1>3. Good(assoc[n], b, m, c)
  BY <1>2 DEF Moves
<1> QED
  BY <1>3, OwnFacts, WireGrows DEF Good

\* A node that is quarantined, shut down or whose handshake times out.
LEMMA PlainStep ==
  ASSUME IInv, NEW n \in Nodes, NEW b, Becomes(n, b), Moves(assoc[n], b, sends[n], sends[n], 0),
         UNCHANGED <<wire, delivered, discarded, sends>>, faults' \in Nat,
         running' \subseteq Nodes, timers' \in [Nodes -> SUBSET Nat]
  PROVE  IInv'
<1>1. WireOK(b, wire[n])
  BY MovedWire
<1> QED
  BY <1>1, OwnFacts, QuietStep DEF Becomes

\* Remote::quarantine.
LEMMA QuarantinePeerStep ==
  ASSUME IInv, NEW n \in Nodes, QuarantinePeer(n)
  PROVE  IInv'
<1>1. Moves(assoc[n], Quarantine(assoc[n]), sends[n], sends[n], 0)
  BY OwnFacts, QuarantineMoves
<1>2. faults' \in Nat
  BY OwnFacts, FaultsCounted DEF QuarantinePeer
<1> QED
  BY <1>1, <1>2, OwnFacts, PlainStep DEF QuarantinePeer

\* handle_inbound_shutdown_control.
LEMMA InboundShutdownStep ==
  ASSUME IInv, NEW n \in Nodes, InboundShutdown(n)
  PROVE  IInv'
<1>1. PICK g : g = Gate(assoc[n])
  OBVIOUS
<1>2. g \in Associations /\ Moves(assoc[n], g, sends[n], sends[n], 0)
  BY <1>1, OwnFacts, GateMoves
<1>3. PICK b : b = IF g.state = "Gated" THEN [g EXCEPT !.state = "Idle"] ELSE g
  OBVIOUS
<1>4. Moves(g, b, sends[n], sends[n], 0)
  <2>1. CASE g.state = "Gated"
    <3>1. /\ b \in Associations /\ b.state = "Idle"
          /\ b.numbered = g.numbered /\ b.reset = g.reset /\ b.cumulative = g.cumulative
          /\ b.next = g.next /\ b.deferred = g.deferred /\ b.system = g.system
          /\ b.user = g.user /\ b.pending = g.pending
      BY <1>2, <1>3, <2>1 DEF Associations
    <3> QED
      BY <1>2, <3>1, StateMoves
  <2>2. CASE g.state # "Gated"
    BY <1>2, <1>3, <2>2, NoMove
  <2> QED
    BY <2>1, <2>2
<1>5. Moves(assoc[n], b, sends[n], sends[n], 0)
  BY <1>2, <1>4, OwnFacts, MovesOn
<1>6. Becomes(n, b)
  BY <1>1, <1>3 DEF InboundShutdown
<1>7. faults' \in Nat
  BY OwnFacts, FaultsCounted DEF InboundShutdown
<1> QED
  BY <1>5, <1>6, <1>7, OwnFacts, PlainStep DEF InboundShutdown

\* handle_handshake_timer_fired.
LEMMA HandshakeTimerStep ==
  ASSUME IInv, NEW n \in Nodes, HandshakeTimerFired(n)
  PROVE  IInv'
<1>1. PICK g \in timers[n] :
        /\ timers' = [timers EXCEPT ![n] = @ \ {g}]
        /\ Becomes(n, IF assoc[n].generation = g THEN HandshakeTimedOut(assoc[n]) ELSE assoc[n])
        /\ UNCHANGED <<wire, delivered, discarded, sends, running, faults>>
  BY DEF HandshakeTimerFired
<1>2. timers' \in [Nodes -> SUBSET Nat] /\ faults' \in Nat /\ running' \subseteq Nodes
  BY <1>1, OwnFacts
<1>3. PICK b : b = IF assoc[n].generation = g THEN HandshakeTimedOut(assoc[n]) ELSE assoc[n]
  OBVIOUS
<1>4. Moves(assoc[n], b, sends[n], sends[n], 0)
  BY <1>3, OwnFacts, TimedOutMoves, NoMove
<1> QED
  BY <1>1, <1>2, <1>3, <1>4, PlainStep

\* The redelivery tick: what is sent again was numbered, and stays in the window.
LEMMA ResendMoves ==
  ASSUME NEW a \in Associations, NEW w \in Wires, NEW k \in Nat, NEW seqs, NEW d \in Nat,
         Sound(a, k, d), WireOK(a, w), NEW failed, NEW back
  PROVE  LET r == Resend(a, w, PendingIn(a, seqs), failed, back)
         IN Moves(a, r.assoc, k, k, 0) /\ r.wire \in Wires /\ WireOK(r.assoc, r.wire)
<1>1. PICK es : es = PendingIn(a, seqs)
  OBVIOUS
<1>2. es \in Seq(Envelopes) /\ (~a.reset => \A i \in 1 .. Len(es) : Numbered(a, es[i]))
  BY <1>1, PendingInSound
<1>3. PICK r : r = Resend(a, w, es, failed, back)
  OBVIOUS
<1>4. r.wire \in Wires /\ WireOK(r.assoc, r.wire)
  BY <1>2, <1>3, ResendSound
<1>5. ASSUME NEW c \in Nat, Sound(a, k, c) PROVE Good(a, r.assoc, k, c)
  BY <1>2, <1>3, <1>5, ResendSound
<1>6. Moves(a, r.assoc, k, k, 0)
  BY <1>5 DEF Moves
<1> QED
  BY <1>1, <1>3, <1>4, <1>6

\* handle_redelivery_timer_fired.
LEMMA RedeliveryStep ==
  ASSUME IInv, NEW n \in Nodes, RedeliveryTick(n)
  PROVE  IInv'
<1>1. PICK due : RedeliveryTimerFired(n, due)
  BY DEF RedeliveryTick
<1>2. PICK es : es = PendingIn(assoc[n], due) /\ ResendInto(n, assoc[n], wire, es)
  BY <1>1 DEF RedeliveryTimerFired
<1>3. PICK failed, back :
        /\ IF failed \cup back = {} THEN NoFault ELSE Fault
        /\ Becomes(n, Resend(assoc[n], wire[n], es, failed, back).assoc)
        /\ wire' = [wire EXCEPT ![n] = Resend(assoc[n], wire[n], es, failed, back).wire]
  <2>1. PICK S : S = DOMAIN es
    OBVIOUS
  <2>2. \E failed \in SUBSET S : \E back \in SUBSET S :
          /\ IF failed \cup back = {} THEN NoFault ELSE Fault
          /\ Becomes(n, Resend(assoc[n], wire[n], es, failed, back).assoc)
          /\ wire' = [wire EXCEPT ![n] = Resend(assoc[n], wire[n], es, failed, back).wire]
    BY <1>2, <2>1 DEF ResendInto
  <2> QED
    BY <2>2, Zenon
<1>4. PICK r : r = Resend(assoc[n], wire[n], es, failed, back)
  OBVIOUS
<1>5. /\ Moves(assoc[n], r.assoc, sends[n], sends[n], 0)
      /\ r.wire \in Wires /\ WireOK(r.assoc, r.wire)
  BY <1>2, <1>4, OwnFacts, ResendMoves
<1>6. /\ wire' \in [Nodes -> Wires] /\ wire'[n] = r.wire
      /\ wire'[Peer(n)] = wire[Peer(n)]
  BY <1>3, <1>4, <1>5, OwnFacts, PeerFacts
<1>7. UNCHANGED <<timers, delivered, discarded, sends, running>>
  BY <1>1 DEF RedeliveryTimerFired
<1>8. faults' \in Nat
  BY <1>3, OwnFacts, FaultsCounted
<1>9. timers' \in [Nodes -> SUBSET Nat] /\ running' \subseteq Nodes
  BY <1>7, OwnFacts
<1> QED
  BY <1>3, <1>4, <1>5, <1>6, <1>7, <1>8, <1>9, QuietStep DEF Becomes

\* Requests and responses say nothing that could be wrong.
LEMMA PlainFrames ==
  ASSUME NEW a, NEW t \in {"Req", "Rsp"}
  PROVE  [t |-> t] \in Frames /\ FrameOK(a, [t |-> t])
  BY DEF Frames, FrameOK

\* Nothing is on an empty connection.
LEMMA EmptyWire ==
  ASSUME NEW a
  PROVE  [l \in Lanes |-> <<>>] \in Wires /\ WireOK(a, [l \in Lanes |-> <<>>])
<1>1. <<>> \in Seq(Frames) /\ Range(<<>>) = {}
  BY DEF Range
<1> QED
  BY <1>1 DEF Wires, WireOK

\* A handshake that starts: the request goes out or not, the event loop goes on
\* or not.
LEMMA RequestedOK ==
  ASSUME NEW a, NEW w \in Wires, WireOK(a, w)
  PROVE  Requested(w) \in Wires /\ WireOK(a, Requested(w))
<1>1. [t |-> "Req"] \in Frames /\ FrameOK(a, [t |-> "Req"])
  BY PlainFrames
<1> QED
  BY <1>1, SendOrDropOK DEF Requested

\* handle_connection_lost.
LEMMA ConnectionLostStep ==
  ASSUME IInv, NEW n \in Nodes, ConnectionLost(n)
  PROVE  IInv'
<1>1. PICK g : g = Gate(assoc[n])
  OBVIOUS
<1>2. PICK b \in {g, StartsHandshake(g)}, w \in {wire[n], [l \in Lanes |-> <<>>]} :
        /\ Becomes(n, b)
        /\ wire' \in {[wire EXCEPT ![n] = w], [wire EXCEPT ![n] = Requested(w)]}
        /\ UNCHANGED timers \/ TimerScheduled(n, b)
        /\ LoopEnds(n) \/ LoopGoesOn
  BY <1>1 DEF ConnectionLost, StartHandshakeFails
<1>3. g \in Associations /\ Moves(assoc[n], g, sends[n], sends[n], 0)
  BY <1>1, OwnFacts, GateMoves
<1>4. b \in Associations /\ Moves(g, b, sends[n], sends[n], 0) /\ b.generation \in Nat
  BY <1>2, <1>3, StartsMoves, NoMove, Fields
<1>5. Moves(assoc[n], b, sends[n], sends[n], 0)
  BY <1>3, <1>4, OwnFacts, MovesOn
<1>6. w \in Wires /\ WireOK(b, w)
  BY <1>2, <1>5, OwnFacts, MovedWire, EmptyWire
<1>7. PICK v : v \in {w, Requested(w)} /\ wire' = [wire EXCEPT ![n] = v]
  BY <1>2
<1>8. v \in Wires /\ WireOK(b, v)
  BY <1>6, <1>7, RequestedOK
<1>9. /\ wire' \in [Nodes -> Wires] /\ wire'[n] = v /\ wire'[Peer(n)] = wire[Peer(n)]
  BY <1>7, <1>8, OwnFacts, PeerFacts
<1>10. timers' \in [Nodes -> SUBSET Nat]
  BY <1>2, <1>4, OwnFacts DEF TimerScheduled
<1>11. faults' \in Nat /\ UNCHANGED <<delivered, discarded, sends>>
  BY OwnFacts, FaultsCounted DEF ConnectionLost
<1>12. running' \subseteq Nodes
  BY <1>2, OwnFacts, LoopCounted
<1> QED
  BY <1>2, <1>5, <1>8, <1>9, <1>10, <1>11, <1>12, QuietStep DEF Becomes

\* A step that only takes frames off the connection of the peer.
LEMMA ShrinkStep ==
  ASSUME IInv, NEW n \in Nodes,
         UNCHANGED <<assoc, timers, delivered, discarded, sends>>, faults' \in Nat,
         running' \subseteq Nodes, wire' \in [Nodes -> Wires], wire'[n] = wire[n],
         \A l \in Lanes : Range(wire'[Peer(n)][l]) \subseteq Range(wire[Peer(n)][l])
  PROVE  IInv'
<1>1. assoc' = [assoc EXCEPT ![n] = assoc[n]]
  BY OwnFacts
<1>2. Moves(assoc[n], assoc[n], sends[n], sends'[n], 0)
  BY OwnFacts, NoMove
<1>3. WireOK(assoc[n], wire'[n])
  BY OwnFacts
<1>4. 0 \in Nat /\ 0 <= assoc[Peer(n)].cumulative
  BY OwnFacts, Fields
<1>5. /\ timers' \in [Nodes -> SUBSET Nat] /\ sends' \in [Nodes -> Nat]
      /\ sends'[Peer(n)] = sends[Peer(n)]
  BY OwnFacts
<1> QED
  BY <1>1, <1>2, <1>3, <1>4, <1>5, OwnStep

\* A frame that is lost.
LEMMA LoseStep ==
  ASSUME IInv, NEW n \in Nodes, Lose(n)
  PROVE  IInv'
<1>1. PICK l \in Lanes : \E i \in DOMAIN wire[n][l] : wire' = [wire EXCEPT ![n][l] = RemoveAt(@, i)]
  BY DEF Lose
<1>2. PICK i \in DOMAIN wire[n][l] : wire' = [wire EXCEPT ![n][l] = RemoveAt(@, i)]
  BY <1>1
<1>3. wire \in [Nodes -> Wires] /\ wire[n] \in Wires /\ wire[n][l] \in Seq(Frames)
  BY OwnFacts DEF Wires
<1>4. PICK q \in Seq(Frames) : q = wire[n][l]
  BY <1>3
<1>5. i \in 1 .. Len(q)
  BY <1>4
<1>6. RemoveAt(q, i) \in Seq(Frames) /\ Range(RemoveAt(q, i)) \subseteq Range(q)
  BY <1>5, RangeRemoveAt
<1>7. PICK w : w = [wire[n] EXCEPT ![l] = RemoveAt(q, i)]
  OBVIOUS
<1>8. w \in Wires /\ \A m \in Lanes : Range(w[m]) \subseteq Range(wire[n][m])
  BY <1>3, <1>4, <1>6, <1>7 DEF Wires
<1>9. wire' = [wire EXCEPT ![n] = w]
  BY <1>2, <1>3, <1>4, <1>7
<1>10. PICK m \in Nodes : m = Peer(n) /\ m # n /\ Peer(m) = n
  BY PeerFacts
<1>11. /\ wire' \in [Nodes -> Wires] /\ wire'[m] = wire[m]
       /\ \A k \in Lanes : Range(wire'[Peer(m)][k]) \subseteq Range(wire[Peer(m)][k])
  BY <1>3, <1>8, <1>9, <1>10
<1>12. /\ UNCHANGED <<assoc, timers, delivered, discarded, sends>>
       /\ faults' \in Nat /\ running' \subseteq Nodes
  BY OwnFacts, FaultsCounted DEF Lose
<1> QED
  BY <1>11, <1>12, ShrinkStep

\* drain_outbound after a move.
LEMMA DrainIntoStep ==
  ASSUME IInv, NEW n \in Nodes, NEW a \in Associations, NEW w \in [Nodes -> Wires],
         DrainInto(n, a, w), Moves(assoc[n], a, sends[n], sends'[n], 0), WireOK(a, w[n]),
         \A l \in Lanes : Range(w[Peer(n)][l]) \subseteq Range(wire[Peer(n)][l]),
         UNCHANGED <<delivered, discarded>>, running' \subseteq Nodes, timers' \in [Nodes -> SUBSET Nat],
         sends' \in [Nodes -> Nat], sends'[Peer(n)] = sends[Peer(n)]
  PROVE  IInv'
<1>1. PICK failed \in 0 .. Sendable(a, w[n]), discards \in BOOLEAN :
        /\ NoFault \/ Fault
        /\ Becomes(n, Drain(a, w[n], failed, discards).assoc)
        /\ wire' = [w EXCEPT ![n] = Drain(a, w[n], failed, discards).wire]
  BY DEF DrainInto
<1>2. PICK v \in Wires, k \in Nat : v = w[n] /\ k = sends'[n]
  OBVIOUS
<1>3. PICK d : d = Drain(a, v, failed, discards)
  OBVIOUS
<1>4. ASSUME NEW c \in Nat, Sound(a, k, c)
      PROVE  Good(a, d.assoc, k, c) /\ d.wire \in Wires /\ WireOK(d.assoc, d.wire)
  <2>1. WireOK(a, v) /\ failed \in 0 .. Sendable(a, v)
    BY <1>1, <1>2
  <2> QED
    BY <1>3, <1>4, <2>1, DrainSound
<1>5. Moves(a, d.assoc, k, k, 0)
  BY <1>4 DEF Moves
<1>6. Moves(assoc[n], d.assoc, sends[n], sends'[n], 0)
  <2>1. Moves(assoc[n], a, sends[n], k, 0)
    BY <1>2
  <2>2. Moves(assoc[n], d.assoc, sends[n], k, 0)
    BY <1>5, <2>1, OwnFacts, MovesOn
  <2> QED
    BY <1>2, <2>2
<1>7. PICK c \in Nat : Sound(assoc[n], sends[n], c)
  BY OwnFacts
<1>8. Sound(a, k, c)
  BY <1>2, <1>7 DEF Moves, Good
<1>9. d.wire \in Wires /\ WireOK(d.assoc, d.wire)
  BY <1>4, <1>8
<1>10. wire' = [w EXCEPT ![n] = d.wire] /\ Becomes(n, d.assoc)
  BY <1>1, <1>2, <1>3
<1>11. Peer(n) \in Nodes /\ Peer(n) # n
  BY PeerFacts
<1>12. wire' \in [Nodes -> Wires] /\ wire'[n] = d.wire /\ wire'[Peer(n)] = w[Peer(n)]
  BY <1>9, <1>10, <1>11
<1>13. faults' \in Nat
  BY <1>1, OwnFacts, FaultsCounted
<1>14. 0 \in Nat /\ 0 <= assoc[Peer(n)].cumulative
  BY OwnFacts, Fields
<1> QED
  BY <1>6, <1>9, <1>10, <1>12, <1>13, <1>14, OwnStep DEF Becomes

\* The next envelope of the script.
LEMMA NextEnvelope ==
  ASSUME NEW n \in Nodes, NEW k \in Nat, k < Len(Script[n])
  PROVE  /\ Envelope(n, k + 1) \in Envelopes /\ Envelope(n, k + 1).id = k + 1
         /\ Envelope(n, k + 1).seq = 0
<1>1. Script[n] \in Seq(BOOLEAN) /\ Lane[n] \in Seq(Nat) /\ Len(Lane[n]) = Len(Script[n])
  BY BoundsAssumption
<1>2. k + 1 \in 1 .. Len(Script[n])
  BY <1>1
<1>3. Script[n][k + 1] \in BOOLEAN /\ Lane[n][k + 1] \in Lanes
  <2>1. k + 1 \in DOMAIN Lane[n]
    BY <1>1, <1>2
  <2>2. Lane[n][k + 1] \in Range(Lane[n])
    BY <2>1 DEF Range
  <2> QED
    BY <1>1, <1>2, <2>2 DEF Lanes
<1> QED
  BY <1>3 DEF Envelope, Envelopes

\* Enqueueing the next envelope.
LEMMA EnqueueMoves ==
  ASSUME NEW a \in Associations, NEW e \in Envelopes, NEW k \in Nat, e.id = k + 1, e.seq = 0
  PROVE  Enqueue(a, e) \in Associations /\ Moves(a, Enqueue(a, e), k, k + 1, 0)
<1>1. Enqueue(a, e) \in Associations
  BY EnqueueOutcome
<1>2. ASSUME NEW c \in Nat, Sound(a, k, c) PROVE Good(a, Enqueue(a, e), k + 1, c)
  <2>1. k + 1 \in Nat /\ k + 1 >= k
    OBVIOUS
  <2>2. Sound(a, k + 1, c)
    BY <1>2, <2>1, SoundMore
  <2>3. Fit(a, e, k + 1)
    <3> SUFFICES ASSUME ~a.reset
                 PROVE  /\ e.sys => Fresh(e)
                        /\ e.id <= k + 1 /\ Above(a, e.id)
                        /\ Behind(a.deferred, Len(a.deferred), e.id)
      BY DEF Fit
    <3>1. OrderOK(a, k)
      BY <1>2 DEF Sound
    <3>2. /\ a.numbered \in Seq(Nat) /\ a.deferred \in Seq(Envelopes)
          /\ \A i \in 1 .. Len(a.numbered) : a.numbered[i] \in Nat
      BY Fields
    <3>3. \A i \in 1 .. Len(a.deferred) : a.deferred[i].id \in Nat
      BY <3>2, EnvelopeFields
    <3>4. Above(a, k + 1)
      BY <3>1, <3>2 DEF OrderOK, Above
    <3>5. Behind(a.deferred, Len(a.deferred), k + 1)
      BY <3>1, <3>3 DEF OrderOK, Behind
    <3> QED
      BY <3>4, <3>5 DEF Fresh
  <2>4. Kept(a, e, Enqueue(a, e), k + 1, c)
    BY <2>1, <2>2, <2>3, EnqueueSound
  <2> QED
    BY <2>4 DEF Kept, Good
<1> QED
  BY <1>1, <1>2 DEF Moves

\* handle_outbound_enqueued.
LEMMA OutboundEnqueuedStep ==
  ASSUME IInv, NEW n \in Nodes, OutboundEnqueued(n)
  PROVE  IInv'
<1>1. PICK k \in Nat : k = sends[n]
  BY OwnFacts
<1>2. PICK e : e = Envelope(n, k + 1)
  OBVIOUS
<1>3. PICK q : q = Enqueue(assoc[n], e)
  OBVIOUS
<1>4. /\ k < Len(Script[n]) /\ sends' = [sends EXCEPT ![n] = @ + 1]
      /\ UNCHANGED <<delivered, discarded>>
  BY <1>1 DEF OutboundEnqueued
<1>5. e \in Envelopes /\ e.id = k + 1 /\ e.seq = 0
  BY <1>2, <1>4, NextEnvelope
<1>6. q \in Associations /\ Moves(assoc[n], q, k, k + 1, 0)
  BY <1>3, <1>5, OwnFacts, EnqueueMoves
<1>7. /\ sends' \in [Nodes -> Nat] /\ sends'[n] = k + 1 /\ sends'[Peer(n)] = sends[Peer(n)]
  BY <1>1, <1>4, OwnFacts, PeerFacts
<1>8. PICK b \in {q, StartsHandshake(q)}, v \in {wire[n], Requested(wire[n])} :
        /\ UNCHANGED timers \/ TimerScheduled(n, b)
        /\ LoopEnds(n) \/ LoopGoesOn
        /\ \/ DrainInto(n, b, [wire EXCEPT ![n] = v])
           \/ Fault /\ Becomes(n, b) /\ wire' = [wire EXCEPT ![n] = v]
  <2>1. [wire EXCEPT ![n] = wire[n]] = wire
    BY OwnFacts
  <2> QED
    BY <1>1, <1>2, <1>3, <2>1 DEF OutboundEnqueued, StartHandshakeFails
<1>9. b \in Associations /\ Moves(q, b, k + 1, k + 1, 0) /\ b.generation \in Nat
  BY <1>6, <1>8, StartsMoves, NoMove, Fields
<1>10. Moves(assoc[n], b, k, k + 1, 0)
  BY <1>6, <1>9, OwnFacts, MovesOn
<1>11. Moves(assoc[n], b, sends[n], sends'[n], 0)
  BY <1>1, <1>7, <1>10
<1>12. WireOK(b, wire[n]) /\ wire[n] \in Wires
  BY <1>11, OwnFacts, MovedWire
<1>13. v \in Wires /\ WireOK(b, v)
  BY <1>8, <1>12, RequestedOK
<1>14. PICK w : w = [wire EXCEPT ![n] = v]
  OBVIOUS
<1>15. w \in [Nodes -> Wires] /\ WireOK(b, w[n]) /\ w[Peer(n)] = wire[Peer(n)]
  BY <1>13, <1>14, OwnFacts, PeerFacts
<1>16. timers' \in [Nodes -> SUBSET Nat]
  BY <1>8, <1>9, OwnFacts DEF TimerScheduled
<1>17. running' \subseteq Nodes
  BY <1>8, OwnFacts, LoopCounted
<1>18. CASE DrainInto(n, b, w)
  BY <1>4, <1>7, <1>9, <1>11, <1>15, <1>16, <1>17, <1>18, DrainIntoStep
<1>19. CASE Fault /\ Becomes(n, b) /\ wire' = w
  <2>1. faults' \in Nat /\ 0 \in Nat /\ 0 <= assoc[Peer(n)].cumulative
    BY <1>19, OwnFacts, FaultsCounted, Fields
  <2> QED
    BY <1>4, <1>7, <1>11, <1>15, <1>16, <1>17, <1>19, <2>1, OwnStep DEF Becomes
<1> QED
  BY <1>8, <1>14, <1>18, <1>19

-----------------------------------------------------------------------------
(* The frames that are read                                                *)

\* What reading a frame leaves, and what the frame is.
LEMMA TakenFacts ==
  ASSUME IInv, NEW n \in Nodes, NEW l \in Lanes, wire[Peer(n)][l] # <<>>
  PROVE  /\ Taken(n, l) \in [Nodes -> Wires] /\ Taken(n, l)[n] = wire[n]
         /\ \A m \in Lanes : Range(Taken(n, l)[Peer(n)][m]) \subseteq Range(wire[Peer(n)][m])
         /\ Head(wire[Peer(n)][l]) \in Frames
         /\ ~assoc[Peer(n)].reset => FrameOK(assoc[Peer(n)], Head(wire[Peer(n)][l]))
<1>1. PICK p \in Nodes : p = Peer(n) /\ p # n
  BY PeerFacts
<1>2. wire \in [Nodes -> Wires] /\ wire[p] \in Wires /\ wire[p][l] \in Seq(Frames)
  BY <1>1, OwnFacts DEF Wires
<1>3. PICK q \in Seq(Frames) : q = wire[p][l] /\ q # <<>>
  BY <1>1, <1>2
<1>4. /\ Tail(q) \in Seq(Frames) /\ Head(q) \in Frames /\ Head(q) \in Range(q)
      /\ Range(Tail(q)) \subseteq Range(q)
  BY <1>3, RangeTail
<1>5. PICK w : w = [wire[p] EXCEPT ![l] = Tail(q)]
  OBVIOUS
<1>6. w \in Wires /\ \A m \in Lanes : Range(w[m]) \subseteq Range(wire[p][m])
  BY <1>2, <1>3, <1>4, <1>5 DEF Wires
<1>7. Taken(n, l) = [wire EXCEPT ![p] = w]
  BY <1>1, <1>2, <1>3, <1>5 DEF Taken
<1>8. Own(p)
  BY <1>1 DEF IInv
<1>9. ~assoc[p].reset => FrameOK(assoc[p], Head(q))
  BY <1>3, <1>4, <1>8 DEF Own, WireOK
<1> QED
  BY <1>1, <1>2, <1>3, <1>4, <1>6, <1>7, <1>9

\* A frame that is only taken.
LEMMA TakenStep ==
  ASSUME IInv, NEW n \in Nodes, NEW l \in Lanes, wire[Peer(n)][l] # <<>>,
         wire' = Taken(n, l), UNCHANGED <<assoc, timers, delivered, discarded, sends>>,
         Fault \/ NoFault, LoopEnds(n) \/ LoopGoesOn
  PROVE  IInv'
<1>1. /\ wire' \in [Nodes -> Wires] /\ wire'[n] = wire[n]
      /\ \A m \in Lanes : Range(wire'[Peer(n)][m]) \subseteq Range(wire[Peer(n)][m])
  BY TakenFacts
<1>2. faults' \in Nat /\ running' \subseteq Nodes
  BY OwnFacts, FaultsCounted, LoopCounted
<1> QED
  BY <1>1, <1>2, ShrinkStep

\* A handshake that is accepted is a move.
LEMMA AcceptedMoves ==
  ASSUME NEW a \in Associations, NEW k \in Nat, NEW d \in Nat, Sound(a, k, d)
  PROVE  HandshakeAccepted(a) \in Associations /\ Moves(a, HandshakeAccepted(a), k, k, 0)
<1>1. HandshakeAccepted(a) \in Associations
  BY HandshakeAcceptedSound DEF Good
<1> QED
  BY <1>1, HandshakeAcceptedSound DEF Moves

\* handle_inbound_handshake_request.
LEMMA RequestStep ==
  ASSUME IInv, NEW n \in Nodes, NEW l \in Lanes, wire[Peer(n)][l] # <<>>, NEW f,
         InboundHandshakeRequest(n, l, f)
  PROVE  IInv'
<1>1. PICK a : a = HandshakeAccepted(assoc[n])
  OBVIOUS
<1>2. a \in Associations /\ Moves(assoc[n], a, sends[n], sends[n], 0)
  BY <1>1, OwnFacts, AcceptedMoves
<1>3. UNCHANGED <<timers, delivered, discarded, sends>> /\ (LoopEnds(n) \/ LoopGoesOn)
  BY DEF InboundHandshakeRequest
<1>4. CASE wire' = Taken(n, l) /\ UNCHANGED assoc /\ (Fault \/ NoFault)
  BY <1>3, <1>4, TakenStep
<1>5. PICK w : w = [Taken(n, l) EXCEPT ![n] = SendOrDrop(@, [t |-> "Rsp"])]
  OBVIOUS
<1>6. CASE DrainInto(n, a, w)
  <2>1. PICK v : v = SendOrDrop(wire[n], [t |-> "Rsp"])
    OBVIOUS
  <2>2. WireOK(a, wire[n]) /\ wire[n] \in Wires
    BY <1>2, OwnFacts, MovedWire
  <2>3. v \in Wires /\ WireOK(a, v)
    BY <2>1, <2>2, PlainFrames, SendOrDropOK
  <2>4. PICK t \in [Nodes -> Wires] : t = Taken(n, l)
    BY TakenFacts
  <2>5. /\ t[n] = wire[n]
        /\ \A m \in Lanes : Range(t[Peer(n)][m]) \subseteq Range(wire[Peer(n)][m])
    BY <2>4, TakenFacts
  <2>6. w = [t EXCEPT ![n] = v]
    BY <1>5, <2>1, <2>4, <2>5
  <2>7. /\ w \in [Nodes -> Wires] /\ WireOK(a, w[n])
        /\ \A m \in Lanes : Range(w[Peer(n)][m]) \subseteq Range(wire[Peer(n)][m])
    BY <2>3, <2>5, <2>6, PeerFacts
  <2>8. /\ sends' \in [Nodes -> Nat] /\ sends'[Peer(n)] = sends[Peer(n)]
        /\ timers' \in [Nodes -> SUBSET Nat] /\ Moves(assoc[n], a, sends[n], sends'[n], 0)
        /\ running' \subseteq Nodes
    BY <1>2, <1>3, OwnFacts, LoopCounted
  <2> QED
    BY <1>2, <1>3, <1>6, <2>7, <2>8, DrainIntoStep
<1> QED
  BY <1>1, <1>4, <1>5, <1>6 DEF InboundHandshakeRequest

\* handle_inbound_handshake_response.
LEMMA ResponseStep ==
  ASSUME IInv, NEW n \in Nodes, NEW l \in Lanes, wire[Peer(n)][l] # <<>>, NEW f,
         InboundHandshakeResponse(n, l, f)
  PROVE  IInv'
<1>1. PICK a : a = HandshakeAccepted(assoc[n])
  OBVIOUS
<1>2. a \in Associations /\ Moves(assoc[n], a, sends[n], sends[n], 0)
  BY <1>1, OwnFacts, AcceptedMoves
<1>3. UNCHANGED <<timers, delivered, discarded, sends>> /\ (LoopEnds(n) \/ LoopGoesOn)
  BY DEF InboundHandshakeResponse, LoopGoesOn
<1>4. CASE wire' = Taken(n, l) /\ UNCHANGED <<assoc, faults>>
  BY <1>3, <1>4, TakenStep DEF NoFault
<1>5. CASE DrainInto(n, a, Taken(n, l))
  <2>1. PICK t \in [Nodes -> Wires] : t = Taken(n, l)
    BY TakenFacts
  <2>2. /\ t[n] = wire[n]
        /\ \A m \in Lanes : Range(t[Peer(n)][m]) \subseteq Range(wire[Peer(n)][m])
    BY <2>1, TakenFacts
  <2>3. WireOK(a, t[n])
    BY <1>2, <2>2, OwnFacts, MovedWire
  <2>4. /\ sends' \in [Nodes -> Nat] /\ sends'[Peer(n)] = sends[Peer(n)]
        /\ timers' \in [Nodes -> SUBSET Nat] /\ Moves(assoc[n], a, sends[n], sends'[n], 0)
        /\ running' \subseteq Nodes
    BY <1>2, <1>3, OwnFacts, LoopCounted
  <2>5. DrainInto(n, a, t)
    BY <1>5, <2>1
  <2> QED
    BY <1>2, <1>3, <2>2, <2>3, <2>4, <2>5, DrainIntoStep
<1> QED
  BY <1>1, <1>4, <1>5 DEF InboundHandshakeResponse

\* handle_inbound_ack_pdu: what the peer says it has accepted, it has.
LEMMA AckStep ==
  ASSUME IInv, NEW n \in Nodes, NEW l \in Lanes, wire[Peer(n)][l] # <<>>,
         InboundAck(n, l, Head(wire[Peer(n)][l]))
  PROVE  IInv'
<1>1. PICK f \in Frames : f = Head(wire[Peer(n)][l]) /\ f.t = "Ack"
                         /\ (~assoc[Peer(n)].reset => FrameOK(assoc[Peer(n)], f))
  BY TakenFacts DEF InboundAck
<1>2. f.cumulative \in Nat
  BY <1>1 DEF Frames
<1>3. PICK kept : kept = Retained(assoc[n], f)
  OBVIOUS
<1>4. PICK seqs : seqs = (f.cumulative + 1) .. f.nack
  OBVIOUS
<1>5. /\ ResendInto(n, kept, Taken(n, l), PendingIn(kept, seqs))
      /\ UNCHANGED <<timers, delivered, discarded, sends, running>>
  BY <1>1, <1>3, <1>4 DEF InboundAck
<1>6. PICK failed, back, r :
        /\ r = Resend(kept, wire[n], PendingIn(kept, seqs), failed, back)
        /\ wire' = [Taken(n, l) EXCEPT ![n] = r.wire]
        /\ Becomes(n, r.assoc)
        /\ Fault \/ NoFault
  <2>1. Taken(n, l)[n] = wire[n]
    BY TakenFacts
  <2> QED
    BY <1>5, <2>1 DEF ResendInto
<1>7. PICK a \in Associations, k \in Nat, w \in Wires :
        /\ a = assoc[n] /\ k = sends[n] /\ w = wire[n] /\ WireOK(a, w)
        /\ Sound(a, k, Len(a.numbered)) /\ Len(a.numbered) \in Nat
  BY OwnFacts
<1>8. ASSUME NEW c \in Nat, c >= f.cumulative, Sound(a, k, c) PROVE Good(a, kept, k, c)
  BY <1>2, <1>3, <1>7, <1>8, RetainedSound
<1>9. Moves(a, kept, k, k, f.cumulative)
  BY <1>8 DEF Moves
<1>10. PICK c \in Nat : c >= f.cumulative /\ Sound(a, k, c)
  <2>1. PICK c \in Nat : c >= f.cumulative /\ c >= Len(a.numbered)
    <3>1. f.cumulative + Len(a.numbered) \in Nat
      BY <1>2, <1>7
    <3> QED
      BY <1>2, <1>7, <3>1
  <2> QED
    BY <1>7, <2>1, SoundMore
<1>11. kept \in Associations /\ Sound(kept, k, c) /\ Extends(a, kept)
  BY <1>8, <1>10 DEF Good
<1>12. WireOK(kept, w)
  BY <1>7, <1>11, WireGrows
<1>13. Moves(kept, r.assoc, k, k, 0) /\ r.wire \in Wires /\ WireOK(r.assoc, r.wire)
  BY <1>6, <1>7, <1>11, <1>12, ResendMoves
<1>14. Moves(a, r.assoc, k, k, f.cumulative)
  BY <1>2, <1>9, <1>11, <1>13, MovesOn
<1>15. /\ Taken(n, l) \in [Nodes -> Wires]
       /\ \A m \in Lanes : Range(Taken(n, l)[Peer(n)][m]) \subseteq Range(wire[Peer(n)][m])
  BY TakenFacts
<1>16. /\ wire' \in [Nodes -> Wires] /\ wire'[n] = r.wire
       /\ \A m \in Lanes : Range(wire'[Peer(n)][m]) \subseteq Range(wire[Peer(n)][m])
  BY <1>6, <1>13, <1>15, PeerFacts
<1>17. Unreset => f.cumulative <= assoc[Peer(n)].cumulative
  BY <1>1, PeerFacts DEF Unreset, FrameOK
<1>18. /\ timers' \in [Nodes -> SUBSET Nat] /\ sends' \in [Nodes -> Nat] /\ faults' \in Nat
       /\ sends'[Peer(n)] = sends[Peer(n)] /\ sends'[n] = sends[n]
       /\ running' \subseteq Nodes
  BY <1>5, <1>6, OwnFacts, FaultsCounted
<1>19. Moves(assoc[n], r.assoc, sends[n], sends'[n], f.cumulative)
  BY <1>7, <1>14, <1>18
<1> QED
  BY <1>2, <1>5, <1>6, <1>13, <1>16, <1>17, <1>18, <1>19, OwnStep DEF Becomes

\* Appending an envelope to what was delivered.
LEMMA SystemAppend ==
  ASSUME NEW q \in Seq(Envelopes), NEW e \in Envelopes
  PROVE  Ids(OfKind(Append(q, e), TRUE)) =
           IF e.sys THEN Append(Ids(OfKind(q, TRUE)), e.id) ELSE Ids(OfKind(q, TRUE))
<1>1. PICK S : S = {x \in Envelopes : x.sys = TRUE}
  OBVIOUS
<1>2. e.sys \in BOOLEAN /\ (e \in S <=> e.sys)
  BY <1>1, EnvelopeFields
<1>3. PICK r \in Seq(Envelopes) : r = Only(q, S)
  BY OnlyRange
<1>4. Only(Append(q, e), S) = IF e.sys THEN Append(r, e) ELSE r
  BY <1>2, <1>3, OnlyAppend
<1>5. OfKind(q, TRUE) = r /\ OfKind(Append(q, e), TRUE) = IF e.sys THEN Append(r, e) ELSE r
  BY <1>1, <1>3, <1>4 DEF OfKind
<1>6. Ids(Append(r, e)) = Append(Ids(r), e.id)
  <2>1. PICK t : t = Append(r, e)
    OBVIOUS
  <2>2. /\ Len(r) \in Nat /\ DOMAIN r = 1 .. Len(r) /\ DOMAIN t = 1 .. Len(r) + 1
        /\ \A i \in 1 .. Len(r) : t[i] = r[i]
        /\ t[Len(r) + 1] = e
    BY <2>1
  <2>3. \A i \in 1 .. Len(r) : r[i].id \in Nat
    BY EnvelopeFields
  <2>4. PICK x : x = Ids(r)
    OBVIOUS
  <2>5. x = [i \in 1 .. Len(r) |-> r[i].id]
    BY <2>2, <2>4 DEF Ids
  <2>6. x \in Seq(Nat) /\ Len(x) = Len(r)
    BY <2>2, <2>3, <2>5
  <2>7. e.id \in Nat
    BY EnvelopeFields
  <2>8. PICK y : y = Append(x, e.id)
    OBVIOUS
  <2>9. /\ y \in Seq(Nat) /\ DOMAIN y = 1 .. Len(r) + 1 /\ y[Len(r) + 1] = e.id
        /\ \A i \in 1 .. Len(r) : y[i] = x[i]
    BY <2>6, <2>7, <2>8
  <2>10. PICK z : z = [i \in 1 .. Len(r) + 1 |-> t[i].id]
    OBVIOUS
  <2>11. \A i \in 1 .. Len(r) + 1 : i \in 1 .. Len(r) \/ i = Len(r) + 1
    BY <2>2
  <2>12. \A i \in 1 .. Len(r) + 1 : z[i] = y[i]
    BY <2>2, <2>5, <2>9, <2>10, <2>11
  <2>13. y = z
    BY <2>9, <2>10, <2>12
  <2>14. Ids(t) = z
    BY <2>2, <2>10 DEF Ids
  <2> QED
    BY <2>1, <2>4, <2>8, <2>13, <2>14
<1> QED
  BY <1>5, <1>6

\* The next id is delivered or discarded.
LEMMA ReceivedMore ==
  ASSUME NEW x, NEW gone, NEW s \in Seq(Nat), Increasing(s), NEW c \in Nat, c + 1 <= Len(s),
         Received(x, gone, s, c)
  PROVE  /\ Received(Append(x, s[c + 1]), gone, s, c + 1)
         /\ Received(x, gone \cup {s[c + 1]}, s, c + 1)
<1>1. /\ x \in Seq(Nat) /\ Increasing(x)
      /\ \A id \in Range(x) : \E i \in 1 .. c : s[i] = id
      /\ \A i \in 1 .. c : s[i] \in Range(x) \cup gone
  BY DEF Received
<1>2. /\ c + 1 \in DOMAIN s /\ \A i \in 1 .. c : i \in DOMAIN s /\ i < c + 1
      /\ \A i \in 1 .. c : i \in 1 .. c + 1
      /\ \A i \in 1 .. c + 1 : i \in 1 .. c \/ i = c + 1
      /\ c + 1 \in 1 .. c + 1
  OBVIOUS
<1>3. PICK v \in Nat : v = s[c + 1]
  BY <1>2
<1>4. \A i \in 1 .. c : s[i] < v
  BY <1>2, <1>3 DEF Increasing
<1>5. \A i \in 1 .. Len(x) : x[i] < v
  <2> SUFFICES ASSUME NEW i \in 1 .. Len(x) PROVE x[i] < v
    OBVIOUS
  <2>1. x[i] \in Range(x)
    BY <1>1, RangeMember
  <2> QED
    BY <1>1, <1>4, <2>1
<1>6. Append(x, v) \in Seq(Nat) /\ Increasing(Append(x, v))
  BY <1>1, <1>5, IncreasingAbove
<1>7. Range(Append(x, v)) = Range(x) \cup {v}
  BY <1>1, RangeAppend
<1>8. \A id \in Range(x) \cup {v} : \E i \in 1 .. c + 1 : s[i] = id
  BY <1>1, <1>2, <1>3
<1>9. \A i \in 1 .. c + 1 : s[i] \in (Range(x) \cup {v}) \cup gone
  BY <1>1, <1>2, <1>3
<1>10. Received(Append(x, v), gone, s, c + 1)
  BY <1>6, <1>7, <1>8, <1>9 DEF Received
<1>11. Received(x, gone \cup {v}, s, c + 1)
  BY <1>1, <1>8, <1>9 DEF Received
<1> QED
  BY <1>3, <1>10, <1>11

\* What has been accepted of the peer says nothing of what is sent to it.
LEMMA SameSound ==
  ASSUME NEW a, NEW b, NEW k, NEW c, Sound(a, k, c),
         b.numbered = a.numbered, b.reset = a.reset, b.state = a.state,
         b.next = a.next, b.deferred = a.deferred, b.system = a.system,
         b.user = a.user, b.pending = a.pending
  PROVE  Sound(b, k, c)
<1>1. /\ \A x : Numbered(a, x) <=> Numbered(b, x)
      /\ \A id : Above(a, id) <=> Above(b, id)
  BY DEF Numbered, Above
<1>2. ASSUME ~a.reset PROVE QueuesOK(b) /\ WindowOK(b, c) /\ OrderOK(b, k)
  <2>1. QueuesOK(a) /\ WindowOK(a, c) /\ OrderOK(a, k)
    BY <1>2 DEF Sound
  <2>2. QueuesOK(b)
    BY <1>1, <2>1 DEF QueuesOK
  <2>3. WindowOK(b, c)
    BY <1>1, <2>1 DEF WindowOK
  <2>4. OrderOK(b, k)
    BY <1>1, <2>1 DEF OrderOK
  <2> QED
    BY <2>2, <2>3, <2>4
<1> QED
  BY <1>2 DEF Sound

\* A step of n that accepts of its peer what b says, after which it has
\* delivered q and discarded gone.
LEMMA ReceiveStep ==
  ASSUME IInv, NEW n \in Nodes, NEW b \in Associations, NEW q \in Seq(Envelopes),
         NEW gone \in SUBSET Nat, assoc' = [assoc EXCEPT ![n] = b],
         delivered' = [delivered EXCEPT ![n] = q], discarded' = [discarded EXCEPT ![n] = gone],
         UNCHANGED <<timers, sends>>, faults' \in Nat, running' \subseteq Nodes,
         \A k, c : Sound(assoc[n], k, c) => Sound(b, k, c),
         b.numbered = assoc[n].numbered, b.reset = assoc[n].reset,
         b.cumulative >= assoc[n].cumulative,
         wire' \in [Nodes -> Wires], WireOK(b, wire'[n]),
         \A l \in Lanes : Range(wire'[Peer(n)][l]) \subseteq Range(wire[Peer(n)][l]),
         Unreset => /\ b.cumulative <= Len(assoc[Peer(n)].numbered)
                    /\ Received(Ids(OfKind(q, TRUE)), gone, assoc[Peer(n)].numbered,
                                b.cumulative)
  PROVE  IInv'
<1>1. PICK p \in Nodes : p = Peer(n) /\ p # n /\ Peer(p) = n /\ \A m \in Nodes : m = n \/ m = p
  BY PeerFacts
<1>2. TypeOK /\ Own(n) /\ Own(p) /\ (Unreset => Channel(n) /\ Channel(p))
  BY <1>1 DEF IInv
<1>3. /\ assoc \in [Nodes -> Associations] /\ delivered \in [Nodes -> Seq(Envelopes)]
      /\ discarded \in [Nodes -> SUBSET Nat]
      /\ assoc[n] \in Associations /\ assoc[p] \in Associations /\ sends[p] \in Nat
  BY <1>2 DEF TypeOK
<1>4. /\ assoc'[n] = b /\ assoc'[p] = assoc[p] /\ assoc' \in [Nodes -> Associations]
      /\ delivered'[n] = q /\ delivered'[p] = delivered[p]
      /\ delivered' \in [Nodes -> Seq(Envelopes)]
      /\ discarded'[n] = gone /\ discarded'[p] = discarded[p]
      /\ discarded' \in [Nodes -> SUBSET Nat]
  BY <1>1, <1>3
<1>5. TypeOK'
  BY <1>2, <1>4 DEF TypeOK, Wires
<1>6. Own(n)'
  <2>1. Sound(b, sends[n], Len(b.numbered))
    BY <1>2 DEF Own
  <2> QED
    BY <1>4, <2>1 DEF Own
<1>7. Own(p)'
  <2>1. WireOK(assoc[p], wire'[p])
    BY <1>1, <1>2 DEF Own, WireOK
  <2> QED
    BY <1>2, <1>4, <2>1 DEF Own
<1>8. System(n)' = Ids(OfKind(q, TRUE)) /\ System(p)' = System(p)
  BY <1>4 DEF System
<1>9. ASSUME Unreset' PROVE Channel(n)' /\ Channel(p)'
  <2>1. Unreset
    BY <1>1, <1>4, <1>9 DEF Unreset
  <2>2. Channel(n) /\ Channel(p)
    BY <1>2, <2>1
  <2>3. Channel(n)'
    <3>1. /\ Sound(b, sends[n], assoc[p].cumulative)
          /\ assoc[p].cumulative <= Len(b.numbered)
          /\ Received(System(p), discarded[p], b.numbered, assoc[p].cumulative)
      BY <1>1, <2>2 DEF Channel
    <3> QED
      BY <1>1, <1>4, <1>8, <3>1 DEF Channel
  <2>4. Channel(p)'
    <3>1. Sound(assoc[p], sends[p], assoc[n].cumulative)
      BY <1>1, <2>2 DEF Channel
    <3>2. assoc[n].cumulative \in Nat /\ b.cumulative \in Nat
      BY <1>3, Fields
    <3>3. PICK k \in Nat, c \in Nat, d \in Nat :
            k = sends[p] /\ c = assoc[n].cumulative /\ d = b.cumulative /\ d >= c
      BY <1>3, <3>2
    <3>4. Sound(assoc[p], k, d)
      BY <1>3, <3>1, <3>3, SoundMore
    <3>5. Sound(assoc[p], sends[p], b.cumulative)
      BY <3>3, <3>4
    <3> QED
      BY <1>1, <1>4, <1>8, <2>1, <3>5 DEF Channel
  <2> QED
    BY <2>3, <2>4
<1> QED
  BY <1>1, <1>5, <1>6, <1>7, <1>9 DEF IInv

\* What observing a number does.
LEMMA ObserveFacts ==
  ASSUME NEW a \in Associations, NEW seq \in Nat
  PROVE  LET b == Observe(a, seq)
         IN /\ b \in Associations
            /\ b.cumulative = (IF seq = a.cumulative + 1 THEN seq ELSE a.cumulative)
            /\ b.numbered = a.numbered /\ b.reset = a.reset /\ b.state = a.state
            /\ b.next = a.next /\ b.deferred = a.deferred /\ b.system = a.system
            /\ b.user = a.user /\ b.pending = a.pending
<1>1. PICK c \in Nat : c = IF seq = a.cumulative + 1 THEN seq ELSE a.cumulative
  BY Fields
<1>2. PICK h \in Nat : h = IF seq > a.highest THEN seq ELSE a.highest
  BY Fields
<1>3. PICK b : b = [a EXCEPT !.cumulative = c, !.highest = h]
  OBVIOUS
<1>4. Observe(a, seq) = b
  BY <1>1, <1>2, <1>3 DEF Observe, Accepts
<1>5. /\ b \in Associations /\ b.cumulative = c
      /\ b.numbered = a.numbered /\ b.reset = a.reset /\ b.state = a.state
      /\ b.next = a.next /\ b.deferred = a.deferred /\ b.system = a.system
      /\ b.user = a.user /\ b.pending = a.pending
  BY <1>3 DEF Associations
<1> QED
  BY <1>1, <1>4, <1>5

\* An AckPdu never says more than was accepted.
LEMMA AckPduOK ==
  ASSUME NEW a \in Associations
  PROVE  AckPdu(a) \in Frames /\ FrameOK(a, AckPdu(a))
<1>1. ReceiveWindow \in Nat /\ a.cumulative \in Nat /\ a.highest \in Nat
  BY BoundsAssumption, Fields
<1>2. PICK c \in Nat, k \in Nat :
        /\ c = a.cumulative
        /\ k = IF a.highest > a.cumulative + ReceiveWindow
               THEN a.cumulative + ReceiveWindow ELSE a.highest
  BY <1>1
<1>3. AckPdu(a) = [t |-> "Ack", cumulative |-> c, nack |-> k]
  BY <1>2 DEF AckPdu
<1>4. [t |-> "Ack", cumulative |-> c, nack |-> k] \in Frames
  BY DEF Frames
<1>5. FrameOK(a, [t |-> "Ack", cumulative |-> c, nack |-> k])
  BY <1>2 DEF FrameOK
<1> QED
  BY <1>3, <1>4, <1>5

\* Frames stay right when more is accepted.
LEMMA WireAccepts ==
  ASSUME NEW a \in Associations, NEW b \in Associations, NEW w \in Wires, WireOK(a, w),
         b.numbered = a.numbered, b.reset = a.reset, b.cumulative >= a.cumulative
  PROVE  WireOK(b, w)
<1> SUFFICES ASSUME ~b.reset, NEW l \in Lanes, NEW f \in Range(w[l]) PROVE FrameOK(b, f)
  BY DEF WireOK
<1>1. FrameOK(a, f)
  BY DEF WireOK
<1>2. a.cumulative \in Nat /\ b.cumulative \in Nat
  BY Fields
<1>3. f \in Frames
  <2>1. w[l] \in Seq(Frames)
    BY DEF Wires
  <2> QED
    BY <2>1, RangeMember
<1>4. f.t = "Ack" => f.cumulative \in Nat
  BY <1>3 DEF Frames
<1>5. f.t = "Ack" => f.cumulative <= b.cumulative
  BY <1>1, <1>2, <1>4 DEF FrameOK
<1>6. f.t = "Envelope" /\ f.env.sys => Numbered(b, f.env)
  BY <1>1 DEF FrameOK, Numbered
<1> QED
  BY <1>5, <1>6 DEF FrameOK

\* What n has delivered and discarded once it has dealt with e.
Outcomes(n, e) ==
  {<<Append(delivered[n], e), discarded[n]>>, <<delivered[n], discarded[n] \cup {e.id}>>}

\* An envelope that is handed over, or not.
LEMMA HandOverFacts ==
  ASSUME IInv, NEW n \in Nodes, NEW e \in Envelopes,
         HandOver(n, e) \/ (Fault /\ Discards(n, e) /\ UNCHANGED delivered)
  PROVE  \E q \in Seq(Envelopes), gone \in SUBSET Nat :
           /\ <<q, gone>> \in Outcomes(n, e) /\ (Fault \/ NoFault)
           /\ delivered' = [delivered EXCEPT ![n] = q]
           /\ discarded' = [discarded EXCEPT ![n] = gone]
<1>1. /\ delivered \in [Nodes -> Seq(Envelopes)] /\ discarded \in [Nodes -> SUBSET Nat]
      /\ delivered[n] \in Seq(Envelopes) /\ discarded[n] \in SUBSET Nat
  BY DEF IInv, TypeOK
<1>2. e.id \in Nat
  BY EnvelopeFields
<1>3. CASE NoFault /\ delivered' = [delivered EXCEPT ![n] = Append(@, e)] /\ UNCHANGED discarded
  <2>1. PICK q \in Seq(Envelopes) : q = Append(delivered[n], e)
    BY <1>1, RangeAppend
  <2>2. delivered' = [delivered EXCEPT ![n] = q]
    BY <1>3, <2>1
  <2>3. discarded' = [discarded EXCEPT ![n] = discarded[n]]
    BY <1>1, <1>3
  <2> QED
    BY <1>1, <1>3, <2>1, <2>2, <2>3 DEF Outcomes
<1>4. CASE Fault /\ Discards(n, e) /\ UNCHANGED delivered
  <2>1. PICK gone \in SUBSET Nat : gone = discarded[n] \cup {e.id}
    BY <1>1, <1>2
  <2>2. discarded' = [discarded EXCEPT ![n] = gone]
    BY <1>4, <2>1 DEF Discards
  <2>3. delivered' = [delivered EXCEPT ![n] = delivered[n]]
    BY <1>1, <1>4
  <2> QED
    BY <1>1, <1>4, <2>1, <2>2, <2>3 DEF Outcomes
<1> QED
  BY <1>3, <1>4 DEF HandOver

\* More that was discarded.
LEMMA ReceivedWider ==
  ASSUME NEW x, NEW gone, NEW more, NEW s, NEW c, Received(x, gone, s, c), gone \subseteq more
  PROVE  Received(x, more, s, c)
  BY DEF Received

\* handle_inbound_envelope_pdu, of a user envelope.
LEMMA UserEnvelopeStep ==
  ASSUME IInv, NEW n \in Nodes, NEW l \in Lanes, wire[Peer(n)][l] # <<>>,
         NEW e \in Envelopes, ~e.sys, wire' = Taken(n, l), HandOver(n, e), LoopGoesOn,
         UNCHANGED <<assoc, timers, sends>>
  PROVE  IInv'
<1>1. PICK p \in Nodes : p = Peer(n) /\ Peer(p) = n
  BY PeerFacts
<1>2. /\ assoc[n] \in Associations /\ assoc \in [Nodes -> Associations]
      /\ delivered[n] \in Seq(Envelopes) /\ WireOK(assoc[n], wire[n])
  BY OwnFacts DEF IInv, TypeOK
<1>3. PICK q \in Seq(Envelopes), gone \in SUBSET Nat :
        /\ <<q, gone>> \in Outcomes(n, e) /\ (Fault \/ NoFault)
        /\ delivered' = [delivered EXCEPT ![n] = q]
        /\ discarded' = [discarded EXCEPT ![n] = gone]
  BY HandOverFacts
<1>4. Ids(OfKind(q, TRUE)) = System(n) /\ discarded[n] \subseteq gone
  <2>1. Ids(OfKind(Append(delivered[n], e), TRUE)) = Ids(OfKind(delivered[n], TRUE))
    BY <1>2, SystemAppend
  <2> QED
    BY <1>3, <2>1 DEF System, Outcomes
<1>5. assoc' = [assoc EXCEPT ![n] = assoc[n]]
  BY <1>2
<1>6. /\ wire' \in [Nodes -> Wires] /\ WireOK(assoc[n], wire'[n])
      /\ \A m \in Lanes : Range(wire'[Peer(n)][m]) \subseteq Range(wire[Peer(n)][m])
  BY <1>2, TakenFacts
<1>7. Unreset => /\ assoc[n].cumulative <= Len(assoc[Peer(n)].numbered)
                 /\ Received(Ids(OfKind(q, TRUE)), gone, assoc[Peer(n)].numbered,
                             assoc[n].cumulative)
  <2>1. Unreset => Channel(p)
    BY DEF IInv
  <2>2. Unreset => /\ assoc[n].cumulative <= Len(assoc[Peer(n)].numbered)
                   /\ Received(System(n), discarded[n], assoc[Peer(n)].numbered,
                               assoc[n].cumulative)
    BY <1>1, <2>1 DEF Channel
  <2> QED
    BY <1>4, <2>2, ReceivedWider
<1>8. assoc[n].cumulative >= assoc[n].cumulative
  BY <1>2, Fields
<1>9. faults' \in Nat /\ running' \subseteq Nodes
  BY <1>3, OwnFacts, FaultsCounted, LoopCounted
<1> QED
  BY <1>2, <1>3, <1>5, <1>6, <1>7, <1>8, <1>9, ReceiveStep

\* handle_inbound_envelope_pdu, of a system envelope: it is accepted when it has
\* the next number, which only the envelope of that number has.
LEMMA SystemEnvelopeStep ==
  ASSUME IInv, NEW n \in Nodes, NEW l \in Lanes, wire[Peer(n)][l] # <<>>,
         NEW e \in Envelopes, e.sys,
         ~assoc[Peer(n)].reset => Numbered(assoc[Peer(n)], e),
         Becomes(n, Observe(assoc[n], e.seq)),
         \/ wire' = Taken(n, l)
         \/ wire' = [Taken(n, l) EXCEPT ![n] = SendOrDrop(@, AckPdu(Observe(assoc[n], e.seq)))],
         NEW q \in Seq(Envelopes), NEW gone \in SUBSET Nat,
         delivered' = [delivered EXCEPT ![n] = q], discarded' = [discarded EXCEPT ![n] = gone],
         IF Accepts(assoc[n], e.seq) THEN <<q, gone>> \in Outcomes(n, e)
                                     ELSE q = delivered[n] /\ gone = discarded[n],
         UNCHANGED <<timers, sends>>, Fault \/ NoFault, LoopEnds(n) \/ LoopGoesOn
  PROVE  IInv'
<1>1. PICK p \in Nodes : p = Peer(n) /\ p # n /\ Peer(p) = n
  BY PeerFacts
<1>2. PICK a \in Associations : a = assoc[n] /\ WireOK(a, wire[n]) /\ a.cumulative \in Nat
  BY OwnFacts, Fields
<1>3. e.seq \in Nat
  BY EnvelopeFields
<1>4. PICK b : b = Observe(a, e.seq)
  OBVIOUS
<1>5. /\ b \in Associations
      /\ b.cumulative = (IF e.seq = a.cumulative + 1 THEN e.seq ELSE a.cumulative)
      /\ b.numbered = a.numbered /\ b.reset = a.reset /\ b.state = a.state
      /\ b.next = a.next /\ b.deferred = a.deferred /\ b.system = a.system
      /\ b.user = a.user /\ b.pending = a.pending
  BY <1>3, <1>4, ObserveFacts
<1>6. b.cumulative >= a.cumulative
  BY <1>2, <1>3, <1>5
<1>7. \A k, c : Sound(a, k, c) => Sound(b, k, c)
  BY <1>5, SameSound
<1>8. delivered[n] \in Seq(Envelopes)
  BY DEF IInv, TypeOK
<1>9. WireOK(b, wire[n]) /\ wire[n] \in Wires
  BY <1>2, <1>5, <1>6, OwnFacts, WireAccepts
<1>10. PICK v : v = SendOrDrop(wire[n], AckPdu(b))
  OBVIOUS
<1>11. v \in Wires /\ WireOK(b, v)
  BY <1>5, <1>9, <1>10, AckPduOK, SendOrDropOK
<1>12. /\ Taken(n, l) \in [Nodes -> Wires] /\ Taken(n, l)[n] = wire[n]
       /\ \A m \in Lanes : Range(Taken(n, l)[Peer(n)][m]) \subseteq Range(wire[Peer(n)][m])
  BY TakenFacts
<1>13. wire' = Taken(n, l) \/ wire' = [Taken(n, l) EXCEPT ![n] = v]
  BY <1>2, <1>4, <1>10, <1>12
<1>14. /\ wire' \in [Nodes -> Wires] /\ WireOK(b, wire'[n])
       /\ \A m \in Lanes : Range(wire'[Peer(n)][m]) \subseteq Range(wire[Peer(n)][m])
  BY <1>1, <1>9, <1>11, <1>12, <1>13
<1>15. assoc' = [assoc EXCEPT ![n] = b]
  BY <1>2, <1>4 DEF Becomes
<1>16. ASSUME Unreset
       PROVE  /\ b.cumulative <= Len(assoc[p].numbered)
              /\ Received(Ids(OfKind(q, TRUE)), gone, assoc[p].numbered, b.cumulative)
  <2>1. PICK s \in Seq(Nat) : s = assoc[p].numbered
    BY <1>1, OwnFacts, Fields
  <2>2. e.seq \in 1 .. Len(s) /\ s[e.seq] = e.id
    BY <1>1, <1>16, <2>1 DEF Unreset, Numbered
  <2>3. Channel(p) /\ ~assoc[p].reset
    BY <1>16 DEF IInv, Unreset
  <2>4. a.cumulative <= Len(s) /\ Received(System(n), discarded[n], s, a.cumulative)
    BY <1>1, <1>2, <2>1, <2>3 DEF Channel
  <2>5. Increasing(s)
    BY <2>1, <2>3 DEF Channel, Sound, OrderOK
  <2>6. CASE e.seq = a.cumulative + 1
    <3>1. PICK c \in Nat : c = a.cumulative
      BY <1>2
    <3>2. c + 1 <= Len(s) /\ b.cumulative = c + 1 /\ s[c + 1] = e.id
      BY <1>5, <2>2, <2>6, <3>1
    <3>3. Ids(OfKind(Append(delivered[n], e), TRUE)) = Append(System(n), e.id)
      BY <1>8, SystemAppend DEF System
    <3>4. <<q, gone>> \in Outcomes(n, e)
      BY <1>2, <2>6 DEF Accepts
    <3>5. /\ Received(Append(System(n), s[c + 1]), discarded[n], s, c + 1)
          /\ Received(System(n), discarded[n] \cup {s[c + 1]}, s, c + 1)
      BY <2>4, <2>5, <3>1, <3>2, ReceivedMore
    <3>6. Received(Ids(OfKind(q, TRUE)), gone, s, c + 1)
      BY <3>2, <3>3, <3>4, <3>5 DEF Outcomes, System
    <3> QED
      BY <2>1, <3>2, <3>6
  <2>7. CASE e.seq # a.cumulative + 1
    <3>1. b.cumulative = a.cumulative /\ Ids(OfKind(q, TRUE)) = System(n) /\ gone = discarded[n]
      BY <1>2, <1>5, <2>7 DEF System, Accepts
    <3> QED
      BY <2>1, <2>4, <3>1
  <2> QED
    BY <2>6, <2>7
<1>17. faults' \in Nat /\ running' \subseteq Nodes
  BY OwnFacts, FaultsCounted, LoopCounted
<1> QED
  BY <1>1, <1>2, <1>5, <1>6, <1>7, <1>14, <1>15, <1>16, <1>17, ReceiveStep

\* handle_inbound_envelope_pdu.
LEMMA EnvelopeStep ==
  ASSUME IInv, NEW n \in Nodes, NEW l \in Lanes, wire[Peer(n)][l] # <<>>,
         InboundEnvelope(n, l, Head(wire[Peer(n)][l]))
  PROVE  IInv'
<1>1. PICK f \in Frames : f = Head(wire[Peer(n)][l]) /\ f.t = "Envelope"
                         /\ (~assoc[Peer(n)].reset => FrameOK(assoc[Peer(n)], f))
  BY TakenFacts DEF InboundEnvelope
<1>2. PICK e \in Envelopes : e = f.env
  BY <1>1 DEF Frames
<1>3. UNCHANGED <<timers, sends>>
  BY DEF InboundEnvelope
<1> DEFINE seen == Observe(assoc[n], e.seq)
           accepts == Accepts(assoc[n], e.seq)
<1>4. CASE /\ wire' = Taken(n, l) /\ UNCHANGED <<assoc, delivered, discarded>>
           /\ Fault \/ NoFault
           /\ LoopEnds(n) \/ LoopGoesOn
  BY <1>3, <1>4, TakenStep
<1>5. CASE /\ e.sys /\ Becomes(n, seen)
           /\ \/ wire' = Taken(n, l)
              \/ wire' = [Taken(n, l) EXCEPT ![n] = SendOrDrop(@, AckPdu(seen))]
           /\ LoopEnds(n) \/ LoopGoesOn
           /\ \/ accepts /\ (HandOver(n, e) \/ (Fault /\ Discards(n, e) /\ UNCHANGED delivered))
              \/ ~accepts /\ (Fault \/ NoFault) /\ UNCHANGED <<delivered, discarded>>
  <2>1. ~assoc[Peer(n)].reset => Numbered(assoc[Peer(n)], e)
    BY <1>1, <1>2, <1>5 DEF FrameOK
  <2>2. PICK q \in Seq(Envelopes), gone \in SUBSET Nat :
          /\ IF accepts THEN <<q, gone>> \in Outcomes(n, e)
             ELSE q = delivered[n] /\ gone = discarded[n]
          /\ Fault \/ NoFault
          /\ delivered' = [delivered EXCEPT ![n] = q]
          /\ discarded' = [discarded EXCEPT ![n] = gone]
    <3>1. CASE accepts
      <4>1. HandOver(n, e) \/ (Fault /\ Discards(n, e) /\ UNCHANGED delivered)
        BY <1>5, <3>1
      <4>2. PICK q \in Seq(Envelopes), gone \in SUBSET Nat :
              /\ <<q, gone>> \in Outcomes(n, e) /\ (Fault \/ NoFault)
              /\ delivered' = [delivered EXCEPT ![n] = q]
              /\ discarded' = [discarded EXCEPT ![n] = gone]
        BY <4>1, HandOverFacts
      <4> QED
        BY <3>1, <4>2
    <3>2. CASE ~accepts
      <4>1. /\ delivered \in [Nodes -> Seq(Envelopes)] /\ discarded \in [Nodes -> SUBSET Nat]
            /\ delivered[n] \in Seq(Envelopes) /\ discarded[n] \in SUBSET Nat
        BY DEF IInv, TypeOK
      <4>2. /\ delivered' = [delivered EXCEPT ![n] = delivered[n]]
            /\ discarded' = [discarded EXCEPT ![n] = discarded[n]]
        BY <1>5, <3>2, <4>1
      <4> QED
        BY <1>5, <3>2, <4>1, <4>2
    <3> QED
      BY <3>1, <3>2
  <2> QED
    BY <1>3, <1>5, <2>1, <2>2, SystemEnvelopeStep
<1>6. CASE /\ ~e.sys /\ wire' = Taken(n, l) /\ UNCHANGED assoc
           /\ HandOver(n, e) /\ LoopGoesOn
  BY <1>3, <1>6, UserEnvelopeStep
<1> QED
  BY <1>1, <1>2, <1>4, <1>5, <1>6 DEF InboundEnvelope

-----------------------------------------------------------------------------
(* The theorems                                                            *)

\* The invariant holds at first.
LEMMA InitIInv == Init => IInv
<1> SUFFICES ASSUME Init PROVE IInv
  OBVIOUS
<1>1. PICK a : a = NewAssociation
  OBVIOUS
<1>2. <<>> \in Seq(Envelopes) /\ <<>> \in Seq(Entries) /\ <<>> \in Seq(Nat)
  OBVIOUS
<1>3. a \in Associations
  BY <1>1, <1>2 DEF NewAssociation, Associations
<1>4. /\ a.state = "Idle" /\ a.system = <<>> /\ a.user = <<>> /\ a.deferred = <<>>
      /\ a.pending = <<>> /\ a.next = 1 /\ a.cumulative = 0 /\ a.numbered = <<>>
      /\ a.reset = FALSE
  BY <1>1 DEF NewAssociation
<1>5. PICK w : w = [l \in Lanes |-> <<>>]
  OBVIOUS
<1>6. w \in Wires /\ WireOK(a, w)
  BY <1>5, EmptyWire
<1>7. /\ assoc = [n \in Nodes |-> a] /\ wire = [n \in Nodes |-> w]
      /\ delivered = [n \in Nodes |-> <<>>] /\ sends = [n \in Nodes |-> 0]
      /\ timers = [n \in Nodes |-> {}] /\ faults = 0
      /\ discarded = [n \in Nodes |-> {}] /\ running = Nodes
  BY <1>1, <1>5 DEF Init
<1>8. TypeOK
  BY <1>2, <1>3, <1>6, <1>7 DEF TypeOK, Wires
<1>9. Range(<<>>) = {} /\ Len(<<>>) = 0
  BY DEF Range
<1>10. Sound(a, 0, 0)
  <2>1. QueuesOK(a)
    BY <1>4, <1>9 DEF QueuesOK
  <2>2. WindowOK(a, 0)
    BY <1>4, <1>9 DEF WindowOK
  <2>3. OrderOK(a, 0)
    BY <1>4, <1>9 DEF OrderOK, Increasing
  <2> QED
    BY <2>1, <2>2, <2>3 DEF Sound
<1>11. ASSUME NEW n \in Nodes PROVE Own(n) /\ Channel(n)
  <2>1. assoc[n] = a /\ assoc[Peer(n)] = a /\ sends[n] = 0 /\ wire[n] = w
    BY <1>7, PeerFacts
  <2>2. Own(n)
    BY <1>4, <1>6, <1>9, <1>10, <2>1 DEF Own
  <2>3. System(Peer(n)) = <<>>
    <3>1. delivered[Peer(n)] = <<>>
      BY <1>7, PeerFacts
    <3>2. OfKind(<<>>, TRUE) = <<>>
      BY OnlyEmpty DEF OfKind
    <3>3. Ids(<<>>) = <<>>
      BY DEF Ids
    <3> QED
      BY <3>1, <3>2, <3>3 DEF System
  <2>4. Received(<<>>, discarded[Peer(n)], <<>>, 0)
    BY <1>2, <1>9 DEF Received, Increasing
  <2> QED
    BY <1>4, <1>9, <1>10, <2>1, <2>2, <2>3, <2>4 DEF Channel
<1> QED
  BY <1>8, <1>11 DEF IInv

\* Every step keeps the invariant.
LEMMA NextIInv ==
  ASSUME IInv, [Next]_vars
  PROVE  IInv'
<1>1. CASE UNCHANGED vars
  <2>1. PICK n \in Nodes : TRUE
    BY NodesAssumption
  <2>2. UNCHANGED <<assoc, timers, wire, delivered, discarded, sends, running, faults>>
    BY <1>1 DEF vars
  <2> QED
    BY <2>2, OwnFacts, ShrinkStep
<1>2. CASE Next
  <2>1. PICK n \in Nodes :
          \/ OutboundEnqueued(n) \/ OutboundControlFails(n)
          \/ \E l \in Lanes : InboundFrameReceived(n, l)
          \/ HandshakeTimerFired(n) \/ RedeliveryTick(n)
          \/ ConnectionLost(n) \/ InboundShutdown(n) \/ QuarantinePeer(n) \/ Lose(n)
    BY <1>2 DEF Next
  <2>2. CASE OutboundEnqueued(n)
    BY <2>2, OutboundEnqueuedStep
  <2>3. CASE \E l \in Lanes : InboundFrameReceived(n, l)
    <3>1. PICK l \in Lanes : InboundFrameReceived(n, l)
      BY <2>3
    <3>2. wire[Peer(n)][l] # <<>>
      BY <3>1 DEF InboundFrameReceived
    <3>3. CASE InboundEnvelope(n, l, Head(wire[Peer(n)][l]))
      BY <3>2, <3>3, EnvelopeStep
    <3>4. CASE InboundAck(n, l, Head(wire[Peer(n)][l]))
      BY <3>2, <3>4, AckStep
    <3>5. CASE InboundHandshakeRequest(n, l, Head(wire[Peer(n)][l]))
      BY <3>2, <3>5, RequestStep
    <3>6. CASE InboundHandshakeResponse(n, l, Head(wire[Peer(n)][l]))
      BY <3>2, <3>6, ResponseStep
    <3> QED
      BY <3>1, <3>3, <3>4, <3>5, <3>6 DEF InboundFrameReceived
  <2>4. CASE HandshakeTimerFired(n)
    BY <2>4, HandshakeTimerStep
  <2>5. CASE RedeliveryTick(n)
    BY <2>5, RedeliveryStep
  <2>6. CASE ConnectionLost(n)
    BY <2>6, ConnectionLostStep
  <2>7. CASE InboundShutdown(n)
    BY <2>7, InboundShutdownStep
  <2>8. CASE QuarantinePeer(n)
    BY <2>8, QuarantinePeerStep
  <2>9. CASE Lose(n)
    BY <2>9, LoseStep
  <2>10. CASE OutboundControlFails(n)
    <3>1. faults' \in Nat /\ running' \subseteq Nodes
      BY <2>10, OwnFacts, FaultsCounted, LoopCounted DEF OutboundControlFails
    <3>2. UNCHANGED <<assoc, timers, wire, delivered, discarded, sends>>
      BY <2>10 DEF OutboundControlFails
    <3> QED
      BY <3>1, <3>2, OwnFacts, ShrinkStep
  <2> QED
    BY <2>1, <2>2, <2>3, <2>4, <2>5, <2>6, <2>7, <2>8, <2>9, <2>10
<1> QED
  BY <1>1, <1>2

\* What was delivered is in order, and what comes before it was handled.
LEMMA IInvInOrderOnce == IInv => InOrderOnce
<1> SUFFICES ASSUME IInv, Unreset, NEW n \in Nodes
             PROVE  LET numbered == assoc[Peer(n)].numbered
                    IN /\ Increasing(System(n))
                       /\ \A i, k \in DOMAIN numbered :
                            i < k /\ numbered[k] \in Range(System(n)) => Handled(n, numbered[i])
  BY DEF InOrderOnce
<1>1. PICK p \in Nodes : p = Peer(n) /\ Peer(p) = n
  BY PeerFacts
<1>2. PICK s \in Seq(Nat), c \in Nat : s = assoc[p].numbered /\ c = assoc[n].cumulative
  BY <1>1, OwnFacts, Fields
<1>3. Channel(p) /\ ~assoc[p].reset
  BY DEF IInv, Unreset
<1>4. c <= Len(s) /\ Received(System(n), discarded[n], s, c) /\ Increasing(s)
  BY <1>1, <1>2, <1>3 DEF Channel, Sound, OrderOK
<1>5. ASSUME NEW i \in DOMAIN s, NEW k \in DOMAIN s, i < k, s[k] \in Range(System(n))
      PROVE  Handled(n, s[i])
  <2>1. PICK j \in 1 .. c : s[j] = s[k]
    BY <1>4, <1>5 DEF Received
  <2>2. j \in DOMAIN s /\ DOMAIN s = 1 .. Len(s)
    BY <1>4
  <2>3. j = k
    <3>1. s[j] \in Nat /\ s[k] \in Nat
      BY <2>2
    <3>2. ~(j < k) /\ ~(k < j)
      BY <1>4, <2>1, <2>2, <3>1 DEF Increasing
    <3> QED
      BY <2>2, <3>2
  <2>4. i \in 1 .. c
    BY <1>5, <2>2, <2>3
  <2> QED
    BY <1>4, <2>4 DEF Received, Handled
<1>6. Increasing(System(n))
  BY <1>4 DEF Received
<1> QED
  BY <1>1, <1>2, <1>5, <1>6

\* What was numbered waits for its acknowledgement or was handled.
LEMMA IInvAcked == IInv => AckedWasHandled
<1> SUFFICES ASSUME IInv, Unreset, NEW n \in Nodes, NEW id \in Range(assoc[n].numbered)
             PROVE  \/ \E x \in Range(assoc[n].pending) : x.env.id = id
                    \/ Handled(Peer(n), id)
  BY DEF AckedWasHandled
<1>1. PICK s \in Seq(Nat), c \in Nat : s = assoc[n].numbered /\ c = assoc[Peer(n)].cumulative
  BY OwnFacts, Fields
<1>2. Channel(n) /\ ~assoc[n].reset
  BY DEF IInv, Unreset
<1>3. PICK i \in 1 .. Len(s) : s[i] = id
  BY <1>1, RangeMember
<1>4. /\ c <= Len(s) /\ WindowOK(assoc[n], c)
      /\ Received(System(Peer(n)), discarded[Peer(n)], s, c)
  BY <1>1, <1>2 DEF Channel, Sound
<1>5. CASE i <= c
  <2>1. i \in 1 .. c
    BY <1>5
  <2> QED
    BY <1>3, <1>4, <2>1 DEF Received, Handled
<1>6. CASE i > c
  <2>1. i \in (c + 1) .. Len(s)
    BY <1>6
  <2>2. PICK x \in Range(assoc[n].pending) : x.seq = i
    BY <1>1, <1>4, <2>1 DEF WindowOK
  <2>3. x.seq = x.env.seq /\ Numbered(assoc[n], x.env)
    BY <1>4, <2>2 DEF WindowOK
  <2>4. x.env.id = id
    BY <1>1, <1>3, <2>2, <2>3 DEF Numbered
  <2> QED
    BY <2>2, <2>4
<1> QED
  BY <1>5, <1>6

\* The inductive invariant holds in every reachable state: what each side has
\* queued, keeps in its window and has on the wire agrees with the numbers it
\* gave, and what its peer has delivered and discarded of it with what the peer
\* accepted.
THEOREM Invariant == Spec => []IInv
<1>1. IInv /\ [Next]_vars => IInv'
  BY NextIInv
<1> QED
  BY <1>1, InitIInv, PTL DEF Spec

\* Type correctness of two associations and the connections between them.
THEOREM TypeCorrect == Spec => []TypeOK
<1>1. IInv => TypeOK
  BY DEF IInv
<1> QED
  BY <1>1, Invariant, PTL

\* System envelopes are delivered in the order in which they were numbered and
\* sent, each once, whatever is lost, delayed, reordered or sent again
\* (mark_received), and none before every earlier one was delivered, or dropped by
\* the receiver after it had taken it, unless a side resets its redelivery state.
THEOREM DeliversInOrderOnce == Spec => []InOrderOnce
  BY Invariant, IInvInOrderOnce, PTL

\* An envelope leaves the redelivery window only after its receiver has taken it,
\* to deliver or to drop it (apply_ack), under the same condition.
THEOREM AcksWhatWasHandled == Spec => []AckedWasHandled
  BY Invariant, IInvAcked, PTL

-----------------------------------------------------------------------------
(* The persistent actor                                                    *)

CONSTANTS Scripts, StashCapacity, Overflow, Directives, RetryMax,
          MaxCommands, MaxErrors, MaxRestarts, MaxTicks

VARIABLES run, mailbox, stash, ops, answers, store, sent, errors, restarts, ticks,
          written, handled, lost, marks

P == INSTANCE Persistence WITH wire <- answers

\* Entries of the pending and batched handlers; the data is of any type.
Waiting(V) == [id : Nat, nr : V, fence : BOOLEAN, deferred : BOOLEAN]

\* A persistent actor, with data of any type.
Actors(V) ==
  [instance : V, state : V, pending : Seq(Waiting(V)), until : V, batch : Seq(Waiting(V)),
   current : V, last : V, applied : V, saved : V, epoch : V, timer : V,
   calls : Nat, ran : Seq(Nat), sends : V, failed : V, refusing : V]

\* The handlers of q were called in order, after call x and up to call y.
Rising(q, x, y) ==
  /\ \A i \in 1 .. Len(q) : x < q[i].id /\ q[i].id <= y
  /\ \A i, j \in 1 .. Len(q) : i < j => q[i].id < q[j].id

\* The handlers that have run, those that wait for the journal and those that
\* wait to be flushed were called in this order.
Parts(a, x, y) ==
  /\ x <= y /\ y <= a.calls
  /\ Increasing(a.ran) /\ \A i \in 1 .. Len(a.ran) : a.ran[i] <= x
  /\ Rising(a.pending, x, y) /\ Rising(a.batch, y, a.calls)

InLine(a) == (\E V : a \in Actors(V)) /\ \E x, y \in Nat : Parts(a, x, y)

\* A fresh instance has no handler that waits.
LEMMA NewInLine ==
  ASSUME NEW i, NEW calls \in Nat, NEW ran \in Seq(Nat),
         Increasing(ran), \A k \in 1 .. Len(ran) : ran[k] <= calls
  PROVE  InLine(P!NewActor(i, calls, ran))
<1>1. PICK a : a = P!NewActor(i, calls, ran)
  OBVIOUS
<1>2. PICK V : V = {i, "RecoveryStarted", FALSE, 0, <<>>, 1, [waitingSnapshot |-> TRUE, epoch |-> 1]}
  OBVIOUS
<1>3. <<>> \in Seq(Waiting(V))
  OBVIOUS
<1>4. a \in Actors(V)
  BY <1>1, <1>2, <1>3 DEF P!NewActor, Actors
<1>5. /\ a.pending = <<>> /\ a.batch = <<>> /\ a.calls = calls /\ a.ran = ran
  BY <1>1 DEF P!NewActor
<1>6. Parts(a, calls, calls)
  BY <1>5 DEF Parts, Rising
<1> QED
  BY <1>1, <1>4, <1>6 DEF InLine

\* What a larger set of data allows.
LEMMA MoreData ==
  ASSUME NEW V, NEW W, V \subseteq W
  PROVE  Waiting(V) \subseteq Waiting(W) /\ Actors(V) \subseteq Actors(W)
<1>1. Waiting(V) \subseteq Waiting(W)
  BY DEF Waiting
<1>2. Seq(Waiting(V)) \subseteq Seq(Waiting(W))
  <2>1. PICK A, B : A = Waiting(V) /\ B = Waiting(W)
    OBVIOUS
  <2>2. \A q \in Seq(A) : q \in Seq(B)
    BY <1>1, <2>1
  <2> QED
    BY <2>1, <2>2
<1> QED
  BY <1>1, <1>2 DEF Actors

\* b has the handlers of a, and is an actor.
SameHandlers(a, b) ==
  /\ \E V : b \in Actors(V)
  /\ b.calls = a.calls /\ b.ran = a.ran /\ b.pending = a.pending /\ b.batch = a.batch

\* It has them in the same order.
LEMMA SameInLine ==
  ASSUME NEW a, NEW b, InLine(a), SameHandlers(a, b)
  PROVE  InLine(b)
<1>1. PICK x \in Nat, y \in Nat : Parts(a, x, y)
  BY DEF InLine
<1>2. Parts(b, x, y)
  BY <1>1 DEF Parts, SameHandlers
<1> QED
  BY <1>2 DEF InLine, SameHandlers

\* Every call has a number.
LEMMA WaitingIds ==
  ASSUME NEW V, NEW q \in Seq(Waiting(V))
  PROVE  \A i \in 1 .. Len(q) : q[i].id \in Nat
<1>1. \A e \in Waiting(V) : e.id \in Nat
  BY DEF Waiting
<1> QED
  BY <1>1

\* The bounds of a line may be wider.
LEMMA RisingMore ==
  ASSUME NEW V, NEW q \in Seq(Waiting(V)), NEW x \in Nat, NEW y \in Nat, NEW z \in Nat,
         Rising(q, x, y), y <= z
  PROVE  Rising(q, x, z)
<1>1. \A i \in 1 .. Len(q) : q[i].id \in Nat
  BY WaitingIds
<1> QED
  BY <1>1 DEF Rising

\* Appending a later call to those that have run.
LEMMA IncreasingAppend ==
  ASSUME NEW q \in Seq(Nat), NEW x \in Nat, NEW c \in Nat, x < c,
         Increasing(q), \A i \in 1 .. Len(q) : q[i] <= x
  PROVE  /\ Append(q, c) \in Seq(Nat) /\ Increasing(Append(q, c))
         /\ \A i \in 1 .. Len(Append(q, c)) : Append(q, c)[i] <= c
<1>1. \A i \in 1 .. Len(q) : q[i] < c
  OBVIOUS
<1> QED
  BY <1>1, IncreasingAbove

\* Appending the calls of a line that comes after x.
LEMMA IncreasingConcat ==
  ASSUME NEW p \in Seq(Nat), NEW q \in Seq(Nat), NEW x \in Nat, NEW z \in Nat, x <= z,
         Increasing(p), \A i \in 1 .. Len(p) : p[i] <= x,
         Increasing(q), \A i \in 1 .. Len(q) : x < q[i] /\ q[i] <= z
  PROVE  /\ p \o q \in Seq(Nat) /\ Increasing(p \o q)
         /\ \A i \in 1 .. Len(p \o q) : (p \o q)[i] <= z
<1>1. PICK r : r = p \o q
  OBVIOUS
<1>2. /\ r \in Seq(Nat) /\ Len(r) = Len(p) + Len(q) /\ Len(p) \in Nat /\ Len(q) \in Nat
      /\ DOMAIN r = 1 .. Len(r)
      /\ \A i \in 1 .. Len(p) : r[i] = p[i] /\ p[i] \in Nat
      /\ \A i \in 1 .. Len(q) : r[Len(p) + i] = q[i] /\ q[i] \in Nat
  BY <1>1
<1>3. ASSUME NEW i \in 1 .. Len(r)
      PROVE  \/ i \in 1 .. Len(p)
             \/ i > Len(p) /\ i - Len(p) \in 1 .. Len(q) /\ r[i] = q[i - Len(p)]
  <2> SUFFICES ASSUME i > Len(p)
               PROVE  i - Len(p) \in 1 .. Len(q) /\ r[i] = q[i - Len(p)]
    BY <1>2
  <2>1. i - Len(p) \in 1 .. Len(q) /\ Len(p) + (i - Len(p)) = i
    BY <1>2
  <2> QED
    BY <1>2, <2>1
<1>4. ASSUME NEW i \in 1 .. Len(r) PROVE r[i] <= z
  <2>1. CASE i \in 1 .. Len(p)
    <3>1. r[i] \in Nat /\ r[i] <= x
      BY <1>2, <2>1
    <3> QED
      BY <3>1
  <2>2. CASE i - Len(p) \in 1 .. Len(q) /\ r[i] = q[i - Len(p)]
    BY <1>2, <2>2
  <2> QED
    BY <1>3, <2>1, <2>2
<1>5. ASSUME NEW i \in DOMAIN r, NEW j \in DOMAIN r, i < j PROVE r[i] < r[j]
  <2>1. CASE j \in 1 .. Len(p)
    <3>1. i \in 1 .. Len(p)
      BY <1>2, <1>5, <2>1
    <3>2. p[i] < p[j]
      BY <1>5, <2>1, <3>1 DEF Increasing
    <3> QED
      BY <1>2, <2>1, <3>1, <3>2
  <2>2. CASE j > Len(p) /\ j - Len(p) \in 1 .. Len(q) /\ r[j] = q[j - Len(p)]
    <3>1. CASE i \in 1 .. Len(p)
      <4>1. r[i] \in Nat /\ r[i] <= x
        BY <1>2, <3>1
      <4>2. r[j] \in Nat /\ x < r[j]
        BY <1>2, <2>2
      <4> QED
        BY <4>1, <4>2
    <3>2. CASE i > Len(p) /\ i - Len(p) \in 1 .. Len(q) /\ r[i] = q[i - Len(p)]
      <4>1. i - Len(p) < j - Len(p)
        BY <1>2, <1>5
      <4>2. i - Len(p) \in DOMAIN q /\ j - Len(p) \in DOMAIN q
        BY <2>2, <3>2
      <4> QED
        BY <2>2, <3>2, <4>1, <4>2 DEF Increasing
    <3> QED
      BY <1>2, <1>3, <3>1, <3>2
  <2> QED
    BY <1>2, <1>3, <2>1, <2>2
<1> QED
  BY <1>1, <1>2, <1>4, <1>5 DEF Increasing

\* Appending a later call.
LEMMA RisingAppend ==
  ASSUME NEW V, NEW q \in Seq(Waiting(V)), NEW e \in Waiting(V), NEW x \in Nat, NEW y \in Nat,
         NEW c \in Nat, Rising(q, x, y), e.id = c, x <= y, y < c
  PROVE  Append(q, e) \in Seq(Waiting(V)) /\ Rising(Append(q, e), x, c)
<1>1. PICK r : r = Append(q, e)
  OBVIOUS
<1>2. /\ r \in Seq(Waiting(V)) /\ Len(r) = Len(q) + 1 /\ Len(q) \in Nat
      /\ \A i \in 1 .. Len(q) : r[i] = q[i]
      /\ r[Len(q) + 1] = e
  BY <1>1
<1>3. \A i \in 1 .. Len(q) : q[i].id \in Nat
  BY WaitingIds
<1>4. \A i \in 1 .. Len(r) : i \in 1 .. Len(q) \/ i = Len(q) + 1
  BY <1>2
<1>5. \A i \in 1 .. Len(r) : x < r[i].id /\ r[i].id <= c
  BY <1>2, <1>3, <1>4 DEF Rising
<1>6. ASSUME NEW i \in 1 .. Len(r), NEW j \in 1 .. Len(r), i < j PROVE r[i].id < r[j].id
  <2>1. i \in 1 .. Len(q)
    BY <1>2, <1>6
  <2>2. CASE j \in 1 .. Len(q)
    BY <1>2, <1>6, <2>1, <2>2 DEF Rising
  <2>3. CASE j = Len(q) + 1
    BY <1>2, <1>3, <2>1, <2>3 DEF Rising
  <2> QED
    BY <1>4, <2>2, <2>3
<1>7. Rising(r, x, c)
  BY <1>5, <1>6 DEF Rising
<1> QED
  BY <1>1, <1>2, <1>7

\* Joining what was called before and after y.
LEMMA RisingConcat ==
  ASSUME NEW V, NEW p \in Seq(Waiting(V)), NEW q \in Seq(Waiting(V)),
         NEW x \in Nat, NEW y \in Nat, NEW z \in Nat, x <= y, y <= z,
         Rising(p, x, y), Rising(q, y, z)
  PROVE  p \o q \in Seq(Waiting(V)) /\ Rising(p \o q, x, z)
<1>1. PICK r : r = p \o q
  OBVIOUS
<1>2. /\ r \in Seq(Waiting(V)) /\ Len(r) = Len(p) + Len(q) /\ Len(p) \in Nat /\ Len(q) \in Nat
      /\ \A i \in 1 .. Len(p) : r[i] = p[i]
      /\ \A i \in 1 .. Len(q) : r[Len(p) + i] = q[i]
  BY <1>1
<1>3. /\ \A i \in 1 .. Len(p) : p[i].id \in Nat
      /\ \A i \in 1 .. Len(q) : q[i].id \in Nat
  BY WaitingIds
<1>4. ASSUME NEW i \in 1 .. Len(r)
      PROVE  \/ i \in 1 .. Len(p)
             \/ i > Len(p) /\ i - Len(p) \in 1 .. Len(q) /\ r[i] = q[i - Len(p)]
  <2> SUFFICES ASSUME i > Len(p)
               PROVE  i - Len(p) \in 1 .. Len(q) /\ r[i] = q[i - Len(p)]
    BY <1>2
  <2>1. i - Len(p) \in 1 .. Len(q) /\ Len(p) + (i - Len(p)) = i
    BY <1>2
  <2> QED
    BY <1>2, <2>1
<1>5. ASSUME NEW i \in 1 .. Len(r) PROVE x < r[i].id /\ r[i].id <= z
  <2>1. CASE i \in 1 .. Len(p)
    BY <1>2, <1>3, <2>1 DEF Rising
  <2>2. CASE i - Len(p) \in 1 .. Len(q) /\ r[i] = q[i - Len(p)]
    BY <1>3, <2>2 DEF Rising
  <2> QED
    BY <1>4, <2>1, <2>2
<1>6. ASSUME NEW i \in 1 .. Len(r), NEW j \in 1 .. Len(r), i < j PROVE r[i].id < r[j].id
  <2>1. CASE j \in 1 .. Len(p)
    <3>1. i \in 1 .. Len(p)
      BY <1>2, <1>6, <2>1
    <3> QED
      BY <1>2, <1>6, <2>1, <3>1 DEF Rising
  <2>2. CASE j > Len(p) /\ j - Len(p) \in 1 .. Len(q) /\ r[j] = q[j - Len(p)]
    <3>1. CASE i \in 1 .. Len(p)
      <4>1. r[i].id \in Nat /\ r[i].id <= y
        BY <1>2, <1>3, <3>1 DEF Rising
      <4>2. r[j].id \in Nat /\ y < r[j].id
        BY <1>3, <2>2 DEF Rising
      <4> QED
        BY <4>1, <4>2
    <3>2. CASE i > Len(p) /\ i - Len(p) \in 1 .. Len(q) /\ r[i] = q[i - Len(p)]
      <4>1. i - Len(p) < j - Len(p)
        BY <1>2, <1>6
      <4> QED
        BY <2>2, <3>2, <4>1 DEF Rising
    <3> QED
      BY <1>4, <3>1, <3>2
  <2> QED
    BY <1>4, <2>1, <2>2
<1>7. Rising(r, x, z)
  BY <1>5, <1>6 DEF Rising
<1> QED
  BY <1>1, <1>2, <1>7

\* Nothing waits in any order.
LEMMA RisingEmpty ==
  ASSUME NEW V, NEW x, NEW y
  PROVE  <<>> \in Seq(Waiting(V)) /\ Rising(<<>>, x, y)
  BY DEF Rising

-----------------------------------------------------------------------------
(* What the calls of a command handler and the answers do to the line      *)

\* The data of an actor, and other data.
LEMMA LineData ==
  ASSUME NEW a, InLine(a), NEW S
  PROVE  \E V : S \subseteq V /\ a \in Actors(V)
<1>1. PICK V : a \in Actors(V)
  BY DEF InLine
<1>2. PICK W : W = V \cup S
  OBVIOUS
<1>3. V \subseteq W /\ S \subseteq W
  BY <1>2
<1>4. a \in Actors(W)
  BY <1>1, <1>3, MoreData
<1> QED
  BY <1>3, <1>4

\* The fields that the line is about.
LEMMA ActorFacts ==
  ASSUME NEW V, NEW a \in Actors(V)
  PROVE  /\ a.calls \in Nat /\ a.ran \in Seq(Nat)
         /\ a.pending \in Seq(Waiting(V)) /\ a.batch \in Seq(Waiting(V))
  BY DEF Actors

\* add_to_event_batch.
LEMMA BatchInLine ==
  ASSUME NEW a, InLine(a), NEW fence \in BOOLEAN
  PROVE  InLine(P!AddToEventBatch(a, fence))
<1>1. PICK n : n = a.current + 1
  OBVIOUS
<1>2. PICK V : {n} \subseteq V /\ a \in Actors(V)
  BY LineData
<1>3. PICK x \in Nat, y \in Nat : Parts(a, x, y)
  BY DEF InLine
<1>4. a.calls \in Nat /\ a.batch \in Seq(Waiting(V))
  BY <1>2, ActorFacts
<1>5. PICK e : e = [id |-> a.calls + 1, nr |-> n, fence |-> fence, deferred |-> FALSE]
  OBVIOUS
<1>6. e \in Waiting(V) /\ e.id = a.calls + 1
  BY <1>2, <1>4, <1>5 DEF Waiting
<1>7. PICK c \in Nat : c = a.calls + 1
  BY <1>4
<1>8. PICK q : q = Append(a.batch, e)
  OBVIOUS
<1>9. y <= a.calls /\ Rising(a.batch, y, a.calls)
  BY <1>3 DEF Parts
<1>10. q \in Seq(Waiting(V)) /\ Rising(q, y, c)
  BY <1>4, <1>6, <1>7, <1>8, <1>9, RisingAppend
<1>11. PICK b : b = [a EXCEPT !.current = n, !.calls = c, !.batch = q]
  OBVIOUS
<1>12. P!AddToEventBatch(a, fence) = b
  BY <1>1, <1>5, <1>7, <1>8, <1>11 DEF P!AddToEventBatch
<1>13. /\ b \in Actors(V) /\ b.calls = c /\ b.batch = q /\ b.ran = a.ran
       /\ b.pending = a.pending
  BY <1>2, <1>10, <1>11 DEF Actors
<1>14. y <= c
  BY <1>4, <1>7, <1>9
<1>15. Parts(b, x, y)
  BY <1>3, <1>10, <1>13, <1>14 DEF Parts
<1> QED
  BY <1>12, <1>13, <1>15 DEF InLine

\* add_deferred_handler: behind the batch, or behind what waits.
LEMMA DeferredInLine ==
  ASSUME NEW a, InLine(a), NEW fence \in BOOLEAN
  PROVE  InLine(P!AddDeferredHandler(a, fence))
<1>1. PICK n : n = a.current
  OBVIOUS
<1>2. PICK V : {n} \subseteq V /\ a \in Actors(V)
  BY LineData
<1>3. PICK x \in Nat, y \in Nat : Parts(a, x, y)
  BY DEF InLine
<1>4. a.calls \in Nat /\ a.batch \in Seq(Waiting(V)) /\ a.pending \in Seq(Waiting(V))
  BY <1>2, ActorFacts
<1>5. PICK e : e = [id |-> a.calls + 1, nr |-> n, fence |-> fence, deferred |-> TRUE]
  OBVIOUS
<1>6. e \in Waiting(V) /\ e.id = a.calls + 1
  BY <1>2, <1>4, <1>5 DEF Waiting
<1>7. PICK c \in Nat : c = a.calls + 1
  BY <1>4
<1>8. x <= y /\ y <= a.calls /\ Rising(a.batch, y, a.calls) /\ Rising(a.pending, x, y)
  BY <1>3 DEF Parts
<1>9. CASE a.batch = <<>>
  <2>1. PICK q : q = Append(a.pending, e)
    OBVIOUS
  <2>2. Rising(a.pending, x, a.calls) /\ x <= a.calls
    <3>1. x <= a.calls
      BY <1>4, <1>8
    <3>2. Rising(a.pending, x, a.calls)
      BY <1>4, <1>8, RisingMore
    <3> QED
      BY <3>1, <3>2
  <2>3. q \in Seq(Waiting(V)) /\ Rising(q, x, c)
    BY <1>4, <1>6, <1>7, <2>1, <2>2, RisingAppend
  <2>4. PICK b : b = [a EXCEPT !.calls = c, !.pending = q]
    OBVIOUS
  <2>5. P!AddDeferredHandler(a, fence) = b
    BY <1>1, <1>5, <1>7, <1>9, <2>1, <2>4 DEF P!AddDeferredHandler
  <2>6. /\ b \in Actors(V) /\ b.calls = c /\ b.batch = <<>> /\ b.ran = a.ran
        /\ b.pending = q
    BY <1>2, <1>9, <2>3, <2>4 DEF Actors
  <2>7. x <= c /\ c <= c
    BY <1>4, <1>7, <2>2
  <2>8. Rising(b.batch, c, c)
    BY <2>6, RisingEmpty
  <2>9. Parts(b, x, c)
    BY <1>3, <2>3, <2>6, <2>7, <2>8 DEF Parts
  <2> QED
    BY <2>5, <2>6, <2>9 DEF InLine
<1>10. CASE a.batch # <<>>
  <2>1. PICK q : q = Append(a.batch, e)
    OBVIOUS
  <2>2. q \in Seq(Waiting(V)) /\ Rising(q, y, c)
    BY <1>4, <1>6, <1>7, <1>8, <2>1, RisingAppend
  <2>3. PICK b : b = [a EXCEPT !.calls = c, !.batch = q]
    OBVIOUS
  <2>4. P!AddDeferredHandler(a, fence) = b
    BY <1>1, <1>5, <1>7, <1>10, <2>1, <2>3 DEF P!AddDeferredHandler
  <2>5. /\ b \in Actors(V) /\ b.calls = c /\ b.batch = q /\ b.ran = a.ran
        /\ b.pending = a.pending
    BY <1>2, <2>2, <2>3 DEF Actors
  <2>6. y <= c
    BY <1>4, <1>7, <1>8
  <2>7. Parts(b, x, y)
    BY <1>3, <2>2, <2>5, <2>6 DEF Parts
  <2> QED
    BY <2>4, <2>5, <2>7 DEF InLine
<1> QED
  BY <1>9, <1>10

\* defer: at once when nothing waits.
LEMMA DeferInLine ==
  ASSUME NEW a, InLine(a), NEW fence \in BOOLEAN
  PROVE  InLine(P!Defer(a, fence))
<1>1. CASE P!HasInFlight(a)
  BY <1>1, DeferredInLine DEF P!Defer
<1>2. CASE ~P!HasInFlight(a)
  <2>1. PICK V : a \in Actors(V)
    BY DEF InLine
  <2>2. PICK x \in Nat, y \in Nat : Parts(a, x, y)
    BY DEF InLine
  <2>3. a.calls \in Nat /\ a.ran \in Seq(Nat) /\ a.pending = <<>> /\ a.batch = <<>>
    BY <1>2, <2>1, ActorFacts DEF P!HasInFlight
  <2>4. PICK c \in Nat : c = a.calls + 1
    BY <2>3
  <2>5. PICK r : r = Append(a.ran, c)
    OBVIOUS
  <2>6. /\ x <= y /\ y <= a.calls /\ Increasing(a.ran)
        /\ \A i \in 1 .. Len(a.ran) : a.ran[i] <= x
    BY <2>2 DEF Parts
  <2>7. x < c
    BY <2>3, <2>4, <2>6
  <2>8. r \in Seq(Nat) /\ Increasing(r) /\ \A i \in 1 .. Len(r) : r[i] <= c
    BY <2>3, <2>5, <2>6, <2>7, IncreasingAppend
  <2>12. PICK b : b = [a EXCEPT !.calls = c, !.ran = r]
    OBVIOUS
  <2>13. P!Defer(a, fence) = b
    BY <1>2, <2>4, <2>5, <2>12 DEF P!Defer
  <2>14. /\ b \in Actors(V) /\ b.calls = c /\ b.ran = r /\ b.pending = <<>> /\ b.batch = <<>>
    BY <2>1, <2>3, <2>8, <2>12 DEF Actors
  <2>15. Rising(b.pending, c, c) /\ Rising(b.batch, c, c) /\ c <= c
    BY <2>14, RisingEmpty
  <2>16. Parts(b, c, c)
    BY <2>8, <2>14, <2>15 DEF Parts
  <2> QED
    BY <2>13, <2>14, <2>16 DEF InLine
<1> QED
  BY <1>1, <1>2

\* The fields that are only data.
DataFields ==
  {"instance", "state", "until", "current", "last", "applied", "saved", "epoch", "timer",
   "sends", "failed", "refusing"}

\* They may change in any way.
LEMMA DataInLine ==
  ASSUME NEW a, InLine(a), NEW f \in DataFields, NEW v
  PROVE  InLine([a EXCEPT ![f] = v])
<1>1. PICK V : {v} \subseteq V /\ a \in Actors(V)
  BY LineData
<1>2. PICK b : b = [a EXCEPT ![f] = v]
  OBVIOUS
<1>3. b \in Actors(V) /\ SameHandlers(a, b)
  <2>1. CASE f = "instance"
    <3>1. b = [a EXCEPT !.instance = v]
      BY <1>2, <2>1
    <3>2. b \in Actors(V)
      BY <1>1, <3>1 DEF Actors
    <3>3. b.calls = a.calls /\ b.ran = a.ran /\ b.pending = a.pending /\ b.batch = a.batch
      BY <1>1, <3>1 DEF Actors
    <3> QED
      BY <3>2, <3>3 DEF SameHandlers
  <2>2. CASE f = "state"
    <3>1. b = [a EXCEPT !.state = v]
      BY <1>2, <2>2
    <3>2. b \in Actors(V)
      BY <1>1, <3>1 DEF Actors
    <3>3. b.calls = a.calls /\ b.ran = a.ran /\ b.pending = a.pending /\ b.batch = a.batch
      BY <1>1, <3>1 DEF Actors
    <3> QED
      BY <3>2, <3>3 DEF SameHandlers
  <2>3. CASE f = "until"
    <3>1. b = [a EXCEPT !.until = v]
      BY <1>2, <2>3
    <3>2. b \in Actors(V)
      BY <1>1, <3>1 DEF Actors
    <3>3. b.calls = a.calls /\ b.ran = a.ran /\ b.pending = a.pending /\ b.batch = a.batch
      BY <1>1, <3>1 DEF Actors
    <3> QED
      BY <3>2, <3>3 DEF SameHandlers
  <2>4. CASE f = "current"
    <3>1. b = [a EXCEPT !.current = v]
      BY <1>2, <2>4
    <3>2. b \in Actors(V)
      BY <1>1, <3>1 DEF Actors
    <3>3. b.calls = a.calls /\ b.ran = a.ran /\ b.pending = a.pending /\ b.batch = a.batch
      BY <1>1, <3>1 DEF Actors
    <3> QED
      BY <3>2, <3>3 DEF SameHandlers
  <2>5. CASE f = "last"
    <3>1. b = [a EXCEPT !.last = v]
      BY <1>2, <2>5
    <3>2. b \in Actors(V)
      BY <1>1, <3>1 DEF Actors
    <3>3. b.calls = a.calls /\ b.ran = a.ran /\ b.pending = a.pending /\ b.batch = a.batch
      BY <1>1, <3>1 DEF Actors
    <3> QED
      BY <3>2, <3>3 DEF SameHandlers
  <2>6. CASE f = "applied"
    <3>1. b = [a EXCEPT !.applied = v]
      BY <1>2, <2>6
    <3>2. b \in Actors(V)
      BY <1>1, <3>1 DEF Actors
    <3>3. b.calls = a.calls /\ b.ran = a.ran /\ b.pending = a.pending /\ b.batch = a.batch
      BY <1>1, <3>1 DEF Actors
    <3> QED
      BY <3>2, <3>3 DEF SameHandlers
  <2>7. CASE f = "saved"
    <3>1. b = [a EXCEPT !.saved = v]
      BY <1>2, <2>7
    <3>2. b \in Actors(V)
      BY <1>1, <3>1 DEF Actors
    <3>3. b.calls = a.calls /\ b.ran = a.ran /\ b.pending = a.pending /\ b.batch = a.batch
      BY <1>1, <3>1 DEF Actors
    <3> QED
      BY <3>2, <3>3 DEF SameHandlers
  <2>8. CASE f = "epoch"
    <3>1. b = [a EXCEPT !.epoch = v]
      BY <1>2, <2>8
    <3>2. b \in Actors(V)
      BY <1>1, <3>1 DEF Actors
    <3>3. b.calls = a.calls /\ b.ran = a.ran /\ b.pending = a.pending /\ b.batch = a.batch
      BY <1>1, <3>1 DEF Actors
    <3> QED
      BY <3>2, <3>3 DEF SameHandlers
  <2>9. CASE f = "timer"
    <3>1. b = [a EXCEPT !.timer = v]
      BY <1>2, <2>9
    <3>2. b \in Actors(V)
      BY <1>1, <3>1 DEF Actors
    <3>3. b.calls = a.calls /\ b.ran = a.ran /\ b.pending = a.pending /\ b.batch = a.batch
      BY <1>1, <3>1 DEF Actors
    <3> QED
      BY <3>2, <3>3 DEF SameHandlers
  <2>10. CASE f = "sends"
    <3>1. b = [a EXCEPT !.sends = v]
      BY <1>2, <2>10
    <3>2. b \in Actors(V)
      BY <1>1, <3>1 DEF Actors
    <3>3. b.calls = a.calls /\ b.ran = a.ran /\ b.pending = a.pending /\ b.batch = a.batch
      BY <1>1, <3>1 DEF Actors
    <3> QED
      BY <3>2, <3>3 DEF SameHandlers
  <2>11. CASE f = "failed"
    <3>1. b = [a EXCEPT !.failed = v]
      BY <1>2, <2>11
    <3>2. b \in Actors(V)
      BY <1>1, <3>1 DEF Actors
    <3>3. b.calls = a.calls /\ b.ran = a.ran /\ b.pending = a.pending /\ b.batch = a.batch
      BY <1>1, <3>1 DEF Actors
    <3> QED
      BY <3>2, <3>3 DEF SameHandlers
  <2>12. CASE f = "refusing"
    <3>1. b = [a EXCEPT !.refusing = v]
      BY <1>2, <2>12
    <3>2. b \in Actors(V)
      BY <1>1, <3>1 DEF Actors
    <3>3. b.calls = a.calls /\ b.ran = a.ran /\ b.pending = a.pending /\ b.batch = a.batch
      BY <1>1, <3>1 DEF Actors
    <3> QED
      BY <3>2, <3>3 DEF SameHandlers
  <2> QED
    BY <2>1, <2>2, <2>3, <2>4, <2>5, <2>6, <2>7, <2>8, <2>9, <2>10, <2>11, <2>12
       DEF DataFields
<1> QED
  BY <1>2, <1>3, SameInLine

\* flush_batch: what was batched comes after what already waits, or nothing is
\* left waiting because the write was refused.
LEMMA FlushInLine ==
  ASSUME NEW a, InLine(a)
  PROVE  InLine(P!FlushBatch(a))
<1>1. CASE a.batch = <<>>
  BY <1>1 DEF P!FlushBatch
<1>2. CASE a.batch # <<>> /\ a.state # "ProcessingCommands"
  <2>1. InLine([a EXCEPT !.failed = TRUE])
    BY DataInLine DEF DataFields
  <2> QED
    BY <1>2, <2>1 DEF P!FlushBatch
<1>4. CASE a.batch # <<>> /\ a.state = "ProcessingCommands" /\ a.refusing
  <2>1. PICK V : {TRUE, FALSE} \subseteq V /\ a \in Actors(V)
    BY LineData
  <2>2. PICK x \in Nat, y \in Nat : Parts(a, x, y)
    BY DEF InLine
  <2>3. PICK b : b = [a EXCEPT !.pending = <<>>, !.batch = <<>>, !.until = FALSE,
                               !.failed = TRUE]
    OBVIOUS
  <2>4. P!FlushBatch(a) = b
    BY <1>4, <2>3 DEF P!FlushBatch
  <2>5. <<>> \in Seq(Waiting(V))
    BY RisingEmpty
  <2>6. b \in Actors(V) /\ b.calls = a.calls /\ b.ran = a.ran /\ b.pending = <<>> /\ b.batch = <<>>
    BY <2>1, <2>3, <2>5 DEF Actors
  <2>7. Rising(b.pending, x, y) /\ Rising(b.batch, y, a.calls)
    BY <2>6 DEF Rising
  <2>8. Parts(b, x, y)
    BY <2>2, <2>6, <2>7 DEF Parts
  <2> QED
    BY <2>4, <2>6, <2>8 DEF InLine
<1>3. CASE a.batch # <<>> /\ a.state = "ProcessingCommands" /\ ~a.refusing
  <2>1. PICK u : u = (\E i \in DOMAIN a.batch : a.batch[i].fence)
    OBVIOUS
  <2>2. PICK s : s = Append(a.sends, [op |-> "Write", messages |-> P!Persisted(a.batch),
                                      instance |-> a.instance, retry |-> 0])
    OBVIOUS
  <2>3. PICK V : {u, s, "PersistingEvents"} \subseteq V /\ a \in Actors(V)
    BY LineData
  <2>4. PICK x \in Nat, y \in Nat : Parts(a, x, y)
    BY DEF InLine
  <2>5. a.calls \in Nat /\ a.batch \in Seq(Waiting(V)) /\ a.pending \in Seq(Waiting(V))
    BY <2>3, ActorFacts
  <2>6. x <= y /\ y <= a.calls /\ Rising(a.batch, y, a.calls) /\ Rising(a.pending, x, y)
    BY <2>4 DEF Parts
  <2>7. PICK q : q = a.pending \o a.batch
    OBVIOUS
  <2>8. q \in Seq(Waiting(V)) /\ Rising(q, x, a.calls)
    BY <2>5, <2>6, <2>7, RisingConcat
  <2>9. <<>> \in Seq(Waiting(V)) /\ Rising(<<>>, a.calls, a.calls)
    BY RisingEmpty
  <2>10. PICK b : b = [a EXCEPT !.state = "PersistingEvents", !.pending = q, !.batch = <<>>,
                               !.until = u, !.sends = s]
    OBVIOUS
  <2>11. P!FlushBatch(a) = b
    BY <1>3, <2>1, <2>2, <2>7, <2>10 DEF P!FlushBatch
  <2>12. /\ b \in Actors(V) /\ b.calls = a.calls /\ b.ran = a.ran /\ b.pending = q
         /\ b.batch = <<>>
    BY <2>3, <2>8, <2>9, <2>10 DEF Actors
  <2>13. x <= a.calls /\ a.calls <= a.calls
    BY <2>5, <2>6
  <2>14. Parts(b, x, a.calls)
    BY <2>4, <2>8, <2>9, <2>12, <2>13 DEF Parts
  <2> QED
    BY <2>5, <2>11, <2>12, <2>14 DEF InLine
<1> QED
  BY <1>1, <1>2, <1>3, <1>4

\* A request touches no handler, sent or refused.
LEMMA SendInLine ==
  ASSUME NEW a, InLine(a), NEW op
  PROVE  InLine(P!Send(a, op))
<1>1. PICK v : v = Append(a.sends, op)
  OBVIOUS
<1>2. InLine([a EXCEPT !.failed = TRUE]) /\ InLine([a EXCEPT !.sends = v])
  BY DataInLine DEF DataFields
<1>3. P!Send(a, op) \in {[a EXCEPT !.failed = TRUE], [a EXCEPT !.sends = v]}
  BY <1>1 DEF P!Send
<1> QED
  BY <1>2, <1>3

\* One call of a command handler.
LEMMA CallInLine ==
  ASSUME NEW a, InLine(a), NEW call \in P!HandlerCalls
  PROVE  InLine(P!Call(a, call))
<1>1. CASE a.failed
  BY <1>1 DEF P!Call
<1>2. CASE ~a.failed
  <2>1. CASE call = "persist"
    BY <1>2, <2>1, BatchInLine DEF P!Call
  <2>2. CASE call = "persist_unfenced"
    BY <1>2, <2>2, BatchInLine DEF P!Call
  <2>3. CASE call = "defer"
    BY <1>2, <2>3, DeferInLine DEF P!Call
  <2>4. CASE call = "defer_async"
    BY <1>2, <2>4, DeferInLine DEF P!Call
  <2>5. CASE call = "flush_batch"
    BY <1>2, <2>5, FlushInLine DEF P!Call
  <2>6. CASE call = "save_snapshot"
    <3>1. InLine(P!SaveSnapshot(a))
      BY SendInLine DEF P!SaveSnapshot
    <3> QED
      BY <1>2, <2>6, <3>1 DEF P!Call
  <2>7. CASE call = "delete_messages"
    <3>1. InLine(P!DeleteMessages(a))
      BY SendInLine DEF P!DeleteMessages
    <3> QED
      BY <1>2, <2>7, <3>1 DEF P!Call
  <2>8. CASE call = "fail"
    <3>1. InLine([a EXCEPT !.failed = TRUE])
      BY DataInLine DEF DataFields
    <3> QED
      BY <1>2, <2>8, <3>1 DEF P!Call
  <2> QED
    BY <2>1, <2>2, <2>3, <2>4, <2>5, <2>6, <2>7, <2>8 DEF P!HandlerCalls
<1> QED
  BY <1>1, <1>2

\* g is what the first calls of a script make of a.
Calling(g, a, script, n) ==
  g = [i \in 0 .. n |-> IF i = 0 THEN a ELSE P!Call(g[i - 1], script[i])]

\* There is such a function, and a script has its result.
LEMMA CallingSteps ==
  ASSUME NEW a, NEW script \in Seq(P!HandlerCalls)
  PROVE  \E g : Calling(g, a, script, Len(script))
                  /\ P!ReceiveCommand(a, script) = g[Len(script)]
<1> DEFINE T == {k \in Nat : \E g : Calling(g, a, script, k)}
<1>1. 0 \in T
  <2>1. PICK g : g = [i \in 0 .. 0 |-> a]
    OBVIOUS
  <2>2. g = [i \in 0 .. 0 |-> IF i = 0 THEN a ELSE P!Call(g[i - 1], script[i])]
    BY <2>1
  <2> QED
    BY <2>2 DEF Calling
<1>2. ASSUME NEW k \in Nat, k \in T PROVE k + 1 \in T
  <2>1. PICK g : g = [i \in 0 .. k |-> IF i = 0 THEN a ELSE P!Call(g[i - 1], script[i])]
    BY <1>2 DEF Calling
  <2>2. PICK h : h = [i \in 0 .. k + 1 |->
                        IF i = k + 1 THEN P!Call(g[k], script[k + 1]) ELSE g[i]]
    OBVIOUS
  <2>3. /\ \A i \in 0 .. k : h[i] = g[i]
        /\ h[k + 1] = P!Call(g[k], script[k + 1])
        /\ k \in 0 .. k /\ (k + 1) - 1 = k /\ k + 1 # 0
    BY <2>2
  <2>4. ASSUME NEW i \in 0 .. k + 1
        PROVE  h[i] = IF i = 0 THEN a ELSE P!Call(h[i - 1], script[i])
    <3>1. CASE i = 0
      BY <2>1, <2>3, <3>1
    <3>2. CASE i = k + 1
      BY <2>3, <3>2
    <3>3. CASE i # 0 /\ i # k + 1
      <4>1. i \in 0 .. k /\ i - 1 \in 0 .. k
        BY <3>3
      <4>2. g[i] = P!Call(g[i - 1], script[i])
        BY <2>1, <3>3, <4>1
      <4> QED
        BY <2>3, <3>3, <4>1, <4>2
    <3> QED
      BY <3>1, <3>2, <3>3
  <2>5. Calling(h, a, script, k + 1)
    BY <2>2, <2>4 DEF Calling
  <2> QED
    BY <2>5
<1>3. PICK n \in Nat : n = Len(script)
  OBVIOUS
<1>4. n \in T
  <2> HIDE DEF T
  <2> QED
    BY <1>1, <1>2, NatSteps
<1>5. PICK h : h = CHOOSE g : Calling(g, a, script, n)
  OBVIOUS
<1>6. Calling(h, a, script, n)
  BY <1>4, <1>5
<1>7. P!ReceiveCommand(a, script) = h[n]
  BY <1>3, <1>5 DEF P!ReceiveCommand, Calling
<1> QED
  BY <1>3, <1>6, <1>7

\* A command handler leaves the handlers in order, whatever it calls.
LEMMA CommandInLine ==
  ASSUME NEW a, InLine(a), NEW script \in Seq(P!HandlerCalls)
  PROVE  InLine(P!ReceiveCommand(a, script))
<1>1. PICK n \in Nat : n = Len(script)
  OBVIOUS
<1>2. PICK g : /\ g = [i \in 0 .. n |-> IF i = 0 THEN a ELSE P!Call(g[i - 1], script[i])]
               /\ P!ReceiveCommand(a, script) = g[n]
  BY <1>1, CallingSteps DEF Calling
<1> DEFINE T == {k \in Nat : k <= n => InLine(g[k])}
<1>3. 0 \in T
  BY <1>2
<1>4. ASSUME NEW k \in Nat, k \in T PROVE k + 1 \in T
  <2> SUFFICES ASSUME k + 1 <= n PROVE InLine(g[k + 1])
    OBVIOUS
  <2>1. InLine(g[k]) /\ k + 1 \in 0 .. n /\ k + 1 \in 1 .. n /\ (k + 1) - 1 = k /\ k + 1 # 0
    BY <1>4
  <2>2. g[k + 1] = P!Call(g[k], script[k + 1])
    BY <1>2, <2>1
  <2>3. script[k + 1] \in P!HandlerCalls
    BY <1>1, <2>1
  <2> QED
    BY <2>1, <2>2, <2>3, CallInLine
<1>5. n \in T
  <2> HIDE DEF T
  <2> QED
    BY <1>3, <1>4, NatSteps
<1> QED
  BY <1>2, <1>5

\* Running the first n handlers that wait.
LEMMA InvokeInLine ==
  ASSUME NEW a, InLine(a), NEW n \in 0 .. Len(a.pending)
  PROVE  InLine(P!Invoke(a, n))
<1>1. PICK p : p = a.pending
  OBVIOUS
<1>2. PICK ids : ids = P!Column(SubSeq(p, 1, n), "id")
  OBVIOUS
<1>3. PICK rest : rest = SubSeq(p, n + 1, Len(p))
  OBVIOUS
<1>4. PICK v : v = a.applied \o P!Column(P!Persisted(SubSeq(p, 1, n)), "id")
  OBVIOUS
<1>5. PICK V : {v} \subseteq V /\ a \in Actors(V)
  BY LineData
<1>6. PICK x \in Nat, y \in Nat : Parts(a, x, y)
  BY DEF InLine
<1>7. a.calls \in Nat /\ a.ran \in Seq(Nat) /\ p \in Seq(Waiting(V))
  BY <1>1, <1>5, ActorFacts
<1>8. x <= y /\ y <= a.calls /\ Rising(p, x, y)
  BY <1>1, <1>6 DEF Parts
<1>9. n \in Nat /\ n <= Len(p) /\ Len(p) \in Nat /\ \A i \in 1 .. Len(p) : p[i].id \in Nat
  BY <1>1, <1>7, WaitingIds
<1>10. PICK z \in Nat : /\ x <= z /\ z <= y
                        /\ \A i \in 1 .. n : p[i].id <= z
                        /\ \A i \in n + 1 .. Len(p) : z < p[i].id
  <2>1. CASE n = 0
    BY <1>8, <1>9, <2>1 DEF Rising
  <2>2. CASE n # 0
    <3>1. n \in 1 .. Len(p) /\ p[n].id \in Nat
      BY <1>9, <2>2
    <3>2. x <= p[n].id /\ p[n].id <= y
      BY <1>8, <3>1 DEF Rising
    <3>3. \A i \in 1 .. n : p[i].id <= p[n].id
      BY <1>8, <1>9, <3>1 DEF Rising
    <3>4. \A i \in n + 1 .. Len(p) : p[n].id < p[i].id
      BY <1>8, <1>9, <3>1 DEF Rising
    <3> QED
      BY <3>1, <3>2, <3>3, <3>4
  <2> QED
    BY <2>1, <2>2
<1>11. /\ ids \in Seq(Nat) /\ Len(ids) = n
       /\ \A i \in 1 .. n : ids[i] = p[i].id
  <2>1. PICK s : s = SubSeq(p, 1, n)
    OBVIOUS
  <2>2. /\ s \in Seq(Waiting(V)) /\ Len(s) = n /\ DOMAIN s = 1 .. n
        /\ \A i \in 1 .. n : s[i] = p[i]
    BY <1>7, <1>9, <2>1
  <2>3. ids = [i \in 1 .. n |-> s[i]["id"]]
    BY <1>2, <2>1, <2>2 DEF P!Column
  <2>4. \A i \in 1 .. n : ids[i] = p[i].id /\ ids[i] \in Nat
    BY <1>9, <2>2, <2>3
  <2>5. ids \in Seq(Nat) /\ Len(ids) = n
    BY <1>9, <2>3, <2>4
  <2> QED
    BY <2>4, <2>5
<1>12. Increasing(ids) /\ \A i \in 1 .. Len(ids) : x < ids[i] /\ ids[i] <= z
  <2>1. \A i \in 1 .. n : i \in 1 .. Len(p)
    BY <1>9
  <2>2. DOMAIN ids = 1 .. n
    BY <1>11
  <2> QED
    BY <1>8, <1>10, <1>11, <2>1, <2>2 DEF Increasing, Rising
<1>13. PICK r : r = a.ran \o ids
  OBVIOUS
<1>14. Increasing(a.ran) /\ \A i \in 1 .. Len(a.ran) : a.ran[i] <= x
  BY <1>6 DEF Parts
<1>15. r \in Seq(Nat) /\ Increasing(r) /\ \A i \in 1 .. Len(r) : r[i] <= z
  BY <1>7, <1>10, <1>11, <1>12, <1>13, <1>14, IncreasingConcat
<1>16. rest \in Seq(Waiting(V)) /\ Rising(rest, z, y)
  <2>1. /\ rest \in Seq(Waiting(V)) /\ Len(rest) = Len(p) - n
        /\ \A i \in 1 .. Len(rest) : rest[i] = p[n + i]
    BY <1>3, <1>7, <1>9
  <2>2. \A i \in 1 .. Len(rest) : n + i \in n + 1 .. Len(p) /\ n + i \in 1 .. Len(p)
    BY <1>9, <2>1
  <2>3. \A i \in 1 .. Len(rest) : z < rest[i].id /\ rest[i].id <= y
    BY <1>8, <1>10, <2>1, <2>2 DEF Rising
  <2>4. ASSUME NEW i \in 1 .. Len(rest), NEW j \in 1 .. Len(rest), i < j
        PROVE  rest[i].id < rest[j].id
    <3>1. n + i < n + j
      BY <1>9, <2>1, <2>4
    <3> QED
      BY <1>8, <2>1, <2>2, <3>1 DEF Rising
  <2> QED
    BY <2>1, <2>3, <2>4 DEF Rising
<1>17. PICK b : b = [a EXCEPT !.pending = rest, !.ran = r, !.applied = v]
  OBVIOUS
<1>18. P!Invoke(a, n) = b
  BY <1>1, <1>2, <1>3, <1>4, <1>13, <1>17 DEF P!Invoke
<1>19. /\ b \in Actors(V) /\ b.calls = a.calls /\ b.ran = r /\ b.pending = rest
       /\ b.batch = a.batch
  BY <1>5, <1>15, <1>16, <1>17 DEF Actors
<1>20. Parts(b, z, y)
  BY <1>6, <1>8, <1>10, <1>15, <1>16, <1>19 DEF Parts
<1> QED
  BY <1>18, <1>19, <1>20 DEF InLine

\* The deferred handlers in front are some of those that wait.
LEMMA LeadingFacts ==
  ASSUME NEW a, InLine(a)
  PROVE  Len(a.pending) \in Nat /\ P!LeadingDeferred(a) \in 0 .. Len(a.pending)
<1>1. Len(a.pending) \in Nat
  <2>1. PICK V : a \in Actors(V)
    BY DEF InLine
  <2> QED
    BY <2>1, ActorFacts
<1>2. PICK T : T = {i \in 1 .. Len(a.pending) : ~a.pending[i].deferred}
  OBVIOUS
<1>3. CASE T = {}
  BY <1>1, <1>2, <1>3 DEF P!LeadingDeferred, P!SelectInSeq
<1>4. CASE T # {}
  <2>1. T \in SUBSET Nat
    BY <1>1, <1>2
  <2>2. PICK k \in T : \A i \in T : k <= i
    BY <1>4, <2>1, NatMin
  <2>3. P!Min(T) \in T
    BY <2>2 DEF P!Min
  <2>4. P!Min(T) \in 1 .. Len(a.pending)
    BY <1>2, <2>3
  <2>5. P!LeadingDeferred(a) = P!Min(T) - 1
    BY <1>1, <1>2, <1>4, <2>4 DEF P!LeadingDeferred, P!SelectInSeq
  <2> QED
    BY <1>1, <2>4, <2>5
<1> QED
  BY <1>1, <1>3, <1>4

\* Dropping some that wait keeps the others in order.
LEMMA OnlyRising ==
  ASSUME NEW V, NEW q \in Seq(Waiting(V)), NEW S, NEW x \in Nat, NEW y \in Nat, x <= y,
         Rising(q, x, y)
  PROVE  Only(q, S) \in Seq(Waiting(V)) /\ Rising(Only(q, S), x, y)
<1>1. PICK n \in Nat : n = Len(q)
  OBVIOUS
<1>2. PICK g \in [0 .. n -> Seq(Waiting(V))] : Only(q, S) = g[n] /\ Sieves(g, q, S)
  BY <1>1, OnlySteps
<1>3. \A i \in 1 .. n : q[i] \in Waiting(V) /\ q[i].id \in Nat
  BY <1>1, WaitingIds
<1> DEFINE Top(k) == IF k = 0 THEN x ELSE q[k].id
           T == {k \in Nat : k <= n => Rising(g[k], x, Top(k))}
<1>4. 0 \in T
  <2>1. g[0] = <<>>
    BY <1>1, <1>2 DEF Sieves
  <2> QED
    BY <2>1, RisingEmpty
<1>5. ASSUME NEW k \in Nat PROVE k \in T => k + 1 \in T
  <2> SUFFICES ASSUME k \in T, k + 1 <= n PROVE Rising(g[k + 1], x, q[k + 1].id)
    OBVIOUS
  <2>1. k + 1 \in 1 .. n /\ (k + 1) - 1 = k /\ k \in 0 .. n
    BY <1>1
  <2>2. Rising(g[k], x, Top(k)) /\ g[k] \in Seq(Waiting(V))
    BY <1>2, <2>1
  <2>3. Top(k) \in Nat /\ x <= Top(k) /\ Top(k) < q[k + 1].id
    <3>1. CASE k = 0
      BY <1>1, <2>1, <3>1 DEF Rising
    <3>2. CASE k # 0
      <4>1. k \in 1 .. n /\ k < k + 1
        BY <2>1, <3>2
      <4>2. x < q[k].id /\ q[k].id < q[k + 1].id
        BY <1>1, <2>1, <4>1 DEF Rising
      <4> QED
        BY <1>3, <3>2, <4>1, <4>2
    <3> QED
      BY <3>1, <3>2
  <2>4. PICK t \in Nat : t = Top(k)
    BY <2>3
  <2>5. q[k + 1] \in Waiting(V) /\ q[k + 1].id \in Nat
    BY <1>3, <2>1
  <2>6. PICK c \in Nat : c = q[k + 1].id
    BY <2>5
  <2>7. CASE q[k + 1] \in S
    <3>1. g[k + 1] = Append(g[k], q[k + 1])
      BY <1>1, <1>2, <2>1, <2>7 DEF Sieves
    <3>2. Rising(Append(g[k], q[k + 1]), x, c)
      <4> HIDE DEF Top
      <4> QED
        BY <2>2, <2>3, <2>4, <2>5, <2>6, RisingAppend
    <3> QED
      BY <2>6, <3>1, <3>2
  <2>8. CASE q[k + 1] \notin S
    <3>1. g[k + 1] = g[k]
      BY <1>1, <1>2, <2>1, <2>8 DEF Sieves
    <3>2. t <= c
      BY <2>3, <2>4, <2>6
    <3>3. Rising(g[k], x, c)
      <4> HIDE DEF Top
      <4> QED
        BY <2>2, <2>4, <3>2, RisingMore
    <3> QED
      BY <2>6, <3>1, <3>3
  <2> QED
    BY <2>7, <2>8
<1>6. n \in T
  <2> HIDE DEF T
  <2> QED
    BY <1>4, <1>5, NatSteps
<1>7. PICK t \in Nat : t = Top(n)
  BY <1>1, <1>3
<1>8. t <= y
  BY <1>1, <1>7 DEF Rising
<1>9. Rising(g[n], x, t) /\ g[n] \in Seq(Waiting(V))
  BY <1>2, <1>6, <1>7
<1> HIDE DEF Top
<1>10. Rising(g[n], x, y)
  BY <1>8, <1>9, RisingMore
<1> QED
  BY <1>2, <1>9, <1>10

\* Dropping some that wait, of an actor.
LEMMA DropInLine ==
  ASSUME NEW a, InLine(a), NEW S
  PROVE  InLine([a EXCEPT !.pending = P!Only(@, S)])
<1>1. PICK V : a \in Actors(V)
  BY DEF InLine
<1>2. PICK x \in Nat, y \in Nat : Parts(a, x, y)
  BY DEF InLine
<1>3. a.pending \in Seq(Waiting(V)) /\ x <= y /\ Rising(a.pending, x, y)
  BY <1>1, <1>2, ActorFacts DEF Parts
<1>4. PICK q : q = Only(a.pending, S)
  OBVIOUS
<1>5. q \in Seq(Waiting(V)) /\ Rising(q, x, y)
  BY <1>3, <1>4, OnlyRising
<1>6. P!Only(a.pending, S) = q
  BY <1>4 DEF P!Only, Only
<1>7. PICK b : b = [a EXCEPT !.pending = q]
  OBVIOUS
<1>8. /\ b \in Actors(V) /\ b.calls = a.calls /\ b.ran = a.ran /\ b.pending = q
      /\ b.batch = a.batch
  BY <1>1, <1>5, <1>7 DEF Actors
<1>9. Parts(b, x, y)
  BY <1>2, <1>5, <1>8 DEF Parts
<1> QED
  BY <1>6, <1>7, <1>8, <1>9 DEF InLine

\* Dropping all that wait.
LEMMA ClearInLine ==
  ASSUME NEW a, InLine(a)
  PROVE  InLine([a EXCEPT !.pending = <<>>])
<1>1. PICK V : a \in Actors(V)
  BY DEF InLine
<1>2. PICK x \in Nat, y \in Nat : Parts(a, x, y)
  BY DEF InLine
<1>3. <<>> \in Seq(Waiting(V)) /\ Rising(<<>>, x, y)
  BY RisingEmpty
<1>4. PICK b : b = [a EXCEPT !.pending = <<>>]
  OBVIOUS
<1>5. /\ b \in Actors(V) /\ b.calls = a.calls /\ b.ran = a.ran /\ b.pending = <<>>
      /\ b.batch = a.batch
  BY <1>1, <1>3, <1>4 DEF Actors
<1>6. Parts(b, x, y)
  BY <1>2, <1>3, <1>5 DEF Parts
<1> QED
  BY <1>4, <1>5, <1>6 DEF InLine

\* transition_to_processing_commands_if_no_pending touches no handler.
LEMMA ProcessingInLine ==
  ASSUME NEW a, InLine(a)
  PROVE  InLine(P!ProcessingIfNoPending(a))
  BY DataInLine DEF P!ProcessingIfNoPending, DataFields

\* Neither does scheduling the recovery timeout.
LEMMA TimeoutInLine ==
  ASSUME NEW a, InLine(a), NEW w
  PROVE  InLine(P!ScheduleTimeout(a, w))
<1>1. PICK b : b = [a EXCEPT !.epoch = @ + 1]
  OBVIOUS
<1>2. InLine(b)
  BY <1>1, DataInLine DEF DataFields
<1>3. PICK v : v = [waitingSnapshot |-> w, epoch |-> a.epoch + 1]
  OBVIOUS
<1>4. P!ScheduleTimeout(a, w) = [b EXCEPT !.timer = v]
  BY <1>1, <1>3 DEF P!ScheduleTimeout
<1> QED
  BY <1>2, <1>4, DataInLine DEF DataFields

\* Nor the start of a replay.
LEMMA ReplayInLine ==
  ASSUME NEW a, InLine(a), NEW from
  PROVE  InLine(P!StartReplay(a, from))
<1>1. PICK v : v = IF a.refusing THEN a.sends
                   ELSE Append(a.sends, [op |-> "Replay", from |-> from,
                                         instance |-> a.instance, retry |-> 0])
  OBVIOUS
<1>2. PICK b : b = [a EXCEPT !.state = "Recovering"]
  OBVIOUS
<1>3. InLine(b)
  BY <1>2, DataInLine DEF DataFields
<1>4. PICK c : c = [b EXCEPT !.sends = v]
  OBVIOUS
<1>5. InLine(c)
  BY <1>3, <1>4, DataInLine DEF DataFields
<1>6. P!StartReplay(a, from) = P!ScheduleTimeout(c, FALSE)
  BY <1>1, <1>2, <1>4 DEF P!StartReplay
<1> QED
  BY <1>5, <1>6, TimeoutInLine

\* handle_journal_response.
LEMMA JournalInLine ==
  ASSUME NEW a, InLine(a), NEW m, m.kind \in P!JournalResponses
  PROVE  InLine(P!HandleJournalResponse(a, m))
<1>1. CASE m.kind = "WriteMessageSuccess"
  <2>1. CASE ~P!OfThisWrite(a, m)
    BY <1>1, <2>1 DEF P!HandleJournalResponse
  <2>2. CASE P!OfThisWrite(a, m)
    <3>1. PICK b : b = [a EXCEPT !.last = m.nr]
      OBVIOUS
    <3>2. InLine(b)
      BY <3>1, DataInLine DEF DataFields
    <3>3. b.pending = a.pending
      <4>1. PICK V : a \in Actors(V)
        BY DEF InLine
      <4> QED
        BY <3>1, <4>1 DEF Actors
    <3>4. PICK n : n = P!LeadingDeferred(a) + 1
      OBVIOUS
    <3>5. PICK k : k = IF n > Len(a.pending) THEN Len(a.pending) ELSE n
      OBVIOUS
    <3>6. k \in 0 .. Len(b.pending)
      BY <3>3, <3>4, <3>5, LeadingFacts
    <3>7. P!HandleJournalResponse(a, m) = P!ProcessingIfNoPending(P!Invoke(b, k))
      BY <1>1, <2>2, <3>1, <3>4, <3>5 DEF P!HandleJournalResponse
    <3>8. InLine(P!Invoke(b, k))
      BY <3>2, <3>6, InvokeInLine
    <3> QED
      BY <3>7, <3>8, ProcessingInLine
  <2> QED
    BY <2>1, <2>2
<1>2. CASE m.kind = "WriteMessagesSuccessful"
  <2>1. CASE ~P!OfThisWrite(a, m)
    BY <1>2, <2>1 DEF P!HandleJournalResponse
  <2>2. CASE P!OfThisWrite(a, m)
    <3>1. PICK b : b = [a EXCEPT !.until = FALSE]
      OBVIOUS
    <3>2. InLine(b)
      BY <3>1, DataInLine DEF DataFields
    <3>3. PICK k : k = P!LeadingDeferred(b)
      OBVIOUS
    <3>4. k \in 0 .. Len(b.pending)
      BY <3>2, <3>3, LeadingFacts
    <3>5. P!HandleJournalResponse(a, m) = P!ProcessingIfNoPending(P!Invoke(b, k))
      BY <1>2, <2>2, <3>1, <3>3 DEF P!HandleJournalResponse
    <3>6. InLine(P!Invoke(b, k))
      BY <3>2, <3>4, InvokeInLine
    <3> QED
      BY <3>5, <3>6, ProcessingInLine
  <2> QED
    BY <2>1, <2>2
<1>3. CASE m.kind = "WriteMessageFailure"
  <2>1. CASE m.instance # a.instance
    BY <1>3, <2>1 DEF P!HandleJournalResponse
  <2>2. CASE m.instance = a.instance
    <3>1. PICK b : b = [a EXCEPT !.failed = TRUE]
      OBVIOUS
    <3>2. InLine(b)
      BY <3>1, DataInLine DEF DataFields
    <3>3. b.pending = a.pending
      <4>1. PICK V : a \in Actors(V)
        BY DEF InLine
      <4> QED
        BY <3>1, <4>1 DEF Actors
    <3>4. PICK S : S = {e \in P!Range(a.pending) : e.deferred \/ e.nr # m.nr}
      OBVIOUS
    <3>5. P!HandleJournalResponse(a, m) = [b EXCEPT !.pending = P!Only(@, S)]
      BY <1>3, <2>2, <3>1, <3>3, <3>4 DEF P!HandleJournalResponse
    <3> QED
      BY <3>2, <3>5, DropInLine
  <2> QED
    BY <2>1, <2>2
<1>4. CASE m.kind = "WriteMessagesFailed"
  <2>1. CASE ~P!OfThisWrite(a, m)
    BY <1>4, <2>1 DEF P!HandleJournalResponse
  <2>2. CASE P!OfThisWrite(a, m)
    <3>1. PICK v : v = a.last
      OBVIOUS
    <3>2. PICK b : b = [a EXCEPT !.until = FALSE]
      OBVIOUS
    <3>3. InLine(b)
      BY <3>2, DataInLine DEF DataFields
    <3>4. PICK c : c = [b EXCEPT !.pending = <<>>]
      OBVIOUS
    <3>5. InLine(c)
      BY <3>3, <3>4, ClearInLine
    <3>6. PICK d : d = [c EXCEPT !.current = v]
      OBVIOUS
    <3>7. InLine(d)
      BY <3>5, <3>6, DataInLine DEF DataFields
    <3>8. P!HandleJournalResponse(a, m) = P!ProcessingIfNoPending(d)
      BY <1>4, <2>2, <3>1, <3>2, <3>4, <3>6 DEF P!HandleJournalResponse
    <3> QED
      BY <3>7, <3>8, ProcessingInLine
  <2> QED
    BY <2>1, <2>2
<1>5. CASE m.kind = "ReplayedMessage"
  <2>1. PICK b : b = [a EXCEPT !.current = m.nr]
    OBVIOUS
  <2>2. InLine(b)
    BY <2>1, DataInLine DEF DataFields
  <2>3. PICK v : v = Append(a.applied, m.id)
    OBVIOUS
  <2>4. PICK c : c = [b EXCEPT !.applied = v]
    OBVIOUS
  <2>5. InLine(c)
    BY <2>2, <2>4, DataInLine DEF DataFields
  <2>6. P!HandleJournalResponse(a, m) = IF a.state = "Recovering" THEN P!ScheduleTimeout(c, FALSE)
                                        ELSE c
    BY <1>5, <2>1, <2>3, <2>4 DEF P!HandleJournalResponse
  <2> QED
    BY <2>5, <2>6, TimeoutInLine
<1>6. CASE m.kind = "RecoverySuccess"
  <2>1. PICK v : v = P!MaxOf({m.nr, a.current, a.last})
    OBVIOUS
  <2>2. PICK b : b = [a EXCEPT !.last = v]
    OBVIOUS
  <2>3. InLine(b)
    BY <2>2, DataInLine DEF DataFields
  <2>4. PICK c : c = [b EXCEPT !.current = v]
    OBVIOUS
  <2>5. InLine(c)
    BY <2>3, <2>4, DataInLine DEF DataFields
  <2>6. PICK d : d = [c EXCEPT !.timer = P!NoTick]
    OBVIOUS
  <2>7. InLine(d)
    BY <2>5, <2>6, DataInLine DEF DataFields
  <2>8. P!HandleJournalResponse(a, m) = [d EXCEPT !.state = "ProcessingCommands"]
    BY <1>6, <2>1, <2>2, <2>4, <2>6 DEF P!HandleJournalResponse
  <2> QED
    BY <2>7, <2>8, DataInLine DEF DataFields
<1>7. CASE m.kind = "ReplayMessagesFailure"
  <2>1. PICK b : b = [a EXCEPT !.timer = P!NoTick]
    OBVIOUS
  <2>2. InLine(b)
    BY <2>1, DataInLine DEF DataFields
  <2>3. PICK v : v = P!RecoveryRunning(a)
    OBVIOUS
  <2>4. P!HandleJournalResponse(a, m) = [b EXCEPT !.failed = v]
    BY <1>7, <2>1, <2>3 DEF P!HandleJournalResponse
  <2> QED
    BY <2>2, <2>4, DataInLine DEF DataFields
<1>8. CASE m.kind \in {"DeleteMessagesSuccess", "DeleteMessagesFailure"}
  BY <1>8 DEF P!HandleJournalResponse
<1> QED
  BY <1>1, <1>2, <1>3, <1>4, <1>5, <1>6, <1>7, <1>8 DEF P!JournalResponses

\* handle_snapshot_response.
LEMMA SnapshotInLine ==
  ASSUME NEW a, InLine(a), NEW m, m.kind \in P!SnapshotResponses
  PROVE  InLine(P!HandleSnapshotResponse(a, m))
<1>1. CASE m.kind = "SaveSnapshotSuccess"
  BY <1>1, DataInLine DEF P!HandleSnapshotResponse, DataFields
<1>2. CASE m.kind = "SaveSnapshotFailure"
  BY <1>2 DEF P!HandleSnapshotResponse
<1>3. CASE m.kind = "LoadSnapshotResult"
  <2>1. PICK s : s = m.snapshot[1]
    OBVIOUS
  <2>2. PICK b : b = [a EXCEPT !.current = s.nr]
    OBVIOUS
  <2>3. InLine(b)
    BY <2>2, DataInLine DEF DataFields
  <2>4. PICK c : c = [b EXCEPT !.last = s.nr]
    OBVIOUS
  <2>5. InLine(c)
    BY <2>3, <2>4, DataInLine DEF DataFields
  <2>6. PICK d : d = [c EXCEPT !.saved = s.nr]
    OBVIOUS
  <2>7. InLine(d)
    BY <2>5, <2>6, DataInLine DEF DataFields
  <2>8. PICK e : e = [d EXCEPT !.applied = s.state]
    OBVIOUS
  <2>9. InLine(e)
    BY <2>7, <2>8, DataInLine DEF DataFields
  <2>10. PICK g : g = P!FromSnapshot(a, s)
    OBVIOUS
  <2>13. g \in {c, e}
    BY <2>2, <2>4, <2>6, <2>8, <2>10 DEF P!FromSnapshot
  <2>14. InLine(P!StartReplay(g, s.nr + 1))
    BY <2>5, <2>9, <2>13, ReplayInLine
  <2>11. InLine(P!StartReplay(a, 0)) /\ InLine(P!ScheduleTimeout(a, FALSE))
    BY ReplayInLine, TimeoutInLine
  <2>12. P!HandleSnapshotResponse(a, m) \in
           {a, P!ScheduleTimeout(a, FALSE), P!StartReplay(a, 0), P!StartReplay(g, s.nr + 1)}
    BY <1>3, <2>1, <2>10 DEF P!HandleSnapshotResponse
  <2> QED
    BY <2>11, <2>12, <2>14
<1>4. CASE m.kind = "LoadSnapshotFailed"
  <2>1. InLine(P!StartReplay(a, 0)) /\ InLine(P!ScheduleTimeout(a, FALSE))
    BY ReplayInLine, TimeoutInLine
  <2> QED
    BY <1>4, <2>1 DEF P!HandleSnapshotResponse
<1> QED
  BY <1>1, <1>2, <1>3, <1>4 DEF P!SnapshotResponses

\* handle_recovery_tick.
LEMMA TickInLine ==
  ASSUME NEW a, InLine(a), NEW tick
  PROVE  InLine(P!HandleRecoveryTick(a, tick))
<1>1. PICK b : b = [a EXCEPT !.timer = P!NoTick]
  OBVIOUS
<1>2. InLine(b)
  BY <1>1, DataInLine DEF DataFields
<1>3. InLine([b EXCEPT !.failed = TRUE])
  BY <1>2, DataInLine DEF DataFields
<1>4. P!HandleRecoveryTick(a, tick) \in {a, [b EXCEPT !.failed = TRUE]}
  BY <1>1 DEF P!HandleRecoveryTick
<1> QED
  BY <1>3, <1>4

\* What a handler leaves behind is stored.
LEMMA FinishInLine ==
  ASSUME NEW a, InLine(a), NEW unstash, P!Finish(a, unstash)
  PROVE  InLine(actor')
<1>1. PICK b : b = [a EXCEPT !.sends = <<>>]
  OBVIOUS
<1>2. InLine(b)
  BY <1>1, DataInLine DEF DataFields
<1>3. PICK c : c = [b EXCEPT !.failed = FALSE]
  OBVIOUS
<1>4. InLine(c)
  BY <1>2, <1>3, DataInLine DEF DataFields
<1>5. actor' = [c EXCEPT !.refusing = FALSE]
  BY <1>1, <1>3 DEF P!Finish
<1> QED
  BY <1>4, <1>5, DataInLine DEF DataFields

\* So is the actor before a step whose requests may be refused.
LEMMA SendingInLine ==
  ASSUME InLine(actor), NEW b \in P!Sending
  PROVE  InLine(b)
<1>1. PICK v : b = [actor EXCEPT !.refusing = v]
  BY DEF P!Sending
<1> QED
  BY <1>1, DataInLine DEF DataFields

-----------------------------------------------------------------------------
(* The invariant of the persistent actor                                   *)

\* A restart keeps what has run and drops what waits.
LEMMA RestartInLine ==
  ASSUME InLine(actor), P!Restart
  PROVE  InLine(actor')
<1>1. PICK V : actor \in Actors(V)
  BY DEF InLine
<1>2. PICK x \in Nat, y \in Nat : Parts(actor, x, y)
  BY DEF InLine
<1>3. actor.calls \in Nat /\ actor.ran \in Seq(Nat)
  BY <1>1, ActorFacts
<1>4. PICK c \in Nat, r \in Seq(Nat) : c = actor.calls /\ r = actor.ran
  BY <1>3
<1>5. Increasing(r) /\ x <= y /\ y <= c /\ \A k \in 1 .. Len(r) : r[k] <= x
  BY <1>2, <1>4 DEF Parts
<1>6. \A k \in 1 .. Len(r) : r[k] \in Nat
  OBVIOUS
<1>7. \A k \in 1 .. Len(r) : r[k] <= c
  BY <1>5, <1>6
<1>8. PICK i : i = actor.instance + 1
  OBVIOUS
<1>9. InLine(P!NewActor(i, c, r))
  BY <1>5, <1>7, NewInLine
<1> QED
  BY <1>4, <1>8, <1>9 DEF P!Restart

\* Every step keeps the handlers in order.
LEMMA StepInLine ==
  ASSUME Scripts \subseteq Seq(P!HandlerCalls), InLine(actor), [P!Next]_(P!vars)
  PROVE  InLine(actor')
<1>1. CASE P!ReceiveJournalResponse
  <2>1. PICK m : m = Head(mailbox)
    OBVIOUS
  <2>2. m.kind \in P!JournalResponses
    BY <1>1, <2>1 DEF P!ReceiveJournalResponse, P!Receiving
  <2>3. PICK a : a = P!HandleJournalResponse(actor, m)
    OBVIOUS
  <2>4. InLine(a)
    BY <2>2, <2>3, JournalInLine
  <2>5. P!Finish(a, P!UnstashAfterJournal(a, m))
    BY <1>1, <2>1, <2>3 DEF P!ReceiveJournalResponse
  <2> QED
    BY <2>4, <2>5, FinishInLine
<1>2. CASE P!ReceiveSnapshotResponse
  <2>1. PICK m : m = Head(mailbox)
    OBVIOUS
  <2>2. m.kind \in P!SnapshotResponses
    BY <1>2, <2>1 DEF P!ReceiveSnapshotResponse, P!Receiving
  <2>6. PICK b \in P!Sending :
          P!Finish(P!HandleSnapshotResponse(b, m),
                   P!UnstashAfterSnapshot(P!HandleSnapshotResponse(b, m), m))
    BY <1>2, <2>1 DEF P!ReceiveSnapshotResponse
  <2>3. PICK a : a = P!HandleSnapshotResponse(b, m)
    OBVIOUS
  <2>4. InLine(a)
    BY <2>2, <2>3, SendingInLine, SnapshotInLine
  <2>5. P!Finish(a, P!UnstashAfterSnapshot(a, m))
    BY <2>3, <2>6
  <2> QED
    BY <2>4, <2>5, FinishInLine
<1>3. CASE P!ReceiveRecoveryTick
  <2>1. PICK a : a = P!HandleRecoveryTick(actor, Head(mailbox).tick)
    OBVIOUS
  <2>2. InLine(a)
    BY <2>1, TickInLine
  <2>3. P!Finish(a, FALSE)
    BY <1>3, <2>1 DEF P!ReceiveRecoveryTick
  <2> QED
    BY <2>2, <2>3, FinishInLine
<1>4. CASE P!StashCommand
  BY <1>4 DEF P!StashCommand
<1>5. CASE P!HandleCommand
  <2>1. PICK script \in Scripts, b \in P!Sending : P!Finish(P!ReceiveCommand(b, script), FALSE)
    BY <1>5 DEF P!HandleCommand
  <2>2. PICK a : a = P!ReceiveCommand(b, script)
    OBVIOUS
  <2>3. InLine(a)
    BY <2>2, SendingInLine, CommandInLine
  <2> QED
    BY <2>1, <2>2, <2>3, FinishInLine
<1>6. CASE P!Restart
  BY <1>6, RestartInLine
<1>7. CASE P!Resume
  BY <1>7 DEF P!Resume
<1>8. CASE P!Stop \/ P!FireTimer
  <2>1. InLine([actor EXCEPT !.timer = P!NoTick])
    BY DataInLine DEF DataFields
  <2> QED
    BY <1>8, <2>1 DEF P!Stop, P!FireTimer
<1>9. CASE P!PollInFlight \/ P!Arrive \/ P!SendCommand
  BY <1>9 DEF P!PollInFlight, P!Arrive, P!SendCommand
<1>10. CASE UNCHANGED P!vars
  BY <1>10 DEF P!vars
<1> QED
  BY <1>1, <1>2, <1>3, <1>4, <1>5, <1>6, <1>7, <1>8, <1>9, <1>10
     DEF P!Next, P!ActorStep, P!Supervise

\* The handlers of persisted and deferred events run in the order in which the
\* command handlers called persist and defer, and none runs twice, whatever the
\* handlers call and flush, whatever the journal answers, loses and fails, and
\* over every restart and resume (add_to_event_batch, add_deferred_handler,
\* flush_batch, take_leading_deferred_invocations of persistence_context.rs).
THEOREM RunsHandlersInOrder ==
  ASSUME Scripts \subseteq Seq(P!HandlerCalls)
  PROVE  P!Spec => []HandlersInOrder
<1>1. P!Init => InLine(actor)
  <2> SUFFICES ASSUME P!Init PROVE InLine(actor)
    OBVIOUS
  <2>1. PICK r : r = <<>>
    OBVIOUS
  <2>2. r \in Seq(Nat) /\ Increasing(r) /\ \A k \in 1 .. Len(r) : r[k] <= 0
    BY <2>1 DEF Increasing
  <2>3. InLine(P!NewActor(1, 0, r))
    BY <2>2, NewInLine
  <2> QED
    BY <2>1, <2>3 DEF P!Init
<1>2. InLine(actor) /\ [P!Next]_(P!vars) => InLine(actor)'
  BY StepInLine
<1>3. InLine(actor) => HandlersInOrder
  BY DEF InLine, Parts, Increasing, HandlersInOrder
<1> QED
  BY <1>1, <1>2, <1>3, PTL DEF P!Spec
=============================================================================
