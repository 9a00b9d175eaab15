------------------------- MODULE OnuChannelFlowProofs -------------------------
(***************************************************************************)
(* One goroutine receives, FlowIds is exact and the channel is served:     *)
(* the theorems about OnuChannel, from the invariants of OnuChannelProofs. *)
(***************************************************************************)
EXTENDS OnuChannelProofs, FiniteSetTheorems

-----------------------------------------------------------------------------
(***************************************************************************)
(* Counting in sequences.                                                  *)
(***************************************************************************)

\* How often x is among the first n elements of q.
Occ(q, x, n) == Cardinality({i \in 1..n : q[i] = x})

LEMMA LeastNatural ==
    ASSUME NEW T, T \subseteq Nat, T # {}
    PROVE  \E x \in T : \A y \in T : x <= y
<1>1. \A x, y \in Nat : <<y, x>> \in OpToRel(<, Nat) <=> y < x
    BY DEF OpToRel
<1>2. PICK x \in T : \A y \in T : ~(<<y, x>> \in OpToRel(<, Nat))
    BY WFMin, NatLessThanWellFounded, Zenon
<1>3. \A y \in T : ~(y < x)
    BY <1>1, <1>2, Zenon
<1>4. \A y \in T : x <= y
    BY <1>3
<1> QED
    BY <1>4, Zenon

LEMMA Induction ==
    ASSUME NEW S, 0 \in S, \A n \in Nat : n \in S => n + 1 \in S
    PROVE  Nat \subseteq S
<1> SUFFICES ASSUME Nat \ S # {} PROVE FALSE
    BY Zenon
<1> DEFINE T == Nat \ S
<1>1. PICK x \in T : \A y \in T : x <= y
  <2>1. T \subseteq Nat /\ T # {}
    BY Zenon
  <2> HIDE DEF T
  <2> QED
    BY <2>1, LeastNatural, Zenon
<1>2. x \in Nat /\ x # 0 /\ x \notin S
    BY <1>1, Zenon
<1>3. x - 1 \in Nat /\ ~(x <= x - 1) /\ (x - 1) + 1 = x
    BY <1>2
<1>4. x - 1 \in S
    BY <1>1, <1>3, Zenon
<1> QED
    BY <1>2, <1>3, <1>4, Zenon

LEMMA OccZero ==
    ASSUME NEW q, NEW x
    PROVE  Occ(q, x, 0) = 0
<1>1. {i \in 1..0 : q[i] = x} = {}
    OBVIOUS
<1> QED
    BY <1>1, FS_EmptySet, Zenon DEF Occ

LEMMA OccNext ==
    ASSUME NEW q, NEW x, NEW n \in Nat
    PROVE  /\ Occ(q, x, n) \in Nat
           /\ q[n + 1] = x => Occ(q, x, n + 1) = Occ(q, x, n) + 1
           /\ q[n + 1] # x => Occ(q, x, n + 1) = Occ(q, x, n)
<1> DEFINE A == {i \in 1..n : q[i] = x}
           B == {i \in 1..(n + 1) : q[i] = x}
<1>1. IsFiniteSet(A) /\ Cardinality(A) \in Nat
  <2>1. IsFiniteSet(1..n)
    BY FS_Interval
  <2>2. A \in SUBSET (1..n)
    BY Zenon
  <2> HIDE DEF A
  <2>3. IsFiniteSet(A)
    BY <2>1, <2>2, FS_Subset, Zenon
  <2> QED
    BY <2>3, FS_CardinalityType, Zenon
<1>2. n + 1 \notin A /\ \A i : i \in 1..(n + 1) <=> i \in 1..n \/ i = n + 1
    OBVIOUS
<1>3. q[n + 1] = x => B = A \cup {n + 1}
    BY <1>2, Zenon
<1>4. q[n + 1] # x => B = A
    BY <1>2, Zenon
<1>5. Occ(q, x, n) = Cardinality(A) /\ Occ(q, x, n + 1) = Cardinality(B)
    BY Zenon DEF Occ
<1> HIDE DEF A, B
<1>6. Cardinality(A \cup {n + 1}) = Cardinality(A) + 1
    BY <1>1, <1>2, FS_AddElement, Zenon
<1> QED
    BY <1>1, <1>3, <1>4, <1>5, <1>6, Zenon

LEMMA OccSame ==
    ASSUME NEW q, NEW r, NEW x, NEW n \in Nat, \A i \in 1..n : q[i] = r[i]
    PROVE  Occ(q, x, n) = Occ(r, x, n)
<1>1. {i \in 1..n : q[i] = x} = {i \in 1..n : r[i] = x}
    BY Zenon
<1> QED
    BY <1>1, Zenon DEF Occ

\* From element k on, N elements of r are those of q but one place earlier.
Shifted(q, r, k, N) == \A i \in 1..N : r[k + i] = q[k + i + 1]
OccShifted(q, r, x, k, N) ==
    \A n \in 0..N : Occ(r, x, k + n) + Occ(q, x, k + 1) = Occ(q, x, k + n + 1) + Occ(r, x, k)

LEMMA OccShift ==
    ASSUME NEW q, NEW r, NEW x, NEW k \in Nat, NEW N \in Nat, Shifted(q, r, k, N)
    PROVE  OccShifted(q, r, x, k, N)
<1> DEFINE Same(n) == Occ(r, x, k + n) + Occ(q, x, k + 1) = Occ(q, x, k + n + 1) + Occ(r, x, k)
           S == {n \in Nat : n <= N => Same(n)}
<1>t. \A n \in Nat : Occ(r, x, n) \in Nat /\ Occ(q, x, n) \in Nat
    BY OccNext, Zenon
<1>1. 0 \in S
  <2>1. k + 0 = k /\ k + 0 + 1 = k + 1 /\ k + 1 \in Nat
    OBVIOUS
  <2>2. \A a, b \in Nat : a + b = b + a
    OBVIOUS
  <2>3. Occ(r, x, k) + Occ(q, x, k + 1) = Occ(q, x, k + 1) + Occ(r, x, k)
    BY <1>t, <2>1, <2>2, Zenon
  <2> QED
    BY <2>1, <2>3, Zenon
<1>2. ASSUME NEW n \in Nat, n \in S PROVE n + 1 \in S
  <2>n. n + 1 \in Nat
    OBVIOUS
  <2> SUFFICES ASSUME n + 1 <= N PROVE Same(n + 1)
    BY <2>n, Zenon
  <2>1. Same(n)
    <3>1. n <= N
      OBVIOUS
    <3> QED
      BY <1>2, <3>1, Zenon
  <2>2. /\ k + n \in Nat /\ k + n + 1 \in Nat /\ k + (n + 1) = k + n + 1 /\ n + 1 \in 1..N
        /\ k + (n + 1) + 1 = k + n + 1 + 1
    OBVIOUS
  <2>3. r[k + n + 1] = q[k + n + 1 + 1]
    <3>1. r[k + (n + 1)] = q[k + (n + 1) + 1]
      BY <2>2, Zenon DEF Shifted
    <3> QED
      BY <2>2, <3>1, Zenon
  <2> DEFINE a == Occ(r, x, k + n)
             b == Occ(q, x, k + n + 1)
             c == Occ(r, x, k + n + 1)
             e == Occ(q, x, k + n + 1 + 1)
             g == Occ(q, x, k + 1)
             h == Occ(r, x, k)
  <2>4. a \in Nat /\ b \in Nat /\ c \in Nat /\ e \in Nat /\ g \in Nat /\ h \in Nat
    <3>1. k + n + 1 + 1 \in Nat /\ k + 1 \in Nat
      OBVIOUS
    <3> QED
      BY <1>t, <2>2, <3>1, Zenon
  <2>5. (r[k + n + 1] = x => c = a + 1) /\ (r[k + n + 1] # x => c = a)
    <3>1. k + n \in Nat
      BY <2>2, Zenon
    <3> QED
      BY <3>1, OccNext, Zenon
  <2>6. (r[k + n + 1] = x => e = b + 1) /\ (r[k + n + 1] # x => e = b)
    <3>1. k + n + 1 \in Nat
      BY <2>2, Zenon
    <3>2. (q[k + n + 1 + 1] = x => e = b + 1) /\ (q[k + n + 1 + 1] # x => e = b)
      BY <3>1, OccNext, Zenon
    <3> QED
      BY <2>3, <3>2, Zenon
  <2>7. a + g = b + h
    BY <2>1, Zenon
  <2>8. Same(n + 1) <=> c + g = e + h
    BY <2>2, Zenon
  <2> HIDE DEF a, b, c, e, g, h, Same
  <2>9. c + g = e + h
    BY SMTT(30), <2>4, <2>5, <2>6, <2>7
  <2> QED
    BY <2>8, <2>9, Zenon
<1>3. Nat \subseteq S
  <2> HIDE DEF S
  <2> QED
    BY <1>1, <1>2, Induction, Zenon
<1>4. \A n \in 0..N : n \in Nat /\ n <= N
    OBVIOUS
<1> QED
    BY <1>3, <1>4, Zenon DEF OccShifted

\* With y at its end, r is q as far as x is concerned.
OneMore(q, r, y, x) ==
    /\ \A n \in 0..Len(q) : Occ(r, x, n) = Occ(q, x, n)
    /\ Occ(r, x, Len(q) + 1) = Occ(q, x, Len(q)) + One(y, x)
    /\ Occ(q, x, Len(q)) \in Nat

LEMMA OccAppend ==
    ASSUME NEW S, NEW q \in Seq(S), NEW m \in S, NEW x
    PROVE  OneMore(q, Append(q, m), m, x)
<1> DEFINE r == Append(q, m)
<1>1. /\ Len(q) \in Nat /\ \A i \in 1..Len(q) : r[i] = q[i]
      /\ r[Len(q) + 1] = m
    OBVIOUS
<1>2. \A n \in 0..Len(q) : n \in Nat /\ \A i \in 1..n : i \in 1..Len(q)
    BY <1>1
<1> HIDE DEF r
<1>3. \A n \in 0..Len(q) : Occ(r, x, n) = Occ(q, x, n)
    BY <1>1, <1>2, OccSame, ZenonT(30)
<1>4. Occ(q, x, Len(q)) \in Nat /\ Len(q) \in 0..Len(q)
    BY <1>1, OccNext
<1>5. /\ m = x => Occ(r, x, Len(q) + 1) = Occ(r, x, Len(q)) + 1
      /\ m # x => Occ(r, x, Len(q) + 1) = Occ(r, x, Len(q))
    BY <1>1, OccNext, Zenon
<1>6. \A a \in Nat : a + 0 = a
    OBVIOUS
<1>7. Occ(r, x, Len(q) + 1) = Occ(q, x, Len(q)) + One(m, x)
    BY <1>3, <1>4, <1>5, <1>6, Zenon DEF One
<1> QED
    BY <1>3, <1>4, <1>7, Zenon DEF r, OneMore

LEMMA OccTail ==
    ASSUME NEW S, NEW q \in Seq(S), q # <<>>, NEW x
    PROVE  /\ Len(Tail(q)) \in Nat /\ Len(q) = Len(Tail(q)) + 1
           /\ \A n \in 0..Len(Tail(q)) : /\ n + 1 \in 0..Len(q)
                                         /\ Occ(Tail(q), x, n) \in Nat
                                         /\ Occ(q, x, n + 1) = Occ(Tail(q), x, n) + One(Head(q), x)
<1> DEFINE r == Tail(q)
           N == Len(r)
<1>1. /\ N \in Nat /\ Len(q) = N + 1 /\ Head(q) = q[1]
      /\ \A i \in 1..N : r[i] = q[i + 1]
    OBVIOUS
<1> HIDE DEF r, N
<1>2. Shifted(q, r, 0, N)
    BY <1>1 DEF Shifted
<1>3. OccShifted(q, r, x, 0, N)
  <2>1. 0 \in Nat
    OBVIOUS
  <2> QED
    BY <1>1, <1>2, <2>1, OccShift, Zenon
<1>4. Occ(r, x, 0) = 0 /\ Occ(q, x, 0 + 1) = One(q[0 + 1], x)
  <2>1. Occ(r, x, 0) = 0 /\ Occ(q, x, 0) = 0
    BY OccZero, Zenon
  <2>2. 0 \in Nat /\ 0 + 1 = 1
    OBVIOUS
  <2>3. /\ q[0 + 1] = x => Occ(q, x, 0 + 1) = Occ(q, x, 0) + 1
        /\ q[0 + 1] # x => Occ(q, x, 0 + 1) = Occ(q, x, 0)
    BY <2>2, OccNext, Zenon
  <2> QED
    BY <2>1, <2>2, <2>3, Zenon DEF One
<1>5. ASSUME NEW n \in 0..N
      PROVE  n + 1 \in 0..Len(q) /\ Occ(r, x, n) \in Nat /\ Occ(q, x, n + 1) = Occ(r, x, n) + One(q[1], x)
  <2>1. n \in Nat /\ 0 + n = n /\ 0 + n + 1 = n + 1 /\ n + 1 \in Nat /\ n + 1 \in 0..Len(q) /\ 0 + 1 = 1
    BY <1>1
  <2>2. Occ(r, x, n) + One(q[1], x) = Occ(q, x, n + 1) + 0
    BY <1>3, <1>4, <2>1, Zenon DEF OccShifted
  <2>3. Occ(r, x, n) \in Nat /\ Occ(q, x, n + 1) \in Nat
    BY <2>1, OccNext, Zenon
  <2>4. \A a \in Nat : a + 0 = a
    OBVIOUS
  <2> QED
    BY <2>1, <2>2, <2>3, <2>4, Zenon
<1> QED
    BY <1>1, <1>5, Zenon DEF r, N

\* Without one y, r is q as far as x is concerned.
OneLess(q, r, y, x) ==
    /\ Occ(r, x, Len(r)) \in Nat
    /\ Occ(q, x, Len(q)) = Occ(r, x, Len(r)) + One(y, x)

LEMMA OccWithout ==
    ASSUME NEW S, NEW q \in Seq(S), NEW k \in 1..Len(q), NEW r \in Seq(S), Len(r) + 1 = Len(q),
           \A i \in 1..(k - 1) : r[i] = q[i], \A i \in k..Len(r) : r[i] = q[i + 1], NEW x
    PROVE  OneLess(q, r, q[k], x)
<1> DEFINE j == k - 1
           N == Len(q) - k
<1>1. /\ Len(q) \in Nat /\ j \in Nat /\ N \in Nat /\ k = j + 1 /\ Len(q) = j + N + 1
      /\ q \in [1..Len(q) -> S]
    OBVIOUS
<1>2. /\ Len(r) = j + N
      /\ \A i \in 1..j : r[i] = q[i]
      /\ \A i \in 1..N : r[j + i] = q[j + i + 1]
    BY SMTT(30)
<1> HIDE DEF j, N
<1>3. N \in 0..N /\ j + 1 \in Nat /\ j + N + 1 \in Nat /\ j + N \in Nat
    BY <1>1
<1>4. Occ(r, x, j + N) + Occ(q, x, j + 1) = Occ(q, x, j + N + 1) + Occ(r, x, j)
  <2>1. Shifted(q, r, j, N)
    BY <1>2, Zenon DEF Shifted
  <2>2. OccShifted(q, r, x, j, N)
    BY <1>1, <2>1, OccShift, Zenon
  <2> QED
    BY <1>3, <2>2, Zenon DEF OccShifted
<1>5. Occ(r, x, j) = Occ(q, x, j)
  <2>1. j \in Nat /\ \A i \in 1..j : r[i] = q[i]
    BY <1>1, <1>2, Zenon
  <2> QED
    BY <2>1, OccSame, ZenonT(30)
<1>6. /\ q[j + 1] = x => Occ(q, x, j + 1) = Occ(q, x, j) + 1
      /\ q[j + 1] # x => Occ(q, x, j + 1) = Occ(q, x, j)
    BY <1>1, OccNext, ZenonT(30)
<1>7. Occ(r, x, j + N) \in Nat /\ Occ(q, x, j) \in Nat /\ Occ(q, x, j + N + 1) \in Nat
    BY <1>1, <1>3, OccNext, Zenon
<1> DEFINE a == Occ(r, x, j + N)
           b == Occ(q, x, j)
           c == Occ(q, x, j + N + 1)
           e == Occ(q, x, j + 1)
<1>8. a \in Nat /\ b \in Nat /\ c \in Nat /\ a + e = c + b /\ e = b + One(q[k], x)
  <2>1. \A i \in Nat : i + 0 = i
    OBVIOUS
  <2> QED
    BY <1>1, <1>4, <1>5, <1>6, <1>7, <2>1, Zenon DEF One
<1> HIDE DEF a, b, c, e
<1>9. c = a + One(q[k], x)
    BY <1>8 DEF One
<1> QED
    BY <1>1, <1>2, <1>7, <1>9, Zenon DEF a, c, OneLess

LEMMA FirstIsOne ==
    ASSUME FlowIds \in Seq(Flow), NEW f, \E i \in 1..Len(FlowIds) : FlowIds[i] = f
    PROVE  \E k \in 1..Len(FlowIds) : FlowIds[k] = f /\ \A j \in 1..(k - 1) : FlowIds[j] # f
<1> DEFINE T == {i \in 1..Len(FlowIds) : FlowIds[i] = f}
<1>1. T \subseteq Nat /\ T # {}
    OBVIOUS
<1>2. PICK k \in T : \A j \in T : k <= j
  <2> HIDE DEF T
  <2> QED
    BY <1>1, LeastNatural, Zenon
<1>3. \A j \in 1..(k - 1) : j \in 1..Len(FlowIds) /\ ~(k <= j)
    BY <1>2
<1> QED
    BY <1>2, <1>3, Zenon

LEMMA Without ==
    ASSUME FlowIds \in Seq(Flow), NEW f
    PROVE  /\ (\A i \in 1..Len(FlowIds) : FlowIds[i] # f) => WithoutFirst(f) = FlowIds
           /\ (\E i \in 1..Len(FlowIds) : FlowIds[i] = f) =>
                \A x : /\ Occ(WithoutFirst(f), x, Len(WithoutFirst(f))) \in Nat
                       /\ Occ(FlowIds, x, Len(FlowIds)) =
                            Occ(WithoutFirst(f), x, Len(WithoutFirst(f))) + One(x, f)
<1>1. (\A i \in 1..Len(FlowIds) : FlowIds[i] # f) => WithoutFirst(f) = FlowIds
    BY Zenon DEF WithoutFirst
<1>2. ASSUME \E i \in 1..Len(FlowIds) : FlowIds[i] = f, NEW x
      PROVE  /\ Occ(WithoutFirst(f), x, Len(WithoutFirst(f))) \in Nat
             /\ Occ(FlowIds, x, Len(FlowIds)) = Occ(WithoutFirst(f), x, Len(WithoutFirst(f))) + One(x, f)
  <2> DEFINE r == WithoutFirst(f)
  <2>1. PICK k \in 1..Len(FlowIds) : FlowIds[k] = f /\ \A j \in 1..(k - 1) : FlowIds[j] # f
    BY <1>2, FirstIsOne, Zenon
  <2>2. r = [i \in 1..(Len(FlowIds) - 1) |-> FlowIds[IF \E j \in 1..i : FlowIds[j] = f THEN i + 1 ELSE i]]
    BY <1>2, Zenon DEF WithoutFirst
  <2>3. r \in Seq(Flow)
    BY WithoutType, Zenon
  <2> HIDE DEF r
  <2>4. Len(r) + 1 = Len(FlowIds)
    BY <2>1, <2>2, <2>3
  <2>5. \A i \in 1..(k - 1) : i \in 1..(Len(FlowIds) - 1) /\ \A j \in 1..i : j \in 1..(k - 1)
    BY <2>1
  <2>6. \A i \in k..Len(r) : i \in 1..(Len(FlowIds) - 1) /\ k \in 1..i
    BY <2>1, <2>3, <2>4
  <2>7. (\A i \in 1..(k - 1) : r[i] = FlowIds[i]) /\ \A i \in k..Len(r) : r[i] = FlowIds[i + 1]
    BY <2>1, <2>2, <2>5, <2>6, Zenon
  <2>8. OneLess(FlowIds, r, FlowIds[k], x)
    BY <2>3, <2>4, <2>7, OccWithout, Zenon
  <2>9. One(FlowIds[k], x) = One(x, f)
    BY <2>1, Zenon DEF One
  <2> QED
    BY <2>8, <2>9, Zenon DEF OneLess, r
<1> QED
    BY <1>1, <1>2, Zenon

-----------------------------------------------------------------------------
(***************************************************************************)
(* The flows: where an addition or a removal is, it is counted.            *)
(***************************************************************************)

\* Additions a and removals r of a flow.  c of them are in FlowIds or being added, d are being
\* removed, wa and wr are about to be sent and i says that VOLTHA has the flow: what was added
\* and not removed is what VOLTHA has, and nothing is removed before it was added.
Level(c, d, wa, wr, i, q, a, r) ==
    /\ wa <= i
    /\ c + Occ(q, a, Len(q)) + wa = i + d + Occ(q, r, Len(q)) + wr
    /\ \A n \in 0..Len(q) : d + Occ(q, r, n) <= c + Occ(q, a, n)

FlowOK(f) ==
    /\ Once(pending, Add(f)) /\ Once(pending, Rem(f))
    /\ Level(Occ(FlowIds, f, Len(FlowIds)) + HandOf(loop, Add(f)), HandOf(loop, Rem(f)),
             WayOf(pending, Add(f)), WayOf(pending, Rem(f)), InSet(f, installed), Inbox, Add(f), Rem(f))
FlowInv == overtaken = {} => \A f \in Flow : FlowOK(f)

LEMMA OccLen ==
    ASSUME NEW S, NEW q \in Seq(S), NEW x
    PROVE  /\ Len(q) \in Nat /\ Len(q) \in 0..Len(q) /\ 0 \in 0..Len(q)
           /\ Occ(q, x, 0) = 0 /\ \A n \in 0..Len(q) : n \in Nat /\ Occ(q, x, n) \in Nat
<1>1. Len(q) \in Nat /\ Len(q) \in 0..Len(q) /\ 0 \in 0..Len(q) /\ \A n \in 0..Len(q) : n \in Nat
    OBVIOUS
<1> QED
    BY <1>1, OccNext, OccZero, Zenon

LEMMA OccNone ==
    ASSUME NEW q, NEW x, \A i \in 1..Len(q) : q[i] # x
    PROVE  Occ(q, x, Len(q)) = 0
<1>1. {i \in 1..Len(q) : q[i] = x} = {}
    BY Zenon
<1> QED
    BY <1>1, FS_EmptySet, Zenon DEF Occ

LEMMA LevelSend ==
    ASSUME NEW c \in Nat, NEW d \in Nat, NEW wa \in Nat, NEW wr \in Nat, NEW i \in Nat,
           NEW q \in Seq(Sent), NEW m \in Sent, NEW a, NEW r, a # r,
           NEW va \in Nat, NEW vr \in Nat, wa = va + One(m, a), wr = vr + One(m, r),
           Level(c, d, wa, wr, i, q, a, r)
    PROVE  Level(c, d, va, vr, i, Append(q, m), a, r)
<1> DEFINE p == Append(q, m)
           N == Len(q)
           A == Occ(q, a, N)
           R == Occ(q, r, N)
<1>1. /\ A \in Nat /\ R \in Nat /\ N \in Nat /\ N \in 0..N
    BY OccLen, Zenon
<1>2. /\ Occ(p, a, N + 1) = A + One(m, a) /\ Occ(p, r, N + 1) = R + One(m, r)
      /\ \A n \in 0..N : Occ(p, a, n) = Occ(q, a, n) /\ Occ(p, r, n) = Occ(q, r, n)
  <2>1. OneMore(q, p, m, a) /\ OneMore(q, p, m, r)
    BY OccAppend, Zenon
  <2> HIDE DEF p
  <2> QED
    BY <2>1, Zenon DEF OneMore
<1>3. Len(p) = N + 1 /\ \A n \in 0..Len(p) : n \in 0..N \/ n = N + 1
  <2>1. Len(p) = N + 1
    BY SMTT(30)
  <2> HIDE DEF p, N
  <2> QED
    BY <1>1, <2>1, SMTT(30)
<1>4. One(m, a) \in {0, 1} /\ One(m, r) \in {0, 1} /\ (One(m, a) = 0 \/ One(m, r) = 0)
    BY DEF One
<1>5. wa <= i /\ c + A + wa = i + d + R + wr /\ \A n \in 0..N : d + Occ(q, r, n) <= c + Occ(q, a, n)
    BY Zenon DEF Level
<1>6. d + R <= c + A
    BY <1>1, <1>5, Zenon
<1> HIDE DEF p, N, A, R
<1>7. /\ va <= i
      /\ c + (A + One(m, a)) + va = i + d + (R + One(m, r)) + vr
      /\ d + (R + One(m, r)) <= c + (A + One(m, a))
  <2> DEFINE x == One(m, a)
             y == One(m, r)
  <2>1. x \in {0, 1} /\ y \in {0, 1} /\ (x = 0 \/ y = 0) /\ wa = va + x /\ wr = vr + y
    BY <1>4, Zenon
  <2> HIDE DEF x, y
  <2>2. va <= i /\ c + (A + x) + va = i + d + (R + y) + vr /\ d + (R + y) <= c + (A + x)
    BY <1>1, <1>5, <1>6, <2>1, SMTT(30)
  <2> QED
    BY <2>2, Zenon DEF x, y
<1>8. \A n \in 0..Len(p) : d + Occ(p, r, n) <= c + Occ(p, a, n)
    BY <1>2, <1>3, <1>5, <1>7, Zenon
<1>9. Level(c, d, va, vr, i, p, a, r)
    BY <1>2, <1>3, <1>7, <1>8, Zenon DEF Level
<1> QED
    BY <1>9, Zenon DEF p

LEMMA LevelTake ==
    ASSUME NEW c \in Nat, NEW d \in Nat, NEW wa \in Nat, NEW wr \in Nat, NEW i \in Nat,
           NEW q \in Seq(Sent), q # <<>>, NEW a, NEW r,
           Level(c, d, wa, wr, i, q, a, r)
    PROVE  Level(c + One(Head(q), a), d + One(Head(q), r), wa, wr, i, Tail(q), a, r)
<1> DEFINE t == Tail(q)
           N == Len(t)
           x == One(Head(q), a)
           y == One(Head(q), r)
<1>1. /\ N \in Nat /\ Len(q) = N + 1
      /\ \A n \in 0..N : /\ n + 1 \in 0..Len(q) /\ Occ(t, a, n) \in Nat /\ Occ(t, r, n) \in Nat
                         /\ Occ(q, a, n + 1) = Occ(t, a, n) + x
                         /\ Occ(q, r, n + 1) = Occ(t, r, n) + y
    BY OccTail, Zenon
<1>2. x \in Nat /\ y \in Nat
    BY Bits, Zenon
<1>3. /\ wa <= i /\ c + Occ(q, a, N + 1) + wa = i + d + Occ(q, r, N + 1) + wr
      /\ \A n \in 0..Len(q) : d + Occ(q, r, n) <= c + Occ(q, a, n)
    BY <1>1, Zenon DEF Level
<1> HIDE DEF t, N, x, y
<1>4. N \in 0..N
    BY <1>1
<1>5. c + x + Occ(t, a, N) + wa = i + (d + y) + Occ(t, r, N) + wr
  <2>1. Occ(t, a, N) \in Nat /\ Occ(t, r, N) \in Nat /\ c + (Occ(t, a, N) + x) + wa = i + d + (Occ(t, r, N) + y) + wr
    BY <1>1, <1>3, <1>4, Zenon
  <2> QED
    BY <1>2, <2>1, SMTT(30)
<1>6. ASSUME NEW n \in 0..N PROVE d + y + Occ(t, r, n) <= c + x + Occ(t, a, n)
  <2>1. Occ(t, a, n) \in Nat /\ Occ(t, r, n) \in Nat /\ d + (Occ(t, r, n) + y) <= c + (Occ(t, a, n) + x)
    BY <1>1, <1>3, Zenon
  <2> QED
    BY <1>2, <2>1, SMTT(30)
<1>7. Level(c + x, d + y, wa, wr, i, t, a, r)
    BY <1>3, <1>5, <1>6, Zenon DEF Level, N
<1> QED
    BY <1>7, Zenon DEF t, x, y

LEMMA LevelDone ==
    ASSUME NEW c \in Nat, NEW d \in Nat, NEW wa \in Nat, NEW wr \in Nat, NEW i \in Nat,
           NEW q \in Seq(Sent), NEW a, NEW r, NEW k \in Nat,
           Level(c + k, d + k, wa, wr, i, q, a, r)
    PROVE  Level(c, d, wa, wr, i, q, a, r)
<1>1. Len(q) \in 0..Len(q) /\ \A n \in 0..Len(q) : Occ(q, a, n) \in Nat /\ Occ(q, r, n) \in Nat
    BY OccLen, Zenon
<1>2. ASSUME NEW n \in 0..Len(q) PROVE d + Occ(q, r, n) <= c + Occ(q, a, n)
  <2>1. d + k + Occ(q, r, n) <= c + k + Occ(q, a, n) /\ Occ(q, a, n) \in Nat /\ Occ(q, r, n) \in Nat
    BY <1>1, Zenon DEF Level
  <2> QED
    BY <2>1, SMTT(30)
<1>3. c + Occ(q, a, Len(q)) + wa = i + d + Occ(q, r, Len(q)) + wr
  <2> DEFINE A == Occ(q, a, Len(q))
             R == Occ(q, r, Len(q))
  <2>1. A \in Nat /\ R \in Nat /\ c + k + A + wa = i + (d + k) + R + wr
    BY <1>1, Zenon DEF Level
  <2> HIDE DEF A, R
  <2>2. c + A + wa = i + d + R + wr
    BY <2>1, SMTT(30)
  <2> QED
    BY <2>2, Zenon DEF A, R
<1> QED
    BY <1>2, <1>3, Zenon DEF Level

LEMMA LevelAsk ==
    ASSUME NEW c \in Nat, NEW d \in Nat, NEW wa \in Nat, NEW wr \in Nat, NEW i \in Nat,
           NEW q \in Seq(Sent), NEW a, NEW r,
           NEW va \in Nat, NEW vr \in Nat, NEW j \in Nat, va <= j, j + vr + wa = i + wr + va,
           Level(c, d, wa, wr, i, q, a, r)
    PROVE  Level(c, d, va, vr, j, q, a, r)
<1>1. Len(q) \in 0..Len(q) /\ \A n \in 0..Len(q) : Occ(q, a, n) \in Nat /\ Occ(q, r, n) \in Nat
    BY OccLen, Zenon
<1>3. c + Occ(q, a, Len(q)) + va = j + d + Occ(q, r, Len(q)) + vr
  <2> DEFINE A == Occ(q, a, Len(q))
             R == Occ(q, r, Len(q))
  <2>1. A \in Nat /\ R \in Nat /\ c + A + wa = i + d + R + wr
    BY <1>1, Zenon DEF Level
  <2> HIDE DEF A, R
  <2>2. c + A + va = j + d + R + vr
    BY <2>1, SMTT(30)
  <2> QED
    BY <2>2, Zenon DEF A, R
<1> QED
    BY <1>3, Zenon DEF Level

LEMMA FlowInvStep ==
    ASSUME TypeInv, CallbackInv, LoopInv, QueueInv, ClosedInv, ReceiverInv, TypeInv', FlowInv, ChannelNext
    PROVE  FlowInv'
<1> SUFFICES ASSUME overtaken' = {}, NEW f \in Flow PROVE FlowOK(f)'
    BY Zenon DEF FlowInv
<1> DEFINE a == Add(f)
           r == Rem(f)
           c == Occ(FlowIds, f, Len(FlowIds)) + HandOf(loop, a)
           d == HandOf(loop, r)
           wa == WayOf(pending, a)
           wr == WayOf(pending, r)
           i == InSet(f, installed)
<1>a. overtaken = {} /\ Kept /\ Alone /\ Kept'
    BY Keeping, Zenon DEF Kept, Alone
<1>b. Once(pending, a) /\ Once(pending, r) /\ Level(c, d, wa, wr, i, Inbox, a, r)
    BY <1>a, Zenon DEF FlowInv, FlowOK
<1>g. ASSUME Once(pending, a)', Once(pending, r)', Level(c', d', wa', wr', i', Inbox', a, r)
      PROVE  FlowOK(f)'
    BY <1>g, Zenon DEF FlowOK
<1>t. /\ Occ(FlowIds, f, Len(FlowIds)) \in Nat /\ HandOf(loop, a) \in {0, 1}
      /\ c \in Nat /\ d \in {0, 1} /\ wa \in {0, 1} /\ wr \in {0, 1} /\ i \in {0, 1}
      /\ d \in Nat /\ wa \in Nat /\ wr \in Nat /\ i \in Nat /\ Inbox \in Seq(Sent)
  <2>1. Occ(FlowIds, f, Len(FlowIds)) \in Nat /\ HandOf(loop, a) \in {0, 1} /\ {0, 1} \subseteq Nat
    BY OccLen, Bits, Zenon DEF TypeInv
  <2>2. c \in Nat
    <3> DEFINE u == Occ(FlowIds, f, Len(FlowIds))
               v == HandOf(loop, a)
    <3>1. u \in Nat /\ v \in {0, 1}
      BY <2>1, Zenon
    <3> HIDE DEF u, v
    <3>2. u + v \in Nat
      BY <3>1
    <3> QED
      BY <3>2, Zenon DEF u, v
  <2> QED
    BY <2>1, <2>2, Bits, Inboxes, Zenon
<1>x. /\ a # r /\ a # Nothing /\ r # Nothing /\ One(Routine, a) = 0 /\ One(Routine, r) = 0
      /\ a \in Sent /\ r \in Sent /\ a.flow = f /\ r.flow = f /\ a.type = "add" /\ r.type = "remove"
  <2>1. \A m \in {a, r} : m \notin {Nothing, Routine, Plain("uni")}
    BY Distinct, Zenon
  <2> QED
    BY <2>1, Distinct, SentTypes, Zenon DEF One
<1>h. \A n \in Nat : n + 0 = n
    OBVIOUS
<1> HIDE DEF a, r, c, d, wa, wr, i
<1>f. ASSUME UNCHANGED FlowIds, HandOf(loop', a) = HandOf(loop, a), HandOf(loop', r) = HandOf(loop, r)
      PROVE  c' = c /\ d' = d
    BY <1>f, Zenon DEF c, d, a, r
<1>v. ASSUME UNCHANGED <<pending, installed>>
      PROVE  Once(pending, a)' /\ Once(pending, r)' /\ wa' = wa /\ wr' = wr /\ i' = i
    BY <1>b, <1>v, Zenon DEF wa, wr, i, a, r, Once
<1>0. ASSUME UNCHANGED <<FlowIds, pending, installed>>, Inbox' = Inbox,
             HandOf(loop', a) = HandOf(loop, a), HandOf(loop', r) = HandOf(loop, r)
      PROVE  FlowOK(f)'
  <2>1. c' = c /\ d' = d
    BY <1>0, <1>f, Zenon
  <2>2. Once(pending, a)' /\ Once(pending, r)' /\ wa' = wa /\ wr' = wr /\ i' = i
    BY <1>0, <1>v, Zenon
  <2>3. Level(c', d', wa', wr', i', Inbox', a, r)
    BY <1>0, <1>b, <2>1, <2>2, Zenon
  <2> QED
    BY <1>g, <2>2, <2>3, Zenon
<1>q. ASSUME UNCHANGED <<channel, queue>> PROVE Inbox' = Inbox
    BY <1>q, Zenon DEF Inbox
<1>s. ASSUME UNCHANGED <<FlowIds, pending, installed, channel>>, Send(Routine) \/ queue' = queue,
             HandOf(loop', a) = HandOf(loop, a), HandOf(loop', r) = HandOf(loop, r)
      PROVE  FlowOK(f)'
  <2>1. CASE queue' = queue
    BY <1>0, <1>q, <1>s, <2>1, Zenon
  <2>2. CASE Send(Routine) /\ channel \in closed
    BY <1>0, <1>q, <1>s, <2>2, Sending, SentTypes, Zenon
  <2>3. CASE Send(Routine) /\ channel \notin closed
    <3>1. Inbox' = Append(Inbox, Routine) /\ Routine \in Sent
      BY <1>s, <2>3, InboxSend, SentTypes, Zenon
    <3>2. wa = wa + One(Routine, a) /\ wr = wr + One(Routine, r)
      BY <1>h, <1>t, <1>x, Zenon
    <3>3. Level(c, d, wa, wr, i, Append(Inbox, Routine), a, r)
      BY <1>b, <1>t, <1>x, <3>1, <3>2, LevelSend, Zenon
    <3>4. c' = c /\ d' = d
      BY <1>f, <1>s, Zenon
    <3>5. Once(pending, a)' /\ Once(pending, r)' /\ wa' = wa /\ wr' = wr /\ i' = i
      BY <1>s, <1>v, Zenon
    <3>6. Level(c', d', wa', wr', i', Inbox', a, r)
      BY <3>1, <3>3, <3>4, <3>5, Zenon
    <3> QED
      BY <1>g, <3>5, <3>6, Zenon
  <2> QED
    BY <1>s, <2>1, <2>2, <2>3, Zenon
<1>1. ASSUME NEW o \in Driver, NEW req \in Requests, Begin(o, req) PROVE FlowOK(f)'
  <2>1. UNCHANGED <<FlowIds, pending, installed>> /\ UNCHANGED <<channel, queue, loop>>
    BY <1>1, Zenon DEF Begin, voltha
  <2> QED
    BY <1>0, <1>q, <2>1, Zenon
<1>3. ASSUME NEW o \in Driver, NEW e \in Events, FireEvent(o, e) PROVE FlowOK(f)'
  <2>1. UNCHANGED <<FlowIds, pending, installed>> /\ UNCHANGED <<channel, queue, loop>>
    BY <1>3, Zenon DEF FireEvent, voltha
  <2> QED
    BY <1>0, <1>q, <2>1, Zenon
<1>4. ASSUME NEW o \in Driver, Drives(o) PROVE FlowOK(f)'
  <2>1. UNCHANGED <<FlowIds, pending, installed, channel>> /\ loop' = loop
    BY <1>4, Driving, Zenon DEF Driven
  <2>2. Send(Routine) \/ queue' = queue
    BY <1>4, Driving, Zenon
  <2> QED
    BY <1>s, <2>1, <2>2, Zenon
<1>5. ASSUME NEW o \in Driver, NEW l \in Loop, SpawnAgain(o, l) PROVE FlowOK(f)'
  <2>1. UNCHANGED <<FlowIds, pending, installed>> /\ UNCHANGED <<channel, queue>> /\ Spawn(l)
    BY <1>5, Zenon DEF SpawnAgain, voltha
  <2>2. loop[l].at = "none" /\ \E p \in Loops : Moves(l, p) /\ p.at = "ready"
    BY <2>1, Spawning, Zenon
  <2>3. \A m : HandOf(loop', m) = HandOf(loop, m)
    BY <2>2, HandSame, Zenon
  <2> QED
    BY <1>0, <1>q, <2>1, <2>3, Zenon
<1>6. ASSUME NEW l \in Loop, MakeChannel(l) PROVE FlowOK(f)'
  <2>1. UNCHANGED <<FlowIds, pending, installed>> /\ UNCHANGED queue
    BY <1>6, Making, Zenon
  <2>2. loop[l].at = "none" /\ \E p \in Loops : Moves(l, p) /\ p.at = "ready"
    BY <1>6, Making, Zenon
  <2>3. \A m : HandOf(loop', m) = HandOf(loop, m)
    BY <2>2, HandSame, Zenon
  <2>4. Inbox' = Inbox
    <3>1. \A k \in Channels : queue[k] = <<>>
      BY <1>6, <1>a, Making, Zenon
    <3>2. (channel # 0 => channel \in Channels) /\ channel' \in Channels
      <4>1. channel \in 0..MaxChannel /\ channel' = channel + 1 /\ channel < MaxChannel
        BY <1>6, Making, Zenon DEF TypeInv
      <4> QED
        BY <4>1, CapacityAssumption, SMTT(30) DEF Channels
    <3> QED
      BY <2>1, <3>1, <3>2, Zenon DEF Inbox
  <2> QED
    BY <1>0, <2>1, <2>3, <2>4, Zenon
<1>7. ASSUME Tells PROVE FlowOK(f)'
  <2>1. UNCHANGED <<FlowIds, pending, installed, channel>> /\ loop' = loop /\ (Send(Routine) \/ queue' = queue)
    BY <1>7, Telling, Zenon
  <2> QED
    BY <1>s, <2>1, Zenon
<1>8. ASSUME CloseIfNoFlows PROVE FlowOK(f)'
  <2>1. UNCHANGED <<FlowIds, pending, installed>> /\ UNCHANGED <<channel, queue, loop>>
    BY <1>8, Zenon DEF CloseIfNoFlows, voltha
  <2> QED
    BY <1>0, <1>q, <2>1, Zenon
<1>2. ASSUME NEW s \in Sender, Asks(s) PROVE FlowOK(f)'
  <2> DEFINE m == pending'[s]
  <2>1. /\ UNCHANGED <<channel, queue>> /\ UNCHANGED <<FlowIds, loop>>
        /\ pending[s] = Nothing /\ \A o \in Sender : o # s => pending'[o] = pending[o]
    BY <1>2, Asking, Zenon
  <2>2. Inbox' = Inbox /\ c' = c /\ d' = d
    BY <1>f, <1>q, <2>1, Zenon
  <2>t. wa' \in Nat /\ wr' \in Nat /\ i' \in Nat /\ One(m, a) \in {0, 1} /\ One(m, r) \in {0, 1}
    BY Bits, Zenon DEF wa, wr, i, a, r
  <2>3. ASSUME m = a => wa = 0, m = r => wr = 0
        PROVE  /\ wa' = wa + One(m, a) /\ wr' = wr + One(m, r)
               /\ Once(pending, a)' /\ Once(pending, r)'
    <3>1. (m = a => \A o \in Sender : pending[o] # a) /\ (m = r => \A o \in Sender : pending[o] # r)
      <4>1. 0 # 1
        OBVIOUS
      <4> QED
        BY <2>3, <4>1, Zenon DEF wa, wr, WayOf
    <3>d. NewIn(pending, pending', s, a) /\ NewIn(pending, pending', s, r)
      BY <1>x, <2>1, <3>1, Zenon DEF NewIn, Differ, Absent
    <3>2. OneNew(pending, pending', s, a) /\ OneNew(pending, pending', s, r)
      BY <3>d, WayOne, Zenon
    <3>4. Once(pending', a) /\ Once(pending', r)
      BY <1>b, <2>1, <3>1, Zenon DEF Once
    <3> QED
      BY <3>2, <3>4, Zenon DEF wa, wr, a, r, OneNew
  <2>4. ASSUME m = a => wa = 0, m = r => wr = 0, i' + One(m, r) = i + One(m, a), wa + One(m, a) <= i'
        PROVE  FlowOK(f)'
    <3>1. /\ wa' = wa + One(m, a) /\ wr' = wr + One(m, r)
          /\ Once(pending, a)' /\ Once(pending, r)'
      BY <2>3, <2>4, Zenon
    <3>2. wa' <= i' /\ i' + wr' + wa = i + wr + wa'
      <4> DEFINE u == wa'
                 v == wr'
                 j == i'
                 x == One(m, a)
                 y == One(m, r)
      <4>1. /\ u = wa + x /\ v = wr + y /\ j + y = i + x /\ wa + x <= j
            /\ wa \in Nat /\ wr \in Nat /\ i \in Nat /\ u \in Nat /\ v \in Nat /\ j \in Nat /\ x \in {0, 1} /\ y \in {0, 1}
        BY <1>t, <2>4, <2>t, <3>1, Zenon
      <4> HIDE DEF u, v, j, x, y, m
      <4>2. u <= j /\ j + v + wa = i + wr + u
        BY <4>1, SMTT(30)
      <4> QED
        BY <4>2, Zenon DEF u, v, j
    <3>3. Level(c, d, wa', wr', i', Inbox, a, r)
      BY <1>b, <1>t, <2>t, <3>2, LevelAsk, Zenon
    <3>4. Level(c', d', wa', wr', i', Inbox', a, r)
      BY <2>2, <3>3, Zenon
    <3> QED
      BY <1>g, <3>1, <3>4, Zenon
  <2>5. ASSUME m \notin {a, r}, i' = i PROVE FlowOK(f)'
    <3>1. One(m, a) = 0 /\ One(m, r) = 0
      BY <2>5, Zenon DEF One
    <3>2. wa <= i
      BY <1>b, Zenon DEF Level
    <3>3. i' + One(m, r) = i + One(m, a) /\ wa + One(m, a) <= i'
      BY <1>h, <1>t, <2>5, <3>1, <3>2, Zenon
    <3> QED
      BY <2>4, <2>5, <3>3, Zenon
  <2>6. ASSUME NEW g \in Flow, FlowAddToOnu(s, g) PROVE FlowOK(f)'
    <3>1. g \notin installed /\ installed' = installed \cup {g} /\ m = Add(g)
      BY <2>6, Zenon DEF FlowAddToOnu, About, TypeInv, Add
    <3>2. CASE g = f
      <4>1. m = a /\ i = 0 /\ i' = 1
        BY <3>1, <3>2, Zenon DEF i, InSet, a
      <4>2. wa <= i
        BY <1>b, Zenon DEF Level
      <4>3. wa = 0
        BY <1>t, <4>1, <4>2, SMTT(30)
      <4>4. One(m, a) = 1 /\ One(m, r) = 0 /\ m # r
        BY <1>x, <4>1, Zenon DEF One
      <4>5. 1 + 0 = 0 + 1 /\ 0 + 1 <= 1
        OBVIOUS
      <4> QED
        BY <2>4, <4>1, <4>3, <4>4, <4>5, Zenon
    <3>3. CASE g # f
      <4>1. m \notin {a, r}
        BY <3>1, <3>3, Distinct, Zenon DEF a, r
      <4>2. i' = i
        BY <3>1, <3>3, Zenon DEF i, InSet
      <4> QED
        BY <2>5, <4>1, <4>2, Zenon
    <3> QED
      BY <3>2, <3>3, Zenon
  <2>7. ASSUME NEW g \in Flow, FlowRemoveFromOnu(s, g) PROVE FlowOK(f)'
    <3>1. \E k \in 1..Len(FlowIds) : FlowIds[k] = g
      <4>1. (\A k \in 1..Len(FlowIds) : FlowIds[k] # g) => overtaken' = overtaken \cup {"removal"}
        BY <2>7, Zenon DEF FlowRemoveFromOnu, Overtakes
      <4> QED
        BY <4>1, Zenon
    <3>2. g \in installed /\ installed' = installed \ {g} /\ m = Rem(g) /\ \A o \in Sender : pending[o].flow # g
      BY <2>7, <3>1, Zenon DEF FlowRemoveFromOnu, About, TypeInv, Rem
    <3>3. CASE g = f
      <4>1. m = r /\ i = 1 /\ i' = 0
        BY <3>2, <3>3, Zenon DEF i, InSet, r
      <4>2. wa = 0 /\ wr = 0
        BY <1>x, <3>2, <3>3, Zenon DEF wa, wr, WayOf
      <4>4. One(m, r) = 1 /\ One(m, a) = 0 /\ m # a
        BY <1>x, <4>1, Zenon DEF One
      <4>5. 1 + 0 = 0 + 1 /\ 0 + 0 <= 0
        BY SMTT(30)
      <4> QED
        BY <2>4, <4>1, <4>2, <4>4, <4>5, Zenon
    <3>4. CASE g # f
      <4>1. m \notin {a, r}
        BY <3>2, <3>4, Distinct, Zenon DEF a, r
      <4>2. i' = i
        BY <3>2, <3>4, Zenon DEF i, InSet
      <4> QED
        BY <2>5, <4>1, <4>2, Zenon
    <3> QED
      BY <3>3, <3>4, Zenon
  <2>8. ASSUME NEW type \in OmciTypes, OmciMsgOut(s, type) PROVE FlowOK(f)'
    <3>1. m = Plain(type) /\ installed' = installed
      BY <2>8, Zenon DEF OmciMsgOut, About, TypeInv
    <3>2. m \in {Routine, Plain("uni")}
      BY <3>1, RequestsAssumption, Zenon DEF Routine
    <3>3. m \notin {a, r}
      BY <3>2, Distinct, Zenon DEF a, r
    <3> QED
      BY <2>5, <3>1, <3>3, Zenon DEF i
  <2>9. ASSUME OnuPacketOut(s) PROVE FlowOK(f)'
    <3>1. m = Routine /\ installed' = installed
      BY <2>9, Zenon DEF OnuPacketOut, About, TypeInv
    <3>2. m \notin {a, r}
      BY <3>1, Distinct, Zenon DEF a, r
    <3> QED
      BY <2>5, <3>1, <3>2, Zenon DEF i
  <2> QED
    BY <1>2, <2>6, <2>7, <2>8, <2>9, Zenon DEF Asks
<1>10. ASSUME NEW s \in Sender, SendPending(s) PROVE FlowOK(f)'
  <2> DEFINE m == pending[s]
  <2>1. /\ m \in Sent /\ m # Nothing /\ Send(m) /\ pending'[s] = Nothing
        /\ \A o \in Sender : o # s => pending'[o] = pending[o]
        /\ UNCHANGED <<channel, FlowIds, loop, installed>>
    BY <1>10, Zenon DEF SendPending, About, TypeInv
  <2>2. channel \notin closed
    BY <1>a, <2>1, Zenon DEF ClosedInv, Shut
  <2>3. Inbox' = Append(Inbox, m)
    BY <2>1, <2>2, InboxSend, Zenon
  <2>4. wa = wa' + One(m, a) /\ wr = wr' + One(m, r)
    <3>1. (m = a => Absent(pending', a)) /\ (m = r => Absent(pending', r))
      BY <1>b, <1>x, <2>1, Zenon DEF Once, Absent
    <3>2. NewIn(pending', pending, s, a) /\ NewIn(pending', pending, s, r)
      BY <1>x, <2>1, <3>1, Zenon DEF NewIn, Differ
    <3>3. OneNew(pending', pending, s, a) /\ OneNew(pending', pending, s, r)
      BY <3>2, WayOne, Zenon
    <3> QED
      BY <3>3, Zenon DEF wa, wr, a, r, OneNew
  <2>5. Once(pending, a)' /\ Once(pending, r)'
    <3>1. Once(pending', a) /\ Once(pending', r)
      BY <1>b, <1>x, <2>1, Zenon DEF Once
    <3> QED
      BY <3>1, Zenon DEF a, r
  <2>6. wa' \in Nat /\ wr' \in Nat
    BY Bits, Zenon DEF wa, wr, a, r
  <2> HIDE DEF m
  <2>7. Level(c, d, wa', wr', i, Append(Inbox, m), a, r)
    BY <1>b, <1>t, <1>x, <2>1, <2>4, <2>6, LevelSend, Zenon
  <2>8. c' = c /\ d' = d /\ i' = i
    BY <1>f, <2>1, Zenon DEF i
  <2>9. Level(c', d', wa', wr', i', Inbox', a, r)
    BY <2>3, <2>7, <2>8, Zenon
  <2> QED
    BY <1>g, <2>5, <2>9, Zenon
<1>9. ASSUME NEW l \in Loop, LoopStep(l) PROVE FlowOK(f)'
  <2>f. UNCHANGED <<pending, installed, channel, context>>
    BY <1>9, Looping, Zenon
  <2>v. Once(pending, a)' /\ Once(pending, r)' /\ wa' = wa /\ wr' = wr /\ i' = i
    BY <1>v, <2>f, Zenon
  <2>1. ASSUME NEW p, Moves(l, p), loop[l].at # "flow", p.at # "flow", UNCHANGED <<queue, FlowIds>> PROVE FlowOK(f)'
    <3>1. \A m : HandOf(loop', m) = HandOf(loop, m)
      BY <2>1, HandSame, Zenon
    <3> QED
      BY <1>0, <1>q, <2>1, <2>f, <3>1, Zenon
  <2>2. CASE Select(l)
    <3>1. loop[l].at # "flow" /\ UNCHANGED <<queue, FlowIds>>
      BY <2>2, Zenon DEF Select
    <3>2. PICK p \in Loops : Moves(l, p) /\ p.at = "wait"
      BY <2>2, Selecting, Zenon
    <3> QED
      BY <2>1, <3>1, <3>2, Zenon
  <2>3. CASE ChannelClosed(l)
    <3>1. loop[l].at # "flow" /\ UNCHANGED <<queue, FlowIds>> /\ End(l)
      BY <2>3, Zenon DEF ChannelClosed
    <3> QED
      BY <2>1, <3>1, Ending, Zenon
  <2>4. CASE CloseAfterLastFlow(l)
    <3>1. loop[l].at # "flow" /\ UNCHANGED <<queue, FlowIds>> /\ GoTo(l, "ready")
      BY <2>4, Zenon DEF CloseAfterLastFlow
    <3>2. PICK p \in Loops : Moves(l, p) /\ p.at = "ready"
      BY <3>1, GoingTo, Zenon
    <3> QED
      BY <2>1, <3>1, <3>2, Zenon
  <2>5. CASE Cancelled(l)
    <3>1. Live(l) /\ loop[l].ctx # context
      BY <2>5, Zenon DEF Cancelled, Live
    <3> QED
      BY <1>a, <3>1, Zenon DEF ReceiverInv
  <2>h. ASSUME Current(l), NEW p, Moves(l, p), NEW m
        PROVE  /\ loop[l].at = "flow" => HandOf(loop, m) = One(loop[l].msg, m)
               /\ loop[l].at # "flow" => HandOf(loop, m) = 0
               /\ p.at = "flow" => HandOf(loop', m) = One(p.msg, m)
               /\ p.at # "flow" => HandOf(loop', m) = 0
    <3>1. \A k \in Loop : k # l => loop[k].at # "flow" /\ loop'[k].at # "flow"
      BY <1>a, <2>h, Zenon DEF ReceiverInv, Current, Moves
    <3>2. loop'[l] = p
      BY <2>h, Zenon DEF Moves
    <3> QED
      BY <3>1, <3>2, HandOne, Zenon
  <2>6. CASE Receive(l)
    <3>1. loop[l].at = "wait" /\ loop[l].ch = channel /\ channel \in Channels /\ queue[channel] # <<>>
          /\ queue' = [queue EXCEPT ![channel] = Tail(@)]
      BY <1>a, <2>6, Receiving, Zenon DEF QueueInv
    <3> DEFINE h == Head(Inbox)
    <3>2. Inbox # <<>> /\ Inbox' = Tail(Inbox) /\ h = Head(queue[channel])
      BY <2>f, <3>1, InboxTake, Zenon
    <3>3. PICK p \in Loops : Moves(l, p) /\ p.msg = h /\ p.at = IF h.type \in Eventful THEN "flow" ELSE "ready"
      <4>1. PICK p \in Loops : /\ Moves(l, p) /\ p.msg = Head(queue[loop[l].ch])
                               /\ p.at = IF p.msg.type \in Eventful THEN "flow" ELSE "ready"
        BY <2>6, Receiving, Zenon
      <4>2. p.msg = h
        BY <3>1, <3>2, <4>1, Zenon
      <4> HIDE DEF h
      <4> QED
        BY <4>1, <4>2, Zenon
    <3>4. Current(l) /\ FlowIds' = FlowIds
      BY <2>6, <3>1, Zenon DEF Receive, Current
    <3>5. \A m \in {a, r} : HandOf(loop, m) = 0 /\ HandOf(loop', m) = One(h, m)
      <4>1. \A m \in {a, r} : h.type \notin Eventful => One(h, m) = 0
        BY <1>x, Zenon DEF One, Eventful
      <4> QED
        BY <2>h, <3>1, <3>3, <3>4, <4>1, ZenonT(30)
    <3>6. c' = c + One(h, a) /\ d' = d + One(h, r)
      <4>1. c' = Occ(FlowIds, f, Len(FlowIds)) + HandOf(loop', a) /\ d' = HandOf(loop', r)
        BY <3>4, Zenon DEF c, d, a, r
      <4>2. c = Occ(FlowIds, f, Len(FlowIds)) + 0 /\ d = 0
        BY <3>5, Zenon DEF c, d
      <4>3. One(h, r) \in {0, 1}
        BY Bits, Zenon
      <4>4. 0 + One(h, r) = One(h, r)
        BY <4>3
      <4> QED
        BY <1>h, <1>t, <3>5, <4>1, <4>2, <4>4, Zenon
    <3>7. Level(c + One(h, a), d + One(h, r), wa, wr, i, Tail(Inbox), a, r)
      BY <1>b, <1>t, <3>2, LevelTake, Zenon
    <3>8. Level(c', d', wa', wr', i', Inbox', a, r)
      BY <2>v, <3>2, <3>6, <3>7, Zenon
    <3> QED
      BY <1>g, <2>v, <3>8, Zenon
  <2>7. CASE HandleFlowAdd(l)
    <3>1. /\ loop[l].at = "flow" /\ loop[l].msg.type = "add" /\ UNCHANGED <<channel, queue>>
          /\ FlowIds' = Append(FlowIds, loop[l].msg.flow) /\ GoTo(l, "ready")
      BY <2>7, Zenon DEF HandleFlowAdd
    <3>2. PICK p \in Loops : Moves(l, p) /\ p.at = "ready"
      BY <3>1, GoingTo, Zenon
    <3>3. PICK g \in Flow : loop[l].msg = Add(g) /\ loop[l].msg.flow = g
      <4>1. loop[l].msg \in Sent
        BY LoopFields, Zenon
      <4>m. \A m \in Sent : m.type = "add" => \E g \in Flow : m = Add(g)
        BY Distinct, Zenon
      <4>2. PICK g \in Flow : loop[l].msg = Add(g)
        BY <3>1, <4>1, <4>m, Zenon
      <4>3. Add(g).flow = g
        BY Distinct, Zenon
      <4> QED
        BY <4>2, <4>3, Zenon
    <3>4. HandOf(loop, a) = One(g, f) /\ d = 0 /\ HandOf(loop', a) = 0 /\ d' = 0
      <4>1. Current(l)
        BY <3>1, Zenon DEF Current
      <4>2. One(Add(g), a) = One(g, f) /\ One(Add(g), r) = 0
        BY Distinct, Zenon DEF One, a, r
      <4>3. \A m : HandOf(loop, m) = One(Add(g), m) /\ HandOf(loop', m) = 0
        BY <2>h, <3>1, <3>2, <3>3, <4>1, Zenon
      <4> QED
        BY <4>2, <4>3, Zenon DEF d, r
    <3>5. Occ(FlowIds', f, Len(FlowIds')) = Occ(FlowIds, f, Len(FlowIds)) + One(g, f)
      <4>1. FlowIds \in Seq(Flow) /\ FlowIds' = Append(FlowIds, g)
        BY <3>1, <3>3, Zenon DEF TypeInv
      <4>2. Len(FlowIds') = Len(FlowIds) + 1
        BY <4>1
      <4>3. OneMore(FlowIds, FlowIds', g, f)
        BY <4>1, OccAppend, Zenon
      <4> QED
        BY <4>2, <4>3, Zenon DEF OneMore
    <3>6. c' = c
      <4>1. c' = Occ(FlowIds', f, Len(FlowIds')) + 0
        BY <3>4, Zenon DEF c, a
      <4>2. c = Occ(FlowIds, f, Len(FlowIds)) + One(g, f)
        BY <3>4, Zenon DEF c
      <4> QED
        BY <1>h, <1>t, <3>5, <4>1, <4>2, Zenon
    <3>7. Level(c', d', wa', wr', i', Inbox', a, r)
      BY <1>b, <1>q, <2>v, <3>1, <3>4, <3>6, Zenon
    <3> QED
      BY <1>g, <2>v, <3>7, Zenon
  <2>8. CASE HandleFlowRemove(l)
    <3>1. /\ loop[l].at = "flow" /\ loop[l].msg.type = "remove" /\ UNCHANGED <<channel, queue>>
          /\ FlowIds' = WithoutFirst(loop[l].msg.flow) /\ \E at \in {"ready", "close"} : GoTo(l, at)
      BY <2>8, Zenon DEF HandleFlowRemove
    <3>2. PICK p \in Loops : Moves(l, p) /\ p.at # "flow"
      BY <3>1, GoingTo, Zenon
    <3>3. PICK g \in Flow : loop[l].msg = Rem(g) /\ loop[l].msg.flow = g
      <4>1. loop[l].msg \in Sent
        BY LoopFields, Zenon
      <4>m. \A m \in Sent : m.type = "remove" => \E g \in Flow : m = Rem(g)
        BY Distinct, Zenon
      <4>2. PICK g \in Flow : loop[l].msg = Rem(g)
        BY <3>1, <4>1, <4>m, Zenon
      <4>3. Rem(g).flow = g
        BY Distinct, Zenon
      <4> QED
        BY <4>2, <4>3, Zenon
    <3>4. Current(l) /\ \A m : HandOf(loop, m) = One(Rem(g), m) /\ HandOf(loop', m) = 0
      <4>1. Current(l)
        BY <3>1, Zenon DEF Current
      <4> QED
        BY <2>h, <3>1, <3>2, <3>3, <4>1, Zenon
    <3>5. \E k \in 1..Len(FlowIds) : FlowIds[k] = g
      <4> SUFFICES ASSUME \A k \in 1..Len(FlowIds) : FlowIds[k] # g PROVE FALSE
        BY Zenon
      <4>1. Occ(FlowIds, g, Len(FlowIds)) = 0
        BY OccNone, Zenon
      <4>2. HandOf(loop, Rem(g)) = 1 /\ HandOf(loop, Add(g)) = 0
        BY <3>4, Distinct, Zenon DEF One
      <4>3. 0 \in 0..Len(Inbox) /\ Occ(Inbox, Rem(g), 0) = 0 /\ Occ(Inbox, Add(g), 0) = 0
        BY <1>t, OccLen, Zenon
      <4>4. FlowOK(g)
        BY <1>a, Zenon DEF FlowInv
      <4>5. 1 + 0 <= 0 + 0 + 0
        BY <4>1, <4>2, <4>3, <4>4, Zenon DEF FlowOK, Level
      <4> QED
        BY <4>5
    <3> DEFINE k == One(f, g)
    <3>6. Occ(FlowIds', f, Len(FlowIds')) \in Nat /\ Occ(FlowIds, f, Len(FlowIds)) = Occ(FlowIds', f, Len(FlowIds')) + k
      BY <3>1, <3>3, <3>5, Without, Zenon DEF TypeInv
    <3>7. HandOf(loop, a) = 0 /\ d = k /\ HandOf(loop', a) = 0 /\ d' = 0
      <4>1. One(Rem(g), r) = k /\ One(Rem(g), a) = 0
        BY Distinct, Zenon DEF One, a, r
      <4> QED
        BY <3>4, <4>1, Zenon DEF d, r
    <3>8. c' \in Nat /\ c = c' + k /\ d' \in Nat /\ d = d' + k /\ k \in Nat
      <4>1. k \in {0, 1}
        BY Bits, Zenon
      <4>2. k \in Nat /\ 0 + k = k /\ 0 \in Nat
        BY <4>1
      <4>3. c' = Occ(FlowIds', f, Len(FlowIds')) + 0
        BY <3>7, Zenon DEF c, a
      <4>4. c = Occ(FlowIds, f, Len(FlowIds)) + 0
        BY <3>7, Zenon DEF c
      <4> HIDE DEF k
      <4>5. c' = Occ(FlowIds', f, Len(FlowIds')) /\ c = Occ(FlowIds, f, Len(FlowIds))
        BY <1>h, <1>t, <3>6, <4>3, <4>4, Zenon
      <4> QED
        BY <3>6, <3>7, <4>2, <4>5, Zenon
    <3> HIDE DEF k
    <3>9. Level(c', d', wa, wr, i, Inbox, a, r)
      BY <1>b, <1>t, <3>8, LevelDone, Zenon
    <3>10. Level(c', d', wa', wr', i', Inbox', a, r)
      BY <1>q, <2>v, <3>1, <3>9, Zenon
    <3> QED
      BY <1>g, <2>v, <3>10, Zenon
  <2>9. CASE HandleUni(l)
    <3>1. loop[l].at = "flow" /\ loop[l].msg.type = "uni" /\ Send(Routine) /\ UNCHANGED FlowIds /\ GoTo(l, "ready")
      BY <2>9, Zenon DEF HandleUni
    <3>2. PICK p \in Loops : Moves(l, p) /\ p.at = "ready"
      BY <3>1, GoingTo, Zenon
    <3>3. Current(l) /\ \A m : HandOf(loop, m) = One(loop[l].msg, m) /\ HandOf(loop', m) = 0
      <4>1. Current(l)
        BY <3>1, Zenon DEF Current
      <4> QED
        BY <2>h, <3>1, <3>2, <4>1, Zenon
    <3>4. One(loop[l].msg, a) = 0 /\ One(loop[l].msg, r) = 0
      BY <1>x, <3>1, Zenon DEF One
    <3> QED
      BY <1>s, <2>f, <3>1, <3>3, <3>4, Zenon
  <2> QED
    BY <1>9, <2>2, <2>3, <2>4, <2>5, <2>6, <2>7, <2>8, <2>9, ZenonT(30) DEF LoopStep
<1> QED
    BY <1>1, <1>2, <1>3, <1>4, <1>5, <1>6, <1>7, <1>8, <1>9, <1>10, Kinds, Zenon

\* What is counted once is the set, and as long.
LEMMA CountedOnce ==
    ASSUME NEW S, NEW q \in Seq(S), NEW T \in SUBSET S, \A x \in S : Occ(q, x, Len(q)) = InSet(x, T)
    PROVE  {q[i] : i \in 1..Len(q)} = T /\ Len(q) = Cardinality(T)
<1> DEFINE P(x) == {i \in 1..Len(q) : q[i] = x}
<1>1. /\ Len(q) \in Nat /\ q \in [1..Len(q) -> S] /\ IsFiniteSet(1..Len(q))
      /\ \A i \in 1..Len(q) : q[i] \in S
    BY FS_Interval
<1>2. ASSUME NEW x \in S
      PROVE  (x \in T => \E i : P(x) = {i}) /\ (x \notin T => P(x) = {})
  <2>1. IsFiniteSet(P(x))
    <3>1. P(x) \in SUBSET (1..Len(q))
      BY Zenon
    <3> HIDE DEF P
    <3> QED
      BY <1>1, <3>1, FS_Subset, Zenon
  <2>2. Cardinality(P(x)) = InSet(x, T)
    BY Zenon DEF Occ
  <2> HIDE DEF P
  <2>3. x \in T => Cardinality(P(x)) = 1
    BY <2>2, Zenon DEF InSet
  <2>4. x \notin T => Cardinality(P(x)) = 0
    BY <2>2, Zenon DEF InSet
  <2> QED
    BY <2>1, <2>3, <2>4, FS_Singleton, FS_EmptySet, Zenon
<1>3. \A i \in 1..Len(q) : q[i] \in T
    BY <1>1, <1>2, Zenon
<1>4. \A x \in T : \E i \in 1..Len(q) : q[i] = x
    BY <1>2, Zenon
<1>5. ASSUME NEW i \in 1..Len(q), NEW j \in 1..Len(q), q[i] = q[j] PROVE i = j
  <2>1. PICK k : P(q[i]) = {k}
    BY <1>1, <1>2, <1>3, Zenon
  <2>2. i \in P(q[i]) /\ j \in P(q[i])
    BY <1>5, Zenon
  <2> HIDE DEF P
  <2> QED
    BY <2>1, <2>2, Zenon
<1>6. {q[i] : i \in 1..Len(q)} = T
    BY <1>3, <1>4, Zenon
<1>7. q \in Bijection(1..Len(q), T)
  <2>1. q \in [1..Len(q) -> T]
    BY <1>1, <1>3, Zenon
  <2>2. DOMAIN q = 1..Len(q)
    BY <2>1, Zenon
  <2> QED
    BY <1>4, <1>5, <2>1, <2>2, Zenon DEF Bijection, Injection, Surjection, IsInjective
<1>8. ExistsBijection(1..Len(q), T)
    BY <1>7, Zenon DEF ExistsBijection
<1>9. Cardinality(T) = Len(q)
    BY <1>1, <1>8, FS_CountingElements, Zenon
<1> QED
    BY <1>6, <1>9, Zenon

LEMMA FlowsExact ==
    ASSUME TypeInv, QueueInv, FlowInv
    PROVE  FlowIdsExact
<1> SUFFICES ASSUME Quiet, overtaken = {}
             PROVE  {FlowIds[i] : i \in 1..Len(FlowIds)} = installed /\ Len(FlowIds) = Cardinality(installed)
    BY Zenon DEF FlowIdsExact
<1>1. Inbox = <<>>
  <2>1. channel # 0 => channel \in Channels
    BY CapacityAssumption DEF TypeInv, Channels
  <2> QED
    BY <2>1, Zenon DEF Inbox, Quiet, Drained
<1>2. ASSUME NEW f \in Flow PROVE Occ(FlowIds, f, Len(FlowIds)) = InSet(f, installed)
  <2>1. HandOf(loop, Add(f)) = 0 /\ HandOf(loop, Rem(f)) = 0
    BY Zenon DEF Quiet, Drained, Working, HandOf
  <2>2. WayOf(pending, Add(f)) = 0 /\ WayOf(pending, Rem(f)) = 0
    <3>1. Add(f) # Nothing /\ Rem(f) # Nothing
      BY Distinct, Zenon
    <3> QED
      BY <3>1, Zenon DEF Quiet, WayOf
  <2>3. Occ(Inbox, Add(f), Len(Inbox)) = 0 /\ Occ(Inbox, Rem(f), Len(Inbox)) = 0
    <3>1. Len(<<>>) = 0
      OBVIOUS
    <3> QED
      BY <1>1, <3>1, OccZero, Zenon
  <2>4. FlowOK(f)
    BY Zenon DEF FlowInv
  <2> DEFINE o == Occ(FlowIds, f, Len(FlowIds))
             i == InSet(f, installed)
  <2>5. o + 0 + 0 + 0 = i + 0 + 0 + 0
    BY <2>1, <2>2, <2>3, <2>4, Zenon DEF FlowOK, Level
  <2>6. o \in Nat /\ i \in Nat
    BY OccLen, Bits, Zenon DEF TypeInv
  <2> HIDE DEF o, i
  <2>7. o = i
    BY <2>5, <2>6
  <2> QED
    BY <2>7, Zenon DEF o, i
<1>3. FlowIds \in Seq(Flow) /\ installed \in SUBSET Flow
    BY Zenon DEF TypeInv
<1> QED
    BY <1>2, <1>3, CountedOnce, Zenon

LEMMA FlowInit == ChannelInit => FlowInv
<1> SUFFICES ASSUME ChannelInit, NEW f \in Flow PROVE FlowOK(f)
    BY Zenon DEF FlowInv
<1>1. Once(pending, Add(f)) /\ Once(pending, Rem(f)) /\ WayOf(pending, Add(f)) = 0 /\ WayOf(pending, Rem(f)) = 0
  <2>1. Add(f) # Nothing /\ Rem(f) # Nothing
    BY Distinct, Zenon
  <2> QED
    BY <2>1, Zenon DEF ChannelInit, Once, WayOf
<1>2. HandOf(loop, Add(f)) = 0 /\ HandOf(loop, Rem(f)) = 0
  <2>1. \A l \in Loop : loop[l].at # "flow"
    BY DEF ChannelInit, NoLoop
  <2> QED
    BY <2>1, Zenon DEF HandOf
<1>3. /\ InSet(f, installed) = 0 /\ Inbox = <<>> /\ FlowIds = <<>>
    BY Zenon DEF ChannelInit, InSet, Inbox
<1>4. Len(<<>>) = 0 /\ (\A n \in 0..0 : n = 0) /\ 0 + 0 = 0 /\ 0 <= 0
    OBVIOUS
<1>5. \A x : Occ(<<>>, x, 0) = 0
    BY OccZero, Zenon
<1>6. Level(0 + 0, 0, 0, 0, 0, <<>>, Add(f), Rem(f))
    BY <1>4, <1>5, Zenon DEF Level
<1>7. Occ(FlowIds, f, Len(FlowIds)) = 0
    BY <1>3, <1>4, <1>5, Zenon
<1> QED
    BY <1>1, <1>2, <1>3, <1>6, <1>7, Zenon DEF FlowOK

-----------------------------------------------------------------------------
\* The messages of an ONU are handled by one goroutine at a time, and no send or close of its
\* channel panics, for any number of flows, handlers, drivers and goroutines, and for channels
\* of any capacity (ProcessOnuMessages, enter_initialized, enter_disabled, handleFlowRemove).
THEOREM ChannelOneReceiver == ChannelSpec => []OneReceiver
<1>1. ReceiveInv => OneReceiver
  <2> SUFFICES ASSUME ReceiveInv PROVE OneReceiver
    BY Zenon
  <2>1. ChannelTypeOK
    BY TypesFollow, Zenon DEF ReceiveInv
  <2>2. "close" \notin overtaken => ~died
    BY Zenon DEF ReceiveInv, DiedInv, Kept
  <2>3. ASSUME overtaken \subseteq {"removal"}
        PROVE  Cardinality({l \in Loop : Live(l) /\ loop[l].at # "ready" /\ loop[l].ch = channel}) <= 1
    <3> DEFINE R == {l \in Loop : Live(l) /\ loop[l].at # "ready" /\ loop[l].ch = channel}
    <3>1. \A l, k \in R : l = k
      <4>1. \A l \in Loop : loop[l].at \in {"none", "ready", "wait", "flow", "close"}
        BY LoopFields, Zenon DEF ReceiveInv
      <4>2. \A l \in R : l \in Loop /\ Current(l)
        BY <4>1, Zenon DEF Live, Current
      <4> QED
        BY <2>3, <4>2, Zenon DEF ReceiveInv, ReceiverInv, Alone
    <3> HIDE DEF R
    <3>2. CASE R = {}
      <4>1. Cardinality(R) = 0
        BY <3>2, FS_EmptySet, Zenon
      <4> QED
        BY <4>1 DEF R
    <3>3. CASE R # {}
      <4>1. PICK l : l \in R
        BY <3>3, Zenon
      <4>2. R = {l}
        BY <3>1, <4>1, Zenon
      <4>3. Cardinality(R) = 1
        BY <4>2, FS_Singleton, Zenon
      <4> QED
        BY <4>3 DEF R
    <3> QED
      BY <3>2, <3>3, Zenon
  <2> QED
    BY <2>1, <2>2, <2>3, Zenon DEF OneReceiver
<1> QED
    BY <1>1, ReceiveInvariant, PTL

-----------------------------------------------------------------------------

ServiceInv == ReceiveInv /\ FlowInv /\ AnnounceInv /\ ServeInv

LEMMA ServiceInit == ChannelInit => ServiceInv
<1> SUFFICES ASSUME ChannelInit PROVE AnnounceInv /\ ServeInv
    BY ReceiveInit, FlowInit, Zenon DEF ServiceInv
<1> QED
    BY Zenon DEF ChannelInit, AnnounceInv, ServeInv, InCallback

LEMMA ServiceStep == ServiceInv /\ [ChannelNext]_channelVars => ServiceInv'
<1>r. ASSUME ServiceInv, [ChannelNext]_channelVars PROVE ReceiveInv'
    BY <1>r, ReceiveStep, Zenon DEF ServiceInv
<1>1. ASSUME ServiceInv, ChannelNext PROVE ServiceInv'
  <2>1. ReceiveInv'
    BY <1>1, <1>r, Zenon
  <2> QED
    BY <1>1, <2>1, FlowInvStep, AnnounceInvStep, ServeInvStep, Zenon DEF ServiceInv, ReceiveInv
<1>2. ASSUME ServiceInv, UNCHANGED channelVars PROVE ServiceInv'
  <2>0. ReceiveInv'
    BY <1>2, <1>r, Zenon
  <2> USE <1>2 DEF ServiceInv, channelVars
  <2>1. FlowInv'
    BY Zenon DEF FlowInv, FlowOK, Inbox
  <2>2. AnnounceInv'
    BY Zenon DEF AnnounceInv, InCallback
  <2>3. ServeInv'
    BY Zenon DEF ServeInv, Served, Ended, Current
  <2> QED
    BY <2>0, <2>1, <2>2, <2>3, Zenon
<1> QED
    BY <1>1, <1>2, Zenon

LEMMA ServiceInvariant == ChannelSpec => []ServiceInv
BY ServiceInit, ServiceStep, PTL DEF ChannelSpec

\* FlowIds is what VOLTHA has installed whenever nothing is in progress, however many handlers
\* add and remove flows at the same time (handleFlowAdd, handleFlowRemove, FlowAdd, FlowRemove).
THEOREM ChannelFlowIdsExact == ChannelSpec => []FlowIdsExact
<1>1. ServiceInv => FlowIdsExact
    BY FlowsExact, Zenon DEF ServiceInv, ReceiveInv
<1> QED
    BY <1>1, ServiceInvariant, PTL

\* Nobody waits for ever to send to the ONU, but for its own goroutine, and the goroutine of a
\* disabled ONU without flows has ended (ProcessOnuMessages, enter_disabled, handleFlowRemove).
THEOREM ChannelLoopServes == ChannelSpec => []LoopServes
<1>1. ServiceInv => LoopServes
  <2> SUFFICES ASSUME ServiceInv, overtaken = {}
               PROVE  /\ Settled => Quiet \/ \E l \in Loop : loop[l].at = "flow"
                      /\ Quiet /\ state = "disabled" /\ installed = {} =>
                            \A l \in Loop : Live(l) => loop[l].ch # channel \/ channel \in closed
    BY Zenon DEF LoopServes
  <2>i. TypeInv /\ QueueInv /\ ZeroInv /\ FlowInv /\ ServeInv /\ Kept
    BY Zenon DEF ServiceInv, ReceiveInv, Kept
  <2>c. channel # 0 => channel \in Channels /\ queue[channel] \in Seq(Sent)
    <3>1. channel # 0 => channel \in Channels
      BY <2>i, CapacityAssumption, SMTT(30) DEF TypeInv, Channels
    <3> QED
      BY <2>i, <3>1, Zenon DEF TypeInv
  <2>1. ASSUME Settled, \A l \in Loop : loop[l].at # "flow" PROVE Quiet
    <3>1. \A l \in Loop : /\ ~Working(l)
                          /\ loop[l].at = "wait" /\ loop[l].ch # 0 => queue[loop[l].ch] = <<>>
      BY <2>1, Zenon DEF Settled, Working
    <3>2. channel # 0 => queue[channel] = <<>>
      BY <2>i, <3>1, Zenon DEF ServeInv, Served, Current, Working
    <3>3. \A k \in Channels : queue[k] = <<>>
      <4>1. 0 \notin Channels
        BY DEF Channels
      <4> QED
        BY <2>i, <3>2, <4>1, Zenon DEF QueueInv
    <3>4. Drained
      BY <3>1, <3>3, Zenon DEF Drained
    <3>5. CASE channel = 0
      <4>1. callback = Calm
        BY <2>1, <2>i, <3>5, Zenon DEF ZeroInv, Settled, InCallback
      <4>2. \A d \in Driver : prog[d] # <<>> => Head1(d, "initialize")
        BY <2>i, <3>5, <4>1, Zenon DEF ZeroInv, InCallback
      <4>3. \A d \in Driver : prog[d] = <<>>
        BY <2>1, <4>1, <4>2, Zenon DEF Settled, Head1
      <4> QED
        BY <2>i, <3>4, <3>5, <4>1, <4>3, Zenon DEF ZeroInv, Quiet
    <3>6. CASE channel # 0
      <4>1. CanSend
        <5>1. Len(queue[channel]) < Capacity
          <6>1. Len(<<>>) < Capacity
            BY CapacityAssumption
          <6> QED
            BY <3>2, <3>6, <6>1, Zenon
        <5> QED
          BY <3>6, <5>1, Zenon DEF CanSend
      <4>2. callback = Calm /\ \A s \in Sender : pending[s] = Nothing
        BY <2>1, <4>1, Zenon DEF Settled
      <4>3. \A d \in Driver : prog[d] = <<>>
        BY <2>1, <4>1, <4>2, Zenon DEF Settled
      <4> QED
        BY <3>4, <4>2, <4>3, Zenon DEF Quiet
    <3> QED
      BY <3>5, <3>6, Zenon
  <2>2. ASSUME Quiet, state = "disabled", installed = {}, NEW l \in Loop, Live(l), loop[l].ch = channel
        PROVE  channel \in closed
    <3>1. FlowIds = <<>>
      <4>1. Len(FlowIds) = Cardinality({})
        BY <2>2, <2>i, FlowsExact, Zenon DEF FlowIdsExact
      <4>2. Len(FlowIds) = 0
        BY <4>1, FS_EmptySet, Zenon
      <4>3. FlowIds \in Seq(Flow)
        BY <2>i, Zenon DEF TypeInv
      <4> QED
        BY <4>2, <4>3, SMTT(30)
    <3>2. callback = Calm /\ \A k \in Loop : loop[k].at # "close"
      BY <2>2, Zenon DEF Quiet, Drained, Working
    <3>3. channel # 0
      <4>1. "disabled" # "created"
        OBVIOUS
      <4> QED
        BY <2>2, <2>i, <3>2, <4>1, Zenon DEF ZeroInv, InCallback
    <3> QED
      BY <2>2, <2>i, <3>1, <3>2, <3>3, Zenon DEF ServeInv, Ended
  <2> QED
    BY <2>1, <2>2, Zenon
<1> QED
    BY <1>1, ServiceInvariant, PTL
===============================================================================
