----------------------------- MODULE ReadyQueue -----------------------------
(***************************************************************************)
(* Order in a queue of handles, and what the operations of an event loop   *)
(* keep of it: the queue is asked for what it holds and for what is ahead  *)
(* of what, and the lemmas say how the answers change when its head is     *)
(* taken off or a handle, or a set of them, is put at its end.             *)
(***************************************************************************)
EXTENDS SequencesExt, SequenceTheorems, FiniteSetTheorems, TLAPS

(* t is in q once, if at all. *)
Single(q, t) == \A i, j \in 1 .. Len(q) : q[i] = t /\ q[j] = t => i = j

(* No y is reached before an x. *)
Ahead(q, x, y) == \A j \in 1 .. Len(q) : q[j] = y => \E i \in 1 .. (j - 1) : q[i] = x

(* Every x is reached before any y. *)
AllAhead(q, x, y) == \A i, j \in 1 .. Len(q) : q[i] = x /\ q[j] = y => i < j

(* r is q with t at its end. *)
Pushed(q, t, r) ==
  /\ \A u : Contains(r, u) <=> Contains(q, u) \/ u = t
  /\ \A u : Single(q, u) /\ (u = t => ~ Contains(q, u)) => Single(r, u)
  /\ \A x, y : Ahead(q, x, y) /\ (y = t => Contains(q, x)) => Ahead(r, x, y)
  /\ \A x, y : AllAhead(q, x, y) /\ x # y /\ (x = t => ~ Contains(q, y))
                 => AllAhead(r, x, y)

(* r is q without its head h. *)
Popped(q, h, r) ==
  /\ Contains(q, h)
  /\ \A u : Contains(q, u) <=> Contains(r, u) \/ u = h
  /\ \A u : Single(q, u) => Single(r, u)
  /\ Single(q, h) => ~ Contains(r, h)
  /\ \A x, y : Ahead(q, x, y) /\ x # h => Ahead(r, x, y)
  /\ \A x : ~ Ahead(q, x, h)
  /\ \A x, y : AllAhead(q, x, y) => AllAhead(r, x, y)
  /\ \A x : AllAhead(q, x, h) /\ x # h => ~ Contains(r, x)

(* r is q with the members of S, in some order, at its end. *)
Joined(q, S, r) ==
  /\ \A u : Contains(r, u) <=> Contains(q, u) \/ u \in S
  /\ \A u : Single(q, u) /\ (u \in S => ~ Contains(q, u)) => Single(r, u)
  /\ \A x, y : Ahead(q, x, y) /\ y \notin S => Ahead(r, x, y)
  /\ \A x, y : AllAhead(q, x, y) /\ x \notin S => AllAhead(r, x, y)

-----------------------------------------------------------------------------
(* What is not in the queue is there once, and ahead of and behind all.    *)
LEMMA Absent ==
  ASSUME NEW q, NEW x, NEW y
  PROVE  /\ ~ Contains(q, x) => Single(q, x)
         /\ ~ Contains(q, y) => Ahead(q, x, y)
         /\ ~ Contains(q, x) \/ ~ Contains(q, y) => AllAhead(q, x, y)
BY DEF Contains, Single, Ahead, AllAhead

LEMMA PushedIs ==
  ASSUME NEW H, NEW q \in Seq(H), NEW t \in H
  PROVE  Append(q, t) \in Seq(H) /\ Pushed(q, t, Append(q, t))
<1> DEFINE r == Append(q, t)
           n == Len(q)
<1>1. n \in Nat /\ Len(r) = n + 1 /\ r \in Seq(H)
  OBVIOUS
<1>2. (\A i \in 1 .. n : r[i] = q[i]) /\ r[n + 1] = t
  OBVIOUS
<1> HIDE DEF r, n
<1>3. \A u : Contains(r, u) <=> Contains(q, u) \/ u = t
  BY <1>1, <1>2 DEF Contains, n
<1>4. \A u : Single(q, u) /\ (u = t => ~ Contains(q, u)) => Single(r, u)
  BY <1>1, <1>2 DEF Contains, Single, n
<1>5. \A x, y : Ahead(q, x, y) /\ (y = t => Contains(q, x)) => Ahead(r, x, y)
  BY <1>1, <1>2 DEF Contains, Ahead, n
<1>6. \A x, y : AllAhead(q, x, y) /\ x # y /\ (x = t => ~ Contains(q, y))
                  => AllAhead(r, x, y)
  BY <1>1, <1>2 DEF Contains, AllAhead, n
<1> QED
  BY <1>1, <1>3, <1>4, <1>5, <1>6 DEF Pushed, r

LEMMA PoppedIs ==
  ASSUME NEW H, NEW q \in Seq(H), q # <<>>
  PROVE  Tail(q) \in Seq(H) /\ Popped(q, Head(q), Tail(q))
<1> DEFINE r == Tail(q)
           h == Head(q)
           n == Len(r)
<1>1. n \in Nat /\ Len(q) = n + 1 /\ r \in Seq(H) /\ h = q[1]
  OBVIOUS
<1>2. \A i \in 1 .. n : r[i] = q[i + 1]
  OBVIOUS
<1>3. \A i \in 2 .. (n + 1) : q[i] = r[i - 1] /\ i - 1 \in 1 .. n
  BY <1>1, <1>2
<1> HIDE DEF r, h, n
<1>4. Contains(q, h) /\ \A u : Contains(q, u) <=> Contains(r, u) \/ u = h
  BY <1>1, <1>2, <1>3 DEF Contains, n
<1>5. (\A u : Single(q, u) => Single(r, u)) /\ (Single(q, h) => ~ Contains(r, h))
  BY <1>1, <1>2 DEF Contains, Single, n
<1>6. \A x, y : Ahead(q, x, y) /\ x # h => Ahead(r, x, y)
  <2> SUFFICES ASSUME NEW x, NEW y, Ahead(q, x, y), x # h,
                      NEW j \in 1 .. n, r[j] = y
               PROVE  \E i \in 1 .. (j - 1) : r[i] = x
    BY DEF Ahead, n
  <2>1. PICK i \in 1 .. j : q[i] = x
    BY <1>1, <1>2 DEF Ahead
  <2>2. i # 1 /\ i - 1 \in 1 .. (j - 1) /\ i \in 2 .. (n + 1)
    BY <1>1, <2>1
  <2> QED
    BY <1>3, <2>1, <2>2
<1>7. \A x : ~ Ahead(q, x, h)
  BY <1>1 DEF Ahead
<1>8. \A x, y : AllAhead(q, x, y) => AllAhead(r, x, y)
  BY <1>1, <1>2 DEF AllAhead, n
<1>9. \A x : AllAhead(q, x, h) /\ x # h => ~ Contains(r, x)
  BY <1>1, <1>2 DEF AllAhead, Contains, n
<1> QED
  BY <1>1, <1>4, <1>5, <1>6, <1>7, <1>8, <1>9 DEF Popped, r, h

(* SetToSeq lists a finite set without repetition.                         *)
LEMMA Listed ==
  ASSUME NEW S, IsFiniteSet(S)
  PROVE  /\ SetToSeq(S) \in Seq(S)
         /\ \A u : Contains(SetToSeq(S), u) <=> u \in S
         /\ \A u : Single(SetToSeq(S), u)
<1> DEFINE n == Cardinality(S)
           s == SetToSeq(S)
<1>1. n \in Nat
  BY FS_CardinalityType
<1>2. PICK f : f \in Bijection(1 .. n, S)
  BY FS_CardinalityType, Zenon DEF ExistsBijection
<1>3. f \in [1 .. n -> S] /\ IsInjective(f)
  BY <1>2 DEF Bijection, Injection, IsInjective
<1>4. s \in [1 .. n -> S] /\ IsInjective(s)
  BY <1>3 DEF SetToSeq
<1> HIDE DEF s
<1>5. s \in Seq(S) /\ Len(s) = n
  BY <1>1, <1>4, SeqDef
<1>6. ASSUME NEW u \in S, \A i \in 1 .. n : s[i] # u
      PROVE  FALSE
  <2>1. IsFiniteSet(S \ {u}) /\ Cardinality(S \ {u}) = n - 1
    BY FS_RemoveElement
  <2>2. IsFiniteSet(1 .. n) /\ Cardinality(1 .. n) = n
    BY <1>1, FS_Interval
  <2>3. s \in [1 .. n -> S \ {u}]
    BY <1>4, <1>6
  <2>4. \E i, j \in 1 .. n : i # j /\ s[i] = s[j]
    BY <1>1, <2>1, <2>2, <2>3, FS_PigeonHole
  <2> QED
    BY <1>4, <2>4 DEF IsInjective
<1> QED
  BY <1>4, <1>5, <1>6 DEF Contains, Single, IsInjective, s

LEMMA JoinedIs ==
  ASSUME NEW H, NEW q \in Seq(H), NEW S \in SUBSET H, IsFiniteSet(S)
  PROVE  q \o SetToSeq(S) \in Seq(H) /\ Joined(q, S, q \o SetToSeq(S))
<1> DEFINE s == SetToSeq(S)
           r == q \o s
           n == Len(q)
<1>1. /\ s \in Seq(H)
      /\ \A u : Contains(s, u) <=> u \in S
      /\ \A u : Single(s, u)
  BY Listed
<1> HIDE DEF s
<1>2. /\ n \in Nat /\ Len(s) \in Nat /\ Len(r) = n + Len(s) /\ r \in Seq(H)
      /\ \A i \in 1 .. n : r[i] = q[i]
      /\ \A i \in (n + 1) .. (n + Len(s)) : r[i] = s[i - n] /\ i - n \in 1 .. Len(s)
  BY <1>1, ConcatProperties
<1>3. \A i \in 1 .. Len(s) : i + n \in (n + 1) .. (n + Len(s)) /\ s[i] = r[i + n]
  BY <1>2
<1> HIDE DEF r, n
<1>4. \A u : Contains(r, u) <=> Contains(q, u) \/ u \in S
  <2>1. ASSUME NEW u, Contains(r, u)
        PROVE  Contains(q, u) \/ Contains(s, u)
    <3>1. PICK i \in 1 .. Len(r) : r[i] = u
      BY <2>1 DEF Contains
    <3>2. CASE i \in 1 .. n
      BY <1>2, <3>1, <3>2 DEF Contains, n
    <3>3. CASE i \in (n + 1) .. (n + Len(s))
      <4>1. s[i - n] = u /\ i - n \in 1 .. Len(s)
        BY <1>2, <3>1, <3>3
      <4> QED
        BY <4>1 DEF Contains
    <3> QED
      BY <1>2, <3>1, <3>2, <3>3
  <2>2. \A u : Contains(q, u) => Contains(r, u)
    BY <1>2 DEF Contains, n
  <2>3. \A u : Contains(s, u) => Contains(r, u)
    BY <1>2, <1>3 DEF Contains
  <2> QED
    BY <1>1, <2>1, <2>2, <2>3
<1>5. \A i \in 1 .. Len(r) : i <= n \/ r[i] \in S
  BY <1>1, <1>2 DEF Contains
<1>6. \A u : Single(q, u) /\ (u \in S => ~ Contains(q, u)) => Single(r, u)
  <2> SUFFICES ASSUME NEW u, Single(q, u), u \in S => ~ Contains(q, u),
                      NEW i \in 1 .. Len(r), NEW j \in 1 .. Len(r),
                      r[i] = u, r[j] = u
               PROVE  i = j
    BY DEF Single
  <2>1. CASE i <= n \/ j <= n
    <3>1. i <= n /\ j <= n
      BY <1>2, <1>5, <2>1 DEF Contains, n
    <3> QED
      BY <1>2, <3>1 DEF Single, n
  <2>2. CASE ~ (i <= n) /\ ~ (j <= n)
    <3>1. Single(s, u)
      BY <1>1
    <3>2. i \in (n + 1) .. (n + Len(s)) /\ j \in (n + 1) .. (n + Len(s))
      BY <1>2, <2>2
    <3>3. /\ i - n \in 1 .. Len(s) /\ s[i - n] = u
          /\ j - n \in 1 .. Len(s) /\ s[j - n] = u
      BY <1>2, <3>2
    <3>4. i - n = j - n
      BY <3>1, <3>3 DEF Single
    <3> QED
      BY <1>2, <3>4
  <2> QED
    BY <2>1, <2>2
<1>7. \A x, y : Ahead(q, x, y) /\ y \notin S => Ahead(r, x, y)
  <2> SUFFICES ASSUME NEW x, NEW y, Ahead(q, x, y), y \notin S,
                      NEW j \in 1 .. Len(r), r[j] = y
               PROVE  \E i \in 1 .. (j - 1) : r[i] = x
    BY DEF Ahead
  <2>1. j \in 1 .. n /\ q[j] = y
    BY <1>2, <1>5
  <2>2. PICK i \in 1 .. (j - 1) : q[i] = x
    BY <2>1 DEF Ahead, n
  <2> QED
    BY <1>2, <2>1, <2>2
<1>8. \A x, y : AllAhead(q, x, y) /\ x \notin S => AllAhead(r, x, y)
  BY <1>2, <1>5 DEF AllAhead, n
<1> QED
  BY <1>2, <1>4, <1>6, <1>7, <1>8 DEF Joined, r, s
=============================================================================
