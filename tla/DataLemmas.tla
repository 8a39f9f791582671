----------------------------- MODULE DataLemmas -----------------------------
(***************************************************************************)
(* Induction on the numbers, stated with sets, and what it shows of the     *)
(* part of a list that is selected.                                         *)
(***************************************************************************)
EXTENDS Selections, Integers, WellFoundedInduction, TLAPS

LEMMA LeastNumber ==
    ASSUME NEW T \in SUBSET Nat, T # {}
    PROVE  \E x \in T : \A y \in T : x <= y
<1>1. IsWellFoundedOn({p \in Nat \X Nat : p[1] < p[2]}, Nat)
  BY NatLessThanWellFounded DEF OpToRel
<1>2. PICK R : R = {p \in Nat \X Nat : p[1] < p[2]}
  OBVIOUS
<1>3. IsWellFoundedOn(R, Nat)
  BY <1>1, <1>2
<1>4. PICK x \in T : \A y \in T : <<y, x>> \notin R
  BY <1>3, WFMin
<1>5. \A y \in T : ~ (y < x)
  BY <1>2, <1>4
<1> QED
  BY <1>5

\* What holds at zero, and of a number's successor if of the number, holds always.
LEMMA EveryNumber ==
    ASSUME NEW S \in SUBSET Nat, 0 \in S, \A n \in S : n + 1 \in S
    PROVE  S = Nat
<1> SUFFICES ASSUME S # Nat PROVE FALSE
  OBVIOUS
<1>1. Nat \ S # {}
  OBVIOUS
<1>2. PICK x \in Nat \ S : \A y \in Nat \ S : x <= y
  BY <1>1, LeastNumber
<1>3. x # 0 /\ x - 1 \in Nat /\ x - 1 \notin Nat \ S
  BY <1>2
<1>4. x - 1 \in S
  BY <1>3
<1> QED
  BY <1>2, <1>3, <1>4

-----------------------------------------------------------------------------
(* Filtered. *)

\* f lists what is taken of the first k elements.
TakesUpTo(f, s, S) ==
    /\ DOMAIN f = 0..Len(s) /\ f[0] = <<>>
    /\ \A k \in 1..Len(s) : f[k] = IF s[k] \in S THEN Append(f[k - 1], s[k]) ELSE f[k - 1]

LEMMA FilteredTakes ==
    ASSUME NEW s, Len(s) \in Nat, NEW S
    PROVE  \E f : TakesUpTo(f, s, S) /\ Filtered(s, S) = f[Len(s)]
<1> DEFINE n == Len(s)
           Next1(a, k) == IF s[k] \in S THEN Append(a, s[k]) ELSE a
           F(f) == [k \in 0..Len(s) |->
                       IF k = 0 THEN <<>>
                       ELSE IF s[k] \in S THEN Append(f[k - 1], s[k]) ELSE f[k - 1]]
           c == CHOOSE f : f = F(f)
           W == {j \in Nat : \E f : /\ DOMAIN f = 0..j /\ f[0] = <<>>
                                    /\ \A k \in 1..j : f[k] = Next1(f[k - 1], k)}
<1>2. Filtered(s, S) = c[n]
  BY DEF Filtered
<1>3. 0 \in W
  <2>1. PICK f : f = [k \in {0} |-> <<>>]
    OBVIOUS
  <2>2. DOMAIN f = 0..0 /\ f[0] = <<>> /\ 1..0 = {}
    BY <2>1
  <2> HIDE DEF Next1
  <2> QED
    BY <2>2
<1>4. ASSUME NEW j \in W PROVE j + 1 \in W
  <2> HIDE DEF Next1
  <2>1. PICK f : /\ DOMAIN f = 0..j /\ f[0] = <<>>
                 /\ \A k \in 1..j : f[k] = Next1(f[k - 1], k)
    OBVIOUS
  <2>2. PICK g : g = [k \in 0..(j + 1) |-> IF k = j + 1 THEN Next1(f[j], j + 1) ELSE f[k]]
    OBVIOUS
  <2>3. /\ DOMAIN g = 0..(j + 1) /\ \A k \in 0..j : g[k] = f[k]
        /\ g[j + 1] = Next1(f[j], j + 1)
    BY <2>2
  <2>4. \A k \in 1..j : k \in 0..j /\ k - 1 \in 0..j
    OBVIOUS
  <2>5. \A k \in 1..(j + 1) : k \in 1..j \/ k = j + 1
    OBVIOUS
  <2>6. j + 1 - 1 = j /\ j \in 0..j
    OBVIOUS
  <2>7. \A k \in 1..(j + 1) : g[k] = Next1(g[k - 1], k)
    <3>1. \A k \in 1..j : g[k] = Next1(g[k - 1], k)
      BY <2>1, <2>3, <2>4
    <3>2. g[j + 1] = Next1(g[j + 1 - 1], j + 1)
      BY <2>3, <2>6
    <3> QED
      BY <2>5, <3>1, <3>2
  <2>8. g[0] = <<>> /\ j + 1 \in Nat
    BY <2>1, <2>3
  <2> QED
    BY <2>3, <2>7, <2>8
<1>5. n \in W
  <2> HIDE DEF W
  <2>1. W \in SUBSET Nat
    BY DEF W
  <2> QED
    BY <1>3, <1>4, <2>1, EveryNumber
<1>6. PICK f : DOMAIN f = 0..n /\ f[0] = <<>> /\ \A k \in 1..n : f[k] = Next1(f[k - 1], k)
  BY <1>5
<1>7. PICK g : g = [k \in 0..n |-> f[k]]
  OBVIOUS
<1>8. g = F(g)
  <2>1. \A k \in 0..n : k # 0 => k \in 1..n /\ k - 1 \in 0..n
    OBVIOUS
  <2>2. \A k \in 0..n : k # 0 => g[k] = Next1(g[k - 1], k)
    BY <1>6, <1>7, <2>1
  <2>3. g[0] = <<>>
    BY <1>6, <1>7
  <2> QED
    BY <1>7, <2>2, <2>3
<1>9. c = F(c)
  <2> HIDE DEF F
  <2> QED
    BY <1>8
<1>10. TakesUpTo(c, s, S)
  <2> HIDE DEF c
  <2>1. DOMAIN c = 0..Len(s) /\ c[0] = <<>>
    BY <1>9
  <2>2. ASSUME NEW k \in 1..Len(s)
        PROVE  c[k] = IF s[k] \in S THEN Append(c[k - 1], s[k]) ELSE c[k - 1]
    <3>1. k \in 0..Len(s) /\ k # 0
      OBVIOUS
    <3> QED
      BY <1>9, <3>1
  <2> QED
    BY <2>1, <2>2 DEF TakesUpTo
<1> HIDE DEF c
<1> QED
  BY <1>2, <1>10

\* Nothing is taken of nothing; and of one element more, that one if it is in S.
LEMMA FilteredEmpty ==
    ASSUME NEW S
    PROVE  Filtered(<<>>, S) = <<>>
<1>1. Len(<<>>) = 0
  OBVIOUS
<1> QED
  BY <1>1, FilteredTakes DEF TakesUpTo

LEMMA FilteredAppend ==
    ASSUME NEW A, NEW s \in Seq(A), NEW x \in A, NEW S
    PROVE  Filtered(Append(s, x), S)
             = IF x \in S THEN Append(Filtered(s, S), x) ELSE Filtered(s, S)
<1>1. PICK n \in Nat : n = Len(s)
  OBVIOUS
<1>2. PICK t : t = Append(s, x)
  OBVIOUS
<1>3. Len(t) = n + 1 /\ t[n + 1] = x /\ \A k \in 1..n : t[k] = s[k]
  BY <1>1, <1>2
<1>4. PICK f : TakesUpTo(f, s, S) /\ Filtered(s, S) = f[n]
  BY <1>1, FilteredTakes
<1>5. PICK g : TakesUpTo(g, t, S) /\ Filtered(t, S) = g[n + 1]
  <2>1. Len(t) \in Nat
    BY <1>3
  <2> QED
    BY <1>3, <2>1, FilteredTakes
<1> DEFINE W == {k \in Nat : k <= n => f[k] = g[k]}
<1>6. 0 \in W
  BY <1>4, <1>5 DEF TakesUpTo
<1>7. ASSUME NEW k \in W PROVE k + 1 \in W
  <2> SUFFICES ASSUME k + 1 <= n PROVE f[k + 1] = g[k + 1]
    OBVIOUS
  <2>1. k + 1 \in 1..n /\ k + 1 \in 1..(n + 1) /\ k + 1 - 1 = k /\ f[k] = g[k]
    BY <1>1
  <2>2. f[k + 1] = IF s[k + 1] \in S THEN Append(f[k], s[k + 1]) ELSE f[k]
    BY <1>1, <1>4, <2>1 DEF TakesUpTo
  <2>3. g[k + 1] = IF t[k + 1] \in S THEN Append(g[k], t[k + 1]) ELSE g[k]
    BY <1>3, <1>5, <2>1 DEF TakesUpTo
  <2> QED
    BY <1>3, <2>1, <2>2, <2>3
<1>8. f[n] = g[n]
  <2> HIDE DEF W
  <2>1. W \in SUBSET Nat
    BY DEF W
  <2>2. n \in W
    BY <1>1, <1>6, <1>7, <2>1, EveryNumber
  <2> QED
    BY <1>1, <2>2 DEF W
<1>9. g[n + 1] = IF x \in S THEN Append(g[n], x) ELSE g[n]
  <2>1. n + 1 \in 1..(n + 1) /\ n + 1 - 1 = n
    BY <1>1
  <2> QED
    BY <1>3, <1>5, <2>1 DEF TakesUpTo
<1> QED
  BY <1>2, <1>4, <1>5, <1>8, <1>9

\* A list whose elements differ under a key keeps that.
Apart(s, K) == \A i, j \in DOMAIN s : K[s[i]] = K[s[j]] => i = j

LEMMA FilteredKeeps ==
    ASSUME NEW A, NEW s \in Seq(A), NEW S, NEW K
    PROVE  /\ Filtered(s, S) \in Seq(A)
           /\ \A i \in DOMAIN Filtered(s, S) :
                 Filtered(s, S)[i] \in S /\ \E j \in DOMAIN s : Filtered(s, S)[i] = s[j]
           /\ Apart(s, K) => Apart(Filtered(s, S), K)
<1>1. PICK n \in Nat : n = Len(s)
  OBVIOUS
<1>2. DOMAIN s = 1..n /\ \A k \in 1..n : s[k] \in A
  BY <1>1
<1>3. PICK f : TakesUpTo(f, s, S) /\ Filtered(s, S) = f[n]
  BY <1>1, FilteredTakes
<1> DEFINE Good(q, k) == /\ q \in Seq(A)
                         /\ \A i \in DOMAIN q : q[i] \in S /\ \E j \in 1..k : q[i] = s[j]
                         /\ Apart(s, K) => Apart(q, K)
           W == {k \in Nat : k <= n => Good(f[k], k)}
<1>4. 0 \in W
  <2>1. Good(<<>>, 0)
    BY DEF Apart
  <2> HIDE DEF Good
  <2> QED
    BY <1>3, <2>1 DEF TakesUpTo
<1>5. ASSUME NEW k \in W PROVE k + 1 \in W
  <2> SUFFICES ASSUME k + 1 <= n PROVE Good(f[k + 1], k + 1)
    OBVIOUS
  <2>1. k \in Nat /\ k + 1 \in 1..n /\ k + 1 - 1 = k
    BY <1>1
  <2>2. PICK q : q = f[k]
    OBVIOUS
  <2>3. Good(q, k)
    BY <2>1, <2>2
  <2>4. PICK x \in A : x = s[k + 1]
    BY <1>2, <2>1
  <2>5. f[k + 1] = IF x \in S THEN Append(q, x) ELSE q
    BY <1>1, <1>3, <2>1, <2>2, <2>4 DEF TakesUpTo
  <2>6. CASE x \notin S
    <3>1. \A j \in 1..k : j \in 1..(k + 1)
      BY <2>1
    <3> QED
      BY <2>3, <2>5, <2>6, <3>1
  <2>7. CASE x \in S
    <3>1. PICK m \in Nat : m = Len(q)
      BY <2>3
    <3>2. PICK t : t = Append(q, x)
      OBVIOUS
    <3>3. /\ t \in Seq(A) /\ DOMAIN t = 1..(m + 1) /\ DOMAIN q = 1..m
          /\ t[m + 1] = x /\ \A i \in 1..m : t[i] = q[i]
      BY <2>3, <3>1, <3>2
    <3>4. \A i \in 1..(m + 1) : i \in 1..m \/ i = m + 1
      BY <3>1
    <3>5. \A j \in 1..k : j \in 1..(k + 1)
      BY <2>1
    <3>6. ASSUME NEW i \in DOMAIN t PROVE t[i] \in S /\ \E j \in 1..(k + 1) : t[i] = s[j]
      <4>1. CASE i = m + 1
        <5>1. k + 1 \in 1..(k + 1)
          BY <2>1
        <5> QED
          BY <2>4, <2>7, <3>3, <4>1, <5>1
      <4>2. CASE i \in 1..m
        BY <2>3, <3>3, <3>5, <4>2
      <4> QED
        BY <3>3, <3>4, <4>1, <4>2
    <3>7. ASSUME Apart(s, K) PROVE Apart(t, K)
      <4>1. \A i \in 1..m : K[t[i]] # K[x]
        <5> SUFFICES ASSUME NEW i \in 1..m, K[t[i]] = K[x] PROVE FALSE
          OBVIOUS
        <5>1. PICK j \in 1..k : q[i] = s[j]
          BY <2>3, <3>3
        <5>2. j \in DOMAIN s /\ k + 1 \in DOMAIN s /\ j # k + 1
          BY <1>2, <2>1
        <5>3. K[s[j]] = K[s[k + 1]]
          BY <2>4, <3>3, <5>1
        <5> QED
          BY <3>7, <5>2, <5>3 DEF Apart
      <4>2. Apart(q, K)
        BY <2>3, <3>7
      <4>3. \A i, j \in 1..m : K[t[i]] = K[t[j]] => i = j
        BY <3>3, <4>2 DEF Apart
      <4> QED
        BY <3>3, <3>4, <4>1, <4>3 DEF Apart
    <3> QED
      BY <2>5, <2>7, <3>2, <3>3, <3>6, <3>7
  <2> QED
    BY <2>6, <2>7
<1>6. Good(f[n], n)
  <2> HIDE DEF W
  <2>1. W \in SUBSET Nat
    BY DEF W
  <2>2. n \in W
    BY <1>4, <1>5, <2>1, EveryNumber
  <2> QED
    BY <1>1, <2>2 DEF W
<1> HIDE DEF Good
<1>7. Good(Filtered(s, S), n)
  BY <1>3, <1>6
<1> QED
  BY <1>2, <1>7 DEF Good
=============================================================================
