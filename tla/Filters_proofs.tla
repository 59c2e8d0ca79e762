---------------------------- MODULE Filters_proofs ----------------------------
(***************************************************************************)
(* What the filter Those returns, for every sequence and every set.  Its   *)
(* definition is recursive, so the proof is by induction over the length:  *)
(* a set of numbers that holds 0, and n + 1 with every n, holds every      *)
(* natural number, because < is well founded.                              *)
(***************************************************************************)
EXTENDS Filters, Integers, WellFoundedInduction, TLAPS

(* A set of natural numbers that is not empty has a least element.          *)
LEMMA Least ==
  ASSUME NEW T, T \subseteq Nat, T # {}
  PROVE \E x \in T : \A y \in T : x <= y
<1> DEFINE R == {p \in Nat \X Nat : p[1] < p[2]}
<1>1. IsWellFoundedOn(R, Nat) BY NatLessThanWellFounded DEF OpToRel
<1>2. \A x, y \in Nat : ~ (<<y, x>> \in R) => x <= y OBVIOUS
<1>3. \E x \in T : \A y \in T : ~ (<<y, x>> \in R)
  <2> HIDE DEF R
  <2> QED BY <1>1, WFMin, Zenon
<1> HIDE DEF R
<1> QED BY <1>2, <1>3

(* Induction with a set in the place of a predicate.                        *)
LEMMA InductionOverNat ==
  ASSUME NEW S, 0 \in S, \A n \in Nat : n \in S => n + 1 \in S
  PROVE Nat \subseteq S
<1> SUFFICES ASSUME Nat \ S # {} PROVE FALSE  OBVIOUS
<1>1. PICK x \in Nat \ S : \A y \in Nat \ S : x <= y BY Least
<1>2. x # 0 /\ x - 1 \in Nat BY <1>1
<1>3. x - 1 \in S BY <1>1, <1>2
<1>4. x - 1 + 1 \in S BY <1>2, <1>3
<1>5. x - 1 + 1 = x BY <1>2
<1> QED BY <1>4, <1>5

(* The recursion in Those has a solution.                                   *)
LEMMA UpToExists ==
  ASSUME NEW S, NEW s, Len(s) \in Nat
  PROVE  \E u : u = [n \in 0 .. Len(s) |->
                       IF n = 0 THEN <<>>
                       ELSE IF s[n] \in S THEN Append(u[n - 1], s[n])
                       ELSE u[n - 1]]
<1> DEFINE Next(u, n) == IF n = 0 THEN <<>>
                         ELSE IF s[n] \in S THEN Append(u[n - 1], s[n])
                         ELSE u[n - 1]
           Solved == {m \in Nat : \E u : u = [n \in 0 .. m |-> Next(u, n)]}
<1>1. 0 \in Solved
  <2>1. <<>> = Next(<<>>, 0) OBVIOUS
  <2> DEFINE u == [n \in 0 .. 0 |-> <<>>]
  <2>2. u = [n \in 0 .. 0 |-> Next(u, n)]
    <3>1. \A n \in 0 .. 0 : n = 0 OBVIOUS
    <3> QED BY <3>1
  <2> HIDE DEF Next, u
  <2> QED BY <2>2
<1>2. ASSUME NEW m \in Nat, m \in Solved PROVE m + 1 \in Solved
  <2>1. PICK u : u = [n \in 0 .. m |-> Next(u, n)] BY <1>2
  <2> DEFINE v == [n \in 0 .. m + 1 |-> IF n = m + 1 THEN Next(u, n) ELSE u[n]]
  <2>2. ASSUME NEW n \in 0 .. m + 1 PROVE Next(v, n) = Next(u, n)
    <3>1. n # 0 => n - 1 \in 0 .. m + 1 /\ n - 1 # m + 1 OBVIOUS
    <3>2. n # 0 => v[n - 1] = u[n - 1] BY <3>1
    <3> HIDE DEF v
    <3> QED BY <3>2
  <2>3. ASSUME NEW n \in 0 .. m + 1 PROVE v[n] = Next(v, n)
    <3>1. CASE n = m + 1
      <4>1. v[n] = Next(u, n) BY <3>1
      <4> HIDE DEF v, Next
      <4> QED BY <4>1, <2>2
    <3>2. CASE n # m + 1
      <4>1. n \in 0 .. m BY <3>2
      <4>2. v[n] = u[n] BY <3>2
      <4>3. u[n] = Next(u, n)
        <5> HIDE DEF v, Next
        <5> QED BY <4>1, <2>1
      <4> HIDE DEF v, Next
      <4> QED BY <4>2, <4>3, <2>2
    <3> QED BY <3>1, <3>2
  <2>4. v = [n \in 0 .. m + 1 |-> v[n]] OBVIOUS
  <2>5. v = [n \in 0 .. m + 1 |-> Next(v, n)]
    <3> HIDE DEF v, Next
    <3> QED BY <2>3, <2>4
  <2> HIDE DEF v, Next
  <2> QED BY <2>5
<1>3. Len(s) \in Solved
  <2> HIDE DEF Solved
  <2> QED BY <1>1, <1>2, InductionOverNat
<1> QED BY <1>3

(* Those is the last value of that solution.                                *)
LEMMA UpTo ==
  ASSUME NEW S, NEW s, Len(s) \in Nat
  PROVE  \E u : /\ Those(S, s) = u[Len(s)]
                /\ u = [n \in 0 .. Len(s) |->
                       IF n = 0 THEN <<>>
                       ELSE IF s[n] \in S THEN Append(u[n - 1], s[n])
                       ELSE u[n - 1]]
<1> DEFINE Eq(u) == u = [n \in 0 .. Len(s) |->
                       IF n = 0 THEN <<>>
                       ELSE IF s[n] \in S THEN Append(u[n - 1], s[n])
                       ELSE u[n - 1]]
           c == CHOOSE u : Eq(u)
<1>1. \E u : Eq(u) BY ZenonT(60), UpToExists
<1>2. Eq(c)
  <2> HIDE DEF Eq
  <2> QED BY <1>1
<1>3. Those(S, s) = c[Len(s)] BY DEF Those
<1> HIDE DEF c
<1> QED BY <1>2, <1>3

(* t is a subsequence of s: f says where each element of t comes from.      *)
Picks(f, t, s) ==
    /\ f \in [1 .. Len(t) -> 1 .. Len(s)]
    /\ \A i \in 1 .. Len(t) : t[i] = s[f[i]]
    /\ \A i, j \in 1 .. Len(t) : i < j => f[i] < f[j]

(* Those returns the elements of s that are in S, each one once and in their*)
(* order: it is a subsequence, and it leaves none of them out.              *)
LEMMA ThoseFacts ==
  ASSUME NEW T, NEW s \in Seq(T), NEW S
  PROVE  /\ Those(S, s) \in Seq(T \cap S)
         /\ \E f : /\ Picks(f, Those(S, s), s)
                   /\ \A j \in 1 .. Len(s) : s[j] \in S =>
                         \E i \in 1 .. Len(Those(S, s)) : f[i] = j
<1> DEFINE N == Len(s)
           Next(u, n) == IF n = 0 THEN <<>>
                         ELSE IF s[n] \in S THEN Append(u[n - 1], s[n])
                         ELSE u[n - 1]
<1>0. N \in Nat OBVIOUS
<1>1. PICK u : Those(S, s) = u[N] /\ u = [n \in 0 .. N |-> Next(u, n)]
  BY <1>0, UpTo, ZenonT(60)
<1>2. u[0] = <<>>
  <2>1. u[0] = Next(u, 0)
    <3> HIDE DEF Next, N
    <3> QED BY <1>0, <1>1
  <2> QED BY <2>1
<1>3. ASSUME NEW n \in Nat, n + 1 \in 0 .. N
      PROVE  u[n + 1] = IF s[n + 1] \in S THEN Append(u[n], s[n + 1]) ELSE u[n]
  <2>1. u[n + 1] = Next(u, n + 1)
    <3> HIDE DEF Next, N
    <3> QED BY <1>0, <1>1, <1>3
  <2>2. n + 1 # 0 /\ n + 1 - 1 = n OBVIOUS
  <2> QED BY <2>1, <2>2
<1> DEFINE Good(f, t, n) ==
             /\ f \in [1 .. Len(t) -> 1 .. n]
             /\ \A i \in 1 .. Len(t) : t[i] = s[f[i]]
             /\ \A i, j \in 1 .. Len(t) : i < j => f[i] < f[j]
             /\ \A j \in 1 .. n : s[j] \in S => \E i \in 1 .. Len(t) : f[i] = j
           Done == {n \in Nat : n <= N => /\ u[n] \in Seq(T \cap S)
                                          /\ \E f : Good(f, u[n], n)}
<1>4. 0 \in Done
  <2>1. u[0] \in Seq(T \cap S) /\ Len(u[0]) = 0 BY <1>2
  <2> DEFINE f == [i \in 1 .. 0 |-> 1]
  <2>2. Good(f, u[0], 0) BY <2>1
  <2> QED BY <2>1, <2>2
<1>5. ASSUME NEW n \in Nat, n \in Done PROVE n + 1 \in Done
  <2> SUFFICES ASSUME n + 1 <= N
               PROVE  u[n + 1] \in Seq(T \cap S) /\ \E f : Good(f, u[n + 1], n + 1)
    OBVIOUS
  <2>1. u[n] \in Seq(T \cap S) BY <1>5
  <2>2. PICK f : Good(f, u[n], n) BY <1>5
  <2>3. s[n + 1] \in T OBVIOUS
  <2> DEFINE t == u[n]
             L == Len(t)
  <2>4. L \in Nat BY <2>1
  <2>5. CASE s[n + 1] \in S
    <3> DEFINE g == [i \in 1 .. L + 1 |-> IF i = L + 1 THEN n + 1 ELSE f[i]]
               r == Append(t, s[n + 1])
    <3>1. u[n + 1] = r
      <4>1. n + 1 \in 0 .. N BY <1>0
      <4> HIDE DEF N
      <4> QED BY <4>1, <1>3, <2>5
    <3>2. /\ r \in Seq(T \cap S) /\ Len(r) = L + 1
          /\ r[L + 1] = s[n + 1] /\ \A i \in 1 .. L : r[i] = t[i]
      BY <2>1, <2>3, <2>5
    <3>3. g \in [1 .. L + 1 -> 1 .. n + 1] BY <2>2, <2>4
    <3>4. \A i \in 1 .. L + 1 : r[i] = s[g[i]] BY <3>2, <2>2, <2>4
    <3>5. ASSUME NEW i \in 1 .. L + 1, NEW j \in 1 .. L + 1, i < j
          PROVE  g[i] < g[j]
      <4>1. i \in 1 .. L /\ f[i] \in 1 .. n /\ g[i] = f[i] BY SMTT(60), <3>5, <2>2, <2>4
      <4>2. CASE j = L + 1 BY <4>1, <4>2
      <4>3. CASE j # L + 1
        <5>1. j \in 1 .. L /\ g[j] = f[j] BY <4>3, <2>4
        <5> QED BY <4>1, <5>1, <3>5, <2>2
      <4> QED BY <4>2, <4>3
    <3>6. ASSUME NEW j \in 1 .. n + 1, s[j] \in S PROVE \E i \in 1 .. L + 1 : g[i] = j
      <4>1. CASE j = n + 1
        <5>1. L + 1 \in 1 .. L + 1 /\ g[L + 1] = j BY <4>1, <2>4
        <5> QED BY <5>1
      <4>2. CASE j # n + 1
        <5>1. PICK i \in 1 .. L : f[i] = j BY <4>2, <3>6, <2>2
        <5>2. i \in 1 .. L + 1 /\ g[i] = j BY <5>1, <2>4
        <5> QED BY <5>2
      <4> QED BY <4>1, <4>2
    <3>7. Good(g, r, n + 1)
      <4> HIDE DEF g, r
      <4> QED BY <3>2, <3>3, <3>4, <3>5, <3>6
    <3> HIDE DEF Good, g, r
    <3> QED BY <3>1, <3>2, <3>7
  <2>6. CASE s[n + 1] \notin S
    <3>1. u[n + 1] = t BY <1>3, <2>6
    <3>2. f \in [1 .. L -> 1 .. n + 1] BY <2>2
    <3>3. \A j \in 1 .. n + 1 : s[j] \in S => \E i \in 1 .. L : f[i] = j BY <2>2, <2>6
    <3>4. Good(f, t, n + 1) BY <2>2, <3>2, <3>3
    <3> HIDE DEF Good
    <3> QED BY <3>1, <3>4, <2>1
  <2> QED BY <2>5, <2>6
<1>7. N \in Done
  <2> HIDE DEF Done, N
  <2> QED BY <1>4, <1>5, <1>0, InductionOverNat
<1>8. Those(S, s) \in Seq(T \cap S) /\ \E f : Good(f, Those(S, s), N)
  BY <1>1, <1>0, <1>7
<1> QED BY <1>8 DEF Picks
=============================================================================
