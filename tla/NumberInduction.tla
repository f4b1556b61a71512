-------------------------- MODULE NumberInduction --------------------------
(***************************************************************************)
(* Induction on the natural numbers with sets in place of predicates: the  *)
(* induction theorems of the library take an operator as a parameter, and  *)
(* the provers in use cannot instantiate one.  A proof that every number   *)
(* has a property takes the set of the numbers that have it.  The first    *)
(* use of it are the lemmas about Subsequences.                            *)
(***************************************************************************)
EXTENDS Subsequences, SequenceTheorems, Integers, FiniteSets, FiniteSetTheorems, WellFoundedInduction, TLAPS

(* Every set of numbers that is not empty has a least one: of the          *)
(* intervals 0..n, ordered by inclusion, one is minimal.                   *)
LEMMA LeastNumber ==
  ASSUME NEW T \in SUBSET Nat, T # {}
  PROVE  \E n \in T : \A k \in T : n <= k
<1> DEFINE U == {0..n : n \in T}
<1>1. \A n \in Nat : 0..n \in FiniteSubsetsOf(Nat)
  BY FS_Interval DEF FiniteSubsetsOf
<1>2. \E x \in U : \A y \in U : ~(<<y, x>> \in StrictSubsetOrdering(Nat))
  <2>1. U \subseteq FiniteSubsetsOf(Nat) /\ U # {}
    BY <1>1
  <2> QED  BY <2>1, WFMin, FS_StrictSubsetOrderingWellFounded
<1>3. PICK n \in T : \A k \in T : ~(<<0..k, 0..n>> \in StrictSubsetOrdering(Nat))
  BY <1>2
<1>4. ASSUME NEW k \in T PROVE n <= k
  <2>1. n \in Nat /\ k \in Nat
    OBVIOUS
  <2>2. ASSUME k < n PROVE FALSE
    <3>1. 0..k \in SUBSET (0..n) /\ 0..k # 0..n
      BY <2>1, <2>2
    <3>2. 0..k \in SUBSET Nat /\ 0..n \in SUBSET Nat
      BY <2>1
    <3> QED  BY <1>3, <3>1, <3>2 DEF StrictSubsetOrdering
  <2> QED  BY <2>1, <2>2
<1> QED  BY <1>4

LEMMA SetInduction ==
  ASSUME NEW S, 0 \in S, \A n \in Nat : n \in S => n + 1 \in S
  PROVE  \A n \in Nat : n \in S
<1> SUFFICES ASSUME Nat \ S # {} PROVE FALSE
  OBVIOUS
<1>1. PICK n \in Nat \ S : \A k \in Nat \ S : n <= k
  BY LeastNumber
<1>2. n # 0 /\ n - 1 \in Nat
  OBVIOUS
<1>3. n - 1 \in S
  BY <1>1, <1>2
<1> QED  BY <1>2, <1>3

-----------------------------------------------------------------------------
(* The recursion of Upto is well-founded.                                  *)
LEMMA UptoDef ==
  ASSUME NEW S, NEW s \in Seq(S), NEW positions
  PROVE  Upto(s, positions) =
           [n \in 0..Len(s) |->
              IF n = 0 THEN <<>>
              ELSE IF n \in positions THEN Append(Upto(s, positions)[n - 1], s[n])
                   ELSE Upto(s, positions)[n - 1]]
<1> DEFINE Body(f, n) == IF n = 0 THEN <<>>
                         ELSE IF n \in positions THEN Append(f[n - 1], s[n]) ELSE f[n - 1]
           T == {n \in Nat : \E f : f = [i \in 0..n |-> Body(f, i)]}
<1>1. 0 \in T
  <2> DEFINE f == [i \in 0..0 |-> <<>>]
  <2>1. f = [i \in 0..0 |-> Body(f, i)]
    OBVIOUS
  <2> QED  BY <2>1
<1>2. ASSUME NEW n \in Nat, n \in T PROVE n + 1 \in T
  <2>1. PICK f : f = [i \in 0..n |-> Body(f, i)]
    BY <1>2
  <2> DEFINE g == [i \in 0..(n + 1) |-> IF i <= n THEN f[i] ELSE Body(f, i)]
  <2>2. ASSUME NEW i \in 0..(n + 1) PROVE g[i] = Body(g, i)
    <3>1. CASE i = 0
      <4>1. g[i] = f[i] /\ f[i] = <<>>
        BY <2>1, <3>1
      <4> QED  BY <3>1, <4>1
    <3>2. CASE i # 0
      <4>1. i - 1 \in 0..n /\ i - 1 \in 0..(n + 1) /\ i - 1 <= n
        BY <3>2
      <4>2. g[i - 1] = f[i - 1]
        BY <4>1
      <4>3. Body(g, i) = Body(f, i)
        BY <4>2
      <4>4. g[i] = Body(f, i)
        <5> HIDE DEF Body
        <5>1. CASE i <= n
          <6>1. i \in 0..n
            BY <5>1
          <6> QED  BY <2>1, <5>1, <6>1
        <5>2. CASE ~(i <= n)
          BY <5>2
        <5> QED  BY <5>1, <5>2
      <4> QED  BY <4>3, <4>4
    <3> QED  BY <3>1, <3>2
  <2> HIDE DEF Body
  <2>3. g = [i \in 0..(n + 1) |-> Body(g, i)]
    BY <2>2
  <2> HIDE DEF g
  <2> QED  BY <2>3
<1>3. Len(s) \in T
  <2> HIDE DEF T
  <2>1. Len(s) \in Nat
    OBVIOUS
  <2> QED  BY <1>1, <1>2, <2>1, SetInduction
<1> HIDE DEF Body
<1>4. \E f : f = [i \in 0..Len(s) |-> Body(f, i)]
  BY <1>3
<1>5. Upto(s, positions) = CHOOSE f : f = [i \in 0..Len(s) |-> Body(f, i)]
  BY DEF Upto, Body
<1>6. Upto(s, positions) = [i \in 0..Len(s) |-> Body(Upto(s, positions), i)]
  BY <1>4, <1>5
<1> QED  BY <1>6 DEF Body

(* A part has the elements at the given positions and no others, the last  *)
(* one at its end, and is shorter unless all positions are given.          *)
LEMMA PartProperties ==
  ASSUME NEW S, NEW s \in Seq(S), NEW positions
  PROVE  /\ Part(s, positions) \in Seq(S)
         /\ Len(Part(s, positions)) <= Len(s)
         /\ \A i \in 1..Len(s) : i \notin positions => Len(Part(s, positions)) < Len(s)
         /\ \A k \in 1..Len(Part(s, positions)) : \E i \in 1..Len(s) :
              /\ i \in positions /\ Part(s, positions)[k] = s[i]
              /\ i = Len(s) => k = Len(Part(s, positions))
         /\ \A i \in 1..Len(s) : i \in positions =>
              \E k \in 1..Len(Part(s, positions)) : Part(s, positions)[k] = s[i]
<1> DEFINE U == Upto(s, positions)
           Good(n, t) ==
             /\ t \in Seq(S) /\ Len(t) <= n
             /\ \A i \in 1..n : i \notin positions => Len(t) < n
             /\ \A k \in 1..Len(t) : \E i \in 1..n :
                  i \in positions /\ t[k] = s[i] /\ (i = n => k = Len(t))
             /\ \A i \in 1..n : i \in positions => \E k \in 1..Len(t) : t[k] = s[i]
           T == {n \in Nat : n <= Len(s) => Good(n, U[n])}
<1>1. U = [n \in 0..Len(s) |->
             IF n = 0 THEN <<>>
             ELSE IF n \in positions THEN Append(U[n - 1], s[n]) ELSE U[n - 1]]
  BY UptoDef
<1> HIDE DEF U
<1>2. 0 \in T
  <2>1. U[0] = <<>>
    BY <1>1
  <2>2. <<>> \in Seq(S) /\ Len(<<>>) = 0
    BY EmptySeq
  <2>3. Good(0, <<>>)
    BY <2>2
  <2> QED  BY <2>1, <2>3
<1>3. ASSUME NEW n \in Nat, n \in T PROVE n + 1 \in T
  <2> HIDE DEF Good
  <2> SUFFICES ASSUME n + 1 <= Len(s) PROVE Good(n + 1, U[n + 1])
    OBVIOUS
  <2>1. Good(n, U[n])
    BY <1>3
  <2> USE DEF Good
  <2>2. U[n + 1] = IF n + 1 \in positions THEN Append(U[n], s[n + 1]) ELSE U[n]
    <3>1. n + 1 \in 0..Len(s) /\ n + 1 # 0 /\ (n + 1) - 1 = n
      OBVIOUS
    <3> QED  BY <1>1, <3>1
  <2>3. s[n + 1] \in S
    OBVIOUS
  <2> DEFINE t == U[n]
             u == Append(t, s[n + 1])
  <2>4. CASE n + 1 \in positions
    <3>1. /\ u \in Seq(S) /\ Len(u) = Len(t) + 1 /\ Len(t) \in Nat
          /\ \A k \in 1..Len(t) : u[k] = t[k]
          /\ u[Len(t) + 1] = s[n + 1]
      BY <2>1, <2>3
    <3> HIDE DEF t, u
    <3>2. \A i \in 1..(n + 1) : i \notin positions => Len(u) < n + 1
      BY <2>1, <2>4, <3>1 DEF t
    <3>3. ASSUME NEW k \in 1..Len(u)
          PROVE  \E i \in 1..(n + 1) : i \in positions /\ u[k] = s[i] /\ (i = n + 1 => k = Len(u))
      <4>1. CASE k = Len(t) + 1
        BY <2>4, <3>1, <4>1
      <4>2. CASE k # Len(t) + 1
        <5>1. k \in 1..Len(t)
          BY <3>1, <4>2
        <5>2. PICK i \in 1..n : i \in positions /\ t[k] = s[i]
          BY <2>1, <5>1 DEF t
        <5> QED  BY <3>1, <5>1, <5>2
      <4> QED  BY <4>1, <4>2
    <3>4. ASSUME NEW i \in 1..(n + 1), i \in positions
          PROVE  \E k \in 1..Len(u) : u[k] = s[i]
      <4>1. CASE i = n + 1
        BY <3>1, <4>1
      <4>2. CASE i # n + 1
        <5>1. i \in 1..n
          BY <4>2
        <5>2. PICK k \in 1..Len(t) : t[k] = s[i]
          BY <2>1, <3>4, <5>1 DEF t
        <5> QED  BY <3>1, <5>2
      <4> QED  BY <4>1, <4>2
    <3>5. Len(u) <= n + 1
      BY <2>1, <3>1 DEF t
    <3>6. U[n + 1] = u
      BY <2>2, <2>4 DEF u, t
    <3> QED  BY <3>1, <3>2, <3>3, <3>4, <3>5, <3>6
  <2>5. CASE n + 1 \notin positions
    <3>1. U[n + 1] = t /\ Len(t) \in Nat
      BY <2>1, <2>2, <2>5
    <3> HIDE DEF t
    <3>2. Good(n, t)
      BY <2>1 DEF t
    <3>3. \A k \in 1..Len(t) : \E i \in 1..(n + 1) :
            i \in positions /\ t[k] = s[i] /\ (i = n + 1 => k = Len(t))
      BY <2>5, <3>2
    <3>4. \A i \in 1..(n + 1) : i \in positions => \E k \in 1..Len(t) : t[k] = s[i]
      <4>1. \A i \in 1..(n + 1) : i \in positions => i \in 1..n
        BY <2>5
      <4> QED  BY <3>2, <4>1
    <3> QED  BY <3>1, <3>2, <3>3, <3>4
  <2> QED  BY <2>4, <2>5
<1>4. Len(s) \in Nat
  OBVIOUS
<1>5. Len(s) \in T
  <2> HIDE DEF T
  <2> QED  BY <1>2, <1>3, <1>4, SetInduction
<1>6. Good(Len(s), U[Len(s)])
  BY <1>4, <1>5
<1> HIDE DEF Good
<1>7. Good(Len(s), Part(s, positions))
  BY <1>6 DEF Part, U
<1> QED  BY <1>7 DEF Good

LEMMA PartRange ==
  ASSUME NEW S, NEW s \in Seq(S), NEW positions, NEW part, part = Part(s, positions)
  PROVE  /\ part \in Seq(S)
         /\ \A k \in DOMAIN part : \E i \in DOMAIN s : i \in positions /\ part[k] = s[i]
         /\ \A i \in DOMAIN s : i \in positions => \E k \in DOMAIN part : part[k] = s[i]
<1>1. /\ part \in Seq(S)
      /\ \A k \in 1..Len(part) : \E i \in 1..Len(s) : i \in positions /\ part[k] = s[i]
  BY PartProperties
<1>2. \A i \in 1..Len(s) : i \in positions =>
        \E k \in 1..Len(Part(s, positions)) : Part(s, positions)[k] = s[i]
  BY PartProperties
<1>3. DOMAIN part = 1..Len(part) /\ DOMAIN s = 1..Len(s)
  BY <1>1
<1> QED  BY <1>1, <1>2, <1>3
=============================================================================
