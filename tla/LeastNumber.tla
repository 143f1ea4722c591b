------------------------------ MODULE LeastNumber -------------------------------
(***************************************************************************)
(* A non-empty set of natural numbers has a least element: what a CHOOSE   *)
(* of the first index, slot or address rests on.  In place of induction: a *)
(* function defined by recursion on 0 .. n, from either end or from all    *)
(* the later values, exists.                                               *)
(***************************************************************************)
EXTENDS WellFoundedInduction, TLAPS

Less == {p \in Nat \X Nat : p[1] < p[2]}

LEMMA NatWellFounded == IsWellFoundedOn({p \in Nat \X Nat : p[1] < p[2]}, Nat)
BY NatLessThanWellFounded DEF OpToRel

LEMMA LeastOf ==
  ASSUME NEW T, T \subseteq Nat, T # {}
  PROVE  \E x \in T : \A y \in T : x <= y
<1>1. IsWellFoundedOn(Less, Nat)
  BY NatWellFounded DEF Less
<1>2. \E x \in T : \A y \in T : ~ (<<y, x>> \in Less)
  BY <1>1, WFMin
<1>3. PICK x \in T : \A y \in T : ~ (<<y, x>> \in Less)
  BY <1>2
<1>4. \A y \in T : ~ (y < x)
  BY <1>3 DEF Less
<1> QED BY <1>4

(* A function on 0 .. n given from its end: the last value, and each by    *)
(* the next.                                                               *)
FromItsEnd(f, n, S, e, F) ==
  /\ f \in [0 .. n -> S]
  /\ f[n] = e /\ \A i \in 0 .. n : i # n => f[i] = F[<<i, f[i + 1]>>]

LEMMA DownRecursion ==
  ASSUME NEW n \in Nat, NEW S, NEW e \in S, NEW F \in [(0 .. n) \X S -> S]
  PROVE  \E f : FromItsEnd(f, n, S, e, F)
<1> DEFINE From(k, f) == f[n] = e /\ \A i \in n - k .. n : i # n => f[i] = F[<<i, f[i + 1]>>]
           T == {k \in 0 .. n : ~ \E f \in [0 .. n -> S] : From(k, f)}
<1>1. T = {}
  <2>1. SUFFICES ASSUME T # {} PROVE FALSE
    OBVIOUS
  <2>2. PICK k \in T : \A y \in T : k <= y
    <3>1. T \subseteq Nat
      OBVIOUS
    <3> HIDE DEF T
    <3> QED BY <2>1, <3>1, LeastOf
  <2>3. k \in 0 .. n /\ ~ \E f \in [0 .. n -> S] : From(k, f)
    BY <2>2
  <2>4. CASE k = 0
    <3> DEFINE f == [i \in 0 .. n |-> e]
    <3>1. f \in [0 .. n -> S] /\ From(k, f)
      BY <2>4
    <3> QED BY <2>3, <3>1
  <2>5. CASE k # 0
    <3>1. k - 1 \in 0 .. n /\ k - 1 \notin T
      <4>1. k - 1 \in 0 .. n /\ ~ k <= k - 1
        BY <2>3, <2>5
      <4> HIDE DEF T
      <4> QED BY <2>2, <4>1
    <3>2. PICK f \in [0 .. n -> S] : From(k - 1, f)
      BY <3>1
    <3> DEFINE i0 == n - k
               g == [f EXCEPT ![i0] = F[<<i0, f[i0 + 1]>>]]
    <3>3. i0 \in 0 .. n /\ i0 # n /\ i0 + 1 \in 0 .. n
      BY <2>3, <2>5
    <3>4. F[<<i0, f[i0 + 1]>>] \in S
      BY <3>3
    <3>5. g \in [0 .. n -> S] /\ g[i0] = F[<<i0, f[i0 + 1]>>] /\ \A i \in 0 .. n : i # i0 => g[i] = f[i]
      BY <3>3, <3>4
    <3>6. From(k, g)
      <4>1. g[n] = e
        BY <3>2, <3>3, <3>5
      <4>2. ASSUME NEW i \in n - k .. n, i # n PROVE g[i] = F[<<i, g[i + 1]>>]
        <5> HIDE DEF g
        <5>1. CASE i = i0
          <6>1. g[i0 + 1] = f[i0 + 1]
            BY <3>3, <3>5
          <6> QED BY <3>5, <5>1, <6>1
        <5>2. CASE i # i0
          <6>1. i \in n - (k - 1) .. n /\ i \in 0 .. n /\ i + 1 \in 0 .. n /\ i + 1 # i0
            BY <2>3, <4>2, <5>2
          <6>2. f[i] = F[<<i, f[i + 1]>>]
            BY <3>2, <4>2, <6>1
          <6> QED BY <3>5, <5>2, <6>1, <6>2
        <5> QED BY <5>1, <5>2
      <4> HIDE DEF g
      <4> QED BY <4>1, <4>2
    <3> HIDE DEF g
    <3> QED BY <2>3, <3>5, <3>6
  <2> QED BY <2>4, <2>5
<1>2. n \in 0 .. n /\ n - n = 0
  OBVIOUS
<1>3. PICK f \in [0 .. n -> S] : From(n, f)
  <2>1. n \notin T
    BY <1>1
  <2> HIDE DEF From
  <2> QED BY <1>2, <2>1
<1>4. f[n] = e /\ \A i \in 0 .. n : i # n => f[i] = F[<<i, f[i + 1]>>]
  BY <1>2, <1>3
<1> QED BY <1>4 DEF FromItsEnd

(* A function on 0 .. n given from its start: the first value, and each by *)
(* the one before.                                                         *)
FromItsStart(f, n, S, e, F) ==
  /\ f \in [0 .. n -> S]
  /\ f[0] = e /\ \A i \in 0 .. n : i # 0 => f[i] = F[<<i, f[i - 1]>>]

LEMMA UpRecursion ==
  ASSUME NEW n \in Nat, NEW S, NEW e \in S, NEW F \in [(0 .. n) \X S -> S]
  PROVE  \E f : FromItsStart(f, n, S, e, F)
<1> DEFINE G == [x \in (0 .. n) \X S |-> F[<<n - x[1], x[2]>>]]
<1>1. G \in [(0 .. n) \X S -> S]
  OBVIOUS
<1>2. \A i \in 0 .. n, s \in S : G[<<i, s>>] = F[<<n - i, s>>]
  OBVIOUS
<1> HIDE DEF G
<1>3. PICK g : FromItsEnd(g, n, S, e, G)
  BY <1>1, DownRecursion
<1>4. g \in [0 .. n -> S] /\ g[n] = e /\ \A i \in 0 .. n : i # n => g[i] = G[<<i, g[i + 1]>>]
  BY <1>3 DEF FromItsEnd
<1> DEFINE f == [i \in 0 .. n |-> g[n - i]]
<1>5. f \in [0 .. n -> S] /\ f[0] = e
  BY <1>4
<1>6. ASSUME NEW i \in 0 .. n, i # 0 PROVE f[i] = F[<<i, f[i - 1]>>]
  <2>1. n - i \in 0 .. n /\ n - i # n /\ n - i + 1 \in 0 .. n /\ n - (n - i) = i
        /\ n - (i - 1) = n - i + 1 /\ i - 1 \in 0 .. n
    BY <1>6
  <2>2. f[i] = g[n - i] /\ f[i - 1] = g[n - i + 1]
    BY <2>1
  <2>3. g[n - i] = G[<<n - i, g[n - i + 1]>>]
    BY <1>4, <2>1
  <2>4. G[<<n - i, g[n - i + 1]>>] = F[<<i, g[n - i + 1]>>]
    BY <1>2, <1>4, <2>1
  <2> HIDE DEF f
  <2> QED BY <2>2, <2>3, <2>4
<1> HIDE DEF f
<1> QED BY <1>5, <1>6 DEF FromItsStart

(* A function on 1 .. n whose value at each place is given by those at the *)
(* later places.                                                           *)
ByLater(f, n, S, F) == f \in [1 .. n -> S] /\ \A i \in 1 .. n : f[i] = F[<<i, f>>]
FromLater(F, n, S) ==
  \A i \in 1 .. n, g, h \in [1 .. n -> S] :
    (\A j \in i + 1 .. n : g[j] = h[j]) => F[<<i, g>>] = F[<<i, h>>]

LEMMA CourseOfValues ==
  ASSUME NEW n \in Nat, NEW S, NEW e \in S, NEW F \in [(1 .. n) \X [1 .. n -> S] -> S],
         FromLater(F, n, S)
  PROVE  \E f : ByLater(f, n, S, F)
<1> DEFINE From(k, f) == \A i \in 1 .. n : i > n - k => f[i] = F[<<i, f>>]
           T == {k \in 0 .. n : ~ \E f \in [1 .. n -> S] : From(k, f)}
<1>1. T = {}
  <2>1. SUFFICES ASSUME T # {} PROVE FALSE
    OBVIOUS
  <2>2. PICK k \in T : \A y \in T : k <= y
    <3>1. T \subseteq Nat
      OBVIOUS
    <3> HIDE DEF T
    <3> QED BY <2>1, <3>1, LeastOf
  <2>3. k \in 0 .. n /\ ~ \E f \in [1 .. n -> S] : From(k, f)
    BY <2>2
  <2>4. CASE k = 0
    <3> DEFINE f == [i \in 1 .. n |-> e]
    <3>1. f \in [1 .. n -> S] /\ From(k, f)
      BY <2>4
    <3> QED BY <2>3, <3>1
  <2>5. CASE k # 0
    <3>1. k - 1 \in 0 .. n /\ k - 1 \notin T
      <4>1. k - 1 \in 0 .. n /\ ~ k <= k - 1
        BY <2>3, <2>5
      <4> HIDE DEF T
      <4> QED BY <2>2, <4>1
    <3>2. PICK f \in [1 .. n -> S] : From(k - 1, f)
      BY <3>1
    <3> DEFINE i0 == n - k + 1
               g == [f EXCEPT ![i0] = F[<<i0, f>>]]
    <3>3. i0 \in 1 .. n
      BY <2>3, <2>5
    <3>4. F[<<i0, f>>] \in S
      BY <3>3
    <3>5. g \in [1 .. n -> S] /\ g[i0] = F[<<i0, f>>] /\ \A i \in 1 .. n : i # i0 => g[i] = f[i]
      BY <3>3, <3>4
    <3>6. From(k, g)
      <4> SUFFICES ASSUME NEW i \in 1 .. n, i > n - k PROVE g[i] = F[<<i, g>>]
        OBVIOUS
      <4>1. \A j \in i + 1 .. n : j \in 1 .. n /\ j # i0
        BY <2>3
      <4> HIDE DEF g
      <4>2. F[<<i, g>>] = F[<<i, f>>]
        <5>1. \A j \in i + 1 .. n : g[j] = f[j]
          BY <3>5, <4>1
        <5>2. g \in [1 .. n -> S]
          BY <3>5
        <5> HIDE DEF i0, From, T
        <5> QED BY <5>1, <5>2 DEF FromLater
      <4>3. i = i0 \/ i > n - (k - 1)
        BY <2>3
      <4> HIDE DEF i0
      <4> QED BY <3>2, <3>5, <4>2, <4>3
    <3> HIDE DEF g
    <3> QED BY <2>3, <3>5, <3>6
  <2> QED BY <2>4, <2>5
<1>2. PICK f \in [1 .. n -> S] : From(n, f)
  <2>1. n \in 0 .. n
    OBVIOUS
  <2>2. n \notin T
    BY <1>1
  <2> HIDE DEF From
  <2> QED BY <2>1, <2>2
<1>3. \A i \in 1 .. n : i > n - n
  OBVIOUS
<1> QED BY <1>2, <1>3 DEF ByLater
===============================================================================
