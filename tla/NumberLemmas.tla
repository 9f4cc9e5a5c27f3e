---------------------------- MODULE NumberLemmas ----------------------------
(***************************************************************************)
(* Facts about natural numbers that the proofs share.                      *)
(*                                                                         *)
(* First those about % for a divisor that is not a literal, which the SMT  *)
(* backend does not find by itself.  The ring of task slots, the ring of   *)
(* keyboard slots and the wrapping tick counters all rest on ModSucc.      *)
(* Then induction and recursion, stated with sets and functions instead of *)
(* operators, so that a proof can use them.                                *)
(***************************************************************************)
EXTENDS Integers, WellFoundedInduction, TLAPS

(* Multiples of n are at least n apart. *)
LEMMA MulLess ==
  ASSUME NEW n \in Nat \ {0}, NEW a \in Int, NEW b \in Int, a < b
  PROVE  n * a + n <= n * b
<1>1. PICK k \in Nat : b = a + 1 + k
  <2>1. b - a - 1 \in Nat  OBVIOUS
  <2>2. b = a + 1 + (b - a - 1) OBVIOUS
  <2> QED BY <2>1, <2>2
<1>2. n * b = n * a + n + n * k  BY <1>1, SMT
<1>3. n * k >= 0  BY SMT
<1>4. n * a \in Int /\ n * b \in Int /\ n * k \in Int OBVIOUS
<1> QED BY <1>2, <1>3, <1>4

(* Division with remainder. *)
LEMMA DivMod ==
  ASSUME NEW n \in Nat \ {0}, NEW y \in Nat
  PROVE  \E d \in Int, r \in 0 .. n - 1 : r = y % n /\ y = n * d + r
<1>1. PICK d \in Int : d = y \div n
  OBVIOUS
<1>2. PICK r \in 0 .. n - 1 : r = y % n
  OBVIOUS
<1>3. y = n * d + r
  BY <1>1, <1>2, Z3
<1> QED BY <1>2, <1>3

(* The remainder is unique. *)
LEMMA ModUnique ==
  ASSUME NEW n \in Nat \ {0}, NEW y \in Nat, NEW q \in Int,
         NEW r \in 0 .. n - 1, y = n * q + r
  PROVE  y % n = r
<1>1. PICK d \in Int, s \in 0 .. n - 1 : s = y % n /\ y = n * d + s
  BY DivMod
<1>2. n * d \in Int /\ n * q \in Int
  OBVIOUS
<1>3. CASE d < q
  BY <1>1, <1>2, <1>3, MulLess
<1>4. CASE q < d
  BY <1>1, <1>2, <1>4, MulLess
<1>5. CASE d = q
  BY <1>1, <1>2, <1>5
<1> QED BY <1>3, <1>4, <1>5

(* Counting modulo n: the step every wrapping counter of the kernel takes  *)
(* (s_ticks, kb_head, kb_tail, the search of sched_tick).                   *)
LEMMA ModSucc ==
  ASSUME NEW n \in Nat \ {0}, NEW x \in Nat
  PROVE  (x + 1) % n = IF x % n = n - 1 THEN 0 ELSE (x % n) + 1
<1>1. PICK d \in Int, s \in 0 .. n - 1 : s = x % n /\ x = n * d + s
  BY DivMod
<1>2. n * d \in Int
  OBVIOUS
<1>3. CASE s = n - 1
  <2>1. n * (d + 1) = n * d + n
    BY SMT
  <2>2. x + 1 = n * (d + 1) + 0
    BY <1>1, <1>2, <1>3, <2>1
  <2>3. (x + 1) % n = 0
    <3>1. x + 1 \in Nat /\ d + 1 \in Int /\ 0 \in 0 .. n - 1
      OBVIOUS
    <3> QED BY <2>2, <3>1, ModUnique, Zenon
  <2> QED BY <1>1, <1>3, <2>3
<1>4. CASE s # n - 1
  <2>1. x + 1 = n * d + (s + 1)
    BY <1>1, <1>2
  <2>2. (x + 1) % n = s + 1
    <3>1. x + 1 \in Nat /\ s + 1 \in 0 .. n - 1
      BY <1>4
    <3> QED BY <2>1, <3>1, ModUnique, Zenon
  <2> QED BY <1>1, <1>4, <2>2
<1> QED BY <1>3, <1>4

(* A value below n is its own remainder. *)
LEMMA ModSmall ==
  ASSUME NEW n \in Nat \ {0}, NEW x \in 0 .. n - 1
  PROVE  x % n = x
  BY SMT

(* The successor on the ring 0 .. n - 1. *)
LEMMA RingSucc ==
  ASSUME NEW n \in Nat \ {0}, NEW x \in 0 .. n - 1
  PROVE  (x + 1) % n = IF x + 1 = n THEN 0 ELSE x + 1
<1>1. CASE x + 1 = n
  <2>1. n % n = 0
    BY SMT
  <2> QED BY <1>1, <2>1
<1>2. CASE x + 1 # n
  BY <1>2, ModSmall
<1> QED BY <1>1, <1>2

(* One wrap at most: the index arithmetic of a ring buffer. *)
LEMMA ModOnce ==
  ASSUME NEW n \in Nat \ {0}, NEW x \in 0 .. 2 * n - 1
  PROVE  x % n = IF x < n THEN x ELSE x - n
<1>1. CASE x < n
  BY <1>1, ModSmall
<1>2. CASE x >= n
  <2>1. x \in Nat /\ x - n \in 0 .. n - 1 /\ x = n * 1 + (x - n)
    BY <1>2
  <2>2. x % n = x - n
    BY <2>1, ModUnique
  <2> QED BY <1>2, <2>2
<1> QED BY <1>1, <1>2

-----------------------------------------------------------------------------

(* The least element. *)
LEMMA LeastElement ==
  ASSUME NEW S, S \subseteq Nat, S # {}
  PROVE  \E m \in S : \A n \in S : m <= n
<1> DEFINE Less == {ss \in Nat \X Nat : ss[1] < ss[2]}
<1>1. IsWellFoundedOn(Less, Nat)
  BY NatLessThanWellFounded, Zenon DEF OpToRel
<1>2. PICK m \in S : \A n \in S : ~(<<n, m>> \in Less)
  <2> HIDE DEF Less
  <2> QED BY <1>1, WFMin
<1>3. \A n \in S : m <= n
  <2> SUFFICES ASSUME NEW n \in S, n < m PROVE FALSE
    OBVIOUS
  <2>1. <<n, m>> \in Nat \X Nat
    OBVIOUS
  <2>2. <<n, m>>[1] < <<n, m>>[2]
    OBVIOUS
  <2>3. <<n, m>> \in Less
    BY <2>1, <2>2, Zenon
  <2> HIDE DEF Less
  <2> QED BY <1>2, <2>3
<1> QED BY <1>3

(* Course-of-values induction: S stands for the numbers with a property. *)
LEMMA StrongInduction ==
  ASSUME NEW S, \A n \in Nat : (\A k \in 0 .. n - 1 : k \in S) => n \in S
  PROVE  \A n \in Nat : n \in S
<1> SUFFICES ASSUME Nat \ S # {} PROVE FALSE
  OBVIOUS
<1>1. PICK m \in Nat \ S : \A n \in Nat \ S : m <= n
  <2>1. Nat \ S \subseteq Nat
    OBVIOUS
  <2> QED BY <2>1, LeastElement, Zenon
<1>2. \A k \in 0 .. m - 1 : k \in S
  BY <1>1
<1> QED BY <1>1, <1>2

(* Induction by steps of one. *)
LEMMA StepInduction ==
  ASSUME NEW S, 0 \in S, \A n \in Nat : n \in S => n + 1 \in S
  PROVE  \A n \in Nat : n \in S
<1>1. ASSUME NEW n \in Nat, \A k \in 0 .. n - 1 : k \in S
      PROVE  n \in S
  <2>1. CASE n = 0
    BY <2>1
  <2>2. CASE n # 0
    <3>1. n - 1 \in Nat /\ n - 1 \in 0 .. n - 1 /\ (n - 1) + 1 = n
      BY <2>2
    <3> QED BY <1>1, <3>1
  <2> QED BY <2>1, <2>2
<1> QED BY <1>1, StrongInduction

(* A function on the numbers defined from its value at a smaller number.   *)
Recurses(f, S, a, d, g) ==
  /\ f \in [Nat -> S]
  /\ \A v \in Nat : f[v] = IF v = 0 THEN a ELSE g[<<v, f[d[v]]>>]

(* There is one. *)
LEMMA RecursionOnNat ==
  ASSUME NEW S, NEW a \in S,
         NEW d \in [Nat -> Nat], \A v \in Nat \ {0} : d[v] < v,
         NEW g \in [Nat \X S -> S]
  PROVE  \E f : Recurses(f, S, a, d, g)
<1> DEFINE Eq(f, v) == f[v] = IF v = 0 THEN a ELSE g[<<v, f[d[v]]>>]
           Upto(f, n) == f \in [0 .. n -> S] /\ \A v \in 0 .. n : Eq(f, v)
<1>1. ASSUME NEW n \in Nat, NEW m \in Nat, NEW f, NEW h,
             Upto(f, n), Upto(h, m)
      PROVE  \A v \in Nat : v <= n /\ v <= m => f[v] = h[v]
  <2> DEFINE Same == {v \in Nat : v <= n /\ v <= m => f[v] = h[v]}
  <2>1. ASSUME NEW v \in Nat, \A k \in 0 .. v - 1 : k \in Same
        PROVE  v \in Same
    <3> SUFFICES ASSUME v <= n, v <= m PROVE f[v] = h[v]
      OBVIOUS
    <3>1. Eq(f, v) /\ Eq(h, v)
      <4> HIDE DEF Eq
      <4>1. v \in 0 .. n /\ v \in 0 .. m
        OBVIOUS
      <4> QED BY <1>1, <4>1
    <3>2. CASE v = 0
      BY <3>1, <3>2
    <3>3. CASE v # 0
      <4>1. d[v] \in 0 .. v - 1 /\ d[v] <= n /\ d[v] <= m
        BY <3>3
      <4>2. f[d[v]] = h[d[v]]
        BY <2>1, <4>1
      <4> QED BY <3>1, <3>3, <4>2
    <3> QED BY <3>2, <3>3
  <2> HIDE DEF Same
  <2>2. \A v \in Nat : v \in Same
    BY <2>1, StrongInduction
  <2> QED BY <2>2 DEF Same
<1>2. \A n \in Nat : \E f : Upto(f, n)
  <2> DEFINE Has == {n \in Nat : \E f : Upto(f, n)}
  <2>1. 0 \in Has
    <3> DEFINE f == [v \in 0 .. 0 |-> a]
    <3>1. Upto(f, 0)
      OBVIOUS
    <3> QED BY <3>1
  <2>2. ASSUME NEW n \in Nat, n \in Has
        PROVE  n + 1 \in Has
    <3>1. PICK f : Upto(f, n)
      BY <2>2
    <3> DEFINE w == g[<<n + 1, f[d[n + 1]]>>]
               h == [v \in 0 .. n + 1 |-> IF v = n + 1 THEN w ELSE f[v]]
    <3>2. d[n + 1] \in 0 .. n
      OBVIOUS
    <3>3. f[d[n + 1]] \in S
      BY <3>1, <3>2
    <3>4. w \in S
      BY <3>3
    <3> HIDE DEF w
    <3>5. h \in [0 .. n + 1 -> S]
      BY <3>1, <3>4
    <3>6. ASSUME NEW v \in 0 .. n PROVE Eq(h, v)
      <4>0. Eq(f, v)
        <5> HIDE DEF Eq
        <5> QED BY <3>1
      <4>1. Eq(f, v) /\ h[v] = f[v]
        BY <4>0
      <4>2. CASE v = 0
        BY <4>1, <4>2
      <4>3. CASE v # 0
        <5>1. d[v] \in 0 .. n
          BY <4>3
        <5>2. h[d[v]] = f[d[v]]
          BY <5>1
        <5> QED BY <4>1, <4>3, <5>2
      <4> QED BY <4>2, <4>3
    <3>7. Eq(h, n + 1)
      <4>1. h[n + 1] = w
        OBVIOUS
      <4>2. h[d[n + 1]] = f[d[n + 1]]
        BY <3>2
      <4> HIDE DEF h
      <4>3. w = g[<<n + 1, h[d[n + 1]]>>] /\ n + 1 # 0
        BY <4>2 DEF w
      <4> QED BY <4>1, <4>3
    <3>8. ASSUME NEW v \in 0 .. n + 1 PROVE Eq(h, v)
      <4>1. CASE v = n + 1
        BY <3>7, <4>1
      <4>2. CASE v # n + 1
        <5>1. v \in 0 .. n
          BY <4>2
        <5> HIDE DEF h, Eq
        <5> QED BY <3>6, <5>1
      <4> QED BY <4>1, <4>2
    <3>9. Upto(h, n + 1)
      <4> HIDE DEF h, Eq
      <4> QED BY <3>5, <3>8
    <3> HIDE DEF h, Upto
    <3> QED BY <3>9
  <2> HIDE DEF Has
  <2>3. \A n \in Nat : n \in Has
    BY <2>1, <2>2, StepInduction
  <2> QED BY <2>3 DEF Has
<1> DEFINE At(v) == CHOOSE f : Upto(f, v)
           F == [v \in Nat |-> At(v)[v]]
<1> HIDE DEF Upto
<1>3. \A v \in Nat : Upto(At(v), v)
  BY <1>2, Zenon
<1> HIDE DEF At
<1>4. \A v \in Nat : At(v)[v] \in S
  BY <1>3 DEF Upto
<1>5. F \in [Nat -> S]
  BY <1>4
<1>6. ASSUME NEW v \in Nat PROVE Eq(F, v)
  <2>1. Eq(At(v), v)
    BY <1>3 DEF Upto
  <2>2. F[v] = At(v)[v]
    OBVIOUS
  <2>3. CASE v = 0
    BY <2>1, <2>2, <2>3
  <2>4. CASE v # 0
    <3>1. d[v] \in Nat /\ d[v] <= v
      BY <2>4
    <3>2. F[d[v]] = At(d[v])[d[v]]
      BY <3>1
    <3>3. At(d[v])[d[v]] = At(v)[d[v]]
      BY <1>1, <1>3, <3>1
    <3> QED BY <2>1, <2>2, <2>4, <3>2, <3>3
  <2> QED BY <2>3, <2>4
<1>7. Recurses(F, S, a, d, g)
  <2> HIDE DEF F
  <2> QED BY <1>5, <1>6 DEF Recurses
<1> QED BY <1>7

(* Induction on 0 .. n, and recursion, by steps of one. *)
LEMMA InductionUpTo ==
  ASSUME NEW n \in Nat, NEW S, 0 \in S, \A v \in 1 .. n : v - 1 \in S => v \in S
  PROVE  \A v \in 0 .. n : v \in S
<1> DEFINE T == {v \in Nat : v <= n => v \in S}
<1>1. 0 \in T
  OBVIOUS
<1>2. ASSUME NEW v \in Nat, v \in T
      PROVE  v + 1 \in T
  <2> SUFFICES ASSUME v + 1 <= n PROVE v + 1 \in S
    OBVIOUS
  <2>1. v \in S /\ v + 1 \in 1 .. n /\ (v + 1) - 1 = v
    BY <1>2
  <2>2. PICK w \in 1 .. n : w = v + 1
    BY <2>1
  <2>3. w - 1 = v
    BY <2>2
  <2> QED BY <2>1, <2>2, <2>3
<1> HIDE DEF T
<1>3. \A v \in Nat : v \in T
  BY <1>1, <1>2, StepInduction
<1> QED BY <1>3 DEF T

RecursesUpTo(f, n, S, a, g) ==
  /\ f \in [0 .. n -> S]
  /\ \A v \in 0 .. n : f[v] = IF v = 0 THEN a ELSE g[<<v, f[v - 1]>>]

(* There is a function defined step by step on 0 .. n. *)
LEMMA RecursionUpTo ==
  ASSUME NEW n \in Nat, NEW S, NEW a \in S, NEW g \in [(1 .. n) \X S -> S]
  PROVE  \E f : RecursesUpTo(f, n, S, a, g)
<1> DEFINE d == [v \in Nat |-> IF v = 0 THEN 0 ELSE v - 1]
           h == [p \in Nat \X S |-> IF p[1] \in 1 .. n THEN g[p] ELSE a]
<1>1. d \in [Nat -> Nat] /\ \A v \in Nat \ {0} : d[v] < v /\ d[v] = v - 1
  OBVIOUS
<1>2. h \in [Nat \X S -> S]
  <2>1. ASSUME NEW p \in Nat \X S
        PROVE  (IF p[1] \in 1 .. n THEN g[p] ELSE a) \in S
    <3>1. p[1] \in 1 .. n => p \in (1 .. n) \X S
      OBVIOUS
    <3> QED BY <3>1
  <2> QED BY <2>1
<1>3. \A v \in 1 .. n : \A x \in S : h[<<v, x>>] = g[<<v, x>>]
  <2> SUFFICES ASSUME NEW v \in 1 .. n, NEW x \in S
               PROVE  h[<<v, x>>] = g[<<v, x>>]
    OBVIOUS
  <2>1. <<v, x>> \in Nat \X S /\ <<v, x>>[1] \in 1 .. n
    OBVIOUS
  <2> QED BY <2>1
<1> HIDE DEF d, h
<1>4. PICK f : Recurses(f, S, a, d, h)
  <2>1. d \in [Nat -> Nat]
    BY <1>1
  <2>2. \A v \in Nat \ {0} : d[v] < v
    BY <1>1
  <2> QED BY <1>2, <2>1, <2>2, RecursionOnNat
<1> DEFINE e == [v \in 0 .. n |-> f[v]]
<1>5. e \in [0 .. n -> S]
  BY <1>4 DEF Recurses
<1>6. ASSUME NEW v \in 0 .. n
      PROVE  e[v] = IF v = 0 THEN a ELSE g[<<v, e[v - 1]>>]
  <2>1. CASE v = 0
    BY <1>4, <2>1 DEF Recurses
  <2>2. CASE v # 0
    <3>1. v \in 1 .. n /\ v - 1 \in 0 .. n /\ d[v] = v - 1
      BY <1>1, <2>2
    <3>2. e[v - 1] = f[v - 1] /\ f[v - 1] \in S /\ e[v] = f[v]
      BY <1>4, <3>1 DEF Recurses
    <3> HIDE DEF e
    <3>3. f[v] = h[<<v, f[v - 1]>>]
      BY <1>4, <2>2, <3>1 DEF Recurses
    <3> QED BY <1>3, <2>2, <3>1, <3>2, <3>3
  <2> QED BY <2>1, <2>2
<1> HIDE DEF e
<1>7. RecursesUpTo(e, n, S, a, g)
  BY <1>5, <1>6 DEF RecursesUpTo
<1> QED BY <1>7
==============================================================================
