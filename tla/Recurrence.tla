----------------------------- MODULE Recurrence -----------------------------
(***************************************************************************)
(* Facts about natural numbers that several proofs need: a set of them has *)
(* a smallest element, what holds of 0 and passes from n to n + 1 holds of *)
(* all of them, and a function defined by recursion on them exists: the    *)
(* one that each value gives the next one (Suite), the powers of two       *)
(* (Doubles), and one whose arguments have ranks (ParRang).  Properties    *)
(* are given as sets.                                                      *)
(***************************************************************************)
EXTENDS Naturals, NaturalsInduction, WellFoundedInduction, TLAPS

Avant == {p \in Nat \X Nat : p[1] < p[2]}

\* A set of natural numbers has a smallest element.
LEMMA PlusPetit ==
    ASSUME NEW T \in SUBSET Nat, T # {}
    PROVE  \E x \in T : \A y \in T : x <= y
<1>1. Avant = OpToRel(<, Nat)
    BY DEF Avant, OpToRel
<1>2. IsWellFoundedOn(Avant, Nat)
    BY <1>1, NatLessThanWellFounded
<1>3. PICK x \in T : \A y \in T : <<y, x>> \notin Avant
    BY <1>2, WFMin
<1>4. \A y \in T : ~(y < x)
    BY <1>3 DEF Avant
<1>5. \A y \in T : x <= y
    BY <1>4, SMT
<1> QED
    BY <1>5

\* Induction: a set that holds 0 and the successor of each of its numbers.
LEMMA Recurrence ==
    ASSUME NEW T, 0 \in T, \A n \in Nat : n \in T => n + 1 \in T
    PROVE  Nat \subseteq T
<1> SUFFICES ASSUME ~(Nat \subseteq T)
             PROVE  FALSE
    OBVIOUS
<1> DEFINE hors == {n \in Nat : n \notin T}
<1>1. hors \in SUBSET Nat /\ hors # {}
    OBVIOUS
<1>2. PICK x \in hors : \A y \in hors : x <= y
  <2> HIDE DEF hors
  <2> QED
      BY <1>1, PlusPetit
<1>3. x \in Nat /\ x \notin T
    BY <1>2
<1>4. x # 0
    BY <1>3
<1>5. x - 1 \in Nat /\ x - 1 < x /\ (x - 1) + 1 = x
    BY <1>3, <1>4
<1>6. x - 1 \notin hors
  <2> HIDE DEF hors
  <2> QED
      BY <1>2, <1>3, <1>5
<1>7. x - 1 \in T
    BY <1>5, <1>6
<1> QED
    BY <1>3, <1>5, <1>7

\* Recursion: a value and what follows each value make an infinite sequence.
Debuts(x, g, S, n) ==
    {f \in [0..n -> S] : f[0] = x /\ \A i \in 0..(n - 1) : f[i + 1] = g[f[i]]}

LEMMA DebutsPareils ==
    ASSUME NEW S, NEW x \in S, NEW g \in [S -> S], NEW n \in Nat, NEW m \in Nat,
           NEW f \in Debuts(x, g, S, n), NEW h \in Debuts(x, g, S, m)
    PROVE  \A i \in Nat : i <= n /\ i <= m => f[i] = h[i]
<1> DEFINE T == {i \in Nat : i <= n /\ i <= m => f[i] = h[i]}
<1>1. 0 \in T
    BY DEF Debuts
<1>2. ASSUME NEW i \in Nat, i \in T
      PROVE  i + 1 \in T
  <2>1. SUFFICES ASSUME i + 1 <= n, i + 1 <= m
                 PROVE  f[i + 1] = h[i + 1]
      OBVIOUS
  <2>2. i \in 0..(n - 1) /\ i \in 0..(m - 1)
      BY <2>1
  <2>3. f[i] = h[i]
      BY <1>2, <2>1
  <2>4. f[i + 1] = g[f[i]] /\ h[i + 1] = g[h[i]]
      BY <2>2 DEF Debuts
  <2> QED
      BY <2>3, <2>4
<1>3. Nat \subseteq T
  <2> HIDE DEF T
  <2> QED
      BY <1>1, <1>2, Recurrence
<1> QED
    BY <1>3

LEMMA DebutsExistent ==
    ASSUME NEW S, NEW x \in S, NEW g \in [S -> S]
    PROVE  \A n \in Nat : Debuts(x, g, S, n) # {}
<1> DEFINE T == {n \in Nat : Debuts(x, g, S, n) # {}}
<1>1. 0 \in T
  <2>1. [i \in 0..0 |-> x] \in Debuts(x, g, S, 0)
      BY DEF Debuts
  <2> QED
      BY <2>1
<1>2. ASSUME NEW n \in Nat, n \in T
      PROVE  n + 1 \in T
  <2>1. PICK f : f \in Debuts(x, g, S, n)
      BY <1>2
  <2>2. f \in [0..n -> S] /\ f[0] = x /\ \A i \in 0..(n - 1) : f[i + 1] = g[f[i]]
      BY <2>1 DEF Debuts
  <2>3. f[n] \in S /\ g[f[n]] \in S
      BY <2>2
  <2> DEFINE h == [i \in 0..(n + 1) |-> IF i <= n THEN f[i] ELSE g[f[n]]]
  <2>4. h \in [0..(n + 1) -> S]
      BY <2>2, <2>3
  <2>5. h[0] = x
      BY <2>2
  <2>6. ASSUME NEW i \in 0..((n + 1) - 1)
        PROVE  h[i + 1] = g[h[i]]
    <3>1. CASE i < n
        BY <2>2, <3>1
    <3>2. CASE i = n
        BY <3>2
    <3> QED
        BY <3>1, <3>2
  <2>7. h \in Debuts(x, g, S, n + 1)
    <3> HIDE DEF h
    <3> QED
        BY <2>4, <2>5, <2>6 DEF Debuts
  <2> QED
      BY <2>7
<1>3. Nat \subseteq T
  <2> HIDE DEF T
  <2> QED
      BY <1>1, <1>2, Recurrence
<1> QED
    BY <1>3

EstSuite(f, x, g, S) ==
    f \in [Nat -> S] /\ f[0] = x /\ \A n \in Nat : f[n + 1] = g[f[n]]

LEMMA Suite ==
    ASSUME NEW S, NEW x \in S, NEW g \in [S -> S]
    PROVE  \E f : EstSuite(f, x, g, S)
<1> DEFINE D(n) == CHOOSE d : d \in Debuts(x, g, S, n)
           f == [n \in Nat |-> D(n)[n]]
<1>1. \A n \in Nat : D(n) \in Debuts(x, g, S, n)
    BY DebutsExistent
<1> HIDE DEF D
<1>2. f \in [Nat -> S]
  <2>1. \A n \in Nat : D(n)[n] \in S
      BY <1>1 DEF Debuts
  <2> QED
      BY <2>1
<1>3. f[0] = x
    BY <1>1 DEF Debuts
<1>4. ASSUME NEW n \in Nat
      PROVE  f[n + 1] = g[f[n]]
  <2>1. D(n + 1)[n] = D(n)[n]
      BY <1>1, DebutsPareils
  <2>2. D(n + 1)[n + 1] = g[D(n + 1)[n]]
    <3>1. n \in 0..((n + 1) - 1)
        OBVIOUS
    <3> QED
        BY <1>1, <3>1 DEF Debuts
  <2>3. f[n + 1] = D(n + 1)[n + 1] /\ f[n] = D(n)[n]
      OBVIOUS
  <2> QED
      BY <2>1, <2>2, <2>3
<1> HIDE DEF f
<1> QED
    BY <1>2, <1>3, <1>4 DEF EstSuite

\* The powers of two.
LEMMA Doubles ==
    \E f \in [Nat -> Nat \ {0}] : f[0] = 1 /\ \A n \in Nat : f[n + 1] = 2 * f[n]
<1>1. PICK P : P = Nat \ {0}
    OBVIOUS
<1>2. PICK double : double = [v \in P |-> 2 * v]
    OBVIOUS
<1>3. PICK un : un = 1
    OBVIOUS
<1>4. double \in [P -> P] /\ un \in P
    BY <1>1, <1>2, <1>3
<1>5. PICK f : EstSuite(f, un, double, P)
    BY <1>4, Suite
<1>6. \A v \in P : double[v] = 2 * v
    BY <1>2
<1>7. \A n \in Nat : f[n + 1] = 2 * f[n]
    BY <1>5, <1>6 DEF EstSuite
<1> QED
    BY <1>1, <1>3, <1>5, <1>7 DEF EstSuite

\* Recursion on a rank: a function given by its values at less than each rank.
Etape(S, T, P, suite, h, o, f) ==
    [s \in S |-> IF s \in P THEN h[<<s, f[suite[s]]>>] ELSE o]

Definie(f, S, T, P, suite, h, o) ==
    f \in [S -> T] /\ f = Etape(S, T, P, suite, h, o, f)

LEMMA ParRang ==
    ASSUME NEW S, NEW T, NEW o \in T, NEW P \in SUBSET S,
           NEW rang \in [S -> Nat], NEW suite \in [S -> S], NEW h \in [S \X T -> T],
           \A s \in P : rang[suite[s]] < rang[s]
    PROVE  \E f : Definie(f, S, T, P, suite, h, o)
<1>1. PICK F : F = [S -> T]
    OBVIOUS
<1>2. \A f \in F : /\ Etape(S, T, P, suite, h, o, f) \in F
                   /\ \A s \in S : Etape(S, T, P, suite, h, o, f)[s] =
                                   IF s \in P THEN h[<<s, f[suite[s]]>>] ELSE o
  <2>1. ASSUME NEW f \in F
        PROVE  /\ Etape(S, T, P, suite, h, o, f) \in F
               /\ \A s \in S : Etape(S, T, P, suite, h, o, f)[s] =
                               IF s \in P THEN h[<<s, f[suite[s]]>>] ELSE o
    <3>1. \A s \in S : f[suite[s]] \in T
        BY <1>1
    <3>2. \A s \in S : h[<<s, f[suite[s]]>>] \in T
        BY <3>1
    <3> QED
        BY <1>1, <3>2 DEF Etape
  <2> QED
      BY <2>1
<1>3. PICK g : g = [f \in F |-> Etape(S, T, P, suite, h, o, f)]
    OBVIOUS
<1>4. PICK a : a = [s \in S |-> o]
    OBVIOUS
<1>5. a \in F /\ g \in [F -> F]
  <2>1. a \in F
      BY <1>1, <1>4
  <2>2. g \in [F -> F]
      BY <1>2, <1>3
  <2> QED
      BY <2>1, <2>2
<1>6. PICK k \in [Nat -> F] : k[0] = a /\ \A n \in Nat : k[n + 1] = g[k[n]]
  <2>1. PICK k : EstSuite(k, a, g, F)
      BY <1>5, Suite
  <2> QED
      BY <2>1 DEF EstSuite
<1>7. \A n \in Nat : \A s \in S :
          k[n + 1][s] = IF s \in P THEN h[<<s, k[n][suite[s]]>>] ELSE o
  <2>1. ASSUME NEW n \in Nat, NEW s \in S
        PROVE  k[n + 1][s] = IF s \in P THEN h[<<s, k[n][suite[s]]>>] ELSE o
    <3>1. k[n] \in F
        BY <1>6
    <3>2. k[n + 1] = Etape(S, T, P, suite, h, o, k[n])
        BY <1>3, <1>6, <3>1
    <3> QED
        BY <1>2, <3>1, <3>2
  <2> QED
      BY <2>1
<1>8. \A n \in Nat : \A s \in S : rang[s] < n => k[n + 1][s] = k[n][s]
  <2> DEFINE U == {n \in Nat : \A s \in S : rang[s] < n => k[n + 1][s] = k[n][s]}
  <2>1. 0 \in U
    <3>1. \A s \in S : ~(rang[s] < 0)
      <4>1. \A s \in S : rang[s] \in Nat
          OBVIOUS
      <4> QED
          BY <4>1
    <3> QED
        BY <3>1
  <2>2. ASSUME NEW n \in Nat, n \in U
        PROVE  n + 1 \in U
    <3>1. \A s \in S : rang[s] < n => k[n + 1][s] = k[n][s]
        BY <2>2
    <3>2. ASSUME NEW s \in S, rang[s] < n + 1
          PROVE  k[(n + 1) + 1][s] = k[n + 1][s]
      <4>1. n + 1 \in Nat
          OBVIOUS
      <4>2. k[(n + 1) + 1][s] = IF s \in P THEN h[<<s, k[n + 1][suite[s]]>>] ELSE o
          BY <1>7, <4>1
      <4>3. k[n + 1][s] = IF s \in P THEN h[<<s, k[n][suite[s]]>>] ELSE o
          BY <1>7
      <4>4. CASE s \notin P
          BY <4>2, <4>3, <4>4
      <4>5. CASE s \in P
        <5>1. suite[s] \in S /\ rang[suite[s]] < rang[s]
            BY <4>5
        <5>2. rang[suite[s]] \in Nat /\ rang[s] \in Nat
            BY <5>1
        <5>3. rang[suite[s]] < n
            BY <3>2, <5>1, <5>2
        <5>4. k[n + 1][suite[s]] = k[n][suite[s]]
            BY <3>1, <5>1, <5>3
        <5> QED
            BY <4>2, <4>3, <5>4
      <4> QED
          BY <4>4, <4>5
    <3> QED
        BY <3>2
  <2>3. Nat \subseteq U
    <3> HIDE DEF U
    <3> QED
        BY <2>1, <2>2, Recurrence
  <2> QED
      BY <2>3
<1>9. ASSUME NEW s \in S
      PROVE  \A n \in Nat : rang[s] < n => k[n][s] = k[rang[s] + 1][s]
  <2> DEFINE U == {n \in Nat : rang[s] < n => k[n][s] = k[rang[s] + 1][s]}
  <2>1. rang[s] \in Nat
      OBVIOUS
  <2>2. 0 \in U
      BY <2>1
  <2>3. ASSUME NEW n \in Nat, n \in U
        PROVE  n + 1 \in U
    <3>1. CASE rang[s] < n
      <4>1. k[n + 1][s] = k[n][s]
          BY <1>8, <3>1
      <4>2. k[n][s] = k[rang[s] + 1][s]
          BY <2>3, <3>1
      <4> QED
          BY <4>1, <4>2
    <3>2. CASE rang[s] = n
        BY <3>2
    <3>3. CASE rang[s] > n
      <4>1. ~(rang[s] < n + 1)
          BY <2>1, <3>3
      <4> QED
          BY <4>1
    <3> QED
        BY <2>1, <3>1, <3>2, <3>3
  <2>4. Nat \subseteq U
    <3> HIDE DEF U
    <3> QED
        BY <2>2, <2>3, Recurrence
  <2> QED
      BY <2>4
<1>10. PICK f : f = [s \in S |-> k[rang[s] + 1][s]]
    OBVIOUS
<1>11. f \in F
  <2>1. \A s \in S : k[rang[s] + 1] \in F
    <3>1. \A s \in S : rang[s] + 1 \in Nat
        OBVIOUS
    <3> QED
        BY <1>6, <3>1
  <2>2. \A s \in S : k[rang[s] + 1][s] \in T
      BY <1>1, <2>1
  <2> QED
      BY <1>1, <1>10, <2>2
<1>12. ASSUME NEW s \in S
       PROVE  f[s] = IF s \in P THEN h[<<s, f[suite[s]]>>] ELSE o
  <2>1. rang[s] \in Nat
      OBVIOUS
  <2>2. f[s] = IF s \in P THEN h[<<s, k[rang[s]][suite[s]]>>] ELSE o
      BY <1>7, <1>10, <2>1
  <2>3. CASE s \notin P
      BY <2>2, <2>3
  <2>4. CASE s \in P
    <3>1. suite[s] \in S /\ rang[suite[s]] < rang[s]
        BY <2>4
    <3>2. k[rang[s]][suite[s]] = k[rang[suite[s]] + 1][suite[s]]
        BY <1>9, <2>1, <3>1
    <3>3. f[suite[s]] = k[rang[suite[s]] + 1][suite[s]]
        BY <1>10, <3>1
    <3> QED
        BY <2>2, <3>2, <3>3
  <2> QED
      BY <2>3, <2>4
<1>13. f = Etape(S, T, P, suite, h, o, f)
  <2>1. f = [s \in S |-> f[s]]
      BY <1>10
  <2>2. DOMAIN Etape(S, T, P, suite, h, o, f) = S
        /\ Etape(S, T, P, suite, h, o, f)
             = [s \in S |-> Etape(S, T, P, suite, h, o, f)[s]]
      BY DEF Etape
  <2>3. \A s \in S : f[s] = Etape(S, T, P, suite, h, o, f)[s]
      BY <1>2, <1>11, <1>12
  <2> QED
      BY <2>1, <2>2, <2>3
<1> QED
    BY <1>1, <1>11, <1>13 DEF Definie
=============================================================================
