------------------------------ MODULE Induction ------------------------------
(***************************************************************************)
(* Recursive functions and folds have the values that their definitions    *)
(* suggest: induction, stated for a set of naturals, the existence of a    *)
(* function defined by recursion, and of the function a fold iterates.     *)
(***************************************************************************)
EXTENDS Integers, Sequences, FiniteSetsExt, FiniteSetTheorems, TLAPS

(* Induction.  Would n be missing from S, then k |-> k + 1 would map the   *)
(* numbers of S up to n one to one into those of them that are not 0.      *)
LEMMA SetInduction ==
  ASSUME NEW S \in SUBSET Nat, 0 \in S, \A k \in S : k + 1 \in S
  PROVE  S = Nat
<1>. SUFFICES ASSUME NEW n \in Nat, n \notin S PROVE FALSE
  OBVIOUS
<1>. DEFINE A == S \cap 0..n
            B == A \ {0}
            f == [k \in A |-> k + 1]
<1>1. A \in SUBSET (0..n) /\ 0 \in A
  OBVIOUS
<1>2. \A k \in A : k \in Nat /\ k + 1 \in B
  OBVIOUS
<1>3. IsFiniteSet(A)
  <2>. HIDE DEF A
  <2>1. IsFiniteSet(0..n)
    BY FS_Interval
  <2>. QED
    BY <1>1, <2>1, FS_Subset
<1>4. IsFiniteSet(B) /\ Cardinality(B) = Cardinality(A) - 1 /\ Cardinality(A) \in Nat
  <2>. HIDE DEF A
  <2>. QED
    BY <1>1, <1>3, FS_RemoveElement, FS_CardinalityType
<1>5. f \in Injection(A, B)
  <2>. HIDE DEF A, B
  <2>1. f \in [A -> B] /\ \A a, b \in A : f[a] = f[b] => a = b
    BY <1>2
  <2>. QED
    BY <2>1 DEF Injection, IsInjective
<1>6. Cardinality(A) <= Cardinality(B)
  <2>. HIDE DEF A, B, f
  <2>. QED
    BY <1>4, <1>5, FS_Injection
<1>. QED
  BY <1>4, <1>6

(* The first n numbers are n numbers. *)
LEMMA CountUpto ==
  ASSUME NEW n \in Nat
  PROVE  IsFiniteSet(1..n) /\ Cardinality(1..n) = n
  BY FS_Interval

(* g is defined by primitive recursion from b and the step s. *)
Iterates(g, A, b, s) ==
  /\ g \in [Nat -> A] /\ g[0] = b
  /\ \A n \in Nat : g[n + 1] = s[<<n, g[n]>>]

(* There is such a function. *)
LEMMA Recursion ==
  \A A : \A b \in A, s \in [Nat \X A -> A] : \E g : Iterates(g, A, b, s)
<1>. TAKE A
<1>. TAKE b \in A, s \in [Nat \X A -> A]
<1>. DEFINE Upto(h, n) == /\ h \in [0..n -> A] /\ h[0] = b
                          /\ \A k \in 0..(n - 1) : h[k + 1] = s[<<k, h[k]>>]
            E == {n \in Nat : \E h : Upto(h, n)}
<1>1. 0 \in E
  <2>. DEFINE w == [k \in 0..0 |-> b]
  <2>1. Upto(w, 0)
    OBVIOUS
  <2>. QED
    BY <2>1
<1>2. ASSUME NEW n \in E PROVE n + 1 \in E
  <2>1. PICK h : Upto(h, n)
    OBVIOUS
  <2>. DEFINE w == [k \in 0..(n + 1) |-> IF k = n + 1 THEN s[<<n, h[n]>>] ELSE h[k]]
  <2>2. n \in Nat /\ h[n] \in A
    BY <2>1
  <2>3. s[<<n, h[n]>>] \in A
    BY <2>2
  <2>4. w \in [0..(n + 1) -> A]
    BY <2>1, <2>2, <2>3
  <2>5. w[0] = b
    BY <2>1, <2>2
  <2>6. \A k \in 0..n : w[k] = h[k]
    BY <2>2
  <2>7. w[n + 1] = s[<<n, h[n]>>]
    BY <2>2
  <2>8. ASSUME NEW k \in 0..((n + 1) - 1) PROVE w[k + 1] = s[<<k, w[k]>>]
    <3>. HIDE DEF w
    <3>1. CASE k = n
      <4>1. w[n] = h[n]
        BY <2>2, <2>6
      <4>. QED
        BY <2>7, <3>1, <4>1
    <3>2. CASE k \in 0..(n - 1)
      BY <2>1, <2>2, <2>6, <3>2
    <3>. QED
      BY <2>2, <3>1, <3>2
  <2>9. Upto(w, n + 1)
    BY <2>4, <2>5, <2>8
  <2>. HIDE DEF Upto, w
  <2>. QED
    BY <2>2, <2>9
<1>3. E = Nat
  <2>. HIDE DEF Upto
  <2>1. E \in SUBSET Nat
    OBVIOUS
  <2>. HIDE DEF E
  <2>. QED
    BY <1>1, <1>2, <2>1, SetInduction
<1>4. PICK F : \A n \in Nat : Upto(F[n], n)
  <2>. HIDE DEF Upto
  <2>1. \A n \in Nat : Upto([i \in Nat |-> CHOOSE h : Upto(h, i)][n], n)
    BY <1>3
  <2>. QED
    BY <2>1
<1>5. ASSUME NEW n \in Nat PROVE F[n][n] = F[n + 1][n]
  <2>1. Upto(F[n], n) /\ Upto(F[n + 1], n + 1)
    BY <1>4
  <2>. DEFINE u == F[n]
              v == F[n + 1]
  <2>2. /\ u[0] = b /\ v[0] = b
        /\ \A k \in 0..(n - 1) : /\ u[k + 1] = s[<<k, u[k]>>]
                                 /\ v[k + 1] = s[<<k, v[k]>>]
    BY <2>1
  <2>. HIDE DEF u, v
  <2>. DEFINE T == {k \in Nat : k <= n => u[k] = v[k]}
  <2>3. 0 \in T
    BY <2>2
  <2>4. ASSUME NEW k \in T PROVE k + 1 \in T
    <3>1. CASE k \in 0..(n - 1)
      <4>1. u[k] = v[k] /\ k + 1 \in Nat
        BY <3>1
      <4>2. u[k + 1] = v[k + 1]
        BY <2>2, <3>1, <4>1
      <4>. QED
        BY <4>1, <4>2
    <3>2. CASE k \notin 0..(n - 1)
      BY <3>2
    <3>. QED
      BY <3>1, <3>2
  <2>5. T = Nat
    <3>1. T \in SUBSET Nat
      OBVIOUS
    <3>. HIDE DEF T
    <3>. QED
      BY <2>3, <2>4, <3>1, SetInduction
  <2>. QED
    BY <2>5 DEF u, v
<1>. DEFINE g == [n \in Nat |-> F[n][n]]
<1>6. \A n \in Nat : g[n] \in A
  BY <1>4
<1>7. g[0] = b
  BY <1>4
<1>8. ASSUME NEW n \in Nat PROVE g[n + 1] = s[<<n, g[n]>>]
  <2>. DEFINE v == F[n + 1]
  <2>1. n \in 0..((n + 1) - 1) /\ v[n + 1] = s[<<n, v[n]>>]
    <3>1. Upto(v, n + 1)
      BY <1>4
    <3>. QED
      BY <3>1
  <2>2. g[n + 1] = v[n + 1] /\ g[n] = v[n]
    BY <1>5
  <2>. QED
    BY <2>1, <2>2
<1>. HIDE DEF g
<1>9. g \in [Nat -> A]
  BY <1>6 DEF g
<1>10. Iterates(g, A, b, s)
  BY <1>7, <1>8, <1>9 DEF Iterates
<1>. QED
  BY <1>10

(* Max is the largest element of a set of positions that is not empty. *)
LEMMA MaxIsIn ==
  ASSUME NEW n \in Nat, NEW S \in SUBSET (1..n), S # {}
  PROVE  Max(S) \in S /\ \A x \in S : x <= Max(S)
<1>. DEFINE T == {k \in Nat : \A U \in SUBSET (1..k) :
                      U # {} => \E m \in U : \A x \in U : m >= x}
<1>1. 0 \in T
  <2>1. 1..0 = {}
    OBVIOUS
  <2>2. \A U \in SUBSET (1..0) : U = {}
    BY <2>1
  <2>. QED
    BY <2>2
<1>2. ASSUME NEW k \in T PROVE k + 1 \in T
  <2>. SUFFICES ASSUME NEW U \in SUBSET (1..(k + 1)), U # {}
                PROVE  \E m \in U : \A x \in U : m >= x
    OBVIOUS
  <2>1. CASE k + 1 \in U
    BY <2>1
  <2>2. CASE k + 1 \notin U
    <3>1. U \in SUBSET (1..k)
      BY <2>2
    <3>. QED
      BY <3>1
  <2>. QED
    BY <2>1, <2>2
<1>3. T = Nat
  <2>1. T \in SUBSET Nat
    OBVIOUS
  <2>. HIDE DEF T
  <2>. QED
    BY <1>1, <1>2, <2>1, SetInduction
<1>4. \E m \in S : \A x \in S : m >= x
  BY <1>3
<1>. QED
  BY <1>4 DEF Max

(* Min is the smallest one. *)
LEMMA MinIsIn ==
  ASSUME NEW n \in Nat, NEW S \in SUBSET (1..n), S # {}
  PROVE  Min(S) \in S /\ \A x \in S : Min(S) <= x
<1>. DEFINE T == {k \in Nat : \A U \in SUBSET (1..k) :
                      U # {} => \E m \in U : \A x \in U : m <= x}
<1>1. 0 \in T
  <2>1. 1..0 = {}
    OBVIOUS
  <2>2. \A U \in SUBSET (1..0) : U = {}
    BY <2>1
  <2>. QED
    BY <2>2
<1>2. ASSUME NEW k \in T PROVE k + 1 \in T
  <2>. SUFFICES ASSUME NEW U \in SUBSET (1..(k + 1)), U # {}
                PROVE  \E m \in U : \A x \in U : m <= x
    OBVIOUS
  <2>1. CASE U \cap 1..k = {}
    <3>1. \A x \in U : x = k + 1
      BY <2>1
    <3>. QED
      BY <3>1
  <2>2. CASE U \cap 1..k # {}
    <3>1. U \cap 1..k \in SUBSET (1..k)
      OBVIOUS
    <3>2. PICK m \in U \cap 1..k : \A x \in U \cap 1..k : m <= x
      BY <2>2, <3>1
    <3>3. \A x \in U : m <= x
      <4>1. \A x \in U : x \in 1..k \/ x = k + 1
        OBVIOUS
      <4>. QED
        BY <3>2, <4>1
    <3>. QED
      BY <3>2, <3>3
  <2>. QED
    BY <2>1, <2>2
<1>3. T = Nat
  <2>1. T \in SUBSET Nat
    OBVIOUS
  <2>. HIDE DEF T
  <2>. QED
    BY <1>1, <1>2, <2>1, SetInduction
<1>4. \E m \in S : \A x \in S : m <= x
  BY <1>3
<1>. QED
  BY <1>4 DEF Min

(* Taking the last position out of the first k leaves the first k - 1. *)
LEMMA MaxOfUpto ==
  ASSUME NEW k \in Nat \ {0}
  PROVE  Max(1..k) = k /\ (1..k) \ {k} = 1..(k - 1)
<1>1. 1..k \in SUBSET (1..k) /\ 1..k # {} /\ k \in 1..k
  OBVIOUS
<1>2. Max(1..k) \in 1..k /\ \A x \in 1..k : x <= Max(1..k)
  BY <1>1, MaxIsIn
<1>. QED
  BY <1>1, <1>2

(* it is what a fold with the operator op over n positions iterates.       *)
IsFold(it, n, R, b, op) ==
  /\ it \in [SUBSET (1..n) -> R]
  /\ \A s \in SUBSET (1..n) :
        it[s] = IF s = {} THEN b ELSE op[<<it[s \ {Max(s)}], Max(s)>>]

(* There is such a function. *)
LEMMA FoldExists ==
  \A n \in Nat : \A R : \A b \in R, op \in [R \X (1..n) -> R] :
     \E it : IsFold(it, n, R, b, op)
<1>. TAKE n \in Nat
<1>. TAKE R
<1>. TAKE b \in R, op \in [R \X (1..n) -> R]
<1>. DEFINE P == SUBSET (1..n)
            A == [P -> R]
            F(h) == [s \in P |-> IF s = {} THEN b
                                 ELSE op[<<h[s \ {Max(s)}], Max(s)>>]]
            step == [z \in Nat \X A |-> F(z[2])]
            base == [s \in P |-> b]
<1>1. ASSUME NEW h \in A PROVE F(h) \in A
  <2>. SUFFICES ASSUME NEW s \in P, s # {}
                PROVE  op[<<h[s \ {Max(s)}], Max(s)>>] \in R
    OBVIOUS
  <2>1. Max(s) \in 1..n
    BY MaxIsIn
  <2>2. s \ {Max(s)} \in P
    OBVIOUS
  <2>. QED
    BY <2>1, <2>2
<1>2. base \in A /\ step \in [Nat \X A -> A]
  <2>. HIDE DEF F, A
  <2>1. step \in [Nat \X A -> A]
    BY <1>1
  <2>. QED
    BY <2>1 DEF A
<1>3. PICK g : Iterates(g, A, base, step)
  <2>. HIDE DEF A, step, base, P, F
  <2>1. base \in A
    BY <1>2
  <2>2. step \in [Nat \X A -> A]
    BY <1>2
  <2>. QED
    BY ONLY <2>1, <2>2, Recursion
<1>. USE DEF Iterates
<1>4. ASSUME NEW k \in Nat PROVE g[k + 1] = F(g[k])
  <2>1. <<k, g[k]>> \in Nat \X A
    BY <1>3
  <2>. QED
    BY <1>3, <2>1
<1>. DEFINE it == [s \in P |-> g[Cardinality(s)][s]]
<1>5. ASSUME NEW s \in P PROVE Cardinality(s) \in Nat /\ IsFiniteSet(s)
  <2>1. IsFiniteSet(1..n)
    BY FS_Interval
  <2>2. IsFiniteSet(s)
    BY <2>1, FS_Subset
  <2>. QED
    BY <2>2, FS_CardinalityType
<1>6. it \in [P -> R]
  <2>1. ASSUME NEW s \in P PROVE g[Cardinality(s)][s] \in R
    <3>1. g[Cardinality(s)] \in [P -> R]
      BY <1>3, <1>5
    <3>. HIDE DEF P
    <3>. QED
      BY <3>1
  <2>. HIDE DEF P
  <2>. QED
    BY <2>1
<1>7. it[{}] = b
  BY <1>3, FS_EmptySet
<1>8. ASSUME NEW s \in P, s # {}
      PROVE  it[s] = op[<<it[s \ {Max(s)}], Max(s)>>]
  <2>. DEFINE m == Max(s)
              c == Cardinality(s)
              u == s \ {m}
  <2>1. m \in s
    BY <1>8, MaxIsIn
  <2>2. u \in P /\ c \in Nat /\ Cardinality(u) = c - 1 /\ c - 1 \in Nat
    <3>. HIDE DEF m
    <3>1. Cardinality(u) = c - 1 /\ Cardinality(u) \in Nat
      BY <1>5, <2>1, FS_RemoveElement
    <3>. QED
      BY <1>5, <3>1
  <2>3. it[u] = g[c - 1][u]
    BY <2>2
  <2>4. g[c] = F(g[c - 1])
    <3>. HIDE DEF c, F
    <3>1. c = (c - 1) + 1
      BY <2>2
    <3>. QED
      BY <1>4, <2>2, <3>1
  <2>5. it[s] = g[c][s]
    OBVIOUS
  <2>6. F(g[c - 1])[s] = op[<<g[c - 1][u], m>>]
    BY <1>8
  <2>. HIDE DEF it, c, u, m, F
  <2>. QED
    BY <2>3, <2>4, <2>5, <2>6 DEF u, m
<1>. HIDE DEF it
<1>9. IsFold(it, n, R, b, op)
  BY <1>6, <1>7, <1>8 DEF IsFold
<1>. QED
  BY <1>9

(* A number that no iteration of a loop lowers is largest at its end.       *)
LEMMA Climbs ==
  ASSUME NEW n \in Nat, NEW h, \A k \in 0..n : h[k] \in Nat,
         \A k \in 1..n : h[k - 1] <= h[k]
  PROVE  \A k \in 0..n : h[k] <= h[n]
<1>. DEFINE T == {d \in Nat : d <= n => h[n - d] <= h[n]}
<1>1. 0 \in T
  <2>1. n - 0 = n /\ h[n] \in Nat
    OBVIOUS
  <2>. QED
    BY <2>1
<1>2. ASSUME NEW d \in T PROVE d + 1 \in T
  <2>1. CASE d + 1 <= n
    <3>1. /\ n - d \in 1..n /\ n - (d + 1) = (n - d) - 1 /\ d <= n
          /\ (n - d) - 1 \in 0..n /\ n - d \in 0..n /\ n \in 0..n
      BY <2>1
    <3>2. h[(n - d) - 1] <= h[n - d] /\ h[n - d] <= h[n]
      BY <3>1
    <3>3. h[(n - d) - 1] \in Nat /\ h[n - d] \in Nat /\ h[n] \in Nat
      BY <3>1
    <3>. QED
      BY <3>1, <3>2, <3>3
  <2>. QED
    BY <2>1
<1>3. T = Nat
  <2>1. T \in SUBSET Nat
    OBVIOUS
  <2>. HIDE DEF T
  <2>. QED
    BY <1>1, <1>2, <2>1, SetInduction
<1>. QED
  <2>. SUFFICES ASSUME NEW k \in 0..n PROVE h[k] <= h[n]
    OBVIOUS
  <2>1. n - k \in Nat /\ n - k <= n /\ n - (n - k) = k
    OBVIOUS
  <2>2. n - k \in T
    BY <1>3, <2>1
  <2>. QED
    BY <2>1, <2>2

(* The states of a loop stay in R if each iteration stays in it.           *)
LEMMA StaysIn ==
  ASSUME NEW n \in Nat, NEW R, NEW g, g[0] \in R,
         \A k \in 1..n : g[k - 1] \in R => g[k] \in R
  PROVE  \A k \in 0..n : g[k] \in R
<1>. DEFINE T == {k \in Nat : k <= n => g[k] \in R}
<1>1. 0 \in T
  OBVIOUS
<1>2. ASSUME NEW k \in T PROVE k + 1 \in T
  <2>1. CASE k + 1 <= n
    <3>1. k + 1 \in 1..n /\ (k + 1) - 1 = k /\ g[k] \in R
      BY <2>1
    <3>2. g[k + 1] \in R
      BY <3>1
    <3>. QED
      BY <3>2
  <2>. QED
    BY <2>1
<1>3. T = Nat
  <2>1. T \in SUBSET Nat
    OBVIOUS
  <2>. HIDE DEF T
  <2>. QED
    BY <1>1, <1>2, <2>1, SetInduction
<1>. QED
  BY <1>3

(* The first k positions of n are those before k, and k. *)
LEMMA UptoOneMore ==
  ASSUME NEW n \in Nat, NEW k \in 1..n
  PROVE  /\ 1..k \in SUBSET (1..n) /\ 1..k # {} /\ k \in Nat \ {0}
         /\ Max(1..k) = k /\ (1..k) \ {k} = 1..(k - 1)
<1>1. k \in Nat \ {0} /\ k <= n
  OBVIOUS
<1>2. k \in 1..k /\ \A x \in 1..k : x \in 1..n
  BY <1>1
<1>. QED
  BY <1>1, <1>2, MaxOfUpto

-----------------------------------------------------------------------------
(* Division. *)

(* The quotient is the only number with a remainder in range.              *)
LEMMA QuotientUnique ==
  ASSUME NEW d \in Nat \ {0}, NEW a \in Nat, NEW b \in Nat,
         NEW r \in Nat, NEW q \in Nat, r < d, q < d, a * d + r = b * d + q
  PROVE  a = b
<1>1. CASE a < b
  <2>1. b = a + (b - a) /\ b - a >= 1 /\ b - a \in Nat
    BY <1>1
  <2>. DEFINE c == b - a
  <2>2. c * d >= d
    <3>1. c \in Nat /\ c >= 1
      BY <2>1
    <3>. HIDE DEF c
    <3>. QED
      BY <3>1
  <2>3. b * d = a * d + c * d
    BY <2>1
  <2>. HIDE DEF c
  <2>. QED
    BY <2>2, <2>3
<1>2. CASE b < a
  <2>1. a = b + (a - b) /\ a - b >= 1 /\ a - b \in Nat
    BY <1>2
  <2>. DEFINE c == a - b
  <2>2. c * d >= d
    <3>1. c \in Nat /\ c >= 1
      BY <2>1
    <3>. HIDE DEF c
    <3>. QED
      BY <3>1
  <2>3. a * d = b * d + c * d
    BY <2>1
  <2>. HIDE DEF c
  <2>. QED
    BY <2>2, <2>3
<1>. QED
  BY <1>1, <1>2

(* Quotient and remainder are what they should be. *)
LEMMA QuotientAndRemainder ==
  ASSUME NEW n \in Nat, NEW d \in Nat \ {0}
  PROVE  n \div d \in Nat /\ n % d \in 0..(d - 1) /\ n = d * (n \div d) + (n % d)
  OBVIOUS
=============================================================================
