----------------------------- MODULE ArrayProofs -----------------------------
(***************************************************************************)
(* Proofs about Array, for every set of elements, every capacity and every *)
(* size: the buffer is never written past its end and, where the swap      *)
(* space has room for the merges, sorting sorts, and the array is the list *)
(* of its elements.                                                        *)
(*                                                                         *)
(* The loops of insert and of the sort are folds.  For each of them one    *)
(* lemma names the states between its iterations (InsertFold, MergeFold,   *)
(* PassFold, SortFold), one says what an iteration does to them, and one   *)
(* what the loop has done at its end (InsertResult, MergeResult,           *)
(* PassResult, SortResult).                                                *)
(***************************************************************************)
EXTENDS Array, Induction, SequenceTheorems

-----------------------------------------------------------------------------
(* The ring of displaced elements: positions modulo its length. *)

(* The remainder alone. *)
LEMMA RemainderType ==
  ASSUME NEW n \in Nat, NEW d \in Nat \ {0}
  PROVE  n % d \in 0..(d - 1)
  BY QuotientAndRemainder

(* The remainder is the only number in range that differs by a multiple.   *)
LEMMA RemainderUnique ==
  ASSUME NEW d \in Nat \ {0}, NEW q \in Nat, NEW r \in 0..(d - 1)
  PROVE  (q * d + r) % d = r
<1>. DEFINE a == q * d + r
            p == a \div d
            s == a % d
<1>1. a \in Nat
  <2>1. q * d \in Nat
    OBVIOUS
  <2>. QED
    BY <2>1
<1>. HIDE DEF a
<1>2. p \in Nat /\ s \in 0..(d - 1) /\ a = d * p + s
  BY <1>1, QuotientAndRemainder
<1>. HIDE DEF p, s
<1>3. s \in Nat /\ r \in Nat /\ s < d /\ r < d /\ q * d + r = p * d + s
  <2>1. d * p = p * d
    BY <1>2
  <2>. QED
    BY <1>2, <2>1 DEF a
<1>4. q = p
  BY <1>2, <1>3, QuotientUnique
<1>5. r = s
  <2>1. q * d \in Nat
    OBVIOUS
  <2>. QED
    BY <1>3, <1>4, <2>1
<1>. QED
  BY <1>5 DEF a, s

(* The next position of a ring. *)
LEMMA RemainderStep ==
  ASSUME NEW a \in Nat, NEW n \in Nat \ {0}
  PROVE  ((a % n) + 1) % n = (a + 1) % n
<1>. DEFINE q == a \div n
            r == a % n
<1>1. q \in Nat /\ r \in 0..(n - 1) /\ a = n * q + r
  BY QuotientAndRemainder
<1>. HIDE DEF q, r
<1>2. n * q = q * n /\ n * q \in Nat
  BY <1>1
<1>3. CASE r + 1 < n
  <2>1. r + 1 \in 0..(n - 1) /\ a + 1 = q * n + (r + 1) /\ r + 1 = 0 * n + (r + 1)
    BY <1>1, <1>2, <1>3
  <2>2. (a + 1) % n = r + 1
    BY <1>1, <2>1, RemainderUnique
  <2>3. (r + 1) % n = r + 1
    BY <2>1, RemainderUnique
  <2>. QED
    BY <2>2, <2>3 DEF r
<1>4. CASE r + 1 = n
  <2>1. 0 \in 0..(n - 1) /\ a + 1 = (q + 1) * n + 0 /\ r + 1 = 1 * n + 0
    BY <1>1, <1>2, <1>4
  <2>2. (a + 1) % n = 0
    BY <1>1, <2>1, RemainderUnique
  <2>3. (r + 1) % n = 0
    BY <2>1, RemainderUnique
  <2>. QED
    BY <2>2, <2>3 DEF r
<1>. QED
  BY <1>1, <1>3, <1>4

(* Positions of a ring less than a turn apart differ. *)
LEMMA RemainderDiffers ==
  ASSUME NEW n \in Nat \ {0}, NEW a \in Nat, NEW b \in Nat, a < b, b < a + n
  PROVE  a % n # b % n
<1>. SUFFICES ASSUME a % n = b % n PROVE FALSE
  OBVIOUS
<1>. DEFINE p == a \div n
            q == b \div n
            r == a % n
            c == q - p
<1>1. p \in Nat /\ r \in 0..(n - 1) /\ a = n * p + r
  BY QuotientAndRemainder
<1>2. q \in Nat /\ b = n * q + r
  BY QuotientAndRemainder
<1>. HIDE DEF p, q, r
<1>3. n * p \in Nat /\ n * q \in Nat /\ n * q - n * p = n * c
  BY <1>1, <1>2
<1>4. n * c > 0 /\ n * c < n /\ c \in Int
  BY <1>1, <1>2, <1>3
<1>. HIDE DEF c
<1>5. CASE c >= 1
  <2>1. n * c >= n
    BY <1>4, <1>5
  <2>. QED
    BY <1>4, <2>1
<1>6. CASE c <= 0
  <2>1. n * c <= 0
    BY <1>4, <1>6
  <2>. QED
    BY <1>4, <2>1
<1>. QED
  BY <1>4, <1>5, <1>6

-----------------------------------------------------------------------------
(* Array: the loops as sequences of states. *)

(* What a cell holds. *)
Cell == Elements \union {Junk}
Buffer(cap) == [0..(cap - 1) -> Cell]

(* Put keeps the type of a buffer, and Get reads from one. *)
LEMMA PutType ==
  ASSUME NEW cap \in Nat, NEW f \in Buffer(cap), NEW i, NEW v \in Cell
  PROVE  /\ Put(f, i, v) \in Buffer(cap)
         /\ i \in 0..(cap - 1) => Put(f, i, v)[i] = v
         /\ \A x \in 0..(cap - 1) : x # i => Put(f, i, v)[x] = f[x]
  BY DEF Put, Buffer

(* Reading one cell. *)
LEMMA GetType ==
  ASSUME NEW cap \in Nat, NEW f \in Buffer(cap), NEW i
  PROVE  /\ Get(f, i) \in Cell
         /\ i \in 0..(cap - 1) => Get(f, i) = f[i]
  BY DEF Get, Buffer, Cell

(* The states of the loop of insert, for a buffer of cap cells and n       *)
(* elements.                                                               *)
Ring(cap, n) ==
  [f : Buffer(cap), bucket : Buffer(n), push : {0} \union 0..(n - 1),
   pop : {0} \union 0..(n - 1), past : SUBSET {"buf"}]

(* What insert is called with. *)
Insertable(old, cap, pos, els, inPlace) ==
  /\ old \in Nat /\ e_buf \in Buffer(old) /\ e_size \in 0..old
  /\ pos \in 0..e_size /\ els \in Seq(Elements)
  /\ Len(els) > 0 \/ pos = e_size
  /\ inPlace => cap = old

(* One iteration. *)
LEMMA DisplaceType ==
  ASSUME NEW old, NEW cap \in Nat, NEW pos, NEW els, NEW inPlace,
         Insertable(old, cap, pos, els, inPlace),
         NEW s \in Ring(cap, Len(els)), NEW i \in pos..(e_size + Len(els) - 1)
  PROVE  Displace(s, i, pos, els, inPlace) \in Ring(cap, Len(els))
<1>. DEFINE n == Len(els)
            value == IF i < pos + n THEN els[i - pos + 1] ELSE s.bucket[s.pop]
            o == (IF inPlace THEN s.f ELSE e_buf)[i]
            w == Displace(s, i, pos, els, inPlace)
<1>1. n \in Nat /\ n > 0 /\ i \in Nat /\ pos \in Nat /\ e_size \in Nat
  BY DEF Insertable
<1>2. /\ s.f \in Buffer(cap) /\ s.bucket \in Buffer(n)
      /\ s.push \in 0..(n - 1) /\ s.pop \in 0..(n - 1) /\ s.past \in SUBSET {"buf"}
  BY <1>1 DEF Ring
<1>3. value \in Cell
  <2>1. CASE i < pos + n
    <3>1. i - pos + 1 \in 1..n
      BY <1>1, <2>1
    <3>. QED
      BY <2>1, <3>1 DEF Insertable, Cell
  <2>2. CASE ~(i < pos + n)
    BY <1>2, <2>2 DEF Buffer
  <2>. QED
    BY <2>1, <2>2
<1>4. i < e_size => o \in Cell
  <2>. SUFFICES ASSUME i < e_size PROVE o \in Cell
    OBVIOUS
  <2>1. /\ old \in Nat /\ e_buf \in Buffer(old) /\ i \in 0..(old - 1)
    BY <1>1 DEF Insertable
  <2>4. inPlace => cap = old
    BY DEF Insertable
  <2>2. CASE inPlace
    <3>1. o = s.f[i] /\ cap = old
      BY <2>2, <2>4
    <3>. HIDE DEF o
    <3>. QED
      BY <1>2, <2>1, <3>1 DEF Buffer
  <2>3. CASE ~inPlace
    <3>1. o = e_buf[i]
      BY <2>3
    <3>. HIDE DEF o
    <3>. QED
      BY <2>1, <3>1 DEF Buffer
  <2>. QED
    BY <2>1, <2>2, <2>3
<1>5. (s.push + 1) % n \in 0..(n - 1) /\ (s.pop + 1) % n \in 0..(n - 1)
  <2>1. s.push + 1 \in Nat /\ s.pop + 1 \in Nat /\ n \in Nat \ {0}
    BY <1>1, <1>2
  <2>. QED
    BY <2>1, RemainderType
<1>6. Put(s.f, i, value) \in Buffer(cap)
  BY <1>2, <1>3, PutType
<1>7. i < e_size => Put(s.bucket, s.push, o) \in Buffer(n)
  BY <1>1, <1>2, <1>4, PutType
<1>. HIDE DEF value, o
<1>8. w = [f      |-> Put(s.f, i, value),
           bucket |-> IF i < e_size THEN Put(s.bucket, s.push, o) ELSE s.bucket,
           push   |-> IF i < e_size THEN (s.push + 1) % n ELSE s.push,
           pop    |-> IF i < pos + n THEN s.pop ELSE (s.pop + 1) % n,
           past   |-> s.past \union (IF i \in DOMAIN s.f THEN {} ELSE {"buf"})]
  BY DEF Displace, value, o
<1>. QED
  BY <1>1, <1>2, <1>5, <1>6, <1>7, <1>8 DEF Ring

(* The loop of insert. *)
InsertStart(f, els) ==
  [f |-> f, bucket |-> newCArray(Len(els)), push |-> 0, pop |-> 0, past |-> {}]

InsertRun(g, n, f0, cap, pos, els, inPlace) ==
  /\ g[0] = InsertStart(f0, els)
  /\ \A k \in 0..n : g[k] \in Ring(cap, Len(els))
  /\ \A k \in 1..n : g[k] = Displace(g[k - 1], pos + k - 1, pos, els, inPlace)
  /\ insertLoop(f0, pos, els, inPlace) = g[n]

(* The loop of insert is such a run. *)
LEMMA InsertFold ==
  ASSUME NEW old, NEW cap \in Nat, NEW pos, NEW els, NEW inPlace,
         Insertable(old, cap, pos, els, inPlace),
         NEW f0 \in Buffer(cap), NEW n, n = e_size + Len(els) - pos
  PROVE  \E g : InsertRun(g, n, f0, cap, pos, els, inPlace)
<1>. DEFINE b == InsertStart(f0, els)
            R == Ring(cap, Len(els))
            s == Positions(pos, e_size + Len(els) - 1)
            S(u, i) == Displace(u, i, pos, els, inPlace)
            op == [z \in R \X (1..n) |-> S(z[1], s[z[2]])]
            Body(f) == [t \in SUBSET DOMAIN s |->
                          IF t = {} THEN b ELSE S(f[t \ {Max(t)}], s[Max(t)])]
<1>1. /\ n \in Nat /\ DOMAIN s = 1..n
      /\ \A k \in 1..n : s[k] = pos + k - 1 /\ s[k] \in pos..(e_size + Len(els) - 1)
  <2>1. pos \in Int /\ Len(els) \in Nat /\ e_size \in Nat /\ n \in Nat
        /\ e_size + Len(els) - 1 = pos + n - 1
    BY DEF Insertable
  <2>2. DOMAIN s = 1..n /\ \A k \in 1..n : s[k] = pos + k - 1
    <3>1. (e_size + Len(els) - 1) - pos + 1 = n
      BY <2>1
    <3>. QED
      BY <3>1 DEF Positions
  <2>. HIDE DEF s
  <2>3. \A k \in 1..n : pos + k - 1 \in pos..(e_size + Len(els) - 1)
    BY <2>1
  <2>. QED
    BY <2>1, <2>2, <2>3
<1>2. insertLoop(f0, pos, els, inPlace) = (CHOOSE it : it = Body(it))[DOMAIN s]
  BY DEF insertLoop, FoldLeft, MapThenFoldSet, InsertStart
<1>3. b \in R
  <2>1. newCArray(Len(els)) \in Buffer(Len(els))
    BY DEF newCArray, Buffer, Cell
  <2>. QED
    BY <2>1 DEF InsertStart, Ring
<1>4. \A u \in R, k \in 1..n : S(u, s[k]) \in R
  BY <1>1, DisplaceType
<1>. HIDE DEF b, R, s, S
<1>5. op \in [R \X (1..n) -> R]
  BY <1>4
<1>6. PICK it : IsFold(it, n, R, b, op)
  <2>. HIDE DEF op
  <2>. QED
    BY <1>1, <1>3, <1>5, FoldExists
<1>7. it = Body(it)
  <2>1. it \in [SUBSET (1..n) -> R]
    BY <1>6 DEF IsFold
  <2>2. ASSUME NEW t \in SUBSET (1..n), t # {}
        PROVE  it[t] = S(it[t \ {Max(t)}], s[Max(t)])
    <3>1. Max(t) \in 1..n /\ it[t \ {Max(t)}] \in R
      BY <1>1, <2>1, <2>2, MaxIsIn
    <3>2. it[t] = op[<<it[t \ {Max(t)}], Max(t)>>]
      BY <1>6, <2>2 DEF IsFold
    <3>. QED
      BY <3>1, <3>2
  <2>3. it[{}] = b
    BY <1>6 DEF IsFold
  <2>. QED
    BY <1>1, <2>1, <2>2, <2>3
<1>8. PICK f : f = Body(f) /\ insertLoop(f0, pos, els, inPlace) = f[1..n]
  <2>. HIDE DEF Body
  <2>. QED
    BY <1>1, <1>2, <1>7
<1>9. f[1..0] = b
  <2>1. 1..0 = {}
    OBVIOUS
  <2>. QED
    BY <1>1, <1>8, <2>1
<1>10. ASSUME NEW k \in 1..n PROVE f[1..k] = S(f[1..(k - 1)], s[k])
  <2>1. /\ 1..k \in SUBSET (1..n) /\ 1..k # {}
        /\ Max(1..k) = k /\ (1..k) \ {k} = 1..(k - 1)
    <3>1. n \in Nat
      BY <1>1
    <3>. QED
      BY <3>1, UptoOneMore
  <2>2. f[1..k] = Body(f)[1..k]
    BY <1>8
  <2>. QED
    BY <1>1, <2>1, <2>2
<1>. DEFINE g == [k \in 0..n |-> f[1..k]]
<1>. HIDE DEF Body
<1>11. g[0] = b /\ insertLoop(f0, pos, els, inPlace) = g[n]
  BY <1>1, <1>8, <1>9
<1>12. \A k \in 1..n : g[k] = S(g[k - 1], pos + k - 1)
  BY <1>1, <1>10
<1>. HIDE DEF g
<1>13. \A k \in 0..n : g[k] \in R
  <2>1. \A k \in 1..n : g[k - 1] \in R => g[k] \in R
    BY <1>1, <1>4, <1>12
  <2>2. n \in Nat /\ g[0] \in R
    BY <1>1, <1>3, <1>11
  <2>. QED
    BY <2>1, <2>2, StaysIn
<1>. QED
  BY <1>11, <1>12, <1>13 DEF b, R, S, InsertRun

(* What insert leaves in a buffer that started as f0. *)
Inserted(f0, els, pos) ==
  [x \in DOMAIN f0 |-> IF x < pos \/ x >= e_size + Len(els) THEN f0[x]
                       ELSE IF x < pos + Len(els) THEN els[x - pos + 1]
                       ELSE e_buf[x - Len(els)]]

(* The state after k iterations: k cells are written, and the ring holds   *)
(* the displaced elements that are not yet in place.                       *)
Displaced(s, k, f0, els, pos) ==
  /\ \A x \in DOMAIN f0 : s.f[x] = IF x < pos + k THEN Inserted(f0, els, pos)[x]
                                    ELSE f0[x]
  /\ s.past = {}
  /\ s.push = (IF k < e_size - pos THEN k ELSE e_size - pos) % Len(els)
  /\ s.pop = IF k < Len(els) THEN 0 ELSE (k - Len(els)) % Len(els)
  /\ \A t \in 0..(e_size - pos - 1) :
        t < k /\ t >= k - Len(els) => s.bucket[t % Len(els)] = e_buf[pos + t]

(* Each iteration goes from one such state to the next. *)
LEMMA DisplaceStep ==
  ASSUME NEW old, NEW cap \in Nat, NEW pos, NEW els, NEW inPlace,
         Insertable(old, cap, pos, els, inPlace),
         NEW f0 \in Buffer(cap), e_size + Len(els) <= cap, inPlace => f0 = e_buf,
         NEW k \in Nat, k < e_size + Len(els) - pos,
         NEW s \in Ring(cap, Len(els)), Displaced(s, k, f0, els, pos),
         NEW w, w = Displace(s, pos + k, pos, els, inPlace)
  PROVE  Displaced(w, k + 1, f0, els, pos)
<1>. DEFINE n == Len(els)
            m == e_size - pos
            i == pos + k
            value == IF i < pos + n THEN els[i - pos + 1] ELSE s.bucket[s.pop]
            o == (IF inPlace THEN s.f ELSE e_buf)[i]
<1>1. /\ n \in Nat \ {0} /\ pos \in Nat /\ e_size \in Nat /\ m \in Nat
      /\ i \in 0..(cap - 1) /\ k < m + n /\ i >= pos
      /\ \A x \in 1..n : els[x] \in Elements
      /\ e_buf \in Buffer(old)
      /\ e_size <= old /\ old \in Nat
  <2>1. /\ n \in Nat /\ pos \in Nat /\ e_size \in Nat /\ m \in Nat
        /\ n > 0 \/ pos = e_size
        /\ \A x \in 1..n : els[x] \in Elements
        /\ e_buf \in Buffer(old)
        /\ e_size <= old /\ old \in Nat
    <3>1. /\ old \in Nat /\ e_buf \in Buffer(old) /\ e_size \in 0..old
          /\ pos \in 0..e_size /\ els \in Seq(Elements)
      BY DEF Insertable
    <3>0. n > 0 \/ pos = e_size
      BY DEF Insertable
    <3>2. n \in Nat /\ \A x \in 1..n : els[x] \in Elements
      BY <3>1
    <3>3. pos \in Nat /\ e_size \in Nat /\ m \in Nat /\ e_size <= old
      BY <3>1
    <3>. QED
      BY <3>0, <3>1, <3>2, <3>3
  <2>. HIDE DEF n, m
  <2>2. k < n + m
    BY <2>1 DEF n, m
  <2>3. n # 0
    BY <2>1, <2>2 DEF m
  <2>4. i \in 0..(cap - 1) /\ i >= pos
    BY <2>1 DEF n
  <2>. QED
    BY <2>1, <2>2, <2>3, <2>4
<1>2. /\ s.f \in Buffer(cap) /\ s.bucket \in Buffer(n)
      /\ s.push \in 0..(n - 1) /\ s.pop \in 0..(n - 1)
      /\ DOMAIN s.f = 0..(cap - 1) /\ DOMAIN f0 = 0..(cap - 1)
  BY <1>1 DEF Ring, Buffer
<1>3. w = [f      |-> Put(s.f, i, value),
           bucket |-> IF i < e_size THEN Put(s.bucket, s.push, o) ELSE s.bucket,
           push   |-> IF i < e_size THEN (s.push + 1) % n ELSE s.push,
           pop    |-> IF i < pos + n THEN s.pop ELSE (s.pop + 1) % n,
           past   |-> s.past \union (IF i \in DOMAIN s.f THEN {} ELSE {"buf"})]
  BY DEF Displace
<1>4. value \in Cell /\ value = Inserted(f0, els, pos)[i]
  <2>1. CASE k < n
    <3>0. i < pos + n /\ i - pos + 1 = k + 1 /\ k + 1 \in 1..n
      BY <1>1, <2>1
    <3>1. i < pos + n /\ value = els[k + 1] /\ k + 1 \in 1..n
      BY <3>0
    <3>2. value \in Cell
      BY <1>1, <3>1 DEF Cell
    <3>3. Inserted(f0, els, pos)[i] = els[k + 1]
      BY <1>1, <1>2, <3>1 DEF Inserted
    <3>. QED
      BY <3>1, <3>2, <3>3
  <2>2. CASE ~(k < n)
    <3>1. /\ ~(i < pos + n) /\ s.pop = (k - n) % n /\ k - n \in 0..(m - 1)
          /\ k - n < k /\ k - n >= k - n
      <4>1. s.pop = (k - n) % n
        BY <2>2 DEF Displaced
      <4>2. ~(i < pos + n) /\ k - n \in 0..(m - 1) /\ k - n < k /\ k - n >= k - n
        BY <1>1, <2>2
      <4>. QED
        BY <4>1, <4>2
    <3>2. value = s.bucket[(k - n) % n]
      BY <3>1
    <3>3. value = e_buf[pos + (k - n)]
      BY <3>1, <3>2 DEF Displaced
    <3>4. pos + (k - n) = i - n /\ i - n \in 0..(old - 1)
      BY <1>1, <3>1
    <3>5. Inserted(f0, els, pos)[i] = e_buf[i - n]
      BY <1>1, <1>2, <3>1 DEF Inserted
    <3>6. value \in Cell
      BY <1>1, <3>3, <3>4 DEF Buffer
    <3>. QED
      BY <3>3, <3>4, <3>5, <3>6
  <2>. QED
    BY <2>1, <2>2
<1>5. i < e_size => o = e_buf[i] /\ o \in Cell
  <2>. SUFFICES ASSUME i < e_size PROVE o = e_buf[i] /\ o \in Cell
    OBVIOUS
  <2>1. e_buf[i] \in Cell
    BY <1>1 DEF Buffer
  <2>2. s.f[i] = f0[i]
    <3>1. i \in DOMAIN f0 /\ ~(i < pos + k)
      BY <1>1, <1>2
    <3>. HIDE DEF i
    <3>. QED
      BY <3>1 DEF Displaced
  <2>. QED
    BY <1>1, <2>1, <2>2
<1>. HIDE DEF value, o
<1>6. \A x \in DOMAIN f0 : w.f[x] = IF x < pos + (k + 1) THEN Inserted(f0, els, pos)[x]
                                     ELSE f0[x]
  <2>. SUFFICES ASSUME NEW x \in 0..(cap - 1)
                PROVE  w.f[x] = IF x < pos + (k + 1) THEN Inserted(f0, els, pos)[x]
                                ELSE f0[x]
    BY <1>2
  <2>1. w.f = Put(s.f, i, value)
    BY <1>3
  <2>2. CASE x = i
    <3>1. w.f[x] = value
      <4>1. i \in 0..(cap - 1) /\ value \in Cell /\ s.f \in Buffer(cap)
        BY <1>1, <1>2, <1>4
      <4>2. Put(s.f, i, value)[i] = value
        BY <4>1, PutType
      <4>. QED
        BY <2>1, <2>2, <4>2
    <3>2. x < pos + (k + 1)
      BY <1>1, <2>2
    <3>. QED
      BY <1>4, <2>2, <3>1, <3>2
  <2>3. CASE x # i
    <3>1. w.f[x] = s.f[x]
      <4>1. value \in Cell /\ s.f \in Buffer(cap)
        BY <1>2, <1>4
      <4>2. Put(s.f, i, value)[x] = s.f[x]
        BY <2>3, <4>1, PutType
      <4>. QED
        BY <2>1, <4>2
    <3>2. x < pos + (k + 1) <=> x < pos + k
      BY <1>1, <2>3
    <3>. QED
      BY <1>2, <3>1, <3>2 DEF Displaced
  <2>. QED
    BY <2>2, <2>3
<1>7. w.past = {}
  BY <1>1, <1>2, <1>3 DEF Displaced
<1>8. w.push = (IF k + 1 < m THEN k + 1 ELSE m) % n
  <2>1. CASE i < e_size
    <3>1. k < m /\ (IF k + 1 < m THEN k + 1 ELSE m) = k + 1
      BY <1>1, <2>1
    <3>2. s.push = k % n /\ w.push = (s.push + 1) % n
      BY <1>3, <2>1, <3>1 DEF Displaced
    <3>3. ((k % n) + 1) % n = (k + 1) % n
      BY <1>1, RemainderStep
    <3>. QED
      BY <3>1, <3>2, <3>3
  <2>2. CASE ~(i < e_size)
    <3>1. ~(k < m) /\ ~(k + 1 < m) /\ w.push = s.push
      BY <1>1, <1>3, <2>2, SMTT(60)
    <3>. QED
      BY <3>1 DEF Displaced
  <2>. QED
    BY <2>1, <2>2
<1>9. w.pop = IF k + 1 < n THEN 0 ELSE (k + 1 - n) % n
  <2>1. CASE k < n
    <3>1. w.pop = 0
      BY <1>1, <1>3, <2>1 DEF Displaced
    <3>2. ~(k + 1 < n) => k + 1 - n = 0 * n + 0
      BY <1>1, <2>1
    <3>3. (0 * n + 0) % n = 0
      <4>1. 0 \in 0..(n - 1)
        BY <1>1
      <4>. QED
        BY <1>1, <4>1, RemainderUnique
    <3>. QED
      BY <3>1, <3>2, <3>3
  <2>2. CASE ~(k < n)
    <3>1. s.pop = (k - n) % n /\ w.pop = (s.pop + 1) % n /\ k - n \in Nat
      BY <1>1, <1>3, <2>2 DEF Displaced
    <3>2. (((k - n) % n) + 1) % n = ((k - n) + 1) % n
      BY <1>1, <3>1, RemainderStep
    <3>3. (k - n) + 1 = k + 1 - n /\ ~(k + 1 < n)
      BY <1>1, <2>2
    <3>. QED
      BY <3>1, <3>2, <3>3
  <2>. QED
    BY <2>1, <2>2
<1>10. ASSUME NEW t \in 0..(m - 1), t < k + 1, t >= k + 1 - n
       PROVE  w.bucket[t % n] = e_buf[pos + t]
  <2>1. CASE i < e_size
    <3>1. k < m /\ s.push = k % n /\ w.bucket = Put(s.bucket, s.push, o)
      BY <1>1, <1>3, <2>1 DEF Displaced
    <3>2. t % n \in 0..(n - 1) /\ t \in Nat
      <4>1. t \in Nat
        BY <1>1
      <4>. QED
        BY <1>1, <4>1, RemainderType
    <3>3. CASE t = k
      <4>1. w.bucket[t % n] = o
        <5>1. o \in Cell /\ t % n = s.push /\ n \in Nat /\ s.push \in 0..(n - 1)
          BY <1>1, <1>2, <1>5, <2>1, <3>1, <3>3
        <5>2. Put(s.bucket, s.push, o)[s.push] = o
          BY <1>2, <5>1, PutType
        <5>. QED
          BY <3>1, <5>1, <5>2
      <4>. QED
        BY <1>5, <2>1, <3>3, <4>1
    <3>4. CASE t # k
      <4>1. t < k /\ k < t + n /\ t >= k - n
        BY <1>1, <1>10, <3>2, <3>4
      <4>2. t % n # k % n
        BY <1>1, <3>2, <4>1, RemainderDiffers
      <4>3. w.bucket[t % n] = s.bucket[t % n]
        <5>1. o \in Cell /\ n \in Nat /\ t % n # s.push
          BY <1>1, <1>5, <2>1, <3>1, <4>2
        <5>2. Put(s.bucket, s.push, o)[t % n] = s.bucket[t % n]
          BY <1>2, <3>2, <5>1, PutType
        <5>. QED
          BY <3>1, <5>2
      <4>. QED
        BY <4>1, <4>3 DEF Displaced
    <3>. QED
      BY <3>3, <3>4
  <2>2. CASE ~(i < e_size)
    <3>0. t < k /\ t >= k - n
      BY <1>1, <1>10, <2>2
    <3>1. w.bucket = s.bucket /\ t < k /\ t >= k - n
      BY <1>3, <2>2, <3>0
    <3>. QED
      BY <3>1 DEF Displaced
  <2>. QED
    BY <2>1, <2>2
<1>. QED
  BY <1>6, <1>7, <1>8, <1>9, <1>10 DEF Displaced

(* The loop of insert writes what it should, into the buffer only.         *)
LEMMA InsertResult ==
  ASSUME NEW old, NEW cap \in Nat, NEW pos, NEW els, NEW inPlace,
         Insertable(old, cap, pos, els, inPlace),
         NEW f0 \in Buffer(cap), e_size + Len(els) <= cap, inPlace => f0 = e_buf
  PROVE  /\ insertLoop(f0, pos, els, inPlace).f = Inserted(f0, els, pos)
         /\ insertLoop(f0, pos, els, inPlace).past = {}
<1>. DEFINE n == e_size + Len(els) - pos
            done == insertLoop(f0, pos, els, inPlace)
<1>1. /\ n \in Nat /\ pos \in Nat /\ e_size \in Nat /\ Len(els) \in Nat
      /\ DOMAIN f0 = 0..(cap - 1)
  BY DEF Insertable, Buffer
<1>2. PICK g : /\ g[0] = InsertStart(f0, els)
               /\ \A k \in 0..n : g[k] \in Ring(cap, Len(els))
               /\ \A k \in 1..n : g[k] = Displace(g[k - 1], pos + k - 1, pos, els, inPlace)
               /\ done = g[n]
  <2>1. \E g : InsertRun(g, n, f0, cap, pos, els, inPlace)
    BY InsertFold
  <2>. QED
    BY <2>1 DEF InsertRun
<1>3. CASE Len(els) = 0
  <2>1. n = 0 /\ pos = e_size
    BY <1>1, <1>3 DEF Insertable
  <2>2. done = InsertStart(f0, els)
    BY <1>2, <2>1
  <2>3. f0 = Inserted(f0, els, pos)
    BY <1>1, <1>3, <2>1 DEF Inserted, Buffer
  <2>. QED
    BY <2>2, <2>3 DEF InsertStart
<1>4. CASE Len(els) > 0
  <2>. DEFINE T == {k \in Nat : k <= n => Displaced(g[k], k, f0, els, pos)}
  <2>1. 0 \in T
    <3>1. \A x \in DOMAIN f0 : x < pos + 0 => Inserted(f0, els, pos)[x] = f0[x]
      BY <1>1 DEF Inserted
    <3>2. (IF 0 < e_size - pos THEN 0 ELSE e_size - pos) = 0 * Len(els) + 0
      BY <1>1 DEF Insertable
    <3>3. (0 * Len(els) + 0) % Len(els) = 0
      <4>1. Len(els) \in Nat \ {0} /\ 0 \in 0..(Len(els) - 1)
        BY <1>1, <1>4
      <4>. QED
        BY <4>1, RemainderUnique
    <3>. QED
      BY <1>1, <1>2, <1>4, <3>1, <3>2, <3>3 DEF Displaced, InsertStart
  <2>2. ASSUME NEW k \in T PROVE k + 1 \in T
    <3>. SUFFICES ASSUME k + 1 <= n PROVE Displaced(g[k + 1], k + 1, f0, els, pos)
      OBVIOUS
    <3>1. /\ k \in Nat /\ k < n /\ k \in 0..n /\ k + 1 \in 1..n
          /\ (k + 1) - 1 = k /\ pos + (k + 1) - 1 = pos + k
      BY <1>1
    <3>2. g[k] \in Ring(cap, Len(els)) /\ Displaced(g[k], k, f0, els, pos)
      BY <1>2, <3>1
    <3>3. g[k + 1] = Displace(g[k], pos + k, pos, els, inPlace)
      BY <1>2, <3>1
    <3>. QED
      BY <3>1, <3>2, <3>3, DisplaceStep
  <2>3. T = Nat
    <3>1. T \in SUBSET Nat
      OBVIOUS
    <3>. HIDE DEF T
    <3>. QED
      BY <2>1, <2>2, <3>1, SetInduction
  <2>4. Displaced(done, n, f0, els, pos)
    BY <1>1, <1>2, <2>3
  <2>5. done \in Ring(cap, Len(els))
    BY <1>1, <1>2
  <2>. HIDE DEF n, done
  <2>6. done.f \in Buffer(cap)
    BY <2>5 DEF Ring
  <2>7. \A x \in 0..(cap - 1) : done.f[x] = Inserted(f0, els, pos)[x]
    <3>1. ASSUME NEW x \in 0..(cap - 1), ~(x < pos + n)
          PROVE  Inserted(f0, els, pos)[x] = f0[x]
      BY <1>1, <3>1 DEF Inserted, n
    <3>. QED
      BY <1>1, <2>4, <3>1 DEF Displaced
  <2>8. done.f = Inserted(f0, els, pos)
    <3>1. DOMAIN Inserted(f0, els, pos) = 0..(cap - 1) /\ DOMAIN done.f = 0..(cap - 1)
      BY <1>1, <2>6 DEF Inserted, Buffer
    <3>2. done.f = [x \in 0..(cap - 1) |-> done.f[x]]
      BY <2>6 DEF Buffer
    <3>3. Inserted(f0, els, pos) = [x \in 0..(cap - 1) |-> Inserted(f0, els, pos)[x]]
      BY <1>1 DEF Inserted
    <3>. QED
      BY <2>7, <3>2, <3>3
  <2>. QED
    BY <2>4, <2>8 DEF Displaced, done
<1>. QED
  BY <1>1, <1>3, <1>4

-----------------------------------------------------------------------------
(* What a merge does. *)

(* The order of the sort is total. *)
LEMMA AfterIsOrder ==
  ASSUME NEW order, NEW a \in Int, NEW b \in Int, NEW c \in Int
  PROVE  /\ ~After(order, a, a)
         /\ After(order, a, b) => ~After(order, b, a)
         /\ ~After(order, a, b) /\ ~After(order, b, c) => ~After(order, a, c)
  BY DEF After

(* The first m cells from lo on hold the cells of f0 at S, in some order.  *)
Placed(h, f0, lo, m, S) ==
  \E p \in [0..(m - 1) -> S] :
     /\ \A y \in S : \E x \in 0..(m - 1) : p[x] = y
     /\ \A x \in 0..(m - 1) : h[lo + x] = f0[lo + p[x]]

(* One more cell. *)
LEMMA PlaceOne ==
  ASSUME NEW h, NEW f0, NEW lo, NEW m \in Nat, NEW S, Placed(h, f0, lo, m, S),
         NEW z, NEW w, w[lo + m] = f0[lo + z],
         \A x \in 0..(m - 1) : w[lo + x] = h[lo + x]
  PROVE  Placed(w, f0, lo, m + 1, S \union {z})
<1>1. PICK p \in [0..(m - 1) -> S] :
               /\ \A y \in S : \E x \in 0..(m - 1) : p[x] = y
               /\ \A x \in 0..(m - 1) : h[lo + x] = f0[lo + p[x]]
  BY DEF Placed
<1>. DEFINE U == S \union {z}
            q == [x \in 0..((m + 1) - 1) |-> IF x = m THEN z ELSE p[x]]
<1>2. /\ \A x \in 0..(m - 1) : x \in 0..((m + 1) - 1) /\ q[x] = p[x] /\ p[x] \in S
      /\ m \in 0..((m + 1) - 1) /\ q[m] = z
      /\ \A x \in 0..((m + 1) - 1) : x = m \/ x \in 0..(m - 1)
  OBVIOUS
<1>3. q \in [0..((m + 1) - 1) -> U]
  BY <1>2
<1>. HIDE DEF q
<1>4. \A y \in U : \E x \in 0..((m + 1) - 1) : q[x] = y
  BY <1>1, <1>2
<1>5. \A x \in 0..((m + 1) - 1) : w[lo + x] = f0[lo + q[x]]
  BY <1>1, <1>2
<1>. QED
  BY <1>3, <1>4, <1>5 DEF Placed

(* The cells taken from two runs when c of the left and j of the right are *)
(* in place.                                                               *)
Taken(na, c, j) == 0..(c - 1) \union na..(na + j - 1)

(* One more is taken from one of the runs. *)
LEMMA TakenMore ==
  ASSUME NEW na \in Nat, NEW c \in Nat, NEW j \in Nat
  PROVE  /\ Taken(na, c + 1, j) = Taken(na, c, j) \union {c}
         /\ Taken(na, c, j + 1) = Taken(na, c, j) \union {na + j}
  BY DEF Taken

(* Two runs in order, of elements, in the buffer f0. *)
Runs(f0, order, lo, na, nb) ==
  /\ lo \in Nat /\ na \in Nat /\ nb \in Nat
  /\ \A x \in 0..(na + nb - 1) : f0[lo + x] \in Int
  /\ \A x, y \in 0..(na - 1) : x <= y => ~After(order, f0[lo + x], f0[lo + y])
  /\ \A x, y \in 0..(nb - 1) :
        x <= y => ~After(order, f0[lo + (na + x)], f0[lo + (na + y)])

(* c of the left run and j of the right run are in place, in order, and    *)
(* none of them belongs behind what is left.                               *)
Merged(h, f0, order, lo, na, nb, c, j) ==
  /\ Placed(h, f0, lo, c + j, Taken(na, c, j))
  /\ \A x \in 0..(c + j - 1) : h[lo + x] \in Int
  /\ \A x, y \in 0..(c + j - 1) : x <= y => ~After(order, h[lo + x], h[lo + y])
  /\ \A x \in 0..(c + j - 1) : c < na => ~After(order, h[lo + x], f0[lo + c])
  /\ \A x \in 0..(c + j - 1) : j < nb => ~After(order, h[lo + x], f0[lo + (na + j)])

(* w has one more element in place than h: f0[lo + z]. *)
Extends(w, h, f0, lo, m, z) ==
  /\ w[lo + m] = f0[lo + z]
  /\ \A x \in 0..(m - 1) : w[lo + x] = h[lo + x]

(* The head of the left run is next. *)
LEMMA TakeLeft ==
  ASSUME NEW h, NEW f0, NEW order, NEW lo, NEW na, NEW nb, Runs(f0, order, lo, na, nb),
         NEW c \in 0..na, NEW j \in 0..nb, Merged(h, f0, order, lo, na, nb, c, j),
         c < na, j < nb => ~After(order, f0[lo + c], f0[lo + (na + j)]),
         NEW w, Extends(w, h, f0, lo, c + j, c)
  PROVE  Merged(w, f0, order, lo, na, nb, c + 1, j)
<1>. DEFINE m == c + j
            v == f0[lo + c]
<1>1. /\ lo \in Nat /\ na \in Nat /\ nb \in Nat /\ c \in Nat /\ j \in Nat /\ m \in Nat
      /\ (c + 1) + j = m + 1 /\ (m + 1) - 1 = m /\ v \in Int
      /\ \A x \in 0..m : x = m \/ x \in 0..(m - 1)
  BY DEF Runs
<1>2. w[lo + m] = v /\ \A x \in 0..(m - 1) : w[lo + x] = h[lo + x]
  BY DEF Extends
<1>3. /\ \A x \in 0..(m - 1) : h[lo + x] \in Int /\ ~After(order, h[lo + x], v)
      /\ \A x, y \in 0..(m - 1) : x <= y => ~After(order, h[lo + x], h[lo + y])
      /\ \A x \in 0..(m - 1) : j < nb => ~After(order, h[lo + x], f0[lo + (na + j)])
  BY DEF Merged
<1>4. Placed(w, f0, lo, m + 1, Taken(na, c + 1, j))
  <2>1. Placed(h, f0, lo, m, Taken(na, c, j))
    BY DEF Merged
  <2>2. Placed(w, f0, lo, m + 1, Taken(na, c, j) \union {c})
    <3>. HIDE DEF m
    <3>. QED
      BY <1>1, <1>2, <2>1, PlaceOne
  <2>3. Taken(na, c + 1, j) = Taken(na, c, j) \union {c}
    BY <1>1, TakenMore
  <2>. QED
    BY <2>2, <2>3
<1>5. c + 1 < na => f0[lo + (c + 1)] \in Int /\ ~After(order, v, f0[lo + (c + 1)])
  BY <1>1 DEF Runs
<1>. HIDE DEF m, v
<1>6. \A x \in 0..m : w[lo + x] \in Int /\ ~After(order, w[lo + x], v)
  BY <1>1, <1>2, <1>3, AfterIsOrder
<1>7. \A x, y \in 0..m : x <= y => ~After(order, w[lo + x], w[lo + y])
  <2>. SUFFICES ASSUME NEW x \in 0..m, NEW y \in 0..m, x <= y
                PROVE  ~After(order, w[lo + x], w[lo + y])
    OBVIOUS
  <2>1. CASE y = m
    BY <1>2, <1>6, <2>1
  <2>2. CASE y # m
    <3>1. x \in 0..(m - 1) /\ y \in 0..(m - 1)
      BY <1>1, <2>2
    <3>. QED
      BY <1>2, <1>3, <3>1
  <2>. QED
    BY <2>1, <2>2
<1>8. \A x \in 0..m : c + 1 < na => ~After(order, w[lo + x], f0[lo + (c + 1)])
  BY <1>1, <1>5, <1>6, AfterIsOrder
<1>9. \A x \in 0..m : j < nb => ~After(order, w[lo + x], f0[lo + (na + j)])
  <2>1. j < nb => ~After(order, v, f0[lo + (na + j)])
    BY DEF v
  <2>. QED
    BY <1>1, <1>2, <1>3, <2>1
<1>10. (c + 1) + j = m + 1 /\ (c + 1) + j - 1 = m
  BY <1>1
<1>. QED
  BY <1>4, <1>6, <1>7, <1>8, <1>9, <1>10 DEF Merged

(* The head of the right run is next. *)
LEMMA TakeRight ==
  ASSUME NEW h, NEW f0, NEW order, NEW lo, NEW na, NEW nb, Runs(f0, order, lo, na, nb),
         NEW c \in 0..na, NEW j \in 0..nb, Merged(h, f0, order, lo, na, nb, c, j),
         j < nb, c < na => After(order, f0[lo + c], f0[lo + (na + j)]),
         NEW w, Extends(w, h, f0, lo, c + j, na + j)
  PROVE  Merged(w, f0, order, lo, na, nb, c, j + 1)
<1>. DEFINE m == c + j
            v == f0[lo + (na + j)]
<1>1. /\ lo \in Nat /\ na \in Nat /\ nb \in Nat /\ c \in Nat /\ j \in Nat /\ m \in Nat
      /\ c + (j + 1) = m + 1 /\ (m + 1) - 1 = m
      /\ \A x \in 0..m : x = m \/ x \in 0..(m - 1)
  BY DEF Runs
<1>2. v \in Int
  <2>1. na + j \in 0..(na + nb - 1)
    BY <1>1
  <2>. QED
    BY <2>1 DEF Runs
<1>3. w[lo + m] = v /\ \A x \in 0..(m - 1) : w[lo + x] = h[lo + x]
  BY DEF Extends
<1>4. /\ \A x \in 0..(m - 1) : h[lo + x] \in Int /\ ~After(order, h[lo + x], v)
      /\ \A x, y \in 0..(m - 1) : x <= y => ~After(order, h[lo + x], h[lo + y])
      /\ \A x \in 0..(m - 1) : c < na => ~After(order, h[lo + x], f0[lo + c])
  BY DEF Merged
<1>5. Placed(w, f0, lo, m + 1, Taken(na, c, j + 1))
  <2>1. Placed(h, f0, lo, m, Taken(na, c, j))
    BY DEF Merged
  <2>2. Placed(w, f0, lo, m + 1, Taken(na, c, j) \union {na + j})
    <3>. HIDE DEF m
    <3>. QED
      BY <1>1, <1>3, <2>1, PlaceOne DEF v
  <2>3. Taken(na, c, j + 1) = Taken(na, c, j) \union {na + j}
    BY <1>1, TakenMore
  <2>. QED
    BY <2>2, <2>3
<1>6. j + 1 < nb => /\ f0[lo + (na + (j + 1))] \in Int
                    /\ ~After(order, v, f0[lo + (na + (j + 1))])
  <2>. SUFFICES ASSUME j + 1 < nb
                PROVE  /\ f0[lo + (na + (j + 1))] \in Int
                       /\ ~After(order, v, f0[lo + (na + (j + 1))])
    OBVIOUS
  <2>1. na + (j + 1) \in 0..(na + nb - 1) /\ j + 1 \in 0..(nb - 1) /\ j \in 0..(nb - 1)
        /\ j <= j + 1
    BY <1>1
  <2>. QED
    BY <2>1 DEF Runs
<1>. HIDE DEF m, v
<1>7. \A x \in 0..m : w[lo + x] \in Int /\ ~After(order, w[lo + x], v)
  BY <1>1, <1>3, <1>4, <1>2, AfterIsOrder
<1>8. \A x, y \in 0..m : x <= y => ~After(order, w[lo + x], w[lo + y])
  <2>. SUFFICES ASSUME NEW x \in 0..m, NEW y \in 0..m, x <= y
                PROVE  ~After(order, w[lo + x], w[lo + y])
    OBVIOUS
  <2>1. CASE y = m
    BY <1>3, <1>7, <2>1
  <2>2. CASE y # m
    <3>1. x \in 0..(m - 1) /\ y \in 0..(m - 1)
      BY <1>1, <2>2
    <3>. QED
      BY <1>3, <1>4, <3>1
  <2>. QED
    BY <2>1, <2>2
<1>9. \A x \in 0..m : c < na => ~After(order, w[lo + x], f0[lo + c])
  <2>1. c < na => ~After(order, v, f0[lo + c])
    <3>1. c < na => f0[lo + c] \in Int /\ After(order, f0[lo + c], v)
      BY <1>1 DEF Runs, v
    <3>. QED
      BY <1>2, <3>1, AfterIsOrder
  <2>. QED
    BY <1>1, <1>3, <1>4, <2>1
<1>10. \A x \in 0..m : j + 1 < nb => ~After(order, w[lo + x], f0[lo + (na + (j + 1))])
  BY <1>6, <1>7, <1>2, AfterIsOrder
<1>. QED
  BY <1>1, <1>5, <1>7, <1>8, <1>9, <1>10 DEF Merged

(* What a merge is called with: two runs behind each other in the buffer.  *)
Mergeable(cap, lo, na, nb) ==
  /\ cap \in Nat /\ lo \in Nat /\ na \in Nat /\ nb \in Nat /\ lo + na + nb <= cap

(* The states of the loop of a merge. *)
Swapping(cap, room) ==
  [f : Buffer(cap), swap : Buffer(room), push : Nat, pop : Nat, j : Nat]

(* One iteration. *)
LEMMA MergeStepType ==
  ASSUME NEW cap, NEW order, NEW lo, NEW na, NEW nb, Mergeable(cap, lo, na, nb),
         NEW room \in Nat, NEW s \in Swapping(cap, room), NEW i \in 0..(na + nb - 1)
  PROVE  MergeStep(s, i, order, lo, na, nb) \in Swapping(cap, room)
<1>1. /\ s.f \in Buffer(cap) /\ s.swap \in Buffer(room)
      /\ s.push \in Nat /\ s.pop \in Nat /\ s.j \in Nat
  BY DEF Swapping
<1>2. /\ cap \in Nat /\ lo \in Nat /\ na \in Nat /\ nb \in Nat
      /\ lo + i \in 0..(cap - 1)
      /\ s.j < nb => lo + na + s.j \in 0..(cap - 1)
  BY <1>1 DEF Mergeable
<1>. DEFINE a == Get(s.swap, s.pop)
            c == s.f[lo + i]
            d == s.f[lo + na + s.j]
<1>3. a \in Cell /\ c \in Cell /\ (s.j < nb => d \in Cell)
  <2>1. a \in Cell
    BY <1>1, GetType
  <2>. QED
    BY <1>1, <1>2, <2>1 DEF Buffer
<1>4. \A v \in Cell : [s.f EXCEPT ![lo + i] = v] \in Buffer(cap)
  BY <1>1, <1>2 DEF Buffer
<1>5. Put(s.swap, s.push, c) \in Buffer(room)
  BY <1>1, <1>3, PutType
<1>. HIDE DEF a, c, d
<1>6. CASE i < na
  <2>. DEFINE held == s.push > s.pop
              left == IF held THEN a ELSE c
              right == s.j < nb /\ After(order, left, d)
  <2>1. left \in Cell
    BY <1>3
  <2>. HIDE DEF left
  <2>2. MergeStep(s, i, order, lo, na, nb) =
          IF ~held /\ ~right THEN s
          ELSE [f    |-> [s.f EXCEPT ![lo + i] = IF right THEN d ELSE left],
                swap |-> Put(s.swap, s.push, c),
                push |-> s.push + 1,
                pop  |-> IF right THEN s.pop ELSE s.pop + 1,
                j    |-> IF right THEN s.j + 1 ELSE s.j]
    BY <1>6 DEF MergeStep, MergeLeft, a, c, d, left
  <2>3. (IF right THEN d ELSE left) \in Cell
    BY <1>3, <2>1
  <2>. HIDE DEF right, held
  <2>. QED
    BY <1>1, <1>4, <1>5, <2>2, <2>3 DEF Swapping
<1>7. CASE ~(i < na)
  <2>. DEFINE right == s.j < nb /\ After(order, a, d)
  <2>1. MergeStep(s, i, order, lo, na, nb) =
          IF s.push = s.pop THEN s
          ELSE [f    |-> [s.f EXCEPT ![lo + i] = IF right THEN d ELSE a],
                swap |-> s.swap,
                push |-> s.push,
                pop  |-> IF right THEN s.pop ELSE s.pop + 1,
                j    |-> IF right THEN s.j + 1 ELSE s.j]
    BY <1>7 DEF MergeStep, MergeRest, a, d
  <2>2. (IF right THEN d ELSE a) \in Cell
    BY <1>3
  <2>. HIDE DEF right
  <2>. QED
    BY <1>1, <1>4, <2>1, <2>2 DEF Swapping
<1>. QED
  BY <1>6, <1>7

(* At most one cell of the swap space is filled. *)
LEMMA PushStep ==
  ASSUME NEW order, NEW lo, NEW na, NEW nb, NEW room, NEW cap,
         NEW s \in Swapping(cap, room), NEW i
  PROVE  MergeStep(s, i, order, lo, na, nb).push \in {s.push, s.push + 1}
  BY DEF MergeStep, MergeLeft, MergeRest

(* The loop of a merge. *)
MergeStart(f, room) ==
  [f |-> f, swap |-> newCArray(room), push |-> 0, pop |-> 0, j |-> 0]

MergeRun(g, n, cap, order, lo, na, nb, room, f0) ==
  /\ g[0] = MergeStart(f0, room)
  /\ \A k \in 0..n : g[k] \in Swapping(cap, room)
  /\ \A k \in 1..n : g[k] = MergeStep(g[k - 1], k - 1, order, lo, na, nb)
  /\ mergeLoop(f0, order, lo, na, nb, room) = g[n]

(* The loop of a merge is such a run. *)
LEMMA MergeFold ==
  ASSUME NEW cap, NEW order, NEW lo, NEW na, NEW nb, Mergeable(cap, lo, na, nb),
         NEW room \in Nat, NEW f0 \in Buffer(cap), NEW n, n = na + nb
  PROVE  \E g : MergeRun(g, n, cap, order, lo, na, nb, room, f0)
<1>. DEFINE b == MergeStart(f0, room)
            R == Swapping(cap, room)
            s == Positions(0, na + nb - 1)
            S(u, i) == MergeStep(u, i, order, lo, na, nb)
            op == [z \in R \X (1..n) |-> S(z[1], s[z[2]])]
            Body(f) == [t \in SUBSET DOMAIN s |->
                          IF t = {} THEN b ELSE S(f[t \ {Max(t)}], s[Max(t)])]
<1>1. /\ n \in Nat /\ DOMAIN s = 1..n
      /\ \A k \in 1..n : s[k] = k - 1 /\ s[k] \in 0..(na + nb - 1)
  <2>1. n \in Nat /\ na \in Nat /\ nb \in Nat
    BY DEF Mergeable
  <2>2. DOMAIN s = 1..n /\ \A k \in 1..n : s[k] = k - 1
    BY <2>1 DEF Positions
  <2>. HIDE DEF s
  <2>. QED
    BY <2>1, <2>2
<1>2. mergeLoop(f0, order, lo, na, nb, room) = (CHOOSE it : it = Body(it))[DOMAIN s]
  BY DEF mergeLoop, FoldLeft, MapThenFoldSet, MergeStart
<1>3. b \in R
  <2>1. newCArray(room) \in Buffer(room)
    BY DEF newCArray, Buffer, Cell
  <2>. QED
    BY <2>1 DEF MergeStart, Swapping
<1>4. \A u \in R, k \in 1..n : S(u, s[k]) \in R
  BY <1>1, MergeStepType
<1>. HIDE DEF b, R, s, S
<1>5. op \in [R \X (1..n) -> R]
  BY <1>4
<1>6. PICK it : IsFold(it, n, R, b, op)
  <2>. HIDE DEF op
  <2>. QED
    BY <1>1, <1>3, <1>5, FoldExists
<1>7. it = Body(it)
  <2>1. it \in [SUBSET (1..n) -> R]
    BY <1>6 DEF IsFold
  <2>2. ASSUME NEW t \in SUBSET (1..n), t # {}
        PROVE  it[t] = S(it[t \ {Max(t)}], s[Max(t)])
    <3>1. Max(t) \in 1..n /\ it[t \ {Max(t)}] \in R
      BY <1>1, <2>1, <2>2, MaxIsIn
    <3>2. it[t] = op[<<it[t \ {Max(t)}], Max(t)>>]
      BY <1>6, <2>2 DEF IsFold
    <3>. QED
      BY <3>1, <3>2
  <2>3. it[{}] = b
    BY <1>6 DEF IsFold
  <2>. QED
    BY <1>1, <2>1, <2>2, <2>3
<1>8. PICK f : f = Body(f) /\ mergeLoop(f0, order, lo, na, nb, room) = f[1..n]
  <2>. HIDE DEF Body
  <2>. QED
    BY <1>1, <1>2, <1>7
<1>9. f[1..0] = b
  <2>1. 1..0 = {}
    OBVIOUS
  <2>. QED
    BY <1>1, <1>8, <2>1
<1>10. ASSUME NEW k \in 1..n PROVE f[1..k] = S(f[1..(k - 1)], s[k])
  <2>1. /\ 1..k \in SUBSET (1..n) /\ 1..k # {}
        /\ Max(1..k) = k /\ (1..k) \ {k} = 1..(k - 1)
    <3>1. n \in Nat
      BY <1>1
    <3>. QED
      BY <3>1, UptoOneMore
  <2>2. f[1..k] = Body(f)[1..k]
    BY <1>8
  <2>. QED
    BY <1>1, <2>1, <2>2
<1>. DEFINE g == [k \in 0..n |-> f[1..k]]
<1>. HIDE DEF Body
<1>11. g[0] = b /\ mergeLoop(f0, order, lo, na, nb, room) = g[n]
  BY <1>1, <1>8, <1>9
<1>12. \A k \in 1..n : g[k] = S(g[k - 1], k - 1)
  BY <1>1, <1>10
<1>. HIDE DEF g
<1>13. \A k \in 0..n : g[k] \in R
  <2>1. \A k \in 1..n : g[k - 1] \in R => g[k] \in R
    BY <1>1, <1>4, <1>12
  <2>2. n \in Nat /\ g[0] \in R
    BY <1>1, <1>3, <1>11
  <2>. QED
    BY <2>1, <2>2, StaysIn
<1>. QED
  BY <1>11, <1>12, <1>13 DEF b, R, S, MergeRun

(* The cells of the left run whose elements were moved up to iteration i.  *)
Reached(i, na) == IF i < na THEN i ELSE na

(* h is f0 but for the n cells from lo on. *)
SameOutside(h, f0, lo, n) ==
  \A x \in DOMAIN f0 : x < lo \/ x >= lo + n => h[x] = f0[x]

(* The swap space holds the n cells of f0 from lo + c on. *)
Held(swap, pop, f0, lo, c, n) ==
  \A m \in 0..(n - 1) : swap[pop + m] = f0[lo + (c + m)]

(* The state before iteration i, with c of the left run in place: the swap *)
(* space holds the elements of the left run that were moved and are not in *)
(* place.  Once the left run is in place, nothing is left to do.           *)
MergeState(s, i, c, f0, order, lo, na, nb) ==
  /\ c \in 0..na /\ s.j \in 0..nb
  /\ c + s.j <= i
  /\ c + s.j < i => c = na
  /\ Merged(s.f, f0, order, lo, na, nb, c, s.j)
  /\ SameOutside(s.f, f0, lo, c + s.j)
  /\ s.push - s.pop = Reached(i, na) - c
  /\ s.push <= Reached(i, na)
  /\ Held(s.swap, s.pop, f0, lo, c, Reached(i, na) - c)

(* One cell less. *)
LEMMA HeldLess ==
  ASSUME NEW swap, NEW pop \in Nat, NEW f0, NEW lo, NEW c \in Nat, NEW n \in Nat,
         Held(swap, pop, f0, lo, c, n)
  PROVE  Held(swap, pop + 1, f0, lo, c + 1, n - 1)
<1>. SUFFICES ASSUME NEW m \in 0..((n - 1) - 1)
              PROVE  swap[(pop + 1) + m] = f0[lo + ((c + 1) + m)]
  BY DEF Held
<1>1. (pop + 1) + m = pop + (m + 1) /\ (c + 1) + m = c + (m + 1) /\ m + 1 \in 0..(n - 1)
  OBVIOUS
<1>. QED
  BY <1>1 DEF Held

(* Each iteration goes from one such state to the next, if there is room   *)
(* for the left run, or at least for what was filled.                      *)
LEMMA MergeStepState ==
  ASSUME NEW cap, NEW order, NEW lo, NEW na, NEW nb, Mergeable(cap, lo, na, nb),
         NEW room \in Nat, NEW f0 \in Buffer(cap), Runs(f0, order, lo, na, nb),
         NEW i \in 0..(na + nb - 1), NEW s \in Swapping(cap, room), NEW c,
         MergeState(s, i, c, f0, order, lo, na, nb),
         NEW w, w = MergeStep(s, i, order, lo, na, nb), na <= room \/ w.push <= room
  PROVE  \E d : MergeState(w, i + 1, d, f0, order, lo, na, nb)
<1>. DEFINE j == s.j
            r == Reached(i, na)
            L == f0[lo + c]
            T == f0[lo + (na + j)]
            right == j < nb /\ After(order, L, T)
<1>1. /\ cap \in Nat /\ lo \in Nat /\ na \in Nat /\ nb \in Nat /\ lo + na + nb <= cap
      /\ c \in Nat /\ c <= na /\ j \in Nat /\ j <= nb /\ i \in Nat /\ i < na + nb
      /\ c + j <= i
      /\ c + j < i => c = na
  BY DEF Mergeable, MergeState
<1>2. /\ s.f \in Buffer(cap) /\ s.swap \in Buffer(room) /\ s.push \in Nat /\ s.pop \in Nat
      /\ DOMAIN f0 = 0..(cap - 1) /\ DOMAIN s.f = 0..(cap - 1)
  BY DEF Swapping, Buffer
<1>3. /\ Merged(s.f, f0, order, lo, na, nb, c, j)
      /\ SameOutside(s.f, f0, lo, c + j)
      /\ s.push - s.pop = r - c /\ s.push <= r
      /\ Held(s.swap, s.pop, f0, lo, c, r - c)
  BY DEF MergeState
<1>4. /\ r \in Nat /\ r <= na /\ c <= r /\ r <= i
      /\ i < na => r = i /\ c + j = i /\ Reached(i + 1, na) = i + 1
      /\ ~(i < na) => r = na /\ Reached(i + 1, na) = na
  BY <1>1 DEF Reached
<1>5. s.push - s.pop = r - c /\ s.push <= r
  BY <1>3
<1>. HIDE DEF j, r
<1>17. s.push <= room
  <2>1. w.push \in {s.push, s.push + 1}
    BY PushStep
  <2>. QED
    BY <1>1, <1>2, <1>4, <1>5, <2>1
<1>6. s.push > s.pop <=> r > c
  BY <1>1, <1>2, <1>4, <1>5, SMTT(60)
<1>7. r > c => Get(s.swap, s.pop) = L
  <2>. SUFFICES ASSUME r > c PROVE Get(s.swap, s.pop) = L
    OBVIOUS
  <2>1. s.pop \in 0..(room - 1) /\ 0 \in 0..(r - c - 1) /\ s.pop + 0 = s.pop /\ c + 0 = c
    BY <1>1, <1>2, <1>4, <1>5, <1>6, <1>17, SMTT(60)
  <2>2. s.swap[s.pop] = L
    BY <1>3, <2>1 DEF Held
  <2>. QED
    BY <1>2, <2>1, <2>2, GetType
<1>8. j < nb => s.f[lo + na + j] = T
  <2>. SUFFICES ASSUME j < nb PROVE s.f[lo + na + j] = T
    OBVIOUS
  <2>1. lo + na + j \in 0..(cap - 1) /\ lo + na + j >= lo + (c + j)
        /\ lo + na + j = lo + (na + j)
    BY <1>1
  <2>. QED
    BY <1>2, <1>3, <2>1 DEF SameOutside
<1>9. c + j = i => s.f[lo + i] = f0[lo + i] /\ lo + i \in 0..(cap - 1)
  <2>1. c + j = i => lo + i \in 0..(cap - 1) /\ lo + i >= lo + (c + j)
    BY <1>1
  <2>. QED
    BY <1>2, <1>3, <2>1 DEF SameOutside
<1>10. \A y \in {s.push}, z \in {s.pop} :
          /\ y \in Nat /\ z \in Nat /\ y = z + (r - c) /\ y <= r
          /\ (y + 1) - z = (r + 1) - c
          /\ (y + 1) - (z + 1) = r - c
          /\ y - (z + 1) = r - (c + 1)
  <2>. SUFFICES ASSUME NEW y \in Nat, NEW z \in Nat, y - z = r - c, y <= r
                PROVE  /\ y = z + (r - c)
                       /\ (y + 1) - z = (r + 1) - c
                       /\ (y + 1) - (z + 1) = r - c
                       /\ y - (z + 1) = r - (c + 1)
    BY <1>2, <1>5
  <2>. QED
    BY <1>1, <1>4
<1>11. /\ s.push + 1 <= r + 1 /\ (s.push + 1) - s.pop = (r + 1) - c
       /\ (s.push + 1) - (s.pop + 1) = r - c /\ s.push - (s.pop + 1) = r - (c + 1)
  BY <1>4, <1>10
<1>. HIDE DEF L, T
<1>12. ASSUME c + j = i, NEW z, NEW v, v = f0[lo + z], NEW h, h = [s.f EXCEPT ![lo + i] = v]
      PROVE  /\ Extends(h, s.f, f0, lo, c + j, z)
             /\ SameOutside(h, f0, lo, i + 1)
  <2>1. h[lo + i] = v /\ \A x \in 0..(cap - 1) : x # lo + i => h[x] = s.f[x]
    BY <1>2, <1>9, <1>12
  <2>2. \A x \in 0..(i - 1) : lo + x \in 0..(cap - 1) /\ lo + x # lo + i
    BY <1>1
  <2>4. Extends(h, s.f, f0, lo, c + j, z)
    BY <1>12, <2>1, <2>2 DEF Extends
  <2>5. SameOutside(h, f0, lo, i + 1)
    <3>. SUFFICES ASSUME NEW x \in 0..(cap - 1), x < lo \/ x >= lo + (i + 1)
                  PROVE  h[x] = f0[x]
      BY <1>2 DEF SameOutside
    <3>1. x # lo + i
      BY <1>1
    <3>2. x < lo \/ x >= lo + (c + j)
      BY <1>1, <1>12
    <3>3. s.f[x] = f0[x]
      BY <1>2, <1>3, <3>2 DEF SameOutside
    <3>. QED
      BY <2>1, <3>1, <3>3
  <2>. QED
    BY <2>4, <2>5
<1>13. ASSUME c + j = i, right, NEW h, h = [s.f EXCEPT ![lo + i] = T]
       PROVE  /\ Merged(h, f0, order, lo, na, nb, c, j + 1)
              /\ SameOutside(h, f0, lo, c + (j + 1))
  <2>1. /\ Extends(h, s.f, f0, lo, c + j, na + j)
        /\ SameOutside(h, f0, lo, i + 1)
    <3>1. T = f0[lo + (na + j)]
      BY DEF T
    <3>. QED
      BY <1>12, <1>13, <3>1
  <2>2. c \in 0..na /\ j \in 0..nb /\ j < nb /\ c + (j + 1) = i + 1
    BY <1>1, <1>13
  <2>3. c < na => After(order, f0[lo + c], f0[lo + (na + j)])
    BY <1>13 DEF L, T
  <2>4. Merged(h, f0, order, lo, na, nb, c, j + 1)
    BY <1>3, <2>1, <2>2, <2>3, TakeRight
  <2>. QED
    BY <2>1, <2>2, <2>4
<1>14. ASSUME c + j = i, ~right, c < na, NEW h, h = [s.f EXCEPT ![lo + i] = L]
       PROVE  /\ Merged(h, f0, order, lo, na, nb, c + 1, j)
              /\ SameOutside(h, f0, lo, (c + 1) + j)
  <2>1. /\ Extends(h, s.f, f0, lo, c + j, c)
        /\ SameOutside(h, f0, lo, i + 1)
    <3>1. L = f0[lo + c]
      BY DEF L
    <3>. QED
      BY <1>12, <1>14, <3>1
  <2>2. c \in 0..na /\ j \in 0..nb /\ (c + 1) + j = i + 1
    BY <1>1, <1>14
  <2>3. j < nb => ~After(order, f0[lo + c], f0[lo + (na + j)])
    BY <1>14 DEF L, T
  <2>4. Merged(h, f0, order, lo, na, nb, c + 1, j)
    BY <1>3, <1>14, <2>1, <2>2, <2>3, TakeLeft
  <2>. QED
    BY <2>1, <2>2, <2>4
<1>15. CASE i < na
  <2>. DEFINE held == s.push > s.pop
  <2>1. r = i /\ c + j = i /\ Reached(i + 1, na) = i + 1 /\ c < na
    BY <1>1, <1>4, <1>15
  <2>2. (IF held THEN Get(s.swap, s.pop) ELSE s.f[lo + i]) = L
    <3>1. CASE r > c
      BY <1>6, <1>7, <3>1
    <3>2. CASE ~(r > c)
      <4>1. c = i /\ s.f[lo + i] = f0[lo + i]
        BY <1>1, <1>9, <2>1, <3>2
      <4>. QED
        BY <1>6, <3>2, <4>1 DEF L
    <3>. QED
      BY <3>1, <3>2
  <2>. DEFINE h == [s.f EXCEPT ![lo + i] = IF right THEN T ELSE L]
  <2>3. w = IF ~held /\ ~right THEN s
            ELSE [f    |-> h,
                  swap |-> Put(s.swap, s.push, s.f[lo + i]),
                  push |-> s.push + 1,
                  pop  |-> IF right THEN s.pop ELSE s.pop + 1,
                  j    |-> IF right THEN j + 1 ELSE j]
    <3>. DEFINE left == IF held THEN Get(s.swap, s.pop) ELSE s.f[lo + i]
                wins == j < nb /\ After(order, left, s.f[lo + na + j])
    <3>1. w = IF ~held /\ ~wins THEN s
              ELSE [f    |-> [s.f EXCEPT ![lo + i] = IF wins THEN s.f[lo + na + j] ELSE left],
                    swap |-> Put(s.swap, s.push, s.f[lo + i]),
                    push |-> s.push + 1,
                    pop  |-> IF wins THEN s.pop ELSE s.pop + 1,
                    j    |-> IF wins THEN j + 1 ELSE j]
      BY <1>15 DEF MergeStep, MergeLeft, j
    <3>2. left = L
      BY <2>2
    <3>. HIDE DEF left, held
    <3>3. (wins <=> right) /\ (wins => s.f[lo + na + j] = T)
      BY <1>8, <3>2
    <3>. HIDE DEF wins, right
    <3>. QED
      BY <3>1, <3>2, <3>3
  <2>. HIDE DEF h
  <2>4. ASSUME held \/ right
        PROVE  /\ w.swap = Put(s.swap, s.push, f0[lo + i]) /\ w.push = s.push + 1 /\ w.f = h
               /\ Held(w.swap, s.pop, f0, lo, c, (i + 1) - c)
    <3>1. w.swap = Put(s.swap, s.push, f0[lo + i]) /\ w.push = s.push + 1 /\ w.f = h
      <4>1. s.f[lo + i] = f0[lo + i]
        BY <1>9, <2>1
      <4>2. ~(~held /\ ~right)
        BY <2>4
      <4>. HIDE DEF held, right
      <4>. QED
        BY <2>3, <4>1, <4>2
    <3>2. f0[lo + i] \in Cell
      BY <1>9, <2>1 DEF Buffer
    <3>3. s.push \in 0..(room - 1) /\ s.push = s.pop + (r - c)
      <4>1. s.push \in Nat /\ s.pop \in Nat /\ r \in Nat /\ c \in Nat /\ room \in Nat
            /\ s.push - s.pop = r - c /\ s.push <= r /\ r < na /\ na \in Nat
        BY <1>1, <1>2, <1>4, <1>15, <1>5
      <4>2. na <= room \/ s.push + 1 <= room
        BY <3>1
      <4>3. PICK x, y : x = s.push /\ y = s.pop
        OBVIOUS
      <4>4. x \in 0..(room - 1) /\ x = y + (r - c)
        BY <4>1, <4>2, <4>3
      <4>. QED
        BY <4>3, <4>4
    <3>4. w.swap[s.push] = f0[lo + i]
      BY <1>2, <3>1, <3>2, <3>3, PutType
    <3>5. ASSUME NEW m \in 0..(r - c - 1) PROVE w.swap[s.pop + m] = f0[lo + (c + m)]
      <4>1. s.pop + m \in 0..(room - 1) /\ s.pop + m # s.push
        BY <1>1, <1>2, <1>4, <3>3, SMTT(60)
      <4>2. w.swap[s.pop + m] = s.swap[s.pop + m]
        BY <1>2, <3>1, <3>2, <4>1, PutType
      <4>. QED
        BY <1>3, <4>2 DEF Held
    <3>6. \A m \in 0..((i + 1) - c - 1) : m \in 0..(r - c - 1) \/ (m = r - c /\ c + m = i)
      BY <1>1, <2>1
    <3>7. Held(w.swap, s.pop, f0, lo, c, (i + 1) - c)
      BY <3>3, <3>4, <3>5, <3>6 DEF Held
    <3>. QED
      BY <3>1, <3>7
  <2>5. CASE right
    <3>1. /\ w.j = j + 1 /\ w.pop = s.pop /\ h = [s.f EXCEPT ![lo + i] = T] /\ j + 1 \in 0..nb
      <4>1. j + 1 \in 0..nb
        BY <1>1, <2>5
      <4>. HIDE DEF held, right
      <4>. QED
        BY <2>3, <2>5, <4>1 DEF h
    <3>2. /\ Merged(h, f0, order, lo, na, nb, c, j + 1)
          /\ SameOutside(h, f0, lo, c + (j + 1))
      BY <1>13, <2>1, <2>5, <3>1
    <3>3. /\ w.push = s.push + 1 /\ w.f = h
          /\ Held(w.swap, w.pop, f0, lo, c, (i + 1) - c)
      BY <2>4, <2>5, <3>1
    <3>4. MergeState(w, i + 1, c, f0, order, lo, na, nb)
      <4>1. /\ c \in 0..na /\ w.j \in 0..nb /\ c + w.j = i + 1
            /\ w.push - w.pop = (i + 1) - c /\ w.push <= i + 1
        <5>1. w.push = s.push + 1 /\ w.pop = s.pop /\ w.j = j + 1 /\ j + 1 \in 0..nb
          BY <3>1, <3>3
        <5>2. c \in 0..na /\ c + (j + 1) = i + 1
          BY <1>1, <2>1
        <5>3. (s.push + 1) - s.pop = (i + 1) - c /\ s.push + 1 <= i + 1
          BY <1>11, <2>1
        <5>. QED
          BY <5>1, <5>2, <5>3
      <4>. QED
        BY <2>1, <3>1, <3>2, <3>3, <4>1, <1>1 DEF MergeState
    <3>. QED
      BY <3>4
  <2>6. CASE ~right /\ held
    <3>1. w.j = j /\ w.pop = s.pop + 1 /\ h = [s.f EXCEPT ![lo + i] = L]
      <4>. HIDE DEF held, right
      <4>. QED
        BY <2>3, <2>6 DEF h
    <3>2. /\ Merged(h, f0, order, lo, na, nb, c + 1, j)
          /\ SameOutside(h, f0, lo, (c + 1) + j)
      BY <1>14, <2>1, <2>6, <3>1
    <3>3. /\ w.push = s.push + 1 /\ w.f = h
          /\ Held(w.swap, w.pop, f0, lo, c + 1, (i + 1) - (c + 1))
      <4>1. Held(w.swap, s.pop, f0, lo, c, (i + 1) - c) /\ (i + 1) - c \in Nat
        BY <1>1, <2>1, <2>4, <2>6
      <4>2. (i + 1) - (c + 1) = ((i + 1) - c) - 1
        BY <1>1
      <4>3. Held(w.swap, s.pop + 1, f0, lo, c + 1, ((i + 1) - c) - 1)
        BY <1>1, <1>2, <4>1, HeldLess
      <4>. QED
        BY <2>4, <2>6, <3>1, <4>2, <4>3
    <3>4. MergeState(w, i + 1, c + 1, f0, order, lo, na, nb)
      <4>1. /\ c + 1 \in 0..na /\ w.j \in 0..nb /\ (c + 1) + w.j = i + 1
            /\ w.push - w.pop = (i + 1) - (c + 1) /\ w.push <= i + 1
        <5>1. w.push = s.push + 1 /\ w.pop = s.pop + 1 /\ w.j = j
          BY <3>1, <3>3
        <5>2. c + 1 \in 0..na /\ j \in 0..nb /\ (c + 1) + j = i + 1 /\ (i + 1) - (c + 1) = i - c
          BY <1>1, <2>1
        <5>3. (s.push + 1) - (s.pop + 1) = i - c /\ s.push + 1 <= i + 1
          BY <1>11, <2>1
        <5>. QED
          BY <5>1, <5>2, <5>3
      <4>. QED
        BY <2>1, <3>1, <3>2, <3>3, <4>1, <1>1 DEF MergeState
    <3>. QED
      BY <3>4
  <2>7. CASE ~right /\ ~held
    <3>1. w = s /\ c = i /\ j = 0
      <4>1. c = i /\ j = 0
        BY <1>1, <1>4, <1>6, <2>1, <2>7
      <4>. HIDE DEF held, right
      <4>. QED
        BY <2>3, <2>7, <4>1
    <3>2. s.f[lo + i] = L
      BY <1>9, <2>1, <3>1 DEF L
    <3>3. s.f = [s.f EXCEPT ![lo + i] = L]
      BY <1>2, <3>2 DEF Buffer
    <3>4. /\ Merged(s.f, f0, order, lo, na, nb, c + 1, j)
          /\ SameOutside(s.f, f0, lo, (c + 1) + j)
      BY <1>14, <2>1, <2>7, <3>3
    <3>5. MergeState(w, i + 1, c + 1, f0, order, lo, na, nb)
      <4>1. /\ c + 1 \in 0..na /\ w.j = j /\ j \in 0..nb /\ (c + 1) + j = i + 1
            /\ w.push - w.pop = (i + 1) - (c + 1) /\ w.push <= i + 1
        <5>1. w.push = s.push /\ w.pop = s.pop /\ w.j = j
          BY <3>1 DEF j
        <5>2. /\ c + 1 \in 0..na /\ j \in 0..nb /\ (c + 1) + j = i + 1
              /\ (i + 1) - (c + 1) = r - c /\ r <= i + 1
          BY <1>1, <2>1
        <5>3. s.push - s.pop = r - c /\ s.push <= r + 1
          BY <1>2, <1>4, <1>5
        <5>. QED
          BY <2>1, <5>1, <5>2, <5>3
      <4>2. Held(s.swap, s.pop, f0, lo, c + 1, (i + 1) - (c + 1))
        <5>1. 0..((i + 1) - (c + 1) - 1) = {}
          BY <1>1, <3>1
        <5>. QED
          BY <5>1 DEF Held
      <4>. QED
        BY <1>1, <2>1, <3>1, <3>4, <4>1, <4>2 DEF MergeState
    <3>. QED
      BY <3>5
  <2>. QED
    BY <2>5, <2>6, <2>7
<1>16. CASE ~(i < na)
  <2>1. r = na /\ Reached(i + 1, na) = na
    BY <1>4, <1>16
  <2>. DEFINE wins == j < nb /\ After(order, Get(s.swap, s.pop), s.f[lo + na + j])
  <2>2. w = IF s.push = s.pop THEN s
            ELSE [f    |-> [s.f EXCEPT ![lo + i] = IF wins THEN s.f[lo + na + j]
                                                   ELSE Get(s.swap, s.pop)],
                  swap |-> s.swap,
                  push |-> s.push,
                  pop  |-> IF wins THEN s.pop ELSE s.pop + 1,
                  j    |-> IF wins THEN j + 1 ELSE j]
    BY <1>16 DEF MergeStep, MergeRest, j
  <2>3. CASE s.push = s.pop
    <3>1. w = s
      BY <2>2, <2>3
    <3>2. c = na
      <4>1. ~(s.push > s.pop)
        BY <1>2, <2>3
      <4>. QED
        BY <1>1, <1>4, <1>6, <2>1, <4>1
    <3>3. MergeState(w, i + 1, c, f0, order, lo, na, nb)
      <4>1. c \in 0..na /\ w.j = j /\ j \in 0..nb /\ c + j <= i + 1
        BY <1>1, <3>1, <3>2 DEF j
      <4>. QED
        BY <1>1, <1>3, <2>1, <3>1, <3>2, <4>1, SMTT(60) DEF MergeState
    <3>. QED
      BY <3>3
  <2>4. CASE s.push # s.pop
    <3>1. c < na /\ c + j = i /\ r > c
      <4>1. r # c
        BY <1>1, <1>2, <1>4, <1>5, <2>4, SMTT(60)
      <4>. QED
        BY <1>1, <1>4, <2>1, <4>1
    <3>2. Get(s.swap, s.pop) = L
      BY <1>7, <3>1
    <3>3. (wins <=> right) /\ (wins => s.f[lo + na + j] = T)
      BY <1>8, <3>2
    <3>. HIDE DEF wins
    <3>4. CASE right
      <4>1. wins
        BY <3>3, <3>4
      <4>2. /\ w.f = [s.f EXCEPT ![lo + i] = T] /\ w.swap = s.swap /\ w.push = s.push
            /\ w.pop = s.pop /\ w.j = j + 1 /\ j + 1 \in 0..nb
        <5>1. j + 1 \in 0..nb
          BY <1>1, <3>4
        <5>. HIDE DEF right
        <5>. QED
          BY <2>2, <2>4, <3>3, <4>1, <5>1
      <4>3. /\ Merged(w.f, f0, order, lo, na, nb, c, j + 1)
            /\ SameOutside(w.f, f0, lo, c + (j + 1))
        BY <1>13, <3>1, <3>4, <4>2
      <4>4. MergeState(w, i + 1, c, f0, order, lo, na, nb)
        <5>1. c \in 0..na /\ w.j \in 0..nb /\ c + w.j = i + 1
          BY <1>1, <3>1, <4>2
        <5>. QED
          BY <1>1, <1>3, <2>1, <4>2, <4>3, <5>1 DEF MergeState
      <4>. QED
        BY <4>4
    <3>5. CASE ~right
      <4>1. ~wins
        BY <3>3, <3>5
      <4>2. /\ w.f = [s.f EXCEPT ![lo + i] = L] /\ w.swap = s.swap /\ w.push = s.push
            /\ w.pop = s.pop + 1 /\ w.j = j
        <5>. HIDE DEF right
        <5>. QED
          BY <2>2, <2>4, <3>2, <4>1
      <4>3. /\ Merged(w.f, f0, order, lo, na, nb, c + 1, j)
            /\ SameOutside(w.f, f0, lo, (c + 1) + j)
        BY <1>14, <3>1, <3>5, <4>2
      <4>4. Held(w.swap, w.pop, f0, lo, c + 1, na - (c + 1))
        <5>1. na - c \in Nat /\ na - (c + 1) = (na - c) - 1
          BY <1>1
        <5>2. Held(s.swap, s.pop, f0, lo, c, na - c)
          BY <1>3, <2>1
        <5>3. Held(s.swap, s.pop + 1, f0, lo, c + 1, (na - c) - 1)
          BY <1>1, <1>2, <5>1, <5>2, HeldLess
        <5>. QED
          BY <4>2, <5>1, <5>3
      <4>5. MergeState(w, i + 1, c + 1, f0, order, lo, na, nb)
        <5>1. /\ c + 1 \in 0..na /\ w.j \in 0..nb /\ (c + 1) + w.j = i + 1
              /\ w.push - w.pop = na - (c + 1) /\ w.push <= na
          <6>1. c + 1 \in 0..na /\ j \in 0..nb /\ (c + 1) + j = i + 1
            BY <1>1, <3>1
          <6>2. s.push - (s.pop + 1) = na - (c + 1) /\ s.push <= na
            BY <1>5, <1>11, <2>1
          <6>. QED
            BY <4>2, <6>1, <6>2
        <5>. QED
          BY <1>1, <2>1, <4>2, <4>3, <4>4, <5>1 DEF MergeState
      <4>. QED
        BY <4>5
    <3>. QED
      BY <3>4, <3>5
  <2>. QED
    BY <2>3, <2>4
<1>. QED
  BY <1>15, <1>16

(* A merge puts two runs in order and touches nothing else. *)
MergeDone(f, f0, order, lo, n) ==
  /\ SameOutside(f, f0, lo, n)
  /\ Placed(f, f0, lo, n, 0..(n - 1))
  /\ \A x, y \in 0..(n - 1) : x <= y => ~After(order, f[lo + x], f[lo + y])

(* Before the first iteration. *)
LEMMA MergeBegins ==
  ASSUME NEW cap, NEW order, NEW lo, NEW na, NEW nb, Mergeable(cap, lo, na, nb),
         NEW room \in Nat, NEW f0 \in Buffer(cap)
  PROVE  MergeState(MergeStart(f0, room), 0, 0, f0, order, lo, na, nb)
<1>1. na \in Nat /\ nb \in Nat
  BY DEF Mergeable
<1>2. Reached(0, na) = 0 /\ Reached(0, na) - 0 = 0
  BY <1>1 DEF Reached
<1>3. Placed(f0, f0, lo, 0, Taken(na, 0, 0))
  <2>. DEFINE p == [x \in 0..(0 - 1) |-> x]
  <2>1. Taken(na, 0, 0) = {} /\ 0..(0 - 1) = {}
    BY <1>1 DEF Taken
  <2>2. p \in [0..(0 - 1) -> Taken(na, 0, 0)]
    BY <2>1
  <2>. HIDE DEF p
  <2>. QED
    BY <2>1, <2>2 DEF Placed
<1>4. Merged(f0, f0, order, lo, na, nb, 0, 0)
  <2>1. 0 + 0 = 0 /\ 0..(0 + 0 - 1) = {}
    OBVIOUS
  <2>. QED
    BY <1>3, <2>1 DEF Merged
<1>5. SameOutside(f0, f0, lo, 0 + 0)
  BY DEF SameOutside
<1>6. Held(newCArray(room), 0, f0, lo, 0, Reached(0, na) - 0)
  <2>1. 0..(0 - 1) = {}
    OBVIOUS
  <2>. QED
    BY <1>2, <2>1 DEF Held
<1>. QED
  BY <1>1, <1>2, <1>4, <1>5, <1>6 DEF MergeState, MergeStart

(* After the last one: what is left of the right run is in place. *)
LEMMA MergeEnds ==
  ASSUME NEW cap, NEW order, NEW lo, NEW na, NEW nb, Mergeable(cap, lo, na, nb),
         NEW room \in Nat, NEW f0 \in Buffer(cap), Runs(f0, order, lo, na, nb),
         NEW s \in Swapping(cap, room), NEW c,
         MergeState(s, na + nb, c, f0, order, lo, na, nb)
  PROVE  MergeDone(s.f, f0, order, lo, na + nb)
<1>. DEFINE j == s.j
            f == s.f
<1>1. PICK m, n : m = na + j /\ n = na + nb
  OBVIOUS
<1>2. /\ cap \in Nat /\ lo \in Nat /\ na \in Nat /\ nb \in Nat /\ lo + na + nb <= cap
      /\ c \in 0..na /\ j \in 0..nb /\ c + j <= n
      /\ c + j < n => c = na
      /\ DOMAIN f0 = 0..(cap - 1)
      /\ m = na + j /\ n = na + nb
  BY <1>1 DEF Mergeable, MergeState, Buffer
<1>3. /\ Merged(f, f0, order, lo, na, nb, c, j) /\ SameOutside(f, f0, lo, c + j)
  BY DEF MergeState
<1>. HIDE DEF j, f
<1>4. c = na /\ c + j = m /\ m \in Nat /\ n \in Nat /\ m <= n
  BY <1>2
<1>5. /\ Placed(f, f0, lo, m, Taken(na, na, j))
      /\ \A x, y \in 0..(m - 1) : x <= y => ~After(order, f[lo + x], f[lo + y])
      /\ \A x \in 0..(m - 1) : f[lo + x] \in Int
      /\ \A x \in 0..(m - 1) : j < nb => ~After(order, f[lo + x], f0[lo + (na + j)])
      /\ SameOutside(f, f0, lo, m)
  <2>1. Merged(f, f0, order, lo, na, nb, na, j) /\ SameOutside(f, f0, lo, m)
    BY <1>3, <1>4
  <2>2. m = na + j
    BY <1>2
  <2>3. Placed(f, f0, lo, na + j, Taken(na, na, j))
    BY <2>1 DEF Merged
  <2>4. \A x, y \in 0..(na + j - 1) : x <= y => ~After(order, f[lo + x], f[lo + y])
    BY <2>1 DEF Merged
  <2>5. /\ \A x \in 0..(na + j - 1) : f[lo + x] \in Int
        /\ \A x \in 0..(na + j - 1) : j < nb => ~After(order, f[lo + x], f0[lo + (na + j)])
    BY <2>1 DEF Merged
  <2>6. Placed(f, f0, lo, m, Taken(na, na, j))
    BY <2>2, <2>3
  <2>7. \A x, y \in 0..(m - 1) : x <= y => ~After(order, f[lo + x], f[lo + y])
    <3>. SUFFICES ASSUME NEW x \in 0..(m - 1), NEW y \in 0..(m - 1), x <= y
                  PROVE  ~After(order, f[lo + x], f[lo + y])
      OBVIOUS
    <3>1. x \in 0..(na + j - 1) /\ y \in 0..(na + j - 1)
      BY <1>2, <1>4
    <3>. QED
      BY <2>4, <3>1
  <2>8. /\ \A x \in 0..(m - 1) : f[lo + x] \in Int
        /\ \A x \in 0..(m - 1) : j < nb => ~After(order, f[lo + x], f0[lo + (na + j)])
    BY <1>2, <1>4, <2>5
  <2>. QED
    BY <2>1, <2>6, <2>7, <2>8
<1>6. \A x \in m..(n - 1) : f[lo + x] = f0[lo + x]
  <2>1. \A x \in m..(n - 1) : lo + x \in 0..(cap - 1) /\ lo + x >= lo + m
    BY <1>2, <1>4
  <2>. QED
    BY <1>2, <1>5, <2>1 DEF SameOutside
<1>7. Placed(f, f0, lo, n, 0..(n - 1))
  <2>1. Taken(na, na, j) = 0..(m - 1)
    BY <1>2 DEF Taken
  <2>2. PICK p \in [0..(m - 1) -> 0..(m - 1)] :
               /\ \A y \in 0..(m - 1) : \E x \in 0..(m - 1) : p[x] = y
               /\ \A x \in 0..(m - 1) : f[lo + x] = f0[lo + p[x]]
    BY <1>5, <2>1 DEF Placed
  <2>. DEFINE q == [x \in 0..(n - 1) |-> IF x < m THEN p[x] ELSE x]
  <2>3. /\ \A x \in 0..(m - 1) : x \in 0..(n - 1) /\ q[x] = p[x] /\ p[x] \in 0..(m - 1)
        /\ \A x \in m..(n - 1) : x \in 0..(n - 1) /\ q[x] = x
        /\ \A x \in 0..(n - 1) : x \in 0..(m - 1) \/ x \in m..(n - 1)
    BY <1>4
  <2>4. q \in [0..(n - 1) -> 0..(n - 1)]
    BY <2>3
  <2>. HIDE DEF q
  <2>5. \A y \in 0..(n - 1) : \E x \in 0..(n - 1) : q[x] = y
    BY <2>2, <2>3
  <2>6. \A x \in 0..(n - 1) : f[lo + x] = f0[lo + q[x]]
    BY <1>6, <2>2, <2>3
  <2>. QED
    BY <2>4, <2>5, <2>6 DEF Placed
<1>8. SameOutside(f, f0, lo, n)
  <2>. SUFFICES ASSUME NEW x \in 0..(cap - 1), x < lo \/ x >= lo + n PROVE f[x] = f0[x]
    BY <1>2 DEF SameOutside
  <2>1. x < lo \/ x >= lo + m
    BY <1>2, <1>4
  <2>. QED
    BY <1>2, <1>5, <2>1 DEF SameOutside
<1>9. ASSUME NEW x \in 0..(n - 1), NEW y \in 0..(n - 1), x <= y
      PROVE  ~After(order, f[lo + x], f[lo + y])
  <2>1. CASE y < m
    <3>1. x \in 0..(m - 1) /\ y \in 0..(m - 1)
      BY <1>4, <1>9, <2>1
    <3>. QED
      BY <1>5, <1>9, <3>1
  <2>2. CASE y >= m
    <3>1. /\ y - na \in 0..(nb - 1) /\ na + (y - na) = y /\ j \in 0..(nb - 1) /\ j <= y - na
          /\ y \in m..(n - 1) /\ na + j = m /\ j < nb /\ y \in 0..(na + nb - 1)
          /\ na + j \in 0..(na + nb - 1)
      BY <1>2, <1>4, <2>2
    <3>2. f[lo + y] = f0[lo + y] /\ f0[lo + y] \in Int /\ f0[lo + (na + j)] \in Int
      BY <1>6, <3>1 DEF Runs
    <3>3. CASE x < m
      <4>1. x \in 0..(m - 1)
        BY <1>4, <3>3
      <4>2. f[lo + x] \in Int /\ ~After(order, f[lo + x], f0[lo + (na + j)])
        BY <1>5, <3>1, <4>1
      <4>3. ~After(order, f0[lo + (na + j)], f0[lo + (na + (y - na))])
        BY <3>1 DEF Runs
      <4>. QED
        BY <3>1, <3>2, <4>2, <4>3, AfterIsOrder
    <3>4. CASE x >= m
      <4>1. /\ x - na \in 0..(nb - 1) /\ na + (x - na) = x /\ x - na <= y - na
            /\ x \in m..(n - 1)
        BY <1>2, <1>4, <1>9, <2>2, <3>4
      <4>2. f[lo + x] = f0[lo + x]
        BY <1>6, <4>1
      <4>3. ~After(order, f0[lo + (na + (x - na))], f0[lo + (na + (y - na))])
        BY <3>1, <4>1 DEF Runs
      <4>. QED
        BY <3>1, <3>2, <4>1, <4>2, <4>3
    <3>. QED
      BY <1>4, <3>3, <3>4
  <2>. QED
    BY <1>4, <2>1, <2>2
<1>10. MergeDone(f, f0, order, lo, n)
  BY <1>7, <1>8, <1>9 DEF MergeDone
<1>. QED
  BY <1>1, <1>10 DEF f

(* The whole loop. *)
LEMMA MergeResult ==
  ASSUME NEW cap, NEW order, NEW lo, NEW na, NEW nb, Mergeable(cap, lo, na, nb),
         NEW room \in Nat, NEW f0 \in Buffer(cap), Runs(f0, order, lo, na, nb),
         na <= room \/ mergeLoop(f0, order, lo, na, nb, room).push <= room
  PROVE  MergeDone(mergeLoop(f0, order, lo, na, nb, room).f, f0, order, lo, na + nb)
<1>. DEFINE done == mergeLoop(f0, order, lo, na, nb, room)
<1>1. PICK n : n = na + nb
  OBVIOUS
<1>2. na \in Nat /\ nb \in Nat /\ n \in Nat
  BY <1>1 DEF Mergeable
<1>3. PICK g : /\ g[0] = MergeStart(f0, room)
               /\ \A k \in 0..n : g[k] \in Swapping(cap, room)
               /\ \A k \in 1..n : g[k] = MergeStep(g[k - 1], k - 1, order, lo, na, nb)
               /\ done = g[n]
  <2>1. \E g : MergeRun(g, n, cap, order, lo, na, nb, room, f0)
    BY <1>1, MergeFold
  <2>. QED
    BY <2>1 DEF MergeRun
<1>10. na <= room \/ \A k \in 0..n : g[k].push <= room
  <2>. DEFINE h == [k \in 0..n |-> g[k].push]
  <2>1. \A k \in 0..n : h[k] = g[k].push /\ h[k] \in Nat
    BY <1>3 DEF Swapping
  <2>2. ASSUME NEW k \in 1..n PROVE h[k - 1] <= h[k]
    <3>1. k \in 0..n /\ k - 1 \in 0..n
      BY <1>2
    <3>2. g[k].push \in {g[k - 1].push, g[k - 1].push + 1}
      BY <1>3, <3>1, PushStep
    <3>. QED
      BY <2>1, <3>1, <3>2
  <2>. HIDE DEF h
  <2>3. \A k \in 0..n : h[k] <= h[n]
    BY <1>2, <2>1, <2>2, Climbs
  <2>4. n \in 0..n
    BY <1>2
  <2>. QED
    BY <1>3, <2>1, <2>3, <2>4
<1>. DEFINE T == {k \in Nat : k <= n => \E c : MergeState(g[k], k, c, f0, order, lo, na, nb)}
<1>4. 0 \in T
  BY <1>3, MergeBegins
<1>5. ASSUME NEW k \in T PROVE k + 1 \in T
  <2>. SUFFICES ASSUME k + 1 <= n
                PROVE  \E c : MergeState(g[k + 1], k + 1, c, f0, order, lo, na, nb)
    OBVIOUS
  <2>1. /\ k \in Nat /\ k \in 0..n /\ k + 1 \in 1..n /\ (k + 1) - 1 = k
        /\ k \in 0..(na + nb - 1) /\ k <= n
    BY <1>1, <1>2
  <2>2. PICK c : MergeState(g[k], k, c, f0, order, lo, na, nb)
    BY <2>1
  <2>3. /\ g[k] \in Swapping(cap, room)
        /\ g[k + 1] = MergeStep(g[k], k, order, lo, na, nb)
        /\ na <= room \/ g[k + 1].push <= room
    BY <1>2, <1>3, <1>10, <2>1
  <2>. QED
    BY <2>1, <2>2, <2>3, MergeStepState
<1>6. T = Nat
  <2>1. T \in SUBSET Nat
    OBVIOUS
  <2>. HIDE DEF T
  <2>. QED
    BY <1>4, <1>5, <2>1, SetInduction
<1>7. PICK c : MergeState(g[n], n, c, f0, order, lo, na, nb)
  BY <1>2, <1>6
<1>8. g[n] \in Swapping(cap, room)
  BY <1>2, <1>3
<1>. HIDE DEF done
<1>9. MergeDone(g[n].f, f0, order, lo, na + nb)
  BY <1>1, <1>7, <1>8, MergeEnds
<1>. QED
  BY <1>3, <1>9 DEF done

-----------------------------------------------------------------------------
(* The passes of the sort. *)

(* The buffer and the swap space used. *)
Sorting(cap) == [f : Buffer(cap), used : Nat]

(* How many cells of a second run there are from i on. *)
SecondRun(i, span, size) == IF i + 2 * span > size THEN size - (i + span) ELSE span

(* The two runs of a merge are in the buffer. *)
LEMMA RunsMergeable ==
  ASSUME NEW cap \in Nat, NEW size \in 0..cap, NEW span \in Nat \ {0}, NEW i \in Nat,
         i + span < size
  PROVE  /\ Mergeable(cap, i, span, SecondRun(i, span, size))
         /\ SecondRun(i, span, size) > 0 /\ i + span + SecondRun(i, span, size) <= size
         /\ SecondRun(i, span, size) <= span
  BY DEF Mergeable, SecondRun

(* One merge. *)
LEMMA MergeRunsType ==
  ASSUME NEW cap \in Nat, NEW order, NEW size \in 0..cap, NEW span \in Nat \ {0},
         NEW room \in Nat, NEW t \in Sorting(cap), NEW k \in Nat
  PROVE  MergeRuns(t, k, order, span, size, room) \in Sorting(cap)
<1>. DEFINE i == 2 * span * k
            nb == SecondRun(i, span, size)
            done == mergeLoop(t.f, order, i, span, nb, room)
<1>1. MergeRuns(t, k, order, span, size, room) =
        IF i + span >= size THEN t
        ELSE [f |-> done.f, used |-> IF done.push > t.used THEN done.push ELSE t.used]
  BY DEF MergeRuns, Merge, SecondRun
<1>2. i \in Nat
  OBVIOUS
<1>. HIDE DEF i
<1>3. t.f \in Buffer(cap) /\ t.used \in Nat
  BY DEF Sorting
<1>4. CASE i + span < size
  <2>1. Mergeable(cap, i, span, nb)
    BY <1>2, <1>4, RunsMergeable
  <2>2. PICK n : n = span + nb
    OBVIOUS
  <2>. HIDE DEF nb
  <2>3. n \in Nat
    BY <2>1, <2>2 DEF Mergeable
  <2>4. done \in Swapping(cap, room)
    <3>1. PICK g : /\ \A x \in 0..n : g[x] \in Swapping(cap, room)
                   /\ done = g[n]
      <4>1. \E g : MergeRun(g, n, cap, order, i, span, nb, room, t.f)
        BY <1>3, <2>1, <2>2, MergeFold
      <4>. QED
        BY <4>1 DEF MergeRun
    <3>. QED
      BY <2>3, <3>1
  <2>5. done.f \in Buffer(cap) /\ done.push \in Nat
    BY <2>4 DEF Swapping
  <2>. HIDE DEF done
  <2>. QED
    BY <1>1, <1>2, <1>3, <1>4, <2>5 DEF Sorting
<1>5. CASE ~(i + span < size)
  <2>1. i + span >= size
    BY <1>2, <1>5
  <2>. QED
    BY <1>1, <2>1
<1>. QED
  BY <1>4, <1>5

(* The loop of a pass. *)
PassRun(g, n, cap, order, size, span, room, t0) ==
  /\ g[0] = t0
  /\ \A k \in 0..n : g[k] \in Sorting(cap)
  /\ \A k \in 1..n : g[k] = MergeRuns(g[k - 1], k - 1, order, span, size, room)
  /\ SortPass(t0, order, span, size, room) = g[n]

(* A pass is such a run. *)
LEMMA PassFold ==
  ASSUME NEW cap \in Nat, NEW order, NEW size \in 0..cap, NEW span \in Nat \ {0},
         NEW room \in Nat, NEW t0 \in Sorting(cap), NEW n, n = size \div (2 * span) + 1
  PROVE  \E g : PassRun(g, n, cap, order, size, span, room, t0)
<1>. DEFINE b == t0
            R == Sorting(cap)
            s == Positions(0, size \div (2 * span))
            S(u, i) == MergeRuns(u, i, order, span, size, room)
            op == [z \in R \X (1..n) |-> S(z[1], s[z[2]])]
            Body(f) == [t \in SUBSET DOMAIN s |->
                          IF t = {} THEN b ELSE S(f[t \ {Max(t)}], s[Max(t)])]
<1>1. /\ n \in Nat /\ DOMAIN s = 1..n
      /\ \A k \in 1..n : s[k] = k - 1 /\ s[k] \in Nat
  <2>. DEFINE q == size \div (2 * span)
  <2>1. q \in Nat
    <3>1. 2 * span \in Nat \ {0} /\ size \in Nat
      OBVIOUS
    <3>. QED
      BY <3>1, QuotientAndRemainder
  <2>. HIDE DEF q
  <2>2. n = q + 1 /\ s = Positions(0, q)
    BY DEF q
  <2>3. DOMAIN s = 1..n /\ \A k \in 1..n : s[k] = k - 1
    BY <2>1, <2>2 DEF Positions
  <2>. HIDE DEF s
  <2>. QED
    BY <2>1, <2>2, <2>3
<1>2. SortPass(t0, order, span, size, room) = (CHOOSE it : it = Body(it))[DOMAIN s]
  BY DEF SortPass, FoldLeft, MapThenFoldSet
<1>3. b \in R
  OBVIOUS
<1>4. \A u \in R, k \in 1..n : S(u, s[k]) \in R
  BY <1>1, MergeRunsType
<1>. HIDE DEF b, R, s, S
<1>5. op \in [R \X (1..n) -> R]
  BY <1>4
<1>6. PICK it : IsFold(it, n, R, b, op)
  <2>. HIDE DEF op
  <2>. QED
    BY <1>1, <1>3, <1>5, FoldExists
<1>7. it = Body(it)
  <2>1. it \in [SUBSET (1..n) -> R]
    BY <1>6 DEF IsFold
  <2>2. ASSUME NEW t \in SUBSET (1..n), t # {}
        PROVE  it[t] = S(it[t \ {Max(t)}], s[Max(t)])
    <3>1. Max(t) \in 1..n /\ it[t \ {Max(t)}] \in R
      BY <1>1, <2>1, <2>2, MaxIsIn
    <3>2. it[t] = op[<<it[t \ {Max(t)}], Max(t)>>]
      BY <1>6, <2>2 DEF IsFold
    <3>. QED
      BY <3>1, <3>2
  <2>3. it[{}] = b
    BY <1>6 DEF IsFold
  <2>. QED
    BY <1>1, <2>1, <2>2, <2>3
<1>8. PICK f : f = Body(f) /\ SortPass(t0, order, span, size, room) = f[1..n]
  <2>. HIDE DEF Body
  <2>. QED
    BY <1>1, <1>2, <1>7
<1>9. f[1..0] = b
  <2>1. 1..0 = {}
    OBVIOUS
  <2>. QED
    BY <1>1, <1>8, <2>1
<1>10. ASSUME NEW k \in 1..n PROVE f[1..k] = S(f[1..(k - 1)], s[k])
  <2>1. /\ 1..k \in SUBSET (1..n) /\ 1..k # {}
        /\ Max(1..k) = k /\ (1..k) \ {k} = 1..(k - 1)
    <3>1. n \in Nat
      BY <1>1
    <3>. QED
      BY <3>1, UptoOneMore
  <2>2. f[1..k] = Body(f)[1..k]
    BY <1>8
  <2>. QED
    BY <1>1, <2>1, <2>2
<1>. DEFINE g == [k \in 0..n |-> f[1..k]]
<1>. HIDE DEF Body
<1>11. g[0] = b /\ SortPass(t0, order, span, size, room) = g[n]
  BY <1>1, <1>8, <1>9
<1>12. \A k \in 1..n : g[k] = S(g[k - 1], k - 1)
  BY <1>1, <1>10
<1>. HIDE DEF g
<1>13. \A k \in 0..n : g[k] \in R
  <2>1. \A k \in 1..n : g[k - 1] \in R => g[k] \in R
    BY <1>1, <1>4, <1>12
  <2>2. n \in Nat /\ g[0] \in R
    BY <1>1, <1>3, <1>11
  <2>. QED
    BY <2>1, <2>2, StaysIn
<1>. QED
  BY <1>11, <1>12, <1>13 DEF b, R, S, PassRun

(* The lengths of the runs: each is twice the one before. *)
LEMMA SpanStep ==
  /\ Span[0] = 1
  /\ \A k \in Nat : Span[k] \in Nat \ {0} /\ Span[k + 1] = 2 * Span[k] /\ Span[k] > k
<1>. DEFINE N == Nat \ {0}
            s == [z \in Nat \X N |-> 2 * z[2]]
            Body(f) == [n \in Nat |-> IF n = 0 THEN 1 ELSE 2 * f[n - 1]]
<1>1. s \in [Nat \X N -> N] /\ 1 \in N
  OBVIOUS
<1>2. PICK g : Iterates(g, N, 1, s)
  <2>. HIDE DEF N, s
  <2>. QED
    BY <1>1, Recursion
<1>3. ASSUME NEW n \in Nat, n # 0 PROVE g[n] = 2 * g[n - 1]
  <2>1. n - 1 \in Nat /\ (n - 1) + 1 = n
    BY <1>3
  <2>2. g[n - 1] \in N
    BY <1>2, <2>1 DEF Iterates
  <2>3. g[(n - 1) + 1] = s[<<n - 1, g[n - 1]>>]
    BY <1>2, <2>1 DEF Iterates
  <2>. QED
    BY <2>1, <2>2, <2>3
<1>4. g = Body(g)
  BY <1>2, <1>3 DEF Iterates
<1>5. Span = CHOOSE f : f = Body(f)
  BY DEF Span
<1>6. Span = Body(Span)
  <2>. HIDE DEF Body
  <2>. QED
    BY <1>4, <1>5
<1>7. Span[0] = 1 /\ \A n \in Nat : Span[n + 1] = 2 * Span[n]
  BY <1>6
<1>. DEFINE T == {n \in Nat : Span[n] \in N /\ Span[n] > n}
<1>8. 0 \in T /\ \A n \in T : n + 1 \in T
  <2>1. ASSUME NEW n \in T PROVE n + 1 \in T
    <3>. DEFINE p == Span[n]
    <3>1. p \in N /\ n \in Nat /\ Span[n + 1] = 2 * p /\ p > n
      BY <1>7
    <3>. HIDE DEF p
    <3>. QED
      BY <3>1
  <2>. QED
    BY <1>7, <2>1
<1>9. T = Nat
  <2>1. T \in SUBSET Nat
    OBVIOUS
  <2>. HIDE DEF T
  <2>. QED
    BY <1>8, <2>1, SetInduction
<1>. QED
  BY <1>7, <1>9

(* One pass of the sort, if it is needed. *)
LEMMA SortSpanType ==
  ASSUME NEW cap \in Nat, NEW order, NEW size \in 0..cap, NEW t \in Sorting(cap),
         NEW k \in Nat
  PROVE  SortSpan(t, k, order, size) \in Sorting(cap)
<1>. DEFINE room == swapSpaceSize(size) + SwapSlack
            n == size \div (2 * Span[k]) + 1
            done == SortPass(t, order, Span[k], size, room)
<1>1. room \in Nat
  BY ArrayAssumption DEF swapSpaceSize
<1>2. Span[k] \in Nat \ {0}
  BY SpanStep
<1>3. n \in Nat
  <2>1. 2 * Span[k] \in Nat \ {0} /\ size \in Nat
    BY <1>2
  <2>2. size \div (2 * Span[k]) \in Nat
    BY <2>1, QuotientAndRemainder
  <2>. QED
    BY <2>2
<1>4. done \in Sorting(cap)
  <2>. HIDE DEF room
  <2>1. PICK m : m = n
    OBVIOUS
  <2>2. PICK g : /\ \A x \in 0..m : g[x] \in Sorting(cap)
                 /\ done = g[m]
    <3>1. \E g : PassRun(g, m, cap, order, size, Span[k], room, t)
      BY <1>1, <1>2, <2>1, PassFold
    <3>. QED
      BY <3>1 DEF PassRun
  <2>. HIDE DEF n, done
  <2>. QED
    BY <1>3, <2>1, <2>2
<1>. QED
  BY <1>4 DEF SortSpan

(* The loop of the sort. *)
SortRun(g, n, cap, order, size, f0) ==
  /\ g[0] = [f |-> f0, used |-> 0]
  /\ \A k \in 0..n : g[k] \in Sorting(cap)
  /\ \A k \in 1..n : g[k] = SortSpan(g[k - 1], k - 1, order, size)
  /\ nlognSort(f0, order, size) = g[n]

(* The sort is such a run. *)
LEMMA SortFold ==
  ASSUME NEW cap \in Nat, NEW order, NEW size \in 0..cap, NEW f0 \in Buffer(cap),
         NEW n, n = size + 1
  PROVE  \E g : SortRun(g, n, cap, order, size, f0)
<1>. DEFINE b == [f |-> f0, used |-> 0]
            R == Sorting(cap)
            s == Positions(0, size)
            S(u, i) == SortSpan(u, i, order, size)
            op == [z \in R \X (1..n) |-> S(z[1], s[z[2]])]
            Body(f) == [t \in SUBSET DOMAIN s |->
                          IF t = {} THEN b ELSE S(f[t \ {Max(t)}], s[Max(t)])]
<1>1. /\ n \in Nat /\ DOMAIN s = 1..n
      /\ \A k \in 1..n : s[k] = k - 1 /\ s[k] \in Nat
  <2>1. n \in Nat
    OBVIOUS
  <2>2. DOMAIN s = 1..n /\ \A k \in 1..n : s[k] = k - 1
    BY <2>1 DEF Positions
  <2>. HIDE DEF s
  <2>. QED
    BY <2>1, <2>2
<1>2. nlognSort(f0, order, size) = (CHOOSE it : it = Body(it))[DOMAIN s]
  BY DEF nlognSort, FoldLeft, MapThenFoldSet
<1>3. b \in R
  BY DEF Sorting
<1>4. \A u \in R, k \in 1..n : S(u, s[k]) \in R
  BY <1>1, SortSpanType
<1>. HIDE DEF b, R, s, S
<1>5. op \in [R \X (1..n) -> R]
  BY <1>4
<1>6. PICK it : IsFold(it, n, R, b, op)
  <2>. HIDE DEF op
  <2>. QED
    BY <1>1, <1>3, <1>5, FoldExists
<1>7. it = Body(it)
  <2>1. it \in [SUBSET (1..n) -> R]
    BY <1>6 DEF IsFold
  <2>2. ASSUME NEW t \in SUBSET (1..n), t # {}
        PROVE  it[t] = S(it[t \ {Max(t)}], s[Max(t)])
    <3>1. Max(t) \in 1..n /\ it[t \ {Max(t)}] \in R
      BY <1>1, <2>1, <2>2, MaxIsIn
    <3>2. it[t] = op[<<it[t \ {Max(t)}], Max(t)>>]
      BY <1>6, <2>2 DEF IsFold
    <3>. QED
      BY <3>1, <3>2
  <2>3. it[{}] = b
    BY <1>6 DEF IsFold
  <2>. QED
    BY <1>1, <2>1, <2>2, <2>3
<1>8. PICK f : f = Body(f) /\ nlognSort(f0, order, size) = f[1..n]
  <2>. HIDE DEF Body
  <2>. QED
    BY <1>1, <1>2, <1>7
<1>9. f[1..0] = b
  <2>1. 1..0 = {}
    OBVIOUS
  <2>. QED
    BY <1>1, <1>8, <2>1
<1>10. ASSUME NEW k \in 1..n PROVE f[1..k] = S(f[1..(k - 1)], s[k])
  <2>1. /\ 1..k \in SUBSET (1..n) /\ 1..k # {}
        /\ Max(1..k) = k /\ (1..k) \ {k} = 1..(k - 1)
    <3>1. n \in Nat
      BY <1>1
    <3>. QED
      BY <3>1, UptoOneMore
  <2>2. f[1..k] = Body(f)[1..k]
    BY <1>8
  <2>. QED
    BY <1>1, <2>1, <2>2
<1>. DEFINE g == [k \in 0..n |-> f[1..k]]
<1>. HIDE DEF Body
<1>11. g[0] = b /\ nlognSort(f0, order, size) = g[n]
  BY <1>1, <1>8, <1>9
<1>12. \A k \in 1..n : g[k] = S(g[k - 1], k - 1)
  BY <1>1, <1>10
<1>. HIDE DEF g
<1>13. \A k \in 0..n : g[k] \in R
  <2>1. \A k \in 1..n : g[k - 1] \in R => g[k] \in R
    BY <1>1, <1>4, <1>12
  <2>2. n \in Nat /\ g[0] \in R
    BY <1>1, <1>3, <1>11
  <2>. QED
    BY <2>1, <2>2, StaysIn
<1>. QED
  BY <1>11, <1>12, <1>13 DEF b, R, S, SortRun

(* The first size cells of f are those of f0 in some order. *)
Rearranged(f, f0, size) ==
  \E p \in [0..(size - 1) -> 0..(size - 1)] :
     /\ \A y \in 0..(size - 1) : \E x \in 0..(size - 1) : p[x] = y
     /\ \A x \in 0..(size - 1) : f[x] = f0[p[x]]

(* Moving twice. *)
LEMMA RearrangedTwice ==
  ASSUME NEW size \in Nat, NEW f, NEW g, NEW h, Rearranged(f, g, size), Rearranged(g, h, size)
  PROVE  Rearranged(f, h, size)
<1>1. PICK p \in [0..(size - 1) -> 0..(size - 1)] :
               /\ \A y \in 0..(size - 1) : \E x \in 0..(size - 1) : p[x] = y
               /\ \A x \in 0..(size - 1) : f[x] = g[p[x]]
  BY DEF Rearranged
<1>2. PICK q \in [0..(size - 1) -> 0..(size - 1)] :
               /\ \A y \in 0..(size - 1) : \E x \in 0..(size - 1) : q[x] = y
               /\ \A x \in 0..(size - 1) : g[x] = h[q[x]]
  BY DEF Rearranged
<1>. DEFINE I == 0..(size - 1)
            r == [x \in I |-> q[p[x]]]
<1>3. r \in [I -> I] /\ \A x \in I : r[x] = q[p[x]] /\ p[x] \in I
  OBVIOUS
<1>. HIDE DEF I, r
<1>4. ASSUME NEW y \in I PROVE \E x \in I : r[x] = y
  <2>1. PICK z \in I : q[z] = y
    BY <1>2 DEF I
  <2>2. PICK x \in I : p[x] = z
    BY <1>1 DEF I
  <2>. QED
    BY <1>3, <2>1, <2>2
<1>5. ASSUME NEW x \in I PROVE f[x] = h[r[x]]
  <2>1. f[x] = g[p[x]] /\ p[x] \in I /\ r[x] = q[p[x]]
    BY <1>1, <1>3 DEF I
  <2>2. g[p[x]] = h[q[p[x]]]
    BY <1>2, <2>1 DEF I
  <2>. QED
    BY <2>1, <2>2
<1>. QED
  BY <1>3, <1>4, <1>5 DEF Rearranged, I

(* Moving nothing. *)
LEMMA RearrangedSame ==
  ASSUME NEW size \in Nat, NEW f
  PROVE  Rearranged(f, f, size)
<1>. DEFINE I == 0..(size - 1)
            p == [x \in I |-> x]
<1>1. p \in [I -> I] /\ \A x \in I : p[x] = x
  OBVIOUS
<1>. HIDE DEF p
<1>. QED
  BY <1>1 DEF Rearranged

(* Cells moved within a part of the array are moved within the array.      *)
LEMMA PlacedWithin ==
  ASSUME NEW cap \in Nat, NEW size \in 0..cap, NEW lo \in Nat, NEW m \in Nat, lo + m <= size,
         NEW f, NEW f0 \in Buffer(cap),
         Placed(f, f0, lo, m, 0..(m - 1)), SameOutside(f, f0, lo, m)
  PROVE  Rearranged(f, f0, size)
<1>1. PICK p \in [0..(m - 1) -> 0..(m - 1)] :
               /\ \A y \in 0..(m - 1) : \E x \in 0..(m - 1) : p[x] = y
               /\ \A x \in 0..(m - 1) : f[lo + x] = f0[lo + p[x]]
  BY DEF Placed
<1>. DEFINE I == 0..(size - 1)
            W == lo..(lo + m - 1)
            q == [x \in I |-> IF x \in W THEN lo + p[x - lo] ELSE x]
<1>2. \A x \in W : x \in I /\ x - lo \in 0..(m - 1) /\ lo + (x - lo) = x
  OBVIOUS
<1>3. \A x \in 0..(m - 1) : lo + x \in W /\ (lo + x) - lo = x /\ lo + x \in I
  OBVIOUS
<1>4. \A x \in W : q[x] = lo + p[x - lo] /\ p[x - lo] \in 0..(m - 1)
  BY <1>2
<1>5. \A x \in I : x \notin W => q[x] = x /\ (x < lo \/ x >= lo + m) /\ x \in DOMAIN f0
  BY DEF Buffer
<1>6. q \in [I -> I]
  <2>. HIDE DEF W
  <2>1. \A x \in I : x \in W => lo + p[x - lo] \in I
    BY <1>3, <1>4
  <2>. HIDE DEF I
  <2>. QED
    BY <2>1
<1>. HIDE DEF I, W, q
<1>7. ASSUME NEW y \in I PROVE \E x \in I : q[x] = y
  <2>1. CASE y \in W
    <3>1. PICK x \in 0..(m - 1) : p[x] = y - lo
      BY <1>1, <1>2, <2>1
    <3>2. lo + x \in W /\ (lo + x) - lo = x /\ lo + x \in I
      BY <1>3
    <3>3. q[lo + x] = y
      BY <1>2, <1>4, <2>1, <3>1, <3>2
    <3>. QED
      BY <3>2, <3>3
  <2>2. CASE y \notin W
    BY <1>5, <2>2
  <2>. QED
    BY <2>1, <2>2
<1>8. ASSUME NEW x \in I PROVE f[x] = f0[q[x]]
  <2>1. CASE x \in W
    <3>1. f[lo + (x - lo)] = f0[lo + p[x - lo]]
      BY <1>1, <1>2, <2>1
    <3>. QED
      BY <1>2, <1>4, <2>1, <3>1
  <2>2. CASE x \notin W
    BY <1>5, <2>2 DEF SameOutside
  <2>. QED
    BY <2>1, <2>2
<1>. QED
  BY <1>6, <1>7, <1>8 DEF Rearranged, I

-----------------------------------------------------------------------------
(* The cells from..to-1 of the first size cells are in order. *)
Ordered(f, order, from, to, size) ==
  \A x, y \in 0..(size - 1) :
     from <= x /\ x <= y /\ y < to => ~After(order, f[x], f[y])

(* Rearranging keeps what the cells are, and those behind stay. *)
Moved(f, f0, size) == Rearranged(f, f0, size) /\ SameOutside(f, f0, 0, size)

(* The parts of an array of runs of length span. *)
LEMMA SpanParts ==
  ASSUME NEW span \in Nat \ {0}, NEW k \in Nat
  PROVE  /\ 2 * span * k \in Nat /\ 2 * span * (k + 1) = 2 * span * k + 2 * span
         /\ (2 * span) * k = 2 * span * k /\ (2 * span) * (k + 1) = 2 * span * k + 2 * span
         /\ span * (2 * k) = 2 * span * k /\ span * (2 * k + 1) = 2 * span * k + span
         /\ \A b \in Nat : b < k => (2 * span) * b \in Nat /\ (2 * span) * (b + 1) <= 2 * span * k
         /\ \A b \in Nat : b >= 2 * (k + 1) =>
               span * b \in Nat /\ span * b >= 2 * span * k + 2 * span
         /\ \A b \in Nat : b >= 2 * k => span * b \in Nat /\ span * b >= 2 * span * k
<1>1. ASSUME NEW d \in Nat, NEW e \in Nat PROVE d * e \in Nat /\ d * e >= 0
  OBVIOUS
<1>2. ASSUME NEW b \in Nat, b < k
      PROVE  (2 * span) * b \in Nat /\ (2 * span) * (b + 1) <= 2 * span * k
  <2>1. PICK d \in Nat : k = b + 1 + d
    <3>1. k - b - 1 \in Nat /\ k = b + 1 + (k - b - 1)
      BY <1>2
    <3>. QED
      BY <3>1
  <2>2. 2 * span * k = (2 * span) * (b + 1) + (2 * span) * d
    BY <2>1
  <2>3. (2 * span) * d \in Nat /\ (2 * span) * (b + 1) \in Nat /\ (2 * span) * b \in Nat
    BY <1>1
  <2>. QED
    BY <2>2, <2>3
<1>3. ASSUME NEW c \in Nat, NEW b \in Nat, b >= c PROVE span * b \in Nat /\ span * b >= span * c
  <2>1. PICK d \in Nat : b = c + d
    <3>1. b - c \in Nat /\ b = c + (b - c)
      BY <1>3
    <3>. QED
      BY <3>1
  <2>2. span * b = span * c + span * d
    BY <2>1
  <2>3. span * d \in Nat /\ span * b \in Nat /\ span * c \in Nat
    BY <1>1
  <2>. QED
    BY <2>2, <2>3
<1>4. /\ 2 * span * k \in Nat /\ 2 * span * (k + 1) = 2 * span * k + 2 * span
      /\ (2 * span) * k = 2 * span * k /\ (2 * span) * (k + 1) = 2 * span * k + 2 * span
      /\ span * (2 * k) = 2 * span * k /\ span * (2 * k + 1) = 2 * span * k + span
      /\ span * (2 * (k + 1)) = 2 * span * k + 2 * span
  OBVIOUS
<1>5. 2 * k \in Nat /\ 2 * (k + 1) \in Nat
  OBVIOUS
<1>. QED
  BY <1>2, <1>3, <1>4, <1>5

(* The state of a pass before merge k: the parts before it are in order,   *)
(* the runs behind still are.                                              *)
PassState(f, k, f0, order, span, size) ==
  /\ Moved(f, f0, size)
  /\ \A b \in Nat : b < k => Ordered(f, order, (2 * span) * b, (2 * span) * (b + 1), size)
  /\ \A b \in Nat : b >= 2 * k => Ordered(f, order, span * b, span * (b + 1), size)

(* The first size cells are elements. *)
Filled(f, size) == \A x \in 0..(size - 1) : f[x] \in Elements

(* Rearranged elements are elements. *)
LEMMA MovedFilled ==
  ASSUME NEW size \in Nat, NEW f, NEW f0, Moved(f, f0, size), Filled(f0, size)
  PROVE  Filled(f, size)
<1>1. PICK p \in [0..(size - 1) -> 0..(size - 1)] :
               \A x \in 0..(size - 1) : f[x] = f0[p[x]]
  BY DEF Moved, Rearranged
<1>. QED
  BY <1>1 DEF Filled

(* The same, with the cells behind. *)
LEMMA MovedTwice ==
  ASSUME NEW cap \in Nat, NEW size \in 0..cap, NEW f \in Buffer(cap), NEW g \in Buffer(cap),
         NEW h \in Buffer(cap), Moved(f, g, size), Moved(g, h, size)
  PROVE  Moved(f, h, size)
<1>1. Rearranged(f, h, size)
  BY RearrangedTwice DEF Moved
<1>2. SameOutside(f, h, 0, size)
  <2>1. /\ \A x \in 0..(cap - 1) : x < 0 \/ x >= 0 + size => f[x] = g[x]
        /\ \A x \in 0..(cap - 1) : x < 0 \/ x >= 0 + size => g[x] = h[x]
    BY DEF Moved, SameOutside, Buffer
  <2>2. DOMAIN h = 0..(cap - 1)
    BY DEF Buffer
  <2>. QED
    BY <2>1, <2>2 DEF SameOutside
<1>. QED
  BY <1>1, <1>2 DEF Moved

(* What a merge does to the whole array. *)
LEMMA MergeMoves ==
  ASSUME NEW cap \in Nat, NEW size \in 0..cap, NEW order, NEW lo \in Nat, NEW m \in Nat,
         lo + m <= size, NEW f \in Buffer(cap), NEW g \in Buffer(cap),
         MergeDone(g, f, order, lo, m)
  PROVE  /\ Moved(g, f, size)
         /\ \A x \in 0..(size - 1) : x < lo \/ x >= lo + m => g[x] = f[x]
         /\ Ordered(g, order, lo, lo + m, size)
<1>1. /\ DOMAIN f = 0..(cap - 1) /\ \A x \in 0..(size - 1) : x \in 0..(cap - 1)
  BY DEF Buffer
<1>2. SameOutside(g, f, lo, m) /\ Placed(g, f, lo, m, 0..(m - 1))
  BY DEF MergeDone
<1>3. \A x \in 0..(cap - 1) : x < lo \/ x >= lo + m => g[x] = f[x]
  BY <1>1, <1>2 DEF SameOutside
<1>4. Rearranged(g, f, size)
  BY <1>2, PlacedWithin
<1>5. SameOutside(g, f, 0, size)
  <2>1. \A x \in 0..(cap - 1) : x < 0 \/ x >= 0 + size => x >= lo + m
    OBVIOUS
  <2>. QED
    BY <1>1, <1>3, <2>1 DEF SameOutside
<1>6. Ordered(g, order, lo, lo + m, size)
  <2>. SUFFICES ASSUME NEW x \in 0..(size - 1), NEW y \in 0..(size - 1),
                       lo <= x, x <= y, y < lo + m
                PROVE  ~After(order, g[x], g[y])
    BY DEF Ordered
  <2>1. /\ x - lo \in 0..(m - 1) /\ y - lo \in 0..(m - 1) /\ x - lo <= y - lo
        /\ lo + (x - lo) = x /\ lo + (y - lo) = y
    OBVIOUS
  <2>2. ~After(order, g[lo + (x - lo)], g[lo + (y - lo)])
    BY <2>1 DEF MergeDone
  <2>. QED
    BY <2>1, <2>2
<1>. QED
  BY <1>1, <1>3, <1>4, <1>5, <1>6 DEF Moved

(* Order in a part no cell of which changed. *)
LEMMA OrderedStays ==
  ASSUME NEW size \in Nat, NEW order, NEW from \in Nat, NEW to \in Nat, NEW f, NEW g,
         Ordered(f, order, from, to, size),
         \A x \in 0..(size - 1) : from <= x /\ x < to => g[x] = f[x]
  PROVE  Ordered(g, order, from, to, size)
<1>. SUFFICES ASSUME NEW x \in 0..(size - 1), NEW y \in 0..(size - 1),
                     from <= x, x <= y, y < to
              PROVE  ~After(order, g[x], g[y])
  BY DEF Ordered
<1>1. from <= y /\ x < to
  OBVIOUS
<1>2. g[x] = f[x] /\ g[y] = f[y]
  BY <1>1
<1>3. ~After(order, f[x], f[y])
  BY DEF Ordered
<1>. QED
  BY <1>2, <1>3

(* The swap space used only grows. *)
LEMMA UsedByRuns ==
  ASSUME NEW cap \in Nat, NEW order, NEW size \in 0..cap, NEW span \in Nat \ {0},
         NEW room \in Nat, NEW t \in Sorting(cap), NEW k \in Nat,
         NEW w, w = MergeRuns(t, k, order, span, size, room)
  PROVE  /\ t.used <= w.used
         /\ 2 * span * k + span < size =>
              mergeLoop(t.f, order, 2 * span * k, span,
                        SecondRun(2 * span * k, span, size), room).push <= w.used
<1>1. PICK i, m : /\ i = 2 * span * k
                  /\ m = mergeLoop(t.f, order, i, span, SecondRun(i, span, size), room)
  OBVIOUS
<1>2. /\ w = IF i + span >= size THEN t
             ELSE [f |-> m.f, used |-> IF m.push > t.used THEN m.push ELSE t.used]
      /\ i \in Nat /\ size \in Nat /\ t.used \in Nat
  BY <1>1 DEF MergeRuns, Merge, SecondRun, Sorting
<1>3. i + span < size => m.push \in Nat
  <2>. SUFFICES ASSUME i + span < size PROVE m.push \in Nat
    OBVIOUS
  <2>1. Mergeable(cap, i, span, SecondRun(i, span, size))
    BY <1>2, RunsMergeable
  <2>2. PICK nb, n : nb = SecondRun(i, span, size) /\ n = span + nb
    OBVIOUS
  <2>3. n \in Nat
    BY <2>1, <2>2 DEF Mergeable
  <2>4. t.f \in Buffer(cap)
    BY DEF Sorting
  <2>5. PICK g : MergeRun(g, n, cap, order, i, span, nb, room, t.f)
    BY <2>1, <2>2, <2>4, MergeFold
  <2>6. m \in Swapping(cap, room)
    BY <1>1, <2>2, <2>3, <2>5 DEF MergeRun
  <2>. QED
    BY <2>6 DEF Swapping
<1>4. i + span >= size \/ i + span < size
  BY <1>2
<1>5. t.used <= w.used /\ (i + span < size => m.push <= w.used)
  BY <1>2, <1>3, <1>4
<1>. QED
  BY <1>1, <1>5

(* One merge of a pass. *)
LEMMA MergeRunsState ==
  ASSUME NEW cap \in Nat, NEW size \in 0..cap, NEW order, NEW span \in Nat \ {0},
         NEW room \in Nat, NEW t \in Sorting(cap), NEW k \in Nat,
         size <= room \/ MergeRuns(t, k, order, span, size, room).used <= room,
         NEW f0 \in Buffer(cap), Filled(f0, size),
         PassState(t.f, k, f0, order, span, size)
  PROVE  PassState(MergeRuns(t, k, order, span, size, room).f, k + 1, f0, order, span, size)
<1>. DEFINE nb == SecondRun(2 * span * k, span, size)
            w  == MergeRuns(t, k, order, span, size, room)
<1>1. PICK i : i = 2 * span * k
  OBVIOUS
<1>2. /\ i \in Nat /\ size \in Nat
      /\ (2 * span) * k = i /\ (2 * span) * (k + 1) = i + 2 * span
      /\ span * (2 * k) = i /\ span * (2 * k + 1) = i + span
      /\ \A b \in Nat : b < k => (2 * span) * b \in Nat /\ (2 * span) * (b + 1) <= i
      /\ \A b \in Nat : b >= 2 * (k + 1) => span * b \in Nat /\ span * b >= i + 2 * span
      /\ span * (2 * k + 2) = i + 2 * span
  <2>1. span * (2 * k + 2) = 2 * span * k + 2 * span
    OBVIOUS
  <2>. QED
    BY <1>1, <2>1, SpanParts
<1>3. w.f = IF i + span >= size THEN t.f
            ELSE mergeLoop(t.f, order, i, span, SecondRun(i, span, size), room).f
  BY <1>1 DEF MergeRuns, Merge, SecondRun
<1>4. w \in Sorting(cap)
  BY MergeRunsType
<1>5. t.f \in Buffer(cap) /\ w.f \in Buffer(cap)
  BY <1>4 DEF Sorting
<1>. HIDE DEF w, nb
<1>6. /\ Moved(t.f, f0, size)
      /\ \A b \in Nat : b < k => Ordered(t.f, order, (2 * span) * b, (2 * span) * (b + 1), size)
      /\ \A b \in Nat : b >= 2 * k => Ordered(t.f, order, span * b, span * (b + 1), size)
  BY DEF PassState
<1>7. /\ Ordered(t.f, order, i, i + span, size)
      /\ Ordered(t.f, order, i + span, i + 2 * span, size)
  <2>1. 2 * k \in Nat /\ 2 * k >= 2 * k /\ 2 * k + 1 \in Nat /\ 2 * k + 1 >= 2 * k
        /\ (2 * k + 1) + 1 = 2 * k + 2
    OBVIOUS
  <2>2. Ordered(t.f, order, span * (2 * k), span * (2 * k + 1), size)
    BY <1>6, <2>1
  <2>3. Ordered(t.f, order, span * (2 * k + 1), span * (2 * k + 2), size)
    BY <1>6, <2>1
  <2>. QED
    BY <1>2, <2>2, <2>3
<1>8. CASE i + span >= size
  <2>1. w.f = t.f
    BY <1>3, <1>8
  <2>2. Ordered(t.f, order, i, i + 2 * span, size)
    BY <1>2, <1>7, <1>8 DEF Ordered
  <2>3. ASSUME NEW b \in Nat, b < k + 1
        PROVE  Ordered(t.f, order, (2 * span) * b, (2 * span) * (b + 1), size)
    <3>1. CASE b < k
      BY <1>6, <3>1
    <3>2. CASE b = k
      BY <1>2, <2>2, <3>2
    <3>. QED
      BY <2>3, <3>1, <3>2
  <2>4. ASSUME NEW b \in Nat, b >= 2 * (k + 1)
        PROVE  Ordered(t.f, order, span * b, span * (b + 1), size)
    <3>1. b >= 2 * k
      BY <2>4
    <3>. QED
      BY <1>6, <3>1
  <2>. QED
    BY <1>6, <2>1, <2>3, <2>4 DEF PassState, w
<1>9. CASE i + span < size
  <2>. DEFINE n == SecondRun(i, span, size)
  <2>1. /\ Mergeable(cap, i, span, n) /\ n \in Nat /\ n > 0 /\ i + span + n <= size /\ n <= span
        /\ (n = span \/ i + span + n = size)
    <3>1. i \in Nat /\ size \in Nat /\ i + span < size
      BY <1>2, <1>9
    <3>2. n \in Nat /\ (n = span \/ i + span + n = size)
      BY <3>1 DEF SecondRun
    <3>. QED
      BY <3>1, <3>2, RunsMergeable
  <2>. HIDE DEF n
  <2>2. w.f = mergeLoop(t.f, order, i, span, n, room).f
    BY <1>2, <1>3, <1>9 DEF n
  <2>3. Filled(t.f, size)
    BY <1>2, <1>6, MovedFilled
  <2>4. Runs(t.f, order, i, span, n)
    <3>1. \A x \in 0..(span + n - 1) : i + x \in 0..(size - 1)
      BY <1>2, <2>1
    <3>2. \A x \in 0..(span + n - 1) : t.f[i + x] \in Int
      BY <2>3, <3>1, ArrayAssumption DEF Filled
    <3>3. ASSUME NEW x \in 0..(span - 1), NEW y \in 0..(span - 1), x <= y
          PROVE  ~After(order, t.f[i + x], t.f[i + y])
      <4>1. /\ i + x \in 0..(size - 1) /\ i + y \in 0..(size - 1)
            /\ i <= i + x /\ i + x <= i + y /\ i + y < i + span
        BY <1>2, <2>1, <3>3
      <4>. QED
        BY <1>7, <4>1 DEF Ordered
    <3>4. ASSUME NEW x \in 0..(n - 1), NEW y \in 0..(n - 1), x <= y
          PROVE  ~After(order, t.f[i + (span + x)], t.f[i + (span + y)])
      <4>1. /\ i + (span + x) \in 0..(size - 1) /\ i + (span + y) \in 0..(size - 1)
            /\ i + span <= i + (span + x) /\ i + (span + x) <= i + (span + y)
            /\ i + (span + y) < i + 2 * span
        BY <1>2, <2>1, <3>4
      <4>. QED
        BY <1>7, <4>1 DEF Ordered
    <3>. QED
      BY <1>2, <2>1, <3>2, <3>3, <3>4 DEF Runs
  <2>5. span <= room \/ mergeLoop(t.f, order, i, span, n, room).push <= room
    <3>1. size <= room \/ w.used <= room
      BY DEF w
    <3>2. PICK m : m = mergeLoop(t.f, order, i, span, n, room)
      OBVIOUS
    <3>3. m.push <= w.used /\ m.push \in Nat /\ w.used \in Nat
      <4>1. m.push <= w.used
        BY <1>1, <1>9, <3>2, UsedByRuns DEF w, n
      <4>2. w.used \in Nat
        BY <1>4 DEF Sorting
      <4>3. m.push \in Nat
        <5>1. PICK x : x = span + n /\ x \in Nat
          BY <2>1
        <5>2. PICK g : MergeRun(g, x, cap, order, i, span, n, room, t.f)
          BY <1>5, <2>1, <5>1, MergeFold
        <5>3. m \in Swapping(cap, room)
          BY <3>2, <5>1, <5>2 DEF MergeRun
        <5>. QED
          BY <5>3 DEF Swapping
      <4>. QED
        BY <4>1, <4>2, <4>3
    <3>4. size <= room => span <= room
      BY <1>2, <1>9
    <3>5. w.used <= room => m.push <= room
      BY <3>3
    <3>. QED
      BY <3>1, <3>2, <3>4, <3>5
  <2>6. MergeDone(w.f, t.f, order, i, span + n)
    BY <1>5, <2>1, <2>2, <2>4, <2>5, MergeResult
  <2>7. /\ span + n \in Nat /\ i + (span + n) <= size
        /\ i + (span + n) <= i + 2 * span
        /\ \A y \in 0..(size - 1) : y < i + 2 * span => y < i + (span + n)
    BY <1>2, <2>1
  <2>8. /\ Moved(w.f, t.f, size)
        /\ \A x \in 0..(size - 1) : x < i \/ x >= i + (span + n) => w.f[x] = t.f[x]
        /\ Ordered(w.f, order, i, i + (span + n), size)
    BY <1>2, <1>5, <2>6, <2>7, MergeMoves
  <2>9. Moved(w.f, f0, size)
    BY <1>5, <1>6, <2>8, MovedTwice
  <2>10. ASSUME NEW b \in Nat, b < k + 1
         PROVE  Ordered(w.f, order, (2 * span) * b, (2 * span) * (b + 1), size)
    <3>1. CASE b < k
      <4>1. PICK from, to : from = (2 * span) * b /\ to = (2 * span) * (b + 1)
        OBVIOUS
      <4>2. from \in Nat /\ to \in Nat /\ to <= i
        <5>1. from \in Nat /\ to <= i
          BY <1>2, <3>1, <4>1
        <5>2. to = from + 2 * span
          BY <4>1
        <5>. QED
          BY <5>1, <5>2
      <4>3. Ordered(t.f, order, from, to, size)
        BY <1>6, <3>1, <4>1
      <4>4. \A x \in 0..(size - 1) : from <= x /\ x < to => w.f[x] = t.f[x]
        <5>1. \A x \in 0..(size - 1) : x < to => x < i
          BY <1>2, <4>2
        <5>. QED
          BY <2>8, <5>1
      <4>5. Ordered(w.f, order, from, to, size)
        BY <1>2, <4>2, <4>3, <4>4, OrderedStays
      <4>. QED
        BY <4>1, <4>5
    <3>2. CASE b = k
      <4>1. Ordered(w.f, order, i, i + 2 * span, size)
        BY <2>7, <2>8 DEF Ordered
      <4>. QED
        BY <1>2, <3>2, <4>1
    <3>. QED
      BY <2>10, <3>1, <3>2
  <2>11. ASSUME NEW b \in Nat, b >= 2 * (k + 1)
         PROVE  Ordered(w.f, order, span * b, span * (b + 1), size)
    <3>1. PICK from, to : from = span * b /\ to = span * (b + 1)
      OBVIOUS
    <3>2. from \in Nat /\ to \in Nat /\ from >= i + 2 * span
      <4>1. from \in Nat /\ from >= i + 2 * span
        BY <1>2, <2>11, <3>1
      <4>2. to = from + span
        BY <3>1
      <4>. QED
        BY <4>1, <4>2
    <3>3. Ordered(t.f, order, from, to, size)
      <4>1. b >= 2 * k
        BY <2>11
      <4>. QED
        BY <1>6, <3>1, <4>1
    <3>4. \A x \in 0..(size - 1) : from <= x /\ x < to => w.f[x] = t.f[x]
      <4>1. \A x \in 0..(size - 1) : from <= x => x >= i + (span + n)
        BY <1>2, <2>1, <2>7, <3>2
      <4>. QED
        BY <2>8, <4>1
    <3>5. Ordered(w.f, order, from, to, size)
      BY <1>2, <3>2, <3>3, <3>4, OrderedStays
    <3>. QED
      BY <3>1, <3>5
  <2>. QED
    BY <2>9, <2>10, <2>11 DEF PassState, w
<1>. QED
  BY <1>2, <1>8, <1>9

(* All runs of length span are in order, and nothing was lost. *)
SpanState(f, f0, order, span, size) ==
  /\ Moved(f, f0, size)
  /\ \A b \in Nat : Ordered(f, order, span * b, span * (b + 1), size)

(* A pass only adds to what was used of the swap space. *)
LEMMA UsedByPass ==
  ASSUME NEW cap \in Nat, NEW size \in 0..cap, NEW order, NEW span \in Nat \ {0},
         NEW room \in Nat, NEW t \in Sorting(cap),
         NEW n \in Nat, NEW g, PassRun(g, n, cap, order, size, span, room, t)
  PROVE  \A k \in 0..n : g[k].used <= g[n].used
<1>. DEFINE h == [k \in 0..n |-> g[k].used]
<1>4. /\ \A k \in 0..n : g[k] \in Sorting(cap)
      /\ \A k \in 1..n : g[k] = MergeRuns(g[k - 1], k - 1, order, span, size, room)
  BY DEF PassRun
<1>1. \A k \in 0..n : h[k] = g[k].used /\ h[k] \in Nat
  BY <1>4 DEF Sorting
<1>2. ASSUME NEW k \in 1..n PROVE h[k - 1] <= h[k]
  <2>1. k \in 0..n /\ k - 1 \in 0..n /\ k - 1 \in Nat
    OBVIOUS
  <2>2. g[k - 1].used <= g[k].used
    BY <1>4, <2>1, UsedByRuns
  <2>. QED
    BY <1>1, <2>1, <2>2
<1>. HIDE DEF h
<1>3. \A k \in 0..n : h[k] <= h[n]
  BY <1>1, <1>2, Climbs
<1>. QED
  BY <1>1, <1>3

(* A pass doubles the length of the runs. *)
LEMMA PassResult ==
  ASSUME NEW cap \in Nat, NEW size \in 0..cap, NEW order, NEW span \in Nat \ {0},
         NEW room \in Nat, NEW t \in Sorting(cap),
         size <= room \/ SortPass(t, order, span, size, room).used <= room,
         NEW f0 \in Buffer(cap), Filled(f0, size),
         SpanState(t.f, f0, order, span, size)
  PROVE  SpanState(SortPass(t, order, span, size, room).f, f0, order, 2 * span, size)
<1>. DEFINE done == SortPass(t, order, span, size, room)
<1>1. PICK n : n = size \div (2 * span) + 1
  OBVIOUS
<1>2. n \in Nat /\ (2 * span) * n >= size
  <2>. DEFINE q == size \div (2 * span)
              r == size % (2 * span)
  <2>1. 2 * span \in Nat \ {0} /\ size \in Nat
    OBVIOUS
  <2>2. q \in Nat /\ r \in 0..(2 * span - 1) /\ size = (2 * span) * q + r
    BY <2>1, QuotientAndRemainder
  <2>. HIDE DEF q, r
  <2>3. n = q + 1
    BY <1>1 DEF q
  <2>4. (2 * span) * (q + 1) = (2 * span) * q + 2 * span
    BY <2>2
  <2>5. (2 * span) * q \in Nat
    BY <2>2
  <2>6. size <= (2 * span) * q + 2 * span
    BY <2>2, <2>5
  <2>. QED
    BY <2>2, <2>3, <2>4, <2>6
<1>3. PICK g : /\ PassRun(g, n, cap, order, size, span, room, t) /\ g[0] = t
               /\ \A k \in 0..n : g[k] \in Sorting(cap)
               /\ \A k \in 1..n : g[k] = MergeRuns(g[k - 1], k - 1, order, span, size, room)
               /\ done = g[n]
  <2>1. \E g : PassRun(g, n, cap, order, size, span, room, t)
    BY <1>1, PassFold
  <2>. QED
    BY <2>1 DEF PassRun
<1>. DEFINE Fits(t1) == size <= room \/ t1.used <= room
<1>10. \A k \in 0..n : Fits(g[k])
  <2>1. \A k \in 0..n : g[k].used <= g[n].used
    BY <1>2, <1>3, UsedByPass
  <2>2. \A k \in 0..n : g[k].used \in Nat
    BY <1>3 DEF Sorting
  <2>3. n \in 0..n /\ (size <= room \/ g[n].used <= room)
    BY <1>2, <1>3
  <2>. QED
    BY <2>1, <2>2, <2>3
<1>. HIDE DEF done
<1>. DEFINE T == {k \in Nat : k <= n => PassState(g[k].f, k, f0, order, span, size)}
<1>4. 0 \in T
  <2>1. /\ Moved(t.f, f0, size)
        /\ \A b \in Nat : Ordered(t.f, order, span * b, span * (b + 1), size)
    BY DEF SpanState
  <2>2. PassState(t.f, 0, f0, order, span, size)
    BY <2>1 DEF PassState
  <2>. QED
    BY <1>3, <2>2
<1>5. ASSUME NEW k \in T PROVE k + 1 \in T
  <2>. SUFFICES ASSUME k + 1 <= n PROVE PassState(g[k + 1].f, k + 1, f0, order, span, size)
    OBVIOUS
  <2>1. k \in Nat /\ k \in 0..n /\ k + 1 \in 1..n /\ (k + 1) - 1 = k /\ k <= n
    BY <1>2
  <2>2. /\ g[k] \in Sorting(cap) /\ PassState(g[k].f, k, f0, order, span, size)
        /\ g[k + 1] = MergeRuns(g[k], k, order, span, size, room)
        /\ size <= room \/ g[k + 1].used <= room
    BY <1>2, <1>3, <1>10, <2>1
  <2>. QED
    BY <2>1, <2>2, MergeRunsState
<1>6. T = Nat
  <2>1. T \in SUBSET Nat
    OBVIOUS
  <2>. HIDE DEF T
  <2>. QED
    BY <1>4, <1>5, <2>1, SetInduction
<1>7. PassState(done.f, n, f0, order, span, size)
  BY <1>2, <1>3, <1>6
<1>8. ASSUME NEW b \in Nat
      PROVE  Ordered(done.f, order, (2 * span) * b, (2 * span) * (b + 1), size)
  <2>1. CASE b < n
    BY <1>7, <2>1 DEF PassState
  <2>2. CASE b >= n
    <3>1. (2 * span) * b >= size /\ (2 * span) * b \in Nat
      <4>1. PICK d \in Nat : b = n + d
        <5>1. b - n \in Nat /\ b = n + (b - n)
          BY <1>2, <2>2
        <5>. QED
          BY <5>1
      <4>2. (2 * span) * b = (2 * span) * n + (2 * span) * d
        BY <1>2, <4>1
      <4>3. (2 * span) * d \in Nat /\ (2 * span) * n \in Nat
        BY <1>2
      <4>. QED
        BY <1>2, <4>2, <4>3
    <3>2. PICK from, to : from = (2 * span) * b /\ to = (2 * span) * (b + 1)
      OBVIOUS
    <3>3. \A x \in 0..(size - 1) : ~(from <= x)
      BY <3>1, <3>2
    <3>4. Ordered(done.f, order, from, to, size)
      BY <3>3 DEF Ordered
    <3>. QED
      BY <3>2, <3>4
  <2>. QED
    BY <1>2, <2>1, <2>2
<1>9. Moved(done.f, f0, size)
  BY <1>7 DEF PassState
<1>. QED
  BY <1>8, <1>9 DEF SpanState, done

(* A pass that is not needed: the array is one run. *)
LEMMA SpanEnough ==
  ASSUME NEW size \in Nat, NEW order, NEW span \in Nat \ {0}, size <= span,
         NEW f, NEW f0, SpanState(f, f0, order, span, size)
  PROVE  /\ Ordered(f, order, 0, size, size)
         /\ SpanState(f, f0, order, 2 * span, size)
<1>1. Ordered(f, order, 0, span, size)
  <2>1. Ordered(f, order, span * 0, span * (0 + 1), size)
    BY DEF SpanState
  <2>2. span * 0 = 0 /\ span * (0 + 1) = span
    OBVIOUS
  <2>. QED
    BY <2>1, <2>2
<1>2. \A x \in 0..(size - 1) : 0 <= x /\ x < span
  OBVIOUS
<1>3. ASSUME NEW from, NEW to PROVE Ordered(f, order, from, to, size)
  BY <1>1, <1>2 DEF Ordered
<1>. QED
  BY <1>3 DEF SpanState

(* The result of a sort. *)
SortDone(f, f0, order, size) ==
  /\ Moved(f, f0, size)
  /\ Ordered(f, order, 0, size, size)

(* A pass of the sort, or none, adds to what was used. *)
LEMMA UsedBySpan ==
  ASSUME NEW cap \in Nat, NEW order, NEW size \in 0..cap, NEW t \in Sorting(cap),
         NEW k \in Nat
  PROVE  t.used <= SortSpan(t, k, order, size).used
<1>1. PICK room, span : room = swapSpaceSize(size) + SwapSlack /\ span = Span[k]
  OBVIOUS
<1>2. room \in Nat /\ span \in Nat \ {0} /\ t.used \in Nat
  <2>1. room \in Nat
    BY <1>1, ArrayAssumption DEF swapSpaceSize
  <2>. QED
    BY <1>1, <2>1, SpanStep DEF Sorting
<1>3. t.used <= SortPass(t, order, span, size, room).used
  <2>1. PICK n : n = size \div (2 * span) + 1
    OBVIOUS
  <2>2. n \in Nat
    <3>1. 2 * span \in Nat \ {0} /\ size \in Nat
      BY <1>2
    <3>2. size \div (2 * span) \in Nat
      BY <3>1, QuotientAndRemainder
    <3>. QED
      BY <2>1, <3>2
  <2>3. PICK g : PassRun(g, n, cap, order, size, span, room, t)
    BY <1>2, <2>1, PassFold
  <2>4. \A x \in 0..n : g[x].used <= g[n].used
    BY <1>2, <2>2, <2>3, UsedByPass
  <2>. QED
    BY <2>2, <2>3, <2>4 DEF PassRun
<1>4. SortSpan(t, k, order, size) = IF span < size THEN SortPass(t, order, span, size, room) ELSE t
  BY <1>1 DEF SortSpan
<1>. QED
  BY <1>2, <1>3, <1>4

(* The sort as a whole: as many passes as are needed put any array in      *)
(* order, if the cells behind the swap space are usable, or not used.      *)
LEMMA SortResult ==
  ASSUME NEW cap \in Nat, NEW order, NEW size \in 0..cap,
         NEW f0 \in Buffer(cap), Filled(f0, size),
         size <= SwapSlack \/ nlognSort(f0, order, size).used <= swapSpaceSize(size)
  PROVE  /\ nlognSort(f0, order, size).f \in Buffer(cap)
         /\ SortDone(nlognSort(f0, order, size).f, f0, order, size)
<1>. DEFINE done == nlognSort(f0, order, size)
            room == swapSpaceSize(size) + SwapSlack
<1>1. PICK n : n = size + 1
  OBVIOUS
<1>2. /\ n \in Nat /\ size < n /\ size \in Nat /\ room \in Nat
      /\ size <= SwapSlack => size <= room
      /\ swapSpaceSize(size) \in Nat /\ swapSpaceSize(size) <= room
  BY <1>1, ArrayAssumption DEF swapSpaceSize
<1>3. PICK g : /\ g[0] = [f |-> f0, used |-> 0]
               /\ \A k \in 0..n : g[k] \in Sorting(cap)
               /\ \A k \in 1..n : g[k] = SortSpan(g[k - 1], k - 1, order, size)
               /\ done = g[n]
  <2>1. \E g : SortRun(g, n, cap, order, size, f0)
    BY <1>1, SortFold
  <2>. QED
    BY <2>1 DEF SortRun
<1>11. \A k \in 0..n : size <= room \/ g[k].used <= room
  <2>. DEFINE h == [k \in 0..n |-> g[k].used]
  <2>1. \A k \in 0..n : h[k] = g[k].used /\ h[k] \in Nat
    BY <1>3 DEF Sorting
  <2>2. ASSUME NEW k \in 1..n PROVE h[k - 1] <= h[k]
    <3>1. k \in 0..n /\ k - 1 \in 0..n /\ k - 1 \in Nat
      BY <1>2
    <3>2. g[k - 1].used <= g[k].used
      BY <1>3, <3>1, UsedBySpan
    <3>. QED
      BY <2>1, <3>1, <3>2
  <2>. HIDE DEF h
  <2>3. \A k \in 0..n : h[k] <= h[n]
    BY <1>2, <2>1, <2>2, Climbs
  <2>4. n \in 0..n /\ (size <= SwapSlack \/ g[n].used <= swapSpaceSize(size))
    BY <1>2, <1>3
  <2>. HIDE DEF room
  <2>. QED
    BY <1>2, <2>1, <2>3, <2>4
<1>. HIDE DEF done
<1>. DEFINE T == {k \in Nat : k <= n => SpanState(g[k].f, f0, order, Span[k], size)}
<1>4. 0 \in T
  <2>1. Moved(f0, f0, size)
    BY RearrangedSame DEF Moved, SameOutside
  <2>2. ASSUME NEW b \in Nat PROVE Ordered(f0, order, 1 * b, 1 * (b + 1), size)
    <3>. SUFFICES ASSUME NEW x \in 0..(size - 1), NEW y \in 0..(size - 1),
                         1 * b <= x, x <= y, y < 1 * (b + 1)
                  PROVE  ~After(order, f0[x], f0[y])
      BY DEF Ordered
    <3>1. x = y
      OBVIOUS
    <3>2. f0[x] \in Int
      <4>1. f0[x] \in Elements
        BY DEF Filled
      <4>. QED
        BY <4>1, ArrayAssumption
    <3>. QED
      BY <3>1, <3>2, AfterIsOrder
  <2>. QED
    BY <1>3, <2>1, <2>2, SpanStep DEF SpanState
<1>5. ASSUME NEW k \in T PROVE k + 1 \in T
  <2>. SUFFICES ASSUME k + 1 <= n PROVE SpanState(g[k + 1].f, f0, order, Span[k + 1], size)
    OBVIOUS
  <2>1. k \in Nat /\ k \in 0..n /\ k + 1 \in 1..n /\ (k + 1) - 1 = k /\ k <= n
    BY <1>2
  <2>2. /\ g[k] \in Sorting(cap) /\ SpanState(g[k].f, f0, order, Span[k], size)
        /\ g[k + 1] = SortSpan(g[k], k, order, size)
    BY <1>3, <2>1
  <2>3. Span[k] \in Nat \ {0} /\ Span[k + 1] = 2 * Span[k]
    BY <2>1, SpanStep
  <2>4. CASE Span[k] < size
    <3>1. g[k + 1] = SortPass(g[k], order, Span[k], size, room)
      BY <2>2, <2>4 DEF SortSpan
    <3>2. size <= room \/ g[k + 1].used <= room
      BY <1>2, <1>11, <2>1
    <3>. HIDE DEF room
    <3>. QED
      BY <1>2, <2>2, <2>3, <3>1, <3>2, PassResult
  <2>5. CASE ~(Span[k] < size)
    <3>1. g[k + 1] = g[k]
      BY <2>2, <2>5 DEF SortSpan
    <3>2. size <= Span[k]
      BY <1>2, <2>3, <2>5
    <3>. QED
      BY <1>2, <2>2, <2>3, <3>1, <3>2, SpanEnough
  <2>. QED
    BY <2>4, <2>5
<1>6. T = Nat
  <2>1. T \in SUBSET Nat
    OBVIOUS
  <2>. HIDE DEF T
  <2>. QED
    BY <1>4, <1>5, <2>1, SetInduction
<1>7. SpanState(done.f, f0, order, Span[n], size) /\ done \in Sorting(cap)
  BY <1>2, <1>3, <1>6
<1>8. Span[n] \in Nat \ {0} /\ size <= Span[n]
  BY <1>2, SpanStep
<1>9. Ordered(done.f, order, 0, size, size)
  BY <1>2, <1>7, <1>8, SpanEnough
<1>10. Moved(done.f, f0, size) /\ done.f \in Buffer(cap)
  BY <1>7 DEF SpanState, Sorting
<1>. QED
  BY <1>9, <1>10 DEF SortDone, done

-----------------------------------------------------------------------------
(* The inductive invariant. *)

(* The cells of the buffer. *)
Shaped ==
  e_cap \in Nat /\ e_buf \in Buffer(e_cap) /\ e_size \in 0..e_cap

(* What they hold: elements, and nothing behind the last one. *)
Clean ==
  /\ Filled(e_buf, e_size)
  /\ \A i \in e_size..(e_cap - 1) : e_buf[i] = Junk

(* The rest of the state. *)
Flags ==
  /\ e_sorted \in Orders \union {"unsorted"} /\ assigned \in BOOLEAN
  /\ overrun \subseteq {"swap"}
  /\ e_size <= MaxSize \/ e_size <= MaxAdded

ArrayInv == Shaped /\ Clean /\ Flags

(* The capacity is the number of cells. *)
LEMMA CapOf ==
  ASSUME NEW cap \in Nat, NEW f \in Buffer(cap)
  PROVE  Cardinality(DOMAIN f) = cap
<1>1. DOMAIN f = 0..(cap - 1)
  BY DEF Buffer
<1>2. Cardinality(0..(cap - 1)) = IF 0 > cap - 1 THEN 0 ELSE (cap - 1) - 0 + 1
  BY FS_Interval
<1>. QED
  BY <1>1, <1>2

(* A buffer of some capacity with n elements at its start. *)
ShapeOf(f, cap, n) == cap \in Nat /\ f \in Buffer(cap) /\ n \in 0..cap

CleanOf(f, cap, n) ==
  /\ Filled(f, n)
  /\ \A i \in n..(cap - 1) : f[i] = Junk

(* The state with such a buffer is shaped. *)
LEMMA ShapedNow ==
  ASSUME NEW cap, ShapeOf(e_buf, cap, e_size)
  PROVE  Shaped /\ (CleanOf(e_buf, cap, e_size) => Clean)
<1>1. e_cap = cap
  BY CapOf DEF e_cap, ShapeOf
<1>. QED
  BY <1>1 DEF ShapeOf, Shaped, CleanOf, Clean

(* The same in the next state. *)
LEMMA ShapedNext ==
  ASSUME NEW cap, ShapeOf(e_buf', cap, e_size')
  PROVE  Shaped' /\ (CleanOf(e_buf', cap, e_size') => Clean')
<1>1. e_cap' = cap
  BY CapOf DEF e_cap, ShapeOf
<1>. QED
  BY <1>1 DEF ShapeOf, Shaped, CleanOf, Clean

(* Growing leaves room. *)
LEMMA UpsizedGrows ==
  ASSUME NEW n \in Nat
  PROVE  Upsized(n) \in Nat /\ Upsized(n) >= n
<1>1. 7 * n \in Nat /\ 4 \in Nat \ {0}
  OBVIOUS
<1>2. /\ (7 * n) \div 4 \in Nat /\ (7 * n) % 4 \in 0..3
      /\ 7 * n = 4 * ((7 * n) \div 4) + ((7 * n) % 4)
  BY <1>1, QuotientAndRemainder
<1>. QED
  BY <1>2 DEF Upsized

(* The sequences calls are made with. *)
LEMMA BoundedSequence ==
  ASSUME NEW els \in BoundedSeq(Elements, MaxAdded)
  PROVE  els \in Seq(Elements) /\ Len(els) \in 0..MaxAdded
<1>1. PICK m \in 0..MaxAdded : els \in [1..m -> Elements]
  BY DEF BoundedSeq, SeqOf
<1>2. m \in Nat
  BY <1>1, ArrayAssumption
<1>3. els \in Seq(Elements)
  BY <1>1, <1>2, SeqDef
<1>4. Len(els) = m
  BY <1>1, <1>2, <1>3, LenProperties
<1>. QED
  BY <1>1, <1>3, <1>4

(* One element is such a sequence. *)
LEMMA OneIsBounded ==
  ASSUME NEW el \in Elements
  PROVE  <<el>> \in BoundedSeq(Elements, MaxAdded) /\ Len(<<el>>) = 1
<1>1. 1 \in 0..MaxAdded
  BY ArrayAssumption
<1>2. <<el>> \in [1..1 -> Elements]
  OBVIOUS
<1>. QED
  BY <1>1, <1>2 DEF BoundedSeq, SeqOf

-----------------------------------------------------------------------------
(* insert *)

(* What an insertion leaves in the buffer. *)
InsertedIn(f, pos, els) ==
  \A x \in 0..(e_size + Len(els) - 1) :
     f[x] = IF x < pos THEN e_buf[x]
            ELSE IF x < pos + Len(els) THEN els[x - pos + 1]
            ELSE e_buf[x - Len(els)]

(* insert: the buffer is not left, and the elements are where they belong. *)
LEMMA InsertDoes ==
  ASSUME Shaped, NEW pos \in Nat, NEW els \in Seq(Elements), insert(pos, els)
  PROVE  /\ Shaped' /\ e_size' = e_size + Len(els) /\ InsertedIn(e_buf', pos, els)
         /\ overrun' = overrun /\ (Clean => Clean')
<1>. DEFINE n == Len(els)
            cap == e_cap
            recapped == n + e_size > cap
            newCap == Upsized(n + e_size)
            start == IF recapped
                     THEN [i \in 0..(newCap - 1) |-> IF i < pos THEN e_buf[i] ELSE Junk]
                     ELSE e_buf
            done == insertLoop(start, pos, els, ~recapped)
<1>1. PICK inPlace : inPlace = ~recapped
  OBVIOUS
<1>2. /\ pos <= e_size /\ (n > 0 \/ pos = e_size)
      /\ e_buf' = done.f /\ e_size' = e_size + n
      /\ overrun' = overrun \union done.past
  BY DEF insert, NewCap
<1>3. /\ cap \in Nat /\ e_buf \in Buffer(cap) /\ e_size \in 0..cap /\ n \in Nat /\ e_size \in Nat
  <2>1. n \in Nat
    BY LenProperties
  <2>. QED
    BY <2>1 DEF Shaped
<1>. HIDE DEF cap, n
<1>4. newCap \in Nat /\ newCap >= n + e_size
  <2>1. n + e_size \in Nat
    BY <1>3
  <2>. QED
    BY <2>1, UpsizedGrows
<1>. HIDE DEF newCap
<1>5. PICK c : c = IF recapped THEN newCap ELSE cap
  OBVIOUS
<1>6. c \in Nat /\ e_size + n <= c /\ (~recapped => c = cap)
  BY <1>3, <1>4, <1>5
<1>7. start \in Buffer(c)
  <2>1. CASE recapped
    <3>1. \A i \in 0..(newCap - 1) : i < pos => e_buf[i] \in Cell
      <4>1. \A i \in 0..(newCap - 1) : i < pos => i \in 0..(cap - 1)
        BY <1>2, <1>3, <1>4
      <4>2. \A i \in 0..(cap - 1) : e_buf[i] \in Cell
        BY <1>3 DEF Buffer
      <4>. QED
        BY <4>1, <4>2
    <3>2. start = [i \in 0..(newCap - 1) |-> IF i < pos THEN e_buf[i] ELSE Junk] /\ c = newCap
      BY <1>5, <2>1
    <3>3. \A i \in 0..(newCap - 1) : (IF i < pos THEN e_buf[i] ELSE Junk) \in Cell
      BY <3>1 DEF Cell
    <3>. HIDE DEF start
    <3>. QED
      BY <3>2, <3>3 DEF Buffer
  <2>2. CASE ~recapped
    BY <1>3, <1>5, <2>2
  <2>. QED
    BY <2>1, <2>2
<1>8. \A x \in 0..(c - 1) : start[x] = IF x < pos THEN e_buf[x] ELSE start[x]
  BY <1>5
<1>9. ASSUME Clean PROVE \A x \in (e_size + n)..(c - 1) : start[x] = Junk
  <2>1. CASE recapped
    <3>1. c = newCap
      BY <1>5, <2>1
    <3>2. \A x \in (e_size + n)..(c - 1) : x \in 0..(newCap - 1) /\ ~(x < pos)
      BY <1>2, <1>3, <1>6, <3>1
    <3>. QED
      BY <2>1, <3>2
  <2>2. CASE ~recapped
    <3>1. \A x \in (e_size + n)..(c - 1) : x \in e_size..(cap - 1)
      BY <1>3, <1>6, <2>2
    <3>. QED
      BY <1>9, <2>2, <3>1 DEF Clean, cap
  <2>. QED
    BY <2>1, <2>2
<1>10. Insertable(cap, c, pos, els, inPlace)
  <2>1. pos \in 0..e_size /\ (Len(els) > 0 \/ pos = e_size)
    BY <1>2, <1>3 DEF n
  <2>2. inPlace => c = cap
    BY <1>1, <1>6
  <2>. HIDE DEF recapped, start
  <2>. QED
    BY <1>3, <2>1, <2>2 DEF Insertable
<1>11. inPlace => start = e_buf
  BY <1>1
<1>. HIDE DEF recapped, start
<1>12. done.f = Inserted(start, els, pos) /\ done.past = {}
  <2>1. e_size + Len(els) <= c
    BY <1>6 DEF n
  <2>2. /\ insertLoop(start, pos, els, inPlace).f = Inserted(start, els, pos)
        /\ insertLoop(start, pos, els, inPlace).past = {}
    BY <1>6, <1>7, <1>10, <1>11, <2>1, InsertResult
  <2>. QED
    BY <1>1, <2>2
<1>. HIDE DEF done
<1>13. PICK h : h = e_buf'
  OBVIOUS
<1>14. PICK m : m = e_size + n
  OBVIOUS
<1>15. m \in Nat /\ m <= c /\ m = e_size + n
  BY <1>3, <1>6, <1>14
<1>16. \A x \in 0..(c - 1) :
         h[x] = IF x < pos \/ x >= e_size + n THEN start[x]
                     ELSE IF x < pos + n THEN els[x - pos + 1]
                     ELSE e_buf[x - n]
  <2>1. DOMAIN start = 0..(c - 1)
    BY <1>7 DEF Buffer
  <2>. QED
    BY <1>2, <1>12, <1>13, <2>1 DEF Inserted, n
<1>17. h = [x \in 0..(c - 1) |-> h[x]]
  <2>1. DOMAIN start = 0..(c - 1)
    BY <1>7 DEF Buffer
  <2>. QED
    BY <1>2, <1>12, <1>13, <2>1 DEF Inserted
<1>18. InsertedIn(h, pos, els)
  <2>. SUFFICES ASSUME NEW x \in 0..(e_size + n - 1)
                PROVE  h[x] = IF x < pos THEN e_buf[x]
                                   ELSE IF x < pos + n THEN els[x - pos + 1]
                                   ELSE e_buf[x - n]
    BY DEF InsertedIn, n
  <2>1. x \in 0..(c - 1) /\ ~(x >= e_size + n)
    BY <1>3, <1>6
  <2>2. x < pos => start[x] = e_buf[x]
    BY <1>8, <2>1
  <2>. QED
    BY <1>16, <2>1, <2>2
<1>19. ASSUME Clean PROVE Filled(h, m)
  <2>. SUFFICES ASSUME NEW x \in 0..(m - 1) PROVE h[x] \in Elements
    BY <1>15 DEF Filled
  <2>0. \A y \in 0..(e_size - 1) : e_buf[y] \in Elements
    BY <1>19 DEF Clean, Filled
  <2>1. CASE x < pos
    <3>1. x \in 0..(e_size - 1) /\ x \in 0..(e_size + n - 1)
      BY <1>2, <1>3, <1>15, <2>1
    <3>. QED
      BY <1>18, <2>0, <2>1, <3>1 DEF InsertedIn, n
  <2>2. CASE ~(x < pos) /\ x < pos + n
    <3>1. x - pos + 1 \in 1..n /\ x \in 0..(e_size + n - 1)
      BY <1>3, <1>15, <2>2
    <3>2. els[x - pos + 1] \in Elements
      BY <3>1, ElementOfSeq DEF n
    <3>. QED
      BY <1>18, <2>2, <3>1, <3>2 DEF InsertedIn, n
  <2>3. CASE ~(x < pos) /\ ~(x < pos + n)
    <3>1. x - n \in 0..(e_size - 1) /\ x \in 0..(e_size + n - 1)
      BY <1>2, <1>3, <1>15, <2>3
    <3>. QED
      BY <1>18, <2>0, <2>3, <3>1 DEF InsertedIn, n
  <2>. QED
    BY <2>1, <2>2, <2>3
<1>20. ASSUME Clean PROVE \A x \in m..(c - 1) : h[x] = Junk
  <2>1. \A x \in m..(c - 1) : x \in 0..(c - 1) /\ x >= e_size + n
    BY <1>3, <1>15
  <2>. QED
    BY <1>9, <1>16, <1>15, <1>20, <2>1
<1>21. h \in Buffer(c)
  <2>. SUFFICES ASSUME NEW x \in 0..(c - 1) PROVE h[x] \in Cell
    BY <1>17 DEF Buffer
  <2>1. CASE x < pos \/ x >= e_size + n
    <3>1. h[x] = start[x]
      BY <1>16, <2>1
    <3>. QED
      BY <1>7, <3>1 DEF Buffer
  <2>2. CASE ~(x < pos \/ x >= e_size + n) /\ x < pos + n
    <3>1. x - pos + 1 \in 1..n
      BY <1>3, <2>2
    <3>2. els[x - pos + 1] \in Elements
      BY <3>1, ElementOfSeq DEF n
    <3>. QED
      BY <1>16, <2>2, <3>2 DEF Cell
  <2>3. CASE ~(x < pos \/ x >= e_size + n) /\ ~(x < pos + n)
    <3>1. x - n \in 0..(cap - 1)
      BY <1>2, <1>3, <2>3
    <3>2. e_buf[x - n] \in Cell
      BY <1>3, <3>1 DEF Buffer
    <3>. QED
      BY <1>16, <2>3, <3>2
  <2>. QED
    BY <2>1, <2>2, <2>3
<1>22. ShapeOf(e_buf', c, e_size')
  <2>1. e_size' = m /\ m \in 0..c
    BY <1>2, <1>6, <1>15
  <2>2. ShapeOf(h, c, m)
    BY <1>6, <1>21, <2>1 DEF ShapeOf
  <2>. QED
    BY <1>13, <2>1, <2>2
<1>23. Shaped' /\ (Clean => Clean')
  <2>1. Clean => CleanOf(h, c, m)
    BY <1>19, <1>20 DEF CleanOf
  <2>2. e_size' = m
    BY <1>2, <1>15
  <2>. QED
    BY <1>13, <1>22, <2>1, <2>2, ShapedNext
<1>. QED
  BY <1>2, <1>12, <1>18, <1>23, <1>13 DEF n

-----------------------------------------------------------------------------
(* remove *)

(* What a removal leaves in the buffer. *)
RemovedIn(f, pos, n) ==
  \A x \in 0..(e_size - n - 1) : f[x] = IF x < pos THEN e_buf[x] ELSE e_buf[x + n]

(* remove: what was behind is moved down. *)
LEMMA RemoveDoes ==
  ASSUME Shaped, NEW pos \in Nat, NEW n \in Nat, remove(pos, n)
  PROVE  /\ Shaped' /\ e_size' = e_size - n /\ pos + n <= e_size
         /\ RemovedIn(e_buf', pos, n)
         /\ overrun' = overrun /\ UNCHANGED <<e_sorted, assigned>> /\ (Clean => Clean')
<1>. DEFINE newCap == Upsized(e_size - n)
            recapped == newCap < Downsized(e_cap)
            start == IF recapped
                     THEN [i \in 0..(newCap - 1) |-> IF i < pos THEN e_buf[i] ELSE Junk]
                     ELSE e_buf
            shifted == Shifted(start, e_buf, pos, n)
<1>1. /\ pos + n <= e_size
      /\ e_buf' = Kept(shifted, e_size - n)
      /\ e_size' = e_size - n
      /\ overrun' = IF \A i \in 0..(e_size - n - 1) : i \in DOMAIN start
                    THEN overrun ELSE overrun \union {"buf"}
      /\ UNCHANGED <<e_sorted, assigned>>
  BY DEF remove
<1>2. PICK cap, m, h : cap = e_cap /\ m = e_size - n /\ h = e_buf'
  OBVIOUS
<1>3. /\ cap \in Nat /\ e_buf \in Buffer(cap) /\ e_size \in 0..cap /\ e_size \in Nat
      /\ m \in Nat /\ m <= e_size /\ m + n = e_size /\ m = e_size - n
  <2>1. cap \in Nat /\ e_buf \in Buffer(cap) /\ e_size \in 0..cap
    BY <1>2 DEF Shaped
  <2>. QED
    BY <1>1, <1>2, <2>1
<1>4. newCap \in Nat /\ newCap >= m
  BY <1>2, <1>3, UpsizedGrows
<1>. HIDE DEF newCap
<1>5. PICK c : c = IF recapped THEN newCap ELSE cap
  OBVIOUS
<1>6. c \in Nat /\ m <= c
  BY <1>3, <1>4, <1>5
<1>7. DOMAIN start = 0..(c - 1) /\ \A x \in 0..(c - 1) : x < pos => start[x] = e_buf[x]
  BY <1>3, <1>5 DEF Buffer
<1>. HIDE DEF recapped, start
<1>8. overrun' = overrun
  <2>1. \A i \in 0..(m - 1) : i \in DOMAIN start
    BY <1>3, <1>6, <1>7
  <2>. QED
    BY <1>1, <1>2, <2>1
<1>9. h = [x \in 0..(c - 1) |-> IF x < m THEN (IF x >= pos /\ x + n < e_size THEN e_buf[x + n]
                                               ELSE start[x])
                                ELSE Junk]
  <2>1. shifted = [x \in 0..(c - 1) |-> IF x >= pos /\ x + n < e_size THEN e_buf[x + n]
                                        ELSE start[x]]
    BY <1>7 DEF Shifted
  <2>. HIDE DEF shifted
  <2>2. h = [x \in DOMAIN shifted |-> IF x < m THEN shifted[x] ELSE Junk]
    BY <1>1, <1>2 DEF Kept
  <2>. QED
    BY <2>1, <2>2
<1>10. \A x \in 0..(m - 1) : /\ h[x] = IF x < pos THEN e_buf[x] ELSE e_buf[x + n]
                             /\ x \in 0..(e_size - 1) /\ x + n \in 0..(e_size - 1)
                             /\ x \in 0..(c - 1)
  <2>. SUFFICES ASSUME NEW x \in 0..(m - 1)
                PROVE  /\ h[x] = IF x < pos THEN e_buf[x] ELSE e_buf[x + n]
                       /\ x \in 0..(e_size - 1) /\ x + n \in 0..(e_size - 1)
                       /\ x \in 0..(c - 1)
    OBVIOUS
  <2>1. /\ x \in 0..(e_size - 1) /\ x + n \in 0..(e_size - 1) /\ x \in 0..(c - 1)
        /\ x < m /\ x + n < e_size /\ (~(x < pos) => x >= pos)
        /\ (x < pos => ~(x >= pos))
    BY <1>3, <1>6
  <2>2. h[x] = IF x >= pos THEN e_buf[x + n] ELSE start[x]
    BY <1>9, <2>1
  <2>. QED
    BY <1>7, <2>1, <2>2
<1>11. \A x \in m..(c - 1) : h[x] = Junk /\ x \in 0..(c - 1)
  <2>1. \A x \in m..(c - 1) : x \in 0..(c - 1) /\ ~(x < m)
    BY <1>3, <1>6
  <2>. QED
    BY <1>9, <2>1
<1>12. Clean => Filled(h, m)
  BY <1>10 DEF Filled, Clean
<1>13. h \in Buffer(c)
  <2>1. h = [x \in 0..(c - 1) |-> h[x]]
    BY <1>9
  <2>2. ASSUME NEW x \in 0..(c - 1) PROVE h[x] \in Cell
    <3>1. CASE x \in 0..(m - 1)
      <4>1. /\ h[x] = IF x < pos THEN e_buf[x] ELSE e_buf[x + n]
            /\ x \in 0..(cap - 1) /\ x + n \in 0..(cap - 1)
        BY <1>3, <1>10, <3>1
      <4>. QED
        BY <1>3, <4>1 DEF Buffer
    <3>2. CASE x \in m..(c - 1)
      BY <1>11, <3>2 DEF Cell
    <3>. QED
      BY <1>3, <1>6, <3>1, <3>2
  <2>. QED
    BY <2>1, <2>2 DEF Buffer
<1>14. ShapeOf(h, c, m)
  BY <1>3, <1>6, <1>13 DEF ShapeOf
<1>15. Shaped' /\ (Clean => Clean')
  <2>1. Clean => CleanOf(h, c, m)
    BY <1>11, <1>12 DEF CleanOf
  <2>. QED
    BY <1>1, <1>2, <1>14, <2>1, ShapedNext
<1>16. RemovedIn(h, pos, n)
  BY <1>2, <1>10 DEF RemovedIn
<1>. QED
  BY <1>1, <1>2, <1>8, <1>15, <1>16

-----------------------------------------------------------------------------
(* sort and assignment *)

(* What a sort leaves in the buffer, when it does anything. *)
LEMMA SortDoes ==
  ASSUME Shaped, NEW order, sort(order), e_sorted # order
  PROVE  /\ Shaped' /\ e_size' = e_size /\ e_sorted' = order /\ assigned' = FALSE
         /\ overrun' \subseteq overrun \union {"swap"}
         /\ "swap" \notin overrun' => "swap" \notin overrun
         /\ Clean /\ (e_size <= SwapSlack \/ "swap" \notin overrun') =>
              Clean' /\ SortDone(e_buf', e_buf, order, e_size)
<1>. DEFINE done == nlognSort(e_buf, order, e_size)
<1>1. /\ e_buf' = done.f /\ e_sorted' = order /\ assigned' = FALSE /\ e_size' = e_size
      /\ overrun' \subseteq overrun \union {"swap"}
      /\ "swap" \notin overrun' => "swap" \notin overrun
      /\ "swap" \notin overrun' => ~(done.used > swapSpaceSize(e_size))
  BY DEF sort
<1>2. PICK cap, h : cap = e_cap /\ h = done.f
  OBVIOUS
<1>3. /\ cap \in Nat /\ e_buf \in Buffer(cap) /\ e_size \in 0..cap
  BY <1>2 DEF Shaped
<1>4. h \in Buffer(cap) /\ done.used \in Nat
  <2>1. PICK n : n = e_size + 1
    OBVIOUS
  <2>2. PICK g : SortRun(g, n, cap, order, e_size, e_buf)
    BY <1>3, <2>1, SortFold
  <2>3. n \in 0..n
    BY <1>3, <2>1
  <2>4. done \in Sorting(cap)
    BY <2>2, <2>3 DEF SortRun
  <2>. QED
    BY <1>2, <2>4 DEF Sorting
<1>5. ShapeOf(h, cap, e_size)
  BY <1>3, <1>4 DEF ShapeOf
<1>6. ASSUME Clean, e_size <= SwapSlack \/ "swap" \notin overrun'
      PROVE  CleanOf(h, cap, e_size) /\ SortDone(h, e_buf, order, e_size)
  <2>1. Filled(e_buf, e_size) /\ \A i \in e_size..(cap - 1) : e_buf[i] = Junk
    BY <1>2, <1>6 DEF Clean
  <2>2. SortDone(h, e_buf, order, e_size)
    <3>1. swapSpaceSize(e_size) \in Nat
      BY <1>3 DEF swapSpaceSize
    <3>2. e_size <= SwapSlack \/ done.used <= swapSpaceSize(e_size)
      BY <1>1, <1>4, <1>6, <3>1
    <3>. QED
      BY <1>2, <1>3, <2>1, <3>2, SortResult
  <2>3. Filled(h, e_size)
    BY <1>3, <2>1, <2>2, MovedFilled DEF SortDone
  <2>4. \A i \in e_size..(cap - 1) : h[i] = Junk
    <3>1. SameOutside(h, e_buf, 0, e_size) /\ DOMAIN e_buf = 0..(cap - 1)
      BY <1>3, <2>2 DEF SortDone, Moved, Buffer
    <3>2. \A i \in e_size..(cap - 1) : i \in 0..(cap - 1) /\ i >= 0 + e_size
      BY <1>3
    <3>. QED
      BY <2>1, <3>1, <3>2 DEF SameOutside
  <2>. QED
    BY <2>2, <2>3, <2>4 DEF CleanOf
<1>. HIDE DEF done
<1>. QED
  BY <1>1, <1>2, <1>5, <1>6, ShapedNext

(* An assignment to one cell. *)
LEMMA AssignDoes ==
  ASSUME Shaped, NEW pos \in Nat, NEW el \in Elements, assign(pos, el)
  PROVE  /\ Shaped' /\ e_size' = e_size /\ pos \in 0..(e_size - 1)
         /\ e_buf' = [e_buf EXCEPT ![pos] = el] /\ (Clean => Clean')
<1>1. PICK cap, h : cap = e_cap /\ h = e_buf'
  OBVIOUS
<1>2. cap \in Nat /\ e_buf \in Buffer(cap) /\ e_size \in 0..cap
  BY <1>1 DEF Shaped
<1>3. pos < e_size /\ h = [e_buf EXCEPT ![pos] = el] /\ e_size' = e_size
  BY <1>1 DEF assign
<1>4. pos \in 0..(e_size - 1) /\ pos \in 0..(cap - 1)
  BY <1>2, <1>3
<1>5. h \in Buffer(cap) /\ h[pos] = el /\ \A x \in 0..(cap - 1) : x # pos => h[x] = e_buf[x]
  BY <1>2, <1>3, <1>4 DEF Buffer, Cell
<1>6. ASSUME Clean PROVE CleanOf(h, cap, e_size)
  <2>1. Filled(e_buf, e_size) /\ \A i \in e_size..(cap - 1) : e_buf[i] = Junk
    BY <1>1, <1>6 DEF Clean
  <2>2. \A x \in 0..(e_size - 1) : x \in 0..(cap - 1)
    BY <1>2
  <2>3. Filled(h, e_size)
    BY <1>5, <2>1, <2>2 DEF Filled
  <2>4. \A i \in e_size..(cap - 1) : i \in 0..(cap - 1) /\ i # pos
    BY <1>2, <1>3
  <2>5. \A i \in e_size..(cap - 1) : h[i] = Junk
    BY <1>5, <2>1, <2>4
  <2>. QED
    BY <2>3, <2>5 DEF CleanOf
<1>7. ShapeOf(h, cap, e_size)
  BY <1>2, <1>5 DEF ShapeOf
<1>8. Shaped' /\ (Clean => Clean')
  BY <1>1, <1>3, <1>6, <1>7, ShapedNext
<1>. QED
  BY <1>1, <1>3, <1>4, <1>8

(* The empty array, and the one from a list. *)
LEMMA ArrayInitShaped ==
  ASSUME ArrayInit
  PROVE  ArrayInv /\ e_sorted = "unsorted"
<1>1. e_sorted = "unsorted" /\ assigned = FALSE /\ overrun = {}
  BY DEF ArrayInit
<1>2. CASE \E cap \in InitialCaps : e_buf = newCArray(cap) /\ e_size = 0
  <2>1. PICK cap \in Nat : e_buf = newCArray(cap) /\ e_size = 0
    BY <1>2, ArrayAssumption
  <2>2. /\ e_buf \in Buffer(cap) /\ Filled(e_buf, 0)
        /\ \A i \in 0..(cap - 1) : e_buf[i] = Junk
    BY <2>1 DEF newCArray, Buffer, Cell, Filled
  <2>3. ShapeOf(e_buf, cap, e_size) /\ CleanOf(e_buf, cap, e_size)
    BY <2>1, <2>2 DEF ShapeOf, CleanOf
  <2>4. Shaped /\ Clean
    BY <2>3, ShapedNow
  <2>5. e_size <= MaxSize
    BY <2>1, ArrayAssumption
  <2>. QED
    BY <1>1, <2>1, <2>4, <2>5 DEF ArrayInv, Flags
<1>3. CASE \E list \in BoundedSeq(Elements, MaxAdded) :
             /\ e_buf = [i \in 0..(Upsized(Len(list)) - 1) |->
                            IF i < Len(list) THEN list[i + 1] ELSE Junk]
             /\ e_size = Len(list)
  <2>1. PICK list \in BoundedSeq(Elements, MaxAdded) :
             /\ e_buf = [i \in 0..(Upsized(Len(list)) - 1) |->
                            IF i < Len(list) THEN list[i + 1] ELSE Junk]
             /\ e_size = Len(list)
    BY <1>3
  <2>2. PICK n, cap : n = Len(list) /\ cap = Upsized(Len(list))
    OBVIOUS
  <2>3. list \in Seq(Elements) /\ n \in 0..MaxAdded /\ n \in Nat
    BY <2>2, BoundedSequence
  <2>4. cap \in Nat /\ n <= cap
    BY <2>2, <2>3, UpsizedGrows
  <2>5. /\ e_buf = [i \in 0..(cap - 1) |-> IF i < n THEN list[i + 1] ELSE Junk]
        /\ e_size = n
    BY <2>1, <2>2
  <2>6. \A i \in 0..(n - 1) : i \in 0..(cap - 1) /\ i < n /\ e_buf[i] \in Elements
    <3>. SUFFICES ASSUME NEW i \in 0..(n - 1)
                  PROVE  i \in 0..(cap - 1) /\ i < n /\ e_buf[i] \in Elements
      OBVIOUS
    <3>1. i \in 0..(cap - 1) /\ i < n /\ i + 1 \in 1..Len(list)
      BY <2>2, <2>3, <2>4
    <3>2. list[i + 1] \in Elements
      BY <2>3, <3>1, ElementOfSeq
    <3>. QED
      BY <2>5, <3>1, <3>2
  <2>7. \A i \in n..(cap - 1) : i \in 0..(cap - 1) /\ ~(i < n) /\ e_buf[i] = Junk
    BY <2>3, <2>4, <2>5
  <2>8. e_buf \in Buffer(cap)
    <3>1. \A i \in 0..(cap - 1) : e_buf[i] \in Cell
      <4>1. \A i \in 0..(cap - 1) : i \in 0..(n - 1) \/ i \in n..(cap - 1)
        BY <2>3, <2>4
      <4>. QED
        BY <2>6, <2>7, <4>1 DEF Cell
    <3>2. e_buf = [i \in 0..(cap - 1) |-> e_buf[i]]
      BY <2>5
    <3>. QED
      BY <3>1, <3>2 DEF Buffer
  <2>9. ShapeOf(e_buf, cap, e_size)
    BY <2>3, <2>4, <2>5, <2>8 DEF ShapeOf
  <2>10. Shaped /\ Clean
    <3>1. CleanOf(e_buf, cap, n)
      BY <2>6, <2>7 DEF CleanOf, Filled
    <3>. QED
      BY <2>5, <2>9, <3>1, ShapedNow
  <2>11. e_size <= MaxAdded
    BY <2>3, <2>5
  <2>. QED
    BY <1>1, <2>10, <2>11 DEF ArrayInv, Flags
<1>. QED
  BY <1>2, <1>3 DEF ArrayInit

-----------------------------------------------------------------------------
(* The steps. *)

(* What the operations of Array come down to. *)
BasicStep ==
  \/ UNCHANGED array_vars
  \/ \E pos \in Nat : \E els \in BoundedSeq(Elements, MaxAdded) : insert(pos, els)
  \/ \E pos \in Nat : \E n \in Nat : remove(pos, n)
  \/ \E order \in Orders : sort(order) /\ e_sorted # order
  \/ \E pos \in Nat : \E el \in Elements : assign(pos, el)

(* Every step is one of these. *)
LEMMA NextIsBasic ==
  ASSUME Shaped, [ArrayNext]_array_vars
  PROVE  BasicStep
<1>1. e_size \in Nat /\ 1 \in Nat /\ 0..MaxSize \subseteq Nat
  BY ArrayAssumption DEF Shaped
<1>2. ASSUME NEW els \in BoundedSeq(Elements, MaxAdded), append(els) PROVE BasicStep
  BY <1>1, <1>2 DEF append, BasicStep
<1>3. ASSUME NEW pos \in 0..MaxSize, NEW els \in BoundedSeq(Elements, MaxAdded),
             insert(pos, els)
      PROVE  BasicStep
  BY <1>1, <1>3 DEF BasicStep
<1>4. ASSUME NEW el \in Elements, uniqueAppend(el) PROVE BasicStep
  BY <1>2, <1>4, OneIsBounded DEF uniqueAppend
<1>5. ASSUME NEW el \in Elements, removeEl(el) PROVE BasicStep
  <2>1. PICK pos \in 0..(e_size - 1) : remove(pos, 1)
    BY <1>5 DEF removeEl
  <2>2. pos \in Nat
    BY <1>1
  <2>. QED
    BY <1>1, <2>1, <2>2 DEF BasicStep
<1>6. CASE indexBehind
  BY <1>2, <1>6, OneIsBounded DEF indexBehind
<1>7. ASSUME NEW pos \in 0..MaxSize, NEW n \in 0..MaxSize, remove(pos, n) PROVE BasicStep
  BY <1>1, <1>7 DEF BasicStep
<1>8. ASSUME NEW order \in Orders, sort(order) PROVE BasicStep
  <2>1. CASE e_sorted = order
    BY <1>8, <2>1 DEF sort, BasicStep
  <2>2. CASE e_sorted # order
    BY <1>8, <2>2 DEF BasicStep
  <2>. QED
    BY <2>1, <2>2
<1>9. ASSUME NEW pos \in 0..MaxSize, NEW el \in Elements, assign(pos, el) PROVE BasicStep
  BY <1>1, <1>9 DEF BasicStep
<1>10. CASE UNCHANGED array_vars
  BY <1>10 DEF BasicStep
<1>. QED
  BY <1>2, <1>3, <1>4, <1>5, <1>6, <1>7, <1>8, <1>9, <1>10 DEF ArrayNext

(* Nothing is written outside the buffer, whatever the swap space. *)
LEMMA ShapeStep ==
  ASSUME Shaped, Flags, [ArrayNext]_array_vars
  PROVE  Shaped' /\ Flags'
<1>1. /\ e_size \in Nat
      /\ e_sorted \in Orders \union {"unsorted"} /\ assigned \in BOOLEAN
      /\ overrun \subseteq {"swap"}
      /\ e_size <= MaxSize \/ e_size <= MaxAdded
      /\ MaxSize \in Nat /\ MaxAdded \in Nat
  BY ArrayAssumption DEF Shaped, Flags
<1>2. CASE UNCHANGED array_vars
  BY <1>2 DEF array_vars, Shaped, Flags, e_cap
<1>3. ASSUME NEW pos \in Nat, NEW els \in BoundedSeq(Elements, MaxAdded), insert(pos, els)
      PROVE  Shaped' /\ Flags'
  <2>1. els \in Seq(Elements)
    BY BoundedSequence
  <2>2. Shaped' /\ e_size' = e_size + Len(els) /\ overrun' = overrun
    BY <1>3, <2>1, InsertDoes
  <2>3. e_sorted' = "unsorted" /\ assigned' = FALSE /\ e_size + Len(els) <= MaxSize
    BY <1>3 DEF insert
  <2>. QED
    BY <1>1, <2>2, <2>3 DEF Flags
<1>4. ASSUME NEW pos \in Nat, NEW n \in Nat, remove(pos, n) PROVE Shaped' /\ Flags'
  <2>1. /\ Shaped' /\ e_size' = e_size - n
        /\ overrun' = overrun /\ UNCHANGED <<e_sorted, assigned>>
    BY <1>4, RemoveDoes
  <2>2. e_size' <= MaxSize \/ e_size' <= MaxAdded
    BY <1>1, <2>1
  <2>. QED
    BY <1>1, <2>1, <2>2 DEF Flags
<1>5. ASSUME NEW order \in Orders, sort(order), e_sorted # order PROVE Shaped' /\ Flags'
  <2>1. /\ Shaped' /\ e_size' = e_size /\ e_sorted' = order /\ assigned' = FALSE
        /\ overrun' \subseteq overrun \union {"swap"}
    BY <1>5, SortDoes
  <2>. QED
    BY <1>1, <2>1 DEF Flags
<1>6. ASSUME NEW pos \in Nat, NEW el \in Elements, assign(pos, el) PROVE Shaped' /\ Flags'
  <2>1. Shaped' /\ e_size' = e_size
    BY <1>6, AssignDoes
  <2>2. /\ assigned' = (assigned \/ e_sorted # "unsorted")
        /\ UNCHANGED <<e_sorted, overrun>>
    BY <1>6 DEF assign
  <2>3. assigned' \in BOOLEAN
    BY <2>2
  <2>. QED
    BY <1>1, <2>1, <2>2, <2>3 DEF Flags
<1>. QED
  BY <1>2, <1>3, <1>4, <1>5, <1>6, NextIsBasic DEF BasicStep

(* BufferSuffices: the truncated growth and shrink factors leave room for  *)
(* every element that is written.                                          *)
THEOREM BufferAlwaysSuffices == ArraySpec => []BufferSuffices
<1>1. ArrayInit => Shaped /\ Flags
  BY ArrayInitShaped DEF ArrayInv
<1>2. (Shaped /\ Flags) /\ [ArrayNext]_array_vars => (Shaped /\ Flags)'
  BY ShapeStep
<1>3. Shaped /\ Flags => BufferSuffices
  BY DEF Flags, BufferSuffices
<1>. QED
  BY <1>1, <1>2, <1>3, PTL DEF ArraySpec

(* What the merges write to the swap space can be read back: none wrote    *)
(* past its end, or the cells that follow it are there for any array.      *)
SwapReaches ==
  \/ SwapSpaceSuffices
  \/ SwapSlack >= MaxSize /\ SwapSlack >= MaxAdded

(* A write past the end of the swap space is not forgotten. *)
LEMMA ReachesStep ==
  ASSUME Shaped, [ArrayNext]_array_vars, SwapReaches'
  PROVE  SwapReaches
<1>1. CASE UNCHANGED array_vars
  BY <1>1 DEF array_vars, SwapReaches, SwapSpaceSuffices
<1>2. ASSUME NEW pos \in Nat, NEW els \in BoundedSeq(Elements, MaxAdded), insert(pos, els)
      PROVE  SwapReaches
  <2>1. overrun' = overrun
    BY <1>2, BoundedSequence, InsertDoes
  <2>. QED
    BY <2>1 DEF SwapReaches, SwapSpaceSuffices
<1>3. ASSUME NEW pos \in Nat, NEW n \in Nat, remove(pos, n) PROVE SwapReaches
  <2>1. overrun' = overrun
    BY <1>3, RemoveDoes
  <2>. QED
    BY <2>1 DEF SwapReaches, SwapSpaceSuffices
<1>4. ASSUME NEW order \in Orders, sort(order), e_sorted # order PROVE SwapReaches
  <2>1. "swap" \notin overrun' => "swap" \notin overrun
    BY <1>4, SortDoes
  <2>. QED
    BY <2>1 DEF SwapReaches, SwapSpaceSuffices
<1>5. ASSUME NEW pos \in Nat, NEW el \in Elements, assign(pos, el) PROVE SwapReaches
  BY <1>5 DEF assign, SwapReaches, SwapSpaceSuffices
<1>. QED
  BY <1>1, <1>2, <1>3, <1>4, <1>5, NextIsBasic DEF BasicStep

(* The room of a sort that was just done, or of any. *)
LEMMA RoomNow ==
  ASSUME Shaped, Flags, SwapReaches'
  PROVE  e_size <= SwapSlack \/ "swap" \notin overrun'
  BY ArrayAssumption DEF SwapReaches, SwapSpaceSuffices, Shaped, Flags

(* The cells hold elements, as long as the swap space reaches. *)
LEMMA ArrayInvStep ==
  ASSUME SwapReaches', ArrayInv, [ArrayNext]_array_vars
  PROVE  ArrayInv'
<1>1. Shaped' /\ Flags'
  BY ShapeStep DEF ArrayInv
<1>2. Shaped /\ Clean /\ (e_size <= SwapSlack \/ "swap" \notin overrun')
  BY RoomNow DEF ArrayInv
<1>3. Clean'
  <2>1. CASE UNCHANGED array_vars
    BY <1>2, <2>1 DEF array_vars, Clean, e_cap
  <2>2. ASSUME NEW pos \in Nat, NEW els \in BoundedSeq(Elements, MaxAdded), insert(pos, els)
        PROVE  Clean'
    BY <1>2, <2>2, BoundedSequence, InsertDoes
  <2>3. ASSUME NEW pos \in Nat, NEW n \in Nat, remove(pos, n) PROVE Clean'
    BY <1>2, <2>3, RemoveDoes
  <2>4. ASSUME NEW order \in Orders, sort(order), e_sorted # order PROVE Clean'
    BY <1>2, <2>4, SortDoes
  <2>5. ASSUME NEW pos \in Nat, NEW el \in Elements, assign(pos, el) PROVE Clean'
    BY <1>2, <2>5, AssignDoes
  <2>. QED
    BY <1>2, <2>1, <2>2, <2>3, <2>4, <2>5, NextIsBasic DEF BasicStep
<1>. QED
  BY <1>1, <1>3 DEF ArrayInv

(* The whole array is in the order that e_sorted names. *)
OrderInv ==
  e_sorted \in Orders /\ ~assigned => Ordered(e_buf, e_sorted, 0, e_size, e_size)

(* Order survives every operation that keeps e_sorted. *)
LEMMA OrderStep ==
  ASSUME SwapReaches', ArrayInv, OrderInv, [ArrayNext]_array_vars
  PROVE  OrderInv'
<1>1. Shaped /\ Clean /\ (e_size <= SwapSlack \/ "swap" \notin overrun') /\ e_size \in Nat
  BY RoomNow DEF ArrayInv, Shaped
<1>2. CASE UNCHANGED array_vars
  BY <1>2 DEF array_vars, OrderInv, Ordered
<1>3. ASSUME NEW pos \in Nat, NEW els \in BoundedSeq(Elements, MaxAdded), insert(pos, els)
      PROVE  OrderInv'
  BY <1>3 DEF insert, OrderInv, Orders
<1>4. ASSUME NEW pos \in Nat, NEW n \in Nat, remove(pos, n) PROVE OrderInv'
  <2>1. /\ e_size' = e_size - n /\ pos + n <= e_size
        /\ RemovedIn(e_buf', pos, n) /\ UNCHANGED <<e_sorted, assigned>>
    BY <1>1, <1>4, RemoveDoes
  <2>2. PICK h, m : h = e_buf' /\ m = e_size - n
    OBVIOUS
  <2>3. m \in Nat /\ m + n = e_size
    BY <1>1, <2>1, <2>2
  <2>4. \A x \in 0..(m - 1) : h[x] = IF x < pos THEN e_buf[x] ELSE e_buf[x + n]
    BY <2>1, <2>2 DEF RemovedIn
  <2>5. ASSUME e_sorted \in Orders, ~assigned PROVE Ordered(h, e_sorted, 0, m, m)
    <3>. SUFFICES ASSUME NEW x \in 0..(m - 1), NEW y \in 0..(m - 1), x <= y
                  PROVE  ~After(e_sorted, h[x], h[y])
      BY DEF Ordered
    <3>1. PICK a, b : /\ a = IF x < pos THEN x ELSE x + n
                      /\ b = IF y < pos THEN y ELSE y + n
      OBVIOUS
    <3>2. /\ a \in 0..(e_size - 1) /\ b \in 0..(e_size - 1)
          /\ 0 <= a /\ a <= b /\ b < e_size
      BY <1>1, <2>3, <3>1
    <3>3. ~After(e_sorted, e_buf[a], e_buf[b])
      BY <2>5, <3>2 DEF OrderInv, Ordered
    <3>4. h[x] = e_buf[a] /\ h[y] = e_buf[b]
      BY <2>4, <3>1
    <3>. QED
      BY <3>3, <3>4
  <2>. QED
    BY <2>1, <2>2, <2>5 DEF OrderInv
<1>5. ASSUME NEW order \in Orders, sort(order), e_sorted # order PROVE OrderInv'
  <2>1. /\ e_size' = e_size /\ e_sorted' = order
        /\ SortDone(e_buf', e_buf, order, e_size)
    BY <1>1, <1>5, SortDoes
  <2>. QED
    BY <2>1 DEF OrderInv, SortDone
<1>6. ASSUME NEW pos \in Nat, NEW el \in Elements, assign(pos, el) PROVE OrderInv'
  <2>1. /\ assigned' = (assigned \/ e_sorted # "unsorted") /\ e_sorted' = e_sorted
    BY <1>6 DEF assign
  <2>2. CASE e_sorted = "unsorted"
    BY <2>1, <2>2 DEF OrderInv, Orders
  <2>3. CASE e_sorted # "unsorted"
    BY <2>1, <2>3 DEF OrderInv
  <2>. QED
    BY <2>2, <2>3
<1>. QED
  BY <1>1, <1>2, <1>3, <1>4, <1>5, <1>6, NextIsBasic DEF BasicStep

(* Without the swap space nothing is known of the cells but their number.  *)
SafeInv ==
  /\ Shaped /\ Flags
  /\ SwapReaches => Clean /\ OrderInv

(* The invariant holds at the start. *)
LEMMA SafeInitially == ArrayInit => SafeInv
  BY ArrayInitShaped DEF SafeInv, ArrayInv, OrderInv, Orders

(* And it is kept: with the swap space at the end of a step, there was one  *)
(* before it.                                                              *)
LEMMA SafeStep == SafeInv /\ [ArrayNext]_array_vars => SafeInv'
<1>. SUFFICES ASSUME SafeInv, [ArrayNext]_array_vars PROVE SafeInv'
  OBVIOUS
<1>1. Shaped /\ Flags
  BY DEF SafeInv
<1>2. Shaped' /\ Flags'
  BY <1>1, ShapeStep
<1>3. ASSUME SwapReaches' PROVE Clean' /\ OrderInv'
  <2>1. SwapReaches
    BY <1>1, <1>3, ReachesStep
  <2>2. ArrayInv /\ OrderInv
    BY <1>1, <2>1 DEF SafeInv, ArrayInv
  <2>3. ArrayInv'
    BY <1>3, <2>2, ArrayInvStep
  <2>4. OrderInv'
    BY <1>3, <2>2, OrderStep
  <2>. QED
    BY <2>3, <2>4 DEF ArrayInv
<1>. QED
  BY <1>2, <1>3 DEF SafeInv

(* ArrayTypeOK: the first cells hold elements, and no cell behind does.    *)
THEOREM ArrayTypesAlways == ArraySpec => [](SwapReaches => ArrayTypeOK)
<1>1. SafeInv => (SwapReaches => ArrayTypeOK)
  BY DEF SafeInv, Shaped, Clean, Flags, Filled, ArrayTypeOK
<1>. QED
  BY <1>1, SafeInitially, SafeStep, PTL DEF ArraySpec

(* SortedIsInOrder: sort() may return at once where e_sorted tells it to.  *)
THEOREM SortedAlwaysInOrder == ArraySpec => [](SwapReaches => SortedIsInOrder)
<1>1. SafeInv => (SwapReaches => SortedIsInOrder)
  <2>. SUFFICES ASSUME Shaped, OrderInv, e_sorted \in Orders, ~assigned,
                       NEW i \in 0..(e_size - 2)
                PROVE  ~After(e_sorted, e_buf[i], e_buf[i + 1])
    BY DEF SafeInv, SortedIsInOrder, InOrder
  <2>1. e_size \in Nat
    BY DEF Shaped
  <2>2. /\ i \in 0..(e_size - 1) /\ i + 1 \in 0..(e_size - 1)
        /\ 0 <= i /\ i <= i + 1 /\ i + 1 < e_size
    BY <2>1
  <2>. QED
    BY <2>2 DEF OrderInv, Ordered
<1>. QED
  BY <1>1, SafeInitially, SafeStep, PTL DEF ArraySpec

-----------------------------------------------------------------------------
(* Refinement: the array is the list of its elements. *)

(* The sequence of the first n cells. *)
ListOf(f, n) == [i \in 1..n |-> f[i - 1]]

(* It is a sequence of elements if the cells are elements. *)
LEMMA ListOfType ==
  ASSUME NEW n \in Nat, NEW f, Filled(f, n)
  PROVE  /\ ListOf(f, n) \in Seq(Elements) /\ ListOf(f, n) \in [1..n -> Elements]
         /\ Len(ListOf(f, n)) = n /\ DOMAIN ListOf(f, n) = 1..n
         /\ \A i \in 1..n : ListOf(f, n)[i] = f[i - 1]
<1>. DEFINE c == ListOf(f, n)
<1>1. ASSUME NEW i \in 1..n PROVE f[i - 1] \in Elements
  <2>1. i - 1 \in 0..(n - 1)
    OBVIOUS
  <2>. QED
    BY <2>1 DEF Filled
<1>2. c \in [1..n -> Elements] /\ \A i \in 1..n : c[i] = f[i - 1]
  BY <1>1 DEF ListOf
<1>. HIDE DEF c
<1>3. c \in Seq(Elements)
  BY <1>2, SeqDef
<1>4. Len(c) = n /\ DOMAIN c = 1..n
  BY <1>2, <1>3, LenProperties
<1>. QED
  BY <1>2, <1>3, <1>4 DEF c

(* e is s1 with s2 behind it. *)
IsConcat(e, s1, s2) ==
  /\ Len(e) = Len(s1) + Len(s2)
  /\ \A i \in 1..(Len(s1) + Len(s2)) : e[i] = IF i <= Len(s1) THEN s1[i] ELSE s2[i - Len(s1)]

(* Concatenation is that. *)
LEMMA ConcatIs ==
  ASSUME NEW S, NEW s1 \in Seq(S), NEW s2 \in Seq(S)
  PROVE  s1 \o s2 \in Seq(S) /\ IsConcat(s1 \o s2, s1, s2)
  BY ConcatProperties DEF IsConcat

(* A sequence put into another one. *)
LEMMA PutInCells ==
  ASSUME NEW S, NEW c \in Seq(S), NEW els \in Seq(S), NEW p \in 0..Len(c), NEW d \in Seq(S),
         Len(d) = Len(c) + Len(els),
         \A i \in 1..Len(d) : d[i] = IF i <= p THEN c[i]
                                     ELSE IF i <= p + Len(els) THEN els[i - p]
                                     ELSE c[i - Len(els)]
  PROVE  d = SubSeq(c, 1, p) \o els \o SubSeq(c, p + 1, Len(c))
<1>. DEFINE a == SubSeq(c, 1, p)
            b == SubSeq(c, p + 1, Len(c))
            e == (a \o els) \o b
<1>1. PICK m, n : m = Len(c) /\ n = Len(els)
  OBVIOUS
<1>2. m \in Nat /\ n \in Nat /\ p \in 0..m /\ p \in Nat /\ \A i \in 1..m : c[i] \in S
  BY <1>1, LenProperties, ElementOfSeq
<1>3. a \in Seq(S) /\ Len(a) = p /\ \A i \in 1..p : a[i] = c[i]
  <2>1. \A i \in 1..p : c[i] \in S
    BY <1>2
  <2>2. /\ SubSeq(c, 1, p) \in Seq(S)
        /\ Len(SubSeq(c, 1, p)) = IF 1 <= p THEN p - 1 + 1 ELSE 0
        /\ \A i \in 1..(p - 1 + 1) : SubSeq(c, 1, p)[i] = c[1 + i - 1]
    BY <1>2, <2>1, SubSeqProperties
  <2>3. /\ p - 1 + 1 = p /\ \A i \in 1..p : 1 + i - 1 = i
        /\ (IF 1 <= p THEN p - 1 + 1 ELSE 0) = p
    BY <1>2
  <2>. QED
    BY <2>2, <2>3
<1>4. b \in Seq(S) /\ Len(b) = m - p /\ \A i \in 1..(m - p) : b[i] = c[p + i]
  <2>1. \A i \in (p + 1)..m : c[i] \in S
    BY <1>2
  <2>2. /\ SubSeq(c, p + 1, m) \in Seq(S)
        /\ Len(SubSeq(c, p + 1, m)) = IF p + 1 <= m THEN m - (p + 1) + 1 ELSE 0
        /\ \A i \in 1..(m - (p + 1) + 1) : SubSeq(c, p + 1, m)[i] = c[(p + 1) + i - 1]
    BY <1>2, <2>1, SubSeqProperties
  <2>3. /\ m - (p + 1) + 1 = m - p /\ \A i \in 1..(m - p) : (p + 1) + i - 1 = p + i
        /\ (IF p + 1 <= m THEN m - (p + 1) + 1 ELSE 0) = m - p
    BY <1>2
  <2>. QED
    BY <1>1, <2>2, <2>3
<1>. HIDE DEF a, b
<1>5. /\ a \o els \in Seq(S) /\ Len(a \o els) = p + n
      /\ \A i \in 1..(p + n) : (a \o els)[i] = IF i <= p THEN a[i] ELSE els[i - p]
  BY <1>1, <1>3, ConcatProperties
<1>6. /\ e \in Seq(S) /\ Len(e) = (p + n) + (m - p)
      /\ \A i \in 1..((p + n) + (m - p)) :
            e[i] = IF i <= p + n THEN (a \o els)[i] ELSE b[i - (p + n)]
  <2>1. PICK r : r = a \o els
    OBVIOUS
  <2>2. r \in Seq(S) /\ b \in Seq(S) /\ Len(r) = p + n /\ Len(b) = m - p
    BY <1>4, <1>5, <2>1
  <2>3. r \o b \in Seq(S) /\ IsConcat(r \o b, r, b)
    BY <2>2, ConcatIs
  <2>. QED
    BY <2>1, <2>2, <2>3 DEF IsConcat
<1>. HIDE DEF e
<1>7. Len(d) = m + n /\ Len(e) = m + n /\ (p + n) + (m - p) = m + n
  <2>1. (p + n) + (m - p) = m + n
    BY <1>2
  <2>2. Len(d) = m + n
    BY <1>1
  <2>. QED
    BY <1>6, <2>1, <2>2
<1>8. ASSUME NEW i \in 1..Len(d) PROVE d[i] = e[i]
  <2>0. i \in 1..(m + n) /\ i \in 1..((p + n) + (m - p))
    BY <1>7
  <2>1. CASE i <= p
    <3>1. i \in 1..p /\ i <= p + n /\ i \in 1..(p + n)
      BY <1>2, <2>0, <2>1
    <3>2. e[i] = c[i]
      BY <1>3, <1>5, <1>6, <2>0, <2>1, <3>1
    <3>. QED
      BY <2>1, <3>2
  <2>2. CASE ~(i <= p) /\ i <= p + n
    <3>1. i \in 1..(p + n)
      BY <1>2, <2>0, <2>2
    <3>2. e[i] = els[i - p]
      BY <1>5, <1>6, <2>0, <2>2, <3>1
    <3>. QED
      BY <1>1, <2>2, <3>2
  <2>3. CASE ~(i <= p) /\ ~(i <= p + n)
    <3>1. i - (p + n) \in 1..(m - p) /\ p + (i - (p + n)) = i - n
      BY <1>2, <2>0, <2>3
    <3>2. e[i] = c[i - n]
      BY <1>4, <1>6, <2>0, <2>3, <3>1
    <3>. QED
      BY <1>1, <2>3, <3>2
  <2>. QED
    BY <2>1, <2>2, <2>3
<1>9. d = e
  BY <1>6, <1>7, <1>8, SeqEqual
<1>. QED
  BY <1>9 DEF a, b, e

(* A part of a sequence taken out. *)
LEMMA TakeOutCells ==
  ASSUME NEW S, NEW c \in Seq(S), NEW p \in Nat, NEW n \in Nat, p + n <= Len(c),
         NEW d \in Seq(S), Len(d) = Len(c) - n,
         \A i \in 1..Len(d) : d[i] = IF i <= p THEN c[i] ELSE c[i + n]
  PROVE  d = SubSeq(c, 1, p) \o SubSeq(c, p + n + 1, Len(c))
<1>. DEFINE a == SubSeq(c, 1, p)
            b == SubSeq(c, p + n + 1, Len(c))
            e == a \o b
<1>1. PICK m : m = Len(c)
  OBVIOUS
<1>2. m \in Nat /\ p + n <= m /\ \A i \in 1..m : c[i] \in S
  BY <1>1, LenProperties, ElementOfSeq
<1>3. a \in Seq(S) /\ Len(a) = p /\ \A i \in 1..p : a[i] = c[i]
  <2>1. \A i \in 1..p : c[i] \in S
    BY <1>2
  <2>2. /\ SubSeq(c, 1, p) \in Seq(S)
        /\ Len(SubSeq(c, 1, p)) = IF 1 <= p THEN p - 1 + 1 ELSE 0
        /\ \A i \in 1..(p - 1 + 1) : SubSeq(c, 1, p)[i] = c[1 + i - 1]
    BY <1>2, <2>1, SubSeqProperties
  <2>3. /\ p - 1 + 1 = p /\ \A i \in 1..p : 1 + i - 1 = i
        /\ (IF 1 <= p THEN p - 1 + 1 ELSE 0) = p
    BY <1>2
  <2>. QED
    BY <2>2, <2>3
<1>4. PICK q : q = p + n
  OBVIOUS
<1>5. q \in Nat /\ q <= m /\ m - q \in Nat
  BY <1>2, <1>4
<1>6. b \in Seq(S) /\ Len(b) = m - q /\ \A i \in 1..(m - q) : b[i] = c[q + i]
  <2>1. \A i \in (q + 1)..m : c[i] \in S
    BY <1>2, <1>5
  <2>2. /\ SubSeq(c, q + 1, m) \in Seq(S)
        /\ Len(SubSeq(c, q + 1, m)) = IF q + 1 <= m THEN m - (q + 1) + 1 ELSE 0
        /\ \A i \in 1..(m - (q + 1) + 1) : SubSeq(c, q + 1, m)[i] = c[(q + 1) + i - 1]
    BY <1>2, <1>5, <2>1, SubSeqProperties
  <2>3. /\ m - (q + 1) + 1 = m - q /\ \A i \in 1..(m - q) : (q + 1) + i - 1 = q + i
        /\ (IF q + 1 <= m THEN m - (q + 1) + 1 ELSE 0) = m - q
    BY <1>2, <1>5
  <2>. QED
    BY <1>1, <1>4, <2>2, <2>3
<1>. HIDE DEF a, b
<1>7. /\ e \in Seq(S) /\ Len(e) = p + (m - q)
      /\ \A i \in 1..(p + (m - q)) : e[i] = IF i <= p THEN a[i] ELSE b[i - p]
  <2>1. e \in Seq(S) /\ IsConcat(e, a, b)
    BY <1>3, <1>6, ConcatIs
  <2>. HIDE DEF e
  <2>. QED
    BY <1>3, <1>6, <2>1 DEF IsConcat
<1>. HIDE DEF e
<1>8. Len(d) = m - n /\ Len(e) = m - n /\ p + (m - q) = m - n
  BY <1>1, <1>2, <1>4, <1>5, <1>7
<1>9. ASSUME NEW i \in 1..Len(d) PROVE d[i] = e[i]
  <2>0. i \in 1..(m - n) /\ i \in 1..(p + (m - q))
    BY <1>8
  <2>1. CASE i <= p
    <3>1. i \in 1..p
      BY <2>0, <2>1
    <3>. QED
      BY <1>3, <1>7, <2>0, <2>1, <3>1
  <2>2. CASE ~(i <= p)
    <3>1. i - p \in 1..(m - q) /\ q + (i - p) = i + n
      BY <1>2, <1>4, <1>5, <2>0, <2>2
    <3>2. e[i] = c[i + n]
      BY <1>6, <1>7, <2>0, <2>2, <3>1
    <3>. QED
      BY <2>2, <3>2
  <2>. QED
    BY <2>1, <2>2
<1>10. d = e
  BY <1>7, <1>8, <1>9, SeqEqual
<1>. QED
  BY <1>10 DEF a, b, e

(* The cells of a buffer, moved, are the elements of the list, moved.      *)
LEMMA ArrangedCells ==
  ASSUME NEW n \in Nat, NEW f, NEW g, Filled(f, n), Rearranged(g, f, n)
  PROVE  \E p \in Surjection(1..n, 1..n) :
            ListOf(g, n) = [i \in 1..n |-> ListOf(f, n)[p[i]]]
<1>1. PICK p \in [0..(n - 1) -> 0..(n - 1)] :
               /\ \A y \in 0..(n - 1) : \E x \in 0..(n - 1) : p[x] = y
               /\ \A x \in 0..(n - 1) : g[x] = f[p[x]]
  BY DEF Rearranged
<1>. DEFINE I == 1..n
            q == [i \in I |-> p[i - 1] + 1]
<1>2. \A i \in I : i - 1 \in 0..(n - 1) /\ (i - 1) + 1 = i
  OBVIOUS
<1>3. \A x \in 0..(n - 1) : x + 1 \in I /\ (x + 1) - 1 = x
  OBVIOUS
<1>4. q \in [I -> I] /\ \A i \in I : q[i] = p[i - 1] + 1
  BY <1>2, <1>3
<1>. HIDE DEF I, q
<1>5. ASSUME NEW y \in I PROVE \E x \in I : q[x] = y
  <2>1. PICK x \in 0..(n - 1) : p[x] = y - 1
    BY <1>1, <1>2
  <2>2. x + 1 \in I /\ q[x + 1] = y
    BY <1>2, <1>3, <1>4, <2>1
  <2>. QED
    BY <2>2
<1>6. q \in Surjection(I, I)
  BY <1>4, <1>5 DEF Surjection
<1>7. ASSUME NEW i \in I PROVE ListOf(g, n)[i] = ListOf(f, n)[q[i]]
  <2>1. g[i - 1] = f[p[i - 1]] /\ p[i - 1] \in 0..(n - 1)
    BY <1>1, <1>2
  <2>2. q[i] \in I /\ q[i] - 1 = p[i - 1]
    BY <1>3, <1>4, <2>1
  <2>3. ListOf(g, n)[i] = g[i - 1] /\ ListOf(f, n)[q[i]] = f[q[i] - 1]
    BY <2>2 DEF ListOf, I
  <2>. QED
    BY <2>1, <2>2, <2>3
<1>8. ListOf(g, n) = [i \in I |-> ListOf(f, n)[q[i]]]
  <2>1. ListOf(g, n) = [i \in I |-> ListOf(g, n)[i]]
    BY DEF ListOf, I
  <2>. QED
    BY <1>7, <2>1
<1>. QED
  BY <1>6, <1>8 DEF I

(* Every step of the array is one of the list, or changes no element.      *)
LEMMA ListStep ==
  ASSUME SwapReaches', ArrayInv, [ArrayNext]_array_vars
  PROVE  [Contents!ListNext]_Content
<1>1. /\ Shaped /\ Clean /\ (e_size <= SwapSlack \/ "swap" \notin overrun')
      /\ e_size \in Nat /\ Filled(e_buf, e_size)
  BY RoomNow DEF ArrayInv, Shaped, Clean
<1>2. ArrayInv' /\ e_size' \in Nat /\ Filled(e_buf', e_size')
  <2>1. ArrayInv'
    BY ArrayInvStep
  <2>2. Shaped' /\ Clean'
    BY <2>1 DEF ArrayInv
  <2>3. Filled(e_buf', e_size')
    BY <2>2 DEF Clean
  <2>4. e_size' \in Nat
    BY <2>2 DEF Shaped
  <2>. QED
    BY <2>1, <2>3, <2>4
<1>3. PICK c, d, s, z : /\ c = Content /\ d = Content' /\ s = e_size /\ z = e_size'
  OBVIOUS
<1>4. c = ListOf(e_buf, s) /\ d = ListOf(e_buf', z) /\ s \in Nat /\ z \in Nat
  BY <1>1, <1>2, <1>3 DEF Content, ListOf
<1>5. /\ c \in Seq(Elements) /\ c \in [1..s -> Elements] /\ Len(c) = s /\ DOMAIN c = 1..s
      /\ \A i \in 1..s : c[i] = e_buf[i - 1]
  BY <1>1, <1>3, <1>4, ListOfType
<1>6. /\ d \in Seq(Elements) /\ Len(d) = z /\ DOMAIN d = 1..z
      /\ \A i \in 1..z : d[i] = e_buf'[i - 1]
  BY <1>2, <1>3, <1>4, ListOfType
<1>7. CASE UNCHANGED array_vars
  BY <1>7 DEF array_vars, Content
<1>8. ASSUME NEW pos \in Nat, NEW els \in BoundedSeq(Elements, MaxAdded), insert(pos, els)
      PROVE  Contents!ListNext
  <2>1. els \in Seq(Elements) /\ Len(els) \in Nat
    BY BoundedSequence, ArrayAssumption
  <2>2. PICK n : n = Len(els)
    OBVIOUS
  <2>3. z = s + n /\ InsertedIn(e_buf', pos, els) /\ pos <= s /\ pos \in 0..s /\ n \in Nat
    <3>1. e_size' = e_size + Len(els) /\ InsertedIn(e_buf', pos, els)
      BY <1>1, <1>8, <2>1, InsertDoes
    <3>2. pos <= e_size
      BY <1>8 DEF insert
    <3>. QED
      BY <1>3, <1>4, <2>1, <2>2, <3>1, <3>2
  <2>4. ASSUME NEW i \in 1..Len(d)
        PROVE  d[i] = IF i <= pos THEN c[i]
                      ELSE IF i <= pos + Len(els) THEN els[i - pos]
                      ELSE c[i - Len(els)]
    <3>1. /\ i \in 1..z /\ i - 1 \in 0..(s + n - 1) /\ i \in Nat
          /\ (i - 1 < pos <=> i <= pos) /\ (i - 1 < pos + n <=> i <= pos + n)
          /\ (i - 1) - pos + 1 = i - pos /\ (i - 1) - n = (i - n) - 1
          /\ i <= pos => i \in 1..s
          /\ ~(i <= pos + n) => i - n \in 1..s
      BY <1>4, <1>6, <2>3
    <3>2. d[i] = IF i - 1 < pos THEN e_buf[i - 1]
                 ELSE IF i - 1 < pos + n THEN els[(i - 1) - pos + 1]
                 ELSE e_buf[(i - 1) - n]
      BY <1>3, <1>6, <2>2, <2>3, <3>1 DEF InsertedIn
    <3>3. CASE i <= pos
      BY <1>5, <2>2, <3>1, <3>2, <3>3
    <3>4. CASE ~(i <= pos) /\ i <= pos + n
      BY <2>2, <3>1, <3>2, <3>4
    <3>5. CASE ~(i <= pos) /\ ~(i <= pos + n)
      <4>1. c[i - n] = e_buf[(i - n) - 1]
        BY <1>5, <3>1, <3>5
      <4>. QED
        BY <2>2, <3>1, <3>2, <3>5, <4>1
    <3>. QED
      BY <3>3, <3>4, <3>5
  <2>5. d = SubSeq(c, 1, pos) \o els \o SubSeq(c, pos + 1, Len(c))
    <3>1. pos \in 0..Len(c) /\ Len(d) = Len(c) + Len(els)
      BY <1>5, <1>6, <2>2, <2>3
    <3>. QED
      BY <1>5, <1>6, <2>1, <2>4, <3>1, PutInCells
  <2>6. Contents!PutIn(pos, els)
    BY <1>3, <2>5 DEF Contents!PutIn
  <2>7. pos \in 0..Len(Content)
    BY <1>3, <1>5, <2>3
  <2>8. els \in Contents!BoundedSeq(Elements, MaxAdded)
    BY DEF BoundedSeq, SeqOf, Contents!BoundedSeq, Contents!SeqOf
  <2>. QED
    BY <2>6, <2>7, <2>8 DEF Contents!ListNext
<1>9. ASSUME NEW pos \in Nat, NEW n \in Nat, remove(pos, n) PROVE Contents!ListNext
  <2>1. z = s - n /\ pos + n <= s /\ RemovedIn(e_buf', pos, n)
    BY <1>1, <1>3, <1>9, RemoveDoes
  <2>2. ASSUME NEW i \in 1..Len(d) PROVE d[i] = IF i <= pos THEN c[i] ELSE c[i + n]
    <3>1. /\ i \in 1..z /\ i - 1 \in 0..(s - n - 1)
          /\ (i - 1 < pos <=> i <= pos) /\ (i - 1) + n = (i + n) - 1
          /\ i \in 1..s /\ i + n \in 1..s
      BY <1>4, <1>6, <2>1
    <3>2. d[i] = IF i - 1 < pos THEN e_buf[i - 1] ELSE e_buf[(i - 1) + n]
      BY <1>3, <1>6, <2>1, <3>1 DEF RemovedIn
    <3>3. c[i] = e_buf[i - 1] /\ c[i + n] = e_buf[(i + n) - 1]
      BY <1>5, <3>1
    <3>. QED
      BY <3>1, <3>2, <3>3
  <2>3. d = SubSeq(c, 1, pos) \o SubSeq(c, pos + n + 1, Len(c))
    <3>1. pos + n <= Len(c) /\ Len(d) = Len(c) - n
      BY <1>5, <1>6, <2>1
    <3>. QED
      BY <1>5, <1>6, <2>2, <3>1, TakeOutCells
  <2>4. Contents!TakeOut(pos, n)
    BY <1>3, <1>5, <2>1, <2>3 DEF Contents!TakeOut
  <2>5. pos \in 0..Len(Content) /\ n \in 0..Len(Content)
    BY <1>3, <1>4, <1>5, <2>1
  <2>. QED
    BY <2>4, <2>5 DEF Contents!ListNext
<1>10. ASSUME NEW order \in Orders, sort(order), e_sorted # order PROVE Contents!ListNext
  <2>1. z = s /\ Rearranged(e_buf', e_buf, s)
    <3>1. e_size' = e_size /\ SortDone(e_buf', e_buf, order, e_size)
      BY <1>1, <1>10, SortDoes
    <3>. QED
      BY <1>3, <3>1 DEF SortDone, Moved
  <2>2. PICK p \in Surjection(1..s, 1..s) :
               ListOf(e_buf', s) = [i \in 1..s |-> ListOf(e_buf, s)[p[i]]]
    <3>1. Filled(e_buf, s)
      BY <1>1, <1>3
    <3>. QED
      BY <1>4, <2>1, <3>1, ArrangedCells
  <2>3. p \in Surjection(DOMAIN c, DOMAIN c) /\ d = [i \in DOMAIN c |-> c[p[i]]]
    BY <1>4, <1>5, <2>1, <2>2
  <2>4. p \in Contents!Surjection(DOMAIN c, DOMAIN c)
    BY <2>3 DEF Contents!Surjection, Surjection
  <2>5. Contents!Arrange
    <3>1. /\ p \in Contents!Surjection(DOMAIN Content, DOMAIN Content)
          /\ Content' = [i \in DOMAIN Content |-> Content[p[i]]]
      BY <1>3, <2>3, <2>4
    <3>. QED
      BY <3>1 DEF Contents!Arrange
  <2>. QED
    BY <2>5 DEF Contents!ListNext
<1>11. ASSUME NEW pos \in Nat, NEW el \in Elements, assign(pos, el) PROVE Contents!ListNext
  <2>1. z = s /\ pos \in 0..(s - 1) /\ e_buf' = [e_buf EXCEPT ![pos] = el]
    BY <1>1, <1>3, <1>11, AssignDoes
  <2>2. \A x \in 0..(s - 1) : e_buf'[x] = IF x = pos THEN el ELSE e_buf[x]
    <3>1. \A x \in 0..(s - 1) : x \in DOMAIN e_buf
      BY <1>1, <1>3 DEF Shaped, Buffer
    <3>. QED
      BY <2>1, <3>1
  <2>3. ASSUME NEW i \in 1..s PROVE d[i] = [c EXCEPT ![pos + 1] = el][i]
    <3>1. i - 1 \in 0..(s - 1) /\ (i - 1 = pos <=> i = pos + 1) /\ i \in DOMAIN c
      BY <1>4, <1>5, <2>1
    <3>2. d[i] = IF i - 1 = pos THEN el ELSE e_buf[i - 1]
      BY <1>6, <2>1, <2>2, <3>1
    <3>3. c[i] = e_buf[i - 1]
      BY <1>5
    <3>. QED
      BY <3>1, <3>2, <3>3
  <2>4. d = [c EXCEPT ![pos + 1] = el]
    <3>1. d = [i \in 1..s |-> d[i]]
      BY <1>4, <2>1 DEF ListOf
    <3>. QED
      BY <1>5, <2>3, <3>1
  <2>5. Contents!Assign(pos, el) /\ pos \in 0..(Len(Content) - 1)
    BY <1>3, <1>5, <2>1, <2>4 DEF Contents!Assign
  <2>. QED
    BY <2>5 DEF Contents!ListNext
<1>. QED
  BY <1>1, <1>7, <1>8, <1>9, <1>10, <1>11, NextIsBasic DEF BasicStep

(* ImplementsList: the array behaves as a sequence of its elements.        *)
THEOREM ArrayImplementsList == ArraySpec /\ []SwapReaches => ImplementsList
<1>1. ArrayInit => ArrayInv /\ Contents!ListInit
  <2>. SUFFICES ASSUME ArrayInit PROVE ArrayInv /\ Contents!ListInit
    OBVIOUS
  <2>1. ArrayInv
    BY ArrayInitShaped
  <2>2. e_size \in 0..MaxAdded
    <3>1. e_size = 0 \/ \E list \in BoundedSeq(Elements, MaxAdded) : e_size = Len(list)
      BY DEF ArrayInit
    <3>. QED
      BY <3>1, BoundedSequence, ArrayAssumption
  <2>3. Content \in [1..e_size -> Elements]
    <3>1. e_size \in Nat /\ Filled(e_buf, e_size)
      BY <2>1 DEF ArrayInv, Shaped, Clean
    <3>2. ListOf(e_buf, e_size) \in [1..e_size -> Elements]
      BY <3>1, ListOfType
    <3>. QED
      BY <3>2 DEF ListOf, Content
  <2>4. Contents!ListInit
    BY <2>2, <2>3 DEF Contents!ListInit, Contents!BoundedSeq, Contents!SeqOf
  <2>. QED
    BY <2>1, <2>4
<1>2. ArrayInv /\ [ArrayNext]_array_vars /\ SwapReaches'
        => ArrayInv' /\ [Contents!ListNext]_Content
  BY ArrayInvStep, ListStep
<1>. QED
  BY <1>1, <1>2, PTL DEF ArraySpec, ImplementsList, Contents!ListSpec
=============================================================================
