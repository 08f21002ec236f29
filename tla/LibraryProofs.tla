---------------------------- MODULE LibraryProofs ----------------------------
(***************************************************************************)
(* Proofs about four parts of the library, which do not use one another:   *)
(* KeyGenerator, for every number of callers and of digits, SharedPointer, *)
(* for any slots, threads and bounds, EMalloc, for any memory, words and   *)
(* sizes that are asked for, and EpochTime, for every second until 2037.   *)
(***************************************************************************)
EXTENDS EMalloc, KeyGenerator, SharedPointer, EpochTime, Induction,
        SequenceTheorems, NaturalsInduction, WellFoundedInduction

-----------------------------------------------------------------------------
(* Digits: refresh() reads back what flush() wrote. *)

(* Power satisfies its equation. *)
LEMMA PowerStep ==
  /\ Power[0] = 1
  /\ \A n \in Nat : Power[n] \in Nat \ {0} /\ Power[n + 1] = 16 * Power[n]
<1>. DEFINE N == Nat \ {0}
            s == [z \in Nat \X N |-> 16 * z[2]]
            Body(f) == [n \in Nat |-> IF n = 0 THEN 1 ELSE 16 * f[n - 1]]
<1>1. s \in [Nat \X N -> N] /\ 1 \in N
  OBVIOUS
<1>2. PICK g : Iterates(g, N, 1, s)
  <2>. HIDE DEF N, s
  <2>. QED
    BY <1>1, Recursion
<1>3. ASSUME NEW n \in Nat, n # 0 PROVE g[n] = 16 * g[n - 1]
  <2>1. n - 1 \in Nat /\ (n - 1) + 1 = n
    BY <1>3
  <2>2. g[n - 1] \in N
    BY <1>2, <2>1 DEF Iterates
  <2>3. g[(n - 1) + 1] = s[<<n - 1, g[n - 1]>>]
    BY <1>2, <2>1 DEF Iterates
  <2>. QED
    BY <2>1, <2>2, <2>3
<1>4. g = Body(g)
  BY <1>2, <1>3 DEF Iterates
<1>5. Power = CHOOSE f : f = Body(f)
  BY DEF Power
<1>6. Power = Body(Power)
  <2>. HIDE DEF Body
  <2>. QED
    BY <1>4, <1>5
<1>7. Power[0] = 1 /\ \A n \in Nat : Power[n + 1] = 16 * Power[n]
  BY <1>6
<1>. DEFINE T == {n \in Nat : Power[n] \in N}
<1>8. 0 \in T /\ \A n \in T : n + 1 \in T
  <2>1. ASSUME NEW n \in T PROVE n + 1 \in T
    <3>. DEFINE p == Power[n]
    <3>1. p \in N /\ n \in Nat /\ Power[n + 1] = 16 * p
      BY <1>7
    <3>. HIDE DEF p
    <3>. QED
      BY <3>1
  <2>. QED
    BY <1>7, <2>1
<1>9. T = Nat
  <2>1. T \in SUBSET Nat
    OBVIOUS
  <2>. HIDE DEF T
  <2>. QED
    BY <1>8, <2>1, SetInduction
<1>. QED
  BY <1>7, <1>9

(* Dividing by 16 * d is dividing by d and then by 16. *)
LEMMA DivideTwice ==
  ASSUME NEW v \in Nat, NEW d \in Nat \ {0}
  PROVE  v \div (16 * d) = (v \div d) \div 16
<1>. DEFINE q == v \div d
            r == v % d
            a == q \div 16
            b == q % 16
            w == v \div (16 * d)
            x == v % (16 * d)
<1>1. q \in Nat /\ r \in 0..(d - 1) /\ v = d * q + r
  OBVIOUS
<1>2. a \in Nat /\ b \in 0..15 /\ q = 16 * a + b
  OBVIOUS
<1>3. w \in Nat /\ x \in 0..(16 * d - 1) /\ v = (16 * d) * w + x
  <2>1. 16 * d \in Nat \ {0}
    OBVIOUS
  <2>. QED
    BY <2>1, QuotientAndRemainder
<1>. HIDE DEF q, r, a, b, w, x
<1>4. v = a * (16 * d) + (d * b + r)
  <2>1. d * q = d * (16 * a) + d * b
    BY <1>1, <1>2
  <2>2. d * (16 * a) = a * (16 * d)
    BY <1>2
  <2>. QED
    BY <1>1, <1>2, <2>1, <2>2
<1>5. d * b + r \in Nat /\ d * b + r < 16 * d
  <2>1. d * b \in Nat /\ d * b <= d * 15
    BY <1>2
  <2>. QED
    BY <1>1, <2>1
<1>6. w = a
  <2>. DEFINE e == 16 * d
              y == d * b + r
  <2>1. e \in Nat \ {0} /\ a * e + y = w * e + x /\ x \in Nat /\ x < e
    BY <1>2, <1>3, <1>4
  <2>2. y \in Nat /\ y < e
    BY <1>5
  <2>. HIDE DEF e, y
  <2>. QED
    BY <1>2, <1>3, <2>1, <2>2, QuotientUnique
<1>. QED
  BY <1>6 DEF q, a, w


(* A digit is written as a character that is read as that digit. *)
LEMMA HexDigits ==
  ASSUME NEW d \in 0..15
  PROVE  /\ HexChar(d) \in Nat /\ HexValue(HexChar(d)) = d
         /\ (isDecimal(HexChar(d)) \/ isUpperHex(HexChar(d)))
  BY DEF HexChar, HexValue, isDecimal, isUpperHex

(* The counter's words. *)
LEMMA WordType == Word \in Nat \ {0}
  BY PowerStep, KeyGeneratorAssumption DEF Word

(* What valToHexCharArray returns. *)
LEMMA WrittenDigits ==
  ASSUME NEW v \in Nat, NEW s, s = valToHexCharArray(v)
  PROVE  /\ s \in Seq(Nat) /\ Len(s) = Width /\ SubSeq(s, 1, Width) = s
         /\ \A i \in 1..Width :
               /\ HexValue(s[i]) = (v \div Power[Width - i]) % 16
               /\ HexValue(s[i]) \in 0..15
               /\ (isDecimal(s[i]) \/ isUpperHex(s[i]))
<1>. DEFINE d(i) == (v \div Power[Width - i]) % 16
<1>1. Width \in Nat
  BY KeyGeneratorAssumption
<1>2. ASSUME NEW i \in 1..Width PROVE d(i) \in 0..15
  <2>1. Power[Width - i] \in Nat \ {0}
    BY <1>1, PowerStep
  <2>. DEFINE q == v \div Power[Width - i]
  <2>2. q \in Nat
    BY <2>1, QuotientAndRemainder
  <2>. HIDE DEF q
  <2>3. q % 16 \in 0..15
    BY <2>2
  <2>. QED
    BY <2>3 DEF q
<1>. HIDE DEF d
<1>3. s = [i \in 1..Width |-> HexChar(d(i))]
  BY DEF valToHexCharArray, d
<1>4. \A i \in 1..Width : HexChar(d(i)) \in Nat
  BY <1>2, HexDigits
<1>5. s \in Seq(Nat) /\ Len(s) = Width
  BY <1>1, <1>3, <1>4
<1>6. SubSeq(s, 1, Width) = s
  BY <1>1, <1>3, <1>5
<1>7. \A i \in 1..Width : /\ HexValue(s[i]) = d(i) /\ HexValue(s[i]) \in 0..15
                         /\ (isDecimal(s[i]) \/ isUpperHex(s[i]))
  BY <1>2, <1>3, HexDigits
<1>. QED
  BY <1>5, <1>6, <1>7 DEF d

(* The values of the loop of refresh() over a file of Width characters.    *)
LEMMA ParsedFold ==
  ASSUME NEW s \in Seq(Nat), Len(s) = Width, SubSeq(s, 1, Width) = s,
         \A i \in 1..Width : HexValue(s[i]) \in 0..15
  PROVE  \E g : /\ g[0] = 0
                /\ \A k \in 1..Width : g[k] = (g[k - 1] * 16 + HexValue(s[k])) % Word
                /\ Parsed(s) = g[Width]
<1>. DEFINE n == Width
            t == SubSeq(s, 1, Width)
            op == [z \in Nat \X (1..n) |-> (z[1] * 16 + HexValue(t[z[2]])) % Word]
            Body(f) == [S \in SUBSET DOMAIN t |->
                          IF S = {} THEN 0
                          ELSE (f[S \ {Max(S)}] * 16 + HexValue(t[Max(S)])) % Word]
<1>1. n \in Nat \ {0} /\ DOMAIN t = 1..n /\ t = s
  BY KeyGeneratorAssumption
<1>0. \A i \in 1..n : HexValue(t[i]) \in Nat
  <2>. HIDE DEF t
  <2>1. ASSUME NEW i \in 1..n PROVE HexValue(t[i]) \in Nat
    <3>1. HexValue(s[i]) \in 0..15
      OBVIOUS
    <3>. QED
      BY <1>1, <3>1, SMTT(60)
  <2>. QED
    BY <2>1
<1>2. Parsed(s) = (CHOOSE it : it = Body(it))[DOMAIN t]
  BY DEF Parsed, FoldLeft, MapThenFoldSet
<1>. HIDE DEF n, t
<1>3. op \in [Nat \X (1..n) -> Nat]
  <2>1. ASSUME NEW a \in Nat, NEW k \in 1..n
        PROVE  (a * 16 + HexValue(t[k])) % Word \in Nat
    <3>. DEFINE x == a * 16 + HexValue(t[k])
    <3>1. x \in Nat
      BY <1>0
    <3>. HIDE DEF x
    <3>2. x % Word \in Nat
      BY <3>1, WordType
    <3>. QED
      BY <3>2 DEF x
  <2>. QED
    BY <2>1
<1>4. PICK it : IsFold(it, n, Nat, 0, op)
  <2>. HIDE DEF op
  <2>. QED
    BY <1>1, <1>3, FoldExists
<1>5. it = Body(it)
  <2>1. it \in [SUBSET (1..n) -> Nat]
    BY <1>4 DEF IsFold
  <2>2. ASSUME NEW S \in SUBSET (1..n)
        PROVE  it[S] = IF S = {} THEN 0
                       ELSE (it[S \ {Max(S)}] * 16 + HexValue(t[Max(S)])) % Word
    <3>1. CASE S = {}
      BY <1>4, <3>1 DEF IsFold
    <3>2. CASE S # {}
      <4>1. Max(S) \in 1..n /\ it[S \ {Max(S)}] \in Nat
        BY <1>1, <2>1, <3>2, MaxIsIn
      <4>2. it[S] = op[<<it[S \ {Max(S)}], Max(S)>>]
        BY <1>4, <3>2 DEF IsFold
      <4>. QED
        BY <3>2, <4>1, <4>2
    <3>. QED
      BY <3>1, <3>2
  <2>. QED
    BY <1>1, <2>1, <2>2
<1>6. PICK f : f = Body(f) /\ Parsed(s) = f[1..n]
  <2>. HIDE DEF Body
  <2>. QED
    BY <1>1, <1>2, <1>5
<1>7. f[1..0] = 0
  <2>1. 1..0 = {}
    OBVIOUS
  <2>. QED
    BY <1>1, <1>6, <2>1
<1>8. ASSUME NEW k \in 1..n
      PROVE  f[1..k] = (f[1..(k - 1)] * 16 + HexValue(t[k])) % Word
  <2>0. k \in Nat \ {0} /\ k <= n /\ n \in Nat
    BY <1>1
  <2>1. 1..k \in SUBSET (1..n) /\ 1..k # {} /\ k \in Nat \ {0}
    <3>1. k \in 1..k /\ \A x \in 1..k : x \in 1..n
      BY <2>0
    <3>. QED
      BY <2>0, <3>1
  <2>2. Max(1..k) = k /\ (1..k) \ {k} = 1..(k - 1)
    BY <2>1, MaxOfUpto
  <2>3. f[1..k] = Body(f)[1..k]
    BY <1>6
  <2>. QED
    BY <1>1, <2>1, <2>2, <2>3
<1>. DEFINE g == [k \in 0..n |-> f[1..k]]
<1>9. /\ g[0] = 0 /\ Parsed(s) = g[n]
      /\ \A k \in 1..n : g[k] = (g[k - 1] * 16 + HexValue(t[k])) % Word
  <2>. HIDE DEF Body
  <2>. QED
    BY <1>1, <1>6, <1>7, <1>8
<1>. QED
  BY <1>1, <1>9 DEF n


(* refresh() reads the counter that flush() wrote. *)
LEMMA ReadBack ==
  ASSUME NEW v \in 0..(Word - 1)
  PROVE  ReadableKey(valToHexCharArray(v)) /\ Parsed(valToHexCharArray(v)) = v
<1>1. PICK s : s = valToHexCharArray(v)
  OBVIOUS
<1>2. /\ s \in Seq(Nat) /\ Len(s) = Width /\ SubSeq(s, 1, Width) = s
      /\ \A i \in 1..Width :
            /\ HexValue(s[i]) = (v \div Power[Width - i]) % 16
            /\ HexValue(s[i]) \in 0..15
            /\ (isDecimal(s[i]) \/ isUpperHex(s[i]))
  <2>. HIDE DEF Word
  <2>1. v \in Nat
    BY WordType
  <2>. QED
    BY <1>1, <2>1, WrittenDigits
<1>3. Width \in Nat \ {0} /\ v \in Nat /\ v < Word
  BY KeyGeneratorAssumption, WordType
<1>4. ReadableKey(s)
  BY <1>2, <1>3 DEF ReadableKey
<1>5. PICK g : /\ g[0] = 0 /\ Parsed(s) = g[Width]
               /\ \A k \in 1..Width : g[k] = (g[k - 1] * 16 + HexValue(s[k])) % Word
  BY <1>2, ParsedFold
<1>. DEFINE T == {k \in Nat : k <= Width => g[k] = v \div Power[Width - k]}
<1>6. 0 \in T
  <2>1. v = Power[Width] * (v \div Power[Width]) + (v % Power[Width])
    BY <1>3, PowerStep, QuotientAndRemainder
  <2>2. /\ v \div Power[Width] \in Nat /\ v % Power[Width] \in Nat
        /\ Power[Width] \in Nat /\ v < Power[Width]
    <3>1. Power[Width] \in Nat \ {0} /\ v < Power[Width]
      BY <1>3, PowerStep DEF Word
    <3>2. v \div Power[Width] \in Nat
      BY <1>3, <3>1, QuotientAndRemainder
    <3>3. v % Power[Width] \in 0..(Power[Width] - 1)
      BY <1>3, <3>1, QuotientAndRemainder
    <3>. QED
      BY <3>1, <3>2, <3>3
  <2>. DEFINE q == v \div Power[Width]
              p == Power[Width]
  <2>3. ASSUME q >= 1 PROVE p * q >= p
    <3>1. q \in Nat /\ p \in Nat /\ q >= 1
      BY <2>2, <2>3
    <3>. HIDE DEF p, q
    <3>. QED
      BY <3>1
  <2>. HIDE DEF p, q
  <2>4. q = 0
    <3>1. p * q \in Nat
      BY <2>2 DEF p, q
    <3>. QED
      BY <2>1, <2>2, <2>3, <3>1 DEF p, q
  <2>. QED
    BY <1>3, <1>5, <2>4 DEF p, q
<1>7. ASSUME NEW k \in T PROVE k + 1 \in T
  <2>. SUFFICES ASSUME k + 1 <= Width
                PROVE  g[k + 1] = v \div Power[Width - (k + 1)]
    OBVIOUS
  <2>. DEFINE p == Power[Width - (k + 1)]
              q == v \div p
  <2>1. /\ k \in Nat /\ k + 1 \in 1..Width /\ (k + 1) - 1 = k
        /\ Width - (k + 1) \in Nat /\ (Width - (k + 1)) + 1 = Width - k
    BY <1>3
  <2>2. p \in Nat \ {0} /\ Power[Width - k] = 16 * p
    BY <2>1, PowerStep
  <2>. HIDE DEF p
  <2>3. q \in Nat /\ v = p * q + (v % p) /\ v % p \in Nat
    <3>1. q \in Nat
      BY <1>3, <2>2, QuotientAndRemainder
    <3>2. v = p * q + (v % p)
      BY <1>3, <2>2, QuotientAndRemainder
    <3>3. v % p \in Nat
      BY <1>3, <2>2, QuotientAndRemainder
    <3>. QED
      BY <3>1, <3>2, <3>3
  <2>4. g[k] = q \div 16
    <3>1. g[k] = v \div (16 * p)
      BY <1>3, <2>2
    <3>. QED
      BY <1>3, <2>2, <3>1, DivideTwice
  <2>5. HexValue(s[k + 1]) = q % 16
    BY <1>2, <2>1 DEF p
  <2>. HIDE DEF q
  <2>6. g[k + 1] = ((q \div 16) * 16 + (q % 16)) % Word
    <3>1. g[k + 1] = (g[k] * 16 + HexValue(s[k + 1])) % Word
      BY <1>5, <2>1
    <3>. QED
      BY <2>4, <2>5, <3>1
  <2>7. (q \div 16) * 16 + (q % 16) = q
    BY <2>3
  <2>8. q <= v
    <3>1. q <= p * q
      BY <2>2, <2>3
    <3>2. p * q \in Nat
      BY <2>2, <2>3
    <3>. QED
      BY <2>3, <3>1, <3>2
  <2>9. q % Word = q
    BY <1>3, <2>3, <2>8, WordType
  <2>. QED
    BY <2>6, <2>7, <2>9 DEF p, q
<1>8. T = Nat
  <2>1. T \in SUBSET Nat
    OBVIOUS
  <2>. HIDE DEF T
  <2>. QED
    BY <1>6, <1>7, <2>1, SetInduction
<1>9. g[Width] = v
  <2>1. g[Width] = v \div Power[Width - Width]
    BY <1>3, <1>8
  <2>2. Power[Width - Width] = 1
    BY <1>3, PowerStep
  <2>. QED
    BY <1>3, <2>1, <2>2
<1>. QED
  BY <1>1, <1>4, <1>5, <1>9


-----------------------------------------------------------------------------
(* KeyGenerator. *)

(* Where the counter can have started. *)
Starts == FirstKeys \union {0}

(* The keys that were returned, and the callers that took one and have not *)
(* returned it yet.                                                        *)
Given == Len(strings) + Len(integers)
Reading == {c \in Callers : pc[c] = "read"}

(* The server has a counter in memory. *)
Serving == phase \notin {"down", "unusable"}

(* The types, that only a server that is up is asked for keys, and the     *)
(* bound on the calls.                                                     *)
KeyShape ==
  /\ current \in Nat /\ durable \subseteq Nat /\ crashes \in Nat
  /\ phase \in {"down", "copied", "starting", "up", "stopping", "ending", "unusable"}
  /\ pc \in [Callers -> {"idle", "read"}]
  /\ strings \in Seq(Nat) /\ integers \in Seq(Nat)
  /\ phase # "up" => Reading = {}
  /\ Asked <= MaxKeys

(* The counter n is past every key that a completed flush covers and,      *)
(* without a crash, past every key that was returned.                      *)
Past(n) ==
  /\ durable \subseteq 1..n
  /\ crashes = 0 => \A i \in DOMAIN strings : strings[i] <= n

(* The counter in memory, of a server that started from v: it is not       *)
(* further from v than there were calls, so it does not wrap.              *)
InMemory(v) == Serving => current <= v + Asked /\ Past(current)

(* The counter in the file.  While the server runs, the file is behind     *)
(* the keys, but never behind durable; an empty file is one whose          *)
(* rewriting was interrupted.                                              *)
Stored(w) == (store = NoFile /\ w = 0) \/ store = valToHexCharArray(w)
OnDisk(v) ==
  store # <<>> => \E w \in Nat : /\ Stored(w) /\ w <= v + Given
                                 /\ durable \subseteq 1..w
                                 /\ phase = "down" => Past(w)

(* Without a crash the keys increase. *)
Increasing ==
  crashes = 0 => \A i, j \in DOMAIN strings : i < j => strings[i] < strings[j]

KeyInv == KeyShape /\ Increasing /\ \E v \in Starts : InMemory(v) /\ OnDisk(v)

(* No start of the counter is so close to 2^64 that it wraps. *)
NoWrap == \A v \in Starts : v + MaxKeys < Word

(* The numbers of calls are naturals. *)
LEMMA CallsTyped ==
  ASSUME KeyShape
  PROVE  /\ Len(strings) \in Nat /\ Len(integers) \in Nat /\ Given \in Nat
         /\ IsFiniteSet(Reading) /\ Cardinality(Reading) \in Nat
         /\ Asked = Given + Cardinality(Reading)
         /\ Reading = {} => Asked = Given
<1>1. Len(strings) \in Nat /\ Len(integers) \in Nat
  BY DEF KeyShape
<1>2. Reading \subseteq Callers /\ IsFiniteSet(Callers)
  BY KeyGeneratorAssumption DEF Reading
<1>3. IsFiniteSet(Reading)
  BY <1>2, FS_Subset
<1>4. Cardinality(Reading) \in Nat /\ (Reading = {} => Cardinality(Reading) = 0)
  BY <1>3, FS_CardinalityType, FS_EmptySet
<1>5. Asked = Given + Cardinality(Reading)
  BY DEF Asked, Given, Reading
<1>. QED
  BY <1>1, <1>3, <1>4, <1>5 DEF Given

(* Starts are naturals, and so is MaxKeys. *)
LEMMA StartsTyped == Starts \subseteq Nat /\ MaxKeys \in Nat
  BY KeyGeneratorAssumption, WordType DEF Starts

(* A step that leaves the calls and their results alone. *)
LEMMA SameCalls ==
  ASSUME KeyShape, UNCHANGED <<pc, strings, integers>>
  PROVE  Given' = Given /\ Asked' = Asked /\ Reading' = Reading
  BY DEF Given, Asked, Reading

(* At the start the file, if there is one, holds a first key. *)
LEMMA KeyInvInit == KeyInit => KeyInv
<1>. SUFFICES ASSUME KeyInit PROVE KeyInv
  OBVIOUS
<1>1. /\ current = 0 /\ phase = "down" /\ strings = <<>> /\ integers = <<>>
      /\ crashes = 0 /\ pc = [c \in Callers |-> "idle"]
      /\ Len(strings) = 0 /\ Len(integers) = 0 /\ DOMAIN strings = {}
  BY DEF KeyInit
<1>2. Reading = {}
  BY <1>1 DEF Reading
<1>3. Asked = 0 /\ Given = 0
  BY <1>1, <1>2, FS_EmptySet DEF Asked, Given, Reading
<1>4. PICK v \in Starts : /\ Stored(v) /\ durable \subseteq 1..v
  BY KeyGeneratorAssumption DEF KeyInit, Starts, Stored
<1>5. v \in Nat
  BY StartsTyped
<1>6. KeyShape
  <2>1. durable \subseteq Nat
    BY <1>4, <1>5
  <2>. QED
    BY <1>1, <1>2, <1>3, <2>1, StartsTyped DEF KeyShape
<1>7. InMemory(v) /\ OnDisk(v) /\ Increasing
  BY <1>1, <1>3, <1>4, <1>5 DEF InMemory, Serving, OnDisk, Past, Increasing
<1>. QED
  BY <1>6, <1>7 DEF KeyInv

(* The counter in a readable file is the one refresh() reads. *)
LEMMA RefreshReads ==
  ASSUME KeyShape, NoWrap, NEW v \in Starts, OnDisk(v), Reading = {},
         ReadableKey(store)
  PROVE  \E w \in Nat : /\ Stored(w) /\ w <= v + Given /\ durable \subseteq 1..w
                        /\ phase = "down" => Past(w)
                        /\ w = IF store = NoFile THEN 0 ELSE Parsed(store)
<1>1. store # <<>>
  <2>1. <<>> \in Seq(Nat)
    OBVIOUS
  <2>2. NoFile # <<>>
    BY <2>1, KeyGeneratorAssumption
  <2>. QED
    BY <2>2, KeyGeneratorAssumption DEF ReadableKey
<1>2. PICK w \in Nat : /\ Stored(w) /\ w <= v + Given /\ durable \subseteq 1..w
                       /\ phase = "down" => Past(w)
  BY <1>1 DEF OnDisk
<1>3. w \in 0..(Word - 1)
  <2>1. v + Given <= v + MaxKeys
    BY StartsTyped, CallsTyped DEF KeyShape
  <2>. QED
    BY <1>2, <2>1, StartsTyped, WordType, CallsTyped DEF NoWrap
<1>4. NoFile # valToHexCharArray(w)
  BY WrittenDigits, KeyGeneratorAssumption
<1>5. w = IF store = NoFile THEN 0 ELSE Parsed(store)
  BY <1>2, <1>3, <1>4, ReadBack DEF Stored
<1>. QED
  BY <1>2, <1>5


(* Starting, flushing and stopping: no call is in progress and none        *)
(* returns.                                                                *)
LEMMA ServerSteps ==
  ASSUME KeyInv, NoWrap,
         Construct \/ ConstructThrows \/ FlushOpens \/ FlushWrites \/ Destroy
  PROVE  KeyInv'
<1>1. PICK v \in Starts : InMemory(v) /\ OnDisk(v)
  BY DEF KeyInv
<1>2. KeyShape /\ Increasing
  BY DEF KeyInv
<1>3. /\ UNCHANGED <<pc, strings, integers, crashes>>
      /\ Given' = Given /\ Asked' = Asked /\ Reading' = Reading
  BY <1>2, SameCalls DEF Construct, ConstructThrows, FlushOpens, FlushWrites, Destroy,
     issued
<1>4. Reading = {} /\ Asked = Given
  BY <1>2, CallsTyped
     DEF KeyShape, Reading, Construct, ConstructThrows, FlushOpens, FlushWrites, Destroy
<1>5. v \in Nat /\ Given \in Nat /\ current \in Nat /\ durable \subseteq Nat
  BY <1>2, StartsTyped, CallsTyped DEF KeyShape
<1>6. Increasing'
  BY <1>2, <1>3 DEF Increasing
<1>7. ASSUME current' \in Nat, durable' \subseteq Nat,
             phase' \in {"down", "copied", "starting", "up", "stopping", "ending",
                         "unusable"},
             InMemory(v)', OnDisk(v)'
      PROVE  KeyInv'
  <2>1. KeyShape'
    BY <1>2, <1>3, <1>4, <1>7 DEF KeyShape
  <2>. QED
    BY <1>6, <1>7, <2>1 DEF KeyInv, Starts
<1>8. CASE Construct
  <2>1. PICK w \in Nat :
           /\ Stored(w) /\ w <= v + Given /\ durable \subseteq 1..w
           /\ phase = "down" => Past(w)
           /\ w = IF store = NoFile THEN 0 ELSE Parsed(store)
    BY <1>1, <1>2, <1>4, <1>8, RefreshReads DEF Construct
  <2>2. /\ current' = w /\ phase = "down" /\ phase' = "copied"
        /\ UNCHANGED <<store, durable>>
    BY <1>8, <2>1 DEF Construct
  <2>3. InMemory(v)'
    BY <1>3, <1>4, <2>1, <2>2 DEF InMemory, Past
  <2>4. OnDisk(v)'
    BY <1>3, <2>1, <2>2 DEF OnDisk, Stored
  <2>. QED
    BY <1>5, <1>7, <2>2, <2>3, <2>4
<1>9. CASE ConstructThrows
  <2>1. /\ phase = "down" /\ phase' = "unusable"
        /\ UNCHANGED <<store, current, durable>>
    BY <1>9 DEF ConstructThrows
  <2>2. InMemory(v)'
    BY <2>1 DEF InMemory, Serving
  <2>3. OnDisk(v)'
    BY <1>1, <1>3, <2>1 DEF OnDisk, Stored
  <2>. QED
    BY <1>5, <1>7, <2>1, <2>2, <2>3
<1>10. CASE FlushOpens
  <2>1. /\ phase \in {"copied", "stopping"} /\ phase' \in {"starting", "ending"}
        /\ store' = <<>> /\ UNCHANGED <<current, durable>>
    BY <1>10 DEF FlushOpens
  <2>2. InMemory(v)'
    BY <1>1, <1>3, <2>1 DEF InMemory, Serving, Past
  <2>3. OnDisk(v)'
    BY <2>1 DEF OnDisk
  <2>. QED
    BY <1>5, <1>7, <2>1, <2>2, <2>3
<1>11. CASE FlushWrites
  <2>1. /\ phase \in {"starting", "ending"} /\ phase' \in {"copied", "up", "down"}
        /\ store' = valToHexCharArray(current) /\ UNCHANGED current
        /\ durable' = durable \union 1..current
    BY <1>11 DEF FlushWrites
  <2>2. current <= v + Given /\ Past(current)
    BY <1>1, <1>4, <2>1 DEF InMemory, Serving
  <2>3. durable' \subseteq 1..current /\ durable' \subseteq Nat
    BY <1>5, <2>1, <2>2 DEF Past
  <2>4. Past(current)'
    BY <1>3, <2>1, <2>2, <2>3 DEF Past
  <2>5. InMemory(v)'
    BY <1>3, <1>4, <2>1, <2>2, <2>4 DEF InMemory
  <2>6. OnDisk(v)'
    BY <1>3, <1>5, <2>1, <2>2, <2>3, <2>4 DEF OnDisk, Stored
  <2>. QED
    BY <1>5, <1>7, <2>1, <2>3, <2>5, <2>6
<1>12. CASE Destroy
  <2>1. /\ phase = "up" /\ phase' = "stopping"
        /\ UNCHANGED <<store, current, durable>>
    BY <1>12 DEF Destroy
  <2>2. InMemory(v)'
    BY <1>1, <1>3, <2>1 DEF InMemory, Serving, Past
  <2>3. OnDisk(v)'
    BY <1>1, <1>3, <2>1 DEF OnDisk, Stored
  <2>. QED
    BY <1>5, <1>7, <2>1, <2>2, <2>3
<1>. QED
  BY <1>8, <1>9, <1>10, <1>11, <1>12

(* A kill loses the counter in memory: the file is behind the keys then,   *)
(* and not behind durable.                                                 *)
LEMMA CrashStep ==
  ASSUME KeyInv, Crash
  PROVE  KeyInv'
<1>1. PICK v \in Starts : InMemory(v) /\ OnDisk(v)
  BY DEF KeyInv
<1>2. KeyShape
  BY DEF KeyInv
<1>3. /\ phase' = "down" /\ pc' = [c \in Callers |-> "idle"] /\ current' = 0
      /\ crashes' = crashes + 1 /\ UNCHANGED <<store, strings, integers, durable>>
  BY DEF Crash, issued
<1>4. crashes' \in Nat /\ crashes' # 0
  BY <1>2, <1>3 DEF KeyShape
<1>5. Reading' = {} /\ Given' = Given
  BY <1>3 DEF Reading, Given
<1>6. Asked' = Given /\ Given <= Asked
  <2>1. Cardinality({}) = 0
    BY FS_EmptySet
  <2>2. Asked' = Given' + Cardinality(Reading')
    BY DEF Asked, Given, Reading
  <2>. QED
    BY <1>2, <1>5, <2>1, <2>2, CallsTyped
<1>7. KeyShape'
  BY <1>2, <1>3, <1>4, <1>5, <1>6, CallsTyped, StartsTyped DEF KeyShape
<1>8. Increasing'
  BY <1>4 DEF Increasing
<1>9. InMemory(v)'
  BY <1>3 DEF InMemory, Serving
<1>10. OnDisk(v)'
  BY <1>1, <1>3, <1>4, <1>5 DEF OnDisk, Stored, Past
<1>. QED
  BY <1>7, <1>8, <1>9, <1>10 DEF KeyInv, Starts


(* A call that takes a key: the counter does not wrap, and the key it      *)
(* takes is past every key that was returned or is durable.                *)
LEMMA TakesNext ==
  ASSUME KeyInv, NoWrap, NEW v \in Starts, InMemory(v), phase = "up",
         Asked < MaxKeys
  PROVE  /\ current \in Nat /\ (current + 1) % Word = current + 1
         /\ current <= v + Asked /\ Past(current)
<1>1. KeyShape
  BY DEF KeyInv
<1>2. current \in Nat /\ v \in Nat /\ Asked \in Nat /\ MaxKeys \in Nat
  BY <1>1, CallsTyped, StartsTyped DEF KeyShape
<1>3. current <= v + Asked /\ Past(current)
  BY DEF InMemory, Serving
<1>4. v + MaxKeys < Word
  BY DEF NoWrap
<1>5. current + 1 \in 0..(Word - 1) /\ Word \in Nat \ {0}
  BY <1>2, <1>3, <1>4, WordType
<1>. QED
  BY <1>2, <1>3, <1>5

(* next(): the key is the largest that was returned. *)
LEMMA NextStep ==
  ASSUME KeyInv, NoWrap, NEW c \in Callers, next(c)
  PROVE  KeyInv'
<1>1. PICK v \in Starts : InMemory(v) /\ OnDisk(v)
  BY DEF KeyInv
<1>2. KeyShape /\ Increasing
  BY DEF KeyInv
<1>3. /\ phase = "up" /\ Asked < MaxKeys /\ current' = (current + 1) % Word
      /\ strings' = Append(strings, current')
      /\ UNCHANGED <<store, phase, pc, integers, durable, crashes>>
  BY DEF next
<1>4. /\ current \in Nat /\ current' = current + 1
      /\ current <= v + Asked /\ Past(current)
  BY <1>1, <1>3, TakesNext
<1>5. strings \in Seq(Nat) /\ strings' \in Seq(Nat)
  BY <1>2, <1>3, <1>4 DEF KeyShape
<1>6. /\ Len(strings') = Len(strings) + 1 /\ DOMAIN strings = 1..Len(strings)
      /\ DOMAIN strings' = 1..(Len(strings) + 1)
      /\ \A i \in 1..Len(strings) : strings'[i] = strings[i]
      /\ strings'[Len(strings) + 1] = current + 1
  BY <1>3, <1>4, <1>5
<1>7. /\ Len(strings) \in Nat /\ Given \in Nat /\ Asked \in Nat
      /\ v \in Nat /\ MaxKeys \in Nat
  BY <1>2, CallsTyped, StartsTyped
<1>8. Given' = Given + 1 /\ Asked' = Asked + 1 /\ Reading' = Reading
  <2>1. Len(integers) \in Nat /\ Cardinality(Reading) \in Nat
    BY <1>2, CallsTyped
  <2>2. Given' = Given + 1 /\ Reading' = Reading
    BY <1>3, <1>6, <1>7, <2>1 DEF Given, Reading
  <2>3. /\ Asked = Given + Cardinality(Reading)
        /\ Asked' = Given' + Cardinality(Reading')
    BY DEF Asked, Given, Reading
  <2>. QED
    BY <1>7, <2>1, <2>2, <2>3
<1>9. KeyShape'
  BY <1>2, <1>3, <1>4, <1>5, <1>7, <1>8 DEF KeyShape
<1>10. crashes = 0 => \A i \in 1..Len(strings) : strings[i] <= current
  BY <1>4, <1>6 DEF Past
<1>11. \A i \in 1..Len(strings) : strings[i] \in Nat
  BY <1>5
<1>12. Increasing'
  <2>. SUFFICES ASSUME crashes = 0, NEW i \in 1..(Len(strings) + 1),
                       NEW j \in 1..(Len(strings) + 1), i < j
                PROVE  strings'[i] < strings'[j]
    BY <1>3, <1>6 DEF Increasing
  <2>1. i \in 1..Len(strings)
    BY <1>7
  <2>2. CASE j \in 1..Len(strings)
    BY <1>2, <1>6, <2>1, <2>2 DEF Increasing
  <2>3. CASE j = Len(strings) + 1
    BY <1>4, <1>6, <1>10, <1>11, <2>1, <2>3
  <2>. QED
    BY <1>7, <2>2, <2>3
<1>13. InMemory(v)'
  <2>1. current' <= v + Asked'
    BY <1>4, <1>7, <1>8
  <2>2. durable' \subseteq 1..current'
    BY <1>3, <1>4 DEF Past
  <2>3. crashes' = 0 => \A i \in DOMAIN strings' : strings'[i] <= current'
    BY <1>3, <1>4, <1>6, <1>10, <1>11
  <2>. QED
    BY <2>1, <2>2, <2>3 DEF InMemory, Past
<1>14. OnDisk(v)'
  <2>. SUFFICES ASSUME store' # <<>>
                PROVE  \E w \in Nat : /\ Stored(w)' /\ w <= v + Given'
                                      /\ durable' \subseteq 1..w
                                      /\ phase' = "down" => Past(w)'
    BY DEF OnDisk
  <2>1. PICK w \in Nat : Stored(w) /\ w <= v + Given /\ durable \subseteq 1..w
    BY <1>1, <1>3 DEF OnDisk
  <2>. QED
    BY <1>3, <1>7, <1>8, <2>1 DEF Stored
<1>. QED
  BY <1>9, <1>12, <1>13, <1>14 DEF KeyInv, Starts

(* nextAsInteger() up to the unlock counts as a call. *)
LEMMA NextAsIntegerStep ==
  ASSUME KeyInv, NoWrap, NEW c \in Callers, nextAsInteger(c)
  PROVE  KeyInv'
<1>1. PICK v \in Starts : InMemory(v) /\ OnDisk(v)
  BY DEF KeyInv
<1>2. KeyShape /\ Increasing
  BY DEF KeyInv
<1>3. /\ phase = "up" /\ Asked < MaxKeys /\ current' = (current + 1) % Word
      /\ pc[c] = "idle" /\ pc' = [pc EXCEPT ![c] = "read"]
      /\ UNCHANGED <<store, phase, strings, integers, durable, crashes>>
  BY DEF nextAsInteger, issued
<1>4. /\ current \in Nat /\ current' = current + 1
      /\ current <= v + Asked /\ Past(current)
  BY <1>1, <1>3, TakesNext
<1>5. /\ Given \in Nat /\ Asked \in Nat /\ v \in Nat /\ MaxKeys \in Nat
      /\ strings \in Seq(Nat)
  BY <1>2, CallsTyped, StartsTyped DEF KeyShape
<1>6. Given' = Given /\ Reading' = Reading \union {c} /\ c \notin Reading
  BY <1>2, <1>3 DEF Given, Reading, KeyShape
<1>7. Asked' = Asked + 1
  <2>1. IsFiniteSet(Reading) /\ Cardinality(Reading) \in Nat
    BY <1>2, CallsTyped
  <2>2. Cardinality(Reading') = Cardinality(Reading) + 1
    BY <1>6, <2>1, FS_AddElement
  <2>3. /\ Asked = Given + Cardinality(Reading)
        /\ Asked' = Given' + Cardinality(Reading')
    BY DEF Asked, Given, Reading
  <2>. QED
    BY <1>5, <1>6, <2>1, <2>2, <2>3
<1>8. KeyShape'
  BY <1>2, <1>3, <1>4, <1>5, <1>7 DEF KeyShape
<1>9. Increasing'
  BY <1>2, <1>3 DEF Increasing
<1>10. InMemory(v)'
  <2>1. current' <= v + Asked'
    BY <1>4, <1>5, <1>7
  <2>2. durable' \subseteq 1..current'
    BY <1>3, <1>4 DEF Past
  <2>3. \A i \in DOMAIN strings : strings[i] \in Nat
    BY <1>5
  <2>4. crashes' = 0 => \A i \in DOMAIN strings' : strings'[i] <= current'
    BY <1>3, <1>4, <2>3 DEF Past
  <2>. QED
    BY <2>1, <2>2, <2>4 DEF InMemory, Past
<1>11. OnDisk(v)'
  BY <1>1, <1>3, <1>6 DEF OnDisk, Stored
<1>. QED
  BY <1>8, <1>9, <1>10, <1>11 DEF KeyInv, Starts

(* nextAsInteger() returns: the calls are as many as before. *)
LEMMA ReturnStep ==
  ASSUME KeyInv, NEW c \in Callers, ReturnCurrent(c)
  PROVE  KeyInv'
<1>1. PICK v \in Starts : InMemory(v) /\ OnDisk(v)
  BY DEF KeyInv
<1>2. KeyShape /\ Increasing
  BY DEF KeyInv
<1>3. /\ phase = "up" /\ pc[c] = "read" /\ pc' = [pc EXCEPT ![c] = "idle"]
      /\ integers' = Append(integers, current)
      /\ UNCHANGED <<store, current, phase, strings, durable, crashes>>
  BY DEF ReturnCurrent
<1>4. /\ Given \in Nat /\ Asked \in Nat /\ v \in Nat
      /\ Len(strings) \in Nat /\ Len(integers) \in Nat /\ current \in Nat
  BY <1>2, CallsTyped, StartsTyped DEF KeyShape
<1>5. integers' \in Seq(Nat) /\ Len(integers') = Len(integers) + 1
  BY <1>2, <1>3, <1>4 DEF KeyShape
<1>6. Given' = Given + 1
  BY <1>3, <1>4, <1>5 DEF Given
<1>7. Reading' = Reading \ {c} /\ c \in Reading
  BY <1>2, <1>3 DEF Reading, KeyShape
<1>8. Asked' = Asked
  <2>1. IsFiniteSet(Reading) /\ Cardinality(Reading) \in Nat
    BY <1>2, CallsTyped
  <2>2. Cardinality(Reading') = Cardinality(Reading) - 1
    BY <1>7, <2>1, FS_RemoveElement
  <2>3. /\ Asked = Given + Cardinality(Reading)
        /\ Asked' = Given' + Cardinality(Reading')
    BY DEF Asked, Given, Reading
  <2>. QED
    BY <1>4, <1>6, <2>1, <2>2, <2>3
<1>9. KeyShape'
  BY <1>2, <1>3, <1>5, <1>8 DEF KeyShape
<1>10. Increasing' /\ InMemory(v)'
  BY <1>1, <1>2, <1>3, <1>8 DEF Increasing, InMemory, Serving, Past
<1>11. OnDisk(v)'
  <2>. SUFFICES ASSUME store' # <<>>
                PROVE  \E w \in Nat : /\ Stored(w)' /\ w <= v + Given'
                                      /\ durable' \subseteq 1..w
                                      /\ phase' = "down" => Past(w)'
    BY DEF OnDisk
  <2>1. PICK w \in Nat : Stored(w) /\ w <= v + Given /\ durable \subseteq 1..w
    BY <1>1, <1>3 DEF OnDisk
  <2>. QED
    BY <1>3, <1>4, <1>6, <2>1 DEF Stored
<1>. QED
  BY <1>9, <1>10, <1>11 DEF KeyInv, Starts


(* Every step keeps the invariant.                                         *)
LEMMA KeyInvStep == ASSUME KeyInv, NoWrap, [KeyNext]_key_vars PROVE KeyInv'
<1>1. CASE Construct \/ ConstructThrows \/ FlushOpens \/ FlushWrites \/ Destroy
  BY <1>1, ServerSteps
<1>2. CASE Crash
  BY <1>2, CrashStep
<1>3. ASSUME NEW c \in Callers, next(c) \/ nextAsInteger(c) \/ ReturnCurrent(c)
      PROVE  KeyInv'
  BY <1>3, NextStep, NextAsIntegerStep, ReturnStep
<1>4. CASE UNCHANGED key_vars
  BY <1>4 DEF key_vars, KeyInv, KeyShape, Increasing, InMemory, OnDisk, Serving, Past,
     Stored, Starts, Given, Asked, Reading
<1>. QED
  BY <1>1, <1>2, <1>3, <1>4 DEF KeyNext

(* Without a crash next() never returns a key twice: not to two threads,   *)
(* not next to a nextAsInteger() and not after a restart, for any number   *)
(* of threads and calls, as long as the counter does not wrap.             *)
THEOREM KeysNeverRepeat == ASSUME NoWrap PROVE KeySpec => []StringKeysUnique
<1>1. KeyInit => KeyInv
  BY KeyInvInit
<1>2. KeyInv /\ [KeyNext]_key_vars => KeyInv'
  BY KeyInvStep
<1>3. KeyInv => StringKeysUnique
  <2>. SUFFICES ASSUME KeyInv, crashes = 0, NEW i \in DOMAIN strings,
                       NEW j \in DOMAIN strings, strings[i] = strings[j]
                PROVE  i = j
    BY DEF StringKeysUnique, Distinct
  <2>1. Increasing /\ strings \in Seq(Nat)
    BY DEF KeyInv, KeyShape
  <2>2. i \in Nat /\ j \in Nat /\ strings[i] \in Nat /\ strings[j] \in Nat
    BY <2>1
  <2>3. ~(i < j) /\ ~(j < i)
    BY <2>1, <2>2 DEF Increasing
  <2>. QED
    BY <2>2, <2>3
<1>. QED
  BY <1>1, <1>2, <1>3, PTL DEF KeySpec

(* A key that a completed flush() covers is not returned again, whatever   *)
(* crashes: what is durable is below the counter, in memory and in the     *)
(* file.                                                                   *)
THEOREM FlushedKeysStay == ASSUME NoWrap PROVE KeySpec => FlushedKeysNotReissued
<1>1. KeyInit => KeyInv
  BY KeyInvInit
<1>2. KeyInv /\ [KeyNext]_key_vars => KeyInv'
  BY KeyInvStep
<1>3. ASSUME KeyInv, [KeyNext]_key_vars
      PROVE  [\A i \in DOMAIN strings' \ DOMAIN strings :
                 strings'[i] \notin durable]_key_vars
  <2>. SUFFICES ASSUME NEW i \in DOMAIN strings' \ DOMAIN strings
                PROVE  strings'[i] \notin durable
    OBVIOUS
  <2>1. CASE \E c \in Callers : next(c)
    <3>1. PICK v \in Starts : InMemory(v)
      BY <1>3 DEF KeyInv
    <3>2. phase = "up" /\ Asked < MaxKeys /\ current' = (current + 1) % Word
          /\ strings' = Append(strings, current')
      BY <2>1 DEF next
    <3>3. current \in Nat /\ current' = current + 1 /\ Past(current)
      BY <1>3, <3>1, <3>2, TakesNext
    <3>4. strings \in Seq(Nat)
      BY <1>3 DEF KeyInv, KeyShape
    <3>5. strings'[i] = current + 1
      BY <3>2, <3>3, <3>4
    <3>. QED
      BY <3>3, <3>5 DEF Past
  <2>2. CASE ~ \E c \in Callers : next(c)
    <3>1. strings' = strings
      BY <1>3, <2>2 DEF KeyNext, key_vars, issued, Construct, ConstructThrows,
         FlushOpens, FlushWrites, Destroy, Crash, nextAsInteger, ReturnCurrent
    <3>. QED
      BY <3>1
  <2>. QED
    BY <2>1, <2>2
<1>. QED
  BY <1>1, <1>2, <1>3, PTL DEF KeySpec, FlushedKeysNotReissued

-----------------------------------------------------------------------------
(* The inductive invariant. *)

Allocated == {c \in Controls : control[c].used}
Leaves(t) == destroying[t].slot # None

(* The slots that the counter k still counts: a pointer whose destructor   *)
(* has written the count is in its slot until the test.                    *)
Counted(k) ==
    {s \in Slots : /\ slot[s] # None /\ CounterOf(s) = k
                   /\ \A t \in PtrThreads : ~(destroying[t].at = "test" /\ destroying[t].slot = s)}

PtrShape ==
    /\ slot \in [Slots -> 0..MaxControls]
    /\ control \in [Controls -> [live : BOOLEAN, used : BOOLEAN,
                                 ptr : 0..MaxObjects, count : 0..MaxControls]]
    /\ instances \in [Controls -> Nat]
    /\ object \in [PtrObjects -> {"unused", "live", "deleted"}]
    /\ weak \in 0..MaxControls
    /\ destroying \in [PtrThreads -> [at : {"out", "write", "test"},
                                      slot : Slots \union {None}, read : Nat]]

(* Counters and objects belong together, whoever shares them; without an   *)
(* assignment a counter also has one object.                               *)
Families ==
    /\ \A c \in Allocated : control[c].count \in Allocated
    /\ \A c, d \in Allocated :
          control[c].ptr = control[d].ptr /\ control[c].ptr # None =>
             control[c].count = control[d].count
    /\ misuse = {} => \A c, d \in Allocated :
          control[c].count = control[d].count => control[c].ptr = control[d].ptr
    /\ \A c \in Allocated : control[c].ptr # None =>
          /\ object[control[c].ptr] # "unused"
          /\ object[control[c].ptr] = "deleted" => instances[control[c].count] = 0

(* What a slot holds exists. *)
SlotsLive ==
    /\ \A s \in Slots : slot[s] # None =>
          /\ slot[s] \in Allocated /\ control[slot[s]].live
          /\ control[slot[s]].ptr # None => object[control[slot[s]].ptr] = "live"
    /\ weak # None => weak \in Allocated

(* One destructor works on a counter, with the count it has read. *)
Destructors ==
    \A t \in PtrThreads :
       /\ Leaves(t) <=> destroying[t].at # "out"
       /\ Leaves(t) => slot[destroying[t].slot] # None
       /\ destroying[t].at = "write" =>
             destroying[t].read = instances[CounterOf(destroying[t].slot)]
       /\ \A u \in PtrThreads \ {t} : Leaves(t) /\ Leaves(u) =>
             CounterOf(destroying[t].slot) # CounterOf(destroying[u].slot)

(* No pointer is left out of its count, and without an assignment nothing  *)
(* else is in it.                                                          *)
Counts ==
    \A k \in Controls :
       /\ instances[k] >= Cardinality(Counted(k))
       /\ misuse = {} => instances[k] = Cardinality(Counted(k))

Owned ==
    misuse = {} => \A o \in PtrObjects : object[o] = "live" =>
       \E s \in Slots : slot[s] # None /\ control[slot[s]].ptr = o

Sound ==
    /\ ~ptr_fault /\ PtrShape /\ Families /\ SlotsLive /\ Destructors /\ Counts
    /\ Owned

PtrInv == misuse \subseteq {"assign"} => Sound

-----------------------------------------------------------------------------
(* Counting. *)

(* The counted slots are finitely many, and one of them makes a count.     *)
LEMMA CountedFinite ==
    ASSUME NEW k
    PROVE  /\ IsFiniteSet(Counted(k)) /\ Cardinality(Counted(k)) \in Nat
           /\ \A s \in Counted(k) : Cardinality(Counted(k)) >= 1
<1>1. Counted(k) \subseteq Slots
  BY DEF Counted
<1>2. IsFiniteSet(Counted(k)) /\ Cardinality(Counted(k)) \in Nat
  BY <1>1, PtrAssumption, FS_Subset, FS_CardinalityType
<1>3. Cardinality(Counted(k)) = 0 => Counted(k) = {}
  BY <1>2, FS_EmptySet
<1>. QED
  BY <1>2, <1>3

(* A set with an element more or less.                                     *)
LEMMA OneMore ==
    ASSUME NEW S, IsFiniteSet(S), NEW x
    PROVE  /\ Cardinality(S) \in Nat
           /\ Cardinality(S \union {x}) = IF x \in S THEN Cardinality(S) ELSE Cardinality(S) + 1
           /\ Cardinality(S \ {x}) = IF x \in S THEN Cardinality(S) - 1 ELSE Cardinality(S)
  BY FS_CardinalityType, FS_AddElement, FS_RemoveElement

-----------------------------------------------------------------------------
(* Slots that are being left. *)

(* What is true of a slot that is being left.                              *)
LEMMA LeftSlot ==
    ASSUME Sound, NEW t \in PtrThreads, Leaves(t)
    PROVE  LET s == destroying[t].slot
           IN  /\ s \in Slots /\ slot[s] # None /\ slot[s] \in Allocated /\ Leaving(s)
               /\ CounterOf(s) \in Controls
<1>1. destroying[t].slot \in Slots
  BY DEF Sound, PtrShape, Leaves
<1>. QED
  BY <1>1 DEF Sound, Destructors, SlotsLive, CounterOf, Families, Allocated, Leaving

(* Destructors go on when nobody touches the slots they work on.           *)
LEMMA DestructorsGoOn ==
    ASSUME Destructors, destroying' = destroying,
           \A t \in PtrThreads : Leaves(t) =>
              LET s == destroying[t].slot
              IN  /\ slot'[s] = slot[s] /\ control'[slot[s]].count = control[slot[s]].count
                  /\ instances'[CounterOf(s)] = instances[CounterOf(s)]
    PROVE  Destructors'
<1>1. \A t \in PtrThreads : Leaves(t)' <=> Leaves(t)
  BY DEF Leaves
<1>2. \A t \in PtrThreads : Leaves(t) =>
         CounterOf(destroying[t].slot)' = CounterOf(destroying[t].slot)
  BY DEF CounterOf
<1>3. ASSUME NEW t \in PtrThreads
      PROVE  /\ Leaves(t)' <=> destroying'[t].at # "out"
             /\ Leaves(t)' => slot'[destroying'[t].slot] # None
             /\ destroying'[t].at = "write" =>
                   destroying'[t].read = instances'[CounterOf(destroying[t].slot)']
             /\ \A u \in PtrThreads \ {t} : Leaves(t)' /\ Leaves(u)' =>
                   CounterOf(destroying[t].slot)' # CounterOf(destroying[u].slot)'
  BY <1>1, <1>2 DEF Destructors
<1>. QED
  BY <1>3 DEF Destructors

-----------------------------------------------------------------------------
(* Pointers come to share a counter. *)

(* A slot gets a control block d or a copy of it in a new one, and the     *)
(* counter one more: copies, casts and the lock of a weak pointer.         *)
LEMMA Shares ==
    ASSUME Sound, NEW s \in Slots, ~Leaving(s), NEW c \in Controls, NEW d \in Allocated,
           NEW k \in Controls, control[d].count = k, control[d].live, instances[k] >= 1,
           c = d \/ c \notin Allocated,
           \A t \in PtrThreads : Leaves(t) => CounterOf(destroying[t].slot) # k,
           control[d].ptr # None => object[control[d].ptr] = "live",
           slot' = [slot EXCEPT ![s] = c],
           control' = [control EXCEPT ![c] = control[d]],
           instances' = [instances EXCEPT ![k] = @ + 1],
           UNCHANGED <<object, weak, destroying, ptr_fault>>,
           misuse \subseteq misuse', slot[s] = None \/ misuse' # {}
    PROVE  Sound'
<1>1. /\ PtrShape /\ Families /\ SlotsLive /\ Destructors /\ Counts /\ Owned /\ ~ptr_fault
  BY DEF Sound
<1>2. /\ \A y \in Slots : slot'[y] = IF y = s THEN c ELSE slot[y]
      /\ \A y \in Controls : control'[y] = IF y = c THEN control[d] ELSE control[y]
      /\ \A y \in Controls : instances'[y] = IF y = k THEN instances[y] + 1 ELSE instances[y]
      /\ object' = object /\ weak' = weak /\ destroying' = destroying /\ ptr_fault' = ptr_fault
  BY <1>1 DEF PtrShape
<1>3. /\ c # None /\ d \in Controls /\ None \notin Slots /\ None \notin Controls
      /\ \A t \in PtrThreads : destroying[t].slot # s
  BY PtrAssumption DEF Controls, None, Allocated, Leaving
<1>4. /\ \A y \in Allocated : y \in Allocated' /\ control'[y] = control[y]
      /\ \A y \in Allocated' : \E z \in Allocated : control'[y] = control[z]
      /\ c \in Allocated' /\ control'[c] = control[d]
  BY <1>2, <1>3 DEF Allocated
<1>5. PtrShape'
  <2>1. slot' \in [Slots -> 0..MaxControls]
    BY <1>1 DEF PtrShape, Controls
  <2>2. control[d] \in [live : BOOLEAN, used : BOOLEAN, ptr : 0..MaxObjects, count : 0..MaxControls]
    BY <1>1, <1>3 DEF PtrShape
  <2>3. control' \in [Controls -> [live : BOOLEAN, used : BOOLEAN,
                                  ptr : 0..MaxObjects, count : 0..MaxControls]]
    BY <1>1, <2>2 DEF PtrShape
  <2>4. instances' \in [Controls -> Nat]
    BY <1>1 DEF PtrShape
  <2>. QED
    BY <1>1, <1>2, <2>1, <2>3, <2>4 DEF PtrShape
<1>6. Families'
  <2>1. misuse' = {} => misuse = {}
    OBVIOUS
  <2>2. \A y \in Allocated : control[y].count \in Controls
    BY <1>1 DEF Families, Allocated
  <2>3. \A y \in Allocated : control[y].ptr # None =>
           /\ object[control[y].ptr] # "unused"
           /\ object[control[y].ptr] = "deleted" => instances'[control[y].count] = 0
    BY <1>1, <1>2, <2>2 DEF Families
  <2>4. \A x \in Allocated' : control'[x].count \in Allocated'
    BY <1>1, <1>4 DEF Families
  <2>5. \A x, y \in Allocated' :
           /\ control'[x].ptr = control'[y].ptr /\ control'[x].ptr # None =>
                 control'[x].count = control'[y].count
           /\ misuse' = {} =>
                 (control'[x].count = control'[y].count =>
                     control'[x].ptr = control'[y].ptr)
    <3>. TAKE x \in Allocated', y \in Allocated'
    <3>1. PICK v \in Allocated, w \in Allocated :
             control'[x] = control[v] /\ control'[y] = control[w]
      BY <1>4
    <3>. QED
      BY <1>1, <2>1, <3>1 DEF Families
  <2>6. \A x \in Allocated' : control'[x].ptr # None =>
           /\ object'[control'[x].ptr] # "unused"
           /\ object'[control'[x].ptr] = "deleted" => instances'[control'[x].count] = 0
    BY <1>2, <1>4, <2>3
  <2>. QED
    BY <2>4, <2>5, <2>6 DEF Families
<1>7. SlotsLive'
  BY <1>1, <1>2, <1>4 DEF SlotsLive
<1>8. Destructors'
  <2>1. \A t \in PtrThreads : Leaves(t) =>
           /\ destroying[t].slot \in Slots /\ slot[destroying[t].slot] \in Allocated
           /\ CounterOf(destroying[t].slot) \in Controls
    BY LeftSlot
  <2>. QED
    BY <1>1, <1>2, <1>3, <1>4, <2>1, DestructorsGoOn
<1>9. Counts'
  <2>1. \A y \in Slots \ {s} : slot[y] # None => CounterOf(y)' = CounterOf(y)
    BY <1>1, <1>2, <1>4 DEF CounterOf, SlotsLive
  <2>2. CounterOf(s)' = k
    BY <1>2, <1>4 DEF CounterOf
  <2>3. Counted(k)' = Counted(k) \union {s}
    BY <1>2, <1>3, <2>1, <2>2 DEF Counted
  <2>4. \A j \in Controls : j # k => Counted(j)' = Counted(j) \ {s}
    BY <1>2, <1>3, <2>1, <2>2 DEF Counted
  <2>5. misuse' = {} => misuse = {} /\ \A j \in Controls : s \notin Counted(j)
    BY DEF Counted
  <2>6. ASSUME NEW j \in Controls
        PROVE  /\ instances'[j] >= Cardinality(Counted(j)')
               /\ misuse' = {} => instances'[j] = Cardinality(Counted(j)')
    <3>1. /\ Cardinality(Counted(j)) \in Nat /\ IsFiniteSet(Counted(j)) /\ instances[j] \in Nat
          /\ instances[j] >= Cardinality(Counted(j))
          /\ misuse = {} => instances[j] = Cardinality(Counted(j))
      BY <1>1, CountedFinite DEF Counts, PtrShape
    <3>2. /\ Cardinality(Counted(j) \union {s}) = IF s \in Counted(j) THEN Cardinality(Counted(j))
                                                    ELSE Cardinality(Counted(j)) + 1
          /\ Cardinality(Counted(j) \ {s}) = IF s \in Counted(j) THEN Cardinality(Counted(j)) - 1
                                              ELSE Cardinality(Counted(j))
      BY <3>1, OneMore
    <3>3. /\ instances'[j] = IF j = k THEN instances[j] + 1 ELSE instances[j]
          /\ Counted(j)' = IF j = k THEN Counted(j) \union {s} ELSE Counted(j) \ {s}
          /\ misuse' = {} => misuse = {} /\ s \notin Counted(j)
      BY <1>2, <2>3, <2>4, <2>5
    <3>. QED
      BY ONLY <3>1, <3>2, <3>3
  <2>. QED
    BY <2>6 DEF Counts
<1>10. Owned'
  <2>. SUFFICES ASSUME misuse' = {}, NEW o \in PtrObjects, object[o] = "live"
                PROVE  \E y \in Slots : slot'[y] # None /\ control'[slot'[y]].ptr = o
    BY <1>2 DEF Owned
  <2>1. misuse = {} /\ slot[s] = None
    OBVIOUS
  <2>2. PICK y \in Slots : slot[y] # None /\ control[slot[y]].ptr = o
    BY <1>1, <2>1 DEF Owned
  <2>3. slot'[y] = slot[y] /\ control'[slot[y]] = control[slot[y]]
    BY <1>1, <1>2, <1>4, <2>1, <2>2 DEF SlotsLive
  <2>. QED
    BY <2>2, <2>3
<1>. QED
  BY <1>1, <1>2, <1>5, <1>6, <1>7, <1>8, <1>9, <1>10 DEF Sound

-----------------------------------------------------------------------------
(* Pointers move. *)

(* Two slots that no thread leaves exchange what they hold.                *)
LEMMA Moves ==
    ASSUME Sound, NEW s \in Slots, NEW x \in Slots, s # x, ~Leaving(s), ~Leaving(x),
           slot' = [slot EXCEPT ![s] = slot[x], ![x] = slot[s]],
           UNCHANGED <<control, instances, object, weak, destroying, ptr_fault, misuse>>
    PROVE  Sound'
<1>. DEFINE from(y) == IF y = s THEN x ELSE IF y = x THEN s ELSE y
<1>1. /\ PtrShape /\ Families /\ SlotsLive /\ Destructors /\ Counts /\ Owned /\ ~ptr_fault
  BY DEF Sound
<1>2. /\ \A y \in Slots : from(y) \in Slots /\ slot'[y] = slot[from(y)]
      /\ slot'[s] = slot[x] /\ slot'[x] = slot[s]
      /\ \A y \in Slots : y # s /\ y # x => slot'[y] = slot[y]
  BY <1>1 DEF PtrShape
<1>3. /\ control' = control /\ instances' = instances /\ object' = object /\ weak' = weak
      /\ destroying' = destroying /\ ptr_fault' = ptr_fault /\ misuse' = misuse
  OBVIOUS
<1>4. slot' \in [Slots -> 0..MaxControls]
  BY <1>1 DEF PtrShape
<1>5. PtrShape' /\ Families'
  BY <1>1, <1>3, <1>4 DEF PtrShape, Families, Allocated
<1>6. \A y \in Slots : CounterOf(y)' = CounterOf(from(y))
  BY <1>2, <1>3 DEF CounterOf
<1>7. SlotsLive'
  <2>1. Allocated' = Allocated
    BY <1>3 DEF Allocated
  <2>2. ASSUME NEW y \in Slots PROVE \E z \in Slots : slot'[y] = slot[z]
    BY <1>2
  <2>3. ASSUME NEW y \in Slots, slot'[y] # None
        PROVE  /\ slot'[y] \in Allocated /\ control[slot'[y]].live
               /\ control[slot'[y]].ptr # None => object[control[slot'[y]].ptr] = "live"
    <3>1. PICK z \in Slots : slot'[y] = slot[z]
      BY <2>2
    <3>. QED
      BY <1>1, <2>3, <3>1 DEF SlotsLive
  <2>. QED
    BY <1>1, <1>3, <2>1, <2>3 DEF SlotsLive
<1>8. Destructors'
  <2>1. \A t \in PtrThreads : Leaves(t) =>
           destroying[t].slot \in Slots /\ destroying[t].slot # s /\ destroying[t].slot # x
    BY LeftSlot DEF Leaving
  <2>2. \A t \in PtrThreads : Leaves(t) => slot'[destroying[t].slot] = slot[destroying[t].slot]
    BY <1>2, <2>1
  <2>. QED
    BY <1>1, <1>3, <2>2, DestructorsGoOn
<1>9. Counts'
  <2>. SUFFICES ASSUME NEW j \in Controls PROVE Cardinality(Counted(j)') = Cardinality(Counted(j))
    BY <1>1, <1>3 DEF Counts
  <2>1. \A t \in PtrThreads : destroying[t].slot # s /\ destroying[t].slot # x
    BY DEF Leaving
  <2>2. \A y \in Slots : y \in Counted(j)' <=> from(y) \in Counted(j)
    BY <1>2, <1>3, <1>6, <2>1 DEF Counted
  <2>3. Counted(j) \subseteq Slots /\ Counted(j)' \subseteq Slots
    BY DEF Counted
  <2>4. IsFiniteSet(Counted(j)) /\ Cardinality(Counted(j)) \in Nat
    BY CountedFinite
  <2>5. CASE s \in Counted(j) <=> x \in Counted(j)
    <3>1. Counted(j)' = Counted(j)
      BY <2>2, <2>3, <2>5
    <3>. QED
      BY <3>1
  <2>6. CASE s \in Counted(j) /\ x \notin Counted(j)
    <3>1. Counted(j)' = (Counted(j) \ {s}) \union {x}
      BY <2>2, <2>3, <2>6
    <3>2. /\ IsFiniteSet(Counted(j) \ {s})
          /\ Cardinality(Counted(j) \ {s}) = Cardinality(Counted(j)) - 1
      BY <2>4, <2>6, FS_RemoveElement
    <3>3. Cardinality(Counted(j)') = Cardinality(Counted(j) \ {s}) + 1
      BY <2>6, <3>1, <3>2, FS_AddElement
    <3>. QED
      BY ONLY <2>4, <3>2, <3>3
  <2>7. CASE x \in Counted(j) /\ s \notin Counted(j)
    <3>1. Counted(j)' = (Counted(j) \ {x}) \union {s}
      BY <2>2, <2>3, <2>7
    <3>2. /\ IsFiniteSet(Counted(j) \ {x})
          /\ Cardinality(Counted(j) \ {x}) = Cardinality(Counted(j)) - 1
      BY <2>4, <2>7, FS_RemoveElement
    <3>3. Cardinality(Counted(j)') = Cardinality(Counted(j) \ {x}) + 1
      BY <2>7, <3>1, <3>2, FS_AddElement
    <3>. QED
      BY ONLY <2>4, <3>2, <3>3
  <2>. QED
    BY <2>5, <2>6, <2>7
<1>10. Owned'
  <2>. SUFFICES ASSUME misuse = {}, NEW o \in PtrObjects, object[o] = "live"
                PROVE  \E y \in Slots : slot'[y] # None /\ control[slot'[y]].ptr = o
    BY <1>3 DEF Owned
  <2>1. PICK y \in Slots : slot[y] # None /\ control[slot[y]].ptr = o
    BY <1>1 DEF Owned
  <2>2. from(y) \in Slots /\ slot'[from(y)] = slot[y]
    BY <1>2
  <2>. HIDE DEF from
  <2>. QED
    BY <2>1, <2>2
<1>. QED
  BY <1>1, <1>3, <1>5, <1>7, <1>8, <1>9, <1>10 DEF Sound

-----------------------------------------------------------------------------
(* New objects. *)

(* A first pointer: a new control block with a counter of its own.         *)
LEMMA Constructs ==
    ASSUME Sound, NEW s \in Slots, NEW o, PtrConstruct(s, o)
    PROVE  Sound'
<1>1. /\ PtrShape /\ Families /\ SlotsLive /\ Destructors /\ Counts /\ Owned /\ ~ptr_fault
  BY DEF Sound
<1>2. PICK c \in Controls :
         /\ control[c] = Unallocated
         /\ control' = [control EXCEPT ![c] =
               [live |-> TRUE, used |-> TRUE, ptr |-> o, count |-> c]]
         /\ instances' = [instances EXCEPT ![c] = 1]
         /\ slot' = [slot EXCEPT ![s] = c]
  <2>1. DOMAIN control = Controls
    BY <1>1 DEF PtrShape
  <2>. QED
    BY <2>1 DEF PtrConstruct, Fresh
<1>3. /\ slot[s] = None /\ weak' = weak /\ destroying' = destroying /\ misuse' = misuse
      /\ ptr_fault' = ptr_fault
      /\ o = None \/ (o \in PtrObjects /\ object[o] = "unused")
      /\ object' = IF o = None THEN object ELSE [object EXCEPT ![o] = "live"]
  <2>1. DOMAIN object = PtrObjects
    BY <1>1 DEF PtrShape
  <2>. QED
    BY <2>1 DEF PtrConstruct, Fresh, Constructible
<1>4. c \notin Allocated /\ c # None /\ None \notin PtrObjects
  BY <1>2, PtrAssumption DEF Allocated, Unallocated, Controls, None, PtrObjects
<1>5. /\ \A y \in Slots : slot'[y] = IF y = s THEN c ELSE slot[y]
      /\ \A y \in Controls : control'[y] =
            IF y = c THEN [live |-> TRUE, used |-> TRUE, ptr |-> o, count |-> c] ELSE control[y]
      /\ \A y \in Controls : instances'[y] = IF y = c THEN 1 ELSE instances[y]
      /\ \A y \in PtrObjects : object'[y] = IF y = o THEN "live" ELSE object[y]
  BY <1>1, <1>2, <1>3, <1>4 DEF PtrShape
<1>6. /\ Allocated' = Allocated \union {c}
      /\ \A y \in Allocated : y \in Controls /\ y # c /\ control'[y] = control[y]
                               /\ control[y].count \in Controls /\ control[y].count # c
      /\ control'[c].ptr = o /\ control'[c].count = c /\ control'[c].live
      /\ \A y \in Allocated : control[y].ptr # None =>
            control[y].ptr \in PtrObjects /\ control[y].ptr # o
  <2>1. Allocated' = Allocated \union {c}
    BY <1>2, <1>5 DEF Allocated
  <2>2. \A y \in Allocated : y \in Controls /\ y # c /\ control'[y] = control[y]
    BY <1>4, <1>5 DEF Allocated
  <2>3. \A y \in Allocated : control[y].count \in Allocated
    BY <1>1 DEF Families
  <2>4. \A y \in Allocated : control[y].ptr \in 0..MaxObjects
    BY <1>1 DEF PtrShape, Allocated
  <2>5. \A y \in Allocated : control[y].ptr # None => object[control[y].ptr] # "unused"
    BY <1>1 DEF Families
  <2>. QED
    BY <1>2, <1>3, <1>4, <1>5, <2>1, <2>2, <2>3, <2>4, <2>5 DEF None, PtrObjects
<1>7. PtrShape'
  <2>1. slot' \in [Slots -> 0..MaxControls] /\ instances' \in [Controls -> Nat]
    BY <1>1, <1>2 DEF PtrShape, Controls
  <2>2. o \in 0..MaxObjects
    BY <1>3, PtrAssumption DEF None, PtrObjects
  <2>3. [live |-> TRUE, used |-> TRUE, ptr |-> o, count |-> c]
          \in [live : BOOLEAN, used : BOOLEAN, ptr : 0..MaxObjects, count : 0..MaxControls]
    BY <2>2 DEF Controls
  <2>4. control' \in [Controls -> [live : BOOLEAN, used : BOOLEAN,
                                  ptr : 0..MaxObjects, count : 0..MaxControls]]
    BY <1>1, <1>2, <2>3 DEF PtrShape
  <2>5. object' \in [PtrObjects -> {"unused", "live", "deleted"}]
    BY <1>1, <1>3 DEF PtrShape
  <2>. QED
    BY <1>1, <1>3, <2>1, <2>4, <2>5 DEF PtrShape
<1>8. Families'
  <2>1. \A y \in Allocated' : control'[y].count \in Allocated'
    BY <1>1, <1>6 DEF Families
  <2>2. \A y, z \in Allocated' :
           control'[y].ptr = control'[z].ptr /\ control'[y].ptr # None =>
              control'[y].count = control'[z].count
    BY <1>1, <1>6 DEF Families
  <2>3. misuse' = {} => \A y, z \in Allocated' :
           control'[y].count = control'[z].count => control'[y].ptr = control'[z].ptr
    BY <1>1, <1>3, <1>6 DEF Families
  <2>4. \A y \in Allocated' : control'[y].ptr # None =>
          /\ object'[control'[y].ptr] # "unused"
          /\ object'[control'[y].ptr] = "deleted" => instances'[control'[y].count] = 0
    BY <1>1, <1>3, <1>5, <1>6 DEF Families
  <2>. QED
    BY <2>1, <2>2, <2>3, <2>4 DEF Families
<1>9. SlotsLive'
  BY <1>1, <1>3, <1>5, <1>6 DEF SlotsLive
<1>10. \A y \in Slots \ {s} : slot[y] # None => CounterOf(y)' = CounterOf(y) /\ CounterOf(y) # c
  BY <1>1, <1>5, <1>6 DEF CounterOf, SlotsLive
<1>11. Destructors'
  <2>1. \A t \in PtrThreads : Leaves(t) =>
           /\ destroying[t].slot \in Slots \ {s} /\ slot[destroying[t].slot] # None
           /\ slot[destroying[t].slot] \in Allocated
           /\ CounterOf(destroying[t].slot) \in Controls
    BY <1>3, LeftSlot
  <2>. QED
    BY <1>1, <1>3, <1>5, <1>6, <1>10, <2>1, DestructorsGoOn
<1>12. Counts'
  <2>1. \A t \in PtrThreads : destroying[t].slot # s
    BY <1>3, LeftSlot, PtrAssumption DEF Leaves
  <2>2. CounterOf(s)' = c
    BY <1>5, <1>6 DEF CounterOf
  <2>3. Counted(c)' = {s}
    BY <1>3, <1>4, <1>5, <1>10, <2>1, <2>2 DEF Counted
  <2>4. \A j \in Controls : j # c => Counted(j)' = Counted(j)
    BY <1>3, <1>5, <1>10, <2>2 DEF Counted
  <2>5. Cardinality({s}) = 1
    BY FS_Singleton
  <2>. QED
    BY <1>1, <1>3, <1>5, <2>3, <2>4, <2>5 DEF Counts
<1>13. Owned'
  <2>. SUFFICES ASSUME misuse' = {}, NEW e \in PtrObjects, object'[e] = "live"
                PROVE  \E y \in Slots : slot'[y] # None /\ control'[slot'[y]].ptr = e
    BY DEF Owned
  <2>1. CASE e = o
    BY <1>4, <1>5, <1>6, <2>1
  <2>2. CASE e # o
    <3>1. PICK y \in Slots : slot[y] # None /\ control[slot[y]].ptr = e
      BY <1>1, <1>3, <1>5, <2>2 DEF Owned
    <3>2. slot'[y] = slot[y] /\ control'[slot[y]] = control[slot[y]]
      BY <1>1, <1>3, <1>5, <1>6, <3>1 DEF SlotsLive
    <3>. QED
      BY <3>1, <3>2
  <2>. QED
    BY <2>1, <2>2
<1>. QED
  BY <1>1, <1>3, <1>7, <1>8, <1>9, <1>11, <1>12, <1>13 DEF Sound

(* A new object for every sharer of a control block.                       *)
LEMMA Replaces ==
    ASSUME Sound, NEW s \in Slots, NEW o, PtrAssignRaw(s, o)
    PROVE  Sound'
<1>. DEFINE c == slot[s]
<1>1. /\ PtrShape /\ Families /\ SlotsLive /\ Destructors /\ Counts /\ Owned /\ ~ptr_fault
  BY DEF Sound
<1>2. /\ c \in Controls /\ o \in PtrObjects /\ object[o] = "unused"
      /\ control' = [control EXCEPT ![c].ptr = o] /\ object' = [object EXCEPT ![o] = "live"]
      /\ misuse' # {} /\ slot' = slot /\ instances' = instances /\ weak' = weak
      /\ destroying' = destroying /\ ptr_fault' = ptr_fault
  <2>1. DOMAIN object = PtrObjects
    BY <1>1 DEF PtrShape
  <2>. QED
    BY <2>1 DEF PtrAssignRaw, Fresh, Usable, Held
<1>. HIDE DEF c
<1>3. /\ \A y \in Controls : /\ control'[y].used = control[y].used
                             /\ control'[y].live = control[y].live
                             /\ control'[y].count = control[y].count
                             /\ control'[y].ptr = IF y = c THEN o ELSE control[y].ptr
      /\ \A e \in PtrObjects : object'[e] = IF e = o THEN "live" ELSE object[e]
  BY <1>1, <1>2 DEF PtrShape
<1>4. PtrShape'
  <2>1. [control[c] EXCEPT !.ptr = o]
           \in [live : BOOLEAN, used : BOOLEAN, ptr : 0..MaxObjects, count : 0..MaxControls]
    <3>1. control[c] \in [live : BOOLEAN, used : BOOLEAN, ptr : 0..MaxObjects, count : 0..MaxControls]
      BY <1>1, <1>2 DEF PtrShape
    <3>2. o \in 0..MaxObjects
      BY <1>2, PtrAssumption DEF PtrObjects
    <3>. QED
      BY <3>1, <3>2
  <2>2. control' \in [Controls -> [live : BOOLEAN, used : BOOLEAN,
                                  ptr : 0..MaxObjects, count : 0..MaxControls]]
    BY <1>1, <1>2, <2>1 DEF PtrShape
  <2>3. object' \in [PtrObjects -> {"unused", "live", "deleted"}]
    BY <1>1, <1>2 DEF PtrShape
  <2>. QED
    BY <1>1, <1>2, <2>2, <2>3 DEF PtrShape
<1>5. Allocated' = Allocated /\ Allocated \subseteq Controls
  BY <1>3 DEF Allocated
<1>6. \A y \in Allocated : /\ control[y].ptr # o /\ (control[y].ptr # None => control[y].ptr \in PtrObjects)
                           /\ control[y].count \in Allocated
  <2>1. \A y \in Allocated : control[y].ptr \in 0..MaxObjects
    BY <1>1 DEF PtrShape, Allocated
  <2>. QED
    BY <1>1, <1>2, <2>1, PtrAssumption DEF Families, None, PtrObjects
<1>7. Families'
  <2>1. \A y, z \in Allocated :
           control'[y].ptr = control'[z].ptr /\ control'[y].ptr # None =>
              control'[y].count = control'[z].count
    BY <1>1, <1>3, <1>5, <1>6 DEF Families
  <2>2. \A y \in Allocated : control'[y].ptr # None =>
          /\ object'[control'[y].ptr] # "unused"
          /\ object'[control'[y].ptr] = "deleted" => instances[control'[y].count] = 0
    BY <1>1, <1>2, <1>3, <1>5, <1>6 DEF Families
  <2>. QED
    BY <1>2, <1>3, <1>5, <1>6, <2>1, <2>2 DEF Families
<1>8. SlotsLive'
  BY <1>1, <1>2, <1>3, <1>5, <1>6 DEF SlotsLive
<1>9. \A y \in Slots : slot[y] # None => CounterOf(y)' = CounterOf(y)
  BY <1>1, <1>2, <1>3, <1>5 DEF CounterOf, SlotsLive
<1>10. Destructors'
  <2>1. \A t \in PtrThreads : Leaves(t) =>
           destroying[t].slot \in Slots /\ slot[destroying[t].slot] \in Allocated
    BY LeftSlot
  <2>. QED
    BY <1>1, <1>2, <1>3, <1>5, <2>1, DestructorsGoOn
<1>11. Counts'
  <2>1. \A j \in Controls : Counted(j)' = Counted(j)
    BY <1>2, <1>9 DEF Counted
  <2>. QED
    BY <1>1, <1>2, <2>1 DEF Counts
<1>. QED
  BY <1>1, <1>2, <1>4, <1>7, <1>8, <1>10, <1>11 DEF Sound, Owned

-----------------------------------------------------------------------------
(* Pointers are destroyed. *)

(* A thread begins to destroy a pointer whose counter no other works on.   *)
LEMMA Reads ==
    ASSUME Sound, misuse' \subseteq {"assign"}, NEW t \in PtrThreads, NEW s \in Slots,
           DestroyReads(t, s)
    PROVE  Sound'
<1>1. /\ PtrShape /\ Families /\ SlotsLive /\ Destructors /\ Counts /\ Owned /\ ~ptr_fault
  BY DEF Sound
<1>2. /\ slot[s] # None /\ slot[s] \in Allocated /\ control[slot[s]].live
      /\ slot[s] # Garbage
  <2>1. slot[s] \in 0..MaxControls
    BY <1>1 DEF PtrShape
  <2>2. slot[s] # None
    BY DEF DestroyReads
  <2>. QED
    BY <1>1, <2>1, <2>2, PtrAssumption DEF SlotsLive, Garbage
<1>. DEFINE k == CounterOf(s)
<1>3. /\ destroying' = [destroying EXCEPT ![t] = [at |-> "write", slot |-> s, read |-> instances[k]]]
      /\ misuse' = misuse \union Racing(k, t) /\ ptr_fault' = ptr_fault
      /\ slot' = slot /\ control' = control /\ instances' = instances /\ object' = object
      /\ weak' = weak /\ ~Leaving(s) /\ destroying[t].at = "out"
  BY <1>2 DEF DestroyReads, Runs
<1>4. ~Raced(k, t) /\ misuse' = misuse
  BY <1>3 DEF Racing
<1>5. k \in Controls /\ s # None
  BY <1>1, <1>2, PtrAssumption DEF Families, Allocated, CounterOf
<1>6. instances[k] \in Nat
  BY <1>1, <1>5 DEF PtrShape
<1>7. /\ destroying'[t] = [at |-> "write", slot |-> s, read |-> instances[k]]
      /\ \A u \in PtrThreads \ {t} : destroying'[u] = destroying[u]
  BY <1>1, <1>3 DEF PtrShape
<1>8. PtrShape'
  <2>1. [at |-> "write", slot |-> s, read |-> instances[k]]
           \in [at : {"out", "write", "test"}, slot : Slots \union {None}, read : Nat]
    BY <1>6
  <2>2. destroying' \in [PtrThreads -> [at : {"out", "write", "test"},
                                       slot : Slots \union {None}, read : Nat]]
    BY <1>1, <1>3, <2>1 DEF PtrShape
  <2>. QED
    BY <1>1, <1>3, <2>2 DEF PtrShape
<1>9. Families' /\ SlotsLive' /\ Owned'
  BY <1>1, <1>3, <1>4 DEF Families, SlotsLive, Owned, Allocated
<1>10. Destructors'
  <2>1. CounterOf(s)' = k /\ \A u \in PtrThreads : CounterOf(destroying[u].slot) = control[slot[destroying[u].slot]].count
    BY <1>3 DEF CounterOf
  <2>2. \A u \in PtrThreads \ {t} : Leaves(u) => CounterOf(destroying[u].slot) # k
    BY <1>4 DEF Raced, Leaves
  <2>3. \A u \in PtrThreads \ {t} : /\ Leaves(u)' <=> Leaves(u)
                                   /\ CounterOf(destroying[u].slot)' = CounterOf(destroying[u].slot)
                                   /\ destroying'[u] = destroying[u]
    BY <1>3, <1>7 DEF Leaves, CounterOf
  <2>4. Leaves(t)' /\ CounterOf(destroying[t].slot)' = k
    BY <1>3, <1>5, <1>7 DEF Leaves, CounterOf
  <2>. HIDE DEF k
  <2>5. ASSUME NEW u \in PtrThreads
        PROVE  /\ Leaves(u)' <=> destroying'[u].at # "out"
               /\ Leaves(u)' => slot'[destroying'[u].slot] # None
               /\ destroying'[u].at = "write" =>
                     destroying'[u].read = instances'[CounterOf(destroying[u].slot)']
               /\ \A v \in PtrThreads \ {u} : Leaves(u)' /\ Leaves(v)' =>
                     CounterOf(destroying[u].slot)' # CounterOf(destroying[v].slot)'
    <3>1. CASE u = t
      <4>1. destroying'[u].at = "write" /\ destroying'[u].slot = s /\ destroying'[u].read = instances[k]
        BY <1>7, <3>1
      <4>. QED
        BY <1>2, <1>3, <2>2, <2>3, <2>4, <3>1, <4>1
    <3>2. CASE u # t
      BY <1>1, <1>3, <2>2, <2>3, <2>4, <3>2 DEF Destructors
    <3>. QED
      BY <3>1, <3>2
  <2>. QED
    BY <2>5 DEF Destructors
<1>11. Counts'
  <2>1. \A y \in Slots, u \in PtrThreads :
           (destroying'[u].at = "test" /\ destroying'[u].slot = y)
              <=> (destroying[u].at = "test" /\ destroying[u].slot = y)
    BY <1>3, <1>7
  <2>2. \A j \in Controls : Counted(j)' = Counted(j)
    BY <1>3, <2>1 DEF Counted, CounterOf
  <2>. QED
    BY <1>1, <1>3, <1>4, <2>2 DEF Counts
<1>. QED
  BY <1>1, <1>3, <1>8, <1>9, <1>10, <1>11 DEF Sound

(* The count is written: it is still the one that was read.                *)
LEMMA Writes ==
    ASSUME Sound, NEW t \in PtrThreads, DestroyWrites(t)
    PROVE  Sound'
<1>1. /\ PtrShape /\ Families /\ SlotsLive /\ Destructors /\ Counts /\ Owned /\ ~ptr_fault
  BY DEF Sound
<1>2. destroying[t].at = "write"
  BY DEF DestroyWrites
<1>3. Leaves(t)
  BY <1>1, <1>2 DEF Destructors
<1>4. PICK s \in Slots, k \in Controls :
         /\ s = destroying[t].slot /\ k = CounterOf(s) /\ slot[s] # None /\ slot[s] \in Allocated
  BY <1>3, LeftSlot
<1>5. destroying[t].read = instances[k]
  BY <1>1, <1>2, <1>4 DEF Destructors
<1>6. /\ instances' = [instances EXCEPT ![k] = instances[k] - 1]
      /\ destroying' = [destroying EXCEPT ![t].at = "test"]
      /\ slot' = slot /\ control' = control /\ object' = object /\ weak' = weak
      /\ misuse' = misuse /\ ptr_fault' = ptr_fault
  BY <1>4, <1>5 DEF DestroyWrites
<1>7. \A u \in PtrThreads \ {t} : Leaves(u) => destroying[u].slot # s /\ CounterOf(destroying[u].slot) # k
  BY <1>1, <1>3, <1>4 DEF Destructors
<1>8. /\ \A u \in PtrThreads : destroying'[u].slot = destroying[u].slot /\ destroying'[u].read = destroying[u].read
      /\ destroying'[t].at = "test"
      /\ \A u \in PtrThreads \ {t} : destroying'[u].at = destroying[u].at
      /\ \A j \in Controls : instances'[j] = IF j = k THEN instances[k] - 1 ELSE instances[j]
  BY <1>1, <1>6 DEF PtrShape
<1>9. /\ s \in Counted(k)
      /\ Counted(k)' = Counted(k) \ {s}
      /\ \A j \in Controls : j # k => Counted(j)' = Counted(j)
  <2>1. \A u \in PtrThreads : ~(destroying[u].at = "test" /\ destroying[u].slot = s)
    BY <1>1, <1>2, <1>4, <1>7 DEF Destructors
  <2>2. \A y \in Slots : CounterOf(y)' = CounterOf(y)
    BY <1>2, <1>6 DEF CounterOf
  <2>3. \A y \in Slots \ {s}, u \in PtrThreads :
           (destroying'[u].at = "test" /\ destroying'[u].slot = y)
              <=> (destroying[u].at = "test" /\ destroying[u].slot = y)
    BY <1>4, <1>8
  <2>4. destroying'[t].at = "test" /\ destroying'[t].slot = s
    BY <1>4, <1>8
  <2>5. CounterOf(s) = k
    BY <1>4
  <2>6. s \in Counted(k)
    BY <1>4, <2>1, <2>5 DEF Counted
  <2>7. \A j \in Controls : s \notin Counted(j)' /\ (s \in Counted(j) => j = k)
    BY <2>4, <2>5 DEF Counted
  <2>8. \A j \in Controls, y \in Slots \ {s} : y \in Counted(j)' <=> y \in Counted(j)
    BY <1>2, <1>6, <2>2, <2>3 DEF Counted
  <2>9. \A j \in Controls : Counted(j) \subseteq Slots /\ Counted(j)' \subseteq Slots
    BY DEF Counted
  <2>10. Counted(k)' = Counted(k) \ {s}
    BY <1>4, <2>7, <2>8, <2>9
  <2>11. ASSUME NEW j \in Controls, j # k PROVE Counted(j)' = Counted(j)
    BY <2>7, <2>8, <2>9, <2>11
  <2>. QED
    BY <2>6, <2>10, <2>11
<1>10. /\ Cardinality(Counted(k)) \in Nat /\ Cardinality(Counted(k)) >= 1 /\ instances[k] \in Nat
       /\ instances[k] >= Cardinality(Counted(k))
  BY <1>1, <1>4, <1>9, CountedFinite DEF Counts, PtrShape
<1>11. PtrShape'
  <2>1. [destroying[t] EXCEPT !.at = "test"]
           \in [at : {"out", "write", "test"}, slot : Slots \union {None}, read : Nat]
    <3>1. destroying[t] \in [at : {"out", "write", "test"}, slot : Slots \union {None}, read : Nat]
      BY <1>1 DEF PtrShape
    <3>. QED
      BY <3>1
  <2>2. destroying' \in [PtrThreads -> [at : {"out", "write", "test"},
                                       slot : Slots \union {None}, read : Nat]]
    BY <1>1, <1>2, <1>6, <2>1 DEF PtrShape
  <2>3. instances' \in [Controls -> Nat]
    <3>1. instances[k] - 1 \in Nat
      BY <1>10
    <3>. QED
      BY <1>1, <1>2, <1>6, <3>1 DEF PtrShape
  <2>. QED
    BY <1>1, <1>2, <1>6, <2>2, <2>3 DEF PtrShape
<1>12. Families'
  <2>1. \A c \in Allocated : control[c].count \in Controls
    BY <1>1 DEF Families, Allocated
  <2>2. \A c \in Allocated : control[c].ptr # None /\ object[control[c].ptr] = "deleted" =>
           instances'[control[c].count] = 0
    BY <1>1, <1>8, <1>10, <2>1 DEF Families
  <2>3. Allocated' = Allocated
    BY <1>2, <1>6 DEF Allocated
  <2>. QED
    BY <1>1, <1>2, <1>6, <2>2, <2>3 DEF Families
<1>13. SlotsLive' /\ Owned'
  BY <1>1, <1>2, <1>6 DEF SlotsLive, Owned, Allocated
<1>14. Destructors'
  <2>1. \A u \in PtrThreads : /\ Leaves(u)' <=> Leaves(u)
                             /\ CounterOf(destroying[u].slot)' = CounterOf(destroying[u].slot)
                             /\ slot'[destroying'[u].slot] = slot[destroying[u].slot]
    BY <1>2, <1>6, <1>8 DEF Leaves, CounterOf
  <2>2. \A u \in PtrThreads : Leaves(u) => CounterOf(destroying[u].slot) \in Controls
    BY LeftSlot
  <2>3. ASSUME NEW u \in PtrThreads
        PROVE  /\ Leaves(u)' <=> destroying'[u].at # "out"
               /\ Leaves(u)' => slot'[destroying'[u].slot] # None
               /\ destroying'[u].at = "write" =>
                     destroying'[u].read = instances'[CounterOf(destroying[u].slot)']
               /\ \A v \in PtrThreads \ {u} : Leaves(u)' /\ Leaves(v)' =>
                     CounterOf(destroying[u].slot)' # CounterOf(destroying[v].slot)'
    <3>1. CASE u = t
      BY <1>1, <1>3, <1>8, <2>1, <3>1 DEF Destructors
    <3>2. CASE u # t
      BY <1>1, <1>7, <1>8, <2>1, <2>2, <3>2 DEF Destructors
    <3>. QED
      BY <3>1, <3>2
  <2>. QED
    BY <2>3 DEF Destructors
<1>15. Counts'
  <2>1. Cardinality(Counted(k)') = Cardinality(Counted(k)) - 1
    BY <1>9, CountedFinite, OneMore
  <2>2. ASSUME NEW j \in Controls
        PROVE  /\ instances'[j] >= Cardinality(Counted(j)')
               /\ misuse = {} => instances'[j] = Cardinality(Counted(j)')
    <3>1. CASE j # k
      BY <1>1, <1>8, <1>9, <3>1 DEF Counts
    <3>2. CASE j = k
      <4>1. misuse = {} => instances[k] = Cardinality(Counted(k))
        BY <1>1, <1>4 DEF Counts
      <4>2. instances'[k] = instances[k] - 1
        BY <1>4, <1>8
      <4>3. /\ instances'[k] >= Cardinality(Counted(k)')
            /\ misuse = {} => instances'[k] = Cardinality(Counted(k)')
        BY ONLY <1>10, <2>1, <4>1, <4>2
      <4>. QED
        BY <3>2, <4>3
    <3>. QED
      BY <3>1, <3>2
  <2>. QED
    BY <1>2, <1>6, <2>2 DEF Counts
<1>. QED
  BY <1>1, <1>2, <1>6, <1>11, <1>12, <1>13, <1>14, <1>15 DEF Sound

(* The last pointer deletes the object: no other holds it.                 *)
LEMMA Tests ==
    ASSUME Sound, NEW t \in PtrThreads, DestroyTests(t)
    PROVE  Sound'
<1>1. /\ PtrShape /\ Families /\ SlotsLive /\ Destructors /\ Counts /\ Owned /\ ~ptr_fault
  BY DEF Sound
<1>2. destroying[t].at = "test"
  BY DEF DestroyTests
<1>3. Leaves(t)
  BY <1>1, <1>2 DEF Destructors
<1>4. PICK s \in Slots, c \in Allocated, k \in Controls, o \in 0..MaxObjects :
         /\ s = destroying[t].slot /\ c = slot[s] /\ k = CounterOf(s) /\ o = control[c].ptr
         /\ c # None /\ c \in Controls /\ control[c].count = k
  <2>1. \A d \in Allocated : d \in Controls /\ control[d].ptr \in 0..MaxObjects
    BY <1>1 DEF Allocated, PtrShape
  <2>. QED
    BY <1>3, <2>1, LeftSlot DEF CounterOf
<1>. DEFINE last == instances[k] = 0
<1>5. /\ ptr_fault' = (~control[c].live \/ (last /\ o # None /\ object[o] = "deleted"))
      /\ control' = IF last THEN [control EXCEPT ![c].live = FALSE] ELSE control
      /\ object' = IF last /\ o # None THEN [object EXCEPT ![o] = "deleted"] ELSE object
      /\ slot' = [slot EXCEPT ![s] = None]
      /\ destroying' = [destroying EXCEPT ![t] = NotDestroying]
      /\ instances' = instances /\ weak' = weak /\ misuse' = misuse
  BY <1>4 DEF DestroyTests
<1>6. /\ control[c].live /\ (o # None => object[o] = "live")
  BY <1>1, <1>4 DEF SlotsLive
<1>7. ~ptr_fault'
  BY <1>2, <1>4, <1>5, <1>6
<1>8. \A u \in PtrThreads \ {t} : Leaves(u) => destroying[u].slot # s /\ CounterOf(destroying[u].slot) # k
  BY <1>1, <1>3, <1>4 DEF Destructors
<1>9. s \notin Counted(k)
  BY <1>2, <1>4, <1>5 DEF Counted
<1>10. ASSUME last, NEW y \in Slots, y # s, slot[y] # None
      PROVE  CounterOf(y) # k
  <2>1. Counted(k) = {}
    <3>1. 0 >= Cardinality(Counted(k)) /\ Cardinality(Counted(k)) \in Nat
      BY <1>1, <1>4, <1>10, CountedFinite DEF Counts
    <3>. QED
      BY <3>1, CountedFinite
  <2>2. ASSUME CounterOf(y) = k PROVE FALSE
    <3>1. PICK u \in PtrThreads : destroying[u].at = "test" /\ destroying[u].slot = y
      <4>1. y \notin Counted(k)
        BY <2>1
      <4>. QED
        BY <1>10, <2>2, <4>1 DEF Counted
    <3>2. u # t /\ Leaves(u)
      BY <1>1, <1>4, <1>10, <3>1 DEF Destructors
    <3>. QED
      BY <1>8, <2>2, <3>1, <3>2
  <2>. QED
    BY <2>2
<1>11. ASSUME last, NEW y \in Slots, y # s, slot[y] # None
       PROVE  slot[y] # c /\ (o # None => control[slot[y]].ptr # o)
  <2>1. slot[y] \in Allocated /\ control[slot[y]].count # k
    BY <1>1, <1>10, <1>11 DEF SlotsLive, CounterOf
  <2>. QED
    BY <1>1, <1>4, <2>1 DEF Families
<1>12. None \notin PtrObjects /\ (o # None => o \in PtrObjects)
  BY <1>6, PtrAssumption DEF None, PtrObjects
<1>13. \A y \in Slots : slot'[y] = IF y = s THEN None ELSE slot[y]
  BY <1>1, <1>2, <1>4, <1>5 DEF PtrShape
<1>14. \A d \in Controls : /\ control'[d].used = control[d].used
                           /\ control'[d].ptr = control[d].ptr
                           /\ control'[d].count = control[d].count
                           /\ (~(last /\ d = c) => control'[d].live = control[d].live)
  <2>1. CASE last
    <3>1. control' = [control EXCEPT ![c].live = FALSE]
      BY <1>5, <2>1
    <3>2. \A d \in Controls : control'[d] = IF d = c THEN [control[c] EXCEPT !.live = FALSE] ELSE control[d]
      BY <1>1, <1>4, <3>1 DEF PtrShape
    <3>3. control[c] \in [live : BOOLEAN, used : BOOLEAN, ptr : 0..MaxObjects, count : 0..MaxControls]
      BY <1>1, <1>4 DEF PtrShape
    <3>. HIDE DEF last
    <3>. QED
      BY <2>1, <3>2, <3>3
  <2>2. CASE ~last
    <3>1. control' = control
      BY <1>5, <2>2
    <3>. QED
      BY <3>1
  <2>. QED
    BY <2>1, <2>2
<1>15. \A e \in PtrObjects : object'[e] = IF last /\ e = o THEN "deleted" ELSE object[e]
  BY <1>1, <1>2, <1>4, <1>5, <1>12 DEF PtrShape
<1>16. /\ destroying'[t] = NotDestroying
       /\ \A u \in PtrThreads \ {t} : destroying'[u] = destroying[u]
  BY <1>1, <1>2, <1>4, <1>5 DEF PtrShape
<1>17. Allocated' = Allocated /\ Allocated \subseteq Controls
  BY <1>13, <1>14, <1>15, <1>16 DEF Allocated
<1>18. \A d \in Allocated : /\ control[d].count \in Allocated
                            /\ (control[d].ptr # None => control[d].ptr \in PtrObjects)
  <2>1. \A d \in Allocated : control[d].ptr \in 0..MaxObjects
    BY <1>1, <1>17 DEF PtrShape
  <2>. QED
    BY <1>1, <2>1, PtrAssumption DEF Families, None, PtrObjects
<1>19. PtrShape'
  <2>1. slot' \in [Slots -> 0..MaxControls]
    <3>1. None \in 0..MaxControls
      BY PtrAssumption DEF None
    <3>. QED
      BY <1>1, <1>2, <1>4, <1>5, <3>1 DEF PtrShape
  <2>2. control' \in [Controls -> [live : BOOLEAN, used : BOOLEAN,
                                  ptr : 0..MaxObjects, count : 0..MaxControls]]
    <3>1. control[c] \in [live : BOOLEAN, used : BOOLEAN, ptr : 0..MaxObjects, count : 0..MaxControls]
      BY <1>1, <1>4 DEF PtrShape
    <3>2. [control[c] EXCEPT !.live = FALSE]
            \in [live : BOOLEAN, used : BOOLEAN, ptr : 0..MaxObjects, count : 0..MaxControls]
      BY <3>1
    <3>. QED
      BY <1>1, <1>2, <1>4, <1>5, <3>2 DEF PtrShape
  <2>3. object' \in [PtrObjects -> {"unused", "live", "deleted"}]
    BY <1>1, <1>2, <1>4, <1>5 DEF PtrShape
  <2>4. NotDestroying \in [at : {"out", "write", "test"}, slot : Slots \union {None}, read : Nat]
    BY DEF NotDestroying
  <2>5. destroying' \in [PtrThreads -> [at : {"out", "write", "test"},
                                       slot : Slots \union {None}, read : Nat]]
    BY <1>1, <1>2, <1>4, <1>5, <2>4 DEF PtrShape
  <2>. QED
    BY <1>1, <1>2, <1>4, <1>5, <2>1, <2>2, <2>3, <2>5 DEF PtrShape
<1>20. Families'
  <2>1. \A d \in Allocated : last /\ control[d].ptr = o /\ o # None => instances[control[d].count] = 0
    BY <1>1, <1>4 DEF Families
  <2>2. \A d \in Allocated : control'[d].ptr # None =>
          /\ object'[control'[d].ptr] # "unused"
          /\ object'[control'[d].ptr] = "deleted" => instances[control'[d].count] = 0
    BY <1>1, <1>13, <1>14, <1>15, <1>16, <1>17, <1>18, <2>1 DEF Families
  <2>3. \A d \in Allocated : control'[d].ptr = control[d].ptr /\ control'[d].count = control[d].count
    BY <1>17, <1>14
  <2>4. instances' = instances /\ misuse' = misuse
    BY <1>5
  <2>. HIDE DEF last
  <2>. QED
    BY <1>1, <1>17, <2>2, <2>3, <2>4 DEF Families
<1>21. SlotsLive'
  <2>1. ASSUME NEW y \in Slots, y # s, slot[y] # None
        PROVE  /\ slot[y] \in Allocated /\ control'[slot[y]].live
               /\ control'[slot[y]].ptr # None => object'[control'[slot[y]].ptr] = "live"
    <3>1. /\ slot[y] \in Allocated /\ control[slot[y]].live
          /\ control[slot[y]].ptr # None => object[control[slot[y]].ptr] = "live"
      BY <1>1, <2>1 DEF SlotsLive
    <3>. QED
      BY <1>11, <1>13, <1>14, <1>15, <1>16, <1>17, <1>18, <2>1, <3>1
  <2>2. ASSUME NEW y \in Slots, slot'[y] # None
        PROVE  /\ slot'[y] \in Allocated /\ control'[slot'[y]].live
               /\ control'[slot'[y]].ptr # None => object'[control'[slot'[y]].ptr] = "live"
    <3>1. y # s /\ slot'[y] = slot[y]
      BY <1>13, <2>2
    <3>. QED
      BY <2>1, <2>2, <3>1
  <2>3. weak' # None => weak' \in Allocated
    BY <1>1, <1>5 DEF SlotsLive
  <2>. QED
    BY <1>17, <2>2, <2>3 DEF SlotsLive
<1>22. \A y \in Slots : y # s /\ slot[y] # None => CounterOf(y)' = CounterOf(y)
  BY <1>1, <1>13, <1>14, <1>15, <1>16, <1>17 DEF CounterOf, SlotsLive
<1>23. Destructors'
  <2>1. ~Leaves(t)' /\ destroying'[t].at = "out"
    BY <1>13, <1>14, <1>15, <1>16 DEF NotDestroying, Leaves
  <2>2. \A u \in PtrThreads \ {t} : Leaves(u) =>
           destroying[u].slot \in Slots /\ slot[destroying[u].slot] # None
    BY LeftSlot
  <2>3. \A u \in PtrThreads \ {t} : Leaves(u)' <=> Leaves(u)
    BY <1>13, <1>14, <1>15, <1>16 DEF Leaves
  <2>4. \A u \in PtrThreads \ {t} : Leaves(u) =>
           /\ slot'[destroying[u].slot] = slot[destroying[u].slot]
           /\ CounterOf(destroying[u].slot)' = CounterOf(destroying[u].slot)
    <3>1. ASSUME NEW u \in PtrThreads \ {t}, Leaves(u)
          PROVE  /\ slot'[destroying[u].slot] = slot[destroying[u].slot]
                 /\ control'[slot[destroying[u].slot]].count = control[slot[destroying[u].slot]].count
      BY <1>8, <1>13, <1>14, <1>15, <1>16, <1>17, <3>1, LeftSlot
    <3>. QED
      BY <1>13, <1>14, <1>15, <1>16, <3>1 DEF CounterOf
  <2>5. ASSUME NEW u \in PtrThreads
        PROVE  /\ Leaves(u)' <=> destroying'[u].at # "out"
               /\ Leaves(u)' => slot'[destroying'[u].slot] # None
               /\ destroying'[u].at = "write" =>
                     destroying'[u].read = instances'[CounterOf(destroying[u].slot)']
               /\ \A v \in PtrThreads \ {u} : Leaves(u)' /\ Leaves(v)' =>
                     CounterOf(destroying[u].slot)' # CounterOf(destroying[v].slot)'
    <3>1. CASE u = t
      BY <2>1, <3>1
    <3>2. CASE u # t
      <4>1. /\ destroying'[u] = destroying[u] /\ instances' = instances
            /\ Leaves(u) <=> destroying[u].at # "out"
            /\ destroying[u].at = "write" =>
                  destroying[u].read = instances[CounterOf(destroying[u].slot)]
        BY <1>1, <1>16, <1>5, <3>2 DEF Destructors
      <4>2. \A v \in PtrThreads \ {u} : v # t /\ Leaves(u) /\ Leaves(v) =>
               CounterOf(destroying[u].slot)' # CounterOf(destroying[v].slot)'
        <5>1. \A v \in PtrThreads \ {u} : Leaves(u) /\ Leaves(v) =>
                 CounterOf(destroying[u].slot) # CounterOf(destroying[v].slot)
          BY <1>1 DEF Destructors
        <5>. QED
          BY <2>4, <3>2, <5>1
      <4>. QED
        BY <2>1, <2>2, <2>3, <2>4, <3>2, <4>1, <4>2
    <3>. QED
      BY <3>1, <3>2
  <2>. QED
    BY <2>5 DEF Destructors
<1>24. Counts'
  <2>1. \A y \in Slots \ {s}, u \in PtrThreads :
           (destroying'[u].at = "test" /\ destroying'[u].slot = y)
              <=> (destroying[u].at = "test" /\ destroying[u].slot = y)
    <3>1. ASSUME NEW y \in Slots \ {s}
          PROVE  /\ ~(destroying'[t].at = "test") /\ destroying[t].slot # y
      BY <1>4, <1>16 DEF NotDestroying
    <3>. QED
      BY <1>16, <3>1
  <2>2. \A j \in Controls : s \notin Counted(j) /\ s \notin Counted(j)'
    BY <1>2, <1>4, <1>5, <1>13, <1>14, <1>15, <1>16 DEF Counted
  <2>3. \A j \in Controls : Counted(j)' = Counted(j)
    BY <1>13, <1>14, <1>15, <1>16, <1>22, <2>1, <2>2 DEF Counted
  <2>. QED
    BY <1>1, <1>2, <1>4, <1>5, <2>3 DEF Counts
<1>25. Owned'
  <2>. SUFFICES ASSUME misuse = {}, NEW e \in PtrObjects, object'[e] = "live"
                PROVE  \E y \in Slots : slot'[y] # None /\ control'[slot'[y]].ptr = e
    BY <1>2, <1>4, <1>5 DEF Owned
  <2>1. object[e] = "live" /\ ~(last /\ e = o)
    BY <1>13, <1>14, <1>15, <1>16
  <2>2. PICK y \in Slots : slot[y] # None /\ control[slot[y]].ptr = e
    BY <1>1, <2>1 DEF Owned
  <2>3. \E z \in Slots : z # s /\ slot[z] # None /\ control[slot[z]].ptr = e
    <3>1. CASE y # s
      BY <2>2, <3>1
    <3>2. CASE y = s
      <4>1. e = o /\ ~last
        BY <1>4, <2>1, <2>2, <3>2
      <4>2. Counted(k) # {}
        BY <1>1, <1>4, <4>1, FS_EmptySet DEF Counts
      <4>3. PICK z \in Slots : z # s /\ slot[z] # None /\ CounterOf(z) = k
        BY <1>9, <4>2 DEF Counted
      <4>4. slot[z] \in Allocated /\ control[slot[z]].count = k
        BY <1>1, <4>3 DEF SlotsLive, CounterOf
      <4>5. control[slot[z]].ptr = o
        BY <1>1, <1>4, <4>4 DEF Families
      <4>. QED
        BY <4>1, <4>3, <4>5
    <3>. QED
      BY <3>1, <3>2
  <2>4. PICK z \in Slots : z # s /\ slot[z] # None /\ control[slot[z]].ptr = e
    BY <2>3
  <2>5. slot'[z] = slot[z] /\ control'[slot[z]].ptr = e
    BY <1>1, <1>13, <1>14, <1>15, <1>16, <1>17, <2>4 DEF SlotsLive
  <2>. QED
    BY <2>4, <2>5
<1>. QED
  BY <1>1, <1>7, <1>19, <1>20, <1>21, <1>23, <1>24, <1>25 DEF Sound

-----------------------------------------------------------------------------
(* The operations. *)

(* What a pointer that may be used refers to.                              *)
LEMMA UsableSource ==
    ASSUME Sound, NEW x \in Slots, Usable(x)
    PROVE  /\ slot[x] \in Allocated /\ slot[x] \in Controls /\ slot[x] # None
           /\ control[slot[x]].live /\ CounterOf(x) \in Controls
           /\ control[slot[x]].count = CounterOf(x) /\ instances[CounterOf(x)] >= 1
           /\ control[slot[x]].ptr # None => object[control[slot[x]].ptr] = "live"
           /\ \A c \in Controls : [control EXCEPT ![c] = control[c]] = control
<1>1. slot[x] # None /\ ~Leaving(x)
  BY PtrAssumption DEF Usable, Held, Controls, None
<1>2. /\ slot[x] \in Allocated /\ control[slot[x]].live
      /\ control[slot[x]].ptr # None => object[control[slot[x]].ptr] = "live"
  BY <1>1 DEF Sound, SlotsLive
<1>3. CounterOf(x) \in Controls
  BY <1>2 DEF Sound, Families, CounterOf, Allocated
<1>4. x \in Counted(CounterOf(x))
  BY <1>1 DEF Counted, Leaving
<1>5. instances[CounterOf(x)] >= Cardinality(Counted(CounterOf(x))) /\ instances[CounterOf(x)] \in Nat
  BY <1>3 DEF Sound, Counts, PtrShape
<1>6. Cardinality(Counted(CounterOf(x))) >= 1 /\ Cardinality(Counted(CounterOf(x))) \in Nat
  BY <1>4, CountedFinite
<1>7. instances[CounterOf(x)] >= 1
  BY <1>5, <1>6
<1>8. \A c \in Controls : [control EXCEPT ![c] = control[c]] = control
  BY DEF Sound, PtrShape
<1>. QED
  BY <1>1, <1>2, <1>3, <1>7, <1>8 DEF CounterOf, Allocated

(* No destructor works on a counter a thread was alone with.               *)
LEMMA NotRacing ==
    ASSUME Sound, NEW t \in PtrThreads, destroying[t].at = "out", NEW k, ~Raced(k, t)
    PROVE  \A u \in PtrThreads : Leaves(u) => CounterOf(destroying[u].slot) # k
  BY DEF Sound, Destructors, Raced, Leaves

(* Copies, casts and locks add a sharer.                                   *)
LEMMA SharingSteps ==
    ASSUME Sound, misuse' \subseteq {"assign"}, NEW t \in PtrThreads, NEW s \in Slots, NEW x \in Slots,
           PtrCopyConstruct(t, s, x) \/ PtrCopyAssign(t, s, x) \/ PtrCast(t, s, x)
    PROVE  Sound'
<1>1. /\ Usable(x) /\ destroying[t].at = "out"
      /\ Increment(CounterOf(x)) /\ Racing(CounterOf(x), t) \subseteq misuse'
      /\ object' = object /\ weak' = weak /\ destroying' = destroying /\ ptr_fault' = ptr_fault
      /\ misuse \subseteq misuse'
  BY DEF PtrCopyConstruct, PtrCopyAssign, PtrCast, Runs
<1>. DEFINE d == slot[x]
            k == CounterOf(x)
<1>2. /\ d \in Allocated /\ d \in Controls /\ control[d].live /\ k \in Controls
      /\ control[d].count = k /\ instances[k] >= 1
      /\ control[d].ptr # None => object[control[d].ptr] = "live"
      /\ [control EXCEPT ![d] = control[d]] = control
  BY <1>1, UsableSource
<1>3. \A u \in PtrThreads : Leaves(u) => CounterOf(destroying[u].slot) # k
  <2>1. ~Raced(k, t)
    BY <1>1 DEF Racing
  <2>. QED
    BY <1>1, <2>1, NotRacing
<1>4. instances' = [instances EXCEPT ![k] = @ + 1]
  BY <1>1 DEF Increment
<1>5. Constructible(s) => slot[s] = None /\ ~Leaving(s)
  BY LeftSlot, PtrAssumption DEF Constructible, Leaving, Leaves
<1>6. CASE PtrCopyConstruct(t, s, x)
  <2>1. slot[s] = None /\ ~Leaving(s) /\ slot' = [slot EXCEPT ![s] = d] /\ control' = control
    BY <1>5, <1>6 DEF PtrCopyConstruct
  <2>. HIDE DEF d, k
  <2>. QED
    BY <1>1, <1>2, <1>3, <1>4, <2>1, Shares
<1>7. CASE PtrCopyAssign(t, s, x)
  <2>1. /\ ~Leaving(s) /\ slot' = [slot EXCEPT ![s] = d] /\ control' = control /\ misuse' # {}
    BY <1>7 DEF PtrCopyAssign, Usable, Held
  <2>. HIDE DEF d, k
  <2>. QED
    BY <1>1, <1>2, <1>3, <1>4, <2>1, Shares
<1>8. CASE PtrCast(t, s, x)
  <2>1. slot[s] = None /\ ~Leaving(s)
    BY <1>5, <1>8 DEF PtrCast
  <2>2. PICK c \in Controls : /\ control[c] = Unallocated
                              /\ control' = [control EXCEPT ![c] = control[d]]
                              /\ slot' = [slot EXCEPT ![s] = c]
    <3>1. DOMAIN control = Controls
      BY DEF Sound, PtrShape
    <3>. QED
      BY <1>8, <3>1 DEF PtrCast, Fresh
  <2>3. c \notin Allocated
    BY <2>2 DEF Allocated, Unallocated
  <2>. HIDE DEF d, k
  <2>. QED
    BY <1>1, <1>2, <1>3, <1>4, <2>1, <2>2, <2>3, Shares
<1>. QED
  BY <1>6, <1>7, <1>8

(* The lock of a weak pointer whose object others still hold.              *)
LEMMA LockStep ==
    ASSUME Sound, misuse' \subseteq {"assign"}, NEW t \in PtrThreads, NEW s \in Slots, WeakLock(t, s)
    PROVE  Sound'
<1>1. /\ destroying[t].at = "out" /\ slot[s] = None /\ weak # None
      /\ object' = object /\ weak' = weak /\ destroying' = destroying /\ control' = control
  BY DEF WeakLock, Runs, Constructible
<1>2. weak \in Allocated /\ weak \in Controls
  BY <1>1 DEF Sound, SlotsLive, Allocated
<1>. DEFINE k == control[weak].count
<1>3. control[weak].live
  BY DEF WeakLock
<1>4. /\ instances' = [instances EXCEPT ![k] = @ + 1] /\ slot' = [slot EXCEPT ![s] = weak]
      /\ ptr_fault' = ptr_fault /\ misuse \subseteq misuse' /\ Racing(k, t) \subseteq misuse'
      /\ instances[k] # 0
  BY <1>3 DEF WeakLock, Increment
<1>5. k \in Controls /\ instances[k] >= 1
  <2>1. k \in Controls
    BY <1>2 DEF Sound, Families, Allocated
  <2>. QED
    BY <1>4, <2>1 DEF Sound, PtrShape
<1>6. control[weak].ptr # None => object[control[weak].ptr] = "live"
  <2>. SUFFICES ASSUME control[weak].ptr # None PROVE object[control[weak].ptr] = "live"
    OBVIOUS
  <2>1. object[control[weak].ptr] # "unused" /\ object[control[weak].ptr] # "deleted"
    BY <1>2, <1>4 DEF Sound, Families
  <2>2. control[weak].ptr \in PtrObjects
    <3>1. control[weak].ptr \in 0..MaxObjects
      BY <1>2 DEF Sound, PtrShape
    <3>. QED
      BY <3>1, PtrAssumption DEF None, PtrObjects
  <2>3. object[control[weak].ptr] \in {"unused", "live", "deleted"}
    BY <2>2 DEF Sound, PtrShape
  <2>. QED
    BY <2>1, <2>3
<1>7. \A u \in PtrThreads : Leaves(u) => CounterOf(destroying[u].slot) # k
  <2>1. ~Raced(k, t)
    BY <1>4 DEF Racing
  <2>. QED
    BY <1>1, <2>1, NotRacing
<1>8. ~Leaving(s)
  BY <1>1, LeftSlot, PtrAssumption DEF Leaving, Leaves
<1>9. [control EXCEPT ![weak] = control[weak]] = control
  BY <1>2 DEF Sound, PtrShape
<1>10. control[weak].count = k
  OBVIOUS
<1>. HIDE DEF k
<1>. QED
  BY <1>1, <1>2, <1>3, <1>4, <1>5, <1>6, <1>7, <1>8, <1>9, <1>10, Shares

(* Pointers exchanged, and a weak pointer made.                            *)
LEMMA MovingSteps ==
    ASSUME Sound, misuse' \subseteq {"assign"}, NEW s \in Slots, NEW x \in Slots,
           PtrMoveConstruct(s, x) \/ PtrMoveAssign(s, x) \/ WeakFrom(x)
    PROVE  Sound'
<1>1. CASE PtrMoveConstruct(s, x)
  <2>1. slot[s] = None /\ Usable(x)
    BY <1>1 DEF PtrMoveConstruct, Constructible
  <2>2. slot[x] # None /\ ~Leaving(x) /\ ~Leaving(s)
    BY <2>1, UsableSource, LeftSlot, PtrAssumption DEF Usable, Held, Leaving, Leaves
  <2>3. /\ slot' = [slot EXCEPT ![s] = slot[x], ![x] = slot[s]]
        /\ UNCHANGED <<control, instances, object, weak, destroying, ptr_fault, misuse>>
    <3>1. PICK g \in {None, Garbage} :
             /\ slot' = [slot EXCEPT ![s] = slot[x], ![x] = g]
             /\ misuse' = IF g = None THEN misuse ELSE misuse \union {"move"}
      BY <1>1 DEF PtrMoveConstruct
    <3>2. g = None
      BY <3>1
    <3>3. UNCHANGED <<control, instances, object, weak, destroying, ptr_fault>>
      BY <1>1 DEF PtrMoveConstruct
    <3>. QED
      BY <2>1, <3>1, <3>2, <3>3
  <2>. QED
    BY <2>1, <2>2, <2>3, Moves
<1>2. CASE PtrMoveAssign(s, x)
  BY <1>2, Moves DEF PtrMoveAssign, Usable, Held
<1>3. CASE WeakFrom(x)
  <2>1. /\ Usable(x) /\ weak' = slot[x] /\ slot' = slot /\ control' = control
        /\ instances' = instances /\ object' = object /\ destroying' = destroying
        /\ misuse' = misuse /\ ptr_fault' = ptr_fault
    BY <1>3 DEF WeakFrom
  <2>2. slot[x] \in Allocated /\ slot[x] \in 0..MaxControls
    BY <2>1, UsableSource DEF Sound, PtrShape
  <2>3. /\ PtrShape /\ Families /\ SlotsLive /\ Destructors /\ Counts /\ Owned /\ ~ptr_fault
    BY DEF Sound
  <2>4. PtrShape'
    BY <2>1, <2>2, <2>3 DEF PtrShape
  <2>5. SlotsLive'
    BY <2>1, <2>2, <2>3 DEF SlotsLive, Allocated
  <2>6. Families' /\ Owned'
    BY <2>1, <2>3 DEF Families, Owned, Allocated
  <2>7. Destructors'
    BY <2>1, <2>3, DestructorsGoOn
  <2>8. Counts'
    <3>1. \A k \in Controls : Counted(k)' = Counted(k)
      BY <2>1 DEF Counted, CounterOf
    <3>. QED
      BY <2>1, <2>3, <3>1 DEF Counts
  <2>. QED
    BY <2>1, <2>3, <2>4, <2>5, <2>6, <2>7, <2>8 DEF Sound
<1>. QED
  BY <1>1, <1>2, <1>3

-----------------------------------------------------------------------------
(* The specification. *)

(* There are no pointers at the beginning.                                 *)
LEMMA PtrBegins ==
    PtrInit => PtrInv
<1>. SUFFICES ASSUME PtrInit PROVE Sound
  BY DEF PtrInv
<1>1. /\ slot = [s \in Slots |-> None] /\ control = [c \in Controls |-> Unallocated]
      /\ instances = [c \in Controls |-> 0] /\ object = [o \in PtrObjects |-> "unused"]
      /\ weak = None /\ destroying = [t \in PtrThreads |-> NotDestroying]
      /\ misuse = {} /\ ptr_fault = FALSE
  BY DEF PtrInit
<1>2. PtrShape
  <2>1. Unallocated \in [live : BOOLEAN, used : BOOLEAN, ptr : 0..MaxObjects, count : 0..MaxControls]
    BY PtrAssumption DEF Unallocated, None
  <2>2. NotDestroying \in [at : {"out", "write", "test"}, slot : Slots \union {None}, read : Nat]
    BY DEF NotDestroying
  <2>3. None \in 0..MaxControls
    BY PtrAssumption DEF None
  <2>. QED
    BY <1>1, <2>1, <2>2, <2>3 DEF PtrShape
<1>3. Allocated = {}
  BY <1>1 DEF Allocated, Unallocated
<1>4. \A s \in Slots : slot[s] = None
  BY <1>1
<1>5. Families /\ SlotsLive
  BY <1>1, <1>3, <1>4 DEF Families, SlotsLive
<1>6. Destructors
  BY <1>1 DEF Destructors, Leaves, NotDestroying
<1>7. Counts
  <2>1. \A k \in Controls : Counted(k) = {} /\ instances[k] = 0
    BY <1>1, <1>4 DEF Counted
  <2>. QED
    BY <2>1, FS_EmptySet DEF Counts
<1>8. Owned
  BY <1>1 DEF Owned
<1>. QED
  BY <1>1, <1>2, <1>5, <1>6, <1>7, <1>8 DEF Sound

(* Every operation keeps the invariant, or is a misuse.                    *)
LEMMA PtrGoesOn ==
    PtrInv /\ [PtrNext]_ptr_vars => PtrInv'
<1>. SUFFICES ASSUME PtrInv, [PtrNext]_ptr_vars, misuse' \subseteq {"assign"} PROVE Sound'
  BY DEF PtrInv
<1>1. CASE UNCHANGED ptr_vars
  <2>1. /\ slot' = slot /\ control' = control /\ instances' = instances /\ object' = object
        /\ weak' = weak /\ destroying' = destroying /\ misuse' = misuse /\ ptr_fault' = ptr_fault
    BY <1>1 DEF ptr_vars
  <2>2. Sound
    BY <2>1 DEF PtrInv
  <2>3. Destructors'
    BY <2>1, <2>2, DestructorsGoOn DEF Sound
  <2>4. Counts'
    <3>1. \A k \in Controls : Counted(k)' = Counted(k)
      BY <2>1 DEF Counted, CounterOf
    <3>. QED
      BY <2>1, <2>2, <3>1 DEF Counts, Sound
  <2>. QED
    BY <2>1, <2>2, <2>3, <2>4 DEF Sound, PtrShape, Families, SlotsLive, Owned, Allocated
<1>2. CASE PtrNext
  <2>1. PtrRuns
    BY <1>2, ZenonT(60) DEF PtrNext, PtrConstruct, PtrAssignRaw, WeakFrom, PtrMoveConstruct, PtrMoveAssign,
                PtrCopyConstruct, PtrCopyAssign, PtrCast, PtrCastAssign, DestroyReads,
                WeakLock, DestroyWrites, DestroyTests, Runs
  <2>2. Sound
    BY <2>1 DEF PtrRuns, PtrInv
  <2>3. ASSUME NEW t \in PtrThreads, NEW s \in Slots, NEW x \in Slots, PtrCastAssign(t, s, x)
        PROVE  FALSE
    BY <2>3 DEF PtrCastAssign
  <2>. QED
    BY <1>2, <2>2, <2>3, Constructs, Replaces, SharingSteps, MovingSteps, Reads, Writes, Tests,
       LockStep DEF PtrNext
<1>. QED
  BY <1>1, <1>2

(* An object is live as long as a pointer holds it and deleted when the    *)
(* last one is gone, whatever threads construct, copy, cast, move and      *)
(* destroy, as long as two destructors do not work on one counter at once  *)
(* (pointers.h, ~ESharedPtr and the copying constructors); assignments     *)
(* leak at worst.                                                          *)
THEOREM ObjectsOwnedExactly ==
    PtrSpec => []OwnedExactly
<1>1. PtrInv => OwnedExactly
  <2>. SUFFICES ASSUME Sound
                PROVE  /\ ~ptr_fault
                       /\ \A o \in PtrObjects :
                             /\ object[o] = "deleted" => Holders(o) = {}
                             /\ misuse = {} /\ object[o] = "live" => Holders(o) # {}
    BY DEF PtrInv, OwnedExactly
  <2>1. \A o \in PtrObjects : o # None
    BY PtrAssumption DEF PtrObjects, None
  <2>2. \A s \in Slots : slot[s] # None <=> slot[s] \in Controls
    <3>1. \A s \in Slots : slot[s] \in 0..MaxControls
      BY DEF Sound, PtrShape
    <3>. QED
      BY <3>1, PtrAssumption DEF Controls, None
  <2>3. ASSUME NEW o \in PtrObjects, object[o] = "deleted" PROVE Holders(o) = {}
    BY <2>1, <2>2, <2>3 DEF Holders, Sound, SlotsLive
  <2>4. ASSUME NEW o \in PtrObjects, object[o] = "live", misuse = {} PROVE Holders(o) # {}
    BY <2>2, <2>4 DEF Holders, Sound, Owned
  <2>. QED
    BY <2>3, <2>4 DEF Sound
<1>. QED
  BY <1>1, PtrBegins, PtrGoesOn, PTL DEF PtrSpec
-----------------------------------------------------------------------------
(* EMalloc: the lists. *)

(* The blocks of a list.  Only a memory of no bytes has an empty one.      *)
Blocks == {b \in Block : b.index + b.size <= Top /\ (b.size >= 1 \/ Top = 0)}
Lists == Seq(Blocks)

(* q is the list with n put in at p, and the list without its node i.      *)
Inserts(q, list, n, p) ==
    /\ p \in 1..(Len(list) + 1) /\ Len(q) = Len(list) + 1 /\ q[p] = n
    /\ \A k \in 1..(p - 1) : q[k] = list[k]
    /\ \A k \in p..Len(list) : q[k + 1] = list[k]
Removes(q, list, i) ==
    /\ i \in 1..Len(list) /\ Len(q) = Len(list) - 1
    /\ \A k \in 1..(i - 1) : q[k] = list[k]
    /\ \A k \in i..Len(q) : q[k] = list[k + 1]

(* Blocks that share no byte, and a list that is clear of a block; lists   *)
(* whose blocks lie apart and are ordered by size, and what they cover.    *)
Apart(b, c) == b.index + b.size <= c.index \/ c.index + c.size <= b.index
Clear(list, b) == \A k \in 1..Len(list) : Apart(list[k], b)
Separate(list) == \A j, k \in 1..Len(list) : j # k => Apart(list[j], list[k])
Sorted(list) == \A j, k \in 1..Len(list) : j < k => list[j].size <= list[k].size
Members(list) == {list[k] : k \in 1..Len(list)}
Covers(list, a) == \E k \in 1..Len(list) : a \in Bytes(list[k])

(* The inductive invariant: the used list is what callers hold, and no     *)
(* block of it shares a byte with another one or with a free one.          *)
HeapInv ==
    /\ freed \in Lists /\ used \in Lists /\ Sorted(freed)
    /\ Separate(freed) /\ Separate(used)
    /\ held = Members(used)
    /\ \A b \in held : b.size >= 1 /\ Clear(freed, b)

(* A byte the first node described is lost when it is in no list.          *)
Accounts(f, u, l) ==
    \A a \in 0..(Top - 1) : a \in l <=> ~Covers(f, a) /\ ~Covers(u, a)
Accounted == freed # <<>> \/ used # <<>> => Accounts(freed, used, lost)

(* Two intervals, one behind the other, make one. *)
LEMMA AdjacentIntervals ==
    ASSUME NEW i \in Nat, NEW x \in Nat, NEW y \in Nat
    PROVE  \A a : a \in i..(i + (x + y) - 1) <=>
                     a \in i..(i + x - 1) \/ a \in (i + x)..(i + x + y - 1)
  OBVIOUS

(* The library's search returns the first position there is, or none.      *)
LEMMA FirstOf ==
    ASSUME NEW I \in SUBSET (Nat \ {0}), NEW r, r = IF I # {} THEN Min(I) ELSE 0
    PROVE  /\ r \in Nat
           /\ IF r = 0 THEN I = {} ELSE r \in I /\ \A k \in I : r <= k
<1>1. CASE I = {}
  BY <1>1
<1>2. CASE I # {}
  <2>1. \E m \in I : \A k \in I : m <= k
    <3>. DEFINE Less == {ss \in Nat \X Nat : ss[1] < ss[2]}
    <3>1. IsWellFoundedOn(Less, Nat)
      BY ONLY NatLessThanWellFounded, Zenon DEF OpToRel
    <3>2. PICK m \in I : \A k \in I : <<k, m>> \notin Less
      <4>. HIDE DEF Less
      <4>. QED
        BY <1>2, <3>1, WFMin
    <3>3. ASSUME NEW k \in I PROVE m <= k
      <4>1. ~(<<k, m>>[1] < <<k, m>>[2])
        BY <3>2
      <4>. QED
        BY <4>1
    <3>. QED
      BY <3>3
  <2>2. Min(I) \in I /\ \A k \in I : Min(I) <= k
    BY <2>1 DEF Min
  <2>. QED
    BY <1>2, <2>2
<1>. QED
  BY <1>1, <1>2

(* sizePosition: the first node the low word of the size fits.             *)
LEMMA SizePositions ==
    ASSUME NEW list, Len(list) \in Nat, NEW size
    PROVE  LET r == sizePosition(list, size)
               fits(k) == size % ArgWord <= list[k].size
           IN  /\ r \in 0..Len(list)
               /\ IF r = 0 THEN \A k \in 1..Len(list) : ~fits(k)
                  ELSE fits(r) /\ \A k \in 1..(r - 1) : ~fits(k)
<1>. DEFINE I == {k \in 1..Len(list) : size % ArgWord <= list[k].size}
            r == sizePosition(list, size)
<1>1. r = IF I # {} THEN Min(I) ELSE 0
  BY DEF sizePosition, SelectInSeq
<1>2. I \in SUBSET (Nat \ {0})
  OBVIOUS
<1>. HIDE DEF r
<1>3. /\ r \in Nat
      /\ IF r = 0 THEN I = {} ELSE r \in I /\ \A k \in I : r <= k
  <2>. HIDE DEF I
  <2>. QED
    BY <1>1, <1>2, FirstOf
<1>. QED
  BY <1>3 DEF r

(* ptrPosition and mergePosition: a node that begins, or ends, at byte p.  *)
LEMMA BytePositions ==
    ASSUME NEW list, Len(list) \in Nat, NEW p
    PROVE  /\ ptrPosition(list, p) \in 0..Len(list)
           /\ ptrPosition(list, p) # 0 => list[ptrPosition(list, p)].index = p
           /\ mergePosition(list, p) \in 0..Len(list)
           /\ mergePosition(list, p) # 0 =>
                 list[mergePosition(list, p)].index + list[mergePosition(list, p)].size = p
<1>. DEFINE I == {k \in 1..Len(list) : list[k].index = p}
            J == {k \in 1..Len(list) : list[k].index + list[k].size = p}
<1>1. ptrPosition(list, p) = IF I # {} THEN Min(I) ELSE 0
  BY DEF ptrPosition, SelectInSeq
<1>2. mergePosition(list, p) = IF J # {} THEN Min(J) ELSE 0
  BY DEF mergePosition, SelectInSeq
<1>3. I \in SUBSET (Nat \ {0}) /\ J \in SUBSET (Nat \ {0})
  OBVIOUS
<1>4. /\ ptrPosition(list, p) # 0 => ptrPosition(list, p) \in I
      /\ mergePosition(list, p) # 0 => mergePosition(list, p) \in J
  <2>. HIDE DEF I, J
  <2>. QED
    BY <1>1, <1>2, <1>3, FirstOf
<1>. QED
  BY <1>4

(* Two sequences of blocks in a row.                                       *)
LEMMA Joins ==
    ASSUME NEW h \in Lists, NEW t \in Lists
    PROVE  /\ h \o t \in Lists /\ Len(h \o t) = Len(h) + Len(t)
           /\ \A k \in 1..Len(h) : (h \o t)[k] = h[k]
           /\ \A k \in 1..Len(t) : (h \o t)[Len(h) + k] = t[k]
<1>1. Len(h) \in Nat /\ Len(t) \in Nat /\ h \in Seq(Blocks) /\ t \in Seq(Blocks)
  BY LenProperties DEF Lists
<1>2. /\ h \o t \in Seq(Blocks) /\ Len(h \o t) = Len(h) + Len(t)
      /\ \A k \in 1..(Len(h) + Len(t)) :
            (h \o t)[k] = IF k <= Len(h) THEN h[k] ELSE t[k - Len(h)]
  BY ONLY <1>1, ConcatProperties
<1>3. ASSUME NEW k \in 1..Len(h) PROVE (h \o t)[k] = h[k]
  <2>1. k \in 1..(Len(h) + Len(t)) /\ k <= Len(h)
    BY ONLY <1>1, <1>3
  <2>. QED
    BY <1>2, <2>1
<1>4. ASSUME NEW k \in 1..Len(t) PROVE (h \o t)[Len(h) + k] = t[k]
  <2>1. /\ Len(h) + k \in 1..(Len(h) + Len(t)) /\ ~(Len(h) + k <= Len(h))
        /\ Len(h) + k - Len(h) = k
    BY ONLY <1>1, <1>4
  <2>. QED
    BY <1>2, <2>1
<1>. QED
  BY <1>2, <1>3, <1>4 DEF Lists

(* The first and the last nodes of a list.                                 *)
LEMMA Parts ==
    ASSUME NEW list \in Lists, NEW a \in Nat \ {0}, NEW b \in Nat, b <= Len(list), a <= b + 1
    PROVE  /\ SubSeq(list, a, b) \in Lists /\ Len(SubSeq(list, a, b)) = b + 1 - a
           /\ \A k \in 1..(b + 1 - a) : SubSeq(list, a, b)[k] = list[a + k - 1]
<1>1. list \in Seq(Blocks) /\ Len(list) \in Nat /\ \A k \in a..b : list[k] \in Blocks
  BY LenProperties, ElementOfSeq DEF Lists
<1>2. /\ SubSeq(list, a, b) \in Seq(Blocks)
      /\ Len(SubSeq(list, a, b)) = IF a <= b THEN b - a + 1 ELSE 0
      /\ \A k \in 1..(b - a + 1) : SubSeq(list, a, b)[k] = list[a + k - 1]
  BY <1>1, SubSeqProperties, SMTT(60)
<1>3. b - a + 1 = b + 1 - a /\ (~(a <= b) => b + 1 - a = 0)
  OBVIOUS
<1>. QED
  BY <1>2, <1>3 DEF Lists

(* A list of one block.                                                    *)
LEMMA Alone ==
    ASSUME NEW n \in Blocks
    PROVE  <<n>> \in Lists /\ Len(<<n>>) = 1 /\ <<n>>[1] = n
<1>1. <<n>> = [k \in 1..1 |-> n]
  OBVIOUS
<1>2. <<n>> \in [1..1 -> Blocks]
  BY <1>1
<1>. QED
  BY <1>2, SeqDef DEF Lists

(* The nodes before node i.                                                *)
LEMMA Begins ==
    ASSUME NEW list \in Lists, NEW i \in 1..Len(list)
    PROVE  /\ SubSeq(list, 1, i - 1) \in Lists /\ Len(SubSeq(list, 1, i - 1)) = i - 1
           /\ \A k \in 1..(i - 1) : SubSeq(list, 1, i - 1)[k] = list[k]
<1>. DEFINE h == SubSeq(list, 1, i - 1)
<1>1. Len(list) \in Nat
  BY LenProperties DEF Lists
<1>2. /\ h \in Lists /\ Len(h) = i - 1 + 1 - 1
      /\ \A k \in 1..(i - 1 + 1 - 1) : h[k] = list[1 + k - 1]
  BY <1>1, Parts
<1>. HIDE DEF h
<1>3. ASSUME NEW k \in 1..(i - 1) PROVE h[k] = list[k]
  <2>1. k \in 1..(i - 1 + 1 - 1) /\ 1 + k - 1 = k
    OBVIOUS
  <2>. QED
    BY <1>2, <2>1
<1>4. Len(h) = i - 1
  BY <1>2
<1>. QED
  BY <1>2, <1>3, <1>4 DEF h

(* A list without its node i.                                              *)
LEMMA Removed ==
    ASSUME NEW list \in Lists, NEW i \in 1..Len(list)
    PROVE  /\ RemoveAt(list, i) \in Lists
           /\ Removes(RemoveAt(list, i), list, i)
<1>. DEFINE h == SubSeq(list, 1, i - 1)
            t == SubSeq(list, i + 1, Len(list))
            q == h \o t
<1>1. Len(list) \in Nat
  BY LenProperties DEF Lists
<1>2. /\ h \in Lists /\ Len(h) = i - 1
      /\ \A k \in 1..(i - 1) : h[k] = list[k]
  BY <1>1, Begins
<1>3. /\ t \in Lists /\ Len(t) = Len(list) - i
      /\ \A k \in 1..(Len(list) - i) : t[k] = list[i + k]
  <2>1. /\ t \in Lists /\ Len(t) = Len(list) + 1 - (i + 1)
        /\ \A k \in 1..(Len(list) + 1 - (i + 1)) : t[k] = list[i + 1 + k - 1]
    BY <1>1, Parts
  <2>2. ASSUME NEW k \in 1..(Len(list) - i) PROVE t[k] = list[i + k]
    <3>1. k \in 1..(Len(list) + 1 - (i + 1)) /\ i + 1 + k - 1 = i + k
      BY <1>1
    <3>. QED
      BY <2>1, <3>1
  <2>. QED
    BY <1>1, <2>1, <2>2
<1>4. RemoveAt(list, i) = q
  BY DEF RemoveAt
<1>. HIDE DEF h, t
<1>5. /\ q \in Lists /\ Len(q) = Len(h) + Len(t)
      /\ \A k \in 1..Len(h) : q[k] = h[k]
      /\ \A k \in 1..Len(t) : q[Len(h) + k] = t[k]
  BY <1>2, <1>3, Joins
<1>. HIDE DEF q
<1>6. Len(q) = Len(list) - 1
  BY <1>1, <1>2, <1>3, <1>5
<1>7. ASSUME NEW k \in 1..(i - 1) PROVE q[k] = list[k]
  BY <1>2, <1>5
<1>8. ASSUME NEW k \in i..Len(q) PROVE q[k] = list[k + 1]
  <2>. DEFINE j == k - i + 1
  <2>1. /\ j \in 1..(Len(list) - i) /\ j \in 1..Len(t) /\ Len(h) + j = k
        /\ i + j = k + 1
    BY <1>1, <1>2, <1>3, <1>6
  <2>. HIDE DEF j
  <2>2. q[Len(h) + j] = t[j] /\ t[j] = list[i + j]
    BY <1>3, <1>5, <2>1
  <2>. QED
    BY <2>1, <2>2
<1>. QED
  BY <1>4, <1>5, <1>6, <1>7, <1>8 DEF Removes

(* A list with a node put in before its node i.                            *)
LEMMA Inserted ==
    ASSUME NEW list \in Lists, NEW i \in 1..Len(list), NEW n \in Blocks
    PROVE  /\ InsertAt(list, i, n) \in Lists
           /\ Inserts(InsertAt(list, i, n), list, n, i)
<1>. DEFINE h == SubSeq(list, 1, i - 1)
            t == SubSeq(list, i, Len(list))
            o == <<n>>
<1>1. Len(list) \in Nat
  BY LenProperties DEF Lists
<1>2. /\ h \in Lists /\ Len(h) = i - 1
      /\ \A k \in 1..(i - 1) : h[k] = list[k]
  BY Begins
<1>3. /\ t \in Lists /\ Len(t) = Len(list) + 1 - i
      /\ \A k \in 1..(Len(list) + 1 - i) : t[k] = list[i + k - 1]
  BY <1>1, Parts
<1>4. o \in Lists /\ Len(o) = 1 /\ o[1] = n
  BY Alone
<1>5. InsertAt(list, i, n) = (h \o o) \o t
  BY DEF InsertAt
<1>. HIDE DEF h, t, o
<1>. DEFINE ho == h \o o
            q == ho \o t
<1>6. /\ ho \in Lists /\ Len(ho) = i
      /\ \A k \in 1..(i - 1) : ho[k] = list[k]
      /\ ho[i] = n
  <2>1. /\ ho \in Lists /\ Len(ho) = Len(h) + Len(o)
        /\ \A k \in 1..Len(h) : ho[k] = h[k]
        /\ \A k \in 1..Len(o) : ho[Len(h) + k] = o[k]
    BY <1>2, <1>4, Joins
  <2>. HIDE DEF ho
  <2>2. 1 \in 1..Len(o) /\ Len(h) + 1 = i /\ Len(ho) = i
    BY <1>2, <1>4, <2>1
  <2>3. ho[i] = n
    BY <1>4, <2>1, <2>2
  <2>4. ASSUME NEW k \in 1..(i - 1) PROVE ho[k] = list[k]
    BY <1>2, <2>1
  <2>. QED
    BY <2>1, <2>2, <2>3, <2>4
<1>. HIDE DEF ho
<1>7. /\ q \in Lists /\ Len(q) = i + Len(t)
      /\ \A k \in 1..i : q[k] = ho[k]
      /\ \A k \in 1..Len(t) : q[i + k] = t[k]
  <2>1. /\ q \in Lists /\ Len(q) = Len(ho) + Len(t)
        /\ \A k \in 1..Len(ho) : q[k] = ho[k]
        /\ \A k \in 1..Len(t) : q[Len(ho) + k] = t[k]
    BY <1>3, <1>6, Joins
  <2>. HIDE DEF q
  <2>. QED
    BY <1>6, <2>1
<1>. HIDE DEF q
<1>8. Len(q) = Len(list) + 1
  BY <1>1, <1>3, <1>7
<1>9. q[i] = n /\ \A k \in 1..(i - 1) : q[k] = list[k]
  BY <1>6, <1>7
<1>10. ASSUME NEW k \in i..Len(list) PROVE q[k + 1] = list[k]
  <2>. DEFINE j == k - i + 1
  <2>1. /\ j \in 1..(Len(list) + 1 - i) /\ j \in 1..Len(t) /\ i + j = k + 1
        /\ i + j - 1 = k
    BY <1>1, <1>3
  <2>. HIDE DEF j
  <2>2. q[i + j] = t[j] /\ t[j] = list[i + j - 1]
    BY <1>3, <1>7, <2>1
  <2>. QED
    BY <2>1, <2>2
<1>11. InsertAt(list, i, n) = q
  BY <1>5 DEF q, ho
<1>. HIDE DEF q
<1>12. Inserts(q, list, n, i)
  <2>1. i \in 1..(Len(list) + 1)
    BY <1>1
  <2>. QED
    BY <1>8, <1>9, <1>10, <2>1 DEF Inserts
<1>. QED
  BY <1>7, <1>11, <1>12

(* Where the nodes of the longer list come from.                           *)
LEMMA InsertSources ==
    ASSUME NEW list, Len(list) \in Nat, NEW q, NEW n, NEW p, Inserts(q, list, n, p),
           NEW j \in 1..Len(q)
    PROVE  \/ j = p /\ q[j] = n
           \/ j < p /\ j \in 1..Len(list) /\ q[j] = list[j]
           \/ j > p /\ j - 1 \in 1..Len(list) /\ q[j] = list[j - 1]
<1>1. p \in 1..(Len(list) + 1) /\ j \in 1..(Len(list) + 1) /\ q[p] = n
  BY DEF Inserts
<1>2. CASE j < p
  BY <1>1, <1>2 DEF Inserts
<1>3. CASE j > p
  <2>. DEFINE k == j - 1
  <2>1. k \in p..Len(list) /\ k \in 1..Len(list) /\ j = k + 1
    BY <1>1, <1>3
  <2>2. \A m \in p..Len(list) : q[m + 1] = list[m]
    BY DEF Inserts
  <2>. HIDE DEF k
  <2>3. q[j] = list[k]
    BY <2>1, <2>2
  <2>. QED
    BY <1>3, <2>1, <2>3 DEF k
<1>. QED
  BY <1>1, <1>2, <1>3

(* Where the nodes of the shorter list come from.                          *)
LEMMA RemoveSources ==
    ASSUME NEW list, Len(list) \in Nat, NEW q, NEW i, Removes(q, list, i),
           NEW j \in 1..Len(q)
    PROVE  \/ j < i /\ j \in 1..Len(list) /\ q[j] = list[j]
           \/ j >= i /\ j + 1 \in 1..Len(list) /\ q[j] = list[j + 1]
<1>1. i \in 1..Len(list) /\ Len(q) = Len(list) - 1 /\ j \in 1..(Len(list) - 1)
  BY DEF Removes
<1>2. CASE j < i
  BY <1>1, <1>2 DEF Removes
<1>3. CASE j >= i
  <2>1. j \in i..Len(q) /\ j + 1 \in 1..Len(list)
    BY <1>1, <1>3
  <2>. QED
    BY <1>3, <2>1 DEF Removes
<1>. QED
  BY <1>1, <1>2, <1>3

(* memoryHeapPush puts the node before the first larger one.               *)
LEMMA Pushed ==
    ASSUME NEW list \in Lists, NEW n \in Blocks
    PROVE  LET q == memoryHeapPush(list, n)
           IN  /\ q \in Lists
               /\ \E p \in 1..(Len(list) + 1) :
                     /\ Inserts(q, list, n, p)
                     /\ \A k \in 1..(p - 1) : list[k].size <= n.size
                     /\ p <= Len(list) => list[p].size > n.size
<1>. DEFINE q == memoryHeapPush(list, n)
            I == {k \in 1..Len(list) : list[k].size > n.size}
            r == IF I # {} THEN Min(I) ELSE 0
<1>1. Len(list) \in Nat /\ n.size \in Nat /\ \A k \in 1..Len(list) : list[k].size \in Nat
  <2>1. Len(list) \in Nat /\ \A k \in 1..Len(list) : list[k] \in Blocks
    BY LenProperties, ElementOfSeq DEF Lists
  <2>. QED
    BY <2>1, EMallocAssumption DEF Blocks, Block
<1>2. q = IF r = 0 THEN Append(list, n) ELSE InsertAt(list, r, n)
  BY DEF memoryHeapPush, SelectInSeq
<1>3. /\ r \in Nat
      /\ IF r = 0 THEN I = {} ELSE r \in I /\ \A k \in I : r <= k
  <2>1. I \in SUBSET (Nat \ {0})
    OBVIOUS
  <2>. HIDE DEF I
  <2>. QED
    BY <2>1, FirstOf
<1>. HIDE DEF q, r
<1>4. CASE r = 0
  <2>1. /\ q \in Lists /\ Len(q) = Len(list) + 1 /\ q[Len(list) + 1] = n
        /\ \A k \in 1..Len(list) : q[k] = list[k]
    BY <1>2, <1>4, AppendProperties DEF Lists
  <2>2. \A k \in 1..Len(list) : list[k].size <= n.size
    BY <1>1, <1>3, <1>4
  <2>. DEFINE p == Len(list) + 1
  <2>3. p \in 1..(Len(list) + 1) /\ p - 1 = Len(list) /\ ~(p <= Len(list))
    BY <1>1
  <2>4. Inserts(q, list, n, p)
    BY <1>1, <2>1, <2>3 DEF Inserts
  <2>. HIDE DEF p
  <2>. QED
    BY <2>1, <2>2, <2>3, <2>4 DEF q
<1>5. CASE r # 0
  <2>1. r \in 1..Len(list) /\ list[r].size > n.size
    BY <1>3, <1>5
  <2>2. q \in Lists /\ Inserts(q, list, n, r)
    BY <1>2, <1>5, <2>1, Inserted
  <2>3. ASSUME NEW k \in 1..(r - 1) PROVE list[k].size <= n.size
    <3>1. k \in 1..Len(list) /\ ~(r <= k)
      BY <1>1, <2>1
    <3>2. k \notin I
      BY <1>3, <1>5, <3>1
    <3>. QED
      BY <1>1, <3>1, <3>2
  <2>4. r \in 1..(Len(list) + 1)
    BY <1>1, <2>1
  <2>. QED
    BY <2>1, <2>2, <2>3, <2>4 DEF q
<1>. QED
  BY <1>4, <1>5

(* Every node is in the longer list, behind the new one or before it.      *)
LEMMA InsertTargets ==
    ASSUME NEW list, Len(list) \in Nat, NEW q, NEW n, NEW p, Inserts(q, list, n, p),
           NEW k \in 1..Len(list)
    PROVE  \E j \in 1..Len(q) : q[j] = list[k]
<1>1. p \in 1..(Len(list) + 1) /\ Len(q) = Len(list) + 1
  BY DEF Inserts
<1>2. CASE k < p
  <2>1. k \in 1..Len(q) /\ q[k] = list[k]
    BY <1>1, <1>2 DEF Inserts
  <2>. QED
    BY <2>1
<1>3. CASE ~(k < p)
  <2>1. k \in p..Len(list) /\ k + 1 \in 1..Len(q)
    BY <1>1, <1>3
  <2>2. q[k + 1] = list[k]
    BY <2>1 DEF Inserts
  <2>. QED
    BY <2>1, <2>2
<1>. QED
  BY <1>2, <1>3

(* Every node but the removed one is in the shorter list.                  *)
LEMMA RemoveTargets ==
    ASSUME NEW list, Len(list) \in Nat, NEW q, NEW i, Removes(q, list, i),
           NEW k \in 1..Len(list), k # i
    PROVE  \E j \in 1..Len(q) : q[j] = list[k]
<1>1. i \in 1..Len(list) /\ Len(q) = Len(list) - 1
  BY DEF Removes
<1>2. CASE k < i
  <2>1. k \in 1..Len(q) /\ k \in 1..(i - 1)
    BY <1>1, <1>2
  <2>2. q[k] = list[k]
    BY <2>1 DEF Removes
  <2>. QED
    BY <2>1, <2>2
<1>3. CASE ~(k < i)
  <2>. DEFINE j == k - 1
  <2>1. j \in 1..Len(q) /\ j \in i..Len(q) /\ j + 1 = k
    BY <1>1, <1>3
  <2>2. \A m \in i..Len(q) : q[m] = list[m + 1]
    BY DEF Removes
  <2>. HIDE DEF j
  <2>3. q[j] = list[k]
    BY <2>1, <2>2
  <2>. QED
    BY <2>1, <2>3
<1>. QED
  BY <1>2, <1>3

(* The numbers of a block.                                                 *)
LEMMA Fields ==
    ASSUME NEW list \in Lists
    PROVE  /\ Len(list) \in Nat
           /\ \A k \in 1..Len(list) :
                 list[k] \in Blocks /\ list[k].index \in Nat /\ list[k].size \in Nat
<1>1. Len(list) \in Nat /\ \A k \in 1..Len(list) : list[k] \in Blocks
  BY LenProperties, ElementOfSeq DEF Lists
<1>2. \A b \in Blocks : b.index \in Nat /\ b.size \in Nat
  BY EMallocAssumption DEF Blocks, Block
<1>. QED
  BY <1>1, <1>2

(* A pushed block joins what the list covers.  A list stays ordered, and   *)
(* its blocks stay apart when the block was clear of it.                   *)
LEMMA PushKeeps ==
    ASSUME NEW list \in Lists, NEW n \in Blocks
    PROVE  LET q == memoryHeapPush(list, n)
           IN  /\ q \in Lists /\ Len(q) >= 1
               /\ Sorted(list) => Sorted(q)
               /\ Separate(list) /\ Clear(list, n) => Separate(q)
               /\ \A b : Clear(list, b) /\ Apart(n, b) => Clear(q, b)
               /\ \A a : Covers(q, a) <=> Covers(list, a) \/ a \in Bytes(n)
               /\ Members(q) = Members(list) \union {n}
<1>. DEFINE q == memoryHeapPush(list, n)
<1>1. PICK p \in 1..(Len(list) + 1) :
         /\ q \in Lists /\ Inserts(q, list, n, p)
         /\ \A k \in 1..(p - 1) : list[k].size <= n.size
         /\ p <= Len(list) => list[p].size > n.size
  BY Pushed
<1>. HIDE DEF q
<1>2. /\ Len(list) \in Nat /\ \A k \in 1..Len(list) : list[k].size \in Nat
      /\ n.size \in Nat
  BY Fields, EMallocAssumption DEF Blocks, Block
<1>3. Len(q) = Len(list) + 1 /\ q[p] = n /\ p \in 1..Len(q)
  BY <1>1, <1>2 DEF Inserts
<1>4. ASSUME NEW j \in 1..Len(q)
      PROVE  \/ j = p /\ q[j] = n
             \/ j < p /\ j \in 1..Len(list) /\ q[j] = list[j]
             \/ j > p /\ j - 1 \in 1..Len(list) /\ q[j] = list[j - 1]
  BY <1>1, <1>2, InsertSources
<1>5. ASSUME NEW k \in 1..Len(list) PROVE \E j \in 1..Len(q) : q[j] = list[k]
  BY <1>1, <1>2, InsertTargets
<1>6. ASSUME Sorted(list), NEW j \in 1..Len(q), NEW k \in 1..Len(q), j < k
      PROVE  q[j].size <= q[k].size
  <2>1. \A m \in 1..(p - 1) : list[m].size <= n.size
    BY <1>1
  <2>2. ASSUME NEW m \in p..Len(list) PROVE n.size <= list[m].size
    <3>1. p \in 1..Len(list) /\ m \in 1..Len(list) /\ list[p].size > n.size
      BY <1>1, <1>2
    <3>2. p < m => list[p].size <= list[m].size
      BY <1>6, <3>1 DEF Sorted
    <3>. QED
      BY <1>2, <3>1, <3>2
  <2>3. CASE j = p
    <3>1. k - 1 \in p..Len(list) /\ q[k] = list[k - 1]
      BY <1>2, <1>3, <1>4, <1>6, <2>3
    <3>. QED
      BY <1>3, <2>2, <2>3, <3>1
  <2>4. CASE k = p
    <3>1. j \in 1..(p - 1) /\ q[j] = list[j]
      BY <1>4, <1>6, <2>4
    <3>. QED
      BY <1>3, <2>1, <2>4, <3>1
  <2>5. CASE j # p /\ k # p
    <3>1. PICK x \in 1..Len(list) : q[j] = list[x] /\ (IF j < p THEN x = j ELSE x = j - 1)
      BY <1>4, <2>5
    <3>2. PICK y \in 1..Len(list) : q[k] = list[y] /\ (IF k < p THEN y = k ELSE y = k - 1)
      BY <1>4, <2>5
    <3>3. x < y
      BY <1>6, <2>5, <3>1, <3>2
    <3>. QED
      BY <1>6, <3>1, <3>2, <3>3 DEF Sorted
  <2>. QED
    BY <2>3, <2>4, <2>5
<1>7. ASSUME Separate(list), Clear(list, n), NEW j \in 1..Len(q), NEW k \in 1..Len(q), j # k
      PROVE  Apart(q[j], q[k])
  <2>1. CASE j = p
    <3>1. \E y \in 1..Len(list) : q[k] = list[y]
      BY <1>4, <1>7, <2>1
    <3>. QED
      BY <1>3, <1>7, <2>1, <3>1 DEF Clear, Apart
  <2>2. CASE k = p
    <3>1. \E x \in 1..Len(list) : q[j] = list[x]
      BY <1>4, <1>7, <2>2
    <3>. QED
      BY <1>3, <1>7, <2>2, <3>1 DEF Clear, Apart
  <2>3. CASE j # p /\ k # p
    <3>1. PICK x \in 1..Len(list) : q[j] = list[x] /\ (IF j < p THEN x = j ELSE x = j - 1)
      BY <1>4, <2>3
    <3>2. PICK y \in 1..Len(list) : q[k] = list[y] /\ (IF k < p THEN y = k ELSE y = k - 1)
      BY <1>4, <2>3
    <3>3. x # y
      BY <1>7, <2>3, <3>1, <3>2
    <3>. QED
      BY <1>7, <3>1, <3>2, <3>3 DEF Separate
  <2>. QED
    BY <2>1, <2>2, <2>3
<1>8. /\ \A j \in 1..Len(q) : q[j] = n \/ \E k \in 1..Len(list) : q[j] = list[k]
      /\ \A k \in 1..Len(list) : \E j \in 1..Len(q) : q[j] = list[k]
      /\ \E j \in 1..Len(q) : q[j] = n
  BY <1>3, <1>4, <1>5
<1>9. \A b : Clear(list, b) /\ Apart(n, b) => Clear(q, b)
  BY <1>8 DEF Clear
<1>10. \A a : Covers(q, a) <=> Covers(list, a) \/ a \in Bytes(n)
  BY <1>8 DEF Covers
<1>11. Members(q) = Members(list) \union {n}
  <2>1. \A x \in Members(q) : x = n \/ x \in Members(list)
    BY <1>8 DEF Members
  <2>2. \A x \in Members(list) : x \in Members(q)
    BY <1>8 DEF Members
  <2>3. n \in Members(q)
    BY <1>8 DEF Members
  <2>. QED
    BY <2>1, <2>2, <2>3
<1>12. Len(q) >= 1
  BY <1>2, <1>3
<1>. QED
  BY <1>1, <1>6, <1>7, <1>9, <1>10, <1>11, <1>12 DEF q, Sorted, Separate

(* A removed block leaves what the list covers.                            *)
LEMMA RemoveKeeps ==
    ASSUME NEW list \in Lists, NEW i \in 1..Len(list)
    PROVE  LET q == RemoveAt(list, i)
           IN  /\ q \in Lists
               /\ Sorted(list) => Sorted(q)
               /\ Separate(list) => Separate(q) /\ Clear(q, list[i])
               /\ \A b : Clear(list, b) => Clear(q, b)
               /\ \A a : Covers(list, a) <=> Covers(q, a) \/ a \in Bytes(list[i])
               /\ Members(list) = Members(q) \union {list[i]}
<1>. DEFINE q == RemoveAt(list, i)
<1>1. q \in Lists /\ Removes(q, list, i) /\ Len(list) \in Nat
  BY Removed, Fields
<1>. HIDE DEF q
<1>2. Len(q) = Len(list) - 1
  BY <1>1 DEF Removes
<1>3. ASSUME NEW j \in 1..Len(q)
      PROVE  \/ j < i /\ j \in 1..Len(list) /\ q[j] = list[j]
             \/ j >= i /\ j + 1 \in 1..Len(list) /\ q[j] = list[j + 1]
  BY <1>1, RemoveSources
<1>4. ASSUME NEW k \in 1..Len(list), k # i PROVE \E j \in 1..Len(q) : q[j] = list[k]
  BY <1>1, <1>4, RemoveTargets
<1>5. ASSUME NEW j \in 1..Len(q)
      PROVE  \E x \in 1..Len(list) : /\ q[j] = list[x] /\ x # i
                                     /\ IF j < i THEN x = j ELSE x = j + 1
  BY <1>3
<1>6. ASSUME NEW j \in 1..Len(q), NEW k \in 1..Len(q)
      PROVE  /\ Sorted(list) /\ j < k => q[j].size <= q[k].size
             /\ Separate(list) /\ j # k => Apart(q[j], q[k])
  <2>1. PICK x \in 1..Len(list) : q[j] = list[x] /\ IF j < i THEN x = j ELSE x = j + 1
    BY <1>5
  <2>2. PICK y \in 1..Len(list) : q[k] = list[y] /\ IF k < i THEN y = k ELSE y = k + 1
    BY <1>5
  <2>3. (j < k => x < y) /\ (j # k => x # y)
    BY <2>1, <2>2
  <2>. QED
    BY <2>1, <2>2, <2>3 DEF Sorted, Separate
<1>7. \A j \in 1..Len(q) : \E x \in 1..Len(list) : q[j] = list[x] /\ x # i
  BY <1>5
<1>8. Separate(list) => Clear(q, list[i])
  BY <1>7 DEF Separate, Clear
<1>9. \A b : Clear(list, b) => Clear(q, b)
  BY <1>7 DEF Clear
<1>10. \A a : Covers(list, a) <=> Covers(q, a) \/ a \in Bytes(list[i])
  BY <1>4, <1>7 DEF Covers
<1>11. Members(list) = Members(q) \union {list[i]}
  <2>1. \A x \in Members(list) : x = list[i] \/ x \in Members(q)
    BY <1>4 DEF Members
  <2>2. \A x \in Members(q) : x \in Members(list)
    BY <1>7 DEF Members
  <2>3. list[i] \in Members(list)
    BY DEF Members
  <2>. QED
    BY <2>1, <2>2, <2>3
<1>. QED
  BY <1>1, <1>6, <1>8, <1>9, <1>10, <1>11 DEF q, Sorted, Separate

-----------------------------------------------------------------------------
(* The blocks. *)

(* A number that fits the word is not cut.                                 *)
LEMMA Uncut ==
    ASSUME NEW x \in Nat, NEW y \in Nat, x + y <= Top
    PROVE  /\ Node(x, y) = [index |-> x, size |-> y]
           /\ y >= 1 => Node(x, y) \in Blocks
           /\ Top \in 0..(BlockWord - 1)
<1>1. Top \in 0..(BlockWord - 1) /\ BlockWord \in Nat \ {0}
  BY EMallocAssumption DEF Top
<1>2. x \in 0..(BlockWord - 1) /\ y \in 0..(BlockWord - 1)
  BY <1>1
<1>3. x % BlockWord = x /\ y % BlockWord = y
  BY <1>1, <1>2
<1>. QED
  BY <1>1, <1>2, <1>3 DEF Node, Blocks, Block

(* The first node is the whole memory, as far as the word goes.            *)
LEMMA WholeMemory ==
    /\ Node(0, MemorySize) = [index |-> 0, size |-> Top]
    /\ Node(0, MemorySize) \in Blocks
    /\ Top \in Nat /\ Top <= MemorySize
<1>1. /\ Top \in 0..(BlockWord - 1) /\ BlockWord \in Nat \ {0} /\ MemorySize \in Nat \ {0}
      /\ 0 % BlockWord = 0 /\ Top <= MemorySize
  BY EMallocAssumption DEF Top
<1>2. Node(0, MemorySize) = [index |-> 0, size |-> Top]
  BY <1>1 DEF Node, Top
<1>. QED
  BY <1>1, <1>2 DEF Blocks, Block

(* What is clear of a block is clear of a part of it.                      *)
LEMMA Within ==
    ASSUME NEW c, NEW m, NEW x, c.index \in Nat, c.size \in Nat,
           m.index \in Nat, m.size \in Nat, x.index \in Nat, x.size \in Nat,
           x.index >= m.index, x.index + x.size <= m.index + m.size,
           Apart(c, m)
    PROVE  Apart(c, x)
  BY DEF Apart

(* What a list is clear of, it is clear of the parts of.                   *)
LEMMA ClearWithin ==
    ASSUME NEW list \in Lists, NEW m, NEW x,
           m.index \in Nat, m.size \in Nat, x.index \in Nat, x.size \in Nat,
           x.index >= m.index, x.index + x.size <= m.index + m.size,
           Clear(list, m)
    PROVE  Clear(list, x)
  BY Fields, Within DEF Clear

(* What is clear of two blocks in a row is clear of the joined one.        *)
LEMMA JoinedApart ==
    ASSUME NEW g, NEW m, NEW c, NEW j, g.index \in Nat, g.size \in Nat, g.size >= 1,
           m.index \in Nat, m.size \in Nat, c.index \in Nat, c.size \in Nat,
           m.index + m.size = c.index, j.index = m.index, j.size = m.size + c.size,
           Apart(g, m), Apart(g, c)
    PROVE  Apart(g, j)
  BY DEF Apart

(* A byte of a block is covered by no list that is clear of it.            *)
LEMMA ClearBytes ==
    ASSUME NEW list \in Lists, NEW b, b.index \in Nat, b.size \in Nat, Clear(list, b),
           NEW a \in Bytes(b)
    PROVE  ~Covers(list, a)
<1>1. a \in Int /\ b.index <= a /\ a < b.index + b.size
  BY DEF Bytes
<1>2. ASSUME NEW k \in 1..Len(list) PROVE a \notin Bytes(list[k])
  <2>1. list[k].index \in Nat /\ list[k].size \in Nat /\ Apart(list[k], b)
    BY Fields DEF Clear
  <2>. QED
    BY <1>1, <2>1, SMTT(60) DEF Apart, Bytes
<1>. QED
  BY <1>2 DEF Covers

(* The lists a call begins with.                                           *)
LEMMA Initialized ==
    ASSUME HeapInv
    PROVE  LET f == initializeData(freed, used)
           IN  /\ f \in Lists /\ Sorted(f) /\ Separate(f)
               /\ \A b \in held : Clear(f, b)
               /\ freed # <<>> => f = freed
               /\ Accounted => Accounts(f, used, LostNow)
<1>. DEFINE f == initializeData(freed, used)
            n == Node(0, MemorySize)
<1>1. CASE freed = <<>> /\ used = <<>>
  <2>1. f = <<n>> /\ LostNow = {}
    BY <1>1 DEF initializeData, LostNow
  <2>2. n \in Blocks /\ n.index = 0 /\ n.size = Top
    BY WholeMemory
  <2>. HIDE DEF n
  <2>3. <<n>> \in Lists /\ Len(<<n>>) = 1 /\ <<n>>[1] = n
    BY <2>2, Alone
  <2>. HIDE DEF f
  <2>4. f \in Lists /\ Len(f) = 1 /\ f[1] = n
    BY <2>1, <2>3
  <2>5. Sorted(f) /\ Separate(f)
    BY <2>4 DEF Sorted, Separate
  <2>6. Len(used) = 0
    BY <1>1
  <2>7. held = {}
    BY <2>6 DEF HeapInv, Members
  <2>8. Accounts(f, used, LostNow)
    <3>1. n.size = Top /\ Top \in Nat
      BY <2>2, WholeMemory
    <3>2. \A a \in 0..(Top - 1) : a \in Bytes(f[1])
      BY <2>2, <2>4, <3>1 DEF Bytes
    <3>3. \A a \in 0..(Top - 1) : Covers(f, a)
      BY <2>4, <3>2 DEF Covers
    <3>. QED
      BY <2>1, <3>3 DEF Accounts
  <2>. QED
    BY <1>1, <2>4, <2>5, <2>7, <2>8 DEF f
<1>2. CASE ~(freed = <<>> /\ used = <<>>)
  <2>1. f = freed /\ LostNow = lost
    BY <1>2 DEF initializeData, LostNow
  <2>. QED
    BY <1>2, <2>1 DEF HeapInv, Accounted
<1>. QED
  BY <1>1, <1>2

-----------------------------------------------------------------------------
(* The calls. *)

Kept == HeapInv' /\ (Accounted => Accounted')

(* emalloc returns NULL.                                                   *)
LEMMA Refuses ==
    ASSUME HeapInv, NEW size, emallocRefuses(size)
    PROVE  Kept
<1>1. /\ freed' = initializeData(freed, used) /\ lost' = LostNow
      /\ used' = used /\ held' = held
  BY DEF emallocRefuses
<1>2. HeapInv'
  BY <1>1, Initialized DEF HeapInv, Members, Separate, Clear, Sorted
<1>3. Accounted => Accounted'
  BY <1>1, Initialized DEF Accounted, Accounts, Covers
<1>. QED
  BY <1>2, <1>3 DEF Kept

(* The block that is popped lies clear of the others of both lists.        *)
LEMMA Popped ==
    ASSUME HeapInv, NEW size, ~Refused(size)
    PROVE  LET list == initializeData(freed, used)
               i == sizePosition(list, size)
               rest == RemoveAt(list, i)
           IN  /\ list \in Lists /\ Sorted(list) /\ i \in 1..Len(list)
               /\ size % ArgWord <= list[i].size
               /\ \A k \in 1..(i - 1) : ~(size % ArgWord <= list[k].size)
               /\ list[i] \in Blocks /\ list[i].index \in Nat /\ list[i].size \in Nat
               /\ rest \in Lists /\ Sorted(rest) /\ Separate(rest)
               /\ Clear(rest, list[i]) /\ Clear(used, list[i])
               /\ \A b \in held : Clear(rest, b) /\ Apart(list[i], b)
               /\ \A a : Covers(list, a) <=> Covers(rest, a) \/ a \in Bytes(list[i])
<1>. DEFINE list == initializeData(freed, used)
            i == sizePosition(list, size)
            rest == RemoveAt(list, i)
<1>1. list \in Lists /\ Sorted(list) /\ Separate(list) /\ \A b \in held : Clear(list, b)
  BY Initialized
<1>2. i # 0
  BY DEF Refused
<1>. HIDE DEF list
<1>3. Len(list) \in Nat
  BY <1>1, Fields
<1>4. /\ i \in 1..Len(list) /\ size % ArgWord <= list[i].size
      /\ \A k \in 1..(i - 1) : ~(size % ArgWord <= list[k].size)
  BY <1>2, <1>3, SizePositions
<1>. HIDE DEF i
<1>5. list[i] \in Blocks /\ list[i].index \in Nat /\ list[i].size \in Nat
  BY <1>1, <1>4, Fields
<1>6. /\ rest \in Lists /\ Sorted(rest) /\ Separate(rest) /\ Clear(rest, list[i])
      /\ \A b : Clear(list, b) => Clear(rest, b)
      /\ \A a : Covers(list, a) <=> Covers(rest, a) \/ a \in Bytes(list[i])
  BY <1>1, <1>4, RemoveKeeps
<1>7. \A b \in held : Clear(rest, b) /\ Apart(list[i], b)
  BY <1>1, <1>4, <1>6 DEF Clear
<1>8. Clear(used, list[i])
  <2>1. \A k \in 1..Len(used) : used[k] \in held
    BY DEF HeapInv, Members
  <2>. QED
    BY <1>7, <2>1 DEF Clear, Apart
<1>. QED
  BY <1>1, <1>4, <1>5, <1>6, <1>7, <1>8 DEF list, i

(* emalloc pops a block that does not fit, and drops it.                   *)
LEMMA Drops ==
    ASSUME HeapInv, NEW size, emallocDrops(size)
    PROVE  Kept
<1>. DEFINE list == initializeData(freed, used)
            i == sizePosition(list, size)
            rest == RemoveAt(list, i)
            m == list[i]
<1>1. /\ ~Refused(size) /\ freed' = rest /\ lost' = LostNow \union Bytes(m)
      /\ used' = used /\ held' = held
  BY DEF emallocDrops
<1>2. /\ m.index \in Nat /\ m.size \in Nat
      /\ rest \in Lists /\ Sorted(rest) /\ Separate(rest)
      /\ Clear(rest, m) /\ Clear(used, m)
      /\ \A b \in held : Clear(rest, b)
      /\ \A a : Covers(list, a) <=> Covers(rest, a) \/ a \in Bytes(m)
  BY <1>1, Popped
<1>3. Accounted => Accounts(list, used, LostNow)
  BY Initialized
<1>. HIDE DEF list, rest, m, i
<1>4. HeapInv'
  BY <1>1, <1>2 DEF HeapInv, Members, Separate, Clear, Sorted
<1>5. ASSUME Accounted PROVE Accounts(rest, used, lost')
  <2>1. \A a \in 0..(Top - 1) :
           a \in LostNow <=> ~Covers(list, a) /\ ~Covers(used, a)
    BY <1>3, <1>5 DEF Accounts
  <2>2. \A a \in Bytes(m) : ~Covers(rest, a) /\ ~Covers(used, a)
    BY <1>2, ClearBytes DEF HeapInv
  <2>. QED
    BY <1>1, <1>2, <2>1, <2>2 DEF Accounts
<1>6. Accounted => Accounted'
  BY <1>1, <1>5 DEF Accounted, Accounts, Covers
<1>. QED
  BY <1>4, <1>6 DEF Kept

(* emalloc gives the first bytes of a block and pushes the rest of it.     *)
LEMMA Gives ==
    ASSUME HeapInv, NEW size \in Nat, emallocGives(size)
    PROVE  Kept
<1>. DEFINE list == initializeData(freed, used)
            i == sizePosition(list, size)
            rest == RemoveAt(list, i)
            m == list[i]
            b == Node(m.index, size)
            r == SplitRest(m, size)
<1>1. /\ ~Refused(size) /\ Fits(m, size)
      /\ freed' = IF m.size = size THEN rest ELSE memoryHeapPush(rest, r)
      /\ used' = memoryHeapPush(used, b)
      /\ held' = held \union {b} /\ lost' = LostNow
  BY DEF emallocGives
<1>2. /\ m \in Blocks /\ m.index \in Nat /\ m.size \in Nat
      /\ rest \in Lists /\ Sorted(rest) /\ Separate(rest)
      /\ Clear(rest, m) /\ Clear(used, m)
      /\ \A c \in held : Clear(rest, c) /\ Apart(m, c)
      /\ \A a : Covers(list, a) <=> Covers(rest, a) \/ a \in Bytes(m)
  BY <1>1, Popped
<1>3. Accounted => Accounts(list, used, LostNow)
  BY Initialized
<1>4. size >= 1 /\ m.size >= size /\ m.index + m.size <= Top
  BY <1>1, <1>2 DEF Refused, Fits, Blocks
<1>5. /\ b = [index |-> m.index, size |-> size] /\ b \in Blocks
      /\ b.index = m.index /\ b.size = size
  BY <1>2, <1>4, Uncut, EMallocAssumption, WholeMemory
<1>6. m.size # size => /\ r = [index |-> m.index + size, size |-> m.size - size]
                       /\ r \in Blocks
                       /\ r.index = m.index + size /\ r.size = m.size - size
  <2>. SUFFICES ASSUME m.size # size
                PROVE  r = [index |-> m.index + size, size |-> m.size - size] /\ r \in Blocks
    OBVIOUS
  <2>1. /\ m.index + size \in Nat /\ m.size - size \in Nat /\ m.size - size >= 1
        /\ (m.index + size) + (m.size - size) <= Top
    BY <1>2, <1>4, WholeMemory
  <2>. QED
    BY <2>1, Uncut DEF SplitRest
<1>. HIDE DEF list, i, rest, m, b, r
<1>7. used \in Lists /\ Separate(used) /\ held = Members(used) /\ \A c \in held : c.size >= 1
  BY DEF HeapInv
<1>8. \A c \in held : c.index \in Nat /\ c.size \in Nat
  BY <1>7, Fields DEF Members
<1>9. Clear(rest, b) /\ Clear(used, b) /\ \A c \in held : Apart(c, b)
  <2>1. /\ b.index \in Nat /\ b.size \in Nat /\ b.index >= m.index
        /\ b.index + b.size <= m.index + m.size
    BY <1>2, <1>4, <1>5
  <2>2. \A c \in held : Apart(c, m)
    BY <1>2 DEF Apart
  <2>3. \A c \in held : Apart(c, b)
    BY <1>2, <1>8, <2>1, <2>2, Within
  <2>. QED
    BY <1>2, <1>7, <2>1, <2>3, ClearWithin
<1>10. /\ used' \in Lists /\ Separate(used')
       /\ \A a : Covers(used', a) <=> Covers(used, a) \/ a \in Bytes(b)
       /\ held' = Members(used')
  BY <1>1, <1>5, <1>7, <1>9, PushKeeps
<1>11. /\ freed' \in Lists /\ Sorted(freed') /\ Separate(freed')
       /\ \A c \in held : Clear(freed', c)
       /\ Clear(freed', b)
       /\ \A a : Covers(freed', a) \/ a \in Bytes(b) <=> Covers(rest, a) \/ a \in Bytes(m)
  <2>1. CASE m.size = size
    <3>1. Bytes(b) = Bytes(m)
      BY <1>5, <2>1 DEF Bytes
    <3>. QED
      BY <1>1, <1>2, <1>9, <2>1, <3>1
  <2>2. CASE m.size # size
    <3>1. /\ r.index \in Nat /\ r.size \in Nat /\ r.index >= m.index
          /\ r.index + r.size <= m.index + m.size
      BY <1>2, <1>4, <1>6, <2>2
    <3>2. Clear(rest, r)
      BY <1>2, <3>1, ClearWithin
    <3>3. \A c \in held : Apart(r, c)
      <4>1. \A c \in held : Apart(c, m)
        BY <1>2 DEF Apart
      <4>2. \A c \in held : Apart(c, r)
        BY <1>2, <1>8, <3>1, <4>1, Within
      <4>. QED
        BY <4>2 DEF Apart
    <3>4. Apart(r, b)
      BY <1>2, <1>5, <1>6, <2>2 DEF Apart
    <3>5. \A a : a \in Bytes(r) \/ a \in Bytes(b) <=> a \in Bytes(m)
      BY <1>2, <1>4, <1>5, <1>6, <2>2 DEF Bytes
    <3>6. freed' = memoryHeapPush(rest, r)
      BY <1>1, <2>2
    <3>7. /\ freed' \in Lists /\ Sorted(freed') /\ Separate(freed')
          /\ \A c : Clear(rest, c) /\ Apart(r, c) => Clear(freed', c)
          /\ \A a : Covers(freed', a) <=> Covers(rest, a) \/ a \in Bytes(r)
      BY <1>2, <1>6, <2>2, <3>2, <3>6, PushKeeps
    <3>. QED
      BY <1>2, <1>9, <3>3, <3>4, <3>5, <3>7
  <2>. QED
    BY <2>1, <2>2
<1>12. HeapInv'
  BY <1>1, <1>4, <1>5, <1>7, <1>10, <1>11, ZenonT(60) DEF HeapInv, Members, Separate, Clear, Sorted
<1>13. ASSUME Accounted PROVE Accounts(freed', used', lost')
  <2>1. \A a \in 0..(Top - 1) :
           a \in LostNow <=> ~Covers(list, a) /\ ~Covers(used, a)
    BY <1>3, <1>13 DEF Accounts
  <2>. QED
    BY <1>1, <1>2, <1>10, <1>11, <2>1 DEF Accounts
<1>14. Accounted => Accounted'
  BY <1>13 DEF Accounted, Accounts, Covers
<1>. QED
  BY <1>12, <1>14 DEF Kept

(* efree moves a block to the freed list, joined to the free block that    *)
(* ends where it begins.                                                   *)
LEMMA Frees ==
    ASSUME HeapInv, NEW p, efree(p)
    PROVE  Kept
<1>. DEFINE u == ptrPosition(used, p)
            c == used[u]
            f == mergePosition(freed, p)
            m == freed[f]
            rest == RemoveAt(freed, f)
            j == Joined(m, c)
<1>1. /\ u # 0 /\ used' = RemoveAt(used, u)
      /\ freed' = IF f = 0 THEN memoryHeapPush(freed, c) ELSE memoryHeapPush(rest, j)
      /\ held' = {b \in held : b.index # p} /\ lost' = lost
  BY DEF efree
<1>2. /\ freed \in Lists /\ used \in Lists /\ Sorted(freed)
      /\ Separate(freed) /\ Separate(used) /\ held = Members(used)
      /\ \A b \in held : b.size >= 1 /\ Clear(freed, b)
  BY DEF HeapInv
<1>3. Len(freed) \in Nat /\ Len(used) \in Nat
  BY <1>2, Fields
<1>4. /\ u \in 1..Len(used) /\ c.index = p
      /\ f \in 0..Len(freed) /\ (f # 0 => m.index + m.size = p)
  BY <1>1, <1>3, BytePositions
<1>. HIDE DEF u, f
<1>5. c \in Blocks /\ c.index \in Nat /\ c.size \in Nat /\ c \in held
  BY <1>2, <1>4, Fields DEF Members
<1>6. c.size >= 1 /\ Clear(freed, c) /\ c.index + c.size <= Top
  BY <1>2, <1>5 DEF Blocks
<1>7. /\ used' \in Lists /\ Separate(used') /\ Clear(used', c)
      /\ \A a : Covers(used, a) <=> Covers(used', a) \/ a \in Bytes(c)
      /\ Members(used) = Members(used') \union {c}
  BY <1>1, <1>2, <1>4, RemoveKeeps
<1>. HIDE DEF c
<1>8. \A b \in held : b.index \in Nat /\ b.size \in Nat /\ b.size >= 1
  BY <1>2, Fields DEF Members
<1>9. \A b \in Members(used') : Apart(b, c) /\ b.index # p
  <2>1. \A b \in Members(used') : Apart(b, c)
    BY <1>7 DEF Clear, Members
  <2>2. \A b \in Members(used') : b \in held
    BY <1>2, <1>7
  <2>. QED
    BY <1>4, <1>5, <1>6, <1>8, <2>1, <2>2 DEF Apart
<1>10. held' = Members(used')
  BY <1>1, <1>2, <1>4, <1>7, <1>9
<1>11. /\ freed' \in Lists /\ Sorted(freed') /\ Separate(freed')
       /\ \A b \in held' : Clear(freed', b)
       /\ \A a : Covers(freed', a) <=> Covers(freed, a) \/ a \in Bytes(c)
  <2>1. CASE f = 0
    <3>1. freed' = memoryHeapPush(freed, c)
      BY <1>1, <2>1
    <3>2. \A b \in held' : Clear(freed, b) /\ Apart(c, b)
      BY <1>1, <1>2, <1>9, <1>10 DEF Apart
    <3>. QED
      BY <1>2, <1>5, <1>6, <3>1, <3>2, PushKeeps
  <2>2. CASE f # 0
    <3>1. f \in 1..Len(freed) /\ m.index + m.size = c.index
      BY <1>3, <1>4, <2>2
    <3>2. /\ m \in Blocks /\ m.index \in Nat /\ m.size \in Nat
      BY <1>2, <3>1, Fields
    <3>3. /\ rest \in Lists /\ Sorted(rest) /\ Separate(rest)
          /\ Clear(rest, m) /\ Clear(rest, c)
          /\ \A b : Clear(freed, b) => Clear(rest, b)
          /\ \A a : Covers(freed, a) <=> Covers(rest, a) \/ a \in Bytes(m)
      BY <1>2, <1>6, <3>1, RemoveKeeps
    <3>4. /\ j.index = m.index /\ j.size = m.size + c.size /\ j \in Blocks
      <4>1. /\ m.size + c.size \in Nat /\ m.size + c.size >= 1
            /\ m.index + (m.size + c.size) <= Top
        BY <1>5, <1>6, <3>1, <3>2, WholeMemory
      <4>2. /\ Node(m.index, m.size + c.size) = [index |-> m.index, size |-> m.size + c.size]
            /\ Node(m.index, m.size + c.size) \in Blocks
        BY <3>2, <4>1, Uncut
      <4>. QED
        BY <4>2 DEF Joined
    <3>5. freed' = memoryHeapPush(rest, j)
      BY <1>1, <2>2
    <3>6. \A b \in held' : Apart(m, b) /\ Clear(rest, b)
      BY <1>1, <1>2, <3>1, <3>3 DEF Clear
    <3>. HIDE DEF j, rest, m
    <3>7. \A b \in Blocks : b.index \in Nat /\ b.size \in Nat /\ b.size >= 1
      <4>1. Top # 0
        BY <1>5, <1>6, WholeMemory
      <4>. QED
        BY <4>1, EMallocAssumption DEF Blocks, Block
    <3>8. ASSUME NEW g, g.index \in Nat, g.size \in Nat, g.size >= 1, Apart(g, m), Apart(g, c)
          PROVE  Apart(g, j)
      BY <1>5, <3>1, <3>2, <3>4, <3>8, JoinedApart
    <3>9. Clear(rest, j)
      <4>1. \A k \in 1..Len(rest) : rest[k] \in Blocks
        BY <3>3, Fields
      <4>. QED
        BY <3>3, <3>7, <3>8, <4>1 DEF Clear
    <3>10. \A b \in held' : Apart(j, b)
      <4>1. \A b \in held' : b \in held /\ Apart(b, m) /\ Apart(b, c)
        BY <1>1, <1>9, <1>10, <3>6 DEF Apart
      <4>2. \A b \in held' : Apart(b, j)
        BY <1>8, <3>8, <4>1
      <4>. QED
        BY <4>2 DEF Apart
    <3>11. \A a : a \in Bytes(j) <=> a \in Bytes(m) \/ a \in Bytes(c)
      <4>1. /\ Bytes(j) = m.index..(m.index + (m.size + c.size) - 1)
            /\ Bytes(m) = m.index..(m.index + m.size - 1)
            /\ Bytes(c) = (m.index + m.size)..(m.index + m.size + c.size - 1)
        BY <3>1, <3>4 DEF Bytes
      <4>2. m.index \in Nat /\ m.size \in Nat /\ c.size \in Nat
        BY <1>5, <3>2
      <4>. QED
        BY ONLY <4>1, <4>2, AdjacentIntervals
    <3>12. /\ freed' \in Lists /\ Sorted(freed') /\ Separate(freed')
           /\ \A b : Clear(rest, b) /\ Apart(j, b) => Clear(freed', b)
           /\ \A a : Covers(freed', a) <=> Covers(rest, a) \/ a \in Bytes(j)
      BY <3>3, <3>4, <3>5, <3>9, PushKeeps
    <3>. QED
      BY <3>3, <3>6, <3>10, <3>11, <3>12
  <2>. QED
    BY <2>1, <2>2
<1>12. HeapInv'
  BY <1>1, <1>7, <1>8, <1>10, <1>11 DEF HeapInv, Members, Separate, Clear, Sorted
<1>13. ASSUME Accounted PROVE Accounts(freed', used', lost')
  <2>1. used # <<>>
    BY <1>3, <1>4
  <2>2. Accounts(freed, used, lost)
    BY <1>13, <2>1 DEF Accounted
  <2>. QED
    BY <1>1, <1>7, <1>11, <2>2 DEF Accounts
<1>14. Accounted => Accounted'
  BY <1>13 DEF Accounted, Accounts, Covers
<1>. QED
  BY <1>12, <1>14 DEF Kept

-----------------------------------------------------------------------------
(* The specification. *)

(* Before the first call there are no lists.                               *)
LEMMA HeapBegins ==
    EMallocInit => HeapInv /\ Accounted
<1>. SUFFICES ASSUME EMallocInit PROVE HeapInv /\ Accounted
  OBVIOUS
<1>1. freed = <<>> /\ used = <<>> /\ held = {}
  BY DEF EMallocInit
<1>2. <<>> \in Lists /\ Len(<<>>) = 0
  BY EmptySeq DEF Lists
<1>. QED
  BY <1>1, <1>2 DEF HeapInv, Accounted, Sorted, Separate, Members

(* Every call keeps the invariant, and what the lists account for.         *)
LEMMA HeapGoesOn ==
    ASSUME HeapInv, [EMallocNext]_emalloc_vars
    PROVE  Kept
<1>1. ASSUME NEW size \in Nat, emalloc(size) PROVE Kept
  BY <1>1, Refuses, Drops, Gives DEF emalloc
<1>2. ASSUME NEW size \in Sizes, emalloc(size) PROVE Kept
  BY <1>1, <1>2, EMallocAssumption
<1>3. ASSUME NEW size \in Sizes, operatorNew(size) PROVE Kept
  <2>. DEFINE asked == IF size = 0 THEN 1 ELSE size
  <2>1. asked \in Nat
    BY EMallocAssumption
  <2>2. emalloc(asked)
    BY <1>3 DEF operatorNew
  <2>. HIDE DEF asked
  <2>. QED
    BY <1>1, <2>1, <2>2
<1>4. ASSUME NEW p, efree(p) PROVE Kept
  BY <1>4, Frees
<1>5. CASE UNCHANGED emalloc_vars
  BY <1>5 DEF emalloc_vars, Kept, HeapInv, Accounted, Accounts, Covers, Members,
              Separate, Clear, Sorted
<1>. QED
  BY <1>2, <1>3, <1>4, <1>5 DEF EMallocNext

(* A byte lies in one block of a list, and in no block of the other one.   *)
LEMMA OneBlock ==
    ASSUME HeapInv, NEW a
    PROVE  /\ \A j, k \in 1..Len(freed) :
                 a \in Bytes(freed[j]) /\ a \in Bytes(freed[k]) => j = k
           /\ \A j, k \in 1..Len(used) :
                 a \in Bytes(used[j]) /\ a \in Bytes(used[k]) => j = k
           /\ \A j \in 1..Len(freed), k \in 1..Len(used) :
                 ~(a \in Bytes(freed[j]) /\ a \in Bytes(used[k]))
<1>1. ASSUME NEW b, NEW c, b.index \in Nat, b.size \in Nat, c.index \in Nat, c.size \in Nat,
             Apart(b, c), a \in Bytes(b), a \in Bytes(c)
      PROVE  FALSE
  BY <1>1 DEF Apart, Bytes
<1>2. /\ freed \in Lists /\ used \in Lists /\ Separate(freed) /\ Separate(used)
      /\ \A k \in 1..Len(used) : Clear(freed, used[k])
  BY DEF HeapInv, Members
<1>. QED
  BY <1>1, <1>2, Fields DEF Separate, Clear

(* What the invariant says, said of the positions that cover a byte.       *)
LEMMA BytesPartitioned ==
    ASSUME HeapInv, Accounted
    PROVE  MemoryPartitioned
<1>. SUFFICES ASSUME freed # <<>> \/ used # <<>>, NEW a \in 0..(MemorySize - 1)
              PROVE  Cardinality(Covering(a)) = IF a \in lost \/ a >= Top THEN 0 ELSE 1
  BY DEF MemoryPartitioned
<1>1. /\ DOMAIN freed = 1..Len(freed) /\ DOMAIN used = 1..Len(used)
  BY LenProperties DEF HeapInv, Lists
<1>0. Top \in Nat /\ a \in Nat
  BY WholeMemory
<1>2. ~(a >= Top) => (a \in lost <=> ~Covers(freed, a) /\ ~Covers(used, a))
  <2>. SUFFICES ASSUME ~(a >= Top) PROVE a \in lost <=> ~Covers(freed, a) /\ ~Covers(used, a)
    OBVIOUS
  <2>1. a \in 0..(Top - 1)
    BY <1>0
  <2>. QED
    BY <2>1 DEF Accounted, Accounts
<1>8. a >= Top => ~Covers(freed, a) /\ ~Covers(used, a)
  <2>. SUFFICES ASSUME a >= Top PROVE ~Covers(freed, a) /\ ~Covers(used, a)
    OBVIOUS
  <2>1. ASSUME NEW b \in Blocks PROVE a \notin Bytes(b)
    <3>1. b.index \in Nat /\ b.size \in Nat /\ b.index + b.size <= Top
      BY EMallocAssumption DEF Blocks, Block
    <3>. QED
      BY <1>0, <3>1 DEF Bytes
  <2>2. /\ \A k \in 1..Len(freed) : freed[k] \in Blocks
        /\ \A k \in 1..Len(used) : used[k] \in Blocks
    BY Fields DEF HeapInv
  <2>. QED
    BY <2>1, <2>2 DEF Covers
<1>3. Covering(a) = ({"f"} \X {i \in 1..Len(freed) : a \in Bytes(freed[i])})
                    \union ({"u"} \X {i \in 1..Len(used) : a \in Bytes(used[i])})
  BY <1>1 DEF Covering
<1>4. CASE a \in lost \/ a >= Top
  <2>1. ~Covers(freed, a) /\ ~Covers(used, a)
    BY <1>2, <1>4, <1>8
  <2>2. Covering(a) = {}
    BY <1>3, <2>1 DEF Covers
  <2>. QED
    BY <1>4, <2>2, FS_EmptySet
<1>5. CASE Covers(freed, a)
  <2>1. PICK k \in 1..Len(freed) : a \in Bytes(freed[k])
    BY <1>5 DEF Covers
  <2>2. /\ {i \in 1..Len(freed) : a \in Bytes(freed[i])} = {k}
        /\ {i \in 1..Len(used) : a \in Bytes(used[i])} = {}
    BY <2>1, OneBlock
  <2>3. Covering(a) = {<<"f", k>>}
    BY <1>3, <2>2
  <2>. QED
    BY <1>2, <1>5, <1>8, <2>3, FS_Singleton
<1>6. CASE Covers(used, a)
  <2>1. PICK k \in 1..Len(used) : a \in Bytes(used[k])
    BY <1>6 DEF Covers
  <2>2. /\ {i \in 1..Len(used) : a \in Bytes(used[i])} = {k}
        /\ {i \in 1..Len(freed) : a \in Bytes(freed[i])} = {}
    BY <2>1, OneBlock
  <2>3. Covering(a) = {<<"u", k>>}
    BY <1>3, <2>2
  <2>. QED
    BY <1>2, <1>6, <1>8, <2>3, FS_Singleton
<1>. QED
  BY <1>2, <1>4, <1>5, <1>6, <1>8

(* What the invariant says of callers.                                     *)
LEMMA HoldersApart ==
    ASSUME HeapInv
    PROVE  HeldDisjoint /\ EMallocTypeOK
<1>1. /\ freed \in Lists /\ used \in Lists /\ Separate(freed) /\ Separate(used)
      /\ held = Members(used)
      /\ \A b \in held : b.size >= 1 /\ Clear(freed, b)
  BY DEF HeapInv
<1>2. DOMAIN freed = 1..Len(freed)
  BY <1>1, LenProperties DEF Lists
<1>3. ASSUME NEW b \in held, NEW c \in held, b # c
      PROVE  Bytes(b) \intersect Bytes(c) = {}
  <2>1. PICK j \in 1..Len(used) : b = used[j]
    BY <1>1 DEF Members
  <2>2. PICK k \in 1..Len(used) : c = used[k]
    BY <1>1 DEF Members
  <2>3. j # k
    BY <1>3, <2>1, <2>2
  <2>. QED
    BY <2>1, <2>2, <2>3, OneBlock
<1>4. ASSUME NEW b \in held, NEW i \in DOMAIN freed
      PROVE  Bytes(b) \intersect Bytes(freed[i]) = {}
  <2>1. PICK j \in 1..Len(used) : b = used[j]
    BY <1>1 DEF Members
  <2>. QED
    BY <1>2, <2>1, OneBlock
<1>5. freed \in Seq(Block) /\ used \in Seq(Block)
  <2>1. Blocks \subseteq Block
    BY DEF Blocks
  <2>2. \A s \in Seq(Blocks) : s \in Seq(Block)
    <3>1. ASSUME NEW s \in Seq(Blocks) PROVE s \in Seq(Block)
      <4>1. s \in [1..Len(s) -> Blocks] /\ Len(s) \in Nat
        BY LenProperties
      <4>2. s \in [1..Len(s) -> Block]
        BY ONLY <2>1, <4>1
      <4>. QED
        BY <4>1, <4>2, SeqDef
    <3>. QED
      BY <3>1
  <2>. QED
    BY <1>1, <2>2 DEF Lists
<1>6. ASSUME NEW b \in held PROVE b.index \in 0..(MemorySize - 1)
  <2>1. PICK j \in 1..Len(used) : b = used[j]
    BY <1>1 DEF Members
  <2>2. /\ b.index \in Nat /\ b.size \in Nat /\ b.size >= 1 /\ b.index + b.size <= Top
    BY <1>1, <2>1, Fields DEF Blocks
  <2>. QED
    BY <2>2, WholeMemory, EMallocAssumption
<1>. QED
  BY <1>1, <1>3, <1>4, <1>5, <1>6 DEF HeldDisjoint, EMallocTypeOK

(* The popped block is the first the low word of the size fits, and the    *)
(* list is ordered: a block that fits the size is no smaller.              *)
LEMMA GivesTheSmallest ==
    ASSUME HeapInv, NEW size \in Nat, emallocGives(size), NEW b \in held' \ held,
           NEW m \in ToSet(freed), m.size >= b.size
    PROVE  \E n \in ToSet(freed) : n.index = b.index /\ n.size <= m.size
<1>. DEFINE list == initializeData(freed, used)
            i == sizePosition(list, size)
<1>1. PICK k \in 1..Len(freed) : m = freed[k]
  BY LenProperties DEF ToSet, HeapInv, Lists
<1>2. freed # <<>> /\ list = freed
  BY <1>1, Initialized
<1>3. /\ ~Refused(size) /\ Fits(freed[i], size)
      /\ b = Node(freed[i].index, size)
  BY <1>2 DEF emallocGives
<1>4. /\ Sorted(freed) /\ i \in 1..Len(freed)
      /\ \A x \in 1..(i - 1) : ~(size % ArgWord <= freed[x].size)
  BY <1>2, <1>3, Popped
<1>. HIDE DEF list, i
<1>5. \A x \in 1..Len(freed) : /\ freed[x] \in Blocks
                               /\ freed[x].index \in Nat /\ freed[x].size \in Nat
  BY Fields DEF HeapInv
<1>6. b.index = freed[i].index /\ b.size = size
  <2>1. freed[i].index + size <= Top
    BY <1>3, <1>4, <1>5, WholeMemory DEF Fits, Blocks
  <2>2. freed[i].index \in Nat
    BY <1>4, <1>5
  <2>. QED
    BY <1>3, <2>1, <2>2, Uncut
<1>7. size % ArgWord <= size
  BY EMallocAssumption
<1>8. size % ArgWord <= freed[k].size
  <2>1. size % ArgWord \in Nat /\ freed[k].size \in Nat /\ freed[k].size >= size
    BY <1>1, <1>5, <1>6, EMallocAssumption
  <2>. QED
    BY ONLY <1>7, <2>1, size \in Nat
<1>9. ~(k \in 1..(i - 1))
  BY <1>4, <1>8
<1>10. freed[i].size <= freed[k].size
  BY <1>1, <1>4, <1>5, <1>9 DEF Sorted
<1>11. freed[i] \in ToSet(freed)
  BY <1>4, LenProperties DEF ToSet, HeapInv, Lists
<1>. QED
  BY <1>1, <1>6, <1>10, <1>11

(* The invariant holds throughout.                                         *)
LEMMA HeapInvariant ==
    EMallocSpec => []HeapInv
<1>1. HeapInv /\ [EMallocNext]_emalloc_vars => HeapInv'
  BY HeapGoesOn DEF Kept
<1>. QED
  BY <1>1, HeapBegins, PTL DEF EMallocSpec

(* The nodes have their fields and held blocks lie in the memory           *)
(* (emalloc.c:21-98, heap.c): no split or join leaves its bounds.         *)
THEOREM HeapTypesHold ==
    EMallocSpec => []EMallocTypeOK
<1>1. HeapInv => EMallocTypeOK
  BY HoldersApart
<1>. QED
  BY <1>1, HeapInvariant, PTL

(* No byte is given to two callers, and none that is held can be given     *)
(* out: for any memory size, also when the first node's size was cut to    *)
(* its word, blocks were dropped or the lists were built again.            *)
THEOREM NoByteTwice ==
    EMallocSpec => []HeldDisjoint
<1>1. HeapInv => HeldDisjoint
  BY HoldersApart
<1>. QED
  BY <1>1, HeapInvariant, PTL

(* Every byte the first node describes is in one block of one list, unless *)
(* its block was dropped, and every other byte is in none (emalloc.c:26    *)
(* cuts the size of the memory to the node's word).                        *)
THEOREM EveryByteIsSomewhere ==
    EMallocSpec => []MemoryPartitioned
<1>1. HeapInv /\ Accounted /\ [EMallocNext]_emalloc_vars => HeapInv' /\ Accounted'
  BY HeapGoesOn DEF Kept
<1>2. HeapInv /\ Accounted => MemoryPartitioned
  BY BytesPartitioned
<1>. QED
  BY <1>1, <1>2, HeapBegins, PTL DEF EMallocSpec

(* emalloc takes the smallest block that fits, after any sequence of calls *)
(* (heap.c keeps the lists ordered by size, emalloc.c:40 pops the first).  *)
THEOREM SmallestBlockIsTaken ==
    EMallocSpec => BestFit
<1>. DEFINE Step == \A b \in held' \ held : \A m \in ToSet(freed) :
                      m.size >= b.size =>
                         \E n \in ToSet(freed) : n.index = b.index /\ n.size <= m.size
<1>1. ASSUME HeapInv, [EMallocNext]_emalloc_vars PROVE Step
  <2>1. ASSUME NEW size \in Nat, emalloc(size) PROVE Step
    BY <1>1, <2>1, GivesTheSmallest DEF emalloc, emallocRefuses, emallocDrops
  <2>2. ASSUME NEW size \in Sizes, emalloc(size) PROVE Step
    BY <2>1, <2>2, EMallocAssumption
  <2>3. ASSUME NEW size \in Sizes, operatorNew(size) PROVE Step
    <3>. DEFINE asked == IF size = 0 THEN 1 ELSE size
    <3>1. asked \in Nat
      BY EMallocAssumption
    <3>2. emalloc(asked)
      BY <2>3 DEF operatorNew
    <3>. HIDE DEF asked, Step
    <3>. QED
      BY <2>1, <3>1, <3>2
  <2>4. ASSUME NEW p, efree(p) PROVE Step
    <3>1. held' \ held = {}
      BY <2>4 DEF efree
    <3>. QED
      BY <3>1
  <2>5. CASE UNCHANGED emalloc_vars
    <3>1. held' \ held = {}
      BY <2>5 DEF emalloc_vars
    <3>. QED
      BY <3>1
  <2>. HIDE DEF Step
  <2>. QED
    BY <1>1, <2>2, <2>3, <2>4, <2>5 DEF EMallocNext
<1>2. HeapInv /\ [EMallocNext]_emalloc_vars => [Step]_emalloc_vars
  BY <1>1
<1>. QED
  BY <1>2, HeapInvariant, PTL DEF EMallocSpec, BestFit

-----------------------------------------------------------------------------
(* The calendar: what the tables and the counts of leap years amount to.   *)

(* The days of a year before a month.                                      *)
DaysBefore(m, year) ==
  <<0, 31, 59, 90, 120, 151, 181, 212, 243, 273, 304, 334, 365>>[m]
  + (IF m > 2 /\ isLeapYear(year) THEN 1 ELSE 0)

(* One month more. *)
LEMMA MonthMore ==
  ASSUME NEW year, NEW m \in 1..12
  PROVE  /\ DaysBefore(m, year) \in Nat /\ MonthDays(m, year) \in 28..31
         /\ DaysBefore(m + 1, year) = DaysBefore(m, year) + MonthDays(m, year)
<1>1. m = 1 \/ m = 2 \/ m = 3 \/ m = 4 \/ m = 5 \/ m = 6 \/ m = 7 \/ m = 8 \/ m = 9
      \/ m = 10 \/ m = 11 \/ m = 12
  OBVIOUS
<1>2. CASE isLeapYear(year)
  BY <1>1, <1>2 DEF DaysBefore, MonthDays, DaysInMonth
<1>3. CASE ~isLeapYear(year)
  BY <1>1, <1>3 DEF DaysBefore, MonthDays, DaysInMonth
<1>. QED
  BY <1>2, <1>3

(* The running seconds are those of the days before a month. *)
LEMMA RunningIs ==
  ASSUME NEW year, NEW m \in 1..13
  PROVE  RunningSeconds(year)[m] = 86400 * DaysBefore(m, year)
<1>. DEFINE n == m - 1
            s == [k \in 1..n |-> k]
            total == DaysUpUntilMonth(m, year)
            op == [z \in Int \X (1..n) |-> z[1] + MonthDays(z[2], year)]
            Body(f) == [t \in SUBSET (1..n) |->
                          IF t = {} THEN 0 ELSE f[t \ {Max(t)}] + MonthDays(s[Max(t)], year)]
<1>1. n \in 0..12 /\ n \in Nat /\ DOMAIN s = 1..n /\ \A k \in 1..n : s[k] = k
  OBVIOUS
<1>2. total = (CHOOSE it : it = [t \in SUBSET DOMAIN s |->
                IF t = {} THEN 0 ELSE it[t \ {Max(t)}] + MonthDays(s[Max(t)], year)])[DOMAIN s]
  BY DEF DaysUpUntilMonth, FoldLeft, MapThenFoldSet
<1>. HIDE DEF s, total
<1>3. \A k \in 1..n : MonthDays(k, year) \in Int
  <2>. TAKE k \in 1..n
  <2>1. k \in 1..12
    BY <1>1
  <2>2. MonthDays(k, year) \in 28..31
    BY <2>1, MonthMore
  <2>. QED
    BY <2>2
<1>4. op \in [Int \X (1..n) -> Int] /\ 0 \in Int
  BY <1>3
<1>5. PICK it : IsFold(it, n, Int, 0, op)
  BY <1>1, <1>4, FoldExists
<1>6. it = Body(it)
  <2>1. it = [t \in SUBSET (1..n) |-> it[t]]
    BY <1>5 DEF IsFold
  <2>2. ASSUME NEW t \in SUBSET (1..n)
        PROVE  it[t] = IF t = {} THEN 0
                       ELSE it[t \ {Max(t)}] + MonthDays(s[Max(t)], year)
    <3>1. CASE t = {}
      BY <1>5, <3>1 DEF IsFold
    <3>2. CASE t # {}
      <4>1. Max(t) \in 1..n
        BY <1>1, <3>2, MaxIsIn
      <4>2. it[t] = op[<<it[t \ {Max(t)}], Max(t)>>] /\ it[t \ {Max(t)}] \in Int
        BY <1>5, <3>2 DEF IsFold
      <4>3. op[<<it[t \ {Max(t)}], Max(t)>>] = it[t \ {Max(t)}] + MonthDays(Max(t), year)
        BY <4>1, <4>2
      <4>. QED
        BY <1>1, <3>2, <4>1, <4>2, <4>3
    <3>. QED
      BY <3>1, <3>2
  <2>. QED
    BY <2>1, <2>2
<1>7. PICK f : f = Body(f) /\ total = f[1..n]
  <2>1. total = (CHOOSE h : h = Body(h))[1..n]
    BY <1>1, <1>2, SMTT(60)
  <2>2. \E h : h = Body(h)
    BY <1>6
  <2>. HIDE DEF Body
  <2>. QED
    BY <2>1, <2>2
<1>8. f[1..0] = 0
  <2>1. 1..0 = {}
    OBVIOUS
  <2>. QED
    BY <1>7, <2>1
<1>9. ASSUME NEW k \in 1..n PROVE f[1..k] = f[1..(k - 1)] + MonthDays(k, year)
  <2>1. /\ 1..k \in SUBSET (1..n) /\ 1..k # {}
        /\ Max(1..k) = k /\ (1..k) \ {k} = 1..(k - 1)
    BY <1>1, UptoOneMore
  <2>2. f[1..k] = f[(1..k) \ {Max(1..k)}] + MonthDays(s[Max(1..k)], year)
    BY <1>7, <2>1
  <2>. QED
    BY <1>1, <2>1, <2>2
<1>. DEFINE T == {k \in Nat : k <= n => f[1..k] = DaysBefore(k + 1, year)}
<1>10. 0 \in T
  BY <1>8 DEF DaysBefore
<1>11. ASSUME NEW k \in T PROVE k + 1 \in T
  <2>. SUFFICES ASSUME k + 1 <= n PROVE f[1..(k + 1)] = DaysBefore(k + 1 + 1, year)
    OBVIOUS
  <2>1. k + 1 \in 1..n /\ k + 1 \in 1..12 /\ (k + 1) - 1 = k
    BY <1>1
  <2>2. f[1..(k + 1)] = f[1..k] + MonthDays(k + 1, year)
    BY <1>9, <2>1
  <2>3. DaysBefore(k + 1 + 1, year) = DaysBefore(k + 1, year) + MonthDays(k + 1, year)
    BY <2>1, MonthMore
  <2>4. f[1..k] = DaysBefore(k + 1, year)
    BY <2>1
  <2>. QED
    BY <2>2, <2>3, <2>4
<1>12. n \in T
  <2>1. T \in SUBSET Nat
    OBVIOUS
  <2>. HIDE DEF T
  <2>. QED
    BY <1>1, <1>10, <1>11, <2>1, SetInduction
<1>13. total = DaysBefore(m, year)
  <2>1. n <= n /\ n + 1 = m
    BY <1>1
  <2>. QED
    BY <1>7, <1>12, <2>1
<1>14. RunningSeconds(year)[m] = 86400 * total
  BY DEF total, RunningSeconds, SECONDS_PER_DAY
<1>. QED
  BY <1>13, <1>14

(* Until 2037 every fourth year is a leap year. *)
LEMMA EveryFourth ==
  ASSUME NEW year \in 1970..2037
  PROVE  isLeapYear(year) <=> year % 4 = 0
  BY DEF isLeapYear

LeapYears(year) == Cardinality({y \in 1970..year : isLeapYear(y)})

(* The leap years up to and including the one that is k - 1 years later    *)
(* than 1970. *)
LEMMA LeapYearsUpto ==
  ASSUME NEW year \in 1969..2037
  PROVE  LeapYears(year) = (year - 1968) \div 4
<1>. DEFINE L(k) == {y \in 1970..(1969 + k) : isLeapYear(y)}
            T == {k \in Nat : k <= 68 =>
                     IsFiniteSet(L(k)) /\ Cardinality(L(k)) = (k + 1) \div 4}
<1>1. 0 \in T
  <2>1. L(0) = {}
    OBVIOUS
  <2>2. IsFiniteSet({}) /\ Cardinality({}) = 0
    BY FS_EmptySet
  <2>. QED
    BY <2>1, <2>2
<1>2. ASSUME NEW k \in T PROVE k + 1 \in T
  <2>. SUFFICES ASSUME k + 1 <= 68
                PROVE  IsFiniteSet(L(k + 1)) /\ Cardinality(L(k + 1)) = (k + 2) \div 4
    OBVIOUS
  <2>0. k \in Nat /\ IsFiniteSet(L(k)) /\ Cardinality(L(k)) = (k + 1) \div 4
    OBVIOUS
  <2>1. 1970 + k \in 1970..2037 /\ 1970 + k \notin L(k)
    OBVIOUS
  <2>2. isLeapYear(1970 + k) <=> (1970 + k) % 4 = 0
    BY <2>1, EveryFourth
  <2>3. CASE isLeapYear(1970 + k)
    <3>1. L(k + 1) = L(k) \cup {1970 + k}
      BY <2>3
    <3>2. IsFiniteSet(L(k + 1)) /\ Cardinality(L(k + 1)) = Cardinality(L(k)) + 1
      BY <2>0, <2>1, <3>1, FS_AddElement
    <3>3. (k + 2) \div 4 = (k + 1) \div 4 + 1
      BY <2>0, <2>2, <2>3
    <3>. QED
      BY <2>0, <3>2, <3>3
  <2>4. CASE ~isLeapYear(1970 + k)
    <3>1. L(k + 1) = L(k)
      BY <2>4
    <3>2. (k + 2) \div 4 = (k + 1) \div 4
      BY <2>0, <2>2, <2>4
    <3>. HIDE DEF L
    <3>. QED
      BY <2>0, <3>1, <3>2
  <2>. QED
    BY <2>3, <2>4
<1>3. PICK k \in Nat : k = year - 1969
  OBVIOUS
<1>4. k \in T
  <2>1. T \in SUBSET Nat
    OBVIOUS
  <2>. HIDE DEF T
  <2>. QED
    BY <1>1, <1>2, <1>3, <2>1, SetInduction
<1>5. k <= 68 /\ 1969 + k = year /\ k + 1 = year - 1968
  BY <1>3
<1>6. Cardinality(L(k)) = (k + 1) \div 4
  BY <1>4, <1>5
<1>. QED
  BY <1>5, <1>6 DEF LeapYears

(* The two counts of leap years are the same. *)
LEMMA LeapYearsBefore ==
  ASSUME NEW year \in 1970..2037
  PROVE  getNumLeapYears(year) = (year - 1969) \div 4
<1>1. year - 1 \in 1969..2037 /\ (year - 1) - 1968 = year - 1969
  OBVIOUS
<1>2. {y \in 1972..(year - 1) : y % 4 = 0 /\ isLeapYear(y)}
        = {y \in 1970..(year - 1) : isLeapYear(y)}
  <2>1. \A y \in 1970..(year - 1) : isLeapYear(y) <=> y % 4 = 0
    BY EveryFourth
  <2>2. \A y \in 1970..(year - 1) : y % 4 = 0 => y >= 1972
    OBVIOUS
  <2>. QED
    BY <2>1, <2>2
<1>3. LeapYears(year - 1) = ((year - 1) - 1968) \div 4
  BY <1>1, LeapYearsUpto
<1>4. getNumLeapYears(year) = LeapYears(year - 1)
  BY <1>2 DEF getNumLeapYears, LeapYears
<1>. QED
  BY <1>1, <1>3, <1>4

(* The seconds up to the end of a year. *)
LEMMA CountIs ==
  ASSUME NEW year \in 1969..2037
  PROVE  gregorian_count(year) = (year - 1969) * 31536000 + ((year - 1968) \div 4) * 86400
<1>1. PICK l : l = LeapYears(year)
  OBVIOUS
<1>2. l = (year - 1968) \div 4
  BY <1>1, LeapYearsUpto
<1>3. gregorian_count(year) = (year + 1 - 1970) * 31536000 + l * 86400
  BY <1>1 DEF gregorian_count, LeapYears, SECONDS_PER_DAY, SECONDS_PER_NON_LEAP_YEAR
<1>4. (year - 1968) \div 4 \in Int
  OBVIOUS
<1>. QED
  BY <1>2, <1>3, <1>4

(* since is how far s is in year.                                          *)
InYear(s, year, since) ==
  /\ year \in 1970..2037
  /\ since \in 0..(86400 * DaysBefore(13, year) - 1)
  /\ s = (year - 1970) * 31536000 + ((year - 1969) \div 4) * 86400 + since

(* The length of a year. *)
LEMMA YearLength ==
  ASSUME NEW year \in 1970..2037
  PROVE  /\ (year - 1968) \div 4 \in Nat /\ (year - 1969) \div 4 \in Nat
         /\ DaysBefore(13, year) = 365 + ((year - 1968) \div 4) - ((year - 1969) \div 4)
         /\ isLeapYear(year) <=> (year - 1968) \div 4 = ((year - 1969) \div 4) + 1
         /\ ~isLeapYear(year) <=> (year - 1968) \div 4 = (year - 1969) \div 4
<1>1. isLeapYear(year) <=> year % 4 = 0
  BY EveryFourth
<1>2. /\ (year - 1968) \div 4 \in Nat /\ (year - 1969) \div 4 \in Nat
      /\ year % 4 = 0 => (year - 1968) \div 4 = ((year - 1969) \div 4) + 1
      /\ year % 4 # 0 => (year - 1968) \div 4 = (year - 1969) \div 4
  OBVIOUS
<1>3. CASE isLeapYear(year)
  BY <1>1, <1>2, <1>3 DEF DaysBefore
<1>4. CASE ~isLeapYear(year)
  BY <1>1, <1>2, <1>4 DEF DaysBefore
<1>. QED
  BY <1>3, <1>4

(* The year of a number of seconds is found. *)
LEMMA YearIs ==
  ASSUME NEW s \in 0..(gregorian_count(LastYear) - 1)
  PROVE  InYear(s, YearOf(s), SinceYear(s, YearOf(s)))
<1>1. gregorian_count(2037) \in Int /\ s < gregorian_count(2037) /\ s \in Nat
  <2>1. 2037 \in 1969..2037 /\ (2037 - 1968) \div 4 = 17
    OBVIOUS
  <2>2. gregorian_count(2037) = (2037 - 1969) * 31536000 + 17 * 86400
    BY <2>1, CountIs
  <2>. QED
    BY <2>2 DEF LastYear
<1>. DEFINE Before == {y \in 1970..2037 : s < gregorian_count(y)}
            first == Min(Before)
<1>2. Before \in SUBSET (1..2037) /\ 2037 \in Before
  BY <1>1
<1>3. first \in Before /\ \A y \in Before : first <= y
  <2>1. PICK n \in Nat : n = 2037
    OBVIOUS
  <2>2. Before \in SUBSET (1..n) /\ Before # {}
    BY <1>2, <2>1
  <2>. HIDE DEF Before
  <2>. QED
    BY <2>2, MinIsIn
<1>4. \A z \in 1970..2037 : gregorian_count(z) \in Int
  <2>. TAKE z \in 1970..2037
  <2>1. z \in 1969..2037 /\ (z - 1968) \div 4 \in Int
    OBVIOUS
  <2>. QED
    BY <2>1, CountIs
<1>5. \A z \in 1970..(first - 1) : s >= gregorian_count(z)
  BY <1>1, <1>3, <1>4
<1>6. \E y \in 1970..LastYear : s < gregorian_count(y)
                               /\ \A z \in 1970..(y - 1) : s >= gregorian_count(z)
  BY <1>3, <1>5 DEF LastYear
<1>. HIDE DEF first, Before
<1>7. PICK year : year = YearOf(s)
  OBVIOUS
<1>8. /\ year \in 1970..2037 /\ s < gregorian_count(year)
      /\ \A z \in 1970..(year - 1) : s >= gregorian_count(z)
  BY <1>6, <1>7 DEF YearOf, LastYear
<1>9. PICK until \in Nat : until = (year - 1968) \div 4
  BY <1>8, YearLength
<1>10. PICK before \in Nat : before = (year - 1969) \div 4
  BY <1>8, YearLength
<1>11. gregorian_count(year) = (year - 1969) * 31536000 + until * 86400
  BY <1>8, <1>9, CountIs
<1>12. gregorian_count(year - 1) = (year - 1970) * 31536000 + before * 86400
  <2>1. year - 1 \in 1969..2037 /\ (year - 1) - 1968 = year - 1969
        /\ (year - 1) - 1969 = year - 1970
    BY <1>8
  <2>2. gregorian_count(year - 1)
          = ((year - 1) - 1969) * 31536000 + (((year - 1) - 1968) \div 4) * 86400
    BY <2>1, CountIs
  <2>. QED
    BY <1>10, <2>1, <2>2
<1>13. s >= gregorian_count(year - 1)
  <2>1. CASE year = 1970
    <3>1. before = 0
      BY <1>10, <2>1
    <3>. QED
      BY <1>1, <1>12, <2>1, <3>1
  <2>2. CASE year # 1970
    BY <1>8, <2>2
  <2>. QED
    BY <2>1, <2>2
<1>14. /\ DaysBefore(13, year) = 365 + until - before
       /\ isLeapYear(year) => until = before + 1
       /\ ~isLeapYear(year) => until = before
  BY <1>8, <1>9, <1>10, YearLength
<1>15. PICK since : since = SinceYear(s, year)
  OBVIOUS
<1>16. since = s - gregorian_count(year - 1)
  <2>1. CASE year = 1970
    <3>1. before = 0
      BY <1>10, <2>1
    <3>2. gregorian_count(year - 1) = 0
      BY <1>12, <2>1, <3>1
    <3>. QED
      BY <1>1, <1>15, <2>1, <3>2 DEF SinceYear
  <2>2. CASE year # 1970 /\ isLeapYear(year)
    <3>1. since = s - (gregorian_count(year) - 31536000) + 86400
      BY <1>15, <2>2 DEF SinceYear, SECONDS_PER_DAY, SECONDS_PER_NON_LEAP_YEAR
    <3>. QED
      BY <1>8, <1>11, <1>12, <1>14, <2>2, <3>1
  <2>3. CASE year # 1970 /\ ~isLeapYear(year)
    <3>1. since = s - (gregorian_count(year) - 31536000) + 0
      BY <1>15, <2>3 DEF SinceYear, SECONDS_PER_DAY, SECONDS_PER_NON_LEAP_YEAR
    <3>. QED
      BY <1>8, <1>11, <1>12, <1>14, <2>3, <3>1
  <2>. QED
    BY <2>1, <2>2, <2>3
<1>17. since \in 0..(86400 * DaysBefore(13, year) - 1)
  BY <1>1, <1>8, <1>11, <1>12, <1>13, <1>14, <1>16
<1>18. s = (year - 1970) * 31536000 + before * 86400 + since
  BY <1>1, <1>8, <1>12, <1>16
<1>. QED
  BY <1>7, <1>8, <1>10, <1>15, <1>17, <1>18 DEF InYear

(* r is how far since is in a month of year.                               *)
InMonth(since, year, month, r) ==
  /\ month \in 1..12
  /\ r \in 0..(86400 * MonthDays(month, year) - 1)
  /\ since = 86400 * DaysBefore(month, year) + r

(* Months follow one another. *)
LEMMA MonthsClimb ==
  ASSUME NEW year, NEW m \in 1..13, NEW k \in 1..13, m <= k
  PROVE  DaysBefore(m, year) \in Nat /\ DaysBefore(m, year) <= DaysBefore(k, year)
<1>1. m = 1 \/ m = 2 \/ m = 3 \/ m = 4 \/ m = 5 \/ m = 6 \/ m = 7 \/ m = 8 \/ m = 9
      \/ m = 10 \/ m = 11 \/ m = 12 \/ m = 13
  OBVIOUS
<1>2. DaysBefore(m, year) \in Nat
  <2>1. CASE isLeapYear(year)
    BY <1>1, <2>1 DEF DaysBefore
  <2>2. CASE ~isLeapYear(year)
    BY <1>1, <2>2 DEF DaysBefore
  <2>. QED
    BY <2>1, <2>2
<1>. DEFINE T == {d \in Nat : m + d <= 13 => /\ DaysBefore(m + d, year) \in Nat
                                             /\ DaysBefore(m, year) <= DaysBefore(m + d, year)}
<1>3. 0 \in T
  BY <1>2
<1>4. ASSUME NEW d \in T PROVE d + 1 \in T
  <2>. SUFFICES ASSUME m + d + 1 <= 13
                PROVE  /\ DaysBefore(m + d + 1, year) \in Nat
                       /\ DaysBefore(m, year) <= DaysBefore(m + d + 1, year)
    OBVIOUS
  <2>1. m + d \in 1..12 /\ DaysBefore(m + d, year) \in Nat
        /\ DaysBefore(m, year) <= DaysBefore(m + d, year)
    OBVIOUS
  <2>2. /\ MonthDays(m + d, year) \in 28..31
        /\ DaysBefore(m + d + 1, year) = DaysBefore(m + d, year) + MonthDays(m + d, year)
    BY <2>1, MonthMore
  <2>. QED
    BY <1>2, <2>1, <2>2
<1>5. T = Nat
  <2>1. T \in SUBSET Nat
    OBVIOUS
  <2>. HIDE DEF T
  <2>. QED
    BY <1>3, <1>4, <2>1, SetInduction
<1>6. k - m \in Nat /\ m + (k - m) = k
  OBVIOUS
<1>7. k - m \in T
  BY <1>5, <1>6
<1>. QED
  BY <1>2, <1>6, <1>7

(* The month of a number of seconds of a year is found. *)
LEMMA MonthIs ==
  ASSUME NEW year, NEW since \in 0..(86400 * DaysBefore(13, year) - 1)
  PROVE  LET month == MonthIn(year, since)
         IN  InMonth(since, year, month, since - secondsUpUntilMonth(month, year))
<1>. DEFINE Begun == {m \in 1..13 : RunningSeconds(year)[m] <= since}
<1>1. \A m \in 1..13 : /\ RunningSeconds(year)[m] = 86400 * DaysBefore(m, year)
                       /\ DaysBefore(m, year) \in Nat
  BY RunningIs, MonthsClimb
<1>2. 1 \in Begun
  <2>1. DaysBefore(1, year) = 0
    BY DEF DaysBefore
  <2>. QED
    BY <1>1, <2>1
<1>3. PICK month : month = Max(Begun)
  OBVIOUS
<1>4. Begun \in SUBSET (1..13) /\ Begun # {}
  BY <1>2
<1>5. month \in Begun /\ \A m \in Begun : m <= month
  BY <1>3, <1>4, MaxIsIn
<1>6. month \in 1..13 /\ 86400 * DaysBefore(month, year) <= since
  BY <1>1, <1>5
<1>7. month \in 1..12
  <2>1. month # 13
    BY <1>1, <1>6
  <2>. QED
    BY <1>6, <2>1
<1>8. since < 86400 * DaysBefore(month + 1, year)
  <2>1. month + 1 \in 1..13 /\ month + 1 \notin Begun
    BY <1>5, <1>7
  <2>. QED
    BY <1>1, <2>1
<1>9. Begun = 1..month
  <2>1. ASSUME NEW m \in 1..month PROVE m \in Begun
    <3>1. m \in 1..13 /\ m <= month
      BY <1>7
    <3>2. DaysBefore(m, year) <= DaysBefore(month, year)
      BY <1>6, <3>1, MonthsClimb
    <3>. QED
      BY <1>1, <1>6, <3>1, <3>2
  <2>2. \A m \in Begun : m \in 1..month
    BY <1>5
  <2>. QED
    BY <2>1, <2>2
<1>10. MonthIn(year, since) = month
  <2>1. month \in Nat
    BY <1>7
  <2>2. Cardinality(1..month) = month
    BY <2>1, CountUpto
  <2>3. MonthIn(year, since) = Cardinality(Begun)
    BY DEF MonthIn
  <2>. HIDE DEF Begun
  <2>. QED
    BY <1>9, <2>2, <2>3
<1>11. PICK r : r = since - secondsUpUntilMonth(month, year)
  OBVIOUS
<1>12. r = since - 86400 * DaysBefore(month, year)
  BY <1>1, <1>6, <1>11 DEF secondsUpUntilMonth
<1>13. MonthDays(month, year) \in Nat
       /\ DaysBefore(month + 1, year) = DaysBefore(month, year) + MonthDays(month, year)
  BY <1>7, MonthMore
<1>14. r \in 0..(86400 * MonthDays(month, year) - 1)
       /\ since = 86400 * DaysBefore(month, year) + r
  BY <1>1, <1>6, <1>8, <1>12, <1>13
<1>. QED
  BY <1>7, <1>10, <1>11, <1>14 DEF InMonth

(* r is a time of day, that many seconds into a span of days.              *)
InDay(r, days, day, hr, min, sec) ==
  /\ day \in 0..(days - 1) /\ hr \in 0..23 /\ min \in 0..59 /\ sec \in 0..59
  /\ r = day * 86400 + hr * 3600 + min * 60 + sec

(* How a clock divides them: d are those of the day.                       *)
Divided(r, day, d, hr, min, sec) ==
  /\ day = r \div 86400 /\ d = r - day * 86400
  /\ hr = d \div 3600 /\ min = (d - hr * 3600) \div 60 /\ sec = d % 60

(* The day and the time of day. *)
LEMMA DayIs ==
  ASSUME NEW days \in Nat, NEW r \in 0..(86400 * days - 1),
         NEW day, NEW d, NEW hr, NEW min, NEW sec, Divided(r, day, d, hr, min, sec)
  PROVE  InDay(r, days, day, hr, min, sec)
<1>0. /\ day = r \div 86400 /\ d = r - day * 86400
      /\ hr = d \div 3600 /\ min = (d - hr * 3600) \div 60 /\ sec = d % 60
  BY DEF Divided
<1>1. day \in Nat /\ d \in Nat /\ d < 86400 /\ r = day * 86400 + d
  BY <1>0
<1>2. day < days
  BY <1>1
<1>3. hr \in 0..23 /\ d - hr * 3600 \in Nat /\ d - hr * 3600 < 3600
  BY <1>0, <1>1
<1>4. PICK e \in Nat : e = d - hr * 3600 /\ e < 3600
  BY <1>3
<1>5. d = hr * 3600 + e
  BY <1>1, <1>3, <1>4
<1>6. min \in 0..59 /\ e = min * 60 + (e % 60)
  BY <1>0, <1>4
<1>7. sec = e % 60
  BY <1>0, <1>1, <1>3, <1>5
<1>8. sec \in 0..59
  BY <1>4, <1>7
<1>. QED
  BY <1>1, <1>2, <1>3, <1>5, <1>6, <1>7, <1>8 DEF InDay

(* ecal.cpp: every number of seconds until the end of LastYear is written  *)
(* as a date that exists, and the seconds that a date is read as are those *)
(* it was written for.                                                     *)
THEOREM ClockTellsTheDate ==
  \A s \in 0..(gregorian_count(LastYear) - 1) : IsDate(Clock(s)) /\ EpochSeconds(Clock(s)) = s
<1>. TAKE s \in 0..(gregorian_count(LastYear) - 1)
<1>1. PICK year : year = YearOf(s)
  OBVIOUS
<1>2. PICK since : since = SinceYear(s, year)
  OBVIOUS
<1>3. InYear(s, year, since)
  BY <1>1, <1>2, YearIs
<1>4. PICK month : month = MonthIn(year, since)
  OBVIOUS
<1>5. PICK r : r = since - secondsUpUntilMonth(month, year)
  OBVIOUS
<1>6. InMonth(since, year, month, r)
  BY <1>3, <1>4, <1>5, MonthIs DEF InYear
<1>7. PICK day : day = r \div 86400
  OBVIOUS
<1>8. PICK d : d = r - day * 86400
  OBVIOUS
<1>9. PICK hr : hr = d \div 3600
  OBVIOUS
<1>10. PICK min : min = (d - hr * 3600) \div 60
  OBVIOUS
<1>11. PICK sec : sec = d % 60
  OBVIOUS
<1>12. Clock(s) = [year |-> year, month |-> month, day |-> day + 1, hr |-> hr,
                   min |-> min, sec |-> sec]
  BY <1>1, <1>2, <1>4, <1>5, <1>7, <1>8, <1>9, <1>10, <1>11
     DEF Clock, SECONDS_PER_DAY, SECONDS_PER_HOUR, SECONDS_PER_MINUTE
<1>13. PICK t : t = Clock(s)
  OBVIOUS
<1>14. /\ t.year = year /\ t.month = month /\ t.day = day + 1
       /\ t.hr = hr /\ t.min = min /\ t.sec = sec
  BY <1>12, <1>13
<1>15. month \in 1..12 /\ MonthDays(month, year) \in Nat /\ DaysBefore(month, year) \in Nat
       /\ r \in 0..(86400 * MonthDays(month, year) - 1)
  BY <1>6, MonthMore DEF InMonth
<1>16. PICK days \in Nat : days = MonthDays(month, year)
  BY <1>15
<1>17. InDay(r, days, day, hr, min, sec)
  <2>1. Divided(r, day, d, hr, min, sec)
    BY <1>7, <1>8, <1>9, <1>10, <1>11 DEF Divided
  <2>. QED
    BY <1>15, <1>16, <2>1, DayIs
<1>18. IsDate(t)
  <2>1. t.year \in 1970..LastYear
    BY <1>3, <1>14 DEF InYear, LastYear
  <2>2. t.month \in 1..12
    BY <1>14, <1>15
  <2>3. t.day \in 1..MonthDays(t.month, t.year)
    BY <1>14, <1>16, <1>17 DEF InDay
  <2>4. t.hr \in 0..23 /\ t.min \in 0..59 /\ t.sec \in 0..59
    BY <1>14, <1>17 DEF InDay
  <2>. QED
    BY <2>1, <2>2, <2>3, <2>4 DEF IsDate
<1>19. year \in 1970..2037 /\ getNumLeapYears(year) = (year - 1969) \div 4
       /\ (year - 1969) \div 4 \in Int
  BY <1>3, LeapYearsBefore DEF InYear
<1>20. secondsUpUntilMonth(month, year) = 86400 * DaysBefore(month, year)
  BY <1>15, RunningIs DEF secondsUpUntilMonth
<1>21. EpochSeconds(t) = (year - 1970) * 31536000 + ((year - 1969) \div 4) * 86400
                         + 86400 * DaysBefore(month, year) + ((day + 1) - 1) * 86400
                         + hr * 3600 + min * 60 + sec
  BY <1>14, <1>19, <1>20
     DEF EpochSeconds, SECONDS_PER_DAY, SECONDS_PER_HOUR, SECONDS_PER_MINUTE,
         SECONDS_PER_NON_LEAP_YEAR
<1>22. /\ since = 86400 * DaysBefore(month, year) + r
       /\ s = (year - 1970) * 31536000 + ((year - 1969) \div 4) * 86400 + since
  BY <1>3, <1>6 DEF InYear, InMonth
<1>23. /\ day \in Int /\ hr \in Int /\ min \in Int /\ sec \in Int /\ r \in Int
       /\ r = day * 86400 + hr * 3600 + min * 60 + sec
  BY <1>15, <1>17 DEF InDay
<1>24. PICK leaps \in Int : leaps = (year - 1969) \div 4
  BY <1>19
<1>25. PICK before \in Int : before = DaysBefore(month, year)
  BY <1>15
<1>26. year \in Int
  BY <1>19
<1>27. EpochSeconds(t) = s
  BY <1>21, <1>22, <1>23, <1>24, <1>25, <1>26
<1>. QED
  BY <1>13, <1>18, <1>27

(* ecal.cpp and etime.cpp: the seconds of a date are those of the calendar *)
(* that begins in March, which has no table of months and no leap years.   *)
THEOREM SecondsAreCivil == \A t : IsDate(t) => EpochSeconds(t) = CivilSeconds(t)
<1>. TAKE t
<1>. HAVE IsDate(t)
<1>1. PICK year \in 1970..2037 : year = t.year
  BY DEF IsDate, LastYear
<1>2. PICK month \in 1..12 : month = t.month
  BY DEF IsDate
<1>3. PICK day \in Int : day = t.day
  BY DEF IsDate
<1>4. getNumLeapYears(year) = (year - 1969) \div 4
  BY LeapYearsBefore
<1>5. secondsUpUntilMonth(month, year) = 86400 * DaysBefore(month, year)
      /\ DaysBefore(month, year) \in Nat
  BY RunningIs, MonthMore DEF secondsUpUntilMonth
<1>6. DaysFromCivil(year, month, day)
        = 365 * (year - 1970) + ((year - 1969) \div 4) + DaysBefore(month, year) + day - 1
  <2>1. isLeapYear(year) <=> year % 4 = 0
    BY EveryFourth
  <2>2. /\ 0 - (year \div 100) + (year \div 400) = -15
        /\ 0 - ((year - 1) \div 100) + ((year - 1) \div 400) = -15
    OBVIOUS
  <2>3. PICK q \in Int : q = (year - 1969) \div 4
    OBVIOUS
  <2>4. (year - 1) \div 4 = q + 492 /\ year \div 4 = q + 492 + (IF year % 4 = 0 THEN 1 ELSE 0)
    BY <2>3
  <2>5. CASE month \in 1..2
    <3>1. /\ (month + 9) % 12 = month + 9 /\ (month + 9) \div 10 = 1
          /\ month = 1 \/ month = 2
      BY <2>5
    <3>2. DaysBefore(month, year) = 31 * (month - 1)
          /\ (306 * (month + 9) + 5) \div 10 = 275 + 31 * month
      BY <3>1 DEF DaysBefore
    <3>3. DaysFromCivil(year, month, day)
            = 365 * (year - 1) + ((year - 1) \div 4) - ((year - 1) \div 100)
              + ((year - 1) \div 400) + ((306 * (month + 9) + 5) \div 10) + day - 1 - 719468
      BY <3>1 DEF DaysFromCivil
    <3>. QED
      BY <2>2, <2>3, <2>4, <3>2, <3>3
  <2>6. CASE month \in 3..12
    <3>1. month = 3 \/ month = 4 \/ month = 5 \/ month = 6 \/ month = 7 \/ month = 8
          \/ month = 9 \/ month = 10 \/ month = 11 \/ month = 12
      BY <2>6
    <3>2. (month + 9) % 12 = month - 3 /\ (month - 3) \div 10 = 0
      BY <3>1
    <3>3. PICK leap : leap = IF year % 4 = 0 THEN 1 ELSE 0
      OBVIOUS
    <3>4. leap \in Int /\ DaysBefore(month, year)
                            = ((306 * (month - 3) + 5) \div 10) + 59 + leap
      <4>1. CASE year % 4 = 0
        BY <2>1, <3>1, <3>3, <4>1 DEF DaysBefore
      <4>2. CASE year % 4 # 0
        BY <2>1, <3>1, <3>3, <4>2 DEF DaysBefore
      <4>. QED
        BY <4>1, <4>2
    <3>5. DaysFromCivil(year, month, day)
            = 365 * year + (year \div 4) - (year \div 100)
              + (year \div 400) + ((306 * (month - 3) + 5) \div 10) + day - 1 - 719468
      BY <3>2 DEF DaysFromCivil
    <3>6. year \div 4 = q + 492 + leap
      BY <2>4, <3>3
    <3>7. PICK c \in Int : c = (306 * (month - 3) + 5) \div 10
      OBVIOUS
    <3>. QED
      BY <2>2, <2>3, <3>4, <3>5, <3>6, <3>7
  <2>. QED
    BY <2>5, <2>6
<1>7. t.hr \in Int /\ t.min \in Int /\ t.sec \in Int
  BY DEF IsDate
<1>8. PICK q \in Int : q = (year - 1969) \div 4
  OBVIOUS
<1>9. EpochSeconds(t) = (year - 1970) * 31536000 + q * 86400
                        + 86400 * DaysBefore(month, year) + (day - 1) * 86400
                        + t.hr * 3600 + t.min * 60 + t.sec
  BY <1>1, <1>2, <1>3, <1>4, <1>5, <1>8
     DEF EpochSeconds, SECONDS_PER_DAY, SECONDS_PER_HOUR, SECONDS_PER_MINUTE,
         SECONDS_PER_NON_LEAP_YEAR
<1>10. CivilSeconds(t) = (365 * (year - 1970) + q + DaysBefore(month, year) + day - 1) * 86400
                         + t.hr * 3600 + t.min * 60 + t.sec
  BY <1>1, <1>2, <1>3, <1>6, <1>8 DEF CivilSeconds
<1>. QED
  BY <1>5, <1>7, <1>9, <1>10

(* A date is its year, a month of it and a time in that month. *)
LEMMA DateParts ==
  ASSUME NEW t, IsDate(t)
  PROVE  \E since, r : /\ InYear(EpochSeconds(t), t.year, since)
                       /\ InMonth(since, t.year, t.month, r)
                       /\ InDay(r, MonthDays(t.month, t.year), t.day - 1, t.hr, t.min, t.sec)
<1>1. PICK year \in 1970..2037 : year = t.year
  BY DEF IsDate, LastYear
<1>2. PICK month \in 1..12 : month = t.month
  BY DEF IsDate
<1>3. PICK days \in 28..31 : days = MonthDays(month, year)
  BY MonthMore
<1>4. PICK day \in Int : day = t.day - 1
  BY DEF IsDate
<1>5. day \in 0..(days - 1)
  BY <1>1, <1>2, <1>3, <1>4 DEF IsDate
<1>6. PICK hr \in Int : hr = t.hr /\ hr >= 0 /\ hr <= 23
  BY DEF IsDate
<1>7. PICK min \in Int : min = t.min /\ min >= 0 /\ min <= 59
  BY DEF IsDate
<1>8. PICK sec \in Int : sec = t.sec /\ sec >= 0 /\ sec <= 59
  BY DEF IsDate
<1>9. PICK r : r = day * 86400 + hr * 3600 + min * 60 + sec
  OBVIOUS
<1>10. InDay(r, days, day, hr, min, sec)
  BY <1>5, <1>6, <1>7, <1>8, <1>9 DEF InDay
<1>11. r \in 0..(86400 * days - 1)
  <2>1. r \in Int /\ r >= 0
    BY <1>5, <1>6, <1>7, <1>8, <1>9
  <2>2. r <= (days - 1) * 86400 + 23 * 3600 + 59 * 60 + 59
    BY <1>3, <1>5, <1>6, <1>7, <1>8, <1>9
  <2>. QED
    BY <1>3, <2>1, <2>2
<1>12. PICK before \in Nat : before = DaysBefore(month, year)
  BY MonthMore
<1>13. PICK since : since = 86400 * before + r
  OBVIOUS
<1>14. InMonth(since, year, month, r)
  BY <1>3, <1>11, <1>12, <1>13 DEF InMonth
<1>15. since \in 0..(86400 * DaysBefore(13, year) - 1)
  <2>1. DaysBefore(month + 1, year) = before + days
    BY <1>3, <1>12, MonthMore
  <2>2. month + 1 \in 1..13 /\ 13 \in 1..13 /\ month + 1 <= 13
    OBVIOUS
  <2>3. DaysBefore(month + 1, year) <= DaysBefore(13, year)
        /\ DaysBefore(13, year) \in Nat
    BY <2>2, MonthsClimb
  <2>. QED
    BY <1>3, <1>11, <1>12, <1>13, <2>1, <2>3
<1>16. PICK leaps \in Int : leaps = (year - 1969) \div 4
  OBVIOUS
<1>17. getNumLeapYears(year) = leaps /\ secondsUpUntilMonth(month, year) = 86400 * before
  BY <1>12, <1>16, LeapYearsBefore, RunningIs DEF secondsUpUntilMonth
<1>18. EpochSeconds(t) = (year - 1970) * 31536000 + leaps * 86400 + 86400 * before
                         + (t.day - 1) * 86400 + hr * 3600 + min * 60 + sec
  BY <1>1, <1>2, <1>6, <1>7, <1>8, <1>17
     DEF EpochSeconds, SECONDS_PER_DAY, SECONDS_PER_HOUR, SECONDS_PER_MINUTE,
         SECONDS_PER_NON_LEAP_YEAR
<1>19. EpochSeconds(t) = (year - 1970) * 31536000 + leaps * 86400 + 86400 * before
                         + day * 86400 + hr * 3600 + min * 60 + sec
  BY <1>4, <1>18
<1>20. EpochSeconds(t) = (year - 1970) * 31536000 + leaps * 86400 + since
  BY <1>4, <1>6, <1>7, <1>8, <1>9, <1>12, <1>13, <1>16, <1>19
<1>21. InYear(EpochSeconds(t), year, since)
  BY <1>15, <1>16, <1>20 DEF InYear
<1>. QED
  BY <1>1, <1>2, <1>3, <1>4, <1>6, <1>7, <1>8, <1>10, <1>14, <1>21

(* A second is in one year only. *)
LEMMA OneYear ==
  ASSUME NEW s, NEW y, NEW a, InYear(s, y, a), NEW z, NEW b, InYear(s, z, b)
  PROVE  y = z /\ a = b
<1>. DEFINE Start(v) == (v - 1970) * 31536000 + ((v - 1969) \div 4) * 86400
<1>1. ASSUME NEW u \in 1970..2037, NEW v \in 1970..2037, u < v,
             NEW c, InYear(s, u, c), NEW d, InYear(s, v, d)
      PROVE  FALSE
  <2>1. PICK until \in Nat : until = (u - 1968) \div 4
    BY YearLength
  <2>2. PICK before \in Nat : before = (u - 1969) \div 4
    BY YearLength
  <2>3. PICK later \in Nat : later = (v - 1969) \div 4
    BY YearLength
  <2>4. later >= until
    BY <1>1, <2>1, <2>3
  <2>5. DaysBefore(13, u) = 365 + until - before
    BY <2>1, <2>2, YearLength
  <2>6. /\ c \in 0..(86400 * DaysBefore(13, u) - 1)
        /\ s = (u - 1970) * 31536000 + before * 86400 + c
    BY <1>1, <2>2 DEF InYear
  <2>7. d >= 0 /\ d \in Int /\ s = (v - 1970) * 31536000 + later * 86400 + d
    <3>1. d \in 0..(86400 * DaysBefore(13, v) - 1)
      BY <1>1 DEF InYear
    <3>2. DaysBefore(13, v) \in Int
      BY MonthsClimb
    <3>. QED
      BY <1>1, <2>3, <3>1, <3>2 DEF InYear
  <2>8. c \in Int /\ c < 86400 * (365 + until - before)
    BY <2>1, <2>2, <2>5, <2>6
  <2>9. (v - 1970) * 31536000 >= (u - 1970) * 31536000 + 31536000
    BY <1>1
  <2>. QED
    BY <1>1, <2>1, <2>2, <2>3, <2>4, <2>6, <2>7, <2>8, <2>9
<1>2. y \in 1970..2037 /\ z \in 1970..2037
  BY DEF InYear
<1>3. ~(y < z) /\ ~(z < y)
  BY <1>1, <1>2
<1>4. y = z
  BY <1>2, <1>3
<1>5. PICK before \in Nat : before = (y - 1969) \div 4
  BY <1>2, YearLength
<1>6. DaysBefore(13, y) \in Int
  BY MonthsClimb
<1>7. a \in Int /\ s = (y - 1970) * 31536000 + before * 86400 + a
  BY <1>5, <1>6 DEF InYear
<1>8. b \in Int /\ s = (y - 1970) * 31536000 + before * 86400 + b
  BY <1>4, <1>5, <1>6 DEF InYear
<1>. QED
  BY <1>2, <1>4, <1>5, <1>7, <1>8

(* A second of a year is in one month only. *)
LEMMA OneMonth ==
  ASSUME NEW since, NEW year, NEW m, NEW p, InMonth(since, year, m, p),
         NEW k, NEW q, InMonth(since, year, k, q)
  PROVE  m = k /\ p = q
<1>1. ASSUME NEW u \in 1..12, NEW v \in 1..12, u < v,
             NEW c, InMonth(since, year, u, c), NEW d, InMonth(since, year, v, d)
      PROVE  FALSE
  <2>1. /\ DaysBefore(u, year) \in Nat /\ MonthDays(u, year) \in 28..31
        /\ DaysBefore(u + 1, year) = DaysBefore(u, year) + MonthDays(u, year)
    BY MonthMore
  <2>2. u + 1 \in 1..13 /\ v \in 1..13 /\ u + 1 <= v
    BY <1>1
  <2>3. DaysBefore(u + 1, year) <= DaysBefore(v, year) /\ DaysBefore(v, year) \in Nat
    BY <2>2, MonthsClimb
  <2>4. c < 86400 * MonthDays(u, year) /\ c \in Int /\ since = 86400 * DaysBefore(u, year) + c
    BY <1>1, <2>1 DEF InMonth
  <2>5. MonthDays(v, year) \in 28..31
    BY MonthMore
  <2>6. d >= 0 /\ d \in Int /\ since = 86400 * DaysBefore(v, year) + d
    BY <1>1, <2>5 DEF InMonth
  <2>. QED
    BY <2>1, <2>3, <2>4, <2>6
<1>2. m \in 1..12 /\ k \in 1..12
  BY DEF InMonth
<1>3. ~(m < k) /\ ~(k < m)
  BY <1>1, <1>2
<1>4. m = k
  BY <1>2, <1>3
<1>5. DaysBefore(m, year) \in Nat /\ MonthDays(m, year) \in 28..31
  BY <1>2, MonthMore
<1>6. p \in Int /\ since = 86400 * DaysBefore(m, year) + p
  BY <1>5 DEF InMonth
<1>7. q \in Int /\ since = 86400 * DaysBefore(m, year) + q
  BY <1>4, <1>5 DEF InMonth
<1>. QED
  BY <1>4, <1>5, <1>6, <1>7

(* A second of a month is at one time of one day only. *)
LEMMA OneTime ==
  ASSUME NEW days \in Nat,
         NEW r, NEW day, NEW hr, NEW min, NEW sec, InDay(r, days, day, hr, min, sec),
         NEW day2, NEW hr2, NEW min2, NEW sec2, InDay(r, days, day2, hr2, min2, sec2)
  PROVE  day = day2 /\ hr = hr2 /\ min = min2 /\ sec = sec2
<1>. DEFINE Between(x, top) == x \in Int /\ 0 <= x /\ x <= top
<1>1. /\ day \in Nat /\ Between(hr, 23) /\ Between(min, 59) /\ Between(sec, 59)
      /\ r = day * 86400 + hr * 3600 + min * 60 + sec
  BY DEF InDay
<1>2. /\ day2 \in Nat /\ Between(hr2, 23) /\ Between(min2, 59) /\ Between(sec2, 59)
      /\ r = day2 * 86400 + hr2 * 3600 + min2 * 60 + sec2
  BY DEF InDay
<1>3. PICK a \in Int : a = hr * 3600 + min * 60 + sec
  BY <1>1
<1>4. PICK b \in Int : b = hr2 * 3600 + min2 * 60 + sec2
  BY <1>2
<1>5. a >= 0 /\ a < 86400 /\ r = day * 86400 + a
  BY <1>1, <1>3
<1>6. b >= 0 /\ b < 86400 /\ r = day2 * 86400 + b
  BY <1>2, <1>4
<1>7. day = day2 /\ a = b
  BY <1>1, <1>2, <1>5, <1>6
<1>8. PICK c \in Int : c = min * 60 + sec /\ c >= 0 /\ c < 3600
  BY <1>1
<1>9. PICK d \in Int : d = min2 * 60 + sec2 /\ d >= 0 /\ d < 3600
  BY <1>2
<1>10. hr * 3600 + c = hr2 * 3600 + d
  BY <1>1, <1>2, <1>3, <1>4, <1>7, <1>8, <1>9
<1>11. hr = hr2 /\ c = d
  BY <1>1, <1>2, <1>8, <1>9, <1>10
<1>12. min = min2 /\ sec = sec2
  BY <1>1, <1>2, <1>8, <1>9, <1>11
<1>. QED
  BY <1>7, <1>11, <1>12

(* The seconds of a date are within the years. *)
LEMMA WithinYears ==
  ASSUME NEW s, NEW year, NEW since, InYear(s, year, since)
  PROVE  s \in 0..(gregorian_count(LastYear) - 1)
<1>1. year \in 1970..2037
  BY DEF InYear
<1>2. PICK until \in Nat : until = (year - 1968) \div 4
  BY <1>1, YearLength
<1>3. PICK before \in Nat : before = (year - 1969) \div 4
  BY <1>1, YearLength
<1>4. until <= 17
  BY <1>1, <1>2, SMTT(30)
<1>5. DaysBefore(13, year) = 365 + until - before
  BY <1>1, <1>2, <1>3, YearLength
<1>6. /\ since \in Int /\ 0 <= since /\ since < 86400 * (365 + until - before)
      /\ s = (year - 1970) * 31536000 + before * 86400 + since
  BY <1>2, <1>3, <1>5, SMTT(30) DEF InYear
<1>7. gregorian_count(LastYear) = 68 * 31536000 + 17 * 86400
  <2>1. 2037 \in 1969..2037 /\ (2037 - 1968) \div 4 = 17 /\ 2037 - 1969 = 68
    OBVIOUS
  <2>. QED
    BY <2>1, CountIs DEF LastYear
<1>8. s \in Int /\ s >= 0
  BY <1>1, <1>3, <1>6, SMTT(30)
<1>9. s < (year - 1969) * 31536000 + until * 86400
  BY <1>1, <1>2, <1>3, <1>6, SMTT(30)
<1>10. (year - 1969) * 31536000 <= 68 * 31536000
  BY <1>1, SMTT(30)
<1>11. s < 68 * 31536000 + 17 * 86400
  BY <1>1, <1>2, <1>4, <1>8, <1>9, <1>10, SMTT(30)
<1>12. PICK g \in Int : g = gregorian_count(LastYear)
  BY <1>7, SMTT(30)
<1>13. s < g
  BY <1>7, <1>11, <1>12, SMTT(30)
<1>. QED
  BY <1>8, <1>12, <1>13

(* ecal.cpp: a date that exists is written again as it was, from the       *)
(* seconds that it is read as.                                             *)
THEOREM DatesComeBack ==
  \A t : IsDate(t) =>
     Clock(EpochSeconds(t)) = [year |-> t.year, month |-> t.month, day |-> t.day,
                               hr |-> t.hr, min |-> t.min, sec |-> t.sec]
<1>. TAKE t
<1>. HAVE IsDate(t)
<1>1. PICK s : s = EpochSeconds(t)
  OBVIOUS
<1>2. PICK a, p : /\ InYear(s, t.year, a) /\ InMonth(a, t.year, t.month, p)
                  /\ InDay(p, MonthDays(t.month, t.year), t.day - 1, t.hr, t.min, t.sec)
  BY <1>1, DateParts
<1>3. s \in 0..(gregorian_count(LastYear) - 1)
  BY <1>2, WithinYears
<1>4. PICK u : u = Clock(s)
  OBVIOUS
<1>5. IsDate(u) /\ EpochSeconds(u) = s
  BY <1>3, <1>4, ClockTellsTheDate
<1>6. PICK b, q : /\ InYear(s, u.year, b) /\ InMonth(b, u.year, u.month, q)
                  /\ InDay(q, MonthDays(u.month, u.year), u.day - 1, u.hr, u.min, u.sec)
  BY <1>5, DateParts
<1>7. u.year = t.year /\ a = b
  BY <1>2, <1>6, OneYear
<1>8. u.month = t.month /\ p = q
  BY <1>2, <1>6, <1>7, OneMonth
<1>9. PICK days \in Nat : days = MonthDays(t.month, t.year)
  BY MonthMore DEF IsDate
<1>10. InDay(p, days, t.day - 1, t.hr, t.min, t.sec)
  BY <1>2, <1>9, SMTT(30)
<1>11. InDay(p, days, u.day - 1, u.hr, u.min, u.sec)
  BY <1>6, <1>7, <1>8, <1>9, SMTT(30)
<1>12. u.day - 1 = t.day - 1 /\ u.hr = t.hr /\ u.min = t.min /\ u.sec = t.sec
  BY <1>10, <1>11, OneTime
<1>13. t.day \in Int /\ u.day \in Int
  BY <1>5 DEF IsDate
<1>14. u.day = t.day
  BY <1>12, <1>13, SMTT(30)
<1>15. u = [year |-> u.year, month |-> u.month, day |-> u.day, hr |-> u.hr,
            min |-> u.min, sec |-> u.sec]
  BY <1>4 DEF Clock
<1>. QED
  BY <1>1, <1>4, <1>7, <1>8, <1>12, <1>14, <1>15, SMTT(30)
=============================================================================
