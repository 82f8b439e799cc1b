-------------------------- MODULE HashTableProofs --------------------------
(***************************************************************************)
(* The hash table of nasmlib/hashtbl.c is a map, for every set of keys,    *)
(* all hashes and every size that is a power of two: a search ends and     *)
(* finds what was added, and a table that grows loses nothing.             *)
(***************************************************************************)
EXTENDS HashTable, FiniteSetTheorems, FunctionTheorems, WellFoundedInduction,
        TLAPS

-----------------------------------------------------------------------------
(* Numbers.                                                                *)

LEMMA LeastOf ==
    ASSUME NEW S, S \subseteq Nat, S # {}
    PROVE  \E m \in S : \A k \in S : m <= k
  <1> DEFINE R == OpToRel(<, Nat)
  <1>1. IsWellFoundedOn(R, Nat)
    BY NatLessThanWellFounded
  <1>2. \A x, y \in Nat : y < x => <<y, x>> \in R
    BY DEF OpToRel
  <1> HIDE DEF R
  <1>3. PICK m \in S : \A k \in S : ~(<<k, m>> \in R)
    BY <1>1, WFMin
  <1>4. ASSUME NEW k \in S PROVE m <= k
    <2>1. m \in Nat /\ k \in Nat /\ ~(<<k, m>> \in R)
      BY <1>3
    <2>2. ~(k < m)
      BY <1>2, <2>1
    <2> QED
      BY <2>1, <2>2
  <1> QED
    BY <1>4

LEMMA ProductsGrow ==
    ASSUME NEW p \in Int, NEW q \in Int, NEW b \in Nat \ {0}, p < q
    PROVE  p * b + b <= q * b /\ p * b \in Int /\ q * b \in Int
  <1>1. q - p - 1 \in Nat /\ (q - p - 1) * b >= 0
    OBVIOUS
  <1>2. (q - p - 1) * b = q * b - p * b - b
    OBVIOUS
  <1> QED
    BY <1>1, <1>2

LEMMA OneQuotient ==
    ASSUME NEW b \in Nat \ {0}, NEW p \in Int, NEW q \in Int,
           NEW r \in 0..b - 1, NEW s \in 0..b - 1, p * b + r = q * b + s
    PROVE  p = q /\ r = s
  <1>1. ~(p < q)
    <2> SUFFICES ASSUME p < q PROVE FALSE
      OBVIOUS
    <2>1. p * b + b <= q * b /\ p * b \in Int /\ q * b \in Int
      BY ProductsGrow
    <2> QED
      BY <2>1
  <1>2. ~(q < p)
    <2> SUFFICES ASSUME q < p PROVE FALSE
      OBVIOUS
    <2>1. q * b + b <= p * b /\ p * b \in Int /\ q * b \in Int
      BY ProductsGrow
    <2> QED
      BY <2>1
  <1>3. p = q
    BY <1>1, <1>2
  <1> QED
    BY <1>3

LEMMA Division ==
    ASSUME NEW a \in Int, NEW b \in Nat \ {0}
    PROVE  /\ a \div b \in Int /\ a % b \in 0..b - 1
           /\ a = (a \div b) * b + (a % b)
  OBVIOUS

LEMMA DivisionIs ==
    ASSUME NEW a \in Int, NEW b \in Nat \ {0}, NEW q \in Int, NEW r \in 0..b - 1,
           a = q * b + r
    PROVE  a \div b = q /\ a % b = r
  <1>1. /\ a \div b \in Int /\ a % b \in 0..b - 1
        /\ (a \div b) * b + (a % b) = q * b + r
    BY Division
  <1> QED
    BY <1>1, OneQuotient

(* A sum with a common factor.                                             *)
LEMMA ProductsAdd ==
    ASSUME NEW a \in Int, NEW b \in Int, NEW c \in Int
    PROVE  /\ (a + b) * c = a * c + b * c /\ (a - b) * c = a * c - b * c
           /\ a * c \in Int /\ b * c \in Int
  OBVIOUS

LEMMA ProductsAssociate ==
    ASSUME NEW a \in Int, NEW b \in Int, NEW c \in Int
    PROVE  /\ (2 * a) * b = 2 * (a * b) /\ a * (2 * b) = 2 * (a * b)
           /\ a * b \in Int /\ a * b = b * a
  OBVIOUS

LEMMA Halves ==
    ASSUME NEW n \in Int
    PROVE  \E h \in Int : n = 2 * h \/ n = 2 * h + 1
  <1>1. n \div 2 \in Int /\ n % 2 \in 0..1 /\ n = (n \div 2) * 2 + (n % 2)
    BY Division
  <1>2. n = 2 * (n \div 2) \/ n = 2 * (n \div 2) + 1
    BY <1>1
  <1> QED
    BY <1>1, <1>2

-----------------------------------------------------------------------------
(* Powers of two, as the numbers without an odd divisor.                   *)

IsPower(n) ==
    /\ n \in Nat \ {0}
    /\ \A x, q \in Nat : n = (2 * x + 1) * q => x = 0

LEMMA InitialSize ==
    ASSUME HashParameters
    PROVE  IsPower(HASH_INIT_SIZE)
  <1> DEFINE n == HASH_INIT_SIZE
  <1>1. n \in Nat \ {0}
    BY DEF HashParameters
  <1>2. ASSUME NEW x \in Nat, NEW q \in Nat, n = (2 * x + 1) * q PROVE x = 0
    <2> DEFINE d == 2 * x + 1
    <2>1. d \in Nat \ {0} /\ d \in Int
      OBVIOUS
    <2>2. n = q * d + 0 /\ 0 \in 0..d - 1
      <3>1. d * q = q * d /\ q * d \in Int
        BY <2>1, ProductsAssociate
      <3> QED
        BY <1>2, <2>1, <3>1
    <2>3. n % d = 0
      <3> HIDE DEF n, d
      <3> QED
        BY <1>1, <2>1, <2>2, DivisionIs
    <2>4. d % 2 = 1
      <3>1. d = x * 2 + 1 /\ 1 \in 0..2 - 1
        OBVIOUS
      <3> HIDE DEF d
      <3> QED
        BY <2>1, <3>1, DivisionIs
    <2>5. d <= n
      <3>1. 0 < q
        <4>1. q = 0 => q * d = 0
          BY <2>1
        <4> QED
          BY <1>1, <2>2, <4>1
      <3>2. 0 * d + d <= q * d
        <4> HIDE DEF d
        <4> QED
          BY <2>1, <3>1, ProductsGrow
      <3> QED
        BY <2>1, <2>2, <3>2
    <2>6. d \in 1..n
      BY <1>1, <2>1, <2>5
    <2>7. d = 1
      BY <2>3, <2>4, <2>6 DEF HashParameters
    <2> QED
      BY <2>7
  <1> QED
    BY <1>1, <1>2 DEF IsPower

LEMMA DoubledSize ==
    ASSUME NEW n, IsPower(n)
    PROVE  IsPower(2 * n)
  <1>1. n \in Nat \ {0} /\ 2 * n \in Nat \ {0}
    BY DEF IsPower
  <1>2. ASSUME NEW x \in Nat, NEW q \in Nat, 2 * n = (2 * x + 1) * q PROVE x = 0
    <2> DEFINE r == n - x * q
    <2>1. (2 * x + 1) * q = 2 * (x * q) + q /\ x * q \in Int
      <3>1. (2 * x + 1) * q = (2 * x) * q + 1 * q
        BY ProductsAdd
      <3> QED
        BY <3>1, ProductsAssociate
    <2>2. r \in Int /\ q = 2 * r
      BY <1>1, <1>2, <2>1
    <2>3. r \in Nat
      <3> HIDE DEF r
      <3> QED
        BY <2>2
    <2>4. n = (2 * x + 1) * r
      <3> HIDE DEF r
      <3>1. (2 * x + 1) * (2 * r) = 2 * ((2 * x + 1) * r) /\ (2 * x + 1) * r \in Int
        BY <2>2, ProductsAssociate
      <3> QED
        BY <1>1, <1>2, <2>2, <3>1
    <2> QED
      BY <2>3, <2>4 DEF IsPower
  <1> QED
    BY <1>1, <1>2 DEF IsPower

LEMMA HalvedSize ==
    ASSUME NEW n, IsPower(n), n # 1
    PROVE  \E h \in Nat : n = 2 * h /\ h < n /\ IsPower(h)
  <1>1. n \in Nat \ {0} /\ n \in Int
    BY DEF IsPower
  <1>2. PICK h \in Int : n = 2 * h \/ n = 2 * h + 1
    BY <1>1, Halves
  <1>3. n # 2 * h + 1
    <2> SUFFICES ASSUME n = 2 * h + 1 PROVE FALSE
      OBVIOUS
    <2>1. h \in Nat /\ h # 0 /\ n = (2 * h + 1) * 1
      BY <1>1, <1>2
    <2> QED
      BY <2>1 DEF IsPower
  <1>4. n = 2 * h /\ h \in Nat \ {0} /\ h < n
    BY <1>1, <1>2, <1>3
  <1>5. ASSUME NEW x \in Nat, NEW q \in Nat, h = (2 * x + 1) * q PROVE x = 0
    <2>1. n = (2 * x + 1) * (2 * q)
      <3>1. (2 * x + 1) * (2 * q) = 2 * ((2 * x + 1) * q)
        BY ProductsAssociate
      <3> QED
        BY <1>4, <1>5, <3>1
    <2> QED
      BY <2>1 DEF IsPower
  <1> QED
    BY <1>4, <1>5 DEF IsPower

(* An odd factor does not help a multiple of a power of two.               *)
LEMMA OddFactor ==
    ASSUME NEW n, IsPower(n), NEW m \in Int, NEW x \in Int, NEW c \in Int,
           m * (2 * x + 1) = c * n
    PROVE  \E e \in Int : m = e * n
  <1> DEFINE Right(k) == \A a, b, d \in Int :
                 a * (2 * b + 1) = d * k => \E e \in Int : a = e * k
             Wrong == {k \in Nat : IsPower(k) /\ ~Right(k)}
  <1>1. SUFFICES ASSUME Wrong # {} PROVE FALSE
    <2>1. n \in Nat
      BY DEF IsPower
    <2>2. Right(n)
      BY <1>1, <2>1
    <2>3. \A b, d \in Int : m * (2 * b + 1) = d * n => \E e \in Int : m = e * n
      BY <2>2
    <2>4. \A d \in Int : m * (2 * x + 1) = d * n => \E e \in Int : m = e * n
      BY <2>3
    <2>5. m * (2 * x + 1) = c * n => \E e \in Int : m = e * n
      BY <2>4
    <2> QED
      BY <2>5
  <1>2. PICK k \in Wrong : \A j \in Wrong : k <= j
    <2>1. Wrong \subseteq Nat
      OBVIOUS
    <2> HIDE DEF Wrong
    <2> QED
      BY <1>1, <2>1, LeastOf
  <1>3. k \in Nat /\ IsPower(k) /\ ~Right(k)
    BY <1>2
  <1>4. k # 1
    <2>1. \A a \in Int : a = a * 1
      OBVIOUS
    <2> QED
      BY <1>3, <2>1
  <1>5. PICK h \in Nat : k = 2 * h /\ h < k /\ IsPower(h)
    BY <1>3, <1>4, HalvedSize
  <1>6. Right(h)
    <2>1. h \notin Wrong
      <3>1. ~(k <= h)
        BY <1>3, <1>5
      <3> HIDE DEF Wrong
      <3> QED
        BY <1>2, <3>1
    <2> QED
      BY <1>5, <2>1
  <1>7. ASSUME NEW a \in Int, NEW b \in Int, NEW d \in Int,
               a * (2 * b + 1) = d * k
        PROVE  \E e \in Int : a = e * k
    <2>1. a * (2 * b + 1) = 2 * (a * b) + a /\ a * b \in Int
      <3>1. (2 * b + 1) * a = (2 * b) * a + 1 * a
        BY ProductsAdd
      <3>2. (2 * b + 1) * a = a * (2 * b + 1) /\ (2 * b) * a = 2 * (b * a)
            /\ b * a = a * b /\ a * b \in Int
        BY ProductsAssociate
      <3> QED
        BY <3>1, <3>2
    <2>2. d * k = 2 * (d * h) /\ d * h \in Int
      BY <1>5, ProductsAssociate
    <2> DEFINE f == d * h - a * b
    <2>3. f \in Int /\ a = 2 * f
      BY <1>7, <2>1, <2>2
    <2> HIDE DEF f
    <2>4. f * (2 * b + 1) = d * h
      <3>1. (2 * f) * (2 * b + 1) = 2 * (f * (2 * b + 1)) /\ f * (2 * b + 1) \in Int
        BY <2>3, ProductsAssociate
      <3> QED
        BY <1>7, <2>2, <2>3, <3>1
    <2>5. PICK e \in Int : f = e * h
      BY <1>6, <2>3, <2>4
    <2>6. a = e * k
      <3>1. e * (2 * h) = 2 * (e * h)
        BY <1>5, ProductsAssociate
      <3> QED
        BY <1>5, <2>3, <2>5, <3>1
    <2> QED
      BY <2>6
  <1> QED
    BY <1>3, <1>7

-----------------------------------------------------------------------------
(* The slots that are tried.                                               *)

Hashes == [low : Nat, high : Nat]

LEMMA SlotsAre ==
    ASSUME NEW n \in Nat
    PROVE  /\ IsFiniteSet(Slots(n)) /\ Cardinality(Slots(n)) = n
           /\ \A i : i \in Slots(n) <=> i \in Nat /\ i < n
  BY FS_Interval DEF Slots

LEMMA StepIsOdd ==
    ASSUME NEW n \in Nat \ {0}, NEW h \in Hashes
    PROVE  \E x \in Int : hash_inc(h, n) = 2 * x + 1
  <1> DEFINE inc == h.high % n
  <1>1. inc \in 0..n - 1 /\ inc \in Int
    <2> DEFINE g == h.high
    <2>1. g \in Int
      BY DEF Hashes
    <2> HIDE DEF g
    <2>2. g % n \in 0..n - 1
      BY <2>1, Division
    <2> QED
      BY <2>2 DEF g
  <1> HIDE DEF inc
  <1>2. inc % 2 \in 0..1 /\ inc = (inc \div 2) * 2 + (inc % 2) /\ inc \div 2 \in Int
    BY <1>1, Division
  <1>3. hash_inc(h, n) = IF inc % 2 = 0 THEN inc + 1 ELSE inc
    BY DEF hash_inc, inc
  <1>4. hash_inc(h, n) = 2 * (inc \div 2) + 1
    BY <1>1, <1>2, <1>3
  <1> QED
    BY <1>2, <1>4

LEMMA TriedIsSlot ==
    ASSUME NEW n \in Nat \ {0}, NEW h \in Hashes, NEW i \in Int
    PROVE  Tried(h, n, i) \in Slots(n)
  <1>1. hash_inc(h, n) \in Int
    BY StepIsOdd
  <1> DEFINE s == h.low + i * hash_inc(h, n)
  <1>2. s \in Int
    BY <1>1 DEF Hashes
  <1> HIDE DEF s
  <1>3. s % n \in 0..n - 1
    BY <1>2, Division
  <1> QED
    BY <1>3 DEF Tried, s, Slots

LEMMA TriedOnce ==
    ASSUME NEW n, IsPower(n), NEW h \in Hashes, NEW i \in Slots(n),
           NEW j \in Slots(n), Tried(h, n, i) = Tried(h, n, j)
    PROVE  i = j
  <1> DEFINE inc == hash_inc(h, n)
             s == h.low + i * inc
             t == h.low + j * inc
             p == s \div n
             q == t \div n
             r == s % n
  <1>1. n \in Nat \ {0} /\ i \in 0..n - 1 /\ j \in 0..n - 1
    BY DEF IsPower, Slots
  <1>2. PICK x \in Int : inc = 2 * x + 1
    BY <1>1, StepIsOdd
  <1> HIDE DEF inc
  <1>3. /\ s \in Int /\ t \in Int /\ i * inc \in Int /\ j * inc \in Int /\ h.low \in Int
        /\ s = h.low + i * inc /\ t = h.low + j * inc
    BY <1>1, <1>2 DEF Hashes
  <1>4. r = t % n
    BY DEF Tried, inc
  <1>5. p \in Int /\ q \in Int /\ r \in 0..n - 1 /\ s = p * n + r /\ t = q * n + r
    <2>1. s \in Int /\ t \in Int
      BY <1>3
    <2> HIDE DEF s, t
    <2> QED
      BY <1>1, <1>4, <2>1, Division
  <1> HIDE DEF p, q, r, s, t
  <1>6. (i - j) * inc = (p - q) * n
    <2>1. (i - j) * inc = i * inc - j * inc
      BY <1>1, <1>2, ProductsAdd
    <2>2. (p - q) * n = p * n - q * n /\ p * n \in Int /\ q * n \in Int
      BY <1>1, <1>5, ProductsAdd
    <2>3. i * inc - j * inc = s - t
      BY <1>3
    <2>4. p * n - q * n = s - t
      BY <1>5, <2>2
    <2> QED
      BY <2>1, <2>2, <2>3, <2>4
  <1>7. PICK e \in Int : i - j = e * n
    <2>1. i - j \in Int /\ p - q \in Int
      BY <1>1, <1>5
    <2> QED
      BY <1>2, <1>6, <2>1, OddFactor
  <1>8. ~(e < 0)
    <2> SUFFICES ASSUME e < 0 PROVE FALSE
      OBVIOUS
    <2>1. e * n + n <= 0 * n /\ e * n \in Int
      BY <1>1, ProductsGrow
    <2> QED
      BY <1>1, <1>7, <2>1
  <1>9. ~(0 < e)
    <2> SUFFICES ASSUME 0 < e PROVE FALSE
      OBVIOUS
    <2>1. 0 * n + n <= e * n /\ e * n \in Int
      BY <1>1, ProductsGrow
    <2> QED
      BY <1>1, <1>7, <2>1
  <1>10. e = 0
    BY <1>8, <1>9
  <1> QED
    BY <1>1, <1>7, <1>10

(* A search that goes on tries every slot.                                 *)
LEMMA AllAreTried ==
    ASSUME NEW n, IsPower(n), NEW h \in Hashes, NEW s \in Slots(n)
    PROVE  \E i \in Slots(n) : Tried(h, n, i) = s
  <1> DEFINE f == [i \in Slots(n) |-> Tried(h, n, i)]
  <1>1. n \in Nat \ {0} /\ n \in Nat
    BY DEF IsPower
  <1>2. IsFiniteSet(Slots(n)) /\ \A i \in Slots(n) : i \in Int
    BY <1>1, SlotsAre
  <1>3. f \in [Slots(n) -> Slots(n)]
    BY <1>1, <1>2, TriedIsSlot
  <1>4. \A i, j \in Slots(n) : f[i] = f[j] => i = j
    BY TriedOnce
  <1> HIDE DEF f
  <1>5. f \in Injection(Slots(n), Slots(n))
    BY <1>3, <1>4, Fun_IsInj
  <1>6. f \in Surjection(Slots(n), Slots(n))
    BY <1>2, <1>5, FS_Injection
  <1>7. \E i \in Slots(n) : f[i] = s
    BY <1>6, Fun_SurjectionProperties
  <1> QED
    BY <1>7 DEF f

-----------------------------------------------------------------------------
(* Tables.                                                                 *)

Node == [key : Keys \cup {None}, data : Nat]

(* A search for the key comes to slot s, and to nothing that ends it       *)
(* before.                                                                 *)
Reached(hs, t, n, key, s) ==
    \E i \in Slots(n) :
        /\ Tried(hs[key], n, i) = s
        /\ \A j \in Slots(n) : j < i => t[Tried(hs[key], n, j)].key \notin {None, key}

Good(hs, t, n) ==
    /\ IsPower(n) /\ t \in [Slots(n) -> Node]
    /\ \A s \in Slots(n) : IF t[s].key = None THEN t[s] = Empty
                           ELSE Reached(hs, t, n, t[s].key, s)

(* The nodes of a table, and of the slots before i.                        *)
Nodes(t, S) == {t[s] : s \in S} \ {Empty}

(* There are not two nodes with one key.                                   *)
LEMMA OneSlot ==
    ASSUME NEW hs, NEW t, NEW n, Good(hs, t, n), NEW s \in Slots(n),
           NEW r \in Slots(n), t[s].key = t[r].key, t[s].key # None
    PROVE  s = r
  <1> DEFINE key == t[s].key
  <1>1. n \in Nat
    BY DEF Good, IsPower
  <1>2. PICK i \in Slots(n) :
            /\ Tried(hs[key], n, i) = s
            /\ \A j \in Slots(n) : j < i => t[Tried(hs[key], n, j)].key # key
    BY DEF Good, Reached
  <1>3. PICK k \in Slots(n) :
            /\ Tried(hs[key], n, k) = r
            /\ \A j \in Slots(n) : j < k => t[Tried(hs[key], n, j)].key # key
    BY DEF Good, Reached
  <1>4. ~(i < k) /\ ~(k < i)
    BY <1>2, <1>3
  <1>5. i = k
    BY <1>1, <1>4, SlotsAre
  <1> QED
    BY <1>2, <1>3, <1>5

LEMMA FirstIs ==
    ASSUME NEW n, IsPower(n), NEW t \in [Slots(n) -> Node], NEW key,
           hash[key] \in Hashes, NEW keys, \E s \in Slots(n) : t[s].key \in keys
    PROVE  LET first == FirstTried(t, key, keys)
           IN \E i \in Slots(n) :
                /\ first = Tried(hash[key], n, i) /\ first \in Slots(n)
                /\ t[first].key \in keys
                /\ \A j \in Slots(n) :
                      j < i => t[Tried(hash[key], n, j)].key \notin keys
  <1> DEFINE h == hash[key]
             stops == {i \in Slots(n) : t[Tried(h, n, i)].key \in keys}
  <1>1. n \in Nat \ {0} /\ n \in Nat
    BY DEF IsPower
  <1>2. Cardinality(DOMAIN t) = n
    BY <1>1, SlotsAre
  <1>3. stops # {}
    <2>1. PICK s \in Slots(n) : t[s].key \in keys
      OBVIOUS
    <2>2. PICK i \in Slots(n) : Tried(h, n, i) = s
      <3> HIDE DEF h
      <3>1. h \in Hashes
        BY DEF h
      <3> QED
        BY <3>1, AllAreTried
    <2> QED
      BY <2>1, <2>2
  <1>4. stops \subseteq Nat
    BY <1>1, SlotsAre
  <1>5. FirstTried(t, key, keys) = Tried(h, n, Min(stops))
    BY <1>2, <1>3 DEF FirstTried
  <1>6. Min(stops) \in stops /\ \A j \in stops : Min(stops) <= j
    <2> HIDE DEF stops
    <2>1. \E m \in stops : \A j \in stops : m <= j
      BY <1>3, <1>4, LeastOf
    <2> QED
      BY <2>1, Zenon DEF Min
  <1> DEFINE i == Min(stops)
  <1>7. i \in Slots(n) /\ t[Tried(h, n, i)].key \in keys /\ i \in Int
    BY <1>4, <1>6
  <1>8. Tried(h, n, i) \in Slots(n)
    <2> HIDE DEF i
    <2> QED
      BY <1>1, <1>7, TriedIsSlot
  <1>9. ASSUME NEW j \in Slots(n), j < i PROVE t[Tried(h, n, j)].key \notin keys
    <2>1. j \notin stops
      <3>1. ~(i <= j)
        <4>1. i \in Nat /\ j \in Nat
          BY <1>1, <1>4, <1>6, SlotsAre
        <4> HIDE DEF i
        <4> QED
          BY <1>9, <4>1
      <3> HIDE DEF stops
      <3> QED
        BY <1>6, <3>1
    <2> QED
      BY <2>1
  <1> HIDE DEF i, h
  <1>10. FirstTried(t, key, keys) = Tried(h, n, i)
    BY <1>5 DEF i
  <1> QED
    BY <1>7, <1>8, <1>9, <1>10 DEF h

(* A table in which two nodes are not counted as one has a free slot.      *)
LEMMA FreeSlot ==
    ASSUME NEW hs, NEW t, NEW n, Good(hs, t, n),
           NEW T, IsFiniteSet(T), Cardinality(T) < n,
           NEW f \in [Slots(n) -> T],
           \A s, r \in Slots(n) : f[s] = f[r] => t[s].key = t[r].key
    PROVE  \E s \in Slots(n) : t[s].key = None
  <1> SUFFICES ASSUME \A s \in Slots(n) : t[s].key # None PROVE FALSE
    OBVIOUS
  <1>1. n \in Nat
    BY DEF Good, IsPower
  <1>2. IsFiniteSet(Slots(n)) /\ Cardinality(Slots(n)) = n
    BY <1>1, SlotsAre
  <1>3. \E s, r \in Slots(n) : s # r /\ f[s] = f[r]
    BY <1>2, FS_PigeonHole
  <1> QED
    BY <1>3, OneSlot

(* A node put where the search for its key ended.                          *)
LEMMA PutIsGood ==
    ASSUME HashParameters, NEW hs \in [Keys -> Hashes], NEW t, NEW n, Good(hs, t, n),
           NEW node \in Node, node.key \in Keys, NEW p \in Slots(n),
           t[p].key = None, Reached(hs, t, n, node.key, p)
    PROVE  LET u == [t EXCEPT ![p] = node]
           IN Good(hs, u, n) /\ Nodes(u, Slots(n)) = Nodes(t, Slots(n)) \cup {node}
  <1> DEFINE u == [t EXCEPT ![p] = node]
  <1>1. n \in Nat \ {0} /\ n \in Nat /\ IsPower(n) /\ t \in [Slots(n) -> Node]
    BY DEF Good, IsPower
  <1>2. /\ u \in [Slots(n) -> Node]
        /\ \A s \in Slots(n) : u[s] = IF s = p THEN node ELSE t[s]
    BY <1>1
  <1> HIDE DEF u
  <1>3. node.key # None /\ node # Empty
    BY DEF HashParameters, Empty
  <1>4. ASSUME NEW key \in Keys, NEW s \in Slots(n), Reached(hs, t, n, key, s)
        PROVE  Reached(hs, u, n, key, s)
    <2>1. PICK i \in Slots(n) :
            /\ Tried(hs[key], n, i) = s
            /\ \A j \in Slots(n) : j < i => t[Tried(hs[key], n, j)].key \notin {None, key}
      BY <1>4 DEF Reached
    <2>2. ASSUME NEW j \in Slots(n), j < i
          PROVE  u[Tried(hs[key], n, j)].key \notin {None, key}
      <3>1. hs[key] \in Hashes /\ j \in Int
        BY <1>1, SlotsAre
      <3>2. Tried(hs[key], n, j) \in Slots(n)
        BY <1>1, <3>1, TriedIsSlot
      <3>3. t[Tried(hs[key], n, j)].key \notin {None, key}
        BY <2>1, <2>2
      <3>4. Tried(hs[key], n, j) # p
        BY <3>3
      <3> QED
        BY <1>2, <3>2, <3>3, <3>4
    <2> QED
      BY <2>1, <2>2 DEF Reached
  <1>5. ASSUME NEW s \in Slots(n)
        PROVE  IF u[s].key = None THEN u[s] = Empty
               ELSE Reached(hs, u, n, u[s].key, s)
    <2>1. CASE s = p
      <3>1. u[s] = node
        BY <1>2, <2>1
      <3>2. Reached(hs, u, n, node.key, s)
        BY <1>4, <2>1
      <3> QED
        BY <1>3, <3>1, <3>2
    <2>2. CASE s # p
      <3>1. u[s] = t[s]
        BY <1>2, <2>2
      <3>2. IF t[s].key = None THEN t[s] = Empty ELSE Reached(hs, t, n, t[s].key, s)
        BY DEF Good
      <3>3. t[s].key # None => t[s].key \in Keys
        BY <1>1 DEF Node
      <3>4. t[s].key # None => Reached(hs, u, n, t[s].key, s)
        BY <1>4, <2>2, <3>2, <3>3
      <3> QED
        BY <3>1, <3>2, <3>4
    <2> QED
      BY <2>1, <2>2
  <1>6. t[p] = Empty
    BY DEF Good
  <1>7. Nodes(u, Slots(n)) = Nodes(t, Slots(n)) \cup {node}
    BY <1>2, <1>3, <1>6 DEF Nodes
  <1>8. Good(hs, u, n)
    BY <1>1, <1>2, <1>5 DEF Good
  <1> QED
    BY <1>7, <1>8 DEF u

(* A search for a key that is not there ends at a free slot.               *)
LEMMA SearchEnds ==
    ASSUME NEW hs, NEW t, NEW n, Good(hs, t, n), NEW key, NEW p,
           Reached(hs, t, n, key, p), t[p].key = None, key # None
    PROVE  \A s \in Slots(n) : t[s].key # key
  <1> SUFFICES ASSUME NEW s \in Slots(n), t[s].key = key PROVE FALSE
    OBVIOUS
  <1>1. n \in Nat
    BY DEF Good, IsPower
  <1>2. PICK i \in Slots(n) :
            /\ Tried(hs[key], n, i) = s
            /\ \A j \in Slots(n) : j < i => t[Tried(hs[key], n, j)].key \notin {None, key}
    BY DEF Good, Reached
  <1>3. PICK k \in Slots(n) :
            /\ Tried(hs[key], n, k) = p
            /\ \A j \in Slots(n) : j < k => t[Tried(hs[key], n, j)].key \notin {None, key}
    BY DEF Reached
  <1>4. ~(i < k) /\ ~(k < i)
    BY <1>2, <1>3
  <1>5. i = k
    BY <1>1, <1>4, SlotsAre
  <1> QED
    BY <1>2, <1>3, <1>5

-----------------------------------------------------------------------------
(* A table that grows.                                                     *)

MovedAt(t, n, f, i) ==
    IF i = 0 THEN [s \in Slots(n) |-> Empty]
    ELSE IF t[i - 1].key = None THEN f[i - 1]
    ELSE [f[i - 1] EXCEPT ![FirstTried(f[i - 1], t[i - 1].key, {None})] = t[i - 1]]

LEMMA MovedExists ==
    ASSUME NEW t, NEW z, NEW n \in Nat
    PROVE  \E f : f = [i \in 0..n |-> MovedAt(t, z, f, i)]
  <1> DEFINE Without == {m \in 0..n : ~\E f : f = [i \in 0..m |-> MovedAt(t, z, f, i)]}
  <1>1. SUFFICES ASSUME Without # {} PROVE FALSE
    BY <1>1
  <1>2. PICK m \in Without : \A k \in Without : m <= k
    <2>1. Without \subseteq Nat
      OBVIOUS
    <2> HIDE DEF Without
    <2> QED
      BY <1>1, <2>1, LeastOf
  <1>3. m \in 0..n /\ m # 0
    <2> DEFINE g == [i \in 0..0 |-> [s \in Slots(z) |-> Empty]]
    <2>1. g = [i \in 0..0 |-> MovedAt(t, z, g, i)]
      BY DEF MovedAt
    <2> QED
      BY <2>1
  <1>4. PICK f : f = [i \in 0..m - 1 |-> MovedAt(t, z, f, i)]
    <2>1. m - 1 \in 0..n /\ m - 1 \notin Without
      BY <1>2, <1>3
    <2> QED
      BY <2>1
  <1> DEFINE g == [i \in 0..m |-> IF i = m THEN MovedAt(t, z, f, m) ELSE f[i]]
  <1>5. ASSUME NEW i \in 0..m PROVE g[i] = MovedAt(t, z, g, i)
    <2>1. i > 0 => i - 1 \in 0..m - 1 /\ g[i - 1] = f[i - 1]
      BY <1>3
    <2>2. g[i] = MovedAt(t, z, f, i)
      <3>1. CASE i = m
        BY <3>1
      <3>2. CASE i # m
        <4>1. i \in 0..m - 1 /\ g[i] = f[i]
          BY <3>2, <1>3
        <4> HIDE DEF g
        <4> QED
          BY <4>1, <1>4
      <3> QED
        BY <3>1, <3>2
    <2> HIDE DEF g
    <2>3. MovedAt(t, z, f, i) = MovedAt(t, z, g, i)
      <3>1. i = 0 \/ i > 0
        OBVIOUS
      <3>2. CASE i = 0
        BY <3>2 DEF MovedAt
      <3>3. CASE i > 0
        <4>1. g[i - 1] = f[i - 1] /\ i # 0
          BY <2>1, <3>3
        <4> QED
          BY <4>1, Zenon DEF MovedAt
      <3> QED
        BY <3>1, <3>2, <3>3
    <2> QED
      BY <2>2, <2>3
  <1>6. g = [i \in 0..m |-> MovedAt(t, z, g, i)]
    <2>1. g = [i \in 0..m |-> g[i]]
      OBVIOUS
    <2> HIDE DEF g
    <2> QED
      BY <1>5, <2>1
  <1> QED
    BY <1>2, <1>6

LEMMA MovedIsFunction ==
    ASSUME NEW t, NEW z, NEW n \in Nat, Cardinality(DOMAIN t) = n
    PROVE  \E f : f = [i \in 0..n |-> MovedAt(t, z, f, i)] /\ Moved(t, z) = f[n]
  <1> DEFINE moved == CHOOSE f : f = [i \in 0..n |->
                IF i = 0 THEN [s \in Slots(z) |-> Empty]
                ELSE IF t[i - 1].key = None THEN f[i - 1]
                ELSE [f[i - 1] EXCEPT
                        ![FirstTried(f[i - 1], t[i - 1].key, {None})] = t[i - 1]]]
  <1>1. Moved(t, z) = moved[n]
    BY DEF Moved
  <1>2. \E f : f = [i \in 0..n |->
                IF i = 0 THEN [s \in Slots(z) |-> Empty]
                ELSE IF t[i - 1].key = None THEN f[i - 1]
                ELSE [f[i - 1] EXCEPT
                        ![FirstTried(f[i - 1], t[i - 1].key, {None})] = t[i - 1]]]
    <2>1. \E f : f = [i \in 0..n |-> MovedAt(t, z, f, i)]
      BY MovedExists
    <2> QED
      BY <2>1, Zenon DEF MovedAt
  <1>3. moved = [i \in 0..n |->
                IF i = 0 THEN [s \in Slots(z) |-> Empty]
                ELSE IF t[i - 1].key = None THEN moved[i - 1]
                ELSE [moved[i - 1] EXCEPT
                        ![FirstTried(moved[i - 1], t[i - 1].key, {None})] = t[i - 1]]]
    BY <1>2, Zenon
  <1> HIDE DEF moved
  <1>4. moved = [i \in 0..n |-> MovedAt(t, z, moved, i)]
    BY <1>3, Zenon DEF MovedAt
  <1> QED
    BY <1>1, <1>4

(* The first i slots of t were moved to u.                                 *)
HasMoved(t, u, z, i) ==
    Good(hash, u, z) /\ Nodes(u, Slots(z)) = Nodes(t, Slots(i))

LEMMA MovedNext ==
    ASSUME HashParameters, hash \in [Keys -> Hashes], NEW t, NEW n,
           Good(hash, t, n), NEW z, n < z, NEW i \in Slots(n), NEW u,
           HasMoved(t, u, z, i), t[i].key # None
    PROVE  HasMoved(t, [u EXCEPT ![FirstTried(u, t[i].key, {None})] = t[i]], z, i + 1)
  <1> DEFINE e == t[i]
             key == e.key
             p == FirstTried(u, key, {None})
  <1>1. n \in Nat /\ t \in [Slots(n) -> Node]
    BY DEF Good, IsPower
  <1>2. z \in Nat /\ z \in Nat \ {0} /\ IsPower(z) /\ u \in [Slots(z) -> Node] /\ Good(hash, u, z)
    BY DEF HasMoved, Good, IsPower
  <1>3. e \in Node /\ key \in Keys /\ key # None /\ hash[key] \in Hashes
    BY <1>1 DEF Node
  <1>4. i \in Nat /\ i < n /\ \A s : s \in Slots(i) <=> s \in Nat /\ s < i
    BY <1>1, SlotsAre
  <1>5. ASSUME NEW x \in Slots(z), u[x].key # None
        PROVE  \E s \in Slots(i) : s \in Slots(n) /\ t[s] = u[x]
    <2>1. u[x] # Empty
      BY <1>5 DEF Empty
    <2>2. u[x] \in Nodes(t, Slots(i))
      BY <2>1 DEF HasMoved, Nodes
    <2>3. PICK s \in Slots(i) : t[s] = u[x]
      BY <2>2 DEF Nodes
    <2>4. s \in Nat /\ s < n
      BY <1>1, <1>4
    <2>5. s \in Slots(n)
      BY <1>1, <2>4, SlotsAre
    <2> QED
      BY <2>3, <2>5
  <1>6. ASSUME NEW x \in Slots(z) PROVE u[x].key # key
    <2> SUFFICES ASSUME u[x].key = key PROVE FALSE
      OBVIOUS
    <2>1. PICK s \in Slots(i) : s \in Slots(n) /\ t[s] = u[x]
      BY <1>3, <1>5
    <2>2. s = i
      BY <1>3, <2>1, OneSlot
    <2> QED
      BY <1>4, <2>1, <2>2
  <1>7. \E x \in Slots(z) : u[x].key = None
    <2> SUFFICES ASSUME \A x \in Slots(z) : u[x].key # None PROVE FALSE
      OBVIOUS
    <2> DEFINE f == [x \in Slots(z) |-> CHOOSE s \in Slots(n) : t[s] = u[x]]
    <2>1. ASSUME NEW x \in Slots(z) PROVE f[x] \in Slots(n) /\ t[f[x]] = u[x]
      <3>1. \E s \in Slots(n) : t[s] = u[x]
        BY <1>5
      <3> QED
        BY <3>1
    <2>2. f \in [Slots(z) -> Slots(n)]
      BY <2>1
    <2> HIDE DEF f
    <2>3. \A x, y \in Slots(z) : f[x] = f[y] => u[x].key = u[y].key
      BY <2>1
    <2>4. IsFiniteSet(Slots(n)) /\ Cardinality(Slots(n)) < z
      BY <1>1, SlotsAre
    <2> QED
      BY <1>2, <2>2, <2>3, <2>4, FreeSlot
  <1>8. \E x \in Slots(z) : u[x].key \in {None}
    BY <1>7
  <1> HIDE DEF e, key
  <1>9. PICK k \in Slots(z) :
            /\ p = Tried(hash[key], z, k) /\ p \in Slots(z) /\ u[p].key \in {None}
            /\ \A j \in Slots(z) : j < k => u[Tried(hash[key], z, j)].key \notin {None}
    BY <1>2, <1>3, <1>8, FirstIs
  <1> HIDE DEF p
  <1>10. Reached(hash, u, z, key, p)
    <2>1. ASSUME NEW j \in Slots(z), j < k
          PROVE  u[Tried(hash[key], z, j)].key \notin {None, key}
      <3>1. j \in Int
        BY <1>2, SlotsAre
      <3>2. Tried(hash[key], z, j) \in Slots(z)
        BY <1>2, <1>3, <3>1, TriedIsSlot
      <3> QED
        BY <1>6, <1>9, <2>1, <3>2
    <2> QED
      BY <1>9, <2>1 DEF Reached
  <1>11. /\ Good(hash, [u EXCEPT ![p] = e], z)
         /\ Nodes([u EXCEPT ![p] = e], Slots(z)) = Nodes(u, Slots(z)) \cup {e}
    <2>1. e.key = key /\ u[p].key = None /\ p \in Slots(z)
      BY <1>9 DEF key
    <2>2. /\ HashParameters /\ hash \in [Keys -> Hashes] /\ Good(hash, u, z)
          /\ e \in Node /\ e.key \in Keys /\ Reached(hash, u, z, e.key, p)
      BY <1>2, <1>3, <1>10, <2>1
    <2>3. u[p].key = None /\ p \in Slots(z)
      BY <2>1
    <2>4. Good(hash, [u EXCEPT ![p] = e], z)
      BY ONLY <2>2, <2>3, PutIsGood
    <2>5. Nodes([u EXCEPT ![p] = e], Slots(z)) = Nodes(u, Slots(z)) \cup {e}
      BY ONLY <2>2, <2>3, PutIsGood
    <2> QED
      BY <2>4, <2>5
  <1>12. Nodes(t, Slots(i + 1)) = Nodes(t, Slots(i)) \cup {e}
    <2>1. Slots(i + 1) = Slots(i) \cup {i}
      BY <1>4 DEF Slots
    <2>2. e # Empty
      BY <1>3 DEF key, Empty
    <2> QED
      BY <2>1, <2>2 DEF Nodes, e
  <1>13. HasMoved(t, [u EXCEPT ![p] = e], z, i + 1)
    BY <1>11, <1>12 DEF HasMoved
  <1> QED
    BY <1>13 DEF p, key, e

LEMMA EmptyIsGood ==
    ASSUME NEW hs, NEW n, IsPower(n)
    PROVE  LET t == [s \in Slots(n) |-> Empty]
           IN Good(hs, t, n) /\ Nodes(t, Slots(n)) = {}
  <1> DEFINE t == [s \in Slots(n) |-> Empty]
  <1>1. Empty \in Node /\ Empty.key = None
    BY DEF Empty, Node
  <1>2. t \in [Slots(n) -> Node] /\ \A s \in Slots(n) : t[s] = Empty
    BY <1>1
  <1> HIDE DEF t
  <1>3. Good(hs, t, n)
    BY <1>1, <1>2 DEF Good
  <1>4. Nodes(t, Slots(n)) = {}
    BY <1>2 DEF Nodes
  <1> QED
    BY <1>3, <1>4 DEF t

LEMMA AllAreMoved ==
    ASSUME HashParameters, hash \in [Keys -> Hashes], NEW t, NEW n, Good(hash, t, n)
    PROVE  HasMoved(t, Moved(t, 2 * n), 2 * n, n)
  <1> DEFINE z == 2 * n
  <1>1. n \in Nat \ {0} /\ n \in Nat /\ IsPower(n) /\ t \in [Slots(n) -> Node]
    BY DEF Good, IsPower
  <1>2. IsPower(z) /\ n < z
    BY <1>1, DoubledSize
  <1>3. DOMAIN t = Slots(n) /\ Cardinality(DOMAIN t) = n
    BY <1>1, SlotsAre
  <1> HIDE DEF z
  <1>4. PICK f : f = [i \in 0..n |-> MovedAt(t, z, f, i)] /\ Moved(t, z) = f[n]
    BY <1>1, <1>3, MovedIsFunction
  <1>5. \A i \in 0..n : f[i] = MovedAt(t, z, f, i)
    BY <1>4
  <1> DEFINE Right(i) == HasMoved(t, f[i], z, i)
             Wrong == {i \in 0..n : ~Right(i)}
  <1>6. SUFFICES ASSUME Wrong # {} PROVE FALSE
    <2>1. n \in 0..n
      BY <1>1
    <2>2. Right(n)
      BY <1>6, <2>1
    <2> QED
      BY <1>4, <2>2 DEF z
  <1>7. PICK m \in Wrong : \A k \in Wrong : m <= k
    <2>1. Wrong \subseteq Nat
      OBVIOUS
    <2> HIDE DEF Wrong
    <2> QED
      BY <1>6, <2>1, LeastOf
  <1>8. m \in 0..n /\ ~Right(m)
    BY <1>7
  <1>9. Right(0)
    <2>1. f[0] = [s \in Slots(z) |-> Empty]
      <3>1. 0 \in 0..n
        BY <1>1
      <3> QED
        BY <1>5, <3>1 DEF MovedAt
    <2>2. Good(hash, f[0], z) /\ Nodes(f[0], Slots(z)) = {}
      BY <1>2, <2>1, EmptyIsGood
    <2>3. Nodes(t, Slots(0)) = {}
      BY DEF Nodes, Slots
    <2> QED
      BY <2>2, <2>3 DEF HasMoved
  <1>10. m # 0
    BY <1>8, <1>9
  <1> DEFINE i == m - 1
             u == f[i]
  <1>11. /\ i \in Nat /\ i < n /\ i + 1 = m /\ i \in 0..n /\ ~(m <= i)
         /\ m - 1 = i
    BY <1>1, <1>8, <1>10
  <1>12. i \in Slots(n)
    BY <1>1, <1>11, SlotsAre
  <1>13. Right(i)
    <2>1. i \notin Wrong
      <3> HIDE DEF Wrong, i
      <3> QED
        BY <1>7, <1>11
    <2> QED
      BY <1>11, <2>1
  <1>14. f[m] = IF t[i].key = None THEN u
                ELSE [u EXCEPT ![FirstTried(u, t[i].key, {None})] = t[i]]
    <2>1. f[m] = MovedAt(t, z, f, m)
      BY <1>5, <1>8
    <2> QED
      BY <1>10, <2>1 DEF MovedAt
  <1> HIDE DEF i
  <1>15. CASE t[i].key = None
    <2>1. t[i] = Empty
      BY <1>12, <1>15 DEF Good
    <2>2. Slots(m) = Slots(i) \cup {i}
      BY <1>11 DEF Slots
    <2>3. Nodes(t, Slots(m)) = Nodes(t, Slots(i))
      BY <2>1, <2>2 DEF Nodes
    <2>4. Right(m)
      BY <1>13, <1>14, <1>15, <2>3 DEF HasMoved
    <2> QED
      BY <1>8, <2>4
  <1>16. CASE t[i].key # None
    <2> HIDE DEF u
    <2>1. HasMoved(t, u, z, i)
      BY <1>13 DEF u
    <2>2. HasMoved(t, [u EXCEPT ![FirstTried(u, t[i].key, {None})] = t[i]], z, i + 1)
      BY <1>2, <1>12, <1>16, <2>1, MovedNext
    <2>3. Right(m)
      BY <1>11, <1>14, <1>16, <2>2
    <2> QED
      BY <1>8, <2>3
  <1> QED
    BY <1>15, <1>16

-----------------------------------------------------------------------------
(* A table with the data added.                                            *)

KeysOf(a) == {k \in Keys : a[k] # 0}
NodeOf(a, k) == [key |-> k, data |-> a[k]]

Holds(hs, t, n, a, l) ==
    /\ Good(hs, t, n) /\ n >= 4 /\ 2 * l <= n
    /\ Nodes(t, Slots(n)) = {NodeOf(a, k) : k \in KeysOf(a)}

LEMMA NodesAre ==
    ASSUME HashParameters, NEW hs, NEW t, NEW n, NEW a, NEW l, Holds(hs, t, n, a, l)
    PROVE  /\ \A s \in Slots(n) : t[s].key # None =>
                 t[s].key \in KeysOf(a) /\ t[s].data = a[t[s].key]
           /\ \A k \in KeysOf(a) : \E s \in Slots(n) : t[s].key = k
  <1>1. ASSUME NEW s \in Slots(n), t[s].key # None
        PROVE  t[s].key \in KeysOf(a) /\ t[s].data = a[t[s].key]
    <2>1. t[s] # Empty
      BY <1>1 DEF Empty
    <2>2. t[s] \in Nodes(t, Slots(n))
      BY <2>1 DEF Nodes
    <2>3. PICK k \in KeysOf(a) : t[s] = NodeOf(a, k)
      BY <2>2 DEF Holds
    <2> QED
      BY <2>3 DEF NodeOf
  <1>2. ASSUME NEW k \in KeysOf(a)
        PROVE  \E s \in Slots(n) : t[s].key = k
    <2>1. NodeOf(a, k) \in Nodes(t, Slots(n))
      BY DEF Holds
    <2>2. PICK s \in Slots(n) : t[s] = NodeOf(a, k)
      BY <2>1 DEF Nodes
    <2> QED
      BY <2>2 DEF NodeOf
  <1> QED
    BY <1>1, <1>2

LEMMA AddHolds ==
    ASSUME HashParameters, hash \in [Keys -> Hashes], NEW a \in [Keys -> Nat],
           NEW l \in Nat, NEW t, NEW n, Holds(hash, t, n, a, l),
           NEW key \in Keys, a[key] = 0, NEW p \in Slots(n), t[p].key = None,
           Reached(hash, t, n, key, p)
    PROVE  LET put == [t EXCEPT ![p] = [key |-> key, data |-> l + 1]]
               b == [a EXCEPT ![key] = l + 1]
           IN /\ DOMAIN put = Slots(n)
              /\ l + 1 > hash_max_load(n) =>
                    Holds(hash, Moved(put, 2 * n), 2 * n, b, l + 1)
              /\ ~(l + 1 > hash_max_load(n)) => Holds(hash, put, n, b, l + 1)
  <1> DEFINE node == [key |-> key, data |-> l + 1]
             put == [t EXCEPT ![p] = node]
             b == [a EXCEPT ![key] = l + 1]
  <1>1. /\ Good(hash, t, n) /\ n >= 4 /\ 2 * l <= n /\ n \in Nat
        /\ t \in [Slots(n) -> Node]
        /\ Nodes(t, Slots(n)) = {NodeOf(a, k) : k \in KeysOf(a)}
    BY DEF Holds, Good, IsPower
  <1>2. node \in Node /\ node.key = key
    BY DEF Node
  <1>3. Good(hash, put, n) /\ Nodes(put, Slots(n)) = Nodes(t, Slots(n)) \cup {node}
    <2> HIDE DEF node
    <2>1. /\ HashParameters /\ hash \in [Keys -> Hashes] /\ Good(hash, t, n)
          /\ node \in Node /\ node.key \in Keys /\ p \in Slots(n) /\ t[p].key = None
          /\ Reached(hash, t, n, node.key, p)
      BY <1>1, <1>2
    <2>2. Good(hash, [t EXCEPT ![p] = node], n)
      BY ONLY <2>1, PutIsGood
    <2>3. Nodes([t EXCEPT ![p] = node], Slots(n)) = Nodes(t, Slots(n)) \cup {node}
      BY ONLY <2>1, PutIsGood
    <2> QED
      BY <2>2, <2>3
  <1>4. DOMAIN put = Slots(n)
    BY <1>1
  <1>5. {NodeOf(b, k) : k \in KeysOf(b)} = {NodeOf(a, k) : k \in KeysOf(a)} \cup {node}
    <2>1. /\ b \in [Keys -> Nat] /\ b[key] = l + 1 /\ l + 1 # 0
          /\ \A k \in Keys : k # key => b[k] = a[k]
      OBVIOUS
    <2> HIDE DEF b
    <2>2. KeysOf(b) = KeysOf(a) \cup {key} /\ key \notin KeysOf(a)
      BY <2>1 DEF KeysOf
    <2>3. \A k \in KeysOf(a) : NodeOf(b, k) = NodeOf(a, k)
      BY <2>1, <2>2 DEF NodeOf, KeysOf
    <2>4. NodeOf(b, key) = node
      BY <2>1 DEF NodeOf
    <2> HIDE DEF node
    <2> QED
      BY <2>2, <2>3, <2>4
  <1> HIDE DEF put, b, node
  <1>6. hash_max_load(n) \in Int /\ (l + 1 <= hash_max_load(n) => 2 * (l + 1) <= n)
    <2>1. n \div 2 \in Int /\ n % 2 \in 0..1 /\ n = (n \div 2) * 2 + (n % 2)
      BY <1>1, Division
    <2> QED
      BY <1>1, <2>1 DEF hash_max_load
  <1>7. ASSUME ~(l + 1 > hash_max_load(n)) PROVE Holds(hash, put, n, b, l + 1)
    <2>1. 2 * (l + 1) <= n
      BY <1>6, <1>7
    <2> QED
      BY <1>1, <1>3, <1>5, <2>1 DEF Holds
  <1>8. Holds(hash, Moved(put, 2 * n), 2 * n, b, l + 1)
    <2>1. HasMoved(put, Moved(put, 2 * n), 2 * n, n)
      BY <1>3, AllAreMoved
    <2>2. 2 * n >= 4 /\ 2 * (l + 1) <= 2 * n
      BY <1>1
    <2> QED
      BY <1>1, <1>3, <1>5, <2>1, <2>2 DEF Holds, HasMoved
  <1> QED
    BY <1>4, <1>7, <1>8 DEF put, b, node

-----------------------------------------------------------------------------
(* The behaviours.                                                         *)

(* A table without slots holds nothing; any other has a node for each key  *)
(* that was added, where its search comes.  An insertion object that is    *)
(* valid is what a search for its key gives now.                           *)
HashInv ==
    /\ hash \in [Keys -> Hashes] /\ added \in [Keys -> Nat] /\ load \in Nat
    /\ IsFiniteSet(KeysOf(added)) /\ Cardinality(KeysOf(added)) = load
    /\ IF size = 0 THEN DOMAIN table = {} /\ KeysOf(added) = {}
       ELSE Holds(hash, table, size, added, load)
    /\ \A ins \in inserts :
          /\ ins.key \in Keys /\ NotFound(ins.key)
          /\ ins.where = IF size = 0 THEN NULL ELSE Lookup(ins.key)

LEMMA LookupIs ==
    ASSUME HashParameters, HashInv, size # 0, NEW key \in Keys
    PROVE  /\ Lookup(key) \in Slots(size) /\ table[Lookup(key)].key \in {None, key}
           /\ Reached(hash, table, size, key, Lookup(key))
  <1> DEFINE n == size
  <1>1. Holds(hash, table, n, added, load)
    BY DEF HashInv
  <1>2. /\ IsPower(n) /\ table \in [Slots(n) -> Node] /\ Good(hash, table, n)
        /\ n \in Nat /\ n >= 4 /\ 2 * load <= n
    BY <1>1 DEF Holds, Good, IsPower
  <1> HIDE DEF n
  <1>3. \E s \in Slots(n) : table[s].key = None
    <2> SUFFICES ASSUME \A s \in Slots(n) : table[s].key # None PROVE FALSE
      OBVIOUS
    <2> DEFINE T == KeysOf(added)
               f == [s \in Slots(n) |-> table[s].key]
    <2>1. f \in [Slots(n) -> T] /\ \A s \in Slots(n) : f[s] = table[s].key
      BY <1>1, NodesAre
    <2>2. IsFiniteSet(T) /\ Cardinality(T) = load /\ load \in Nat
      BY DEF HashInv
    <2>3. load < n
      BY <1>2, <2>2
    <2> HIDE DEF f, T
    <2>4. \A s, r \in Slots(n) : f[s] = f[r] => table[s].key = table[r].key
      BY <2>1
    <2>5. Cardinality(T) < n
      BY <2>2, <2>3
    <2>6. \E s \in Slots(n) : table[s].key = None
      BY <1>2, <2>1, <2>2, <2>4, <2>5, FreeSlot
    <2> QED
      BY <2>6
  <1>4. hash[key] \in Hashes
    BY DEF HashInv
  <1> DEFINE keys == {None, key}
             first == FirstTried(table, key, keys)
  <1>5. \E s \in Slots(n) : table[s].key \in keys
    BY <1>3
  <1> HIDE DEF keys
  <1>6. \E i \in Slots(n) :
            /\ first = Tried(hash[key], n, i) /\ first \in Slots(n)
            /\ table[first].key \in keys
            /\ \A j \in Slots(n) :
                  j < i => table[Tried(hash[key], n, j)].key \notin keys
    BY <1>2, <1>4, <1>5, FirstIs
  <1>7. Lookup(key) = first
    BY DEF Lookup, keys
  <1> HIDE DEF first
  <1> QED
    BY <1>6, <1>7 DEF keys, Reached, n

(* A search gives the node of its key, or a free slot for a key that was   *)
(* not added.                                                              *)
LEMMA SearchesAreRight ==
    ASSUME HashParameters, HashInv, size # 0, NEW key \in Keys
    PROVE  IF table[Lookup(key)].key = None
           THEN added[key] = 0 /\ table[Lookup(key)] = Empty
           ELSE table[Lookup(key)] = NodeOf(added, key) /\ added[key] # 0
  <1> DEFINE n == size
             s == Lookup(key)
  <1>1. Holds(hash, table, n, added, load) /\ Good(hash, table, n)
    BY DEF HashInv, Holds
  <1>2. /\ s \in Slots(n) /\ table[s].key \in {None, key}
        /\ Reached(hash, table, n, key, s)
    BY LookupIs
  <1> HIDE DEF n, s
  <1>3. key # None
    BY DEF HashParameters
  <1>4. CASE table[s].key = None
    <2>1. \A r \in Slots(n) : table[r].key # key
      BY <1>1, <1>2, <1>3, <1>4, SearchEnds
    <2>2. key \notin KeysOf(added)
      BY <1>1, <2>1, NodesAre
    <2>3. added[key] = 0
      BY <2>2 DEF KeysOf
    <2>4. table[s] = Empty
      BY <1>1, <1>2, <1>4 DEF Good
    <2> QED
      BY <1>4, <2>3, <2>4 DEF s
  <1>5. CASE table[s].key # None
    <2>1. table[s].key = key
      BY <1>2, <1>5
    <2>2. key \in KeysOf(added) /\ table[s].data = added[key]
      BY <1>1, <1>2, <1>5, <2>1, NodesAre
    <2>3. table[s] \in Node
      BY <1>1, <1>2 DEF Good
    <2>4. table[s] = NodeOf(added, key)
      BY <2>1, <2>2, <2>3 DEF Node, NodeOf
    <2> QED
      BY <1>5, <2>2, <2>4 DEF KeysOf, s
  <1> QED
    BY <1>4, <1>5

(* A table that holds what was added is the map of it.                     *)
LEMMA HashInvIsEnough ==
    ASSUME HashParameters, HashInv
    PROVE  HashIsAMap
  <1>1. FindsWhatWasAdded
    <2> SUFFICES ASSUME NEW key \in Keys
                 PROVE  IF size = 0 THEN added[key] = 0
                        ELSE /\ Lookup(key) # Endless
                             /\ table[Lookup(key)].data = added[key]
      BY DEF FindsWhatWasAdded
    <2>1. CASE size = 0
      BY <2>1 DEF HashInv, KeysOf
    <2>2. CASE size # 0
      <3>1. Lookup(key) # Endless
        <4>1. Lookup(key) \in Slots(size)
          BY <2>2, LookupIs
        <4>2. size \in Nat
          BY <2>2 DEF HashInv, Holds, Good, IsPower
        <4>3. Lookup(key) \in Nat
          BY <4>1, <4>2, SlotsAre
        <4> QED
          BY <4>3 DEF Endless
      <3>2. table[Lookup(key)].data = added[key]
        <4> DEFINE s == Lookup(key)
        <4>1. IF table[s].key = None
              THEN added[key] = 0 /\ table[s] = Empty
              ELSE table[s] = NodeOf(added, key) /\ added[key] # 0
          BY <2>2, SearchesAreRight
        <4> HIDE DEF s
        <4>2. table[s].data = added[key]
          BY <4>1 DEF Empty, NodeOf
        <4> QED
          BY <4>2 DEF s
      <3> QED
        BY <2>2, <3>1, <3>2
    <2> QED
      BY <2>1, <2>2
  <1>2. EveryKeyOnce
    <2> DEFINE full == {i \in DOMAIN table : table[i].key # None}
               T == KeysOf(added)
    <2>1. IsFiniteSet(T) /\ Cardinality(T) = load
      BY DEF HashInv
    <2>2. CASE size = 0
      <3>1. T = {} /\ load = 0
        BY <2>1, <2>2, FS_EmptySet DEF HashInv
      <3>2. DOMAIN table = {}
        BY <2>2 DEF HashInv
      <3>3. full = {} /\ {table[i].key : i \in full} = {}
        BY <3>2
      <3> QED
        BY <3>1, <3>3, FS_EmptySet DEF EveryKeyOnce, KeysOf
    <2>3. CASE size # 0
      <3> DEFINE n == size
                 f == [i \in full |-> table[i].key]
      <3>1. Holds(hash, table, n, added, load) /\ Good(hash, table, n)
        BY <2>3 DEF HashInv, Holds
      <3> HIDE DEF n
      <3>2. DOMAIN table = Slots(n)
        BY <3>1 DEF Good
      <3>3. \A i \in full : table[i].key \in T
        BY <3>1, <3>2, NodesAre
      <3>4. \A k \in T : \E i \in full : table[i].key = k
        <4>1. \A k \in T : k # None
          BY DEF KeysOf, HashParameters
        <4> QED
          BY <3>1, <3>2, <4>1, NodesAre
      <3>5. \A i, j \in full : table[i].key = table[j].key => i = j
        BY <3>1, <3>2, OneSlot
      <3>6. f \in [full -> T] /\ \A i \in full : f[i] = table[i].key
        BY <3>3
      <3> HIDE DEF f, full, T
      <3>7. f \in Bijection(full, T)
        <4>1. \A i, j \in full : f[i] = f[j] => i = j
          BY <3>5, <3>6
        <4>2. \A k \in T : \E i \in full : f[i] = k
          BY <3>4, <3>6
        <4> QED
          BY <3>6, <4>1, <4>2, Fun_IsBij
      <3>8. Cardinality(full) = load
        <4>1. ExistsBijection(full, T)
          BY <3>7 DEF ExistsBijection
        <4>2. ExistsBijection(T, full)
          BY <4>1, Fun_ExistsBijSymmetric
        <4> QED
          BY <2>1, <4>2, FS_Bijection
      <3>9. {table[i].key : i \in full} = T
        BY <3>3, <3>4
      <3> QED
        BY <3>8, <3>9 DEF EveryKeyOnce, full, T, KeysOf
    <2> QED
      BY <2>2, <2>3
  <1> QED
    BY <1>1, <1>2 DEF HashIsAMap

LEMMA HashStarts ==
    ASSUME HashParameters, HashInit
    PROVE  HashInv
  <1>1. hash \in [Keys -> Hashes]
    BY DEF HashInit, HashParameters, Hashes
  <1>2. added \in [Keys -> Nat] /\ load \in Nat /\ load = 0 /\ inserts = {}
    BY DEF HashInit
  <1>3. KeysOf(added) = {}
    BY DEF HashInit, KeysOf
  <1>4. DOMAIN table = {} /\ size = 0
    BY FS_EmptySet DEF HashInit, size
  <1> QED
    BY <1>1, <1>2, <1>3, <1>4, FS_EmptySet DEF HashInv

LEMMA SameSearches ==
    ASSUME hash' = hash, table' = table
    PROVE  /\ size' = size
           /\ \A key : Lookup(key)' = Lookup(key) /\ (NotFound(key)' <=> NotFound(key))
  <1>1. size' = size
    BY DEF size
  <1>2. ASSUME NEW key
        PROVE  Lookup(key)' = Lookup(key)
    BY Zenon DEF Lookup, FirstTried
  <1>3. ASSUME NEW key
        PROVE  NotFound(key)' <=> NotFound(key)
    BY <1>1, <1>2 DEF NotFound
  <1> QED
    BY <1>1, <1>2, <1>3

LEMMA SearchKeeps ==
    ASSUME HashParameters, HashInv, NEW key \in Keys, hash_find(key)
    PROVE  HashInv'
  <1>1. /\ hash' = hash /\ table' = table /\ load' = load /\ added' = added
        /\ NotFound(key)
        /\ inserts' = inserts \cup
              {[key |-> key, where |-> IF size = 0 THEN NULL ELSE Lookup(key)]}
    BY DEF hash_find
  <1>2. /\ size' = size
        /\ \A k : Lookup(k)' = Lookup(k) /\ (NotFound(k)' <=> NotFound(k))
    BY <1>1, SameSearches
  <1>3. ASSUME NEW ins \in inserts'
        PROVE  /\ ins.key \in Keys /\ NotFound(ins.key)'
               /\ ins.where = IF size = 0 THEN NULL ELSE Lookup(ins.key)'
    <2>1. CASE ins \in inserts
      BY <1>2, <2>1 DEF HashInv
    <2>2. CASE ins = [key |-> key, where |-> IF size = 0 THEN NULL ELSE Lookup(key)]
      BY <1>1, <1>2, <2>2
    <2> QED
      BY <1>1, <2>1, <2>2
  <1> QED
    BY <1>1, <1>2, <1>3 DEF HashInv

(* The first slot of the search is free in an empty table.                 *)
LEMMA FreshHolds ==
    ASSUME HashParameters, NEW a \in [Keys -> Nat], KeysOf(a) = {},
           hash \in [Keys -> Hashes], NEW key \in Keys
    PROVE  LET n == HASH_INIT_SIZE
               t == [s \in Slots(n) |-> Empty]
               p == hash[key].low % n
           IN /\ Holds(hash, t, n, a, 0) /\ p \in Slots(n) /\ t[p].key = None
              /\ Reached(hash, t, n, key, p)
  <1> DEFINE n == HASH_INIT_SIZE
             t == [s \in Slots(n) |-> Empty]
             h == hash[key]
             p == h.low % n
  <1>1. IsPower(n) /\ n \in Nat /\ n \in Nat \ {0} /\ n >= 4 /\ 2 * 0 <= n
    BY InitialSize DEF HashParameters
  <1> HIDE DEF n
  <1>2. Good(hash, t, n) /\ Nodes(t, Slots(n)) = {}
    BY <1>1, EmptyIsGood
  <1>3. Holds(hash, t, n, a, 0)
    BY <1>1, <1>2 DEF Holds
  <1>4. h \in Hashes /\ h.low \in Int
    BY DEF Hashes
  <1>5. 0 \in Slots(n) /\ \A j \in Slots(n) : ~(j < 0)
    BY <1>1, SlotsAre
  <1> HIDE DEF h
  <1>6. Tried(h, n, 0) = p
    <2>1. hash_inc(h, n) \in Int
      BY <1>1, <1>4, StepIsOdd
    <2>2. h.low + 0 * hash_inc(h, n) = h.low
      BY <1>4, <2>1
    <2> QED
      BY <2>2 DEF Tried
  <1>7. p \in Slots(n)
    BY <1>1, <1>4, <1>6, TriedIsSlot
  <1>8. t[p].key = None
    BY <1>7 DEF Empty
  <1> HIDE DEF p, t
  <1>9. Reached(hash, t, n, key, p)
    BY <1>5, <1>6 DEF Reached, h
  <1> QED
    BY <1>3, <1>7, <1>8, <1>9 DEF p, t, h, n

LEMMA AddKeeps ==
    ASSUME HashParameters, HashInv, NEW insert \in inserts, hash_add(insert)
    PROVE  HashInv'
  <1> DEFINE key == insert.key
             fresh == insert.where = NULL
             t == IF fresh THEN [i \in Slots(HASH_INIT_SIZE) |-> Empty] ELSE table
             p == IF fresh THEN hash[key].low % HASH_INIT_SIZE ELSE insert.where
             put == [t EXCEPT ![p] = [key |-> key, data |-> load + 1]]
             n == IF fresh THEN HASH_INIT_SIZE ELSE size
             m == Cardinality(DOMAIN t)
             b == [added EXCEPT ![key] = load + 1]
  <1>1. /\ hash \in [Keys -> Hashes] /\ added \in [Keys -> Nat] /\ load \in Nat
        /\ IsFiniteSet(KeysOf(added)) /\ Cardinality(KeysOf(added)) = load
        /\ key \in Keys /\ NotFound(key)
        /\ insert.where = IF size = 0 THEN NULL ELSE Lookup(key)
    BY DEF HashInv
  <1>2. /\ table' = IF load + 1 > hash_max_load(m) THEN Moved(put, 2 * m) ELSE put
        /\ load' = load + 1 /\ added' = b /\ inserts' = {} /\ hash' = hash
    BY DEF hash_add
  <1>3. fresh <=> size = 0
    <2>1. CASE size = 0
      BY <1>1, <2>1
    <2>2. CASE size # 0
      <3>1. Lookup(key) \in Slots(size) /\ size \in Nat
        BY <1>1, <2>2, LookupIs DEF HashInv, Holds, Good, IsPower
      <3>2. Lookup(key) \in Nat
        BY <3>1, SlotsAre
      <3> QED
        BY <1>1, <2>2, <3>2 DEF NULL
    <2> QED
      BY <2>1, <2>2
  <1>4. /\ Holds(hash, t, n, added, load) /\ added[key] = 0
        /\ p \in Slots(n) /\ t[p].key = None /\ Reached(hash, t, n, key, p)
    <2>1. CASE size = 0
      <3>1. KeysOf(added) = {} /\ load = 0
        BY <1>1, <2>1, FS_EmptySet DEF HashInv
      <3>2. added[key] = 0
        BY <1>1, <3>1 DEF KeysOf
      <3>3. fresh
        BY <1>3, <2>1
      <3> DEFINE z == HASH_INIT_SIZE
                 e == [s \in Slots(z) |-> Empty]
                 r == hash[key].low % z
      <3>4. t = e /\ p = r /\ n = z
        BY <3>3
      <3> HIDE DEF key, t, p, n
      <3>5. /\ Holds(hash, e, z, added, 0) /\ r \in Slots(z) /\ e[r].key = None
            /\ Reached(hash, e, z, key, r)
        BY <1>1, <3>1, FreshHolds
      <3> HIDE DEF e, r, z
      <3> QED
        BY <3>1, <3>2, <3>4, <3>5
    <2>2. CASE size # 0
      <3>1. ~fresh /\ insert.where = Lookup(key)
        BY <1>1, <1>3, <2>2
      <3>2. t = table /\ p = Lookup(key) /\ n = size
        BY <3>1
      <3> HIDE DEF key, t, p, n
      <3>3. table[Lookup(key)].key = None
        BY <1>1, <2>2 DEF NotFound
      <3>4. added[key] = 0
        BY <1>1, <2>2, <3>3, SearchesAreRight
      <3>5. /\ Lookup(key) \in Slots(size)
            /\ Reached(hash, table, size, key, Lookup(key))
        BY <1>1, <2>2, LookupIs
      <3>6. Holds(hash, table, size, added, load)
        BY <2>2 DEF HashInv
      <3> QED
        BY <3>2, <3>3, <3>4, <3>5, <3>6
    <2> QED
      BY <2>1, <2>2
  <1> HIDE DEF t, p, n, key
  <1>5. n \in Nat /\ IsPower(n) /\ m = n
    <2>1. n \in Nat /\ IsPower(n) /\ DOMAIN t = Slots(n)
      BY <1>4 DEF Holds, Good, IsPower
    <2> QED
      BY <2>1, SlotsAre
  <1>6. load + 1 > hash_max_load(n) => Holds(hash, Moved(put, 2 * n), 2 * n, b, load + 1)
    BY ONLY HashParameters, <1>1, <1>4, AddHolds
  <1>7. ~(load + 1 > hash_max_load(n)) => Holds(hash, put, n, b, load + 1)
    BY ONLY HashParameters, <1>1, <1>4, AddHolds
  <1> DEFINE z == IF load + 1 > hash_max_load(n) THEN 2 * n ELSE n
  <1>8. b \in [Keys -> Nat] /\ KeysOf(b) = KeysOf(added) \cup {key} /\ key \notin KeysOf(added)
    BY <1>1, <1>4 DEF KeysOf
  <1> HIDE DEF put, b, m
  <1>9. IsFiniteSet(KeysOf(b)) /\ Cardinality(KeysOf(b)) = load + 1
    <2> DEFINE S == KeysOf(added)
    <2>1. IsFiniteSet(S) /\ Cardinality(S) = load /\ key \notin S
      BY <1>1, <1>8
    <2> HIDE DEF S
    <2>2. IsFiniteSet(S \cup {key}) /\ Cardinality(S \cup {key}) = load + 1
      BY <2>1, FS_AddElement
    <2> QED
      BY <1>8, <2>2 DEF S
  <1>10. Holds(hash, table', z, b, load + 1)
    BY <1>2, <1>5, <1>6, <1>7
  <1> HIDE DEF z
  <1>11. z # 0 /\ size' = z
    <2>1. z \in Nat /\ z # 0 /\ DOMAIN table' = Slots(z)
      BY <1>10 DEF Holds, Good, IsPower
    <2> QED
      BY <2>1, SlotsAre DEF size
  <1>12. Holds(hash', table', size', added', load')
    BY <1>2, <1>10, <1>11
  <1> QED
    BY <1>1, <1>2, <1>8, <1>9, <1>11, <1>12 DEF HashInv

(* The hash table is a map (hash_find, hash_add): whatever the hashes, a   *)
(* search ends, and it finds the data its key was added with and nothing   *)
(* for a key that was not added; the nodes met by an iteration are those   *)
(* added, each once, also after the table grew.  An insertion object may   *)
(* be used until the next hash_add.                                        *)
THEOREM HashTableIsAMap == HashParameters => (HashSpec => []HashIsAMap)
  <1> SUFFICES ASSUME HashParameters
               PROVE  HashSpec => []HashIsAMap
    OBVIOUS
  <1>1. HashInit => HashInv
    BY HashStarts
  <1>2. HashInv /\ [HashNext]_hashVars => HashInv'
    <2> SUFFICES ASSUME HashInv, [HashNext]_hashVars
                 PROVE  HashInv'
      OBVIOUS
    <2>1. CASE \E key \in Keys : hash_find(key)
      BY <2>1, SearchKeeps
    <2>2. CASE \E insert \in inserts : hash_add(insert)
      BY <2>2, AddKeeps
    <2>3. CASE UNCHANGED hashVars
      <3>1. /\ hash' = hash /\ table' = table /\ load' = load /\ added' = added
            /\ inserts' = inserts
        BY <2>3 DEF hashVars
      <3>2. /\ size' = size
            /\ \A k : Lookup(k)' = Lookup(k) /\ (NotFound(k)' <=> NotFound(k))
        BY <3>1, SameSearches
      <3>3. \A ins \in inserts' :
              /\ ins.key \in Keys /\ NotFound(ins.key)'
              /\ ins.where = IF size = 0 THEN NULL ELSE Lookup(ins.key)'
        BY <3>1, <3>2 DEF HashInv
      <3> QED
        BY <3>1, <3>2, <3>3 DEF HashInv
    <2> QED
      BY <2>1, <2>2, <2>3 DEF HashNext
  <1>3. HashInv => HashIsAMap
    BY HashInvIsEnough
  <1> QED
    BY <1>1, <1>2, <1>3, PTL DEF HashSpec
=============================================================================
