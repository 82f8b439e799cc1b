---------------------------- MODULE NdisasmProofs ----------------------------
(***************************************************************************)
(* The main loop of the disassembler: that it shows the file and, with     *)
(* options that the heap of disasm/sync.c can hold, that no instruction    *)
(* jumps over a synchronisation point.  The recursive functions of the     *)
(* heap are shown to exist and to be right by their least counterexample.  *)
(***************************************************************************)
EXTENDS Ndisasm, SequenceTheorems, WellFoundedInduction, TLAPS

Points == [pos : Nat, length : Nat]

(* No element of the heap is below its parent, positions 1 to n.           *)
Ordered(h, n) == \A j \in 2..n : h[j \div 2].pos <= h[j].pos

-----------------------------------------------------------------------------
(* Numbers.                                                                *)

LEMMA LeastOf ==
    ASSUME NEW S, S \subseteq Nat, S # {}
    PROVE  \E m \in S : \A k \in S : m <= k
  <1> DEFINE R == OpToRel(<, Nat)
  <1>1. IsWellFoundedOn(R, Nat)
    BY NatLessThanWellFounded
  <1>2. \A x, y \in Nat : y < x => <<y, x>> \in R
    BY DEF OpToRel
  <1> HIDE DEF R
  <1>3. PICK m \in S : \A k \in S : ~(<<k, m>> \in R)
    BY <1>1, WFMin
  <1>4. ASSUME NEW k \in S PROVE m <= k
    <2>1. m \in Nat /\ k \in Nat /\ ~(<<k, m>> \in R)
      BY <1>3
    <2>2. ~(k < m)
      BY <1>2, <2>1
    <2> QED
      BY <2>1, <2>2
  <1> QED
    BY <1>4

LEMMA FunctionIsSeq ==
    ASSUME NEW S, NEW n \in Nat, NEW s \in [1..n -> S]
    PROVE  s \in Seq(S) /\ Len(s) = n
  <1>1. s \in Seq(S)
    BY SeqDef
  <1>2. Len(s) \in Nat /\ DOMAIN s = 1..Len(s) /\ DOMAIN s = 1..n
    BY <1>1, LenProperties
  <1>3. 1..n = 1..Len(s)
    BY <1>2
  <1>4. (n > 0 => n \in 1..Len(s)) /\ (Len(s) > 0 => Len(s) \in 1..n)
    BY <1>2, <1>3
  <1> QED
    BY <1>1, <1>2, <1>4

(* The parent of a position of the heap.                                   *)
LEMMA ParentIsBelow ==
    ASSUME NEW i \in Nat, i > 1
    PROVE  /\ i \div 2 \in Nat /\ 1 <= i \div 2 /\ i \div 2 < i
           /\ i = 2 * (i \div 2) \/ i = 2 * (i \div 2) + 1
  OBVIOUS

LEMMA ParentOfChild ==
    ASSUME NEW i \in Nat
    PROVE  (2 * i) \div 2 = i /\ (2 * i + 1) \div 2 = i
  OBVIOUS

-----------------------------------------------------------------------------
(* MovedUp, the loop of add_sync.                                          *)

(* What the function of MovedUp is at i, given the function.               *)
UpAt(h, x, f, i) ==
    IF i > 1 /\ h[i \div 2].pos > x.pos
    THEN [f[i \div 2] EXCEPT ![i] = h[i \div 2]]
    ELSE [h EXCEPT ![i] = x]

LEMMA UpExists ==
    ASSUME NEW h, NEW x, NEW n \in Nat
    PROVE  \E f : f = [i \in 1..n |-> UpAt(h, x, f, i)]
  <1> DEFINE None == {m \in 0..n : ~\E f : f = [i \in 1..m |-> UpAt(h, x, f, i)]}
  <1>1. SUFFICES ASSUME None # {} PROVE FALSE
    BY <1>1
  <1>2. PICK m \in None : \A k \in None : m <= k
    <2>1. None \subseteq Nat
      OBVIOUS
    <2> HIDE DEF None
    <2> QED
      BY <1>1, <2>1, LeastOf
  <1>3. m \in 0..n /\ m # 0
    <2>1. <<>> = [i \in 1..0 |-> UpAt(h, x, <<>>, i)]
      OBVIOUS
    <2> QED
      BY <2>1
  <1>4. PICK f : f = [i \in 1..m - 1 |-> UpAt(h, x, f, i)]
    <2>1. m - 1 \in 0..n /\ m - 1 \notin None
      BY <1>2, <1>3
    <2> QED
      BY <2>1
  <1> DEFINE g == [i \in 1..m |-> IF i = m THEN UpAt(h, x, f, m) ELSE f[i]]
  <1>5. ASSUME NEW i \in 1..m PROVE g[i] = UpAt(h, x, g, i)
    <2>1. i > 1 => i \div 2 \in 1..m - 1 /\ g[i \div 2] = f[i \div 2]
      BY <1>3, ParentIsBelow
    <2>2. g[i] = UpAt(h, x, f, i)
      <3>1. CASE i = m
        BY <3>1
      <3>2. CASE i # m
        <4>1. i \in 1..m - 1 /\ g[i] = f[i]
          BY <3>2, <1>3
        <4> HIDE DEF g
        <4> QED
          BY <4>1, <1>4
      <3> QED
        BY <3>1, <3>2
    <2> HIDE DEF g
    <2>3. UpAt(h, x, f, i) = UpAt(h, x, g, i)
      BY <2>1 DEF UpAt
    <2> QED
      BY <2>2, <2>3
  <1>6. g = [i \in 1..m |-> UpAt(h, x, g, i)]
    <2>1. g = [i \in 1..m |-> g[i]]
      OBVIOUS
    <2> HIDE DEF g
    <2> QED
      BY <1>5, <2>1
  <1> QED
    BY <1>2, <1>6

LEMMA UpIsFunction ==
    ASSUME NEW h \in Seq(Points), NEW x
    PROVE  \E f : /\ f = [i \in 1..Len(h) |-> UpAt(h, x, f, i)]
                  /\ MovedUp(h, x) = f[Len(h)]
  <1> DEFINE from == CHOOSE f : f = [i \in 1..Len(h) |->
                         IF i > 1 /\ h[i \div 2].pos > x.pos
                         THEN [f[i \div 2] EXCEPT ![i] = h[i \div 2]]
                         ELSE [h EXCEPT ![i] = x]]
  <1>1. MovedUp(h, x) = from[Len(h)]
    BY DEF MovedUp
  <1>2. Len(h) \in Nat
    BY LenProperties
  <1>3. \E f : f = [i \in 1..Len(h) |->
                         IF i > 1 /\ h[i \div 2].pos > x.pos
                         THEN [f[i \div 2] EXCEPT ![i] = h[i \div 2]]
                         ELSE [h EXCEPT ![i] = x]]
    <2>1. PICK f : f = [i \in 1..Len(h) |-> UpAt(h, x, f, i)]
      BY <1>2, UpExists
    <2> QED
      BY <2>1, Zenon DEF UpAt
  <1>4. from = [i \in 1..Len(h) |-> UpAt(h, x, from, i)]
    BY <1>3, Zenon DEF UpAt
  <1> HIDE DEF from
  <1> QED
    BY <1>1, <1>4

(* What has become of h when x has been moved up from position i: what is  *)
(* behind i is as it was, what is before it is in order, and x and all     *)
(* that was before i are still there.                                      *)
UpResult(h, x, g, i) ==
    /\ g \in [1..Len(h) -> Points]
    /\ \A j \in i + 1..Len(h) : g[j] = h[j]
    /\ \A j \in 1..i - 1 : g[j].pos <= h[j].pos
    /\ g[i] = x \/ (i > 1 /\ g[i] = h[i \div 2])
    /\ Ordered(g, i)
    /\ \A j \in 1..i - 1 : \E k \in 1..i : g[k] = h[j]
    /\ \E k \in 1..i : g[k] = x
    /\ \A k \in 1..i : g[k] = x \/ \E j \in 1..i - 1 : g[k] = h[j]

LEMMA UpStays ==
    ASSUME NEW h \in Seq(Points), NEW x \in Points, NEW i \in 1..Len(h),
           Ordered(h, Len(h) - 1), i > 1 => h[i \div 2].pos <= x.pos
    PROVE  UpResult(h, x, [h EXCEPT ![i] = x], i)
  <1> DEFINE g == [h EXCEPT ![i] = x]
  <1>1. /\ Len(h) \in Nat /\ h \in [1..Len(h) -> Points]
        /\ g \in [1..Len(h) -> Points]
        /\ g[i] = x /\ \A j \in 1..Len(h) : j # i => g[j] = h[j]
    BY LenProperties, ElementOfSeq
  <1> HIDE DEF g
  <1>2. \A j \in 1..Len(h) : h[j].pos \in Nat
    BY <1>1 DEF Points
  <1>3. Ordered(g, i)
    <2>1. SUFFICES ASSUME NEW j \in 2..i PROVE g[j \div 2].pos <= g[j].pos
      BY DEF Ordered
    <2>2. j \div 2 \in 1..i - 1 /\ g[j \div 2] = h[j \div 2]
      BY <1>1, ParentIsBelow
    <2>3. CASE j = i
      BY <1>1, <2>2, <2>3
    <2>4. CASE j # i
      <3>1. h[j \div 2].pos <= h[j].pos
        BY <2>4 DEF Ordered
      <3> QED
        BY <1>1, <2>2, <2>4, <3>1
    <2> QED
      BY <2>3, <2>4
  <1>4. \A j \in 1..i - 1 : g[j] = h[j] /\ g[j].pos <= h[j].pos
    BY <1>1, <1>2
  <1>5. \A j \in i + 1..Len(h) : g[j] = h[j]
    BY <1>1
  <1>6. \A k \in 1..i : g[k] = x \/ \E j \in 1..i - 1 : g[k] = h[j]
    BY <1>1, <1>4
  <1>7. i \in 1..i /\ \A j \in 1..i - 1 : j \in 1..i
    BY <1>1
  <1>8. UpResult(h, x, g, i)
    BY <1>1, <1>3, <1>4, <1>5, <1>6, <1>7 DEF UpResult
  <1> QED
    BY <1>8 DEF g

LEMMA UpGoesOn ==
    ASSUME NEW h \in Seq(Points), NEW x \in Points, NEW i \in 1..Len(h),
           Ordered(h, Len(h) - 1), i > 1, h[i \div 2].pos > x.pos,
           NEW f, UpResult(h, x, f, i \div 2)
    PROVE  UpResult(h, x, [f EXCEPT ![i] = h[i \div 2]], i)
  <1> DEFINE p == i \div 2
             g == [f EXCEPT ![i] = h[p]]
  <1>1. /\ Len(h) \in Nat /\ h \in [1..Len(h) -> Points]
        /\ p \in 1..i - 1 /\ p \in 1..Len(h)
    BY LenProperties, ElementOfSeq, ParentIsBelow
  <1> HIDE DEF p
  <1>2. /\ g \in [1..Len(h) -> Points]
        /\ g[i] = h[p] /\ \A j \in 1..Len(h) : j # i => g[j] = f[j]
    BY <1>1 DEF UpResult, p
  <1>3. UpResult(h, x, f, p)
    BY DEF p
  <1> HIDE DEF g
  <1>4. \A j \in 1..Len(h) : h[j].pos \in Nat /\ g[j].pos \in Nat
    BY <1>1, <1>2 DEF Points
  <1>5. x.pos \in Nat /\ h[p].pos > x.pos
    BY DEF Points, p
  <1>6. \A j \in p + 1..Len(h) : j # i => g[j] = h[j]
    <2>1. \A j \in p + 1..Len(h) : j \in 1..Len(h) /\ f[j] = h[j]
      BY <1>1, <1>3 DEF UpResult
    <2> QED
      BY <1>2, <2>1
  <1>7. g[p].pos <= h[p].pos
    <2>1. g[p] = f[p]
      BY <1>1, <1>2
    <2>2. CASE f[p] = x
      BY <1>5, <1>4, <1>1, <2>1, <2>2
    <2>3. CASE p > 1 /\ f[p] = h[p \div 2]
      <3>1. h[p \div 2].pos <= h[p].pos
        BY <1>1, <2>3 DEF Ordered
      <3> QED
        BY <2>1, <2>3, <3>1
    <2> QED
      BY <1>3, <2>2, <2>3 DEF UpResult
  <1>8. \A j \in 1..i - 1 : g[j].pos <= h[j].pos
    <2>1. SUFFICES ASSUME NEW j \in 1..i - 1 PROVE g[j].pos <= h[j].pos
      OBVIOUS
    <2>2. CASE j < p
      <3>1. j \in 1..p - 1 /\ j \in 1..Len(h) /\ j # i
        BY <1>1, <2>2
      <3> QED
        BY <1>2, <1>3, <3>1 DEF UpResult
    <2>3. CASE j = p
      BY <1>7, <2>3
    <2>4. CASE j > p
      <3>1. j \in p + 1..Len(h) /\ j \in 1..Len(h) /\ j # i
        BY <1>1, <2>4
      <3>2. g[j] = h[j] /\ h[j].pos \in Nat
        BY <1>4, <1>6, <3>1
      <3> QED
        BY <3>2
    <2> QED
      BY <1>1, <2>2, <2>3, <2>4
  <1>9. Ordered(g, i)
    <2>1. SUFFICES ASSUME NEW j \in 2..i PROVE g[j \div 2].pos <= g[j].pos
      BY DEF Ordered
    <2>2. j \div 2 \in 1..i - 1 /\ j \div 2 < j /\ j \in 1..Len(h)
          /\ j \div 2 \in 1..Len(h)
      BY <1>1, ParentIsBelow
    <2>3. CASE j <= p
      <3>1. f[j \div 2].pos <= f[j].pos
        BY <1>3, <2>3, <1>1 DEF UpResult, Ordered
      <3>2. g[j] = f[j] /\ g[j \div 2] = f[j \div 2]
        BY <1>1, <1>2, <2>2, <2>3
      <3> QED
        BY <3>1, <3>2
    <2>4. CASE p < j /\ j < i
      <3>1. h[j \div 2].pos <= h[j].pos
        BY <1>1, <2>4 DEF Ordered
      <3>2. g[j] = h[j] /\ g[j \div 2].pos <= h[j \div 2].pos
        BY <1>1, <1>6, <1>8, <2>2, <2>4
      <3> QED
        BY <1>4, <2>2, <3>1, <3>2
    <2>5. CASE j = i
      BY <1>2, <1>7, <2>5 DEF p
    <2> QED
      BY <1>1, <2>3, <2>4, <2>5
  <1>10. \A j \in 1..i - 1 : \E k \in 1..i : g[k] = h[j]
    <2>1. SUFFICES ASSUME NEW j \in 1..i - 1 PROVE \E k \in 1..i : g[k] = h[j]
      OBVIOUS
    <2>2. CASE j < p
      <3>0. j \in 1..p - 1
        BY <1>1, <2>2
      <3>1. PICK k \in 1..p : f[k] = h[j]
        BY <1>3, <3>0 DEF UpResult
      <3> QED
        BY <1>1, <1>2, <3>1
    <2>3. CASE j = p
      BY <1>2, <2>3
    <2>4. CASE j > p
      BY <1>1, <1>6, <2>4
    <2> QED
      BY <1>1, <2>2, <2>3, <2>4
  <1>11. \E k \in 1..i : g[k] = x
    <2>1. PICK k \in 1..p : f[k] = x
      BY <1>3 DEF UpResult
    <2> QED
      BY <1>1, <1>2, <2>1
  <1>12. \A k \in 1..i : g[k] = x \/ \E j \in 1..i - 1 : g[k] = h[j]
    <2>1. SUFFICES ASSUME NEW k \in 1..i
                   PROVE  g[k] = x \/ \E j \in 1..i - 1 : g[k] = h[j]
      OBVIOUS
    <2>2. CASE k <= p
      <3>0. k \in 1..p
        BY <1>1, <2>2
      <3>1. f[k] = x \/ \E j \in 1..p - 1 : f[k] = h[j]
        BY <1>3, <3>0 DEF UpResult
      <3>2. g[k] = f[k]
        BY <1>1, <1>2, <2>2
      <3> QED
        BY <1>1, <3>1, <3>2
    <2>3. CASE p < k /\ k < i
      BY <1>1, <1>6, <2>3
    <2>4. CASE k = i
      BY <1>1, <1>2, <2>4
    <2> QED
      BY <1>1, <2>2, <2>3, <2>4
  <1>13. \A j \in i + 1..Len(h) : g[j] = h[j]
    BY <1>1, <1>6
  <1>14. g[i] = x \/ (i > 1 /\ g[i] = h[i \div 2])
    BY <1>2 DEF p
  <1>15. UpResult(h, x, g, i)
    BY <1>2, <1>8, <1>9, <1>10, <1>11, <1>12, <1>13, <1>14 DEF UpResult
  <1> QED
    BY <1>15 DEF g, p

(* The elements of a heap.                                                 *)
Elements(h) == {h[j] : j \in 1..Len(h)}

(* Adding a point keeps the heap in order and loses none.                  *)
LEMMA HeapGrows ==
    ASSUME NEW h \in Seq(Points), NEW x \in Points, Ordered(h, Len(h))
    PROVE  /\ MovedUp(Append(h, x), x) \in Seq(Points)
           /\ Len(MovedUp(Append(h, x), x)) = Len(h) + 1
           /\ Ordered(MovedUp(Append(h, x), x), Len(h) + 1)
           /\ Elements(MovedUp(Append(h, x), x)) = Elements(h) \cup {x}
  <1> DEFINE a == Append(h, x)
             n == Len(h) + 1
  <1>1. /\ Len(h) \in Nat /\ a \in Seq(Points) /\ Len(a) = n /\ n \in Nat \ {0}
        /\ \A j \in 1..n - 1 : a[j] = h[j]
    BY LenProperties, AppendProperties
  <1> HIDE DEF a, n
  <1>2. Ordered(a, n - 1)
    <2>1. n - 1 = Len(h)
      BY <1>1 DEF n
    <2>2. SUFFICES ASSUME NEW j \in 2..n - 1 PROVE a[j \div 2].pos <= a[j].pos
      BY DEF Ordered
    <2>3. j \div 2 \in 1..n - 1 /\ j \in 1..n - 1
      BY <1>1, ParentIsBelow
    <2> QED
      BY <1>1, <2>1, <2>3 DEF Ordered
  <1>3. PICK f : /\ f = [i \in 1..n |-> UpAt(a, x, f, i)]
                 /\ MovedUp(a, x) = f[n]
    BY <1>1, UpIsFunction
  <1> DEFINE Wrong == {i \in 1..n : ~UpResult(a, x, f[i], i)}
  <1>4. Wrong = {}
    <2>1. SUFFICES ASSUME Wrong # {} PROVE FALSE
      OBVIOUS
    <2>2. PICK i \in Wrong : \A k \in Wrong : i <= k
      <3>1. Wrong \subseteq Nat
        BY <1>1
      <3> HIDE DEF Wrong
      <3> QED
        BY <2>1, <3>1, LeastOf
    <2>3. i \in 1..n /\ i \in Nat /\ f[i] = UpAt(a, x, f, i)
      <3>1. i \in 1..n /\ i \in Nat
        BY <1>1
      <3> HIDE DEF Wrong
      <3> QED
        BY <1>3, <3>1
    <2>4. CASE i > 1 /\ a[i \div 2].pos > x.pos
      <3>1. i \div 2 \in 1..n /\ i \div 2 < i
        BY <1>1, <2>3, <2>4, ParentIsBelow
      <3>2. UpResult(a, x, f[i \div 2], i \div 2)
        BY <2>2, <2>3, <3>1
      <3>3. UpResult(a, x, [f[i \div 2] EXCEPT ![i] = a[i \div 2]], i)
        BY <1>1, <1>2, <2>3, <2>4, <3>2, UpGoesOn
      <3> QED
        BY <2>2, <2>3, <2>4, <3>3 DEF UpAt
    <2>5. CASE ~(i > 1 /\ a[i \div 2].pos > x.pos)
      <3>1. i > 1 => a[i \div 2].pos <= x.pos
        <4>1. i > 1 => i \div 2 \in 1..n
          BY <1>1, <2>3, ParentIsBelow
        <4>2. \A j \in 1..n : a[j] \in Points
          BY <1>1, ElementOfSeq
        <4> QED
          BY <2>5, <4>1, <4>2 DEF Points
      <3>2. UpResult(a, x, [a EXCEPT ![i] = x], i)
        BY <1>1, <1>2, <2>3, <3>1, UpStays
      <3> QED
        BY <2>2, <2>3, <2>5, <3>2 DEF UpAt
    <2> QED
      BY <2>4, <2>5
  <1> DEFINE g == MovedUp(a, x)
  <1>5. UpResult(a, x, g, n)
    <2>1. n \in 1..n
      BY <1>1
    <2>2. UpResult(a, x, f[n], n)
      BY <1>4, <2>1
    <2> QED
      BY <1>3, <2>2
  <1> HIDE DEF g
  <1>6. g \in Seq(Points) /\ Len(g) = n
    <2>1. g \in [1..n -> Points]
      BY <1>1, <1>5 DEF UpResult
    <2> QED
      BY <1>1, <2>1, FunctionIsSeq
  <1>7. Ordered(g, n)
    BY <1>5 DEF UpResult
  <1>8. Elements(g) = Elements(h) \cup {x}
    <2>1. \A j \in 1..n - 1 : \E k \in 1..n : g[k] = h[j]
      BY <1>1, <1>5 DEF UpResult
    <2>2. \A k \in 1..n : g[k] = x \/ \E j \in 1..n - 1 : g[k] = h[j]
      BY <1>1, <1>5 DEF UpResult
    <2>3. \E k \in 1..n : g[k] = x
      BY <1>5 DEF UpResult
    <2>4. Len(h) = n - 1
      BY <1>1 DEF n
    <2> QED
      BY <1>6, <2>1, <2>2, <2>3, <2>4 DEF Elements
  <1> QED
    BY <1>6, <1>7, <1>8 DEF g, a, n

-----------------------------------------------------------------------------
(* MovedDown, the inner loop of next_sync.                                 *)

LEMMA SmallerChildIs ==
    ASSUME NEW h \in Seq(Points), NEW x \in Points, NEW i \in 1..Len(h)
    PROVE  LET c == SmallerChild(h, x, i)
           IN  \/ /\ c = 0
                  /\ \A j \in 2..Len(h) : j \div 2 = i => x.pos <= h[j].pos
               \/ /\ c \in i + 1..Len(h) /\ c \div 2 = i /\ h[c].pos < x.pos
                  /\ \A j \in 2..Len(h) : j \div 2 = i => h[c].pos <= h[j].pos
  <1>1. /\ Len(h) \in Nat /\ i \in Nat /\ x.pos \in Nat
        /\ \A j \in 1..Len(h) : h[j].pos \in Nat
    <2>1. Len(h) \in Nat /\ \A j \in 1..Len(h) : h[j] \in Points
      BY LenProperties, ElementOfSeq
    <2> QED
      BY <2>1 DEF Points
  <1> DEFINE l == 2 * i
             r == 2 * i + 1
             smallLeft == l <= Len(h) /\ h[l].pos < x.pos
             smallRight == r <= Len(h) /\ h[r].pos < x.pos
             leftFirst == r > Len(h) \/ h[r].pos > h[l].pos
  <1>2. \A j \in 2..Len(h) : j \div 2 = i => j \in 1..Len(h) /\ (j = l \/ j = r)
    BY <1>1, ParentIsBelow
  <1>3. l \in Nat /\ r \in Nat /\ r = l + 1 /\ l \div 2 = i /\ r \div 2 = i /\ i < l
    BY <1>1, ParentOfChild
  <1>4. l <= Len(h) => l \in 1..Len(h) /\ l \in i + 1..Len(h)
    BY <1>1
  <1>5. r <= Len(h) => r \in 1..Len(h) /\ r \in i + 1..Len(h) /\ l <= Len(h)
    BY <1>1
  <1>6. CASE smallLeft /\ leftFirst
    <2>1. SmallerChild(h, x, i) = l
      BY <1>6, <1>3 DEF SmallerChild
    <2> HIDE DEF l, r
    <2>2. h[l].pos \in Nat /\ (l <= Len(h) => h[l].pos <= h[l].pos)
          /\ (r <= Len(h) => h[l].pos <= h[r].pos)
      BY <1>1, <1>3, <1>4, <1>5, <1>6
    <2>3. \A j \in 2..Len(h) : j \div 2 = i => h[l].pos <= h[j].pos
      BY <1>1, <1>2, <2>2
    <2> QED
      BY <1>3, <1>4, <1>6, <2>1, <2>3
  <1>7. CASE ~(smallLeft /\ leftFirst) /\ smallRight
    <2>1. SmallerChild(h, x, i) = r
      BY <1>7, <1>3, <1>5, <1>1 DEF SmallerChild
    <2> HIDE DEF l, r
    <2>2. h[r].pos \in Nat /\ (l <= Len(h) => h[r].pos <= h[l].pos)
          /\ (r <= Len(h) => h[r].pos <= h[r].pos)
      BY <1>1, <1>3, <1>4, <1>5, <1>7
    <2>3. \A j \in 2..Len(h) : j \div 2 = i => h[r].pos <= h[j].pos
      BY <1>1, <1>2, <2>2
    <2> QED
      BY <1>3, <1>5, <1>7, <2>1, <2>3
  <1>8. CASE ~(smallLeft /\ leftFirst) /\ ~smallRight
    <2>1. SmallerChild(h, x, i) = 0
      BY <1>8, <1>3, <1>5, <1>1 DEF SmallerChild
    <2> HIDE DEF l, r
    <2>2. /\ l <= Len(h) => x.pos <= h[l].pos
          /\ r <= Len(h) => x.pos <= h[r].pos
      BY <1>1, <1>3, <1>4, <1>5, <1>8
    <2>3. \A j \in 2..Len(h) : j \div 2 = i => x.pos <= h[j].pos
      BY <1>1, <1>2, <2>2
    <2> QED
      BY <2>1, <2>3
  <1> QED
    BY <1>6, <1>7, <1>8

(* What the function of MovedDown is at i, given the function.             *)
DownAt(h, x, f, i) ==
    LET c == SmallerChild(h, x, i)
    IN IF c = 0 THEN [h EXCEPT ![i] = x] ELSE [f[c] EXCEPT ![i] = h[c]]

LEMMA DownExists ==
    ASSUME NEW h \in Seq(Points), NEW x \in Points
    PROVE  \E f : f = [i \in 1..Len(h) |-> DownAt(h, x, f, i)]
  <1> DEFINE n == Len(h)
             From(m) == {i \in 1..n : i > n - m}
             None == {m \in 0..n : ~\E f : f = [i \in From(m) |-> DownAt(h, x, f, i)]}
  <1>0. n \in Nat
    BY LenProperties
  <1>1. SUFFICES ASSUME None # {} PROVE FALSE
    <2>1. From(n) = 1..n /\ n \in 0..n
      BY <1>0
    <2> HIDE DEF From, n
    <2>2. PICK f : f = [i \in From(n) |-> DownAt(h, x, f, i)]
      BY <2>1, <1>1
    <2>3. f = [i \in 1..n |-> DownAt(h, x, f, i)]
      BY <2>1, <2>2
    <2> QED
      BY <2>3 DEF n
  <1>2. PICK m \in None : \A k \in None : m <= k
    <2>1. None \subseteq Nat
      OBVIOUS
    <2> HIDE DEF None
    <2> QED
      BY <1>1, <2>1, LeastOf
  <1> HIDE DEF n
  <1>3. m \in 0..n /\ m # 0
    <2>1. From(0) = {}
      BY <1>0
    <2>2. <<>> = [i \in From(0) |-> DownAt(h, x, <<>>, i)]
      BY <2>1
    <2> HIDE DEF From
    <2> QED
      BY <2>2
  <1>4. PICK f : f = [i \in From(m - 1) |-> DownAt(h, x, f, i)]
    <2>1. m - 1 \in 0..n /\ ~(m <= m - 1)
      BY <1>0, <1>3
    <2>2. m - 1 \notin None
      <3> HIDE DEF None
      <3> QED
        BY <1>2, <2>1
    <2> HIDE DEF From
    <2> QED
      BY <2>1, <2>2
  <1> DEFINE first == n - m + 1
             g == [i \in From(m) |-> IF i = first THEN DownAt(h, x, f, i) ELSE f[i]]
  <1>5. /\ first \in From(m)
        /\ \A i \in From(m) : i # first => i \in From(m - 1)
        /\ \A i \in From(m) : \A c \in i + 1..n :
              c \in From(m - 1) /\ c \in From(m) /\ c # first
    BY <1>0, <1>3
  <1>6. ASSUME NEW i \in From(m) PROVE g[i] = DownAt(h, x, g, i)
    <2> DEFINE c == SmallerChild(h, x, i)
    <2>1. c = 0 \/ c \in i + 1..n
      <3>1. i \in 1..Len(h)
        BY DEF n
      <3> QED
        BY <3>1, SmallerChildIs DEF n
    <2>2. g[i] = DownAt(h, x, f, i)
      <3> HIDE DEF From, first
      <3>1. CASE i = first
        BY <3>1
      <3>2. CASE i # first
        <4>1. g[i] = f[i] /\ i \in From(m - 1)
          BY <3>2, <1>5
        <4> HIDE DEF g
        <4> QED
          BY <4>1, <1>4
      <3> QED
        BY <3>1, <3>2
    <2> HIDE DEF From, first
    <2>3. c # 0 => g[c] = f[c]
      BY <1>5, <2>1
    <2> HIDE DEF g
    <2>4. DownAt(h, x, f, i) = DownAt(h, x, g, i)
      BY <2>3 DEF DownAt
    <2> QED
      BY <2>2, <2>4
  <1>7. g = [i \in From(m) |-> DownAt(h, x, g, i)]
    <2> HIDE DEF From, first
    <2>1. g = [i \in From(m) |-> g[i]]
      OBVIOUS
    <2> HIDE DEF g
    <2> QED
      BY <1>6, <2>1
  <1> HIDE DEF g, From
  <1> QED
    BY <1>2, <1>7

LEMMA DownIsFunction ==
    ASSUME NEW h \in Seq(Points), NEW x \in Points
    PROVE  \E f : /\ f = [i \in 1..Len(h) |-> DownAt(h, x, f, i)]
                  /\ MovedDown(h, x) = f[1]
  <1> DEFINE from == CHOOSE f : f = [i \in 1..Len(h) |->
                         LET c == SmallerChild(h, x, i)
                         IN IF c = 0 THEN [h EXCEPT ![i] = x]
                            ELSE [f[c] EXCEPT ![i] = h[c]]]
  <1>1. MovedDown(h, x) = from[1]
    BY DEF MovedDown
  <1>2. \E f : f = [i \in 1..Len(h) |->
                         LET c == SmallerChild(h, x, i)
                         IN IF c = 0 THEN [h EXCEPT ![i] = x]
                            ELSE [f[c] EXCEPT ![i] = h[c]]]
    <2>1. PICK f : f = [i \in 1..Len(h) |-> DownAt(h, x, f, i)]
      BY DownExists
    <2> QED
      BY <2>1, Zenon DEF DownAt
  <1>3. from = [i \in 1..Len(h) |-> DownAt(h, x, from, i)]
    BY <1>2, Zenon DEF DownAt
  <1> HIDE DEF from
  <1> QED
    BY <1>1, <1>3

(* What has become of h when x has been moved down from position i.        *)
DownResult(h, x, g, i) ==
    /\ g \in [1..Len(h) -> Points]
    /\ \A j \in 1..i - 1 : g[j] = h[j]
    /\ \A j \in i + 1..Len(h) : g[j].pos >= h[j].pos
    /\ g[i] = x \/ \E j \in i + 1..Len(h) : j \div 2 = i /\ g[i] = h[j]
    /\ \A j \in 2..Len(h) : j \div 2 >= i => g[j \div 2].pos <= g[j].pos
    /\ \A j \in i + 1..Len(h) : \E k \in i..Len(h) : g[k] = h[j]
    /\ \E k \in i..Len(h) : g[k] = x
    /\ \A k \in i..Len(h) : g[k] = x \/ \E j \in i + 1..Len(h) : g[k] = h[j]

LEMMA DownStays ==
    ASSUME NEW h \in Seq(Points), NEW x \in Points, NEW i \in 1..Len(h),
           Ordered(h, Len(h)),
           \A j \in 2..Len(h) : j \div 2 = i => x.pos <= h[j].pos
    PROVE  DownResult(h, x, [h EXCEPT ![i] = x], i)
  <1> DEFINE g == [h EXCEPT ![i] = x]
  <1>1. /\ Len(h) \in Nat /\ h \in [1..Len(h) -> Points]
        /\ g \in [1..Len(h) -> Points]
        /\ g[i] = x /\ \A j \in 1..Len(h) : j # i => g[j] = h[j]
    BY LenProperties, ElementOfSeq
  <1> HIDE DEF g
  <1>2. \A j \in 1..Len(h) : h[j].pos \in Nat
    BY <1>1 DEF Points
  <1>3. /\ \A j \in 1..i - 1 : g[j] = h[j]
        /\ \A j \in i + 1..Len(h) : g[j] = h[j] /\ g[j].pos >= h[j].pos
    BY <1>1, <1>2
  <1>4. ASSUME NEW j \in 2..Len(h), j \div 2 >= i
        PROVE  g[j \div 2].pos <= g[j].pos
    <2>1. j \div 2 \in 1..Len(h) /\ j \div 2 < j /\ j \in 1..Len(h) /\ i < j
      BY <1>1, <1>4, ParentIsBelow
    <2>2. g[j] = h[j]
      BY <1>1, <2>1
    <2>3. CASE j \div 2 = i
      BY <1>1, <2>2, <2>3
    <2>4. CASE j \div 2 # i
      <3>1. h[j \div 2].pos <= h[j].pos
        BY DEF Ordered
      <3> QED
        BY <1>1, <2>1, <2>2, <2>4, <3>1
    <2> QED
      BY <2>3, <2>4
  <1>5. /\ i \in i..Len(h) /\ \A j \in i + 1..Len(h) : j \in i..Len(h)
        /\ \A k \in i..Len(h) : k = i \/ k \in i + 1..Len(h)
    BY <1>1
  <1>6. \A j \in i + 1..Len(h) : \E k \in i..Len(h) : g[k] = h[j]
    BY <1>3, <1>5
  <1>7. \A k \in i..Len(h) : g[k] = x \/ \E j \in i + 1..Len(h) : g[k] = h[j]
    BY <1>1, <1>3, <1>5
  <1>8. DownResult(h, x, g, i)
    BY <1>1, <1>3, <1>4, <1>5, <1>6, <1>7 DEF DownResult
  <1> QED
    BY <1>8 DEF g

LEMMA DownGoesOn ==
    ASSUME NEW h \in Seq(Points), NEW x \in Points, NEW i \in 1..Len(h),
           Ordered(h, Len(h)),
           NEW c \in i + 1..Len(h), c \div 2 = i, h[c].pos < x.pos,
           \A j \in 2..Len(h) : j \div 2 = i => h[c].pos <= h[j].pos,
           NEW f, DownResult(h, x, f, c)
    PROVE  DownResult(h, x, [f EXCEPT ![i] = h[c]], i)
  <1> DEFINE g == [f EXCEPT ![i] = h[c]]
  <1>1. /\ Len(h) \in Nat /\ h \in [1..Len(h) -> Points] /\ i \in Nat
        /\ c \in 1..Len(h) /\ i < c /\ c \in Nat
    BY LenProperties, ElementOfSeq
  <1>2. /\ g \in [1..Len(h) -> Points]
        /\ g[i] = h[c] /\ \A j \in 1..Len(h) : j # i => g[j] = f[j]
    BY <1>1 DEF DownResult
  <1> HIDE DEF g
  <1>3. \A j \in 1..Len(h) : h[j].pos \in Nat /\ g[j].pos \in Nat
    BY <1>1, <1>2 DEF Points
  <1>4. \A j \in 1..c - 1 : j # i => g[j] = h[j]
    <2>1. \A j \in 1..c - 1 : j \in 1..Len(h) /\ f[j] = h[j]
      BY <1>1 DEF DownResult
    <2> QED
      BY <1>2, <2>1
  <1>5. g[c].pos >= h[c].pos
    <2>1. g[c] = f[c]
      BY <1>1, <1>2
    <2>2. CASE f[c] = x
      <3>1. x.pos \in Nat
        BY DEF Points
      <3> QED
        BY <1>1, <1>3, <2>1, <2>2, <3>1
    <2>3. CASE \E j \in c + 1..Len(h) : j \div 2 = c /\ f[c] = h[j]
      <3>1. PICK j \in c + 1..Len(h) : j \div 2 = c /\ f[c] = h[j]
        BY <2>3
      <3>2. j \in 2..Len(h)
        BY <1>1
      <3>3. h[c].pos <= h[j].pos
        BY <3>1, <3>2 DEF Ordered
      <3> QED
        BY <1>1, <1>3, <2>1, <3>1, <3>2, <3>3
    <2> QED
      BY <2>2, <2>3 DEF DownResult
  <1>6. \A j \in i + 1..Len(h) : g[j].pos >= h[j].pos
    <2>1. SUFFICES ASSUME NEW j \in i + 1..Len(h) PROVE g[j].pos >= h[j].pos
      OBVIOUS
    <2>2. j \in 1..Len(h) /\ j # i
      BY <1>1
    <2>3. CASE j < c
      <3>1. j \in 1..c - 1
        BY <1>1, <2>2, <2>3
      <3> QED
        BY <1>3, <1>4, <2>2, <3>1
    <2>4. CASE j = c
      BY <1>5, <2>4
    <2>5. CASE j > c
      <3>1. j \in c + 1..Len(h)
        BY <1>1, <2>5
      <3> QED
        BY <1>2, <2>2, <3>1 DEF DownResult
    <2> QED
      BY <1>1, <2>3, <2>4, <2>5
  <1>7. ASSUME NEW j \in 2..Len(h), j \div 2 >= i
        PROVE  g[j \div 2].pos <= g[j].pos
    <2> DEFINE p == j \div 2
    <2>1. p \in 1..Len(h) /\ p < j /\ j \in 1..Len(h) /\ j \in i + 1..Len(h)
      BY <1>1, <1>7, ParentIsBelow
    <2>2. g[j].pos >= h[j].pos
      BY <1>6, <2>1
    <2>3. h[p].pos <= h[j].pos
      BY DEF Ordered
    <2>4. CASE p = i
      <3>1. h[c].pos <= h[j].pos
        BY <2>4
      <3> QED
        BY <1>1, <1>2, <1>3, <2>1, <2>2, <2>4, <3>1
    <2>5. CASE p > i /\ p < c
      <3>1. g[p] = h[p]
        BY <1>1, <1>4, <2>1, <2>5
      <3> QED
        BY <1>3, <2>1, <2>2, <2>3, <3>1
    <2>6. CASE p >= c
      <3>1. f[p].pos <= f[j].pos
        BY <2>6 DEF DownResult
      <3>2. g[p] = f[p] /\ g[j] = f[j]
        BY <1>1, <1>2, <2>1, <2>6
      <3> QED
        BY <3>1, <3>2
    <2> QED
      BY <1>1, <1>7, <2>1, <2>4, <2>5, <2>6
  <1>8. \A k \in c..Len(h) : k \in 1..Len(h) /\ k \in i..Len(h) /\ g[k] = f[k]
    BY <1>1, <1>2
  <1>9. \A j \in i + 1..Len(h) : \E k \in i..Len(h) : g[k] = h[j]
    <2>1. SUFFICES ASSUME NEW j \in i + 1..Len(h)
                   PROVE  \E k \in i..Len(h) : g[k] = h[j]
      OBVIOUS
    <2>2. CASE j < c
      <3>1. j \in 1..c - 1 /\ j # i /\ j \in i..Len(h)
        BY <1>1, <2>2
      <3> QED
        BY <1>4, <3>1
    <2>3. CASE j = c
      <3>1. i \in i..Len(h)
        BY <1>1
      <3> QED
        BY <1>2, <2>3, <3>1
    <2>4. CASE j > c
      <3>0. j \in c + 1..Len(h)
        BY <1>1, <2>4
      <3>1. PICK k \in c..Len(h) : f[k] = h[j]
        BY <3>0 DEF DownResult
      <3> QED
        BY <1>8, <3>1
    <2> QED
      BY <1>1, <2>2, <2>3, <2>4
  <1>10. \E k \in i..Len(h) : g[k] = x
    <2>1. PICK k \in c..Len(h) : f[k] = x
      BY DEF DownResult
    <2> QED
      BY <1>8, <2>1
  <1>11. \A k \in i..Len(h) : g[k] = x \/ \E j \in i + 1..Len(h) : g[k] = h[j]
    <2>1. SUFFICES ASSUME NEW k \in i..Len(h)
                   PROVE  g[k] = x \/ \E j \in i + 1..Len(h) : g[k] = h[j]
      OBVIOUS
    <2>2. CASE k = i
      BY <1>2, <2>2
    <2>3. CASE k > i /\ k < c
      <3>1. k \in 1..c - 1 /\ k # i /\ k \in i + 1..Len(h)
        BY <1>1, <2>3
      <3> QED
        BY <1>4, <3>1
    <2>4. CASE k >= c
      <3>0. k \in c..Len(h)
        BY <1>1, <2>4
      <3>1. f[k] = x \/ \E j \in c + 1..Len(h) : f[k] = h[j]
        BY <3>0 DEF DownResult
      <3>2. \A j \in c + 1..Len(h) : j \in i + 1..Len(h)
        BY <1>1
      <3> QED
        BY <1>8, <3>0, <3>1, <3>2
    <2> QED
      BY <1>1, <2>2, <2>3, <2>4
  <1>12. g[i] = x \/ \E j \in i + 1..Len(h) : j \div 2 = i /\ g[i] = h[j]
    BY <1>2
  <1>13. \A j \in 1..i - 1 : g[j] = h[j]
    <2>1. \A j \in 1..i - 1 : j \in 1..c - 1 /\ j # i
      BY <1>1
    <2> QED
      BY <1>4, <2>1
  <1>14. DownResult(h, x, g, i)
    BY <1>2, <1>6, <1>7, <1>9, <1>10, <1>11, <1>12, <1>13 DEF DownResult
  <1> QED
    BY <1>14 DEF g

(* Moving x down in a heap with a free root.                               *)
LEMMA HeapSinks ==
    ASSUME NEW h \in Seq(Points), NEW x \in Points, Len(h) > 0,
           Ordered(h, Len(h))
    PROVE  DownResult(h, x, MovedDown(h, x), 1)
  <1>1. Len(h) \in Nat /\ 1 \in 1..Len(h)
    BY LenProperties
  <1>2. PICK f : /\ f = [i \in 1..Len(h) |-> DownAt(h, x, f, i)]
                 /\ MovedDown(h, x) = f[1]
    BY DownIsFunction
  <1> DEFINE Wrong == {i \in 1..Len(h) : ~DownResult(h, x, f[i], i)}
             FromEnd == {Len(h) - i : i \in Wrong}
  <1>3. SUFFICES ASSUME Wrong # {} PROVE FALSE
    BY <1>1, <1>2
  <1>4. PICK i \in Wrong : \A k \in Wrong : k <= i
    <2>1. FromEnd \subseteq Nat /\ FromEnd # {}
      BY <1>1, <1>3
    <2>2. PICK m \in FromEnd : \A k \in FromEnd : m <= k
      <3> HIDE DEF FromEnd
      <3> QED
        BY <2>1, LeastOf
    <2>3. PICK i \in Wrong : m = Len(h) - i
      BY <2>2
    <2>4. \A k \in Wrong : k \in Nat /\ Len(h) - k \in FromEnd
      BY <1>1
    <2> HIDE DEF Wrong, FromEnd
    <2>5. \A k \in Wrong : k \in Nat /\ Len(h) - i <= Len(h) - k
      BY <2>2, <2>3, <2>4
    <2>6. \A k \in Wrong : k <= i
      BY <1>1, <2>3, <2>5
    <2> QED
      BY <2>3, <2>6
  <1>5. i \in 1..Len(h) /\ i \in Nat /\ f[i] = DownAt(h, x, f, i)
    <2>1. i \in 1..Len(h) /\ i \in Nat
      BY <1>1
    <2> HIDE DEF Wrong
    <2> QED
      BY <1>2, <2>1
  <1> DEFINE c == SmallerChild(h, x, i)
  <1>6. CASE /\ c = 0
             /\ \A j \in 2..Len(h) : j \div 2 = i => x.pos <= h[j].pos
    <2>1. DownResult(h, x, [h EXCEPT ![i] = x], i)
      BY <1>5, <1>6, DownStays
    <2>2. f[i] = [h EXCEPT ![i] = x]
      BY <1>5, <1>6 DEF DownAt
    <2> QED
      BY <1>4, <2>1, <2>2
  <1>7. CASE /\ c \in i + 1..Len(h) /\ c \div 2 = i /\ h[c].pos < x.pos
             /\ \A j \in 2..Len(h) : j \div 2 = i => h[c].pos <= h[j].pos
    <2>1. c \in 1..Len(h) /\ c > i /\ c # 0
      BY <1>1, <1>5, <1>7
    <2> HIDE DEF c
    <2>2. c \notin Wrong
      <3> HIDE DEF Wrong
      <3> QED
        BY <1>4, <1>5, <2>1
    <2>3. DownResult(h, x, f[c], c)
      BY <2>1, <2>2
    <2>4. DownResult(h, x, [f[c] EXCEPT ![i] = h[c]], i)
      BY <1>5, <1>7, <2>3, DownGoesOn
    <2>5. f[i] = [f[c] EXCEPT ![i] = h[c]]
      BY <1>5, <2>1 DEF DownAt, c
    <2> QED
      BY <1>4, <2>4, <2>5
  <1> QED
    BY <1>5, <1>6, <1>7, SmallerChildIs

(* Taking the first point away keeps the heap in order and all others.     *)
LEMMA HeapShrinks ==
    ASSUME NEW h \in Seq(Points), h # <<>>, Ordered(h, Len(h))
    PROVE  /\ WithoutFirst(h) \in Seq(Points)
           /\ Len(WithoutFirst(h)) = Len(h) - 1
           /\ Ordered(WithoutFirst(h), Len(h) - 1)
           /\ Elements(WithoutFirst(h)) \subseteq Elements(h)
           /\ Elements(h) \subseteq Elements(WithoutFirst(h)) \cup {h[1]}
  <1> DEFINE n == Len(h) - 1
             rest == SubSeq(h, 1, n)
             x == h[Len(h)]
             g == WithoutFirst(h)
  <1>1. /\ Len(h) \in Nat \ {0} /\ n \in Nat
        /\ \A j \in 1..Len(h) : h[j] \in Points
    <2>1. Len(h) \in Nat /\ Len(h) # 0
      BY LenProperties, EmptySeq
    <2> QED
      BY <2>1, ElementOfSeq
  <1>2. /\ rest \in Seq(Points) /\ Len(rest) = n
        /\ \A j \in 1..n : rest[j] = h[j]
    <2>1. \A j \in 1..n : j \in 1..Len(h)
      BY <1>1
    <2>2. rest = [j \in 1..n |-> h[j]]
      BY <1>1, SubSeqProperties
    <2>3. rest \in [1..n -> Points]
      BY <1>1, <2>1, <2>2
    <2> QED
      BY <1>1, <2>2, <2>3, FunctionIsSeq
  <1>3. x \in Points
    BY <1>1
  <1>4. g = IF rest = <<>> THEN rest ELSE MovedDown(rest, x)
    BY DEF WithoutFirst
  <1>5. \A j \in 1..Len(h) : j \in 1..n \/ j = Len(h)
    BY <1>1
  <1>6. n + 1 = Len(h)
    BY <1>1
  <1> HIDE DEF rest, n
  <1>7. CASE rest = <<>>
    <2>1. n = 0 /\ Len(h) = 1
      BY <1>2, <1>6, <1>7
    <2> QED
      BY <1>2, <1>4, <1>7, <2>1 DEF Ordered, Elements, n
  <1>8. CASE rest # <<>>
    <2>1. Ordered(rest, n)
      <3>1. SUFFICES ASSUME NEW j \in 2..n PROVE rest[j \div 2].pos <= rest[j].pos
        BY DEF Ordered
      <3>2. j \div 2 \in 1..n /\ j \in 1..n /\ j \in 2..Len(h)
        BY <1>1, <1>6, ParentIsBelow
      <3> QED
        BY <1>2, <3>2 DEF Ordered
    <2>2. n > 0
      BY <1>1, <1>2, <1>8, EmptySeq
    <2>3. DownResult(rest, x, g, 1)
      <3> HIDE DEF x, g
      <3> QED
        BY <1>2, <1>3, <1>4, <1>8, <2>1, <2>2, HeapSinks
    <2> HIDE DEF x, g
    <2>4. g \in [1..n -> Points]
      BY <1>2, <2>3 DEF DownResult
    <2>5. g \in Seq(Points) /\ Len(g) = n
      BY <1>1, <2>4, FunctionIsSeq
    <2>6. Ordered(g, n)
      <3>1. \A j \in 2..n : j \div 2 >= 1
        BY <1>1, ParentIsBelow
      <3> QED
        BY <1>2, <2>3, <3>1 DEF DownResult, Ordered
    <2>7. \A k \in 1..n : g[k] = x \/ \E j \in 1..n : g[k] = h[j]
      <3>1. \A k \in 1..n : g[k] = x \/ \E j \in 2..n : g[k] = rest[j]
        BY <1>2, <2>3 DEF DownResult
      <3>2. \A j \in 2..n : j \in 1..n
        BY <1>1
      <3> QED
        BY <1>2, <3>1, <3>2
    <2>8. \A j \in 1..n : j = 1 \/ \E k \in 1..n : g[k] = h[j]
      <3>1. \A j \in 2..n : \E k \in 1..n : g[k] = rest[j]
        BY <1>2, <2>3 DEF DownResult
      <3>2. \A j \in 1..n : j = 1 \/ j \in 2..n
        BY <1>1
      <3> QED
        BY <1>2, <3>1, <3>2
    <2>9. \E k \in 1..n : g[k] = x
      BY <1>2, <2>3 DEF DownResult
    <2>10. \A k \in 1..n : g[k] \in Elements(h)
      <3>1. \A j \in 1..n : j \in 1..Len(h)
        BY <1>1, <1>6
      <3>2. Len(h) \in 1..Len(h)
        BY <1>1
      <3> QED
        BY <2>7, <3>1, <3>2 DEF Elements, x
    <2>11. \A j \in 1..Len(h) : h[j] \in Elements(g) \cup {h[1]}
      BY <1>5, <2>5, <2>8, <2>9 DEF Elements, x
    <2>12. Elements(g) \subseteq Elements(h)
      BY <2>5, <2>10 DEF Elements
    <2>13. Elements(h) \subseteq Elements(g) \cup {h[1]}
      BY <2>11 DEF Elements
    <2> QED
      BY <2>5, <2>6, <2>12, <2>13 DEF g, n
  <1> QED
    BY <1>7, <1>8

(* next_sync(): the points up to position are gone.                        *)
AfterAt(h, position, f, n) ==
    IF n = 0 THEN h
    ELSE LET g == f[n - 1]
         IN IF g # <<>> /\ g[1].pos + g[1].length <= position
            THEN WithoutFirst(g) ELSE g

LEMMA AfterExists ==
    ASSUME NEW h, NEW position, NEW n \in Nat
    PROVE  \E f : f = [i \in 0..n |-> AfterAt(h, position, f, i)]
  <1> DEFINE None == {m \in 0..n : ~\E f : f = [i \in 0..m |-> AfterAt(h, position, f, i)]}
  <1>1. SUFFICES ASSUME None # {} PROVE FALSE
    <2>1. n \in 0..n
      OBVIOUS
    <2> QED
      BY <1>1, <2>1
  <1>2. PICK m \in None : \A k \in None : m <= k
    <2>1. None \subseteq Nat
      OBVIOUS
    <2> HIDE DEF None
    <2> QED
      BY <1>1, <2>1, LeastOf
  <1>3. m \in 0..n /\ m # 0
    <2> DEFINE f == [i \in 0..0 |-> h]
    <2>1. f = [i \in 0..0 |-> AfterAt(h, position, f, i)]
      BY DEF AfterAt
    <2> HIDE DEF f
    <2> QED
      BY <2>1
  <1>4. PICK f : f = [i \in 0..m - 1 |-> AfterAt(h, position, f, i)]
    <2>1. m - 1 \in 0..n /\ ~(m <= m - 1)
      BY <1>3
    <2>2. m - 1 \notin None
      <3> HIDE DEF None
      <3> QED
        BY <1>2, <2>1
    <2> QED
      BY <2>1, <2>2
  <1> DEFINE g == [i \in 0..m |-> IF i = m THEN AfterAt(h, position, f, m) ELSE f[i]]
  <1>5. ASSUME NEW i \in 0..m PROVE g[i] = AfterAt(h, position, g, i)
    <2>1. i # 0 => g[i - 1] = f[i - 1]
      BY <1>3
    <2>2. g[i] = AfterAt(h, position, f, i)
      <3>1. CASE i = m
        BY <3>1
      <3>2. CASE i # m
        <4>1. i \in 0..m - 1 /\ g[i] = f[i]
          BY <3>2, <1>3
        <4> HIDE DEF g
        <4> QED
          BY <4>1, <1>4
      <3> QED
        BY <3>1, <3>2
    <2> HIDE DEF g
    <2>3. AfterAt(h, position, f, i) = AfterAt(h, position, g, i)
      BY <2>1 DEF AfterAt
    <2> QED
      BY <2>2, <2>3
  <1>6. g = [i \in 0..m |-> AfterAt(h, position, g, i)]
    <2>1. g = [i \in 0..m |-> g[i]]
      OBVIOUS
    <2> HIDE DEF g
    <2> QED
      BY <1>5, <2>1
  <1> QED
    BY <1>2, <1>6

LEMMA AfterIsFunction ==
    ASSUME NEW h \in Seq(Points), NEW position
    PROVE  \E f : /\ f = [n \in 0..Len(h) |-> AfterAt(h, position, f, n)]
                  /\ After(h, position) = f[Len(h)]
  <1> DEFINE popped == CHOOSE f : f = [n \in 0..Len(h) |->
                 IF n = 0 THEN h
                 ELSE LET g == f[n - 1]
                      IN IF g # <<>> /\ g[1].pos + g[1].length <= position
                         THEN WithoutFirst(g) ELSE g]
  <1>1. After(h, position) = popped[Len(h)]
    BY DEF After
  <1>2. \E f : f = [n \in 0..Len(h) |->
                 IF n = 0 THEN h
                 ELSE LET g == f[n - 1]
                      IN IF g # <<>> /\ g[1].pos + g[1].length <= position
                         THEN WithoutFirst(g) ELSE g]
    <2>1. Len(h) \in Nat
      BY LenProperties
    <2>2. PICK f : f = [n \in 0..Len(h) |-> AfterAt(h, position, f, n)]
      BY <2>1, AfterExists
    <2> QED
      BY <2>2, Zenon DEF AfterAt
  <1>3. popped = [n \in 0..Len(h) |-> AfterAt(h, position, popped, n)]
    BY <1>2, Zenon DEF AfterAt
  <1> HIDE DEF popped
  <1> QED
    BY <1>1, <1>3

(* A heap after next_sync: only points that end at or before the position  *)
(* have gone, the first one left, which is the lowest, does not.           *)
Remains(h, position, g) ==
    /\ g \in Seq(Points) /\ Ordered(g, Len(g))
    /\ Elements(g) \subseteq Elements(h)
    /\ \A pt \in Elements(h) : pt.pos + pt.length > position => pt \in Elements(g)

Settled(position, g) == g = <<>> \/ g[1].pos + g[1].length > position

LEMMA NextSyncSettles ==
    ASSUME NEW h \in Seq(Points), Ordered(h, Len(h)), NEW position \in Nat
    PROVE  /\ Remains(h, position, After(h, position))
           /\ Settled(position, After(h, position))
  <1>1. Len(h) \in Nat
    BY LenProperties
  <1>2. PICK f : /\ f = [n \in 0..Len(h) |-> AfterAt(h, position, f, n)]
                 /\ After(h, position) = f[Len(h)]
    BY AfterIsFunction
  <1> DEFINE Right(n) == /\ Remains(h, position, f[n])
                         /\ Settled(position, f[n]) \/ Len(f[n]) <= Len(h) - n
             Wrong == {n \in 0..Len(h) : ~Right(n)}
  <1>3. Wrong = {}
    <2>1. SUFFICES ASSUME Wrong # {} PROVE FALSE
      OBVIOUS
    <2>2. PICK n \in Wrong : \A k \in Wrong : n <= k
      <3>1. Wrong \subseteq Nat
        BY <1>1
      <3> HIDE DEF Wrong
      <3> QED
        BY <2>1, <3>1, LeastOf
    <2>3. n \in 0..Len(h) /\ n \in Nat /\ ~Right(n) /\ f[n] = AfterAt(h, position, f, n)
      <3>1. n \in 0..Len(h) /\ n \in Nat /\ ~Right(n)
        BY <1>1
      <3> HIDE DEF Right, Wrong
      <3> QED
        BY <1>2, <3>1
    <2>4. CASE n = 0
      <3>1. f[n] = h
        BY <2>3, <2>4 DEF AfterAt
      <3>2. Remains(h, position, h)
        BY DEF Remains
      <3> QED
        BY <1>1, <2>3, <2>4, <3>1, <3>2
    <2>5. CASE n # 0
      <3> DEFINE g == f[n - 1]
      <3>1. Right(n - 1) /\ n - 1 \in Nat
        <4>1. n - 1 \in 0..Len(h) /\ ~(n <= n - 1)
          BY <1>1, <2>3, <2>5
        <4>2. n - 1 \notin Wrong
          <5> HIDE DEF Wrong, Right
          <5> QED
            BY <2>2, <4>1
        <4> HIDE DEF Right
        <4> QED
          BY <4>1, <4>2
      <3>2. CASE g # <<>> /\ g[1].pos + g[1].length <= position
        <4>1. f[n] = WithoutFirst(g)
          BY <2>3, <2>5, <3>2 DEF AfterAt
        <4> HIDE DEF g
        <4>2. Remains(h, position, g)
          BY <3>1 DEF g
        <4>3. /\ f[n] \in Seq(Points) /\ Len(f[n]) = Len(g) - 1
              /\ Ordered(f[n], Len(g) - 1)
              /\ Elements(f[n]) \subseteq Elements(g)
              /\ Elements(g) \subseteq Elements(f[n]) \cup {g[1]}
          BY <3>2, <4>1, <4>2, HeapShrinks DEF Remains
        <4>4. Remains(h, position, f[n])
          <5>1. position \in Nat /\ g[1].pos + g[1].length <= position
            BY <3>2
          <5>2. \A pt \in Elements(h) :
                    pt.pos + pt.length > position => pt # g[1] /\ pt \in Elements(g)
            <6>1. g[1] \in Points
              BY <3>2, <4>2, EmptySeq, ElementOfSeq DEF Remains
            <6> QED
              BY <4>2, <5>1, <6>1 DEF Remains, Points
          <5> QED
            BY <4>2, <4>3, <5>2 DEF Remains
        <4>5. ~Settled(position, g)
          <5>1. g[1].pos + g[1].length \in Nat
            <6>1. g[1] \in Points
              BY <3>2, <4>2, EmptySeq, ElementOfSeq DEF Remains
            <6> QED
              BY <6>1 DEF Points
          <5> QED
            BY <3>2, <5>1 DEF Settled
        <4>6. Len(f[n]) <= Len(h) - n
          <5>1. Len(g) <= Len(h) - (n - 1)
            BY <3>1, <4>5 DEF g
          <5>2. Len(g) \in Nat
            BY <4>2, LenProperties DEF Remains
          <5> QED
            BY <1>1, <2>3, <4>3, <5>1, <5>2
        <4> QED
          BY <2>3, <4>4, <4>6
      <3>3. CASE ~(g # <<>> /\ g[1].pos + g[1].length <= position)
        <4>1. f[n] = g
          BY <2>3, <2>5, <3>3 DEF AfterAt
        <4>2. Remains(h, position, g)
          BY <3>1
        <4>3. Settled(position, g)
          <5>1. CASE g = <<>>
            BY <5>1 DEF Settled
          <5>2. CASE g # <<>>
            <6>1. g[1] \in Points
              BY <5>2, <4>2, EmptySeq, ElementOfSeq DEF Remains
            <6> QED
              BY <3>3, <5>2, <6>1 DEF Settled, Points
          <5> QED
            BY <5>1, <5>2
        <4> QED
          BY <2>3, <4>1, <4>2, <4>3
      <3> QED
        BY <3>2, <3>3
    <2> QED
      BY <2>4, <2>5
  <1>4. Right(Len(h))
    BY <1>1, <1>3
  <1>5. Len(f[Len(h)]) <= 0 => f[Len(h)] = <<>>
    <2>1. f[Len(h)] \in Seq(Points)
      BY <1>4 DEF Remains
    <2> QED
      BY <2>1, EmptySeq
  <1> QED
    BY <1>1, <1>2, <1>4, <1>5 DEF Settled

(* The root of a heap is the lowest.                                       *)
LEMMA RootIsLowest ==
    ASSUME NEW h \in Seq(Points), Ordered(h, Len(h))
    PROVE  \A pt \in Elements(h) : h # <<>> /\ h[1].pos <= pt.pos
  <1>1. Len(h) \in Nat /\ \A j \in 1..Len(h) : h[j].pos \in Nat
    <2>1. Len(h) \in Nat /\ \A j \in 1..Len(h) : h[j] \in Points
      BY LenProperties, ElementOfSeq
    <2> QED
      BY <2>1 DEF Points
  <1> DEFINE Wrong == {j \in 1..Len(h) : ~(h[1].pos <= h[j].pos)}
  <1>2. Wrong = {}
    <2>1. SUFFICES ASSUME Wrong # {} PROVE FALSE
      OBVIOUS
    <2>2. PICK j \in Wrong : \A k \in Wrong : j <= k
      <3>1. Wrong \subseteq Nat
        BY <1>1
      <3> HIDE DEF Wrong
      <3> QED
        BY <2>1, <3>1, LeastOf
    <2>3. j \in 1..Len(h) /\ ~(h[1].pos <= h[j].pos) /\ j > 1
      BY <1>1
    <2>4. j \div 2 \in 1..Len(h) /\ j \div 2 < j /\ j \in 2..Len(h)
      BY <1>1, <2>3, ParentIsBelow
    <2>5. h[1].pos <= h[j \div 2].pos
      <3>1. ~(j <= j \div 2)
        BY <1>1, <2>3, <2>4
      <3>2. j \div 2 \notin Wrong
        <4> HIDE DEF Wrong
        <4> QED
          BY <2>2, <3>1
      <3> QED
        BY <2>4, <3>2
    <2>6. h[j \div 2].pos <= h[j].pos
      BY <2>4 DEF Ordered
    <2>7. 1 \in 1..Len(h)
      BY <1>1, <2>3
    <2> QED
      BY <1>1, <2>3, <2>4, <2>5, <2>6, <2>7
  <1>3. h = <<>> => Len(h) = 0
    BY EmptySeq
  <1> QED
    BY <1>1, <1>2, <1>3 DEF Elements

-----------------------------------------------------------------------------
(* The invariant.                                                          *)

TypeOK ==
    /\ stage \in {"options", "read", "decode", "done"}
    /\ input \in Input
    /\ given \subseteq Points
    /\ synx \in Seq(Points)
    /\ capacity = SYNC_INITIAL_CHUNK
    /\ nextsync \in Nat /\ synclen \in Nat /\ offset \in Nat
    /\ dataread \in Nat /\ fileoffs \in Nat /\ lenread \in Nat
    /\ eof \in BOOLEAN /\ feof \in BOOLEAN
    /\ q \in Nat /\ have \in Nat
    /\ shown \in Seq([offset : Nat, place : Nat, len : Nat])

(* The heap is one, and its regions were given.                            *)
HeapIsRight ==
    /\ Ordered(synx, Len(synx))
    /\ \A pt \in Elements(synx) : pt.length > 0 => pt \in given
    /\ synclen > 0 => \E pt \in given : pt.length = synclen

(* After a region of -k, or without the header, the loop comes to its end. *)
Ended == have = 0 /\ lenread = 0 /\ (eof \/ feof) /\ stage # "read"

(* Before the loop; in it, the window is the right part of the file and    *)
(* ends where the next point is; and after it.                             *)
WindowIsRight ==
    /\ stage = "options" =>
          /\ q = 0 /\ have = 0 /\ fileoffs = 0 /\ dataread = 0 /\ lenread = 0
          /\ ~eof /\ ~feof /\ offset = input.origin
          /\ shown = <<>>
    /\ q + have <= 2 * INSN_MAX
    /\ have > 0 => fileoffs <= FileLen
    /\ offset >= input.origin
    /\ SyncPending => nextsync >= offset + have \/ nextsync < offset
    /\ stage # "options" =>
          \/ Ended
          \/ /\ offset - input.origin = fileoffs - have - input.header
             /\ dataread <= DataMax
    /\ stage = "done" =>
          have = 0 /\ lenread = 0 /\ (dataread >= DataMax \/ eof \/ feof)

(* What has been shown goes on without a gap, up to the window.            *)
ShownIsRight ==
    /\ \A i \in DOMAIN shown :
          /\ shown[i].offset - input.origin = shown[i].place - input.header
          /\ shown[i].place + shown[i].len <= FileLen
    /\ \A i \in 1..Len(shown) - 1 :
          shown[i + 1].offset = shown[i].offset + shown[i].len
    /\ shown # <<>> =>
          Ended \/ shown[Len(shown)].offset + shown[Len(shown)].len = offset

NoRegions == \A pt \in given : pt.length = 0

(* Without regions, all of the file before the window has been shown.      *)
AllIsShown ==
    NoRegions /\ stage # "options" =>
        /\ dataread = fileoffs - input.header \/ FileLen < input.header
        /\ eof \/ feof => FileLen <= fileoffs
        /\ \A f \in input.header..fileoffs - have - 1 : \E i \in DOMAIN shown :
              f \in shown[i].place..shown[i].place + shown[i].len - 1

FileInv == TypeOK /\ HeapIsRight /\ WindowIsRight /\ ShownIsRight /\ AllIsShown

(* What SyncPointsHit needs: no more options than the first block of the   *)
(* heap takes (what add_sync does when it is full is another matter), and  *)
(* no region that has begun before the origin and ends after it.           *)
PointsFit ==
    /\ input.most <= SYNC_INITIAL_CHUNK
    /\ \A pt \in given : pt.pos >= input.origin
                            \/ pt.pos + pt.length <= input.origin

(* The points still to come are in the heap, and the next one is first.    *)
PointsAreAhead ==
    PointsFit =>
        /\ stage = "options" => given \subseteq Elements(synx)
        /\ stage # "options" /\ ~Ended =>
              /\ \A pt \in given : pt.pos > offset =>
                    pt \in Elements(synx) /\ SyncPending /\ nextsync <= pt.pos
              /\ \A pt \in Elements(synx) : pt.length > 0 =>
                    SyncPending /\ nextsync <= pt.pos
              /\ SyncPending => nextsync >= offset + have

PointsInv == FileInv /\ PointsAreAhead /\ (PointsFit => SyncPointsHit)

-----------------------------------------------------------------------------
(* What the steps need to know of the input, and of the calls they make.   *)

LEMMA InputIs ==
    ASSUME input \in Input
    PROVE  /\ FileLen \in Nat /\ DataMax \in Nat
           /\ input.header \in Nat /\ input.origin \in Nat
           /\ input.options \subseteq Points
           /\ \A j \in 1..FileLen : /\ input.code[j].len \in Nat
                                    /\ input.code[j].jump \in Nat
  <1>1. /\ input.code \in Seq([len : 0..INSN_MAX, jump : Nat])
        /\ input.datamax \in Nat /\ input.header \in Nat /\ input.origin \in Nat
        /\ input.options \in SUBSET [pos : Nat, length : Nat]
    BY DEF Input
  <1>2. Len(input.code) \in Nat
    BY <1>1, LenProperties
  <1>3. \A j \in 1..Len(input.code) : input.code[j] \in [len : 0..INSN_MAX, jump : Nat]
    BY <1>1, ElementOfSeq
  <1>4. \A k \in 0..INSN_MAX : k \in Nat
    BY NdisasmAssumption
  <1> QED
    BY <1>1, <1>2, <1>3, <1>4 DEF FileLen, DataMax, Points

LEMMA SkippedIs ==
    ASSUME input \in Input, NEW from \in Nat, NEW dist \in Nat
    PROVE  /\ Skipped(from, dist) \in Nat
           /\ from <= Skipped(from, dist)
           /\ ~SkipSucceeds(from, dist) =>
                 /\ ~input.seekable /\ FileLen <= Skipped(from, dist)
                 /\ from <= FileLen => /\ Skipped(from, dist) = FileLen
                                       /\ FileLen < from + dist
  <1>1. FileLen \in Nat
    BY InputIs
  <1>2. CASE input.seekable \/ dist = 0
    BY <1>2 DEF Skipped, SkipSucceeds
  <1>3. CASE ~(input.seekable \/ dist = 0) /\ from > FileLen
    BY <1>1, <1>3 DEF Skipped, SkipSucceeds
  <1>4. CASE ~(input.seekable \/ dist = 0) /\ ~(from > FileLen)
    BY <1>1, <1>4 DEF Skipped, SkipSucceeds, Least
  <1> QED
    BY <1>2, <1>3, <1>4

(* add_sync: unless the block is full, the point is in the heap.           *)
LEMMA PointIsAdded ==
    ASSUME TypeOK, HeapIsRight, NEW pt \in Points, add_sync(pt)
    PROVE  /\ synx' \in Seq(Points) /\ capacity' = capacity
           /\ Ordered(synx', Len(synx'))
           /\ Elements(synx) \subseteq Elements(synx')
           /\ Elements(synx') \subseteq Elements(synx) \cup {pt}
           /\ Len(synx) < SYNC_INITIAL_CHUNK => pt \in Elements(synx')
  <1>1. CASE Len(synx) >= capacity /\ synx' = synx
    <2>1. Len(synx) \in Nat /\ SYNC_INITIAL_CHUNK \in Nat
      BY NdisasmAssumption, LenProperties DEF TypeOK
    <2> QED
      BY <1>1, <2>1 DEF TypeOK, HeapIsRight, add_sync
  <1>2. CASE synx' = MovedUp(Append(synx, pt), pt)
    <2>1. /\ synx' \in Seq(Points) /\ Len(synx') = Len(synx) + 1
          /\ Ordered(synx', Len(synx) + 1)
          /\ Elements(synx') = Elements(synx) \cup {pt}
      BY <1>2, HeapGrows DEF TypeOK, HeapIsRight
    <2> QED
      BY <2>1 DEF add_sync
  <1> QED
    BY <1>1, <1>2 DEF add_sync

(* next_sync: the points that end by then are gone, the next one is first. *)
LEMMA NextSyncIs ==
    ASSUME TypeOK, HeapIsRight, NEW position \in Nat, next_sync(synx, position)
    PROVE  /\ synx' \in Seq(Points) /\ Ordered(synx', Len(synx'))
           /\ Elements(synx') \subseteq Elements(synx)
           /\ \A pt \in Elements(synx) :
                 pt.pos + pt.length > position => pt \in Elements(synx')
           /\ nextsync' \in Nat /\ synclen' \in Nat
           /\ \A pt \in Elements(synx') :
                 (nextsync' # 0 \/ synclen' # 0) /\ nextsync' <= pt.pos
           /\ nextsync' # 0 \/ synclen' # 0 =>
                 \E pt \in Elements(synx') :
                     /\ nextsync' = pt.pos /\ synclen' = pt.length
                     /\ pt.pos + pt.length > position
  <1>1. /\ Remains(synx, position, synx') /\ Settled(position, synx')
    BY NextSyncSettles DEF next_sync, TypeOK, HeapIsRight
  <1>2. synx' \in Seq(Points) /\ Ordered(synx', Len(synx'))
    BY <1>1 DEF Remains
  <1>3. CASE synx' = <<>>
    <2>1. nextsync' = 0 /\ synclen' = 0
      BY <1>3 DEF next_sync
    <2>2. Elements(synx') = {}
      BY <1>3, EmptySeq DEF Elements
    <2> QED
      BY <1>1, <1>2, <2>1, <2>2 DEF Remains
  <1>4. CASE synx' # <<>>
    <2>1. nextsync' = synx'[1].pos /\ synclen' = synx'[1].length
      BY <1>4 DEF next_sync
    <2>2. 1 \in 1..Len(synx')
      BY <1>2, <1>4, EmptySeq
    <2>3. synx'[1] \in Points /\ synx'[1] \in Elements(synx')
      BY <1>2, <2>2, ElementOfSeq DEF Elements
    <2>4. synx'[1].pos \in Nat /\ synx'[1].length \in Nat
      BY <2>3 DEF Points
    <2>5. synx'[1].pos + synx'[1].length > position
      BY <1>1, <1>4 DEF Settled
    <2>6. nextsync' # 0 \/ synclen' # 0
      BY <2>1, <2>4, <2>5
    <2>7. \A pt \in Elements(synx') : synx'[1].pos <= pt.pos
      BY <1>2, RootIsLowest
    <2> QED
      BY <1>1, <1>2, <2>1, <2>3, <2>4, <2>5, <2>6, <2>7 DEF Remains
  <1> QED
    BY <1>3, <1>4

-----------------------------------------------------------------------------
(* The outcomes of a Read, with what its arithmetic comes to.              *)

ReadsOn(n) ==
    /\ stage' = "decode" /\ lenread' = n
    /\ q' = q /\ have' = have + n /\ q + have + n <= 2 * INSN_MAX
    /\ dataread' = dataread + n /\ dataread + n <= DataMax
    /\ fileoffs' = fileoffs + n /\ (n > 0 => fileoffs + n <= FileLen)
    /\ eof' \in BOOLEAN /\ feof' \in BOOLEAN
    /\ eof' \/ feof' => eof \/ feof \/ FileLen <= fileoffs + n
    /\ SyncPending => nextsync >= offset + have + n \/ nextsync < offset
    /\ UNCHANGED <<offset, nextsync, synclen, synx>>

ReachesPoint ==
    /\ have = 0 /\ SyncPending /\ nextsync = offset /\ synclen = 0
    /\ stage' = "decode" /\ lenread' = 0
    /\ q' = 0 /\ have' = 0 /\ next_sync(synx, offset)
    /\ eof' = eof /\ feof' = feof
    /\ UNCHANGED <<offset, dataread, fileoffs>>

SkipsRegion ==
    /\ have = 0 /\ SyncPending /\ nextsync = offset /\ synclen > 0
    /\ stage' = "decode" /\ lenread' = 0
    /\ q' = 0 /\ have' = 0 /\ next_sync(synx, offset + synclen)
    /\ offset' = offset + synclen /\ dataread' \in Nat /\ fileoffs' \in Nat
    /\ eof' \in BOOLEAN /\ feof' \in BOOLEAN /\ (eof' \/ feof')

LEMMA ReadIs ==
    ASSUME TypeOK, WindowIsRight, Read
    PROVE  (\E n \in Nat : ReadsOn(n)) \/ ReachesPoint \/ SkipsRegion
  <1> DEFINE to_read == Least(Least(2 * INSN_MAX - q - have, ToSync),
                              DataMax - dataread)
             n == IF fileoffs > FileLen THEN 0
                  ELSE Least(to_read, FileLen - fileoffs)
  <1>1. /\ stage = "read" /\ lenread' = n /\ stage' = "decode"
    BY DEF Read
  <1>2. /\ FileLen \in Nat /\ DataMax \in Nat /\ INSN_MAX \in Nat
        /\ q \in Nat /\ have \in Nat /\ dataread \in Nat /\ fileoffs \in Nat
        /\ offset \in Nat /\ nextsync \in Nat /\ synclen \in Nat
        /\ eof \in BOOLEAN /\ feof \in BOOLEAN
    BY InputIs, NdisasmAssumption DEF TypeOK
  <1>3. q + have <= 2 * INSN_MAX /\ dataread <= DataMax
    BY <1>1 DEF WindowIsRight, Ended
  <1>4. /\ ToSync \in Nat
        /\ SyncPending /\ nextsync >= offset =>
              ToSync = nextsync - offset - have /\ nextsync >= offset + have
    BY <1>2 DEF ToSync, WindowIsRight
  <1>5. /\ to_read \in Nat /\ to_read <= ToSync
        /\ to_read <= 2 * INSN_MAX - q - have /\ to_read <= DataMax - dataread
    BY <1>2, <1>3, <1>4 DEF Least
  <1> HIDE DEF to_read
  <1>6. /\ n \in Nat /\ n <= to_read
        /\ n > 0 => fileoffs + n <= FileLen
        /\ n < to_read => FileLen <= fileoffs + n
    BY <1>2, <1>5 DEF Least
  <1>7. CASE SyncPending /\ offset = nextsync
    <2>1. have = 0 /\ to_read = 0 /\ n = 0
      BY <1>2, <1>4, <1>5, <1>6, <1>7
    <2> HIDE DEF n
    <2>2. /\ offset' = offset + synclen
          /\ dataread' = dataread + n + synclen
          /\ fileoffs' = Skipped(fileoffs + n, synclen)
          /\ eof' = (eof \/ (to_read > 0 /\ n = 0)
                         \/ (synclen > 0 /\ SkipSucceeds(fileoffs + n, synclen)))
          /\ feof' = /\ synclen = 0 \/ ~input.seekable
                     /\ feof \/ n < to_read
                             \/ ~SkipSucceeds(fileoffs + n, synclen)
          /\ q' = 0 /\ have' = 0
          /\ next_sync(synx, offset + synclen)
      BY <1>7 DEF Read, n, to_read
    <2>3. fileoffs + n = fileoffs
      BY <1>2, <2>1
    <2>4. CASE synclen = 0
      <3>1. offset + synclen = offset /\ dataread + n + synclen = dataread
        BY <1>2, <2>1, <2>4
      <3>2. Skipped(fileoffs, synclen) = fileoffs /\ SkipSucceeds(fileoffs, synclen)
        BY <1>2, <2>4 DEF Skipped, SkipSucceeds
      <3>3. eof' = eof /\ feof' = feof
        <4>1. ~(to_read > 0) /\ ~(n < to_read) /\ ~(synclen > 0)
          BY <2>1, <2>4
        <4>2. eof' = (eof \/ FALSE \/ FALSE)
          BY <2>2, <4>1, Zenon
        <4>3. feof' = (feof \/ FALSE \/ FALSE)
          BY <2>2, <2>3, <2>4, <3>2, <4>1, Zenon
        <4> QED
          BY <1>2, <4>2, <4>3
      <3> QED
        BY <1>1, <1>7, <2>1, <2>2, <2>3, <2>4, <3>1, <3>2, <3>3 DEF ReachesPoint
    <2>5. CASE synclen > 0
      <3>1. Skipped(fileoffs, synclen) \in Nat
        BY <1>2, SkippedIs DEF TypeOK
      <3>2. ~SkipSucceeds(fileoffs, synclen) => ~input.seekable
        BY <1>2, SkippedIs DEF TypeOK
      <3>3. eof' \/ feof'
        BY <2>2, <2>3, <2>5, <3>2
      <3>4. eof' \in BOOLEAN /\ feof' \in BOOLEAN
        BY <2>2
      <3>5. dataread' \in Nat
        BY <1>2, <2>1, <2>2
      <3> QED
        BY <1>1, <1>7, <2>1, <2>2, <2>3, <2>5, <3>1, <3>3, <3>4, <3>5 DEF SkipsRegion
    <2> QED
      BY <1>2, <2>4, <2>5
  <1>8. CASE ~(SyncPending /\ offset = nextsync)
    <2> HIDE DEF n
    <2>1. /\ dataread' = dataread + n
          /\ fileoffs' = fileoffs + n
          /\ eof' = (eof \/ (to_read > 0 /\ n = 0))
          /\ feof' = (feof \/ n < to_read)
          /\ have' = have + n
          /\ UNCHANGED <<q, offset, nextsync, synclen, synx>>
      BY <1>8 DEF Read, n, to_read
    <2>2. q + have + n <= 2 * INSN_MAX /\ dataread + n <= DataMax
      BY <1>2, <1>3, <1>5, <1>6
    <2>3. SyncPending => nextsync >= offset + have + n \/ nextsync < offset
      BY <1>2, <1>4, <1>5, <1>6
    <2>4. eof' \/ feof' => eof \/ feof \/ FileLen <= fileoffs + n
      BY <1>2, <1>5, <1>6, <2>1
    <2>5. eof' \in BOOLEAN /\ feof' \in BOOLEAN
      BY <2>1
    <2>6. ReadsOn(n)
      BY <1>1, <1>6, <2>1, <2>2, <2>3, <2>4, <2>5 DEF ReadsOn
    <2> QED
      BY <1>6, <2>6
  <1> QED
    BY <1>7, <1>8

-----------------------------------------------------------------------------
(* An instruction or a byte is shown, from inside the window.              *)
Shows(place, len) ==
    /\ place = fileoffs - have /\ place + len <= FileLen
    /\ place - input.header = offset - input.origin
    /\ shown' = Append(shown, [offset |-> offset, place |-> place, len |-> len])
    /\ q' = q + len /\ have' = have - len /\ offset' = offset + len

LEMMA DisassembleIs ==
    ASSUME TypeOK, HeapIsRight, WindowIsRight, Disassemble
    PROVE  /\ stage = "decode" /\ have > 0 /\ ~Ended /\ dataread <= DataMax
           /\ \E place \in Nat : \E len \in 1..have : Shows(place, len)
           /\ synx' \in Seq(Points) /\ capacity' = capacity
           /\ Ordered(synx', Len(synx'))
           /\ Elements(synx) \subseteq Elements(synx')
           /\ \A pt \in Elements(synx') : pt.length > 0 => pt \in Elements(synx)
           /\ UNCHANGED <<stage, input, given, nextsync, synclen, dataread,
                          fileoffs, eof, feof, lenread>>
  <1> DEFINE place == fileoffs - have
             insn == input.code[place + 1]
             len == ShownLength(insn.len)
  <1>1. stage = "decode" /\ have > 0 /\ have \in Nat /\ fileoffs \in Nat
        /\ offset \in Nat
    BY DEF Disassemble, WindowReady, TypeOK
  <1>2. /\ FileLen \in Nat /\ input.header \in Nat /\ input.origin \in Nat
        /\ \A j \in 1..FileLen : /\ input.code[j].len \in Nat
                                 /\ input.code[j].jump \in Nat
    BY InputIs DEF TypeOK
  <1>3. ~Ended
    BY <1>1 DEF Ended
  <1>4. /\ dataread <= DataMax /\ fileoffs <= FileLen /\ offset >= input.origin
        /\ offset - input.origin = fileoffs - have - input.header
    BY <1>1, <1>3 DEF WindowIsRight
  <1>5. place \in Nat /\ place + 1 \in 1..FileLen
    BY <1>1, <1>2, <1>4
  <1>6. insn.len \in Nat /\ insn.jump \in Nat
    BY <1>2, <1>5
  <1>7. len \in 1..have
    BY <1>1, <1>6 DEF ShownLength
  <1>8. Shows(place, len)
    <2>1. place + len <= FileLen /\ place - input.header = offset - input.origin
      <3> HIDE DEF len
      <3> QED
        BY <1>1, <1>2, <1>4, <1>7
    <2> QED
      BY <2>1 DEF Shows, Disassemble
  <1> DEFINE pt == [pos |-> offset + insn.len + insn.jump, length |-> 0]
  <1>9. pt \in Points
    BY <1>1, <1>6 DEF Points
  <1>10. pt.length = 0
    OBVIOUS
  <1>11. \/ synx' = synx /\ capacity' = capacity
         \/ add_sync(pt)
    BY DEF Disassemble, heapVars
  <1> HIDE DEF pt, len, insn, place
  <1>12. /\ synx' \in Seq(Points) /\ capacity' = capacity
         /\ Ordered(synx', Len(synx'))
         /\ Elements(synx) \subseteq Elements(synx')
         /\ Elements(synx') \subseteq Elements(synx) \cup {pt}
    <2>1. CASE synx' = synx /\ capacity' = capacity
      BY <2>1 DEF TypeOK, HeapIsRight
    <2>2. CASE add_sync(pt)
      BY <1>9, <2>2, PointIsAdded
    <2> QED
      BY <1>11, <2>1, <2>2
  <1>13. UNCHANGED <<stage, input, given, nextsync, synclen, dataread,
                     fileoffs, eof, feof, lenread>>
    BY DEF Disassemble
  <1>14. \A p \in Elements(synx') : p.length > 0 => p \in Elements(synx)
    BY <1>10, <1>12
  <1> QED
    BY <1>1, <1>3, <1>4, <1>5, <1>7, <1>8, <1>12, <1>13, <1>14

-----------------------------------------------------------------------------
(* The types and the heap.                                                 *)

LEMMA StartIs ==
    ASSUME TypeOK, WindowIsRight, Start
    PROVE  /\ stage = "options" /\ next_sync(synx, offset)
           /\ fileoffs' \in Nat
           /\ \/ stage' = "read" /\ feof' = FALSE /\ fileoffs' = input.header
              \/ /\ stage' = "done" /\ feof' = TRUE
                 /\ FileLen < input.header /\ fileoffs' = FileLen
           /\ UNCHANGED <<input, given, capacity, offset, dataread, eof,
                          lenread, q, have, shown>>
  <1>1. /\ FileLen \in Nat /\ input.header \in Nat /\ input \in Input /\ 0 \in Nat
    BY InputIs DEF TypeOK
  <1>2. /\ Skipped(0, input.header) \in Nat
        /\ ~SkipSucceeds(0, input.header) =>
              Skipped(0, input.header) = FileLen /\ FileLen < input.header
    <2>1. 0 <= FileLen /\ 0 + input.header = input.header
      BY <1>1
    <2> DEFINE h == input.header
    <2>2. h \in Nat
      BY <1>1
    <2>3. /\ Skipped(0, h) \in Nat
          /\ ~SkipSucceeds(0, h) =>
                (0 <= FileLen => Skipped(0, h) = FileLen /\ FileLen < 0 + h)
      <3> HIDE DEF h
      <3> QED
        BY <1>1, <2>2, SkippedIs
    <2> QED
      BY <2>1, <2>3
  <1>3. SkipSucceeds(0, input.header) => Skipped(0, input.header) = input.header
    BY <1>1 DEF SkipSucceeds
  <1>4. stage' = IF SkipSucceeds(0, input.header) THEN "read" ELSE "done"
    BY DEF Start
  <1>5. feof' = ~SkipSucceeds(0, input.header)
    BY DEF Start
  <1>6. fileoffs' = Skipped(0, input.header)
    BY DEF Start
  <1>7. /\ stage = "options" /\ next_sync(synx, offset)
        /\ UNCHANGED <<input, given, capacity, offset, dataread, eof,
                       lenread, q, have, shown>>
    BY DEF Start
  <1>8. CASE SkipSucceeds(0, input.header)
    BY <1>2, <1>3, <1>4, <1>5, <1>6, <1>7, <1>8
  <1>9. CASE ~SkipSucceeds(0, input.header)
    BY <1>1, <1>2, <1>4, <1>5, <1>6, <1>7, <1>9
  <1> QED
    BY <1>8, <1>9

LEMMA TypeOKInit ==
    Init => TypeOK
  <1>1. SUFFICES ASSUME Init PROVE TypeOK
    OBVIOUS
  <1>2. input \in Input /\ SYNC_INITIAL_CHUNK \in Nat
    BY <1>1, NdisasmAssumption DEF Init
  <1>3. input.origin \in Nat
    BY <1>2, InputIs
  <1>4. synx \in Seq(Points) /\ shown \in Seq([offset : Nat, place : Nat, len : Nat])
    BY <1>1, EmptySeq DEF Init
  <1> QED
    BY <1>1, <1>2, <1>3, <1>4 DEF Init, TypeOK

LEMMA TypeOKStep ==
    ASSUME TypeOK, HeapIsRight, WindowIsRight, Next
    PROVE  TypeOK'
  <1>1. CASE Option
    <2>1. PICK pt \in input.options : add_sync(pt) /\ given' = given \cup {pt}
      BY <1>1 DEF Option
    <2>2. pt \in Points
      BY <2>1, InputIs DEF TypeOK
    <2>3. synx' \in Seq(Points) /\ capacity' = capacity
      BY <2>1, <2>2, PointIsAdded
    <2> QED
      BY <1>1, <2>1, <2>2, <2>3 DEF Option, TypeOK
  <1>2. CASE Start
    <2>1. synx' \in Seq(Points) /\ nextsync' \in Nat /\ synclen' \in Nat
      BY <1>2, NextSyncIs, StartIs DEF TypeOK
    <2>2. stage' \in {"read", "done"} /\ feof' \in BOOLEAN
      BY <1>2, StartIs
    <2> QED
      BY <1>2, <2>1, <2>2, StartIs DEF TypeOK
  <1>3. CASE Read
    <2>1. UNCHANGED <<input, given, capacity, shown>>
      BY <1>3 DEF Read
    <2>2. ASSUME NEW n \in Nat, ReadsOn(n) PROVE TypeOK'
      <3>1. have + n \in Nat /\ dataread + n \in Nat /\ fileoffs + n \in Nat
        BY DEF TypeOK
      <3> QED
        BY <2>1, <2>2, <3>1 DEF ReadsOn, TypeOK
    <2>3. CASE ReachesPoint
      <3>1. synx' \in Seq(Points) /\ nextsync' \in Nat /\ synclen' \in Nat
        BY <2>3, NextSyncIs DEF ReachesPoint, TypeOK
      <3> QED
        BY <2>1, <2>3, <3>1 DEF ReachesPoint, TypeOK
    <2>4. CASE SkipsRegion
      <3>1. offset + synclen \in Nat
        BY DEF TypeOK
      <3>2. synx' \in Seq(Points) /\ nextsync' \in Nat /\ synclen' \in Nat
        BY <2>4, <3>1, NextSyncIs DEF SkipsRegion
      <3> QED
        BY <2>1, <2>4, <3>1, <3>2 DEF SkipsRegion, TypeOK
    <2> QED
      BY <1>3, <2>2, <2>3, <2>4, ReadIs
  <1>4. CASE Disassemble
    <2>1. PICK place \in Nat : \E len \in 1..have : Shows(place, len)
      BY <1>4, DisassembleIs
    <2>2. PICK len \in 1..have : Shows(place, len)
      BY <2>1
    <2>3. have \in Nat /\ offset \in Nat /\ q \in Nat /\ len \in Nat
      BY DEF TypeOK
    <2>4. q' \in Nat /\ have' \in Nat /\ offset' \in Nat
      BY <2>2, <2>3 DEF Shows
    <2>5. shown' \in Seq([offset : Nat, place : Nat, len : Nat])
      BY <2>1, <2>2, <2>3, AppendProperties DEF Shows, TypeOK
    <2> QED
      BY <1>4, <2>4, <2>5, DisassembleIs DEF TypeOK
  <1>5. CASE Again
    <2>1. q' \in Nat /\ stage' \in {"read", "done"}
      BY <1>5 DEF Again, TypeOK
    <2> QED
      BY <1>5, <2>1 DEF Again, TypeOK, heapVars
  <1> QED
    BY <1>1, <1>2, <1>3, <1>4, <1>5 DEF Next

LEMMA HeapIsRightInit ==
    Init => HeapIsRight
  <1>1. Init => Elements(synx) = {} /\ Len(synx) = 0
    BY EmptySeq DEF Init, Elements
  <1> QED
    BY <1>1 DEF Init, HeapIsRight, Ordered

LEMMA HeapIsRightStep ==
    ASSUME TypeOK, HeapIsRight, WindowIsRight, Next
    PROVE  HeapIsRight'
  <1>0. \A position \in Nat : next_sync(synx, position) /\ given' = given => HeapIsRight'
    <2>1. SUFFICES ASSUME NEW position \in Nat, next_sync(synx, position), given' = given
                   PROVE  HeapIsRight'
      OBVIOUS
    <2>2. synclen' > 0 => \E pt \in given' : pt.length = synclen'
      <3>1. SUFFICES ASSUME synclen' > 0 PROVE \E pt \in given' : pt.length = synclen'
        OBVIOUS
      <3>2. PICK pt \in Elements(synx') : synclen' = pt.length
        BY <2>1, <3>1, NextSyncIs
      <3>3. pt \in given
        BY <2>1, <3>1, <3>2, NextSyncIs DEF HeapIsRight
      <3> QED
        BY <2>1, <3>2, <3>3
    <2> QED
      BY <2>1, <2>2, NextSyncIs DEF HeapIsRight
  <1>1. CASE Option
    <2>1. PICK pt \in input.options : add_sync(pt) /\ given' = given \cup {pt}
      BY <1>1 DEF Option
    <2>2. pt \in Points
      BY <2>1, InputIs DEF TypeOK
    <2>3. /\ Ordered(synx', Len(synx'))
          /\ Elements(synx') \subseteq Elements(synx) \cup {pt}
      BY <2>1, <2>2, PointIsAdded
    <2>4. synclen' = synclen
      BY <1>1 DEF Option
    <2> QED
      BY <2>1, <2>3, <2>4 DEF HeapIsRight
  <1>2. CASE Start
    BY <1>0, <1>2, StartIs DEF TypeOK
  <1>3. CASE Read
    <2>1. given' = given
      BY <1>3 DEF Read
    <2>2. ASSUME NEW n \in Nat, ReadsOn(n) PROVE HeapIsRight'
      BY <2>1, <2>2 DEF ReadsOn, HeapIsRight
    <2>3. CASE ReachesPoint
      BY <1>0, <2>1, <2>3 DEF ReachesPoint, TypeOK
    <2>4. CASE SkipsRegion
      <3>1. offset + synclen \in Nat
        BY DEF TypeOK
      <3> QED
        BY <1>0, <2>1, <2>4, <3>1 DEF SkipsRegion
    <2> QED
      BY <1>3, <2>2, <2>3, <2>4, ReadIs
  <1>4. CASE Disassemble
    BY <1>4, DisassembleIs DEF HeapIsRight
  <1>5. CASE Again
    BY <1>5 DEF Again, HeapIsRight, heapVars
  <1> QED
    BY <1>1, <1>2, <1>3, <1>4, <1>5 DEF Next

-----------------------------------------------------------------------------
(* The window.                                                             *)

LEMMA InputStays ==
    ASSUME TypeOK, HeapIsRight, WindowIsRight, Next
    PROVE  input' = input /\ FileLen' = FileLen /\ DataMax' = DataMax
  <1>1. CASE Option
    BY <1>1 DEF Option, FileLen, DataMax
  <1>2. CASE Start
    BY <1>2 DEF Start, FileLen, DataMax
  <1>3. CASE Read
    BY <1>3 DEF Read, FileLen, DataMax
  <1>4. CASE Disassemble
    BY <1>4 DEF Disassemble, FileLen, DataMax
  <1>5. CASE Again
    BY <1>5 DEF Again, FileLen, DataMax
  <1> QED
    BY <1>1, <1>2, <1>3, <1>4, <1>5 DEF Next

LEMMA WindowIsRightInit ==
    Init => WindowIsRight
  <1>1. SUFFICES ASSUME Init PROVE WindowIsRight
    OBVIOUS
  <1>2. input \in Input /\ INSN_MAX \in Nat
    BY <1>1, NdisasmAssumption DEF Init
  <1>3. input.origin \in Nat
    BY <1>2, InputIs
  <1>4. ~SyncPending
    BY <1>1 DEF Init, SyncPending
  <1>5. q + have <= 2 * INSN_MAX /\ offset >= input.origin
    BY <1>1, <1>2, <1>3 DEF Init
  <1> QED
    BY <1>1, <1>4, <1>5 DEF Init, WindowIsRight

LEMMA WindowIsRightStep ==
    ASSUME TypeOK, HeapIsRight, WindowIsRight, Next
    PROVE  WindowIsRight'
  <1>1. /\ FileLen \in Nat /\ DataMax \in Nat /\ INSN_MAX \in Nat
        /\ input.header \in Nat /\ input.origin \in Nat
        /\ q \in Nat /\ have \in Nat /\ dataread \in Nat /\ fileoffs \in Nat
        /\ offset \in Nat /\ nextsync \in Nat /\ synclen \in Nat
    BY InputIs, NdisasmAssumption DEF TypeOK
  <1>2. input' = input /\ FileLen' = FileLen /\ DataMax' = DataMax
    BY InputStays
  <1>3. CASE Option
    <2>1. UNCHANGED <<stage, nextsync, synclen, offset, dataread, fileoffs,
                      eof, feof, lenread, q, have, shown>>
      BY <1>3 DEF Option
    <2>2. SyncPending' = SyncPending /\ Ended' = Ended
      BY <2>1 DEF SyncPending, Ended
    <2> QED
      BY <1>2, <2>1, <2>2 DEF WindowIsRight
  <1>4. CASE Start
    <2>1. /\ stage = "options" /\ offset = input.origin
          /\ q = 0 /\ have = 0 /\ dataread = 0 /\ lenread = 0
      BY <1>4 DEF Start, WindowIsRight
    <2>2. /\ offset' = input.origin
          /\ q' = 0 /\ have' = 0 /\ dataread' = 0 /\ lenread' = 0
      BY <1>4, <2>1, StartIs
    <2>3. q' + have' <= 2 * INSN_MAX /\ offset' >= input.origin /\ dataread' <= DataMax
      BY <1>1, <2>2
    <2>4. nextsync' \in Nat
      BY <1>1, <1>4, StartIs, NextSyncIs
    <2>5. nextsync' >= offset' + have' \/ nextsync' < offset'
      <3>1. \A m \in Nat : m >= input.origin + 0 \/ m < input.origin
        BY <1>1
      <3> QED
        BY <2>2, <2>4, <3>1
    <2>6. CASE stage' = "read" /\ feof' = FALSE /\ fileoffs' = input.header
      <3>1. offset' - input.origin = fileoffs' - have' - input.header
        BY <1>1, <2>2, <2>6
      <3> QED
        BY <1>2, <2>2, <2>3, <2>5, <2>6, <3>1 DEF WindowIsRight
    <2>7. CASE stage' = "done" /\ feof' = TRUE
      <3>1. Ended'
        BY <2>2, <2>7 DEF Ended
      <3> QED
        BY <1>2, <2>2, <2>3, <2>5, <2>7, <3>1 DEF WindowIsRight
    <2> QED
      BY <1>4, <2>6, <2>7, StartIs
  <1>5. CASE Read
    <2>1. stage = "read" /\ ~Ended
      BY <1>5 DEF Read, Ended
    <2>2. /\ offset - input.origin = fileoffs - have - input.header
          /\ dataread <= DataMax /\ q + have <= 2 * INSN_MAX
          /\ offset >= input.origin /\ (have > 0 => fileoffs <= FileLen)
      BY <2>1 DEF WindowIsRight
    <2>3. ASSUME NEW n \in Nat, ReadsOn(n) PROVE WindowIsRight'
      <3>1. /\ stage' = "decode" /\ q' = q /\ have' = have + n /\ offset' = offset
            /\ dataread' = dataread + n /\ fileoffs' = fileoffs + n
            /\ nextsync' = nextsync /\ SyncPending' = SyncPending
        BY <2>3 DEF ReadsOn, SyncPending
      <3>2. /\ q + (have + n) <= 2 * INSN_MAX /\ dataread + n <= DataMax
            /\ have + n > 0 => fileoffs + n <= FileLen
            /\ offset - input.origin = (fileoffs + n) - (have + n) - input.header
            /\ SyncPending => nextsync >= offset + (have + n) \/ nextsync < offset
        BY <1>1, <2>2, <2>3 DEF ReadsOn
      <3> QED
        BY <1>2, <2>2, <3>1, <3>2 DEF WindowIsRight
    <2>4. CASE ReachesPoint
      <3>1. /\ have = 0 /\ stage' = "decode" /\ q' = 0 /\ have' = 0 /\ offset' = offset
            /\ dataread' = dataread /\ fileoffs' = fileoffs
        BY <2>4 DEF ReachesPoint
      <3>2. nextsync' \in Nat
        BY <1>1, <2>4, NextSyncIs DEF ReachesPoint
      <3>3. \A m \in Nat : m >= offset + 0 \/ m < offset
        BY <1>1
      <3>4. 0 + 0 <= 2 * INSN_MAX
        BY <1>1
      <3> QED
        BY <1>2, <2>2, <3>1, <3>2, <3>3, <3>4 DEF WindowIsRight
    <2>5. CASE SkipsRegion
      <3>1. /\ stage' = "decode" /\ q' = 0 /\ have' = 0 /\ offset' = offset + synclen
            /\ lenread' = 0 /\ (eof' \/ feof')
        BY <2>5 DEF SkipsRegion
      <3>2. offset + synclen \in Nat /\ offset + synclen >= input.origin
        BY <1>1, <2>2
      <3>3. nextsync' \in Nat
        BY <2>5, <3>2, NextSyncIs DEF SkipsRegion
      <3>4. \A m \in Nat : m >= offset + synclen + 0 \/ m < offset + synclen
        BY <1>1
      <3>5. 0 + 0 <= 2 * INSN_MAX
        BY <1>1
      <3>6. Ended'
        BY <3>1 DEF Ended
      <3> QED
        BY <1>2, <3>1, <3>2, <3>3, <3>4, <3>5, <3>6 DEF WindowIsRight
    <2> QED
      BY <1>5, <2>3, <2>4, <2>5, ReadIs
  <1>6. CASE Disassemble
    <2>1. PICK place \in Nat : \E len \in 1..have : Shows(place, len)
      BY <1>6, DisassembleIs
    <2>2. PICK len \in 1..have : Shows(place, len)
      BY <2>1
    <2>3. /\ stage = "decode" /\ have > 0 /\ ~Ended /\ dataread <= DataMax
          /\ UNCHANGED <<stage, input, nextsync, synclen, dataread, fileoffs>>
      BY <1>6, DisassembleIs
    <2>4. /\ q' = q + len /\ have' = have - len /\ offset' = offset + len
          /\ SyncPending' = SyncPending /\ stage' = "decode"
      BY <2>2, <2>3 DEF Shows, SyncPending
    <2>5. /\ offset - input.origin = fileoffs - have - input.header
          /\ q + have <= 2 * INSN_MAX /\ fileoffs <= FileLen
          /\ offset >= input.origin
          /\ SyncPending => nextsync >= offset + have \/ nextsync < offset
      BY <2>3 DEF WindowIsRight
    <2>6. /\ (q + len) + (have - len) <= 2 * INSN_MAX
          /\ offset + len >= input.origin
          /\ (offset + len) - input.origin = fileoffs - (have - len) - input.header
          /\ SyncPending => nextsync >= (offset + len) + (have - len)
                               \/ nextsync < offset + len
      BY <1>1, <2>5
    <2> QED
      BY <1>2, <2>3, <2>4, <2>5, <2>6 DEF WindowIsRight
  <1>7. CASE Again
    <2>1. /\ stage = "decode" /\ ~WindowReady
          /\ q' = IF q >= INSN_MAX THEN 0 ELSE q
          /\ stage' = IF lenread > 0 \/ (dataread < DataMax /\ ~eof /\ ~feof)
                      THEN "read" ELSE "done"
          /\ UNCHANGED <<nextsync, synclen, offset, dataread, fileoffs, eof,
                         feof, lenread, have>>
      BY <1>7 DEF Again
    <2>2. SyncPending' = SyncPending
      BY <2>1 DEF SyncPending
    <2>3. q' \in Nat /\ q' + have <= 2 * INSN_MAX
      BY <1>1, <2>1 DEF WindowIsRight
    <2>4. lenread \in Nat
      BY DEF TypeOK
    <2>5. CASE lenread > 0 \/ (dataread < DataMax /\ ~eof /\ ~feof)
      <3>1. ~Ended /\ stage' = "read"
        BY <2>1, <2>4, <2>5 DEF Ended
      <3> QED
        BY <1>2, <2>1, <2>2, <2>3, <3>1 DEF WindowIsRight
    <2>6. CASE ~(lenread > 0 \/ (dataread < DataMax /\ ~eof /\ ~feof))
      <3>1. stage' = "done" /\ lenread = 0 /\ (dataread >= DataMax \/ eof \/ feof)
        BY <1>1, <2>1, <2>4, <2>6
      <3>2. have = 0
        BY <1>1, <2>1, <3>1 DEF WindowReady
      <3>3. Ended => Ended'
        BY <2>1, <3>1 DEF Ended
      <3> QED
        BY <1>2, <2>1, <2>2, <2>3, <3>1, <3>2, <3>3 DEF WindowIsRight
    <2> QED
      BY <2>5, <2>6
  <1> QED
    BY <1>3, <1>4, <1>5, <1>6, <1>7 DEF Next

-----------------------------------------------------------------------------
(* What is shown.                                                          *)

LEMMA ShownIsRightInit ==
    Init => ShownIsRight
  <1>1. Init => Len(shown) = 0 /\ DOMAIN shown = {}
    BY EmptySeq DEF Init
  <1> QED
    BY <1>1 DEF Init, ShownIsRight

LEMMA ShownIsRightStep ==
    ASSUME TypeOK, HeapIsRight, WindowIsRight, ShownIsRight, Next
    PROVE  ShownIsRight'
  <1>1. /\ FileLen \in Nat /\ input.header \in Nat /\ input.origin \in Nat
        /\ have \in Nat /\ fileoffs \in Nat /\ offset \in Nat
        /\ Len(shown) \in Nat /\ DOMAIN shown = 1..Len(shown)
    BY InputIs, LenProperties DEF TypeOK
  <1>2. input' = input /\ FileLen' = FileLen
    BY InputStays
  <1>3. \/ /\ shown' = shown /\ offset' = offset /\ (Ended => Ended')
        \/ /\ shown' = shown /\ Ended'
        \/ shown' = shown /\ shown = <<>>
        => ShownIsRight'
    BY <1>2 DEF ShownIsRight
  <1>4. CASE Option
    BY <1>3, <1>4 DEF Option, WindowIsRight
  <1>5. CASE Start
    BY <1>3, <1>5 DEF Start, WindowIsRight
  <1>6. CASE Read
    <2>1. stage = "read" /\ ~Ended /\ shown' = shown
      BY <1>6 DEF Read, Ended
    <2>2. ASSUME NEW n \in Nat, ReadsOn(n) PROVE ShownIsRight'
      BY <1>3, <2>1, <2>2 DEF ReadsOn
    <2>3. CASE ReachesPoint
      BY <1>3, <2>1, <2>3 DEF ReachesPoint
    <2>4. CASE SkipsRegion
      <3>1. Ended'
        BY <2>4 DEF SkipsRegion, Ended
      <3> QED
        BY <1>3, <2>1, <3>1
    <2> QED
      BY <1>6, <2>2, <2>3, <2>4, ReadIs
  <1>7. CASE Disassemble
    <2>1. PICK place \in Nat : \E len \in 1..have : Shows(place, len)
      BY <1>7, DisassembleIs
    <2>2. PICK len \in 1..have : Shows(place, len)
      BY <2>1
    <2>3. ~Ended
      BY <1>7, DisassembleIs
    <2> DEFINE e == [offset |-> offset, place |-> place, len |-> len]
    <2>4. /\ shown' = Append(shown, e) /\ offset' = offset + len
          /\ place - input.header = offset - input.origin /\ place + len <= FileLen
      BY <2>2 DEF Shows
    <2>5. e.offset = offset /\ e.place = place /\ e.len = len
      OBVIOUS
    <2>6. e \in [offset : Nat, place : Nat, len : Nat]
      BY <1>1
    <2> HIDE DEF e
    <2>7. /\ Len(shown') = Len(shown) + 1 /\ DOMAIN shown' = 1..Len(shown) + 1
          /\ \A i \in 1..Len(shown) : shown'[i] = shown[i]
          /\ shown'[Len(shown) + 1] = e
      BY <2>4, <2>6, AppendProperties, LenProperties DEF TypeOK
    <2>8. \A i \in DOMAIN shown' :
              /\ shown'[i].offset - input.origin = shown'[i].place - input.header
              /\ shown'[i].place + shown'[i].len <= FileLen
      <3>1. SUFFICES ASSUME NEW i \in 1..Len(shown) + 1
                     PROVE
              /\ shown'[i].offset - input.origin = shown'[i].place - input.header
              /\ shown'[i].place + shown'[i].len <= FileLen
        BY <2>7
      <3>2. CASE i \in 1..Len(shown)
        BY <1>1, <2>7, <3>2 DEF ShownIsRight
      <3>3. CASE i = Len(shown) + 1
        BY <2>4, <2>5, <2>7, <3>3
      <3> QED
        BY <1>1, <3>2, <3>3
    <2>9. \A i \in 1..Len(shown) :
              shown'[i + 1].offset = shown'[i].offset + shown'[i].len
      <3>1. SUFFICES ASSUME NEW i \in 1..Len(shown)
                     PROVE  shown'[i + 1].offset = shown'[i].offset + shown'[i].len
        OBVIOUS
      <3>2. CASE i \in 1..Len(shown) - 1
        <4>1. i + 1 \in 1..Len(shown)
          BY <1>1, <3>2
        <4> QED
          BY <2>7, <3>2, <4>1 DEF ShownIsRight
      <3>3. CASE i = Len(shown)
        <4>1. shown # <<>>
          BY <1>1, <3>3, EmptySeq
        <4>2. shown[Len(shown)].offset + shown[Len(shown)].len = offset
          BY <2>3, <4>1 DEF ShownIsRight
        <4> QED
          BY <2>5, <2>7, <3>3, <4>2
      <3> QED
        BY <1>1, <3>2, <3>3
    <2>10. Len(shown') - 1 = Len(shown)
      BY <1>1, <2>7
    <2>11. shown'[Len(shown')].offset + shown'[Len(shown')].len = offset'
      BY <2>4, <2>5, <2>7
    <2> QED
      BY <1>2, <2>8, <2>9, <2>10, <2>11 DEF ShownIsRight
  <1>8. CASE Again
    <2>1. Ended => Ended'
      BY <1>8 DEF Again, Ended
    <2> QED
      BY <1>3, <1>8, <2>1 DEF Again
  <1> QED
    BY <1>4, <1>5, <1>6, <1>7, <1>8 DEF Next

LEMMA AllIsShownInit ==
    Init => AllIsShown
  BY DEF Init, AllIsShown

LEMMA AllIsShownStep ==
    ASSUME TypeOK, HeapIsRight, WindowIsRight, AllIsShown, Next
    PROVE  AllIsShown'
  <1> SUFFICES ASSUME NoRegions', stage' # "options"
               PROVE  /\ dataread' = fileoffs' - input.header \/ FileLen < input.header
                      /\ eof' \/ feof' => FileLen <= fileoffs'
                      /\ \A f \in input.header..fileoffs' - have' - 1 :
                            \E i \in DOMAIN shown' :
                              f \in shown'[i].place..shown'[i].place + shown'[i].len - 1
    BY InputStays DEF AllIsShown
  <1>1. /\ FileLen \in Nat /\ input.header \in Nat /\ input.origin \in Nat
        /\ have \in Nat /\ fileoffs \in Nat /\ offset \in Nat /\ dataread \in Nat
        /\ Len(shown) \in Nat /\ DOMAIN shown = 1..Len(shown)
    BY InputIs, LenProperties DEF TypeOK
  <1> DEFINE Covered(m, s) == \A f \in input.header..m - 1 : \E i \in DOMAIN s :
                                  f \in s[i].place..s[i].place + s[i].len - 1
  <1>3. CASE Option
    BY <1>3 DEF Option
  <1>4. CASE Start
    <2>1. stage = "options" /\ dataread = 0 /\ have = 0 /\ ~eof
      BY <1>4 DEF Start, WindowIsRight
    <2>2. /\ dataread' = 0 /\ have' = 0 /\ eof' = eof
          /\ \/ feof' = FALSE /\ fileoffs' = input.header
             \/ feof' = TRUE /\ FileLen < input.header /\ fileoffs' = FileLen
      BY <1>4, <2>1, StartIs
    <2> QED
      BY <1>1, <2>1, <2>2
  <1>5. CASE Read
    <2>1. stage = "read" /\ shown' = shown /\ given' = given
      BY <1>5 DEF Read
    <2>2. /\ NoRegions
          /\ dataread = fileoffs - input.header \/ FileLen < input.header
          /\ eof \/ feof => FileLen <= fileoffs
          /\ Covered(fileoffs - have, shown)
      BY <2>1 DEF AllIsShown, NoRegions
    <2> HIDE DEF Covered
    <2>3. ASSUME NEW n \in Nat, ReadsOn(n)
          PROVE  /\ dataread' = fileoffs' - input.header \/ FileLen < input.header
                 /\ eof' \/ feof' => FileLen <= fileoffs'
                 /\ Covered(fileoffs' - have', shown')
      <3>1. /\ dataread' = dataread + n /\ fileoffs' = fileoffs + n /\ have' = have + n
            /\ eof' \/ feof' => eof \/ feof \/ FileLen <= fileoffs + n
        BY <2>3 DEF ReadsOn
      <3>2. (fileoffs + n) - (have + n) = fileoffs - have
        BY <1>1
      <3>3. eof' \/ feof' => FileLen <= fileoffs + n
        BY <1>1, <2>2, <3>1
      <3>4. dataread + n = (fileoffs + n) - input.header \/ FileLen < input.header
        BY <1>1, <2>2
      <3> QED
        BY <2>1, <2>2, <3>1, <3>2, <3>3, <3>4
    <2>4. CASE ReachesPoint
      BY <2>1, <2>2, <2>4 DEF ReachesPoint, Covered
    <2>5. CASE SkipsRegion
      <3>1. PICK pt \in given : pt.length = synclen
        BY <2>5 DEF SkipsRegion, HeapIsRight
      <3> QED
        BY <2>2, <2>5, <3>1 DEF SkipsRegion, NoRegions
    <2> QED
      BY <1>5, <2>3, <2>4, <2>5, ReadIs DEF Covered
  <1>6. CASE Disassemble
    <2>1. PICK place \in Nat : \E len \in 1..have : Shows(place, len)
      BY <1>6, DisassembleIs
    <2>2. PICK len \in 1..have : Shows(place, len)
      BY <2>1
    <2>3. /\ stage = "decode"
          /\ UNCHANGED <<given, dataread, fileoffs, eof, feof>>
      BY <1>6, DisassembleIs
    <2>4. /\ dataread = fileoffs - input.header \/ FileLen < input.header
          /\ eof \/ feof => FileLen <= fileoffs
          /\ Covered(fileoffs - have, shown)
      BY <2>3 DEF AllIsShown, NoRegions
    <2> DEFINE e == [offset |-> offset, place |-> place, len |-> len]
    <2>5. /\ shown' = Append(shown, e) /\ have' = have - len
          /\ place = fileoffs - have
      BY <2>2 DEF Shows
    <2>6. e.place = place /\ e.len = len
      OBVIOUS
    <2>7. e \in [offset : Nat, place : Nat, len : Nat]
      BY <1>1
    <2> HIDE DEF e
    <2>8. /\ DOMAIN shown' = 1..Len(shown) + 1
          /\ \A i \in 1..Len(shown) : shown'[i] = shown[i]
          /\ shown'[Len(shown) + 1] = e
      BY <2>5, <2>7, AppendProperties, LenProperties DEF TypeOK
    <2>9. fileoffs' - have' = place + len
      BY <1>1, <2>3, <2>5
    <2>10. ASSUME NEW f \in input.header..place + len - 1
           PROVE  \E i \in DOMAIN shown' :
                      f \in shown'[i].place..shown'[i].place + shown'[i].len - 1
      <3>1. CASE f < place
        <4>1. f \in input.header..(fileoffs - have) - 1
          BY <1>1, <2>5, <3>1
        <4>2. PICK i \in DOMAIN shown : f \in shown[i].place..shown[i].place + shown[i].len - 1
          BY <2>4, <4>1
        <4>3. i \in DOMAIN shown' /\ shown'[i] = shown[i]
          BY <1>1, <2>8, <4>2
        <4> QED
          BY <4>2, <4>3
      <3>2. CASE f >= place
        <4>1. Len(shown) + 1 \in DOMAIN shown'
          BY <1>1, <2>8
        <4>2. f \in place..place + len - 1
          BY <1>1, <3>2
        <4> QED
          BY <2>6, <2>8, <4>1, <4>2
      <3> QED
        BY <1>1, <3>1, <3>2
    <2> QED
      BY <2>3, <2>4, <2>9, <2>10
  <1>7. CASE Again
    <2>1. stage = "decode" /\ UNCHANGED <<given, dataread, fileoffs, eof, feof, have, shown>>
      BY <1>7 DEF Again
    <2> QED
      BY <2>1 DEF AllIsShown, NoRegions
  <1> QED
    BY <1>3, <1>4, <1>5, <1>6, <1>7 DEF Next

LEMMA FileIsShown ==
    FileInv => ShowsTheFile
  <1> SUFFICES ASSUME FileInv PROVE ShowsTheFile
    OBVIOUS
  <1>1. /\ FileLen \in Nat /\ DataMax \in Nat /\ input.header \in Nat
        /\ have \in Nat /\ fileoffs \in Nat /\ dataread \in Nat
    BY InputIs DEF FileInv, TypeOK
  <1>2. stage = "done" /\ NoRegions =>
          \A f \in input.header..Least(FileLen, input.header + DataMax) - 1 :
              \E i \in DOMAIN shown :
                  f \in shown[i].place..shown[i].place + shown[i].len - 1
    <2> SUFFICES ASSUME stage = "done", NoRegions,
                        NEW f \in input.header..Least(FileLen, input.header + DataMax) - 1
                 PROVE  \E i \in DOMAIN shown :
                          f \in shown[i].place..shown[i].place + shown[i].len - 1
      OBVIOUS
    <2>1. have = 0 /\ (dataread >= DataMax \/ eof \/ feof)
      BY DEF FileInv, WindowIsRight
    <2>2. /\ dataread = fileoffs - input.header \/ FileLen < input.header
          /\ eof \/ feof => FileLen <= fileoffs
      BY DEF FileInv, AllIsShown
    <2>3. f \in Int /\ f >= input.header /\ f < FileLen /\ f < input.header + DataMax
      BY <1>1 DEF Least
    <2>4. f \in input.header..fileoffs - have - 1
      BY <1>1, <2>1, <2>2, <2>3
    <2> QED
      BY <2>4 DEF FileInv, AllIsShown
  <1>3. q + have <= 2 * INSN_MAX
    BY DEF FileInv, WindowIsRight
  <1> QED
    BY <1>2, <1>3 DEF FileInv, ShownIsRight, ShowsTheFile, NoRegions

-----------------------------------------------------------------------------
(* The points still to come.                                               *)

(* What PointsAreAhead says inside the loop.                               *)
Ahead ==
    /\ \A pt \in given : pt.pos > offset =>
          pt \in Elements(synx) /\ SyncPending /\ nextsync <= pt.pos
    /\ \A pt \in Elements(synx) : pt.length > 0 =>
          SyncPending /\ nextsync <= pt.pos
    /\ SyncPending => nextsync >= offset + have

LEMMA PointIs ==
    ASSUME NEW pt \in Points
    PROVE  pt.pos \in Nat /\ pt.length \in Nat
  BY DEF Points

LEMMA ElementsArePoints ==
    ASSUME NEW h \in Seq(Points)
    PROVE  Elements(h) \subseteq Points
  BY ElementOfSeq DEF Elements

(* A call of next_sync at a place where no region has begun.               *)
LEMMA NextIsAhead ==
    ASSUME TypeOK, HeapIsRight, next_sync(synx, offset),
           \A pt \in given : pt.pos > offset => pt \in Elements(synx),
           \A pt \in Elements(synx) :
               pt.length > 0 => pt.pos >= offset \/ pt.pos + pt.length <= offset,
           offset' = offset, have' = 0, given' = given
    PROVE  Ahead'
  <1>1. offset \in Nat /\ given \subseteq Points /\ synx \in Seq(Points)
    BY DEF TypeOK
  <1>2. /\ Elements(synx') \subseteq Elements(synx)
        /\ \A pt \in Elements(synx) :
              pt.pos + pt.length > offset => pt \in Elements(synx')
        /\ nextsync' \in Nat /\ synclen' \in Nat
        /\ \A pt \in Elements(synx') :
              (nextsync' # 0 \/ synclen' # 0) /\ nextsync' <= pt.pos
        /\ nextsync' # 0 \/ synclen' # 0 =>
              \E pt \in Elements(synx') :
                  /\ nextsync' = pt.pos /\ synclen' = pt.length
                  /\ pt.pos + pt.length > offset
    BY <1>1, NextSyncIs
  <1>3. \A pt \in Elements(synx') : SyncPending' /\ nextsync' <= pt.pos
    BY <1>2 DEF SyncPending
  <1>4. ASSUME NEW pt \in given, pt.pos > offset PROVE pt \in Elements(synx')
    <2>1. pt.pos + pt.length > offset
      BY <1>1, <1>4, PointIs
    <2> QED
      BY <1>2, <1>4, <2>1
  <1>5. SyncPending' => nextsync' >= offset + 0
    <2> SUFFICES ASSUME SyncPending' PROVE nextsync' >= offset + 0
      OBVIOUS
    <2>1. PICK pt \in Elements(synx') : /\ nextsync' = pt.pos
                                        /\ pt.pos + pt.length > offset
      BY <1>2 DEF SyncPending
    <2>2. pt \in Elements(synx) /\ pt.pos \in Nat /\ pt.length \in Nat
      BY <1>1, <1>2, ElementsArePoints, PointIs
    <2>3. pt.pos >= offset + 0
      <3>1. CASE pt.length = 0
        BY <1>1, <2>1, <2>2, <3>1
      <3>2. CASE pt.length > 0
        BY <1>1, <2>1, <2>2, <3>2
      <3> QED
        BY <2>2, <3>1, <3>2
    <2> QED
      BY <2>1, <2>3
  <1> QED
    BY <1>3, <1>4, <1>5 DEF Ahead

LEMMA PointsFitStays ==
    ASSUME TypeOK, HeapIsRight, WindowIsRight, Next, PointsFit'
    PROVE  PointsFit
  <1>1. input' = input
    BY InputStays
  <1>2. given \subseteq given'
    BY DEF Next, Option, Start, Read, Disassemble, Again
  <1> QED
    BY <1>1, <1>2 DEF PointsFit

LEMMA PointsAreAheadInit ==
    Init => PointsAreAhead
  BY DEF Init, PointsAreAhead

LEMMA PointsAreAheadStep ==
    ASSUME TypeOK, HeapIsRight, WindowIsRight, PointsAreAhead, Next
    PROVE  PointsAreAhead'
  <1>0. SUFFICES ASSUME PointsFit'
                 PROVE  /\ stage' = "options" => given' \subseteq Elements(synx')
                        /\ stage' # "options" /\ ~Ended' => Ahead'
    BY DEF PointsAreAhead, Ahead
  <1>1. PointsFit
    BY <1>0, PointsFitStays
  <1>2. /\ stage = "options" => given \subseteq Elements(synx)
        /\ stage # "options" /\ ~Ended => Ahead
    BY <1>1 DEF PointsAreAhead, Ahead
  <1>3. /\ input.origin \in Nat /\ input' = input
        /\ have \in Nat /\ offset \in Nat /\ nextsync \in Nat /\ synclen \in Nat
        /\ given \subseteq Points /\ synx \in Seq(Points) /\ Len(synx) \in Nat
    BY InputIs, InputStays, LenProperties DEF TypeOK
  <1>4. CASE Option
    <2>1. PICK pt \in input.options : add_sync(pt) /\ given' = given \cup {pt}
      BY <1>4 DEF Option
    <2>2. pt \in Points
      BY <2>1, InputIs DEF TypeOK
    <2>3. stage = "options" /\ stage' = "options" /\ Len(synx) < input.most
      BY <1>4 DEF Option
    <2>4. Len(synx) < SYNC_INITIAL_CHUNK
      <3>1. input.most \in Nat /\ input.most <= SYNC_INITIAL_CHUNK
        BY <1>1 DEF PointsFit, TypeOK, Input
      <3> QED
        BY <1>3, <2>3, <3>1, NdisasmAssumption
    <2>5. Elements(synx) \subseteq Elements(synx') /\ pt \in Elements(synx')
      BY <2>1, <2>2, <2>4, PointIsAdded
    <2> QED
      BY <1>2, <2>1, <2>3, <2>5
  <1>5. CASE Start
    <2>1. /\ stage = "options" /\ next_sync(synx, offset) /\ offset = input.origin
          /\ have' = 0 /\ offset' = offset /\ given' = given
      BY <1>5, StartIs DEF WindowIsRight
    <2>2. stage' # "options"
      BY <1>5, StartIs
    <2>3. \A pt \in given : pt.pos > offset => pt \in Elements(synx)
      BY <1>2, <2>1
    <2>4. \A pt \in Elements(synx) :
              pt.length > 0 => pt.pos >= offset \/ pt.pos + pt.length <= offset
      BY <1>1, <2>1 DEF HeapIsRight, PointsFit
    <2> QED
      BY <2>1, <2>2, <2>3, <2>4, NextIsAhead
  <1>6. CASE Read
    <2>1. stage = "read" /\ given' = given /\ ~Ended
      BY <1>6 DEF Read, Ended
    <2>2. Ahead
      BY <1>2, <2>1
    <2>3. ASSUME NEW n \in Nat, ReadsOn(n) PROVE stage' = "decode" /\ Ahead'
      <3>1. /\ stage' = "decode" /\ have' = have + n /\ offset' = offset
            /\ nextsync' = nextsync /\ synx' = synx /\ SyncPending' = SyncPending
            /\ SyncPending => nextsync >= offset + have + n \/ nextsync < offset
        BY <2>3 DEF ReadsOn, SyncPending
      <3>2. SyncPending => nextsync >= offset + (have + n)
        BY <1>3, <2>2, <3>1 DEF Ahead
      <3> QED
        BY <2>1, <2>2, <3>1, <3>2 DEF Ahead
    <2>4. CASE ReachesPoint
      <3>1. /\ stage' = "decode" /\ nextsync = offset /\ next_sync(synx, offset)
            /\ offset' = offset /\ have' = 0
        BY <2>4 DEF ReachesPoint
      <3>2. \A pt \in given : pt.pos > offset => pt \in Elements(synx)
        BY <2>2 DEF Ahead
      <3>3. \A pt \in Elements(synx) : pt.length > 0 => pt.pos >= offset
        <4>1. SUFFICES ASSUME NEW pt \in Elements(synx), pt.length > 0
                       PROVE  pt.pos >= offset
          OBVIOUS
        <4>2. nextsync <= pt.pos /\ pt.pos \in Nat
          BY <1>3, <2>2, <4>1, ElementsArePoints, PointIs DEF Ahead
        <4> QED
          BY <1>3, <3>1, <4>2
      <3> QED
        BY <2>1, <3>1, <3>2, <3>3, NextIsAhead
    <2>5. CASE SkipsRegion
      <3>1. Ended'
        BY <2>5 DEF SkipsRegion, Ended
      <3> QED
        BY <2>5, <3>1 DEF SkipsRegion
    <2> QED
      BY <1>6, <2>3, <2>4, <2>5, ReadIs
  <1>7. CASE Disassemble
    <2>1. PICK place \in Nat : \E len \in 1..have : Shows(place, len)
      BY <1>7, DisassembleIs
    <2>2. PICK len \in 1..have : Shows(place, len)
      BY <2>1
    <2>3. /\ stage = "decode" /\ ~Ended
          /\ Elements(synx) \subseteq Elements(synx')
          /\ \A pt \in Elements(synx') : pt.length > 0 => pt \in Elements(synx)
          /\ UNCHANGED <<stage, given, nextsync, synclen>>
      BY <1>7, DisassembleIs
    <2>4. Ahead
      BY <1>2, <2>3
    <2>5. have' = have - len /\ offset' = offset + len /\ SyncPending' = SyncPending
      BY <2>2, <2>3 DEF Shows, SyncPending
    <2>6. SyncPending => nextsync >= (offset + len) + (have - len)
      BY <1>3, <2>4 DEF Ahead
    <2>7. ASSUME NEW pt \in given, pt.pos > offset + len
          PROVE  pt \in Elements(synx) /\ SyncPending /\ nextsync <= pt.pos
      <3>1. pt.pos > offset
        BY <1>3, <2>7, PointIs
      <3> QED
        BY <2>4, <3>1 DEF Ahead
    <2>8. \A pt \in Elements(synx') : pt.length > 0 =>
              SyncPending /\ nextsync <= pt.pos
      BY <2>3, <2>4 DEF Ahead
    <2> QED
      BY <2>3, <2>5, <2>6, <2>7, <2>8 DEF Ahead
  <1>8. CASE Again
    <2>1. /\ stage = "decode" /\ stage' # "options"
          /\ UNCHANGED <<given, synx, nextsync, synclen, offset, have, lenread, eof, feof>>
      BY <1>8 DEF Again, heapVars
    <2>2. ~Ended' => ~Ended
      <3>1. Ended => stage' = "done"
        BY <1>8 DEF Again, Ended
      <3> QED
        BY <2>1, <3>1 DEF Ended
    <2> QED
      BY <1>2, <2>1, <2>2 DEF Ahead, SyncPending
  <1> QED
    BY <1>4, <1>5, <1>6, <1>7, <1>8 DEF Next

LEMMA SyncPointsHitStep ==
    ASSUME TypeOK, HeapIsRight, WindowIsRight, PointsAreAhead, Next,
           PointsFit', PointsFit => SyncPointsHit
    PROVE  SyncPointsHit'
  <1>1. PointsFit /\ SyncPointsHit
    BY PointsFitStays
  <1>2. CASE Disassemble
    <2>1. PICK place \in Nat : \E len \in 1..have : Shows(place, len)
      BY <1>2, DisassembleIs
    <2>2. PICK len \in 1..have : Shows(place, len)
      BY <2>1
    <2>3. stage = "decode" /\ ~Ended /\ given' = given
      BY <1>2, DisassembleIs
    <2>4. Ahead
      BY <1>1, <2>3 DEF PointsAreAhead, Ahead
    <2> DEFINE e == [offset |-> offset, place |-> place, len |-> len]
    <2>5. /\ offset \in Nat /\ have \in Nat /\ nextsync \in Nat
          /\ given \subseteq Points /\ Len(shown) \in Nat
          /\ DOMAIN shown = 1..Len(shown)
      BY LenProperties DEF TypeOK
    <2>6. shown' = Append(shown, e)
      BY <2>2 DEF Shows
    <2>7. e.offset = offset /\ e.len = len
      OBVIOUS
    <2>8. e \in [offset : Nat, place : Nat, len : Nat]
      BY <2>5
    <2> HIDE DEF e
    <2>9. /\ DOMAIN shown' = 1..Len(shown) + 1
          /\ \A i \in 1..Len(shown) : shown'[i] = shown[i]
          /\ shown'[Len(shown) + 1] = e
      BY <2>6, <2>8, AppendProperties, LenProperties DEF TypeOK
    <2>10. ASSUME NEW pt \in given PROVE ~(offset < pt.pos /\ pt.pos < offset + len)
      <3>1. SUFFICES ASSUME offset < pt.pos, pt.pos < offset + len PROVE FALSE
        OBVIOUS
      <3>2. pt.pos \in Nat
        BY <2>5, PointIs
      <3>3. nextsync <= pt.pos /\ nextsync >= offset + have
        BY <2>4, <2>5, <3>1, <3>2 DEF Ahead
      <3> QED
        BY <2>5, <3>1, <3>2, <3>3
    <2>11. ASSUME NEW i \in DOMAIN shown', NEW pt \in given
           PROVE  ~(shown'[i].offset < pt.pos /\ pt.pos < shown'[i].offset + shown'[i].len)
      <3>1. CASE i \in 1..Len(shown)
        BY <1>1, <2>5, <2>9, <3>1 DEF SyncPointsHit, Crosses
      <3>2. CASE i = Len(shown) + 1
        BY <2>7, <2>9, <2>10, <3>2
      <3> QED
        BY <2>5, <2>9, <3>1, <3>2
    <2> QED
      BY <2>3, <2>11 DEF SyncPointsHit, Crosses
  <1>3. CASE Option
    <2>1. DOMAIN shown = {} /\ shown' = shown
      BY <1>3, EmptySeq DEF Option, WindowIsRight
    <2> QED
      BY <2>1 DEF SyncPointsHit
  <1>4. CASE Start \/ Read \/ Again
    <2>1. shown' = shown /\ given' = given
      BY <1>4 DEF Start, Read, Again
    <2> QED
      BY <1>1, <2>1 DEF SyncPointsHit, Crosses
  <1> QED
    BY <1>2, <1>3, <1>4 DEF Next

-----------------------------------------------------------------------------
(* The theorems.                                                           *)

LEMMA PointsInvInit ==
    Init => PointsInv
  <1>1. Init => DOMAIN shown = {}
    BY EmptySeq DEF Init
  <1> QED
    BY <1>1, TypeOKInit, HeapIsRightInit, WindowIsRightInit, ShownIsRightInit,
       AllIsShownInit, PointsAreAheadInit
       DEF PointsInv, FileInv, SyncPointsHit

LEMMA PointsInvStep ==
    PointsInv /\ [Next]_vars => PointsInv'
  <1> SUFFICES ASSUME PointsInv, [Next]_vars PROVE PointsInv'
    OBVIOUS
  <1>1. TypeOK /\ HeapIsRight /\ WindowIsRight /\ ShownIsRight /\ AllIsShown
        /\ PointsAreAhead /\ (PointsFit => SyncPointsHit)
    BY DEF PointsInv, FileInv
  <1>2. CASE Next
    <2>1. TypeOK' /\ HeapIsRight' /\ WindowIsRight'
      BY <1>1, <1>2, TypeOKStep, HeapIsRightStep, WindowIsRightStep
    <2>2. ShownIsRight'
      BY <1>1, <1>2, ShownIsRightStep
    <2>3. AllIsShown'
      BY <1>1, <1>2, AllIsShownStep
    <2>4. PointsAreAhead'
      BY <1>1, <1>2, PointsAreAheadStep
    <2>5. PointsFit' => SyncPointsHit'
      BY <1>1, <1>2, SyncPointsHitStep
    <2> QED
      BY <2>1, <2>2, <2>3, <2>4, <2>5 DEF PointsInv, FileInv
  <1>3. CASE UNCHANGED vars
    BY <1>1, <1>3 DEF vars, heapVars, PointsInv, FileInv, TypeOK, HeapIsRight,
       WindowIsRight, ShownIsRight, AllIsShown, PointsAreAhead, PointsFit,
       SyncPointsHit, Crosses, Ended, SyncPending, FileLen, DataMax, NoRegions
  <1> QED
    BY <1>2, <1>3

(* Whatever the file, the header, the origin, the options and the kind of  *)
(* file: what main() of ndisasm.c shows at an offset are the bytes of the  *)
(* file that belong there, one place after the other; without regions of   *)
(* -k it is all of the file, as far as the limit allows.                   *)
THEOREM TheFileIsShown == Spec => []ShowsTheFile
  <1>1. PointsInv => ShowsTheFile
    BY FileIsShown DEF PointsInv
  <1> QED
    BY <1>1, PointsInvInit, PointsInvStep, PTL DEF Spec

(* With no more options than the heap of sync.c has room for and no region *)
(* around the origin, no instruction that is shown jumps over a point of   *)
(* -s or the beginning of a region, in whatever order they were given and  *)
(* whatever points -a adds.                                                *)
THEOREM PointsAreHit == Spec => [](PointsFit => SyncPointsHit)
  <1>1. PointsInv => (PointsFit => SyncPointsHit)
    BY DEF PointsInv
  <1> QED
    BY <1>1, PointsInvInit, PointsInvStep, PTL DEF Spec
=============================================================================
