------------------------------ MODULE SaaProofs ------------------------------
(***************************************************************************)
(* The sequential array of nasmlib/saa.c implements one array of bytes,    *)
(* for every length of block and structure: each operation is the one of   *)
(* ByteArray on the bytes the blocks stand for.                            *)
(***************************************************************************)
EXTENDS Saa, SequenceTheorems, WellFoundedInduction, TLAPS

-----------------------------------------------------------------------------
(* Numbers.                                                                *)

LEMMA LeastOf ==
    ASSUME NEW S, S \subseteq Nat, S # {}
    PROVE  \E m \in S : \A k \in S : m <= k
  <1> DEFINE R == OpToRel(<, Nat)
  <1>1. IsWellFoundedOn(R, Nat)
    BY NatLessThanWellFounded
  <1>2. \A x, y \in Nat : y < x => <<y, x>> \in R
    BY DEF OpToRel
  <1> HIDE DEF R
  <1>3. PICK m \in S : \A k \in S : ~(<<k, m>> \in R)
    BY <1>1, WFMin
  <1>4. ASSUME NEW k \in S PROVE m <= k
    <2>1. m \in Nat /\ k \in Nat /\ ~(<<k, m>> \in R)
      BY <1>3
    <2>2. ~(k < m)
      BY <1>2, <2>1
    <2> QED
      BY <2>1, <2>2
  <1> QED
    BY <1>4

LEMMA FunctionIsSeq ==
    ASSUME NEW S, NEW n \in Nat, NEW s \in [1..n -> S]
    PROVE  s \in Seq(S) /\ Len(s) = n
  <1>1. s \in Seq(S)
    BY SeqDef
  <1>2. Len(s) \in Nat /\ DOMAIN s = 1..Len(s) /\ DOMAIN s = 1..n
    BY <1>1, LenProperties
  <1>3. 1..n = 1..Len(s)
    BY <1>2
  <1>4. (n > 0 => n \in 1..Len(s)) /\ (Len(s) > 0 => Len(s) \in 1..n)
    BY <1>2, <1>3
  <1> QED
    BY <1>1, <1>2, <1>4

LEMMA ProductsGrow ==
    ASSUME NEW p \in Int, NEW q \in Int, NEW b \in Nat \ {0}, p < q
    PROVE  p * b + b <= q * b /\ p * b \in Int /\ q * b \in Int
  <1>1. q - p - 1 \in Nat /\ (q - p - 1) * b >= 0
    OBVIOUS
  <1>2. (q - p - 1) * b = q * b - p * b - b
    OBVIOUS
  <1> QED
    BY <1>1, <1>2

(* There is one way to divide.                                             *)
LEMMA OneQuotient ==
    ASSUME NEW b \in Nat \ {0}, NEW p \in Int, NEW q \in Int,
           NEW r \in 0..b - 1, NEW s \in 0..b - 1, p * b + r = q * b + s
    PROVE  p = q /\ r = s
  <1>1. ~(p < q)
    <2> SUFFICES ASSUME p < q PROVE FALSE
      OBVIOUS
    <2>1. p * b + b <= q * b /\ p * b \in Int /\ q * b \in Int
      BY ProductsGrow
    <2> QED
      BY <2>1
  <1>2. ~(q < p)
    <2> SUFFICES ASSUME q < p PROVE FALSE
      OBVIOUS
    <2>1. q * b + b <= p * b /\ p * b \in Int /\ q * b \in Int
      BY ProductsGrow
    <2> QED
      BY <2>1
  <1>3. p = q
    BY <1>1, <1>2
  <1> QED
    BY <1>3

LEMMA Division ==
    ASSUME NEW a \in Int, NEW b \in Nat \ {0}
    PROVE  /\ a \div b \in Int /\ a % b \in 0..b - 1
           /\ a = (a \div b) * b + (a % b)
  OBVIOUS

LEMMA DivisionIs ==
    ASSUME NEW a \in Int, NEW b \in Nat \ {0}, NEW q \in Int, NEW r \in 0..b - 1,
           a = q * b + r
    PROVE  a \div b = q /\ a % b = r
  <1>1. /\ a \div b \in Int /\ a % b \in 0..b - 1
        /\ (a \div b) * b + (a % b) = q * b + r
    BY Division
  <1> QED
    BY <1>1, OneQuotient

(* The block of a place within n blocks is one of them.                    *)
LEMMA BlockOfPlace ==
    ASSUME NEW j \in Nat, NEW b \in Nat \ {0}, NEW n \in Nat, j < n * b
    PROVE  (j \div b) + 1 \in 1..n /\ (j % b) + 1 \in 1..b
  <1> DEFINE q == j \div b
             r == j % b
  <1>1. q \in Int /\ r \in 0..b - 1 /\ j = q * b + r
    BY Division
  <1> HIDE DEF q, r
  <1>2. ~(q < 0)
    <2> SUFFICES ASSUME q < 0 PROVE FALSE
      OBVIOUS
    <2>1. q * b + b <= 0 * b /\ q * b \in Int
      BY <1>1, ProductsGrow
    <2> QED
      BY <1>1, <2>1
  <1>3. q < n
    <2> SUFFICES ASSUME ~(q < n) PROVE FALSE
      OBVIOUS
    <2>1. q = n \/ n < q
      BY <1>1
    <2>2. n < q => n * b + b <= q * b /\ n * b \in Int /\ q * b \in Int
      BY <1>1, ProductsGrow
    <2>3. n * b \in Int /\ q * b \in Int
      BY <1>1
    <2>4. n * b <= q * b
      BY <2>1, <2>2, <2>3
    <2> QED
      BY <1>1, <2>3, <2>4
  <1>4. q + 1 \in 1..n /\ r + 1 \in 1..b
    BY <1>1, <1>2, <1>3
  <1> QED
    BY <1>4 DEF q, r

LEMMA CursorInBlock ==
    ASSUME NEW b \in Nat \ {0}, NEW n \in Nat \ {0}, NEW q \in Int, NEW r \in 0..b,
           NEW p \in Nat, p = q * b + r, p <= n * b, r = 0 => p = 0
    PROVE  /\ r # b => q \in 0..n - 1
           /\ r = b => q + 1 \in 0..n /\ p = (q + 1) * b
                       /\ (p < n * b => q + 1 \in 0..n - 1)
  <1>1. q * b \in Int /\ n * b \in Int
    OBVIOUS
  <1>2. ~(q < -1)
    <2> SUFFICES ASSUME q < -1 PROVE FALSE
      OBVIOUS
    <2>1. q * b + b <= (-1) * b
      BY ProductsGrow
    <2> QED
      BY <1>1, <2>1
  <1>3. q = -1 => r = b
    BY <1>1
  <1>4. ~(n < q)
    <2> SUFFICES ASSUME n < q PROVE FALSE
      OBVIOUS
    <2>1. n * b + b <= q * b
      BY ProductsGrow
    <2> QED
      BY <1>1, <2>1
  <1>5. q = n => r = 0
    BY <1>1
  <1>6. q = n => FALSE
    <2> SUFFICES ASSUME q = n PROVE FALSE
      OBVIOUS
    <2>1. p = 0 /\ q * b = 0
      BY <1>1, <1>5
    <2>2. 0 < n
      OBVIOUS
    <2>3. 0 * b + b <= n * b
      BY <2>2, ProductsGrow
    <2> QED
      BY <2>1, <2>3
  <1>7. q \in -1..n - 1
    BY <1>2, <1>4, <1>6
  <1>8. (q + 1) * b = q * b + b
    OBVIOUS
  <1>9. ASSUME r = b, q + 1 = n PROVE ~(p < n * b)
    BY <1>1, <1>8, <1>9
  <1> QED
    BY <1>3, <1>7, <1>8, <1>9

LEMMA CursorAtEnd ==
    ASSUME NEW b \in Nat \ {0}, NEW n \in Nat \ {0}, NEW q \in Int, NEW p \in Nat,
           p = q * b + b, p <= n * b
    PROVE  /\ q + 1 \in 0..n /\ p = (q + 1) * b
           /\ p < n * b => q + 1 \in 0..n - 1
  <1>1. \A r \in 0..b : r = b =>
            /\ q + 1 \in 0..n /\ p = (q + 1) * b
            /\ p < n * b => q + 1 \in 0..n - 1
    <2> TAKE r \in 0..b
    <2> HAVE r = b
    <2>1. p = q * b + r /\ r # 0
      OBVIOUS
    <2> QED
      BY <2>1, CursorInBlock
  <1> QED
    BY <1>1

LEMMA FitsInBlocks ==
    ASSUME NEW b \in Nat \ {0}, NEW n \in Nat, NEW q \in 0..n - 1, NEW r \in 0..b,
           NEW m \in Nat, r + m <= b, NEW p \in Nat, p = q * b + r
    PROVE  p + m <= n * b
  <1>1. q < n
    OBVIOUS
  <1>2. q * b + b <= n * b /\ q * b \in Int /\ n * b \in Int
    BY <1>1, ProductsGrow
  <1> QED
    BY <1>2

(* Which places are in the m bytes from place p on, all in block q.        *)
LEMMA PlacesInBlock ==
    ASSUME NEW b \in Nat \ {0}, NEW q \in Int, NEW r \in 0..b - 1,
           NEW m \in Nat, r + m <= b, NEW p \in Nat, p = q * b + r,
           NEW k \in Int, NEW s \in 0..b - 1, NEW j \in Nat, j = k * b + s
    PROVE  /\ (k = q /\ r <= s /\ s < r + m) <=> (p <= j /\ j < p + m)
           /\ p <= j /\ j < p + m => s - r = j - p
  <1>2. q * b \in Int /\ k * b \in Int
    OBVIOUS
  <1>3. k = q => k * b = q * b
    OBVIOUS
  <1>4. ASSUME k < q PROVE ~(p <= j)
    <2>1. k * b + b <= q * b
      BY <1>4, ProductsGrow
    <2> QED
      BY <1>2, <2>1
  <1>5. ASSUME q < k PROVE ~(j < p + m)
    <2>1. q * b + b <= k * b
      BY <1>5, ProductsGrow
    <2> QED
      BY <1>2, <2>1
  <1>6. p <= j /\ j < p + m => k = q
    BY <1>4, <1>5
  <1>7. k = q => j - p = s - r
    BY <1>2, <1>3
  <1> QED
    BY <1>6, <1>7

LEMMA NoLess ==
    ASSUME NEW e \in Nat \ {0}, NEW b \in Nat, \E k \in Nat \ {0} : b = k * e
    PROVE  e <= b
  <1>1. PICK k \in Nat \ {0} : b = k * e
    OBVIOUS
  <1>2. k = 1 => k * e = e
    OBVIOUS
  <1>3. 1 < k => 1 * e + e <= k * e
    BY ProductsGrow
  <1> QED
    BY <1>1, <1>2, <1>3

LEMMA BlockLength ==
    ASSUME SaaParameters
    PROVE  /\ blk_len \in Nat \ {0} /\ elem_len \in Nat \ {0}
           /\ \E k \in Nat \ {0} : blk_len = k * elem_len
  <1> DEFINE k == BLKLEN \div elem_len
             r == BLKLEN % elem_len
  <1>1. /\ elem_len \in Nat \ {0} /\ BLKLEN \in Nat /\ elem_len <= BLKLEN
    BY DEF SaaParameters
  <1>2. k \in Int /\ r \in 0..elem_len - 1 /\ BLKLEN = k * elem_len + r
    BY <1>1, Division
  <1>3. blk_len = BLKLEN - r
    BY DEF blk_len
  <1> HIDE DEF k, r
  <1>4. k * elem_len \in Int /\ blk_len = k * elem_len
    BY <1>1, <1>2, <1>3
  <1>5. ~(k < 1)
    <2> SUFFICES ASSUME k < 1 PROVE FALSE
      OBVIOUS
    <2>1. k * elem_len + elem_len <= 1 * elem_len
      BY <1>1, <1>2, ProductsGrow
    <2> QED
      BY <1>1, <1>2, <1>4, <2>1
  <1>6. blk_len >= elem_len
    <2>1. k = 1 => k * elem_len = elem_len
      BY <1>1
    <2>2. 1 < k => 1 * elem_len + elem_len <= k * elem_len
      BY <1>1, <1>2, ProductsGrow
    <2> QED
      BY <1>1, <1>2, <1>4, <1>5, <2>1, <2>2
  <1> QED
    BY <1>1, <1>2, <1>4, <1>5, <1>6

-----------------------------------------------------------------------------
(* The invariant.  Memory that was never written is "?".                   *)

Cell == Int \cup {"?"}
Block == [1..blk_len -> Cell]
CellOf(b, j) == b[(j \div blk_len) + 1][(j % blk_len) + 1]

(* The write cursor names its place and has no gap before it; it rests at  *)
(* the start of a block at the very beginning only.  No block is allocated *)
(* before it is needed.                                                    *)
WriterTypes ==
    [blk : Seq(Block), datalen : Nat, wblk : Int, wpos : 0..blk_len, wptr : Nat]
WriterOK(w) ==
    /\ w \in WriterTypes
    /\ w.wptr = w.wblk * blk_len + w.wpos
    /\ w.wpos = 0 => w.wptr = 0
    /\ w.wptr <= w.datalen /\ w.datalen <= length(w.blk)
    /\ length(w.blk) < w.datalen + blk_len \/ Len(w.blk) = 1
    /\ Len(w.blk) # 0

(* The same when the cursor was moved on to the block of its place.        *)
Placed(w, at) ==
    /\ at \in WriterTypes
    /\ at.datalen = w.datalen /\ at.wptr = w.wptr
    /\ at.wptr = at.wblk * blk_len + at.wpos
    /\ at.wblk \in 0..Len(at.blk) - 1 /\ at.wpos < blk_len
    /\ at.datalen <= length(at.blk)
    /\ \/ length(at.blk) < at.datalen + blk_len
       \/ length(at.blk) < at.wptr + 1 + blk_len
       \/ Len(at.blk) = 1
    /\ \A j \in 0..w.datalen - 1 : CellOf(at.blk, j) = CellOf(w.blk, j)

(* The first n elements of d were written at w's cursor.                   *)
Wrote(w, v, d, n) ==
    /\ v.wptr = w.wptr + n
    /\ v.datalen = IF w.datalen < w.wptr + n THEN w.wptr + n ELSE w.datalen
    /\ \A j \in 0..v.datalen - 1 :
          CellOf(v.blk, j) = IF w.wptr <= j /\ j < w.wptr + n
                             THEN d[j - w.wptr + 1] ELSE CellOf(w.blk, j)

-----------------------------------------------------------------------------
(* The step to the next block.                                             *)

LEMMA BlockExtends ==
    ASSUME NEW b \in Seq(Block), SaaParameters, NEW n \in Nat, n <= length(b)
    PROVE  /\ Append(b, NewBlock) \in Seq(Block)
           /\ Len(Append(b, NewBlock)) = Len(b) + 1
           /\ length(Append(b, NewBlock)) = length(b) + blk_len
           /\ \A j \in 0..n - 1 : CellOf(Append(b, NewBlock), j) = CellOf(b, j)
  <1>1. blk_len \in Nat \ {0}
    BY BlockLength
  <1>2. NewBlock \in Block
    BY DEF NewBlock, Block, Cell
  <1>3. /\ Append(b, NewBlock) \in Seq(Block)
        /\ Len(Append(b, NewBlock)) = Len(b) + 1
        /\ \A k \in 1..Len(b) : Append(b, NewBlock)[k] = b[k]
    BY <1>2, AppendProperties
  <1>4. Len(b) \in Nat /\ length(b) \in Nat
    BY <1>1, LenProperties DEF length
  <1>5. (Len(b) + 1) * blk_len = Len(b) * blk_len + blk_len
    BY <1>1, <1>4
  <1>6. ASSUME NEW j \in 0..n - 1
        PROVE  CellOf(Append(b, NewBlock), j) = CellOf(b, j)
    <2>1. j \in Nat /\ j < Len(b) * blk_len
      BY <1>4 DEF length
    <2>2. (j \div blk_len) + 1 \in 1..Len(b)
      BY <1>1, <1>4, <2>1, BlockOfPlace
    <2> QED
      BY <1>3, <2>2 DEF CellOf
  <1> QED
    BY <1>3, <1>5, <1>6 DEF length

LEMMA NextIsPlaced ==
    ASSUME SaaParameters, NEW w, WriterOK(w), w.wpos = blk_len
    PROVE  Placed(w, NextBlock(w))
  <1> DEFINE B == blk_len
             at == NextBlock(w)
             grown == w.wptr >= length(w.blk)
  <1>1. B \in Nat \ {0}
    BY BlockLength
  <1>2. /\ w \in WriterTypes /\ w.blk \in Seq(Block) /\ w.wblk \in Int
        /\ w.wptr \in Nat /\ w.datalen \in Nat
        /\ w.wptr = w.wblk * B + B /\ w.wptr <= w.datalen
        /\ w.datalen <= length(w.blk) /\ Len(w.blk) # 0
        /\ length(w.blk) < w.datalen + B \/ Len(w.blk) = 1
    BY DEF WriterOK, WriterTypes
  <1>3. /\ at.blk = (IF grown THEN Append(w.blk, NewBlock) ELSE w.blk)
        /\ at.wblk = w.wblk + 1 /\ at.wpos = 0
        /\ at.wptr = w.wptr /\ at.datalen = w.datalen
    BY <1>2 DEF NextBlock, WriterTypes
  <1>4. /\ Append(w.blk, NewBlock) \in Seq(Block)
        /\ Len(Append(w.blk, NewBlock)) = Len(w.blk) + 1
        /\ length(Append(w.blk, NewBlock)) = length(w.blk) + B
        /\ \A j \in 0..w.datalen - 1 :
              CellOf(Append(w.blk, NewBlock), j) = CellOf(w.blk, j)
    BY <1>2, BlockExtends
  <1>5. Len(w.blk) \in Nat /\ length(w.blk) \in Nat /\ length(w.blk) = Len(w.blk) * B
    BY <1>1, <1>2, LenProperties DEF length
  <1>6. at \in WriterTypes
    <2>1. at = [w EXCEPT !.wblk = w.wblk + 1, !.wpos = 0,
                         !.blk = IF grown THEN Append(w.blk, NewBlock) ELSE w.blk]
      BY DEF NextBlock
    <2>2. /\ w.wblk + 1 \in Int /\ 0 \in 0..blk_len
          /\ (IF grown THEN Append(w.blk, NewBlock) ELSE w.blk) \in Seq(Block)
      BY <1>1, <1>2, <1>4
    <2> HIDE DEF at, grown
    <2> QED
      BY <1>2, <2>1, <2>2 DEF WriterTypes
  <1>7. /\ w.wptr = (w.wblk + 1) * B /\ w.wblk + 1 \in 0..Len(w.blk)
        /\ w.wptr < Len(w.blk) * B => w.wblk + 1 \in 0..Len(w.blk) - 1
    <2>1. Len(w.blk) \in Nat \ {0} /\ w.wptr <= Len(w.blk) * B
      BY <1>1, <1>2, <1>5
    <2> DEFINE q == w.wblk
               n == Len(w.blk)
               p == w.wptr
    <2>2. /\ q \in Int /\ n \in Nat \ {0} /\ p \in Nat
          /\ p = q * B + B /\ p <= n * B
      BY <1>2, <2>1
    <2> HIDE DEF q, n, p
    <2>3. /\ p = (q + 1) * B /\ q + 1 \in 0..n
          /\ p < n * B => q + 1 \in 0..n - 1
      BY <1>1, <2>2, CursorAtEnd
    <2> QED
      BY <2>3 DEF q, n, p
  <1>8. ~grown => w.wptr < Len(w.blk) * B
    BY <1>2, <1>5
  <1> HIDE DEF at
  <1>10. at.wblk \in 0..Len(at.blk) - 1
    BY <1>2, <1>3, <1>4, <1>5, <1>7, <1>8
  <1>11. at.wptr = at.wblk * B + at.wpos
    BY <1>1, <1>2, <1>3, <1>7
  <1>12. /\ at.datalen <= length(at.blk)
         /\ \/ length(at.blk) < at.datalen + B
            \/ length(at.blk) < at.wptr + 1 + B
            \/ Len(at.blk) = 1
    <2>1. at.datalen = w.datalen /\ at.wptr = w.wptr
      BY <1>3
    <2>2. CASE grown
      <3>1. length(at.blk) = length(w.blk) + B
        BY <1>3, <1>4, <2>2
      <3>2. length(w.blk) <= w.wptr
        BY <1>2, <1>5, <2>2
      <3> QED
        BY ONLY <1>1, <1>2, <1>5, <2>1, <3>1, <3>2
    <2>3. CASE ~grown
      <3>1. at.blk = w.blk
        BY <1>3, <2>3
      <3> QED
        BY <1>2, <2>1, <3>1
    <2> QED
      BY <2>2, <2>3
  <1>13. \A j \in 0..w.datalen - 1 : CellOf(at.blk, j) = CellOf(w.blk, j)
    BY <1>3, <1>4
  <1> QED
    BY <1>1, <1>3, <1>6, <1>10, <1>11, <1>12, <1>13 DEF Placed, at

LEMMA WriterIsPlaced ==
    ASSUME SaaParameters, NEW w, WriterOK(w), w.wpos # blk_len
    PROVE  Placed(w, w)
  <1> DEFINE B == blk_len
  <1>1. B \in Nat \ {0}
    BY BlockLength
  <1>2. /\ w \in WriterTypes /\ w.blk \in Seq(Block) /\ w.wblk \in Int
        /\ w.wptr \in Nat /\ w.datalen \in Nat /\ w.wpos \in 0..B
        /\ w.wptr = w.wblk * B + w.wpos /\ w.wptr <= w.datalen
        /\ w.wpos = 0 => w.wptr = 0
        /\ w.datalen <= length(w.blk) /\ Len(w.blk) # 0
        /\ length(w.blk) < w.datalen + B \/ Len(w.blk) = 1
    BY DEF WriterOK, WriterTypes
  <1>3. Len(w.blk) \in Nat /\ length(w.blk) = Len(w.blk) * B /\ w.wpos < B
    BY <1>1, <1>2, LenProperties DEF length
  <1>4. w.wblk \in 0..Len(w.blk) - 1
    <2>1. Len(w.blk) \in Nat \ {0} /\ w.wptr <= Len(w.blk) * B
      BY <1>1, <1>2, <1>3
    <2> DEFINE q == w.wblk
               n == Len(w.blk)
               p == w.wptr
               r == w.wpos
    <2>2. /\ q \in Int /\ n \in Nat \ {0} /\ r \in 0..B /\ p \in Nat
          /\ p = q * B + r /\ p <= n * B /\ (r = 0 => p = 0) /\ r # B
      BY <1>2, <2>1
    <2> HIDE DEF q, n, p, r
    <2>3. q \in 0..n - 1
      BY <1>1, <2>2, CursorInBlock
    <2> QED
      BY <2>3 DEF q, n
  <1> QED
    BY <1>1, <1>2, <1>3, <1>4 DEF Placed

-----------------------------------------------------------------------------
(* Writing into one block.                                                 *)

(* The n elements of d go into the block of the cursor.                    *)
StoredIn(at, v, d, n) ==
    /\ v.blk \in Seq(Block) /\ Len(v.blk) = Len(at.blk)
    /\ \A k \in 1..Len(at.blk) : \A i \in 1..blk_len :
          v.blk[k][i] = IF k = at.wblk + 1 /\ at.wpos < i /\ i <= at.wpos + n
                        THEN d[i - at.wpos] ELSE at.blk[k][i]
    /\ v.wblk = at.wblk /\ v.wpos = at.wpos + n /\ v.wptr = at.wptr + n
    /\ v.datalen = IF at.datalen < at.wptr + n THEN at.wptr + n ELSE at.datalen

LEMMA StoredCells ==
    ASSUME SaaParameters, NEW w, WriterOK(w), NEW at, Placed(w, at),
           NEW d, NEW n \in 1..blk_len, at.wpos + n <= blk_len,
           NEW v, StoredIn(at, v, d, n)
    PROVE  Wrote(w, v, d, n)
  <1> DEFINE B == blk_len
             N == Len(at.blk)
             q == at.wblk
             r == at.wpos
             p == at.wptr
  <1>1. B \in Nat \ {0}
    BY BlockLength
  <1>2. /\ at.blk \in Seq(Block) /\ p \in Nat /\ at.datalen \in Nat
        /\ q \in 0..N - 1 /\ r \in 0..B - 1 /\ N \in Nat
        /\ p = q * B + r /\ at.datalen <= N * B /\ N * B \in Int
        /\ at.datalen = w.datalen /\ p = w.wptr /\ p <= w.datalen
        /\ n \in 1..B /\ r + n <= B /\ r \in 0..B
    BY <1>1, LenProperties DEF Placed, WriterTypes, WriterOK, length
  <1> HIDE DEF B, N, q, r, p
  <1>3. p + n <= N * B
    BY <1>1, <1>2, FitsInBlocks
  <1>4. v.datalen \in Nat /\ v.datalen <= N * B
    BY <1>2, <1>3 DEF StoredIn, p
  <1>5. ASSUME NEW j \in 0..v.datalen - 1
        PROVE  CellOf(v.blk, j) = IF w.wptr <= j /\ j < w.wptr + n
                                  THEN d[j - w.wptr + 1] ELSE CellOf(w.blk, j)
    <2> DEFINE k == j \div B
               i == j % B
    <2>1. j \in Nat /\ j < N * B
      BY <1>1, <1>2, <1>4
    <2>2. k \in Int /\ i \in 0..B - 1 /\ j = k * B + i
      <3>1. j \in Int
        BY <2>1
      <3> QED
        BY <1>1, <3>1, Division
    <2>3. k + 1 \in 1..N /\ i + 1 \in 1..B
      BY <1>1, <1>2, <2>1, BlockOfPlace
    <2>4. CellOf(v.blk, j) = v.blk[k + 1][i + 1] /\ CellOf(at.blk, j) = at.blk[k + 1][i + 1]
      BY DEF CellOf, B
    <2> HIDE DEF k, i
    <2>5. /\ (k = q /\ r <= i /\ i < r + n) <=> (p <= j /\ j < p + n)
          /\ p <= j /\ j < p + n => i - r = j - p
      <3>1. q \in Int /\ n \in Nat
        BY <1>2
      <3> QED
        BY <1>1, <1>2, <2>1, <2>2, <3>1, PlacesInBlock
    <2>6. v.blk[k + 1][i + 1] = IF k = q /\ r <= i /\ i < r + n
                                THEN d[(i - r) + 1] ELSE at.blk[k + 1][i + 1]
      <3>1. v.blk[k + 1][i + 1] =
               IF k + 1 = q + 1 /\ r < i + 1 /\ i + 1 <= r + n
               THEN d[(i + 1) - r] ELSE at.blk[k + 1][i + 1]
        <4>1. \A x \in 1..N : \A y \in 1..B :
                 v.blk[x][y] = IF x = q + 1 /\ r < y /\ y <= r + n
                               THEN d[y - r] ELSE at.blk[x][y]
          BY DEF StoredIn, B, N, q, r
        <4> QED
          BY ONLY <2>3, <4>1, Zenon
      <3>2. /\ k + 1 = q + 1 <=> k = q
            /\ r < i + 1 <=> r <= i
            /\ i + 1 <= r + n <=> i < r + n
            /\ (i + 1) - r = (i - r) + 1
        BY <1>2, <2>2
      <3> QED
        BY <3>1, <3>2
    <2>7. CASE p <= j /\ j < p + n
      <3>1. k = q /\ r <= i /\ i < r + n /\ (i - r) + 1 = j - p + 1
        BY <1>2, <2>1, <2>2, <2>5, <2>7
      <3> QED
        BY <1>2, <2>4, <2>6, <2>7, <3>1
    <2>8. CASE ~(p <= j /\ j < p + n)
      <3>1. j \in 0..w.datalen - 1
        <4>1. v.datalen = IF at.datalen < p + n THEN p + n ELSE at.datalen
          BY DEF StoredIn, p
        <4> QED
          BY <1>2, <1>4, <2>1, <2>8, <4>1
      <3>2. CellOf(at.blk, j) = CellOf(w.blk, j)
        BY <3>1 DEF Placed
      <3> QED
        BY <1>2, <2>4, <2>5, <2>6, <2>8, <3>2
    <2> QED
      BY <2>7, <2>8
  <1> QED
    BY <1>2, <1>5 DEF Wrote, StoredIn, p

LEMMA StoredIsOK ==
    ASSUME SaaParameters, NEW w, WriterOK(w), NEW at, Placed(w, at),
           NEW d, NEW n \in 1..blk_len, at.wpos + n <= blk_len,
           NEW v \in WriterTypes, StoredIn(at, v, d, n)
    PROVE  WriterOK(v)
  <1> DEFINE B == blk_len
             N == Len(at.blk)
             q == at.wblk
             r == at.wpos
             p == at.wptr
  <1>1. B \in Nat \ {0}
    BY BlockLength
  <1>2. /\ at.blk \in Seq(Block) /\ p \in Nat /\ at.datalen \in Nat
        /\ q \in 0..N - 1 /\ r \in 0..B - 1 /\ N \in Nat
        /\ p = q * B + r /\ at.datalen <= N * B /\ N * B \in Int
        /\ at.datalen = w.datalen /\ p = w.wptr /\ p <= w.datalen
        /\ n \in 1..B /\ r + n <= B /\ r \in 0..B
        /\ \/ N * B < at.datalen + B
           \/ N * B < p + 1 + B
           \/ N = 1
    BY <1>1, LenProperties DEF Placed, WriterTypes, WriterOK, length
  <1> HIDE DEF B, N, q, r, p
  <1>3. p + n <= N * B
    BY <1>1, <1>2, FitsInBlocks
  <1>4. /\ Len(v.blk) = N /\ length(v.blk) = N * B
        /\ v.wblk = q /\ v.wpos = r + n /\ v.wptr = p + n
        /\ v.datalen = IF at.datalen < p + n THEN p + n ELSE at.datalen
    BY DEF StoredIn, length, B, N, q, r, p
  <1>5. v.wptr = v.wblk * B + v.wpos /\ v.wpos # 0
    BY <1>1, <1>2, <1>4
  <1>6. v.wptr <= v.datalen /\ v.datalen <= N * B
    BY <1>2, <1>3, <1>4
  <1>7. N * B < v.datalen + B \/ N = 1
    BY <1>1, <1>2, <1>4
  <1>8. N # 0
    BY <1>2
  <1> QED
    BY <1>4, <1>5, <1>6, <1>7, <1>8 DEF WriterOK, B, N

-----------------------------------------------------------------------------
(* saa_wbytes.                                                             *)

LEMMA PutIs ==
    ASSUME SaaParameters, NEW w, WriterOK(w), NEW byte \in Cell
    PROVE  /\ WriterOK(Put(w, byte))
           /\ \A d : d[1] = byte => Wrote(w, Put(w, byte), d, 1)
  <1> DEFINE at == IF w.wpos = blk_len THEN NextBlock(w) ELSE w
             v == Put(w, byte)
             b == [at.blk EXCEPT ![at.wblk + 1] =
                      [at.blk[at.wblk + 1] EXCEPT ![at.wpos + 1] = byte]]
  <1>1. blk_len \in Nat \ {0} /\ 1 \in 1..blk_len
    BY BlockLength
  <1>2. Placed(w, at)
    BY NextIsPlaced, WriterIsPlaced
  <1>3. v = [at EXCEPT !.blk = b, !.wpos = at.wpos + 1, !.wptr = at.wptr + 1,
                 !.datalen = IF at.datalen < at.wptr + 1
                             THEN at.wptr + 1 ELSE at.datalen]
    BY DEF Put
  <1> HIDE DEF at, v
  <1>4. /\ at \in WriterTypes /\ at.blk \in Seq(Block) /\ at.wptr \in Nat
        /\ at.datalen \in Nat /\ at.wblk \in 0..Len(at.blk) - 1
        /\ at.wpos \in 0..blk_len /\ at.wpos < blk_len /\ Len(at.blk) \in Nat
    BY <1>2, LenProperties DEF Placed, WriterTypes
  <1>5. /\ at.wpos + 1 \in 1..blk_len /\ at.wpos + 1 \in 0..blk_len
        /\ at.wpos + 1 <= blk_len /\ at.wblk + 1 \in 1..Len(at.blk)
    BY <1>1, <1>4
  <1>6. /\ b \in Seq(Block) /\ Len(b) = Len(at.blk)
        /\ \A k \in 1..Len(at.blk) : \A i \in 1..blk_len :
              b[k][i] = IF k = at.wblk + 1 /\ i = at.wpos + 1 THEN byte
                        ELSE at.blk[k][i]
    <2>1. at.blk[at.wblk + 1] \in Block
      BY <1>4, <1>5, ElementOfSeq
    <2> DEFINE new == [at.blk[at.wblk + 1] EXCEPT ![at.wpos + 1] = byte]
    <2>2. /\ new \in Block
          /\ \A i \in 1..blk_len : new[i] = IF i = at.wpos + 1 THEN byte
                                            ELSE at.blk[at.wblk + 1][i]
      BY <1>5, <2>1 DEF Block
    <2> HIDE DEF new
    <2>3. b = [at.blk EXCEPT ![at.wblk + 1] = new]
      BY DEF new
    <2> HIDE DEF b
    <2>4. /\ b \in Seq(Block) /\ Len(b) = Len(at.blk)
          /\ \A k \in 1..Len(at.blk) : b[k] = IF k = at.wblk + 1 THEN new ELSE at.blk[k]
      BY <1>4, <1>5, <2>2, <2>3, ExceptSeq
    <2> QED
      BY <2>2, <2>4
  <1> HIDE DEF b
  <1>7. v \in WriterTypes
    <2> DEFINE top == IF at.datalen < at.wptr + 1 THEN at.wptr + 1 ELSE at.datalen
    <2>1. at.wptr + 1 \in Nat /\ top \in Nat
      BY <1>4
    <2>2. v = [at EXCEPT !.blk = b, !.wpos = at.wpos + 1, !.wptr = at.wptr + 1,
                         !.datalen = top]
      BY <1>3
    <2> HIDE DEF top
    <2> QED
      BY <1>4, <1>5, <1>6, <2>1, <2>2 DEF WriterTypes
  <1>8. /\ v.blk = b /\ v.wblk = at.wblk /\ v.wpos = at.wpos + 1
        /\ v.wptr = at.wptr + 1
        /\ v.datalen = IF at.datalen < at.wptr + 1 THEN at.wptr + 1 ELSE at.datalen
    BY <1>3, <1>4 DEF WriterTypes
  <1>9. ASSUME NEW d, d[1] = byte PROVE StoredIn(at, v, d, 1)
    <2>1. ASSUME NEW k \in 1..Len(at.blk), NEW i \in 1..blk_len
          PROVE  v.blk[k][i] = IF k = at.wblk + 1 /\ at.wpos < i /\ i <= at.wpos + 1
                               THEN d[i - at.wpos] ELSE at.blk[k][i]
      <3>1. at.wpos < i /\ i <= at.wpos + 1 <=> i = at.wpos + 1
        BY <1>1, <1>4
      <3>2. i = at.wpos + 1 => i - at.wpos = 1
        BY <1>4
      <3> QED
        BY <1>6, <1>8, <1>9, <3>1, <3>2
    <2> QED
      BY <1>6, <1>8, <2>1 DEF StoredIn
  <1>10. ASSUME NEW d, d[1] = byte PROVE Wrote(w, v, d, 1)
    BY <1>1, <1>2, <1>5, <1>9, <1>10, StoredCells
  <1>11. WriterOK(v)
    <2>1. <<byte>>[1] = byte
      OBVIOUS
    <2> QED
      BY <1>1, <1>2, <1>5, <1>7, <1>9, <2>1, StoredIsOK
  <1> QED
    BY <1>10, <1>11 DEF v

LEMMA NothingWritten ==
    ASSUME SaaParameters, NEW w, WriterOK(w), NEW d
    PROVE  Wrote(w, w, d, 0)
  <1>1. w.wptr \in Nat /\ w.datalen \in Nat /\ w.wptr <= w.datalen
    BY DEF WriterOK, WriterTypes
  <1> QED
    BY <1>1 DEF Wrote

LEMMA WritesFollow ==
    ASSUME SaaParameters, NEW w, WriterOK(w), NEW n \in Nat, NEW d,
           NEW u, WriterOK(u), Wrote(w, u, d, n),
           NEW e, e[1] = d[n + 1], NEW v, WriterOK(v), Wrote(u, v, e, 1)
    PROVE  Wrote(w, v, d, n + 1)
  <1>1. /\ w.wptr \in Nat /\ w.datalen \in Nat /\ w.wptr <= w.datalen
        /\ u.wptr = w.wptr + n /\ v.wptr = w.wptr + n + 1 /\ v.wptr = w.wptr + (n + 1)
        /\ u.datalen = IF w.datalen < w.wptr + n THEN w.wptr + n ELSE w.datalen
        /\ v.datalen = IF u.datalen < w.wptr + n + 1 THEN w.wptr + n + 1 ELSE u.datalen
    <2>1. w.wptr \in Nat /\ w.datalen \in Nat /\ w.wptr <= w.datalen
      BY DEF WriterOK, WriterTypes
    <2>2. /\ u.wptr = w.wptr + n /\ v.wptr = u.wptr + 1
          /\ u.datalen = IF w.datalen < w.wptr + n THEN w.wptr + n ELSE w.datalen
          /\ v.datalen = IF u.datalen < u.wptr + 1 THEN u.wptr + 1 ELSE u.datalen
      BY DEF Wrote
    <2> QED
      BY ONLY <2>1, <2>2, n \in Nat
  <1>2. v.datalen = IF w.datalen < w.wptr + (n + 1) THEN w.wptr + (n + 1) ELSE w.datalen
    BY <1>1
  <1>3. ASSUME NEW j \in 0..v.datalen - 1
        PROVE  CellOf(v.blk, j) = IF w.wptr <= j /\ j < w.wptr + (n + 1)
                                  THEN d[j - w.wptr + 1] ELSE CellOf(w.blk, j)
    <2>1. CellOf(v.blk, j) = IF u.wptr <= j /\ j < u.wptr + 1
                             THEN e[j - u.wptr + 1] ELSE CellOf(u.blk, j)
      BY DEF Wrote
    <2>2. CASE j = w.wptr + n
      <3>1. /\ u.wptr <= j /\ j < u.wptr + 1 /\ j - u.wptr + 1 = 1
            /\ w.wptr <= j /\ j < w.wptr + (n + 1) /\ j - w.wptr + 1 = n + 1
        BY <1>1, <2>2
      <3> QED
        BY <2>1, <3>1
    <2>3. CASE j # w.wptr + n
      <3>1. j \in 0..u.datalen - 1
        BY <1>1, <2>3
      <3>2. CellOf(u.blk, j) = IF w.wptr <= j /\ j < w.wptr + n
                               THEN d[j - w.wptr + 1] ELSE CellOf(w.blk, j)
        BY <3>1 DEF Wrote
      <3>3. /\ ~(u.wptr <= j /\ j < u.wptr + 1)
            /\ j < w.wptr + n <=> j < w.wptr + (n + 1)
        BY <1>1, <2>3
      <3> QED
        BY <2>1, <3>2, <3>3
    <2> QED
      BY <2>2, <2>3
  <1> QED
    BY <1>1, <1>2, <1>3 DEF Wrote

(* What the function of saa_wbytes is at i, given the function.            *)
WrittenAt(w, d, f, i) == IF i = 0 THEN w ELSE Put(f[i - 1], d[i])

LEMMA WrittenExists ==
    ASSUME NEW w, NEW d, NEW n \in Nat
    PROVE  \E f : f = [i \in 0..n |-> WrittenAt(w, d, f, i)]
  <1> DEFINE None == {m \in 0..n : ~\E f : f = [i \in 0..m |-> WrittenAt(w, d, f, i)]}
  <1>1. SUFFICES ASSUME None # {} PROVE FALSE
    BY <1>1
  <1>2. PICK m \in None : \A k \in None : m <= k
    <2>1. None \subseteq Nat
      OBVIOUS
    <2> HIDE DEF None
    <2> QED
      BY <1>1, <2>1, LeastOf
  <1>3. m \in 0..n /\ m # 0
    <2> DEFINE g == [i \in 0..0 |-> w]
    <2>1. g = [i \in 0..0 |-> WrittenAt(w, d, g, i)]
      BY DEF WrittenAt
    <2> QED
      BY <2>1
  <1>4. PICK f : f = [i \in 0..m - 1 |-> WrittenAt(w, d, f, i)]
    <2>1. m - 1 \in 0..n /\ m - 1 \notin None
      BY <1>2, <1>3
    <2> QED
      BY <2>1
  <1> DEFINE g == [i \in 0..m |-> IF i = m THEN WrittenAt(w, d, f, m) ELSE f[i]]
  <1>5. ASSUME NEW i \in 0..m PROVE g[i] = WrittenAt(w, d, g, i)
    <2>1. i > 0 => i - 1 \in 0..m - 1 /\ g[i - 1] = f[i - 1]
      BY <1>3
    <2>2. g[i] = WrittenAt(w, d, f, i)
      <3>1. CASE i = m
        BY <3>1
      <3>2. CASE i # m
        <4>1. i \in 0..m - 1 /\ g[i] = f[i]
          BY <3>2, <1>3
        <4> HIDE DEF g
        <4> QED
          BY <4>1, <1>4
      <3> QED
        BY <3>1, <3>2
    <2> HIDE DEF g
    <2>3. WrittenAt(w, d, f, i) = WrittenAt(w, d, g, i)
      BY <1>3, <2>1 DEF WrittenAt
    <2> QED
      BY <2>2, <2>3
  <1>6. g = [i \in 0..m |-> WrittenAt(w, d, g, i)]
    <2>1. g = [i \in 0..m |-> g[i]]
      OBVIOUS
    <2> HIDE DEF g
    <2> QED
      BY <1>5, <2>1
  <1> QED
    BY <1>2, <1>6

LEMMA WrittenIsFunction ==
    ASSUME NEW w, NEW d, Len(d) \in Nat
    PROVE  \E f : /\ f = [i \in 0..Len(d) |-> WrittenAt(w, d, f, i)]
                  /\ saa_wbytes(w, d) = f[Len(d)]
  <1> DEFINE written == CHOOSE f : f = [i \in 0..Len(d) |->
                            IF i = 0 THEN w ELSE Put(f[i - 1], d[i])]
  <1>1. saa_wbytes(w, d) = written[Len(d)]
    BY DEF saa_wbytes
  <1>2. \E f : f = [i \in 0..Len(d) |-> IF i = 0 THEN w ELSE Put(f[i - 1], d[i])]
    <2>1. \E f : f = [i \in 0..Len(d) |-> WrittenAt(w, d, f, i)]
      BY WrittenExists
    <2> QED
      BY <2>1, Zenon DEF WrittenAt
  <1>3. written = [i \in 0..Len(d) |->
                      IF i = 0 THEN w ELSE Put(written[i - 1], d[i])]
    BY <1>2, Zenon
  <1> HIDE DEF written
  <1> QED
    BY <1>1, <1>3 DEF WrittenAt

LEMMA BytesAreWritten ==
    ASSUME SaaParameters, NEW w, WriterOK(w), NEW d \in Seq(Cell)
    PROVE  /\ WriterOK(saa_wbytes(w, d))
           /\ Wrote(w, saa_wbytes(w, d), d, Len(d))
  <1>1. Len(d) \in Nat /\ \A i \in 1..Len(d) : d[i] \in Cell
    BY LenProperties, ElementOfSeq
  <1>2. PICK f : /\ f = [i \in 0..Len(d) |-> WrittenAt(w, d, f, i)]
                 /\ saa_wbytes(w, d) = f[Len(d)]
    BY <1>1, WrittenIsFunction
  <1>3. f[0] = w /\ \A i \in 1..Len(d) : f[i] = Put(f[i - 1], d[i])
    <2>1. \A i \in 0..Len(d) : f[i] = WrittenAt(w, d, f, i)
      BY <1>2
    <2>2. 0 \in 0..Len(d) /\ \A i \in 1..Len(d) : i \in 0..Len(d) /\ i # 0
      BY <1>1
    <2> QED
      BY <2>1, <2>2 DEF WrittenAt
  <1> DEFINE Right(n) == WriterOK(f[n]) /\ Wrote(w, f[n], d, n)
             Wrong == {n \in 0..Len(d) : ~Right(n)}
  <1>4. SUFFICES ASSUME Wrong # {} PROVE FALSE
    <2>1. Len(d) \in 0..Len(d)
      BY <1>1
    <2> QED
      BY <1>2, <1>4, <2>1
  <1>5. PICK m \in Wrong : \A k \in Wrong : m <= k
    <2>1. Wrong \subseteq Nat
      OBVIOUS
    <2> HIDE DEF Wrong
    <2> QED
      BY <1>4, <2>1, LeastOf
  <1>6. m \in 1..Len(d)
    <2>1. Right(0)
      BY <1>3, NothingWritten
    <2>2. m # 0
      BY <1>5, <2>1
    <2> QED
      BY <1>1, <1>5, <2>2
  <1>7. Right(m - 1)
    <2>1. m - 1 \in 0..Len(d) /\ m - 1 < m
      BY <1>1, <1>6
    <2>2. m - 1 \notin Wrong
      BY <1>1, <1>5, <1>6, <2>1
    <2> QED
      BY <2>1, <2>2
  <1>8. Right(m)
    <2> DEFINE e == [i \in {1} |-> d[m]]
    <2>1. e[1] = d[(m - 1) + 1] /\ e[1] = d[m] /\ m - 1 \in Nat /\ (m - 1) + 1 = m
      BY <1>1, <1>6
    <2>2. WriterOK(f[m]) /\ Wrote(f[m - 1], f[m], e, 1)
      BY <1>1, <1>3, <1>6, <1>7, <2>1, PutIs
    <2> HIDE DEF e
    <2>3. Wrote(w, f[m], d, (m - 1) + 1)
      BY <1>7, <2>1, <2>2, WritesFollow
    <2> QED
      BY <2>1, <2>2, <2>3
  <1> QED
    BY <1>5, <1>8

-----------------------------------------------------------------------------
(* The bytes of an array after a write.                                    *)

Bytes0(w) == [i \in 1..w.datalen |-> CellOf(w.blk, i - 1)]

LEMMA BytesAreSeq ==
    ASSUME SaaParameters, NEW w, WriterOK(w)
    PROVE  /\ Bytes0(w) \in Seq(Cell) /\ Len(Bytes0(w)) = w.datalen
           /\ w.datalen \in Nat
  <1>1. blk_len \in Nat \ {0}
    BY BlockLength
  <1>2. /\ w.datalen \in Nat /\ w.blk \in Seq(Block) /\ Len(w.blk) \in Nat
        /\ w.datalen <= Len(w.blk) * blk_len
    BY LenProperties DEF WriterOK, WriterTypes, length
  <1>3. ASSUME NEW i \in 1..w.datalen PROVE CellOf(w.blk, i - 1) \in Cell
    <2> DEFINE j == i - 1
    <2>1. j \in Nat /\ j < Len(w.blk) * blk_len
      BY <1>1, <1>2
    <2> HIDE DEF j
    <2>2. (j \div blk_len) + 1 \in 1..Len(w.blk) /\ (j % blk_len) + 1 \in 1..blk_len
      BY <1>1, <1>2, <2>1, BlockOfPlace
    <2>3. w.blk[(j \div blk_len) + 1] \in Block
      BY <1>2, <2>2, ElementOfSeq
    <2> QED
      BY <2>2, <2>3 DEF CellOf, Block, j
  <1>4. Bytes0(w) \in [1..w.datalen -> Cell]
    BY <1>3 DEF Bytes0
  <1> QED
    BY <1>2, <1>4, FunctionIsSeq

(* A write at the cursor is the one of ByteArray.                          *)
LEMMA WritesAgree ==
    ASSUME SaaParameters, NEW w, WriterOK(w), NEW v, WriterOK(v),
           NEW d \in Seq(Cell), Wrote(w, v, d, Len(d))
    PROVE  Bytes0(v) = Array!Written(Bytes0(w), w.wptr, d)
  <1>1. /\ Len(d) \in Nat /\ w.wptr \in Nat /\ w.datalen \in Nat
        /\ w.wptr <= w.datalen /\ Len(Bytes0(w)) = w.datalen
    BY BytesAreSeq, LenProperties DEF WriterOK, WriterTypes
  <1>2. v.datalen = Array!Longer(Len(Bytes0(w)), w.wptr + Len(d)) /\ v.datalen \in Nat
    BY <1>1 DEF Wrote, Array!Longer
  <1>3. ASSUME NEW i \in 1..v.datalen
        PROVE  CellOf(v.blk, i - 1) =
                  IF i > w.wptr /\ i <= w.wptr + Len(d) THEN d[i - w.wptr]
                  ELSE IF i <= Len(Bytes0(w)) THEN Bytes0(w)[i] ELSE 0
    <2> DEFINE j == i - 1
    <2>1. j \in 0..v.datalen - 1 /\ j \in Int /\ j + 1 = i
      BY <1>2
    <2> HIDE DEF j
    <2>2. CellOf(v.blk, j) = IF w.wptr <= j /\ j < w.wptr + Len(d)
                             THEN d[j - w.wptr + 1] ELSE CellOf(w.blk, j)
      BY <2>1 DEF Wrote
    <2>3. /\ w.wptr <= j /\ j < w.wptr + Len(d) <=> i > w.wptr /\ i <= w.wptr + Len(d)
          /\ j - w.wptr + 1 = i - w.wptr
      BY <1>1, <2>1
    <2>4. ASSUME ~(i > w.wptr /\ i <= w.wptr + Len(d))
          PROVE  i <= Len(Bytes0(w)) /\ Bytes0(w)[i] = CellOf(w.blk, j)
      <3>1. i \in 1..w.datalen
        <4>1. v.datalen = IF w.datalen < w.wptr + Len(d) THEN w.wptr + Len(d) ELSE w.datalen
          BY DEF Wrote
        <4> QED
          BY <1>1, <1>2, <2>4, <4>1
      <3> QED
        BY <1>1, <3>1 DEF Bytes0, j
    <2> QED
      BY <2>2, <2>3, <2>4 DEF j
  <1> QED
    BY <1>2, <1>3 DEF Array!Written, Bytes0

-----------------------------------------------------------------------------
(* The invariant and the writes.                                           *)

ReaderTypes == [rblk : Nat, rpos : 0..blk_len, rptr : Nat, got : Seq(Cell)]
ReaderOK(r) ==
    /\ r \in ReaderTypes
    /\ r.rptr = r.rblk * blk_len + r.rpos

SaaInv ==
    /\ WriterOK(Writer)
    /\ rblk \in Nat /\ rpos \in 0..blk_len /\ rptr \in Nat
    /\ rptr = rblk * blk_len + rpos

LEMMA WriterBecomes ==
    ASSUME NEW v \in WriterTypes, Becomes(v)
    PROVE  Writer' = v
  BY DEF Writer, Becomes, WriterTypes

LEMMA ContentsIs ==
    Contents = Bytes0(Writer) /\ Contents' = Bytes0(Writer')
  <1>1. Contents = Bytes0(Writer)
    BY DEF Contents, Bytes0, Writer, CellOf
  <1>2. Contents' = Bytes0(Writer')
    BY DEF Contents, Bytes0, Writer, CellOf
  <1> QED
    BY <1>1, <1>2

(* What is written at the cursor is written to the array.                  *)
LEMMA WriteMaps ==
    ASSUME SaaParameters, WriterOK(Writer), NEW v, WriterOK(v), Becomes(v),
           NEW d \in Seq(Cell), Wrote(Writer, v, d, Len(d)), UNCHANGED readVars
    PROVE  WriterOK(Writer)' /\ Array!Write(d)
  <1>1. Writer' = v
    BY WriterBecomes DEF WriterOK
  <1>2. Bytes0(v) = Array!Written(Bytes0(Writer), Writer.wptr, d)
    BY WritesAgree
  <1>3. Contents' = Bytes0(v)
    BY <1>1, ContentsIs
  <1>4. v.wptr = Writer.wptr + Len(d) /\ Writer.wptr = wptr /\ wptr' = v.wptr
    BY DEF Wrote, Writer, Becomes
  <1>5. Contents' = Array!Written(Contents, wptr, d) /\ wptr' = wptr + Len(d)
    BY <1>2, <1>3, <1>4, ContentsIs
  <1>6. WriterOK(Writer')
    BY <1>1
  <1> QED
    BY <1>5, <1>6 DEF Array!Write, readVars

LEMMA DataAreCells ==
    ASSUME SaaParameters, NEW d \in Data
    PROVE  d \in Seq(Cell) /\ Len(d) \in Nat
  <1>1. d \in Seq(Int)
    BY DEF SaaParameters
  <1>2. Len(d) \in Nat /\ d \in [1..Len(d) -> Int]
    BY <1>1, LenProperties
  <1>3. d \in [1..Len(d) -> Cell]
    BY <1>2 DEF Cell
  <1> QED
    BY <1>2, <1>3, FunctionIsSeq

LEMMA BytesMaps ==
    ASSUME SaaParameters, SaaInv, NEW d \in Data, Bytes(d)
    PROVE  SaaInv' /\ Array!Write(d)
  <1>1. d \in Seq(Cell)
    BY DataAreCells
  <1>2. /\ WriterOK(saa_wbytes(Writer, d))
        /\ Wrote(Writer, saa_wbytes(Writer, d), d, Len(d))
    BY <1>1, BytesAreWritten DEF SaaInv
  <1>3. Becomes(saa_wbytes(Writer, d)) /\ UNCHANGED readVars
    BY DEF Bytes
  <1>4. WriterOK(Writer)' /\ Array!Write(d)
    BY <1>1, <1>2, <1>3, WriteMaps DEF SaaInv
  <1> QED
    BY <1>3, <1>4 DEF SaaInv, readVars

-----------------------------------------------------------------------------
(* saa_wstruct.                                                            *)

(* A block has room for another structure, or it is full.                  *)
LEMMA StructuresFit ==
    ASSUME NEW e \in Nat \ {0}, NEW k \in Nat, NEW p \in Nat, p % e = 0,
           p <= k * e
    PROVE  p + e > k * e <=> p = k * e
  <1> DEFINE q == p \div e
  <1>1. q \in Int /\ p = q * e + (p % e) /\ k * e \in Int
    BY Division
  <1> HIDE DEF q
  <1>2. p = q * e /\ q * e \in Int
    BY <1>1
  <1>3. CASE q < k
    <2>1. q * e + e <= k * e
      BY <1>1, <1>3, ProductsGrow
    <2> QED
      BY <1>1, <1>2, <2>1
  <1>4. CASE k < q
    <2>1. k * e + e <= q * e
      BY <1>1, <1>4, ProductsGrow
    <2> QED
      BY <1>1, <1>2, <2>1
  <1>5. CASE q = k
    BY <1>1, <1>2, <1>5
  <1> QED
    BY <1>1, <1>3, <1>4, <1>5

LEMMA StructMaps ==
    ASSUME SaaParameters, SaaInv, NEW d \in Data, saa_wstruct(d)
    PROVE  SaaInv' /\ Array!Write(d)
  <1> DEFINE w == Writer
             n == elem_len
             moved == [w EXCEPT !.wblk = @ + 1, !.wpos = 0,
                        !.blk = IF wptr + n > length(@)
                                THEN Append(@, NewBlock) ELSE @]
             at == IF wpos + n > blk_len THEN moved ELSE w
             b == [at.blk EXCEPT ![at.wblk + 1] =
                      [i \in 1..blk_len |->
                         IF i > at.wpos /\ i <= at.wpos + n
                         THEN d[i - at.wpos] ELSE @[i]]]
             top == IF at.datalen < at.wptr + n THEN at.wptr + n ELSE at.datalen
             v == [at EXCEPT !.blk = b, !.wpos = at.wpos + n,
                             !.wptr = at.wptr + n, !.datalen = top]
  <1>1. /\ blk_len \in Nat \ {0} /\ n \in Nat \ {0}
        /\ \E k \in Nat \ {0} : blk_len = k * n
    BY BlockLength
  <1>2. /\ d \in Seq(Cell) /\ Len(d) = n /\ wpos % n = 0
        /\ Becomes(v) /\ UNCHANGED readVars
    BY DataAreCells DEF saa_wstruct
  <1>3. /\ WriterOK(w) /\ w \in WriterTypes
        /\ w.wpos = wpos /\ w.wptr = wptr /\ w.blk = blk
        /\ wpos \in 0..blk_len /\ wptr \in Nat /\ blk \in Seq(Block)
    BY DEF SaaInv, WriterOK, WriterTypes, Writer
  <1>4. wpos + n > blk_len <=> wpos = blk_len
    <2>1. PICK k \in Nat \ {0} : blk_len = k * n
      BY <1>1
    <2>2. wpos \in Nat /\ wpos <= k * n /\ k \in Nat
      BY <1>1, <1>3, <2>1
    <2>3. wpos + n > k * n <=> wpos = k * n
      BY <1>1, <1>2, <2>2, StructuresFit
    <2> QED
      BY <2>1, <2>3
  <1>5. wpos = blk_len => (wptr + n > length(blk) <=> wptr >= length(blk))
    <2> SUFFICES ASSUME wpos = blk_len
                 PROVE  wptr + n > length(blk) <=> wptr >= length(blk)
      OBVIOUS
    <2> DEFINE q == w.wblk
               N == Len(blk)
    <2>1. /\ q \in Int /\ N \in Nat \ {0} /\ wptr \in Nat
          /\ wptr = q * blk_len + blk_len /\ wptr <= N * blk_len
          /\ length(blk) = N * blk_len
      <3>1. N \in Nat
        BY <1>3, LenProperties
      <3> QED
        BY <1>1, <1>3, <3>1 DEF WriterOK, WriterTypes, length
    <2> HIDE DEF q, N
    <2>2. wptr = (q + 1) * blk_len /\ q + 1 \in 0..N
      BY <1>1, <2>1, CursorAtEnd
    <2>4. q + 1 < N => (q + 1) * blk_len + blk_len <= N * blk_len
      BY <1>1, <2>1, ProductsGrow
    <2>5. n <= blk_len
      BY <1>1, NoLess
    <2>6. q + 1 = N \/ q + 1 < N
      BY <2>1, <2>2
    <2>7. N * blk_len \in Int /\ (q + 1) * blk_len \in Int
      BY <1>1, <2>1
    <2> QED
      BY <1>1, <2>1, <2>2, <2>4, <2>5, <2>6, <2>7
  <1>6. at = IF w.wpos = blk_len THEN NextBlock(w) ELSE w
    BY <1>3, <1>4, <1>5 DEF NextBlock
  <1>7. Placed(w, at) /\ at.wpos + n <= blk_len /\ n \in 1..blk_len
    <2>1. Placed(w, at)
      BY <1>3, <1>6, NextIsPlaced, WriterIsPlaced
    <2> QED
      <3>1. w.wpos = blk_len => at.wpos = 0
        BY <1>3, <1>6 DEF NextBlock, WriterTypes
      <3>2. w.wpos # blk_len => at.wpos = wpos /\ wpos + n <= blk_len
        BY <1>1, <1>3, <1>4, <1>6
      <3>3. n <= blk_len
        BY <1>1, <1>3, NoLess
      <3> QED
        BY <1>1, <1>3, <2>1, <3>1, <3>2, <3>3
  <1>8. v = [at EXCEPT !.blk = b, !.wpos = at.wpos + n,
                       !.wptr = at.wptr + n, !.datalen = top]
    OBVIOUS
  <1> HIDE DEF at, v
  <1>9. /\ at \in WriterTypes /\ at.blk \in Seq(Block) /\ at.wptr \in Nat
        /\ at.datalen \in Nat /\ at.wblk \in 0..Len(at.blk) - 1
        /\ at.wpos \in 0..blk_len /\ at.wpos < blk_len /\ Len(at.blk) \in Nat
        /\ at.wblk + 1 \in 1..Len(at.blk)
    <2>1. at \in WriterTypes /\ at.wblk \in 0..Len(at.blk) - 1 /\ at.wpos < blk_len
      BY <1>7 DEF Placed
    <2>2. at.blk \in Seq(Block) /\ Len(at.blk) \in Nat
      BY <2>1, LenProperties DEF WriterTypes
    <2> QED
      BY <2>1, <2>2 DEF WriterTypes
  <1>10. /\ b \in Seq(Block) /\ Len(b) = Len(at.blk)
         /\ \A k \in 1..Len(at.blk) : \A i \in 1..blk_len :
              b[k][i] = IF k = at.wblk + 1 /\ at.wpos < i /\ i <= at.wpos + n
                        THEN d[i - at.wpos] ELSE at.blk[k][i]
    <2> DEFINE old == at.blk[at.wblk + 1]
               new == [i \in 1..blk_len |->
                         IF i > at.wpos /\ i <= at.wpos + n
                         THEN d[i - at.wpos] ELSE old[i]]
    <2>1. old \in Block
      BY <1>9, ElementOfSeq
    <2>2. ASSUME NEW i \in 1..blk_len
          PROVE  /\ new[i] \in Cell
                 /\ new[i] = IF at.wpos < i /\ i <= at.wpos + n
                             THEN d[i - at.wpos] ELSE old[i]
      <3>1. new[i] = IF at.wpos < i /\ i <= at.wpos + n
                     THEN d[i - at.wpos] ELSE old[i]
        BY <1>9
      <3>2. at.wpos < i /\ i <= at.wpos + n => i - at.wpos \in 1..Len(d)
        BY <1>1, <1>2, <1>9
      <3>3. at.wpos < i /\ i <= at.wpos + n => d[i - at.wpos] \in Cell
        BY <1>2, <3>2, ElementOfSeq
      <3>4. old[i] \in Cell
        BY <2>1 DEF Block
      <3> HIDE DEF new, old
      <3> QED
        BY <3>1, <3>3, <3>4
    <2>3. new \in Block
      BY <2>2 DEF Block
    <2>4. b = [at.blk EXCEPT ![at.wblk + 1] = new]
      OBVIOUS
    <2> HIDE DEF new, old, b
    <2>5. /\ b \in Seq(Block) /\ Len(b) = Len(at.blk)
          /\ \A k \in 1..Len(at.blk) : b[k] = IF k = at.wblk + 1 THEN new ELSE at.blk[k]
      BY <1>9, <2>3, <2>4, ExceptSeq
    <2> QED
      BY <2>2, <2>5 DEF old
  <1> HIDE DEF b
  <1>11. /\ at.wpos + n \in 0..blk_len /\ at.wptr + n \in Nat /\ top \in Nat
    BY <1>1, <1>7, <1>9
  <1> HIDE DEF top
  <1>12. v \in WriterTypes
    BY <1>8, <1>9, <1>10, <1>11 DEF WriterTypes
  <1>13. StoredIn(at, v, d, n)
    <2>1. /\ v.blk = b /\ v.wblk = at.wblk /\ v.wpos = at.wpos + n
          /\ v.wptr = at.wptr + n /\ v.datalen = top
      BY <1>8, <1>9 DEF WriterTypes
    <2> QED
      BY <1>10, <2>1 DEF StoredIn, top
  <1> HIDE DEF w, n
  <1>14. WriterOK(v) /\ Wrote(w, v, d, n)
    BY <1>3, <1>7, <1>12, <1>13, StoredIsOK, StoredCells
  <1>15. WriterOK(Writer)' /\ Array!Write(d)
    BY <1>2, <1>3, <1>14, WriteMaps DEF w
  <1> QED
    BY <1>2, <1>15 DEF SaaInv, readVars

-----------------------------------------------------------------------------
(* saa_fwrite.                                                             *)

LEMMA SetAtIs ==
    ASSUME SaaParameters, NEW w, WriterOK(w), NEW posn \in Nat, posn <= w.datalen
    PROVE  /\ WriterOK(SetAt(w, posn)) /\ SetAt(w, posn).wptr = posn
           /\ Bytes0(SetAt(w, posn)) = Bytes0(w)
  <1> DEFINE B == blk_len
             q == posn \div B
             r == posn % B
             u == SetAt(w, posn)
             ub == q - (IF r = 0 THEN 1 ELSE 0)
             up == IF r = 0 THEN B ELSE r
  <1>1. B \in Nat \ {0}
    BY BlockLength
  <1>2. /\ w \in WriterTypes /\ w.datalen \in Nat /\ w.datalen <= length(w.blk)
        /\ length(w.blk) < w.datalen + B \/ Len(w.blk) = 1
        /\ Len(w.blk) # 0
    BY DEF WriterOK, WriterTypes
  <1>3. q \in Int /\ r \in 0..B - 1 /\ posn = q * B + r /\ posn \in Int
    BY <1>1, Division
  <1>4. u = [w EXCEPT !.wptr = posn, !.wblk = ub, !.wpos = up]
    BY DEF SetAt
  <1> HIDE DEF q, r, u
  <1>5. /\ ub \in Int /\ up \in 0..B /\ up # 0
    BY <1>1, <1>3
  <1>6. posn = ub * B + up
    <2>1. CASE r = 0
      <3>1. (q - 1) * B = q * B - B
        BY <1>1, <1>3
      <3> QED
        BY <1>1, <1>3, <2>1, <3>1
    <2>2. CASE r # 0
      BY <1>3, <2>2
    <2> QED
      BY <2>1, <2>2
  <1> HIDE DEF ub, up
  <1>7. /\ u \in WriterTypes /\ u.wptr = posn /\ u.wblk = ub /\ u.wpos = up
        /\ u.blk = w.blk /\ u.datalen = w.datalen
    BY <1>2, <1>4, <1>5 DEF WriterTypes
  <1>8. WriterOK(u)
    BY <1>2, <1>5, <1>6, <1>7 DEF WriterOK
  <1>9. Bytes0(u) = Bytes0(w)
    BY <1>7 DEF Bytes0
  <1> QED
    BY <1>7, <1>8, <1>9 DEF u

(* Writing zeros and d after them is writing d behind a gap.               *)
LEMMA PaddedWrite ==
    ASSUME NEW b \in Seq(Cell), NEW posn \in Nat, NEW d \in Seq(Cell),
           NEW start \in Nat, posn > Len(b) => start = Len(b),
           ~(posn > Len(b)) => start = posn,
           NEW z \in [1..posn - start -> {0}]
    PROVE  /\ Array!Written(b, start, z \o d) = Array!Written(b, posn, d)
           /\ Len(z \o d) = posn - start + Len(d)
  <1> DEFINE e == z \o d
             m == posn - start
  <1>1. Len(b) \in Nat /\ Len(d) \in Nat /\ m \in Nat
    BY LenProperties
  <1>2. z \in Seq(Cell) /\ Len(z) = m
    <2>1. z \in [1..m -> Cell]
      BY DEF Cell
    <2> HIDE DEF m
    <2> QED
      BY <1>1, <2>1, FunctionIsSeq
  <1>3. \A i \in 1..m : z[i] = 0
    OBVIOUS
  <1>4. e = z \o d
    OBVIOUS
  <1> HIDE DEF e
  <1> HIDE DEF m
  <1>5. /\ Len(e) = m + Len(d)
        /\ \A i \in 1..m + Len(d) : e[i] = IF i <= m THEN z[i] ELSE d[i - m]
    <2>1. /\ Len(z \o d) = Len(z) + Len(d)
          /\ \A i \in 1..Len(z) + Len(d) :
                (z \o d)[i] = IF i <= Len(z) THEN z[i] ELSE d[i - Len(z)]
      BY <1>2, ConcatProperties
    <2> QED
      BY <1>2, <1>4, <2>1
  <1> USE DEF m
  <1>6. Array!Longer(Len(b), start + Len(e)) = Array!Longer(Len(b), posn + Len(d))
    BY <1>1, <1>5 DEF Array!Longer
  <1>7. ASSUME NEW i \in 1..Array!Longer(Len(b), posn + Len(d))
        PROVE  (IF i > start /\ i <= start + Len(e) THEN e[i - start]
                ELSE IF i <= Len(b) THEN b[i] ELSE 0)
               = (IF i > posn /\ i <= posn + Len(d) THEN d[i - posn]
                  ELSE IF i <= Len(b) THEN b[i] ELSE 0)
    <2>1. i \in Nat /\ i > 0 /\ (i <= Len(b) \/ i <= posn + Len(d))
      BY <1>1 DEF Array!Longer
    <2>2. start + Len(e) = posn + Len(d)
      BY <1>1, <1>5
    <2>3. CASE i <= start
      BY <1>1, <2>1, <2>3
    <2>4. CASE i > start /\ i <= posn
      <3>1. i - start \in 1..m /\ i > Len(b)
        BY <1>1, <2>1, <2>4
      <3>2. e[i - start] = 0
        <4>1. i - start \in 1..m + Len(d) /\ i - start <= m
          BY <1>1, <3>1
        <4> QED
          BY <1>3, <1>5, <3>1, <4>1
      <3> QED
        BY <1>1, <2>1, <2>2, <2>4, <3>1, <3>2
    <2>5. CASE i > posn /\ i <= posn + Len(d)
      <3>1. i - start \in 1..m + Len(d) /\ ~(i - start <= m) /\ i - start - m = i - posn
        BY <1>1, <2>1, <2>5
      <3>2. e[i - start] = d[i - posn]
        BY <1>5, <3>1
      <3> QED
        BY <1>1, <2>1, <2>2, <2>5, <3>2
    <2>6. CASE i > posn + Len(d)
      BY <1>1, <2>1, <2>2, <2>6
    <2>7. i <= start \/ (i > start /\ i <= posn)
          \/ (i > posn /\ i <= posn + Len(d)) \/ i > posn + Len(d)
      <3>1. i \in Int /\ start \in Int /\ posn \in Int /\ Len(d) \in Int
        BY <1>1, <2>1
      <3> HIDE DEF m
      <3> QED
        BY <3>1
    <2> QED
      BY <2>3, <2>4, <2>5, <2>6, <2>7
  <1>8. Array!Written(b, start, e) = Array!Written(b, posn, d)
    BY <1>1, <1>5, <1>6, <1>7 DEF Array!Written
  <1> QED
    BY <1>5, <1>8 DEF e

LEMMA WriteAtMaps ==
    ASSUME SaaParameters, SaaInv, NEW d \in Data, NEW posn \in Positions,
           saa_fwrite(posn, d)
    PROVE  SaaInv' /\ Array!WriteAt(posn, d)
  <1> DEFINE w == Writer
             start == IF posn > datalen THEN datalen ELSE posn
             z == [i \in 1..posn - start |-> 0]
             e == z \o d
             u == SetAt(w, start)
             v == saa_wbytes(u, e)
  <1>1. Becomes(v) /\ UNCHANGED readVars
    BY DEF saa_fwrite
  <1>2. posn \in Nat /\ datalen \in Nat /\ start \in Nat /\ start <= datalen
        /\ posn - start \in Nat /\ WriterOK(w) /\ w.datalen = datalen
    BY DEF SaaParameters, SaaInv, WriterOK, WriterTypes, Writer
  <1>3. d \in Seq(Cell) /\ Len(d) \in Nat
    BY DataAreCells
  <1>4. z \in Seq(Cell)
    <2> DEFINE m == posn - start
    <2>1. z \in [1..m -> Cell] /\ m \in Nat
      BY <1>2 DEF Cell
    <2> HIDE DEF z, m
    <2> QED
      BY <2>1, FunctionIsSeq
  <1>5. e \in Seq(Cell)
    BY <1>3, <1>4, ConcatProperties
  <1>6. /\ WriterOK(u) /\ u.wptr = start /\ Bytes0(u) = Bytes0(w)
    BY <1>2, SetAtIs
  <1>7. Bytes0(w) \in Seq(Cell) /\ Len(Bytes0(w)) = datalen
    BY <1>2, BytesAreSeq
  <1>8. /\ Array!Written(Bytes0(w), start, e) = Array!Written(Bytes0(w), posn, d)
        /\ Len(e) = posn - start + Len(d)
    <2> DEFINE b == Bytes0(w)
    <2>1. z \in [1..posn - start -> {0}]
      OBVIOUS
    <2>2. /\ posn > Len(b) => start = Len(b)
          /\ ~(posn > Len(b)) => start = posn
      BY <1>7
    <2>3. b \in Seq(Cell)
      BY <1>7
    <2> HIDE DEF w, b, start, z
    <2>4. /\ Array!Written(b, start, z \o d) = Array!Written(b, posn, d)
          /\ Len(z \o d) = posn - start + Len(d)
      <3>1. posn \in Nat /\ start \in Nat /\ d \in Seq(Cell)
        BY <1>2, <1>3
      <3> QED
        BY <2>1, <2>2, <2>3, <3>1, PaddedWrite
    <2> QED
      BY <2>4 DEF b
  <1> HIDE DEF u, e
  <1>9. WriterOK(v) /\ Wrote(u, v, e, Len(e))
    BY <1>5, <1>6, BytesAreWritten
  <1> HIDE DEF v
  <1>10. Bytes0(v) = Array!Written(Bytes0(u), u.wptr, e)
    BY <1>5, <1>6, <1>9, WritesAgree
  <1>11. Writer' = v
    BY <1>1, <1>9, WriterBecomes DEF WriterOK
  <1>12. Contents' = Array!Written(Contents, posn, d)
    BY <1>6, <1>8, <1>10, <1>11, ContentsIs
  <1>13. wptr' = posn + Len(d)
    <2>1. wptr' = v.wptr /\ v.wptr = start + Len(e)
      BY <1>1, <1>6, <1>9 DEF Becomes, Wrote
    <2> HIDE DEF start
    <2> QED
      BY <1>2, <1>3, <1>8, <2>1
  <1>14. WriterOK(Writer')
    BY <1>9, <1>11
  <1> QED
    BY <1>1, <1>12, <1>13, <1>14 DEF SaaInv, readVars, Array!WriteAt

-----------------------------------------------------------------------------
(* Reads.                                                                  *)

(* What the blocks hold is what the array of bytes holds.                  *)
LEMMA ContentsAre ==
    ASSUME SaaParameters, WriterOK(Writer)
    PROVE  /\ Contents \in Seq(Cell) /\ Len(Contents) = datalen /\ datalen \in Nat
           /\ \A j \in 0..datalen - 1 : Contents[j + 1] = CellOf(blk, j)
           /\ blk \in Seq(Block) /\ datalen <= length(blk)
  <1>1. /\ Bytes0(Writer) \in Seq(Cell) /\ Len(Bytes0(Writer)) = Writer.datalen
        /\ Writer.datalen \in Nat
    BY BytesAreSeq
  <1>2. Writer.datalen = datalen /\ Writer.blk = blk
    BY DEF Writer
  <1>3. ASSUME NEW j \in 0..datalen - 1 PROVE Contents[j + 1] = CellOf(blk, j)
    <2>1. j + 1 \in 1..datalen /\ (j + 1) - 1 = j
      BY <1>1, <1>2
    <2>2. Contents[j + 1] = CellOf(blk, (j + 1) - 1)
      BY <2>1 DEF Contents, CellOf
    <2> QED
      BY <2>1, <2>2
  <1>4. blk \in Seq(Block) /\ datalen <= length(blk)
    BY <1>2 DEF WriterOK, WriterTypes
  <1> QED
    BY <1>1, <1>2, <1>3, <1>4, ContentsIs

(* The cell at a cursor within its block is the one of its place.          *)
LEMMA CellAtCursor ==
    ASSUME SaaParameters, NEW b, NEW q \in Int, NEW p \in Int, p >= 0, p < blk_len,
           NEW j \in Int, j = q * blk_len + p
    PROVE  b[q + 1][p + 1] = CellOf(b, j)
  <1>1. blk_len \in Nat \ {0} /\ p \in 0..blk_len - 1
    BY BlockLength
  <1>2. j \div blk_len = q /\ j % blk_len = p
    BY <1>1, DivisionIs
  <1> QED
    BY <1>2 DEF CellOf

LEMMA GetIs ==
    ASSUME SaaParameters, WriterOK(Writer), NEW r, ReaderOK(r), r.rptr < datalen
    PROVE  /\ ReaderOK(Get(r)) /\ Get(r).rptr = r.rptr + 1
           /\ Get(r).got = Append(r.got, Contents[r.rptr + 1])
  <1> DEFINE B == blk_len
             next == r.rpos >= B
             q == IF next THEN r.rblk + 1 ELSE r.rblk
             p == IF next THEN 0 ELSE r.rpos
             j == r.rptr
             at == IF next THEN [r EXCEPT !.rblk = @ + 1, !.rpos = 0] ELSE r
             byte == blk[at.rblk + 1][at.rpos + 1]
             s == Get(r)
  <1>1. B \in Nat \ {0}
    BY BlockLength
  <1>2. /\ r \in ReaderTypes /\ r.rblk \in Nat /\ r.rpos \in 0..B /\ j \in Nat
        /\ r.got \in Seq(Cell) /\ j = r.rblk * B + r.rpos
    BY DEF ReaderOK, ReaderTypes
  <1>3. at \in ReaderTypes /\ at.rblk = q /\ at.rpos = p /\ at.rptr = j /\ at.got = r.got
    <2>1. CASE next
      <3>1. at = [r EXCEPT !.rblk = r.rblk + 1, !.rpos = 0]
        BY <2>1
      <3>2. r.rblk + 1 \in Nat /\ 0 \in 0..blk_len
        BY <1>1, <1>2
      <3>3. q = r.rblk + 1 /\ p = 0
        BY <2>1
      <3> HIDE DEF at, q, p
      <3> QED
        BY <1>2, <3>1, <3>2, <3>3 DEF ReaderTypes
    <2>2. CASE ~next
      BY <1>2, <2>2
    <2> QED
      BY <2>1, <2>2
  <1>4. q \in Nat /\ p \in 0..B - 1 /\ j = q * B + p
    <2> DEFINE k == r.rblk
               l == r.rpos
    <2>1. k \in Nat /\ l \in 0..B /\ j \in Nat /\ j = k * B + l
      BY <1>2
    <2> HIDE DEF j, k, l, B
    <2>2. (k + 1) * B = k * B + B
      BY <1>1, <2>1
    <2>3. CASE l >= B
      <3>1. q = k + 1 /\ p = 0
        BY <2>3 DEF k, l
      <3>2. l = B
        BY <1>1, <2>1, <2>3
      <3> HIDE DEF q, p
      <3> QED
        BY <1>1, <2>1, <2>2, <3>1, <3>2
    <2>4. CASE ~(l >= B)
      <3>1. q = k /\ p = l
        BY <2>4 DEF k, l
      <3> HIDE DEF q, p
      <3> QED
        BY <1>1, <2>1, <2>4, <3>1
    <2> QED
      BY <2>3, <2>4
  <1>5. datalen \in Nat /\ j < datalen /\ Contents \in Seq(Cell) /\ Len(Contents) = datalen
        /\ \A i \in 0..datalen - 1 : Contents[i + 1] = CellOf(blk, i)
    BY ContentsAre
  <1> HIDE DEF q, p, j
  <1>6. byte = Contents[j + 1]
    <2>1. blk[q + 1][p + 1] = CellOf(blk, j)
      BY <1>1, <1>2, <1>4, CellAtCursor
    <2>2. j \in 0..datalen - 1
      BY <1>2, <1>5
    <2> QED
      BY <1>3, <1>5, <2>1, <2>2
  <1>7. Contents[j + 1] \in Cell
    <2>1. j + 1 \in 1..Len(Contents)
      BY <1>2, <1>5
    <2> QED
      BY <1>5, <2>1, ElementOfSeq
  <1>8. s = [at EXCEPT !.got = Append(@, byte), !.rpos = @ + 1, !.rptr = @ + 1]
    BY DEF Get
  <1>9. Append(r.got, Contents[j + 1]) \in Seq(Cell)
    BY <1>2, <1>7, AppendProperties
  <1> HIDE DEF at, byte, s
  <1>10. s = [at EXCEPT !.got = Append(r.got, Contents[j + 1]),
                        !.rpos = p + 1, !.rptr = j + 1]
    BY <1>3, <1>6, <1>8
  <1>11. p + 1 \in 0..B /\ j + 1 \in Nat
    BY <1>1, <1>2, <1>4
  <1>12. /\ s \in ReaderTypes /\ s.rblk = q /\ s.rpos = p + 1 /\ s.rptr = j + 1
         /\ s.got = Append(r.got, Contents[j + 1])
    BY <1>3, <1>9, <1>10, <1>11 DEF ReaderTypes
  <1>13. j + 1 = q * B + (p + 1)
    <2>1. q * B \in Int /\ p \in Int
      BY <1>1, <1>4
    <2> HIDE DEF B
    <2> QED
      BY <1>4, <2>1
  <1> QED
    BY <1>12, <1>13 DEF ReaderOK, s, j

-----------------------------------------------------------------------------
(* A read of several bytes.                                                *)

ReadAt(r, f, i) == IF i = 0 THEN r ELSE Get(f[i - 1])
ReadEnds(r, n) ==
    LET read[i \in 0..n] == IF i = 0 THEN r ELSE Get(read[i - 1]) IN read[n]

LEMMA ReadExists ==
    ASSUME NEW r, NEW n \in Nat
    PROVE  \E f : f = [i \in 0..n |-> ReadAt(r, f, i)]
  <1> DEFINE None == {m \in 0..n : ~\E f : f = [i \in 0..m |-> ReadAt(r, f, i)]}
  <1>1. SUFFICES ASSUME None # {} PROVE FALSE
    BY <1>1
  <1>2. PICK m \in None : \A k \in None : m <= k
    <2>1. None \subseteq Nat
      OBVIOUS
    <2> HIDE DEF None
    <2> QED
      BY <1>1, <2>1, LeastOf
  <1>3. m \in 0..n /\ m # 0
    <2> DEFINE g == [i \in 0..0 |-> r]
    <2>1. g = [i \in 0..0 |-> ReadAt(r, g, i)]
      BY DEF ReadAt
    <2> QED
      BY <2>1
  <1>4. PICK f : f = [i \in 0..m - 1 |-> ReadAt(r, f, i)]
    <2>1. m - 1 \in 0..n /\ m - 1 \notin None
      BY <1>2, <1>3
    <2> QED
      BY <2>1
  <1> DEFINE g == [i \in 0..m |-> IF i = m THEN ReadAt(r, f, m) ELSE f[i]]
  <1>5. ASSUME NEW i \in 0..m PROVE g[i] = ReadAt(r, g, i)
    <2>1. i > 0 => i - 1 \in 0..m - 1 /\ g[i - 1] = f[i - 1]
      BY <1>3
    <2>2. g[i] = ReadAt(r, f, i)
      <3>1. CASE i = m
        BY <3>1
      <3>2. CASE i # m
        <4>1. i \in 0..m - 1 /\ g[i] = f[i]
          BY <3>2, <1>3
        <4> HIDE DEF g
        <4> QED
          BY <4>1, <1>4
      <3> QED
        BY <3>1, <3>2
    <2> HIDE DEF g
    <2>3. ReadAt(r, f, i) = ReadAt(r, g, i)
      BY <1>3, <2>1 DEF ReadAt
    <2> QED
      BY <2>2, <2>3
  <1>6. g = [i \in 0..m |-> ReadAt(r, g, i)]
    <2>1. g = [i \in 0..m |-> g[i]]
      OBVIOUS
    <2> HIDE DEF g
    <2> QED
      BY <1>5, <2>1
  <1> QED
    BY <1>2, <1>6

LEMMA ReadIsFunction ==
    ASSUME NEW r, NEW n \in Nat
    PROVE  \E f : f = [i \in 0..n |-> ReadAt(r, f, i)] /\ ReadEnds(r, n) = f[n]
  <1> DEFINE read == CHOOSE f : f = [i \in 0..n |->
                         IF i = 0 THEN r ELSE Get(f[i - 1])]
  <1>1. ReadEnds(r, n) = read[n]
    BY DEF ReadEnds
  <1>2. \E f : f = [i \in 0..n |-> IF i = 0 THEN r ELSE Get(f[i - 1])]
    <2>1. \E f : f = [i \in 0..n |-> ReadAt(r, f, i)]
      BY ReadExists
    <2> QED
      BY <2>1, Zenon DEF ReadAt
  <1>3. read = [i \in 0..n |-> IF i = 0 THEN r ELSE Get(read[i - 1])]
    BY <1>2, Zenon
  <1> HIDE DEF read
  <1> QED
    BY <1>1, <1>3 DEF ReadAt

(* n bytes from r's place were read.                                       *)
Taken(r, s, n) ==
    /\ ReaderOK(s) /\ s.rptr = r.rptr + n /\ Len(s.got) = n
    /\ \A k \in 1..n : s.got[k] = Contents[r.rptr + k]

LEMMA TakesFollow ==
    ASSUME SaaParameters, WriterOK(Writer), NEW r, ReaderOK(r), NEW n \in Nat,
           r.rptr + n < datalen, NEW s, Taken(r, s, n)
    PROVE  Taken(r, Get(s), n + 1)
  <1>1. /\ r.rptr \in Nat /\ ReaderOK(s) /\ s.rptr = r.rptr + n /\ s.got \in Seq(Cell)
        /\ Len(s.got) = n /\ \A k \in 1..n : s.got[k] = Contents[r.rptr + k]
    BY DEF Taken, ReaderOK, ReaderTypes
  <1>2. /\ ReaderOK(Get(s)) /\ Get(s).rptr = s.rptr + 1
        /\ Get(s).got = Append(s.got, Contents[s.rptr + 1])
    BY <1>1, GetIs
  <1>3. Contents[s.rptr + 1] \in Cell
    <2>1. /\ Contents \in Seq(Cell) /\ Len(Contents) = datalen /\ datalen \in Nat
      BY ContentsAre
    <2>2. s.rptr + 1 \in 1..Len(Contents)
      BY <1>1, <2>1
    <2> QED
      BY <2>1, <2>2, ElementOfSeq
  <1>4. /\ Len(Get(s).got) = n + 1 /\ Get(s).got[n + 1] = Contents[s.rptr + 1]
        /\ \A k \in 1..n : Get(s).got[k] = s.got[k]
    BY <1>1, <1>2, <1>3, AppendProperties
  <1>5. s.rptr + 1 = r.rptr + (n + 1)
    BY <1>1
  <1>6. ASSUME NEW k \in 1..n + 1
        PROVE  Get(s).got[k] = Contents[r.rptr + k]
    <2>1. k \in 1..n \/ k = n + 1
      OBVIOUS
    <2> QED
      BY <1>1, <1>4, <1>5, <2>1
  <1> QED
    BY <1>2, <1>4, <1>5, <1>6 DEF Taken

LEMMA BytesAreTaken ==
    ASSUME SaaParameters, WriterOK(Writer), NEW r, ReaderOK(r), r.got = <<>>,
           NEW n \in Nat, r.rptr + n <= datalen
    PROVE  Taken(r, ReadEnds(r, n), n)
  <1>1. r.rptr \in Nat /\ datalen \in Nat
    BY ContentsAre DEF ReaderOK, ReaderTypes
  <1>2. PICK f : f = [i \in 0..n |-> ReadAt(r, f, i)] /\ ReadEnds(r, n) = f[n]
    BY ReadIsFunction
  <1>3. f[0] = r /\ \A i \in 1..n : f[i] = Get(f[i - 1])
    <2>1. \A i \in 0..n : f[i] = ReadAt(r, f, i)
      BY <1>2
    <2>2. 0 \in 0..n /\ \A i \in 1..n : i \in 0..n /\ i # 0
      OBVIOUS
    <2> QED
      BY <2>1, <2>2 DEF ReadAt
  <1> DEFINE Right(m) == Taken(r, f[m], m)
             Wrong == {m \in 0..n : ~Right(m)}
  <1>4. SUFFICES ASSUME Wrong # {} PROVE FALSE
    <2>1. n \in 0..n
      OBVIOUS
    <2> QED
      BY <1>2, <1>4, <2>1
  <1>5. PICK m \in Wrong : \A k \in Wrong : m <= k
    <2>1. Wrong \subseteq Nat
      OBVIOUS
    <2> HIDE DEF Wrong
    <2> QED
      BY <1>4, <2>1, LeastOf
  <1>6. m \in 1..n
    <2>1. Right(0)
      BY <1>1, <1>3 DEF Taken
    <2>2. m # 0
      BY <1>5, <2>1
    <2> QED
      BY <1>5, <2>2
  <1>7. Right(m - 1)
    <2>1. m - 1 \in 0..n /\ m - 1 < m
      BY <1>6
    <2>2. m - 1 \notin Wrong
      BY <1>5, <1>6, <2>1
    <2> QED
      BY <2>1, <2>2
  <1>8. Right(m)
    <2>1. m - 1 \in Nat /\ r.rptr + (m - 1) < datalen /\ (m - 1) + 1 = m
      BY <1>1, <1>6
    <2>2. Taken(r, Get(f[m - 1]), (m - 1) + 1)
      BY <1>7, <2>1, TakesFollow
    <2>3. f[m] = Get(f[m - 1])
      BY <1>3, <1>6
    <2> QED
      BY <2>1, <2>2, <2>3
  <1> QED
    BY <1>5, <1>8

(* A part of a sequence.                                                   *)
LEMMA SubIs ==
    ASSUME NEW S, NEW c \in Seq(S), NEW at \in Nat, NEW n \in Nat, at + n <= Len(c)
    PROVE  LET s == SubSeq(c, at + 1, at + n)
           IN s \in Seq(S) /\ Len(s) = n /\ \A k \in 1..n : s[k] = c[at + k]
  <1> DEFINE s == SubSeq(c, at + 1, at + n)
  <1>1. Len(c) \in Nat
    BY LenProperties
  <1>2. c \in Seq(S) /\ at + 1 \in 1..Len(c) + 1 /\ at + n \in at + 1 - 1..Len(c)
    BY <1>1
  <1>3. s = [k \in 1..(at + n) - (at + 1) + 1 |-> c[k + (at + 1) - 1]]
    BY <1>2
  <1>4. (at + n) - (at + 1) + 1 = n
    OBVIOUS
  <1>5. ASSUME NEW k \in 1..n PROVE c[k + (at + 1) - 1] = c[at + k] /\ c[at + k] \in S
    <2>1. k + (at + 1) - 1 = at + k /\ at + k \in 1..Len(c)
      BY <1>1
    <2> QED
      BY <2>1, ElementOfSeq
  <1>6. s = [k \in 1..n |-> c[at + k]]
    BY <1>3, <1>4, <1>5
  <1> HIDE DEF s
  <1>7. s \in [1..n -> S] /\ \A k \in 1..n : s[k] = c[at + k]
    BY <1>5, <1>6
  <1>8. s \in Seq(S) /\ Len(s) = n
    BY <1>7, FunctionIsSeq
  <1> QED
    BY <1>7, <1>8 DEF s

(* A read from a place is the array's.                                     *)
LEMMA TakenIsSub ==
    ASSUME SaaParameters, WriterOK(Writer), NEW at \in Nat, NEW n \in Nat,
           at + n <= datalen, NEW g \in Seq(Cell), Len(g) = n,
           \A k \in 1..n : g[k] = Contents[at + k]
    PROVE  g = SubSeq(Contents, at + 1, at + n) /\ at + n <= Len(Contents)
  <1>1. Contents \in Seq(Cell) /\ Len(Contents) = datalen /\ datalen \in Nat
    BY ContentsAre
  <1> DEFINE c == Contents
             s == SubSeq(c, at + 1, at + n)
  <1>2. /\ s \in Seq(Cell) /\ Len(s) = n
        /\ \A k \in 1..n : s[k] = c[at + k]
    <2>1. c \in Seq(Cell) /\ at + n <= Len(c)
      BY <1>1
    <2> HIDE DEF c
    <2> QED
      BY <2>1, SubIs
  <1> HIDE DEF s
  <1>3. g = s
    BY <1>2, SeqEqual
  <1> QED
    BY <1>1, <1>3 DEF s

LEMMA ReadMaps ==
    ASSUME SaaParameters, SaaInv, NEW r, ReaderOK(r), r.got = <<>>, NEW n \in Nat,
           ReadBy(r, n)
    PROVE  SaaInv' /\ Array!ReadFrom(r.rptr, n)
  <1> DEFINE s == ReadEnds(r, n)
  <1>1. /\ r.rptr + n <= datalen
        /\ rblk' = s.rblk /\ rpos' = s.rpos /\ rptr' = s.rptr /\ got' = s.got
        /\ UNCHANGED writeVars
    BY DEF ReadBy, ReadEnds
  <1>2. WriterOK(Writer)
    BY DEF SaaInv
  <1>3. Taken(r, s, n)
    BY <1>1, <1>2, BytesAreTaken
  <1> HIDE DEF s
  <1>4. /\ s.rblk \in Nat /\ s.rpos \in 0..blk_len /\ s.rptr \in Nat /\ s.got \in Seq(Cell)
        /\ s.rptr = s.rblk * blk_len + s.rpos /\ r.rptr \in Nat
        /\ s.rptr = r.rptr + n /\ Len(s.got) = n
        /\ \A k \in 1..n : s.got[k] = Contents[r.rptr + k]
    BY <1>3 DEF Taken, ReaderOK, ReaderTypes
  <1>5. s.got = SubSeq(Contents, r.rptr + 1, r.rptr + n) /\ r.rptr + n <= Len(Contents)
    BY <1>1, <1>2, <1>4, TakenIsSub
  <1>6. Contents' = Contents /\ wptr' = wptr /\ WriterOK(Writer')
    <2>1. Writer' = Writer
      BY <1>1 DEF writeVars, Writer
    <2> QED
      BY <1>1, <1>2, <2>1, ContentsIs DEF writeVars
  <1>7. SaaInv'
    BY <1>1, <1>4, <1>6 DEF SaaInv
  <1>8. Array!ReadFrom(r.rptr, n)
    BY <1>1, <1>4, <1>5, <1>6 DEF Array!ReadFrom
  <1> QED
    BY <1>7, <1>8

LEMMA StructReadMaps ==
    ASSUME SaaParameters, SaaInv, saa_rstruct
    PROVE  SaaInv' /\ Array!ReadFrom(rptr, elem_len)
  <1> DEFINE B == blk_len
             n == elem_len
             next == rpos + n > B
             q == IF next THEN rblk + 1 ELSE rblk
             p == IF next THEN 0 ELSE rpos
             c == blk[q + 1]
             g == SubSeq(c, p + 1, p + n)
  <1>1. /\ B \in Nat \ {0} /\ n \in Nat \ {0}
        /\ \E k \in Nat \ {0} : B = k * n
    BY BlockLength
  <1>2. /\ rptr + n <= datalen /\ rpos % n = 0
        /\ got' = g /\ rblk' = q /\ rpos' = p + n /\ rptr' = rptr + n
        /\ UNCHANGED writeVars
    BY DEF saa_rstruct
  <1>3. /\ rblk \in Nat /\ rpos \in 0..B /\ rptr \in Nat /\ rptr = rblk * B + rpos
        /\ WriterOK(Writer)
    BY DEF SaaInv
  <1>4. next <=> rpos = B
    <2>1. PICK k \in Nat \ {0} : B = k * n
      BY <1>1
    <2>2. rpos \in Nat /\ rpos <= k * n /\ k \in Nat
      BY <1>1, <1>3, <2>1
    <2>3. rpos + n > k * n <=> rpos = k * n
      BY <1>1, <1>2, <2>2, StructuresFit
    <2> QED
      BY <2>1, <2>3
  <1>5. n <= B
    BY <1>1, NoLess
  <1>6. q \in Nat /\ p \in Nat /\ p + n <= B /\ rptr = q * B + p
    <2>1. CASE next
      <3>1. q = rblk + 1 /\ p = 0 /\ rpos = B
        BY <1>4, <2>1
      <3>2. (rblk + 1) * B = rblk * B + B
        BY <1>1, <1>3
      <3> HIDE DEF q, p
      <3> QED
        BY <1>1, <1>3, <1>5, <3>1, <3>2
    <2>2. CASE ~next
      <3>1. q = rblk /\ p = rpos
        BY <2>2
      <3>2. rpos + n <= B
        BY <1>1, <1>3, <2>2
      <3> HIDE DEF q, p
      <3> QED
        BY <1>1, <1>3, <3>1, <3>2
    <2> QED
      BY <2>1, <2>2
  <1> HIDE DEF q, p
  <1>7. /\ Contents \in Seq(Cell) /\ Len(Contents) = datalen /\ datalen \in Nat
        /\ \A j \in 0..datalen - 1 : Contents[j + 1] = CellOf(blk, j)
        /\ blk \in Seq(Block) /\ datalen <= Len(blk) * B /\ Len(blk) \in Nat
    BY <1>3, ContentsAre, LenProperties DEF length
  <1>8. c \in Seq(Cell) /\ Len(c) = B
    <2>1. Len(blk) * B \in Int
      BY <1>1, <1>7
    <2>2. rptr < Len(blk) * B
      BY <1>1, <1>2, <1>3, <1>7, <2>1
    <2>3. (rptr \div B) + 1 \in 1..Len(blk)
      BY <1>1, <1>3, <1>7, <2>2, BlockOfPlace
    <2>4. p \in 0..B - 1
      BY <1>1, <1>6
    <2>5. rptr \div B = q
      BY <1>1, <1>3, <1>6, <2>4, DivisionIs
    <2>6. c \in Block
      BY <1>7, <2>3, <2>5, ElementOfSeq
    <2> HIDE DEF c
    <2> QED
      BY <1>1, <2>6, FunctionIsSeq DEF Block
  <1>9. g \in Seq(Cell) /\ Len(g) = n /\ \A k \in 1..n : g[k] = c[p + k]
    <2> HIDE DEF c
    <2> QED
      BY <1>1, <1>6, <1>8, SubIs
  <1> HIDE DEF g
  <1>10. ASSUME NEW k \in 1..n PROVE g[k] = Contents[rptr + k]
    <2> DEFINE o == p + k - 1
               j == rptr + k - 1
    <2>1. o \in Int /\ o >= 0 /\ o < B /\ o + 1 = p + k
      BY <1>1, <1>6
    <2>2. j \in 0..datalen - 1 /\ j + 1 = rptr + k
      BY <1>1, <1>2, <1>3, <1>7
    <2>3. j = q * B + o
      <3>1. q * B \in Int
        BY <1>1, <1>6
      <3> QED
        BY <1>1, <1>6, <3>1
    <2> HIDE DEF o, j
    <2>4. c[o + 1] = CellOf(blk, j)
      BY <1>1, <1>6, <1>7, <2>1, <2>2, <2>3, CellAtCursor
    <2>5. Contents[j + 1] = CellOf(blk, j)
      BY <1>7, <2>2
    <2> QED
      BY <1>9, <2>1, <2>2, <2>4, <2>5
  <1> HIDE DEF c
  <1>11. g = SubSeq(Contents, rptr + 1, rptr + n) /\ rptr + n <= Len(Contents)
    <2>1. n \in Nat /\ rptr \in Nat /\ g \in Seq(Cell) /\ Len(g) = n /\ rptr + n <= datalen
      BY <1>1, <1>2, <1>3, <1>9
    <2>2. \A k \in 1..n : g[k] = Contents[rptr + k]
      BY <1>10
    <2> HIDE DEF n
    <2> QED
      BY <1>3, <2>1, <2>2, TakenIsSub
  <1>12. Contents' = Contents /\ wptr' = wptr /\ WriterOK(Writer')
    <2>1. Writer' = Writer
      BY <1>2 DEF writeVars, Writer
    <2> QED
      BY <1>2, <1>3, <2>1, ContentsIs DEF writeVars
  <1>13. /\ rblk' \in Nat /\ rpos' \in 0..blk_len /\ rptr' \in Nat
         /\ rptr' = rblk' * blk_len + rpos'
    <2>1. q * B \in Int
      BY <1>1, <1>6
    <2>2. p + n \in 0..B /\ rptr + n \in Nat /\ rptr + n = q * B + (p + n)
      BY <1>1, <1>3, <1>6, <2>1
    <2> QED
      BY <1>2, <1>6, <2>2
  <1>14. SaaInv'
    BY <1>12, <1>13 DEF SaaInv
  <1>15. Array!ReadFrom(rptr, elem_len)
    BY <1>2, <1>11, <1>12 DEF Array!ReadFrom
  <1> QED
    BY <1>14, <1>15

LEMMA ReadOnMaps ==
    ASSUME SaaParameters, SaaInv, NEW n \in Lengths, saa_rnbytes(n)
    PROVE  SaaInv' /\ Array!ReadFrom(rptr, n)
  <1> DEFINE r == Reader
  <1>1. n \in Nat
    BY DEF SaaParameters
  <1>2. ReaderOK(r) /\ r.got = <<>> /\ r.rptr = rptr
    BY DEF SaaInv, ReaderOK, ReaderTypes, Reader
  <1>3. ReadBy(r, n)
    BY DEF saa_rnbytes
  <1> HIDE DEF r
  <1>4. SaaInv' /\ Array!ReadFrom(r.rptr, n)
    BY <1>1, <1>2, <1>3, ReadMaps
  <1> QED
    BY <1>2, <1>4

LEMMA ReadAtMaps ==
    ASSUME SaaParameters, SaaInv, NEW n \in Lengths, NEW posn \in Positions,
           saa_fread(posn, n)
    PROVE  SaaInv' /\ Array!ReadFrom(posn, n)
  <1> DEFINE q == posn \div blk_len
             p == posn % blk_len
             r == [rblk |-> q, rpos |-> p, rptr |-> posn, got |-> <<>>]
  <1>1. n \in Nat /\ posn \in Nat /\ posn \in Int
    BY DEF SaaParameters
  <1>2. blk_len \in Nat \ {0}
    BY BlockLength
  <1>3. q \in Int /\ p \in 0..blk_len - 1 /\ posn = q * blk_len + p
    BY <1>1, <1>2, Division
  <1>4. ReadBy(r, n)
    BY DEF saa_fread
  <1> HIDE DEF q, p
  <1>5. q \in Nat
    <2> SUFFICES ASSUME q < 0 PROVE FALSE
      BY <1>3
    <2>1. q * blk_len + blk_len <= 0 * blk_len /\ q * blk_len \in Int
      BY <1>2, <1>3, ProductsGrow
    <2> QED
      BY <1>1, <1>2, <1>3, <2>1
  <1>6. ReaderOK(r) /\ r.got = <<>> /\ r.rptr = posn
    <2>1. p \in 0..blk_len
      BY <1>2, <1>3
    <2> QED
      BY <1>1, <1>3, <1>5, <2>1 DEF ReaderOK, ReaderTypes
  <1> HIDE DEF r
  <1>7. SaaInv' /\ Array!ReadFrom(r.rptr, n)
    BY <1>1, <1>4, <1>6, ReadMaps
  <1> QED
    BY <1>6, <1>7

LEMMA RewindMaps ==
    ASSUME SaaParameters, SaaInv, saa_rewind
    PROVE  SaaInv' /\ Array!Rewind
  <1>1. rblk' = 0 /\ rpos' = 0 /\ rptr' = 0 /\ UNCHANGED <<writeVars, got>>
    BY DEF saa_rewind
  <1>2. Writer' = Writer /\ wptr' = wptr /\ got' = got
    BY <1>1 DEF writeVars, Writer
  <1>3. Contents' = Contents
    BY <1>2, ContentsIs
  <1>4. blk_len \in Nat \ {0}
    BY BlockLength
  <1>5. 0 \in 0..blk_len /\ 0 = 0 * blk_len + 0
    BY <1>4
  <1> QED
    BY <1>1, <1>2, <1>3, <1>5 DEF SaaInv, Array!Rewind

-----------------------------------------------------------------------------
(* The theorems.                                                           *)

LEMMA SaaInvInit ==
    ASSUME SaaParameters, SaaInit
    PROVE  SaaInv /\ Array!Init
  <1>1. /\ blk = <<NewBlock>> /\ datalen = 0 /\ wblk = 0 /\ wpos = 0 /\ wptr = 0
        /\ rblk = 0 /\ rpos = 0 /\ rptr = 0 /\ got = <<>>
    BY DEF SaaInit
  <1>2. blk_len \in Nat \ {0} /\ 0 \in 0..blk_len /\ 0 = 0 * blk_len + 0
    BY BlockLength
  <1>3. NewBlock \in Block
    BY DEF NewBlock, Block, Cell
  <1>4. blk \in Seq(Block) /\ Len(blk) = 1
    BY <1>1, <1>3
  <1>5. length(blk) = blk_len
    BY <1>2, <1>4 DEF length
  <1>6. Writer \in WriterTypes
    BY <1>1, <1>2, <1>4 DEF Writer, WriterTypes
  <1>7. WriterOK(Writer)
    BY <1>1, <1>2, <1>4, <1>5, <1>6 DEF WriterOK, Writer
  <1>8. Contents = <<>>
    BY <1>1, <1>7, ContentsAre
  <1> QED
    BY <1>1, <1>2, <1>7, <1>8 DEF SaaInv, Array!Init

LEMMA SaaInvStep ==
    ASSUME SaaParameters, SaaInv, [SaaNext]_saaVars
    PROVE  SaaInv' /\ [Array!Next]_(Array!vars)
  <1>1. CASE UNCHANGED saaVars
    <2>1. UNCHANGED <<blk, datalen, wblk, wpos, wptr, rblk, rpos, rptr, got>>
      BY <1>1 DEF saaVars, writeVars, readVars
    <2>2. Writer' = Writer
      BY <2>1 DEF Writer
    <2>3. Contents' = Contents
      BY <2>2, ContentsIs
    <2> QED
      BY <2>1, <2>2, <2>3 DEF SaaInv, Array!vars
  <1>2. ASSUME NEW d \in Data, Bytes(d)
        PROVE  SaaInv' /\ Array!Next
    BY <1>2, BytesMaps DEF Array!Next
  <1>3. ASSUME NEW d \in Data, saa_wstruct(d)
        PROVE  SaaInv' /\ Array!Next
    BY <1>3, StructMaps DEF Array!Next
  <1>4. ASSUME NEW d \in Data, NEW posn \in Positions, saa_fwrite(posn, d)
        PROVE  SaaInv' /\ Array!Next
    BY <1>4, WriteAtMaps DEF Array!Next
  <1>5. ASSUME NEW n \in Lengths, saa_rnbytes(n)
        PROVE  SaaInv' /\ Array!Next
    BY <1>5, ReadOnMaps DEF Array!Next
  <1>6. ASSUME NEW n \in Lengths, NEW posn \in Positions, saa_fread(posn, n)
        PROVE  SaaInv' /\ Array!Next
    BY <1>6, ReadAtMaps DEF Array!Next
  <1>7. ASSUME saa_rstruct
        PROVE  SaaInv' /\ Array!Next
    <2>1. elem_len \in Lengths
      BY DEF SaaParameters
    <2> QED
      BY <1>7, <2>1, StructReadMaps DEF Array!Next
  <1>8. ASSUME saa_rewind
        PROVE  SaaInv' /\ Array!Next
    BY <1>8, RewindMaps DEF Array!Next
  <1>9. CASE SaaNext
    BY <1>2, <1>3, <1>4, <1>5, <1>6, <1>7, <1>8, <1>9 DEF SaaNext
  <1> QED
    BY <1>1, <1>9

(* Every byte that is read is the one that was written to its place:       *)
(* whatever the lengths of blocks and structures, and wherever the cursors *)
(* rest at the ends of blocks, each operation of saa.c on its blocks is    *)
(* the operation of one array of bytes.                                    *)
THEOREM ArrayIsImplemented ==
    SaaParameters => (SaaSpec => ImplementsTheArray)
  <1> SUFFICES ASSUME SaaParameters PROVE SaaSpec => ImplementsTheArray
    OBVIOUS
  <1>1. SaaInit => SaaInv /\ Array!Init
    BY SaaInvInit
  <1>2. SaaInv /\ [SaaNext]_saaVars => SaaInv' /\ [Array!Next]_(Array!vars)
    BY SaaInvStep
  <1> QED
    BY <1>1, <1>2, PTL DEF SaaSpec, ImplementsTheArray, Array!Spec

LEMMA SaaInvSuffices ==
    ASSUME SaaInv
    PROVE  NoBlockAhead
  BY DEF SaaInv, WriterOK, Writer, NoBlockAhead

(* Blocks are allocated as the data needs them, also where a write starts  *)
(* at the end of a block or saa_fwrite moves the cursor back: no byte is   *)
(* beyond the blocks, and less than one block is unused unless there is    *)
(* only one.                                                               *)
THEOREM BlocksAreNeeded ==
    SaaParameters => (SaaSpec => []NoBlockAhead)
  <1> SUFFICES ASSUME SaaParameters PROVE SaaSpec => []NoBlockAhead
    OBVIOUS
  <1>1. SaaInit => SaaInv
    BY SaaInvInit
  <1>2. SaaInv /\ [SaaNext]_saaVars => SaaInv'
    BY SaaInvStep
  <1>3. SaaInv => NoBlockAhead
    BY SaaInvSuffices
  <1> QED
    BY <1>1, <1>2, <1>3, PTL DEF SaaSpec
=============================================================================
