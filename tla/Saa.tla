-------------------------------- MODULE Saa --------------------------------
(***************************************************************************)
(* The sequential-access array of nasmlib/saa.c: blocks of equal length,   *)
(* a write cursor and a read cursor that may rest at the end of a block.   *)
(* Memory that was allocated and never written holds "?".                  *)
(***************************************************************************)
EXTENDS Integers, Sequences

CONSTANTS
    elem_len, BLKLEN,   \* length of a structure, at most of a block
    Data,               \* what is written
    Positions, Lengths, \* of what is read; structures are read, too
    MaxLength           \* bound: bytes in the array

SaaParameters ==
    /\ elem_len \in Nat \ {0} /\ BLKLEN \in Nat /\ elem_len <= BLKLEN
    /\ \A d \in Data : d \in Seq(Int)
    /\ Positions \subseteq Nat /\ Lengths \subseteq Nat /\ elem_len \in Lengths

VARIABLES
    blk,                \* the blocks
    datalen,
    wblk, wpos, wptr,   \* wblk and rblk are indices, from 0
    rblk, rpos, rptr,
    got                 \* history: what was read last

writeVars == <<blk, datalen, wblk, wpos, wptr>>
readVars == <<rblk, rpos, rptr, got>>
saaVars == <<writeVars, readVars>>

blk_len == BLKLEN - (BLKLEN % elem_len)
NewBlock == [i \in 1..blk_len |-> "?"]
length(b) == Len(b) * blk_len

SaaInit ==                 \* saa_init
    /\ blk = <<NewBlock>> /\ datalen = 0
    /\ wblk = 0 /\ wpos = 0 /\ wptr = 0
    /\ rblk = 0 /\ rpos = 0 /\ rptr = 0 /\ got = <<>>

(* The write side as a record, so that writes can follow each other.       *)
Writer == [blk |-> blk, datalen |-> datalen, wblk |-> wblk, wpos |-> wpos,
           wptr |-> wptr]
Becomes(w) == /\ blk' = w.blk /\ datalen' = w.datalen /\ wblk' = w.wblk
              /\ wpos' = w.wpos /\ wptr' = w.wptr

NextBlockAlways(w) == [w EXCEPT !.wblk = @ + 1, !.wpos = 0,
                                 !.blk = Append(@, NewBlock)]
NextBlock(w) ==
    [w EXCEPT !.wblk = @ + 1, !.wpos = 0,
              !.blk = IF w.wptr >= length(@) THEN Append(@, NewBlock) ELSE @]
Put(w, byte) ==
    LET at == IF w.wpos = blk_len THEN NextBlock(w) ELSE w
    IN [at EXCEPT !.blk[at.wblk + 1][at.wpos + 1] = byte,
                  !.wpos = @ + 1, !.wptr = @ + 1,
                  !.datalen = IF @ < at.wptr + 1 THEN at.wptr + 1 ELSE @]
saa_wbytes(w, d) ==
    LET written[i \in 0..Len(d)] ==
            IF i = 0 THEN w ELSE Put(written[i - 1], d[i])
    IN written[Len(d)]

SetAt(w, posn) ==
    LET pos == posn % blk_len
    IN [w EXCEPT !.wptr = posn,
            !.wblk = posn \div blk_len - (IF pos = 0 THEN 1 ELSE 0),
            !.wpos = IF pos = 0 THEN blk_len ELSE pos]

Bytes(d) == /\ wptr + Len(d) <= MaxLength
            /\ Becomes(saa_wbytes(Writer, d)) /\ UNCHANGED readVars

(* saa_wstruct, and the caller that fills the structure.                   *)
saa_wstruct(d) ==
    /\ Len(d) = elem_len /\ wpos % elem_len = 0 /\ wptr + elem_len <= MaxLength
    /\ LET at == IF wpos + elem_len > blk_len
                 THEN [Writer EXCEPT !.wblk = @ + 1, !.wpos = 0,
                        !.blk = IF wptr + elem_len > length(@)
                                THEN Append(@, NewBlock) ELSE @]
                 ELSE Writer
       IN Becomes([at EXCEPT
              !.blk[at.wblk + 1] = [i \in 1..blk_len |->
                    IF i > at.wpos /\ i <= at.wpos + elem_len
                    THEN d[i - at.wpos] ELSE @[i]],
              !.wpos = @ + elem_len, !.wptr = @ + elem_len,
              !.datalen = IF @ < at.wptr + elem_len THEN at.wptr + elem_len
                          ELSE @])
    /\ UNCHANGED readVars

saa_fwrite(posn, d) ==
    /\ posn + Len(d) <= MaxLength
    /\ LET start == IF posn > datalen THEN datalen ELSE posn
           padding == [i \in 1..posn - start |-> 0]
       IN Becomes(saa_wbytes(SetAt(Writer, start), padding \o d))
    /\ UNCHANGED readVars

-----------------------------------------------------------------------------
saa_rewind == rblk' = 0 /\ rpos' = 0 /\ rptr' = 0
              /\ UNCHANGED <<writeVars, got>>

(* saa_rnbytes from a place: at each block boundary saa_rbytes goes on to  *)
(* the next block.                                                         *)
Reader == [rblk |-> rblk, rpos |-> rpos, rptr |-> rptr, got |-> <<>>]
Get(r) ==
    LET at == IF r.rpos >= blk_len THEN [r EXCEPT !.rblk = @ + 1, !.rpos = 0]
              ELSE r
    IN [at EXCEPT !.got = Append(@, blk[at.rblk + 1][at.rpos + 1]),
                  !.rpos = @ + 1, !.rptr = @ + 1]
ReadBy(r, n) ==
    LET read[i \in 0..n] == IF i = 0 THEN r ELSE Get(read[i - 1])
        s == read[n]
    IN /\ r.rptr + n <= datalen
       /\ rblk' = s.rblk /\ rpos' = s.rpos /\ rptr' = s.rptr /\ got' = s.got
       /\ UNCHANGED writeVars
saa_rnbytes(n) == ReadBy(Reader, n)
saa_rstruct ==
    /\ rptr + elem_len <= datalen /\ rpos % elem_len = 0
    /\ LET next == rpos + elem_len > blk_len
           b == IF next THEN rblk + 1 ELSE rblk
           p == IF next THEN 0 ELSE rpos
       IN /\ got' = SubSeq(blk[b + 1], p + 1, p + elem_len)
          /\ rblk' = b /\ rpos' = p + elem_len /\ rptr' = rptr + elem_len
    /\ UNCHANGED writeVars
saa_freadBlock(posn, n) ==
    ReadBy([rblk |-> posn \div blk_len, rpos |-> 0, rptr |-> posn,
            got |-> <<>>], n)
saa_fread(posn, n) ==
    ReadBy([rblk |-> posn \div blk_len, rpos |-> posn % blk_len,
            rptr |-> posn, got |-> <<>>], n)

SaaNext ==
    \/ \E d \in Data : \/ Bytes(d)
                       \/ saa_wstruct(d)
                       \/ \E posn \in Positions : saa_fwrite(posn, d)
    \/ \E n \in Lengths : \/ saa_rnbytes(n)
                          \/ \E posn \in Positions : saa_fread(posn, n)
    \/ saa_rstruct \/ saa_rewind
SaaSpec == SaaInit /\ [][SaaNext]_saaVars

-----------------------------------------------------------------------------
(* The bytes the blocks stand for.                                         *)
Contents == [i \in 1..datalen |->
                blk[(i - 1) \div blk_len + 1][((i - 1) % blk_len) + 1]]

(* Every read and write goes to the byte its place names: wherever the     *)
(* cursors rest at block boundaries, however reads and writes of bytes and *)
(* structures, repositioning and padding alternate.                        *)
Array == INSTANCE ByteArray WITH bytes <- Contents, wcur <- wptr, rcur <- rptr
ImplementsTheArray == Array!Spec

(* Blocks are allocated as the data needs them: no byte is beyond the      *)
(* blocks, and no more than one block is allocated ahead (saa_extend).     *)
NoBlockAhead ==
    /\ datalen <= length(blk)
    /\ length(blk) < datalen + blk_len \/ Len(blk) = 1
=============================================================================
