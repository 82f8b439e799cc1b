------------------------------ MODULE ByteArray ------------------------------
(* What an SAA promises (include/saa.h): a growing array of bytes with one  *)
(* cursor to write and one to read; a gap left by a write is zero.          *)
EXTENDS Integers, Sequences

CONSTANTS Data,         \* byte strings that may be written
          Positions,    \* where fwrite and fread may start
          Lengths       \* of what is read

VARIABLES bytes, wcur, rcur, got
vars == <<bytes, wcur, rcur, got>>

Longer(a, b) == IF a > b THEN a ELSE b
Written(b, at, d) ==
    [i \in 1..Longer(Len(b), at + Len(d)) |->
        IF i > at /\ i <= at + Len(d) THEN d[i - at]
        ELSE IF i <= Len(b) THEN b[i] ELSE 0]

Init == bytes = <<>> /\ wcur = 0 /\ rcur = 0 /\ got = <<>>

Write(d) == /\ bytes' = Written(bytes, wcur, d) /\ wcur' = wcur + Len(d)
            /\ UNCHANGED <<rcur, got>>
WriteAt(at, d) == /\ bytes' = Written(bytes, at, d) /\ wcur' = at + Len(d)
                  /\ UNCHANGED <<rcur, got>>
ReadFrom(at, n) ==
    /\ at + n <= Len(bytes)
    /\ got' = SubSeq(bytes, at + 1, at + n) /\ rcur' = at + n
    /\ UNCHANGED <<bytes, wcur>>
Rewind == rcur' = 0 /\ UNCHANGED <<bytes, wcur, got>>

Next == \/ \E d \in Data : \/ Write(d)
                           \/ \E at \in Positions : WriteAt(at, d)
        \/ \E n \in Lengths : \/ ReadFrom(rcur, n)
                              \/ \E at \in Positions : ReadFrom(at, n)
        \/ Rewind
Spec == Init /\ [][Next]_vars
=============================================================================
