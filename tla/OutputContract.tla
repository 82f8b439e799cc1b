--------------------------- MODULE OutputContract ---------------------------
(***************************************************************************)
(* What the assembler promises its output format (struct ofmt): first only *)
(* sizes are worked out, then the symbols are handed over, then the code,  *)
(* and at the end the file is written or thrown away.  It is written only  *)
(* if symbols and code make one consistent object.                         *)
(***************************************************************************)
EXTENDS Integers, Sequences

CONSTANTS
    Symbols,     \* records with a name and a segment
    Pieces,      \* records with segment, at, len and vsegment
    Internal     \* segments that need no symbol

VARIABLES stage, symbols, code, result

vars == <<stage, symbols, code, result>>

Init ==
    /\ stage = "sizing"
    /\ symbols = <<>>
    /\ code = <<>>
    /\ result = "running"

(* new is old with one element of S appended.                              *)
OneMore(old, new, S) ==
    /\ Len(new) = Len(old) + 1
    /\ SubSeq(new, 1, Len(old)) = old
    /\ new[Len(new)] \in S

StartSymbols ==
    /\ result = "running" /\ stage = "sizing"
    /\ stage' = "symbols"
    /\ UNCHANGED <<symbols, code, result>>

HandOver ==
    /\ result = "running" /\ stage = "symbols"
    /\ OneMore(symbols, symbols', Symbols)
    /\ UNCHANGED <<stage, code, result>>

StartCode ==
    /\ result = "running" /\ stage = "symbols"
    /\ stage' = "code"
    /\ UNCHANGED <<symbols, code, result>>

Generate ==
    /\ result = "running" /\ stage = "code"
    /\ OneMore(code, code', Pieces)
    /\ UNCHANGED <<stage, symbols, result>>

(* The code of a segment is handed over in the order of its offsets.       *)
InOrder ==
    \A i, j \in DOMAIN code :
        i < j /\ code[i].segment = code[j].segment
            => code[i].at + code[i].len <= code[j].at

OneSymbolPerName ==
    \A i, j \in DOMAIN symbols : symbols[i].name = symbols[j].name => i = j

(* Whatever the code refers to outside the object has a symbol.            *)
Resolvable ==
    \A i \in DOMAIN code :
        code[i].vsegment \in Internal
        \/ \E j \in DOMAIN symbols : symbols[j].segment = code[i].vsegment

Write ==
    /\ result = "running" /\ stage = "code"
    /\ InOrder /\ OneSymbolPerName /\ Resolvable
    /\ result' = "ok"
    /\ UNCHANGED <<stage, symbols, code>>

Discard ==
    /\ result = "running"
    /\ result' = "failed"
    /\ UNCHANGED <<stage, symbols, code>>

Next == StartSymbols \/ HandOver \/ StartCode \/ Generate \/ Write \/ Discard

(* The file is written or thrown away in the end.                          *)
Spec == Init /\ [][Next]_vars /\ WF_vars(Write \/ Discard)
=============================================================================
