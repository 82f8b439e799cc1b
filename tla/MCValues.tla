------------------------------ MODULE MCValues ------------------------------
(* Code whose size depends on labels whose values depend on that size: EQU *)
(* and TIMES over differences of labels and $, before and after they are   *)
(* defined; jumps over jumps; declarations and external references.        *)
EXTENDS AssemblerProps

CONSTANTS count, low, high, MaxLines, JumpLines, SymbolLines

MCLabels == {count, low, high}
MCMinDisp == -4

Difference(t, u, k) == [plus |-> t, minus |-> u, c |-> k]
To(t) == Difference(t, NONE, 0)
LabelLineOf(l) == [op |-> "label", when |-> "always", name |-> l]
DataLineOf(n) == [op |-> "data", when |-> "always", len |-> n]

Lines ==
    {LabelLineOf(l) : l \in {low, high}}
    \cup {[op |-> "equ", when |-> "always", name |-> count, arg |-> e] :
             e \in {Difference(low, high, 3), Difference(high, low, 0),
                    Difference(HERE, low, 1)}}
    \cup {[op |-> "times", when |-> "always", len |-> 1, arg |-> e] :
             e \in {To(count), Difference(high, low, 0)}}
    \cup {DataLineOf(1), [op |-> "refer", when |-> "always", arg |-> To(count)]}

(* Each of two labels is defined exactly once.                             *)
DefinedOnce(p, l) ==
    \E i \in DOMAIN p : \A j \in DOMAIN p : p[j] = LabelLineOf(l) <=> j = i
JumpPrograms ==
    LET lines == {LabelLineOf(l) : l \in {low, high}}
                 \cup {DataLineOf(n) : n \in {1, 3}}
                 \cup {[op |-> "jump", when |-> "always", arg |-> To(l)] :
                         l \in {low, high}}
    IN {p \in [1 .. JumpLines -> lines] :
           \A l \in {low, high} : DefinedOnce(p, l)}

Symbols ==
    {LabelLineOf(low)}
    \cup {[op |-> "declare", when |-> "always", name |-> low, type |-> t,
           size |-> IF t = "common" THEN 4 ELSE 0] : t \in DeclaredTypes}
    \cup {[op |-> "refer", when |-> "always", arg |-> To(low)],
          [op |-> "section", when |-> "always", segment |-> 4]}

ProgramsOf(lines, length) == UNION {[1 .. k -> lines] : k \in 1 .. length}
MCPrograms == ProgramsOf(Lines, MaxLines) \cup JumpPrograms
              \cup ProgramsOf(Symbols, SymbolLines)
=============================================================================
