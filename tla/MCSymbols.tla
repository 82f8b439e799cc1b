----------------------------- MODULE MCSymbols ------------------------------
(* Declarations, definitions and references of one ordinary label and one  *)
(* magic one, in every order; and shorter programs that read other lines   *)
(* in the final pass than before, through %if on __?PASS?__.               *)
EXTENDS AssemblerProps

CONSTANTS foo, start, MaxLines, MaxLinesOfPasses

MCLabels == {foo, start}
MCSpecial == {start}
MCMinDisp == -4

Plain(t) == [plus |-> t, minus |-> NONE, c |-> 0]

Lines ==
    {[op |-> "label", when |-> "always", name |-> l] : l \in MCLabels}
    \cup {[op |-> "declare", when |-> "always", name |-> foo, type |-> t,
           size |-> IF t = "common" THEN 4 ELSE 0] : t \in DeclaredTypes}
    \cup {[op |-> "declare", when |-> "always", name |-> start, type |-> "extern",
           size |-> 0]}
    \cup {[op |-> "refer", when |-> "always", arg |-> Plain(l)] : l \in MCLabels}
    \cup {[op |-> "section", when |-> "always", segment |-> 4]}

LinesOfPasses ==
    [op : {"label"}, when : When, name : MCLabels]
    \cup [op : {"declare"}, when : When, name : {foo}, type : {"extern", "global"},
          size : {0}]
    \cup [op : {"data"}, when : When, len : {1}]
    \cup [op : {"jump"}, when : {"always", "final"}, arg : {Plain(foo)}]

MCPrograms ==
    UNION {[1 .. x[1] -> x[2]] : x \in ((1 .. MaxLines) \X {Lines})
                         \cup ((1 .. MaxLinesOfPasses) \X {LinesOfPasses})}
=============================================================================
