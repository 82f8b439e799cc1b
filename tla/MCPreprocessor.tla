--------------------------- MODULE MCPreprocessor ---------------------------
(* All nested texts of some lines, for one construct or several; all texts *)
(* of a few lines, nested or not.                                          *)
EXTENDS PreprocessorMeaning

CONSTANTS ConditionLines, LoopLines, MacroLines, IncludeLines, AnyTextLines

L(o, a) == [op |-> o, arg |-> a]

Conditions == {L("text", 0), L("if", 0), L("if", 1), L("elif", 0),
               L("elif", 1), L("else", 0), L("endif", 0)}
Loops == {L("text", 0), L("if", 1), L("endif", 0), L("rep", 2),
          L("exitrep", 0), L("endrep", 0), L("assign", 0)}
Macros == {L("text", 0), L("macro", "a"), L("endmacro", 0), L("call", "a"),
           L("rep", 2), L("endrep", 0), L("exitmacro", 0), L("exitrep", 0)}

(* Macros of the main file used, redefined and removed by an included one. *)
Defined == <<L("macro", "a"), L("call", "b"), L("text", 0), L("endmacro", 0),
             L("macro", "b"), L("text", 0), L("call", "b"), L("endmacro", 0)>>
Included == {L("text", 0), L("call", "a"), L("unmacro", "b"),
             L("macro", "b"), L("endmacro", 0)}

(* Texts that need not be nested.                                          *)
AnyLines == {L("if", 1), L("else", 0), L("endif", 0), L("macro", "a"),
             L("endmacro", 0), L("call", "a"), L("rep", 2), L("endrep", 0),
             L("exitrep", 0), L("exitmacro", 0)}

(* More macros inside each other than are allowed.                         *)
Named(name, body) == <<L("macro", name)>> \o body \o <<L("endmacro", 0)>>
Chain == Named("a", <<L("call", "b")>>) \o Named("b", <<L("call", "c")>>)
         \o Named("c", <<L("call", "d")>>) \o Named("d", <<L("text", 0)>>)
         \o <<L("call", "a")>>

(* A definition inside a definition, both ended by %endm.                  *)
Endm == <<L("macro", "a"), L("macro", "b"), L("text", 0), L("endm", 0),
          L("call", "a")>>

(* A loop of an included file whose end is in a macro of the main file.    *)
Strays == [f \in {"main", "inc"} |->
    IF f = "inc" THEN <<L("rep", 2), L("text", 0)>>
    ELSE Named("a", <<L("include", "inc"), L("endrep", 0), L("text", 0)>>)
         \o <<L("call", "a")>>]

LinesOf(topic) ==
    CASE topic = "conditions" -> Conditions
      [] topic = "loops" -> Loops
      [] topic = "macros" -> Macros
      [] topic = "includes" ->
            Included \cup {L("include", "inc"), L("rep", 2), L("endrep", 0)}
      [] topic = "included" -> Included
      [] topic = "any text" -> AnyLines
      [] topic = "chain" -> {}
LengthOf(topic) ==
    CASE topic = "conditions" -> ConditionLines
      [] topic = "loops" -> LoopLines
      [] topic = "macros" -> MacroLines
      [] topic \in {"includes", "included"} -> IncludeLines
      [] topic = "any text" -> AnyTextLines
      [] topic = "chain" -> 0

(* Texts are grown from a beginning with the stack of blocks that are open.*)
Begun(topic, lines, inc) ==
    [topic |-> topic, lines |-> lines, open |-> <<>>, inc |-> inc]
MayFollow(t, line, n) ==
    IF n > LengthOf(t.topic) THEN line = L("text", 0)
    ELSE /\ line \in LinesOf(t.topic)
         /\ \/ t.topic = "any text"
            \/ /\ "?" \notin ToSet(OpenAfter(t.open, line))
               /\ Len(t.open) <= LengthOf(t.topic) - n + 1
Grown(t, line, n) ==
    IF n > LengthOf(t.topic) THEN t
    ELSE [t EXCEPT !.lines = Append(@, line), !.open = OpenAfter(@, line)]
AllLines == UNION {LinesOf(t) : t \in {"conditions", "loops", "macros",
                                       "includes", "any text"}}
TextsFrom(begun, length) ==
    LET grown[n \in 0..length] ==
            IF n = 0 THEN begun
            ELSE {Grown(x[1], x[2], n) : x \in
                    {y \in grown[n - 1] \X AllLines : MayFollow(y[1], y[2], n)}}
    IN {t \in grown[length] : t.topic = "any text" \/ t.open = <<>>}

ProgramOf(t) ==
    IF t.topic = "includes"
    THEN [f \in {"main", "inc"} |-> IF f = "main" THEN t.lines ELSE t.inc]
    ELSE [f \in {"main"} |-> t.lines]
IncludedTexts ==
    {t.lines : t \in TextsFrom({Begun("included", <<>>, <<>>)}, IncludeLines)}
Longest == LoopLines
MCPrograms == {Strays} \cup
    {ProgramOf(t) : t \in TextsFrom(
        {Begun(topic, <<>>, <<>>) : topic \in {"conditions", "loops", "macros"}}
        \cup {Begun("any text", Defined, <<>>), Begun("chain", Chain, <<>>)}
        \cup {Begun("includes", Defined, inc) : inc \in IncludedTexts},
        Longest)}
MCEndm == {[f \in {"main"} |-> Endm]}
=============================================================================
