---------------------------- MODULE Preprocessor ----------------------------
(***************************************************************************)
(* The line machine of the preprocessor (asm/preproc.c): pp_tokline takes  *)
(* a line from the expansion buffer or the file on top of the include      *)
(* stack, and do_directive opens and closes conditionals, %rep loops and   *)
(* multi-line macros.  Tokens are left out: a line is a directive with one *)
(* argument, or text; a condition compares a variable set by %assign.      *)
(***************************************************************************)
EXTENDS Integers, Sequences, FiniteSets, FiniteSetsExt, SequencesExt

CONSTANTS
    Programs,           \* functions from file names to sequences of lines
    Main,               \* the file given to nasm
    LIMIT_MACRO_LEVELS, LIMIT_MMACROS

Loop == "%rep"          \* stands for the missing name of a %rep block
TextsOf(p) == UNION {ToSet(p[f]) : f \in DOMAIN p}

ASSUME PreprocessorAssumption ==
    /\ \A p \in Programs :
          /\ Main \in DOMAIN p
          /\ \A f \in DOMAIN p : p[f] \in Seq(TextsOf(p))
          /\ \A t \in TextsOf(p) : /\ t.op = "rep" => t.arg \in Int
                                   /\ t.op = "macro" => t.arg # Loop
                                   /\ t.op = "include" => t.arg \in DOMAIN p
    /\ LIMIT_MACRO_LEVELS \in Nat /\ LIMIT_MMACROS \in Nat

VARIABLES
    program,
    istk,               \* files being read, the innermost first
    defining,           \* the macro or %rep being defined, or NoBlock
    nested_mac_count, nested_rep_count,
    strayed,            \* history: a %rep outlived the file it stands in
    mmacros,            \* defined macros by their identity: the newest has the last
    total, triggered,   \* mmacro_deadman; its levels are the open macros
    blocks,             \* macros and loops allocated
    value,              \* the %assign variable
    out,                \* places of the text lines given to the parser
    errors, result

nestVars == <<nested_mac_count, nested_rep_count, strayed>>
deadman == <<total, triggered>>
vars == <<program, istk, defining, nestVars, mmacros, deadman, blocks, value,
          out, errors, result>>

NoBlock == [id |-> 0, name |-> "", body |-> <<>>, left |-> 0, outer |-> <<>>]
Text(text, where) == [text |-> text, where |-> where, suppressed |-> FALSE,
                      finishes |-> NoBlock]
MacroEnd(block, where) == [Text([op |-> "end", arg |-> 0], where)
                           EXCEPT !.finishes = block]
Source(file) == [file |-> file, read |-> 0, where |-> <<file, 0>>,
                 expansion |-> <<>>, conds |-> <<>>, mstk |-> <<>>]

Init ==
    /\ program \in Programs
    /\ istk = <<Source(Main)>>
    /\ defining = NoBlock /\ nested_mac_count = 0 /\ nested_rep_count = 0
    /\ strayed = FALSE /\ mmacros = <<>> /\ total = 0 /\ triggered = FALSE
    /\ blocks = 0 /\ value = 0
    /\ out = <<>> /\ errors = {} /\ result = "running"

-----------------------------------------------------------------------------
(* The next line, and the top of the include stack when it is taken.       *)
Top == Head(istk)
Emitting(cond) == cond \in {"IF_TRUE", "ELSE_TRUE"}
AtMacroEnd == /\ Top.expansion # <<>>
              /\ Head(Top.expansion).finishes # NoBlock
AtLine == \/ Top.expansion # <<>> /\ ~AtMacroEnd
          \/ Top.expansion = <<>> /\ Top.read < Len(program[Top.file])
Line ==
    IF Top.expansion # <<>> THEN Head(Top.expansion)
    ELSE Text(program[Top.file][Top.read + 1],
              <<Top.where[1], Top.where[2] + 1>>)
Taken ==
    IF Top.expansion # <<>>
    THEN [Top EXCEPT !.expansion = Tail(@), !.where = Line.where]
    ELSE [Top EXCEPT !.read = @ + 1, !.where = Line.where]
Suppressed == \/ Line.suppressed
              \/ Top.conds # <<>> /\ ~Emitting(Head(Top.conds))
op == Line.text.op
arg == Line.text.arg

SetTop(top) == istk' = <<top>> \o Tail(istk)
TakeLine == result = "running" /\ istk # <<>> /\ AtLine /\ SetTop(Taken)
Complain(error) ==
    /\ errors' = errors \cup {error}
    /\ UNCHANGED <<program, defining, nestVars, mmacros, deadman, blocks,
                   value, out, result>>

IsCondition == op \in {"if", "elif", "else", "endif"}
Defining == defining # NoBlock
(* Directives that are looked at inside a definition.                      *)
Nests == \/ op \in {"macro", "endmacro", "endm"}
         \/ defining.name = Loop /\ op \in {"rep", "endrep"}
(* ... and those of them that belong to the text of the definition.        *)
NestedMacCountLoose ==
    IF op = "macro" THEN nested_mac_count + 1
    ELSE IF op = "endmacro" /\ defining.name = Loop
    THEN nested_mac_count - 1 ELSE nested_mac_count
NestedMacCount ==
    IF op = "macro" THEN nested_mac_count + 1
    ELSE IF op = "endmacro" /\ nested_mac_count > 0
    THEN nested_mac_count - 1 ELSE nested_mac_count
NestedRepCountFlat == nested_rep_count
NestedRepCount ==
    CASE defining.name = Loop /\ op = "rep" -> nested_rep_count + 1
      [] defining.name = Loop /\ op = "endrep" /\ nested_rep_count > 0 ->
            nested_rep_count - 1
      [] OTHER -> nested_rep_count
OfTheText ==
    \/ Suppressed /\ ~IsCondition
    \/ ~Nests
    \/ NestedMacCount # nested_mac_count
    \/ NestedRepCount # nested_rep_count
Directive == IF Defining THEN ~OfTheText ELSE ~Suppressed \/ IsCondition

(* A line of the macro or %rep being defined.                              *)
Store ==
    /\ TakeLine /\ Defining /\ OfTheText
    /\ defining' = [defining EXCEPT
                        !.body = Append(@, Text(Line.text, Taken.where))]
    /\ IF Nests /\ ~Suppressed
       THEN /\ nested_mac_count' = NestedMacCount
            /\ nested_rep_count' = NestedRepCount
       ELSE UNCHANGED <<nested_mac_count, nested_rep_count>>
    /\ UNCHANGED <<program, strayed, mmacros, deadman, blocks, value, out, errors,
                   result>>

(* A line in a branch not taken or after %exitrep or %exitmacro.           *)
Drop == TakeLine /\ ~Defining /\ ~Directive
        /\ UNCHANGED <<program, defining, nestVars, mmacros, deadman, blocks,
                       value, out, errors, result>>

Obey(o) == result = "running" /\ istk # <<>> /\ AtLine /\ Directive /\ op = o
Goes == UNCHANGED <<program, defining, nestVars, mmacros, deadman, blocks,
                    value, out, errors, result>>
-----------------------------------------------------------------------------
(* Conditionals.                                                           *)
Holds(limit) == IF value >= limit THEN "IF_TRUE" ELSE "IF_FALSE"

AfterElif(state) ==
    CASE state = "IF_TRUE" -> "DONE"
      [] state = "IF_FALSE" -> Holds(arg)
      [] state \in {"ELSE_TRUE", "ELSE_FALSE"} -> "NEVER"
      [] OTHER -> state
AfterElse(state) ==
    CASE state \in {"IF_TRUE", "DONE"} -> "ELSE_FALSE"
      [] state = "IF_FALSE" -> "ELSE_TRUE"
      [] OTHER -> "NEVER"

If == /\ Obey("if") /\ Goes
      /\ SetTop([Taken EXCEPT !.conds =
                    <<IF Suppressed THEN "NEVER" ELSE Holds(arg)>> \o @])
Elif == /\ Obey("elif") /\ Top.conds # <<>> /\ Goes
        /\ SetTop([Taken EXCEPT !.conds[1] = AfterElif(@)])
Else == /\ Obey("else") /\ Top.conds # <<>> /\ Goes
        /\ SetTop([Taken EXCEPT !.conds[1] = AfterElse(@)])
Endif == /\ Obey("endif") /\ Top.conds # <<>> /\ Goes
         /\ SetTop([Taken EXCEPT !.conds = Tail(@)])
NoIf == /\ \E o \in {"elif", "else", "endif"} : Obey(o)
        /\ Top.conds = <<>> /\ TakeLine /\ Complain("no matching %if")

-----------------------------------------------------------------------------
(* Definitions.                                                            *)
NewBlockOutside(name, left) ==
    [id |-> blocks + 1, name |-> name, body |-> <<>>, left |-> left,
     outer |-> <<>>]
NewBlock(name, left) == [id |-> blocks + 1, name |-> name, body |-> <<>>,
                         left |-> left, outer |-> Top.mstk]
Macro ==
    /\ Obey("macro") /\ TakeLine
    /\ defining' = NewBlock(arg, 0) /\ blocks' = blocks + 1
    /\ UNCHANGED <<program, nestVars, mmacros, deadman, value, out, errors,
                   result>>
Rep ==
    /\ Obey("rep") /\ TakeLine
    /\ defining' = NewBlock(Loop, IF arg < 0 THEN 0 ELSE arg + 1)
    /\ blocks' = blocks + 1
    /\ UNCHANGED <<program, nestVars, mmacros, deadman, value, out, errors,
                   result>>
Endmacro ==
    /\ Obey("endmacro") \/ Obey("endm")
    /\ TakeLine
    /\ IF Defining /\ defining.name # Loop
       THEN /\ mmacros' = [i \in DOMAIN mmacros \cup {defining.id} |->
                            IF i = defining.id THEN defining ELSE mmacros[i]]
            /\ defining' = NoBlock
            /\ UNCHANGED <<program, nestVars, deadman, blocks, value, out,
                           errors, result>>
       ELSE Complain("not defining a macro")
Endrep ==
    /\ Obey("endrep")
    /\ IF Defining
       THEN /\ SetTop([Taken EXCEPT
                !.expansion = <<MacroEnd(defining, Taken.where)>> \o @,
                !.mstk = <<defining.id>> \o defining.outer])
            /\ defining' = NoBlock
            /\ UNCHANGED <<program, nestVars, mmacros, deadman, blocks, value,
                           out, errors, result>>
       ELSE TakeLine /\ Complain("no matching %rep")
Unmacro ==
    /\ Obey("unmacro") /\ TakeLine
    /\ mmacros' = [i \in {j \in DOMAIN mmacros : mmacros[j].name # arg} |->
                    mmacros[i]]
    /\ UNCHANGED <<program, defining, nestVars, deadman, blocks, value, out,
                   errors, result>>

-----------------------------------------------------------------------------
(* Expansion.                                                              *)
EndsOf(s) == {l \in ToSet(s.expansion) : l.finishes # NoBlock}
Open == UNION {EndsOf(istk[i]) : i \in DOMAIN istk}
InProgress(m) == \E l \in Open : l.finishes.id = m.id
Levels == Cardinality({l \in Open : l.finishes.name # Loop})
Callable(name) == {i \in DOMAIN mmacros : /\ mmacros[i].name = name
                                          /\ ~InProgress(mmacros[i])}

Emit ==
    /\ TakeLine /\ ~Defining /\ ~Suppressed
    /\ \/ op = "text" /\ UNCHANGED triggered
       \/ /\ op = "call" /\ Callable(arg) = {} /\ UNCHANGED triggered
       \/ /\ op = "call" /\ Callable(arg) # {}
          /\ total >= LIMIT_MMACROS \/ Levels >= LIMIT_MACRO_LEVELS
          /\ triggered' = TRUE
    /\ errors' = IF triggered' THEN errors \cup {"interminable"} ELSE errors
    /\ out' = Append(out, Taken.where)
    /\ UNCHANGED <<program, defining, nestVars, mmacros, total, blocks, value,
                   result>>

Call ==
    /\ Obey("call") /\ ~Defining
    /\ total < LIMIT_MMACROS /\ Levels < LIMIT_MACRO_LEVELS
    /\ \E i \in Callable(arg) :
          LET m == [mmacros[i] EXCEPT !.outer = Top.mstk]
          IN /\ \A j \in Callable(arg) : j <= i
             /\ SetTop([Taken EXCEPT
                    !.expansion = m.body \o <<MacroEnd(m, Taken.where)>> \o @,
                    !.mstk = <<m.id>> \o @])
    /\ total' = total + 1
    /\ UNCHANGED <<program, defining, nestVars, mmacros, triggered, blocks,
                   value, out, errors, result>>

(* %exitrep and %exitmacro: do_exit_macro.                                 *)
Ends(e, named) == {i \in DOMAIN e : /\ e[i].finishes # NoBlock
                                    /\ named = (e[i].finishes.name # Loop)}
ExitedOnce(e, last) == [i \in DOMAIN e |->
    IF i < last THEN [e[i] EXCEPT !.suppressed = TRUE] ELSE e[i]]
Exited(e, last) == [i \in DOMAIN e |->
    IF i < last THEN [e[i] EXCEPT !.suppressed = TRUE]
    ELSE IF i = last /\ e[i].finishes.name = Loop
    THEN [e[i] EXCEPT !.finishes.left = 1] ELSE e[i]]
Exit(named) ==
    /\ Obey(IF named THEN "exitmacro" ELSE "exitrep")
    /\ LET ends == Ends(Taken.expansion, named)
       IN IF ends = {} THEN TakeLine /\ Complain("not within block")
          ELSE \E last \in ends :
                  /\ \A i \in ends : last <= i
                  /\ SetTop([Taken EXCEPT !.expansion = Exited(@, last)])
                  /\ Goes

(* The end of a %rep block that is to be repeated.                         *)
MoreToRepeat(l) == l.finishes.name = Loop /\ l.finishes.left > 1 /\ ~l.suppressed
CountedLate(e) ==
    IF e[1].finishes.body = <<>> THEN e
    ELSE [e EXCEPT ![1].finishes.left = @ - 1]
Counted(e) == [e EXCEPT ![1].finishes.left = @ - 1]
Repeat ==
    /\ result = "running" /\ istk # <<>> /\ AtMacroEnd
    /\ MoreToRepeat(Head(Top.expansion))
    /\ SetTop([Top EXCEPT !.expansion = Head(@).finishes.body \o Counted(@)])
    /\ Goes

EndExpansion ==
    /\ result = "running" /\ istk # <<>> /\ AtMacroEnd
    /\ ~MoreToRepeat(Head(Top.expansion))
    /\ LET m == Head(Top.expansion).finishes
       IN /\ SetTop([Top EXCEPT !.expansion = Tail(@),
                                !.where = Head(Top.expansion).where,
                                !.mstk = m.outer])
          /\ result' = IF Top.mstk = <<>> \/ Head(Top.mstk) # m.id
                       THEN "assertion"
                       ELSE IF Defining /\ defining.name # Loop THEN "panic"
                       ELSE IF Defining /\ m.name # Loop THEN "fatal"
                       ELSE result
          /\ total' = IF m.name # Loop /\ Levels = 1 THEN 0 ELSE total
          /\ triggered' = (triggered /\ ~(m.name # Loop /\ Levels = 1))
    /\ UNCHANGED <<program, defining, nestVars, mmacros, blocks, value, out,
                   errors>>

-----------------------------------------------------------------------------
Assign ==
    /\ Obey("assign") /\ TakeLine
    /\ value' = value + 1
    /\ UNCHANGED <<program, defining, nestVars, mmacros, deadman, blocks, out,
                   errors, result>>
Include ==
    /\ Obey("include") /\ Goes
    /\ istk' = <<Source(arg), Taken>> \o Tail(istk)

EndOfFile ==
    /\ result = "running" /\ istk # <<>> /\ Top.expansion = <<>> /\ ~AtLine
    /\ istk' = Tail(istk)
    /\ result' = IF Top.conds # <<>> THEN "fatal" ELSE result
    /\ strayed' = (strayed \/ defining.name = Loop)
    /\ UNCHANGED <<program, defining, nested_mac_count, nested_rep_count,
                   mmacros, deadman, blocks, value, out, errors>>

pp_cleanup_pass ==
    /\ result = "running" /\ istk = <<>>
    /\ errors' = IF Defining THEN errors \cup {"still defining"} ELSE errors
    /\ defining' = NoBlock /\ mmacros' = <<>> /\ result' = "done"
    /\ UNCHANGED <<program, istk, nestVars, deadman, blocks, value, out>>

Next ==
    \/ Store \/ Drop \/ If \/ Elif \/ Else \/ Endif \/ NoIf
    \/ Macro \/ Rep \/ Endmacro \/ Endrep \/ Unmacro
    \/ Emit \/ Call \/ Exit(TRUE) \/ Exit(FALSE) \/ Repeat \/ EndExpansion
    \/ Assign \/ Include \/ EndOfFile \/ pp_cleanup_pass

Spec == Init /\ [][Next]_vars /\ WF_vars(Next)
=============================================================================
