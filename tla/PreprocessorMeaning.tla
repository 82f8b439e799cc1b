------------------------- MODULE PreprocessorMeaning -------------------------
(***************************************************************************)
(* What the constructs of the preprocessor mean, as an interpreter of      *)
(* nested text.                                                            *)
(***************************************************************************)
EXTENDS PreprocessorProps

LineAt(place) == program[place[1]][place[2]]
Op(p, i) == LineAt(p[i]).op
Whole(file) == [n \in DOMAIN program[file] |-> <<file, n>>]

(* The blocks around the i-th of the places p: depth, end and branches.    *)
Depth(p, i) == Cardinality({j \in 1..i : Op(p, j) \in Opens})
                - Cardinality({j \in 1..i : Op(p, j) \in Closes})
End(p) == CHOOSE i \in DOMAIN p : /\ Depth(p, i) = 0
                                  /\ \A j \in 1..i - 1 : Depth(p, j) > 0
BranchEnd(p, i) ==
    CHOOSE j \in i + 1..End(p) :
        /\ j = End(p) \/ (Depth(p, j) = 1 /\ Op(p, j) \in {"elif", "else"})
        /\ \A k \in i + 1..j - 1 : ~(/\ Depth(p, k) = 1
                                     /\ Op(p, k) \in {"elif", "else"})
Branches(p, now) ==
    {i \in 1..End(p) - 1 :
        \/ i = 1 /\ now >= LineAt(p[1]).arg
        \/ Depth(p, i) = 1 /\ Op(p, i) = "elif" /\ now >= LineAt(p[i]).arg
        \/ Depth(p, i) = 1 /\ Op(p, i) = "else"}

(* The text p yields in an environment of definitions and the variable,    *)
(* and whether it leaves the loop or the macro around it.                  *)
RECURSIVE Run(_, _)
Result(text, exit, env) == [text |-> text, exit |-> exit, env |-> env]
Then(r, p) == IF r.exit # "no" THEN r
              ELSE LET s == Run(p, r.env) IN [s EXCEPT !.text = r.text \o @]
RECURSIVE Times(_, _, _)
Times(n, p, env) ==
    IF n <= 0 THEN Result(<<>>, "no", env)
    ELSE LET r == Run(p, env)
         IN IF r.exit = "rep" THEN [r EXCEPT !.exit = "no"]
            ELSE IF r.exit = "macro" THEN r
            ELSE LET s == Times(n - 1, p, r.env)
                 IN [s EXCEPT !.text = r.text \o @]
Invoke(m, env) ==
    LET r == Run(m.body, [env EXCEPT !.active = @ \cup {m.id}])
        back == [r EXCEPT !.env.active = env.active]
    IN IF r.exit = "macro" THEN [back EXCEPT !.exit = "no"] ELSE back
Run(p, env) ==
    IF p = <<>> THEN Result(<<>>, "no", env)
    ELSE
    LET line == LineAt(p[1])
        rest == Tail(p)
        inner == SubSeq(p, 2, End(p) - 1)
        behind == SubSeq(p, End(p) + 1, Len(p))
        found == {i \in DOMAIN env.macros : /\ env.macros[i].name = line.arg
                                            /\ env.macros[i].id \notin env.active}
        newest == env.macros[CHOOSE i \in found : \A j \in found : i >= j]
        same == Result(<<>>, "no", env)
        plain == Result(<<p[1]>>, "no", env)
    IN CASE line.op = "text" -> Then(plain, rest)
         [] line.op = "assign" -> Run(rest, [env EXCEPT !.value = @ + 1])
         [] line.op = "if" ->
              LET open == Branches(p, env.value)
                  first == CHOOSE i \in open : \A j \in open : i <= j
              IN IF open = {} THEN Run(behind, env)
                 ELSE Then(Run(SubSeq(p, first + 1, BranchEnd(p, first) - 1),
                               env), behind)
         [] line.op = "rep" -> Then(Times(line.arg, inner, env), behind)
         [] line.op = "macro" ->
              Run(behind, [env EXCEPT !.next = @ + 1, !.macros = Append(@,
                    [name |-> line.arg, body |-> inner, id |-> env.next])])
         [] line.op = "unmacro" -> Run(rest, [env EXCEPT !.macros =
                    SelectSeq(@, LAMBDA m : m.name # line.arg)])
         [] line.op = "call" ->
              Then(IF found = {} THEN plain ELSE Invoke(newest, env), rest)
         [] line.op = "include" -> Then(Run(Whole(line.arg), env), rest)
         [] line.op = "exitrep" -> Result(<<>>, "rep", env)
         [] line.op = "exitmacro" -> Result(<<>>, "macro", env)
         [] OTHER -> Run(rest, env)
Meaning == Run(Whole(Main), [macros |-> <<>>, active |-> {}, value |-> 0,
                             next |-> 0]).text

-----------------------------------------------------------------------------
(* For text whose blocks are nested, the parser gets the lines that the    *)
(* constructs mean, each with its own file and line number: conditionals   *)
(* take one branch, loops repeat, %exitrep and %exitmacro leave exactly    *)
(* one of them, and the place is found again behind each expansion         *)
(* (pp_tokline, do_directive, do_exit_macro).                              *)
OutputIsTheMeaning ==
    Nested /\ result = "done" /\ errors = {} => out = Meaning
=============================================================================
