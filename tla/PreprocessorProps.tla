-------------------------- MODULE PreprocessorProps --------------------------
(***************************************************************************)
(* The properties of the line machine: what text it accepts, that its      *)
(* stacks agree, and that it ends.                                         *)
(***************************************************************************)
EXTENDS Preprocessor

Opens == {"if", "rep", "macro"}
Closes == {"endif", "endrep", "endmacro"}

(* Blocks that end in their file, in the order in which they were opened.  *)
Closing(o) == CASE o = "if" -> "endif" [] o = "rep" -> "endrep"
                [] o = "macro" -> "endmacro" [] OTHER -> ""
OpenAfter(open, line) ==
    CASE line.op \in Opens -> <<Closing(line.op)>> \o open
      [] line.op = "else" /\ open # <<>> /\ Head(open) = "endif" ->
            <<"endif after else">> \o Tail(open)
      [] line.op = "endif" /\ open # <<>>
            /\ Head(open) \in {"endif", "endif after else"} -> Tail(open)
      [] line.op \in Closes \ {"endif"} /\ open # <<>>
            /\ Head(open) = line.op -> Tail(open)
      [] line.op = "elif" /\ open # <<>> /\ Head(open) = "endif" -> open
      [] line.op \in Closes \cup {"elif", "else", "endm"} -> <<"?">> \o open
      [] OTHER -> open
Nested == \A f \in DOMAIN program :
            FoldLeft(OpenAfter, <<>>, program[f]) = <<>>

-----------------------------------------------------------------------------
(* Nested text is accepted: no construct is taken for the end of another,  *)
(* whatever conditional hides, and definitions do not leak into the next   *)
(* (the counts of nested macros and loops return to zero).                 *)
NestedTextIsAccepted ==
    Nested =>
      /\ result \notin {"fatal", "panic", "assertion"}
      /\ errors \subseteq {"not within block", "interminable"}
      /\ result = "done" => nested_mac_count = 0 /\ nested_rep_count = 0

(* A chain of open macros and loops names the ends in a buffer e from      *)
(* place i on: the first of them, which saved the chain of those behind it.*)
IsEnd(l) == l.finishes # NoBlock
FirstEnd(e, i, j) == /\ j >= i /\ IsEnd(e[j])
                     /\ \A k \in i..j - 1 : ~IsEnd(e[k])
Names(chain, e, i) ==
    \/ chain = <<>> /\ \A j \in DOMAIN e : j >= i => ~IsEnd(e[j])
    \/ \E j \in DOMAIN e :
          /\ FirstEnd(e, i, j)
          /\ chain = <<e[j].finishes.id>> \o e[j].finishes.outer
ChainsNest(e) ==
    \A i \in DOMAIN e : IsEnd(e[i]) => Names(e[i].finishes.outer, e, i + 1)
ChainMatches(s) == Names(s.mstk, s.expansion, 1) /\ ChainsNest(s.expansion)

(* The chain istk->mstk.mstk of every file names the expansions whose ends *)
(* are in its buffer, innermost first, what the FIXME at preproc.c:8805    *)
(* asks about, and the expansion that ends is the innermost one, however   *)
(* the text is nested: nasm_assert(m == fm) in pp_tokline.  Not so once a  *)
(* %rep of an included file has met its %endrep in another, which installs *)
(* the chain of the first file there.                                      *)
InnermostEnds ==
    ~strayed => /\ \A i \in DOMAIN istk : ChainMatches(istk[i])
                /\ result # "assertion"

(* Every input is read to its end: loops count down and a macro is not     *)
(* called inside itself (in_progress, use_mmacro).                         *)
ProcessingEnds == <>(result # "running")

(* pp_tokline panics when an expansion ends inside the definition of a     *)
(* macro, which %macro and its end nesting is to exclude.                  *)
DefinitionsEndInside == result # "panic"
=============================================================================
