--------------------------- MODULE AssemblerProps ---------------------------
(***************************************************************************)
(* What the multi-pass core promises.                                      *)
(***************************************************************************)
EXTENDS Assembler, FiniteSets

(* Every variable keeps its type; symbols and code are only what the output*)
(* format's interface allows.                                              *)
TypeOK ==
    /\ program \in Programs
    /\ pass \in Nat
    /\ ptype \in PassTypes
    /\ line \in Nat /\ line <= Len(program) + 1
    /\ segment \in Sections \cup {NO_SEG}
    /\ offsets \in [Sections -> Int]
    /\ labels \in [Labels -> Entry]
    /\ next_seg \in Nat
    /\ global_offset_changed \in Nat
    /\ prev_offset_changed \in Nat
    /\ stall_count \in Nat
    /\ errors \subseteq ErrorKinds
    /\ symdefs \in Seq(Symdefs)
    /\ image \in Seq(Code)
    /\ outcome \in {"running", "ok", "failed"}

Succeeded == outcome = "ok"

(* The lines do not depend on __?PASS?__.                                  *)
PassInvariantProgram ==
    \A n \in DOMAIN program : program[n].when = "always"

InFinalPass(n) == program[n].when \in {"always", "final"}

-----------------------------------------------------------------------------
(* Where line n stands in the generated code: the section the lines before *)
(* it selected, and the end of the code generated there.                   *)
SectionAt(n) ==
    LET switches == {m \in 1 .. n - 1 :
                        program[m].op = "section" /\ InFinalPass(m)}
    IN  IF switches = {} THEN DefaultSection
        ELSE program[CHOOSE m \in switches : \A k \in switches : k <= m].segment

EndOfCode(s, n) ==
    LET before == {i \in DOMAIN image : image[i].segment = s /\ image[i].line < n}
    IN  IF before = {} THEN 0
        ELSE LET last == CHOOSE i \in before : \A k \in before : k <= i
             IN  image[last].at + image[last].len

EndOfCodeBefore(n) == EndOfCode(SectionAt(n), n)

(* What define_label was given for the entry: it keeps the value of a      *)
(* COMMON, also one that is a label or an EQU besides, as its size.        *)
Given(entry) == IF entry.type = "common" THEN entry.size ELSE entry.offset

(* A successful assembly generated every reference with the value its      *)
(* expression has in the final label table: no label moved between the     *)
(* moment the final pass read it and the end of that pass.                 *)
IsReference(code) == code.kind \in {"short", "near", "refer"}

(* The table with every entry taken for what it holds, also one that a late*)
(* GLOBAL for an EXTERN has marked undefined again.                        *)
AsItStands == [l \in Labels |-> [labels[l] EXCEPT !.defined = 1]]

ReferenceAgrees(code) ==
    LET e == program[code.line].arg
    IN  /\ code.value = Value(AsItStands, e, code.at)
        /\ code.vsegment = ValueSegment(AsItStands, e, code.segment)

ReferencesAgree ==
    Succeeded => \A i \in DOMAIN image :
                    IsReference(image[i]) => ReferenceAgrees(image[i])

(* A successful assembly told the output format the values the symbols have*)
(* in the end, though the symbols go out one pass before the code that uses*)
(* them, and handed no symbol over twice: EXTERN, REQUIRED, GLOBAL and     *)
(* COMMON of one name, in whatever order, and a definition besides, give   *)
(* one symbol.                                                             *)
SymdefAgrees(d) ==
    LET entry == labels[d.name]
    IN  /\ d.segment = entry.segment
        /\ d.value = IF d.kind = 2 THEN entry.size ELSE entry.offset

SymdefsAgree ==
    Succeeded =>
        /\ \A i \in DOMAIN symdefs : SymdefAgrees(symdefs[i])
        /\ \A i, j \in DOMAIN symdefs :
              symdefs[i].name = symdefs[j].name => i = j

(* In a successful assembly a label has the place of its line in the code  *)
(* that was generated: the section that was current there and the number of*)
(* bytes generated in it before.                                           *)
LabelsMarkTheirPlace ==
    Succeeded => \A n \in DOMAIN program :
        program[n].op = "label" /\ InFinalPass(n) =>
            LET entry == labels[program[n].name]
            IN  /\ entry.segment = SectionAt(n)
                /\ Given(entry) = EndOfCodeBefore(n)

(* A jump generated with an 8-bit displacement reaches its target: what is *)
(* to be added at the end of the jump to come to where the target is in the*)
(* final label table fits, and the target is in the section of the jump.   *)
ShortJumpReaches(code) ==
    LET e == program[code.line].arg
    IN  /\ Value(AsItStands, e, code.at) - (code.at + code.len)
               \in MinDisp .. MaxDisp
        /\ ValueSegment(AsItStands, e, code.segment) = code.segment

ShortJumpsReach ==
    Succeeded => \A i \in DOMAIN image :
                    image[i].kind = "short" => ShortJumpReaches(image[i])

(* An external symbol the generated code refers to is handed to the output *)
(* format, although an EXTERN is dropped unless it was referred to before  *)
(* the stabilization pass reached it.                                      *)
OwnSegments ==           \* those of the sections, and what the back end took
    Sections \cup {NO_SEG}
    \cup (IF BackendLabels = {} THEN {} ELSE {FirstFreeSegment})

ReferencedExternsAreKept ==
    Succeeded /\ PassInvariantProgram =>
        \A i \in DOMAIN image :
            image[i].vsegment \notin OwnSegments =>
                \E j \in DOMAIN symdefs :
                    symdefs[j].segment = image[i].vsegment

(* An EQU of a successful assembly has the value its expression has in the *)
(* code that was generated, although the final pass does not define it.    *)
EquatesAreCurrent ==
    Succeeded /\ PassInvariantProgram =>
        \A n \in DOMAIN program :
            program[n].op = "equ" =>
                LET e == program[n].arg
                    entry == labels[program[n].name]
                IN  /\ Given(entry) = Value(labels, e, EndOfCodeBefore(n))
                    /\ entry.segment = ValueSegment(labels, e, SectionAt(n))

(* Once an optimization pass changed nothing, the two passes that follow it*)
(* change nothing either: the assembler's "phase errors" happen only to    *)
(* programs that ask which pass they are in, or that were wrong anyway.    *)
NoPhaseErrors ==
    PassInvariantProgram /\ errors = {} /\ pass_stable(ptype) =>
        global_offset_changed = 0

(* A program whose expressions name only labels that are defined above them*)
(* is laid out by the first pass: the passes that follow change nothing, so*)
(* that it is read four times.  More optimization passes are the price of  *)
(* forward references only.                                                *)
DefinedAbove(n, l) ==
    \E m \in 1 .. n - 1 :
        program[m].op \in {"label", "equ"} /\ program[m].name = l

NoForwardReferences ==
    \A n \in DOMAIN program :
        program[n].op \in {"equ", "times", "jump", "refer"} =>
            \A l \in {program[n].arg.plus, program[n].arg.minus} \cap Labels :
                DefinedAbove(n, l)

FirstPassSettles ==
    PassInvariantProgram /\ NoForwardReferences /\ errors = {} =>
        /\ pass > 1 => global_offset_changed = 0
        /\ pass <= 4

(* However its labels behave, a program is read a bounded number of times: *)
(* an optimization pass either brings fewer changes than any before it, and*)
(* there are at most as many as lines, or it counts towards the stall      *)
(* limit.  The first, stabilization and final pass and the optimization    *)
(* pass that changes nothing come on top.                                  *)
PassesAreBounded ==
    pass <= (Len(program) + 1) * (LimitStalled + 1) + 4

(* Every assembly ends, whatever its labels do: the optimizer gives up.    *)
AssemblyEnds == <>(outcome # "running")

(* The assembler keeps its side of the interface with the output format.   *)
Contract == INSTANCE OutputContract WITH
    Symbols <- Symdefs,
    Pieces <- Code,
    Internal <- OwnSegments,
    stage <- IF ptype = "final" THEN "code"
             ELSE IF ptype = "stab" THEN "symbols" ELSE "sizing",
    symbols <- symdefs,
    code <- image,
    result <- outcome

OutputContractKept == Contract!Spec
=============================================================================
