----------------------------- MODULE Assembler ------------------------------
(***************************************************************************)
(* The multi-pass core of the assembler: the pass loop of assemble_file    *)
(* (asm/nasm.c), the label table it drives (asm/labels.c, module           *)
(* LabelTable), and the lines of a program as directiv.c, parser.c, eval.c *)
(* and assemble.c process them.  A pass reads the whole program; labels    *)
(* keep the values of the pass before until they are defined again, and a  *)
(* pass in which nothing changed lets the assembler go on to hand its      *)
(* symbols to the output format (stab) and to generate code (final).       *)
(***************************************************************************)
EXTENDS LabelTable, Sequences

CONSTANTS
    Programs,        \* the programs to assemble, each a sequence of lines
    Sections,        \* the segments of the output format's sections
    DefaultSection,  \* the section it starts in
    FirstFreeSegment,\* what seg_alloc() returns first once those are taken
    HERE,            \* the symbol $ in an expression
    NONE,            \* an absent term of an expression
    ShortLen,        \* bytes of a jump with an 8-bit displacement
    NearLen,         \* bytes of a jump with a full displacement
    MinDisp, MaxDisp,\* what the 8-bit displacement holds: -128, 127
    MinLen, MaxLen,  \* the possible lengths of such a jump: 2, 15
    ReferLen,        \* bytes of a DD
    LimitStalled,    \* nasm_limit[LIMIT_STALLED]
    LimitPasses,     \* nasm_limit[LIMIT_PASSES]
    HugeCount,       \* stands for INT64_MAX
    LateIsError,     \* label-redef-late is an error (the default)
    PhaseIsError     \* the warning "phase" is enabled and an error

Terms == Labels \cup {HERE, NONE}
Expr == [plus : Terms, minus : Terms, c : Int]   \* plus - minus + c

When == {"always", "prep", "final"}   \* %if on __?PASS?__
DeclaredTypes == {"global", "static", "extern", "required", "common"}

Statements ==
    [op : {"label"}, when : When, name : Labels]
    \cup [op : {"equ"}, when : When, name : Labels, arg : Expr]
    \cup [op : {"data"}, when : When, len : Nat]
    \cup [op : {"times"}, when : When, arg : Expr, len : Nat]
    \cup [op : {"jump"}, when : When, arg : Expr]
    \cup [op : {"refer"}, when : When, arg : Expr]
    \cup [op : {"declare"}, when : When, name : Labels, type : DeclaredTypes,
          size : Nat]
    \cup [op : {"section"}, when : When, segment : Sections]

ASSUME ProgramsAssumption ==
    /\ Programs \subseteq Seq(Statements)
    /\ HERE \notin Labels /\ NONE \notin Labels /\ HERE # NONE

ASSUME SegmentsAssumption ==
    /\ Sections \subseteq Nat \ {0}
    /\ DefaultSection \in Sections
    /\ FirstFreeSegment \in Nat \ {0}

ASSUME SizesAssumption ==
    /\ ShortLen \in Nat /\ NearLen \in Nat /\ ReferLen \in Nat
    /\ MinDisp \in Int /\ MaxDisp \in Int
    /\ MinLen \in Nat /\ MaxLen \in Nat
    /\ MinLen <= ShortLen /\ ShortLen <= MaxLen

ASSUME LimitsAssumption ==
    /\ LimitStalled \in Nat /\ LimitPasses \in Nat
    /\ HugeCount \in Nat
    /\ LateIsError \in BOOLEAN /\ PhaseIsError \in BOOLEAN

ErrorKinds == {"redefined", "late", "conflict", "undefined", "nonconstant",
               "negative", "complex", "unstable", "phase", "write"}

CodeKinds == {"data", "short", "near", "refer"}
Code == [line : Nat \ {0}, segment : Sections, at : Int, len : Int,
         kind : CodeKinds, value : Int, vsegment : Int]

VARIABLES
    program,    \* what the preprocessor delivers, chosen once
    pass,       \* _passn
    ptype,      \* _pass_type
    line,       \* globallineno of the next line, 0 between passes
    segment,    \* location.segment
    offsets,    \* the raa of current offsets, one per section
    labels,     \* the label table
    next_seg,   \* next_seg of segalloc.c
    global_offset_changed,
    prev_offset_changed,
    stall_count,
    errors,     \* kinds of the nonfatal errors issued: erropt.worst
    symdefs,    \* what ofmt->symdef was called with since, in order
    image,      \* what the final pass generated, in order
    outcome     \* "running", "ok" or "failed"

vars == <<program, pass, ptype, line, segment, offsets, labels, next_seg,
          global_offset_changed, prev_offset_changed, stall_count, errors,
          symdefs, image, outcome>>

(* What a line may leave alone. *)
passVars == <<program, pass, ptype, prev_offset_changed, stall_count, outcome>>
placeVars == <<segment, offsets>>
labelVars == <<labels, next_seg, global_offset_changed, symdefs>>

terminate_after_phase == errors # {}

-----------------------------------------------------------------------------
(* Expressions (eval.c).  table is the label table they are read from, seg *)
(* and here the location of the line.  Two unresolved terms of opposite    *)
(* sign cancel out in add_vectors: the sum is then known, and simple.      *)
Known(table, t) == t \in {HERE, NONE} \/ Found(table[t])

TermSegment(table, t, seg) ==
    IF t = HERE THEN seg
    ELSE IF t = NONE \/ ~Known(table, t) THEN NO_SEG
    ELSE table[t].segment

TermValue(table, t, here) ==
    IF t = HERE THEN here
    ELSE IF t = NONE \/ ~Known(table, t) THEN 0
    ELSE table[t].offset

AllKnown(table, e) == Known(table, e.plus) /\ Known(table, e.minus)
Unknown(table, e) == Known(table, e.plus) # Known(table, e.minus)

Cancels(table, e, seg) ==
    TermSegment(table, e.plus, seg) = TermSegment(table, e.minus, seg)

IsSimple(table, e, seg) == ~Unknown(table, e) /\ Cancels(table, e, seg)

(* A segment base may be subtracted only if it is the current one.         *)
IsComplex(table, e, seg) ==
    /\ ~Unknown(table, e)
    /\ ~Cancels(table, e, seg)
    /\ TermSegment(table, e.minus, seg) \notin {NO_SEG, seg}

Value(table, e, here) ==
    IF Unknown(table, e) THEN 0
    ELSE TermValue(table, e.plus, here) - TermValue(table, e.minus, here) + e.c

ValueSegment(table, e, seg) ==
    IF Unknown(table, e) \/ Cancels(table, e, seg) THEN NO_SEG
    ELSE TermSegment(table, e.plus, seg)

(* Each label that evaluate() looks up remembers the pass; a critical      *)
(* expression stops at the first one that is not defined.                  *)
LookedUp(table, e, critical) ==
    IF critical /\ ~Known(table, e.plus) THEN {}
    ELSE {e.plus, e.minus} \cap Labels

Evaluated(table, e, critical) ==
    [l \in Labels |-> IF l \in LookedUp(table, e, critical)
                      THEN Referenced(table[l], pass) ELSE table[l]]

-----------------------------------------------------------------------------
(* jmp_match: may the jump at offset here use an 8-bit displacement?       *)
FitsShortWide(delta) ==      \* faulty variant: the sure window is too wide
    IF delta < MinDisp + MinLen \/ delta > MaxDisp + MaxLen THEN FALSE
    ELSE IF delta >= MinDisp + MaxLen /\ delta <= MaxDisp + MaxLen THEN TRUE
    ELSE delta - ShortLen \in MinDisp .. MaxDisp

FitsShort(delta) ==
    IF delta < MinDisp + MinLen \/ delta > MaxDisp + MaxLen THEN FALSE
    ELSE IF delta >= MinDisp + MaxLen /\ delta <= MaxDisp + MinLen THEN TRUE
    ELSE delta - ShortLen \in MinDisp .. MaxDisp

JumpIsShortAtFirst(table, e, seg, here) ==  \* faulty variant: in pass 1 always
    \/ pass = 1 \/ Unknown(table, e)
    \/ /\ ValueSegment(table, e, seg) = seg
       /\ FitsShort(Value(table, e, here) - here)

JumpIsShort(table, e, seg, here) ==
    \/ Unknown(table, e)      \* "Be optimistic in pass 1"
    \/ /\ ValueSegment(table, e, seg) = seg
       /\ FitsShort(Value(table, e, here) - here)

JumpLen(short) == IF short THEN ShortLen ELSE NearLen

-----------------------------------------------------------------------------
Init ==
    /\ program \in Programs
    /\ pass = 0
    /\ ptype = "init"
    /\ line = 0
    /\ segment = NO_SEG
    /\ offsets = [s \in Sections |-> 0]
    /\ labels = [l \in Labels |->
                    IF l \in BackendLabels
                    THEN [FreshEntry EXCEPT !.type = "backend",
                                            !.segment = FirstFreeSegment,
                                            !.defined = 1]
                    ELSE FreshEntry]
    /\ next_seg = FirstFreeSegment + 2   \* the output format took one
    /\ global_offset_changed = 0
    /\ prev_offset_changed = HugeCount
    /\ stall_count = 0
    /\ errors = {}
    /\ symdefs = <<>>
    /\ image = <<>>
    /\ outcome = "running"

-----------------------------------------------------------------------------
(* The pass loop.                                                          *)
NextPassTypeHasty ==         \* faulty variant: one optimization pass only
    CASE ptype = "init" -> "first"
      [] ptype = "first" -> "opt"
      [] ptype = "opt" -> "stab"
      [] OTHER -> "final"

NextPassType ==
    CASE ptype = "init" -> "first"
      [] ptype = "first" -> "opt"
      [] ptype = "opt" -> IF global_offset_changed # 0 THEN "opt" ELSE "stab"
      [] OTHER -> "final"

BeginPass ==
    /\ outcome = "running" /\ line = 0
    /\ ~terminate_after_phase /\ ~pass_final(ptype)
    /\ pass' = pass + 1
    /\ ptype' = NextPassType
    /\ line' = 1
    /\ global_offset_changed' = 0
    /\ segment' = DefaultSection
    /\ offsets' = [s \in Sections |-> 0]
    /\ UNCHANGED <<program, labels, next_seg, prev_offset_changed, stall_count,
                   errors, symdefs, image, outcome>>

(* The optimizer counts the passes that brought no fewer changes.          *)
ImprovedOrSame ==            \* faulty variant: no progress is progress
    global_offset_changed <= prev_offset_changed

Improved == global_offset_changed < prev_offset_changed

StallCount ==
    IF global_offset_changed = 0 \/ ptype # "opt" THEN stall_count
    ELSE IF Improved THEN 0
    ELSE stall_count + 1

PassErrorsButFinal ==        \* faulty variant: the final pass is not checked
    IF global_offset_changed # 0 /\ ptype = "opt"
       /\ (StallCount > LimitStalled \/ pass >= LimitPasses)
    THEN {"unstable"} ELSE {}

PassErrors ==
    IF global_offset_changed = 0 THEN {}
    ELSE CASE ptype = "opt" ->
                IF StallCount > LimitStalled \/ pass >= LimitPasses
                THEN {"unstable"} ELSE {}
           [] ptype = "stab" -> IF PhaseIsError THEN {"phase"} ELSE {}
           [] ptype = "final" -> {"phase"}
           [] OTHER -> {}

EndPass ==
    /\ outcome = "running" /\ line = Len(program) + 1
    /\ line' = 0
    /\ stall_count' = StallCount
    /\ prev_offset_changed' =
          IF global_offset_changed # 0 /\ ptype = "opt" /\ Improved
          THEN global_offset_changed ELSE prev_offset_changed
    /\ errors' = errors \cup PassErrors
    /\ UNCHANGED <<program, pass, ptype, segment, offsets, labels, next_seg,
                   global_offset_changed, symdefs, image, outcome>>

(* After the loop main() lets the output format write its file, unless an  *)
(* error was issued; a failed write is an error too, and an error makes    *)
(* close_output remove the file.                                           *)
FinishOnSuccess ==           \* faulty variant: an error does not end it
    /\ outcome = "running" /\ line = 0
    /\ ~terminate_after_phase /\ pass_final(ptype)
    /\ outcome' = "ok"
    /\ UNCHANGED <<program, pass, ptype, line, segment, offsets, labels,
                   next_seg, global_offset_changed, prev_offset_changed,
                   stall_count, errors, symdefs, image>>

Finish ==
    /\ outcome = "running" /\ line = 0
    /\ terminate_after_phase \/ pass_final(ptype)
    /\ \E writeFails \in BOOLEAN :
          /\ errors' = IF ~terminate_after_phase /\ writeFails
                       THEN {"write"} ELSE errors
          /\ outcome' = IF terminate_after_phase \/ writeFails
                        THEN "failed" ELSE "ok"
    /\ UNCHANGED <<program, pass, ptype, line, segment, offsets, labels,
                   next_seg, global_offset_changed, prev_offset_changed,
                   stall_count, symdefs, image>>

-----------------------------------------------------------------------------
(* Lines.                                                                  *)
Executes(s) == s.when \in {"always", IF pass_final(ptype) THEN "final" ELSE "prep"}

ReadLine ==
    /\ outcome = "running"
    /\ line \in 1 .. Len(program)
    /\ line' = line + 1
    /\ UNCHANGED passVars

Line(op) ==
    /\ ReadLine
    /\ program[line].op = op
    /\ Executes(program[line])

Here == offsets[segment]          \* location.offset

SkippedLine ==
    /\ ReadLine
    /\ ~Executes(program[line])
    /\ UNCHANGED <<placeVars, labelVars, errors, image>>

(* increment_offset *)
AdvanceDefault(delta) ==     \* faulty variant: the wrong section's offset
    offsets' = [offsets EXCEPT ![DefaultSection] = @ + delta]

Advance(delta) == offsets' = [offsets EXCEPT ![segment] = @ + delta]

(* Code goes to the image in the final pass only.                          *)
Emit(kind, len, value, vsegment) ==
    image' = IF ~pass_final(ptype) \/ len = 0 THEN image
             ELSE Append(image, [line |-> line, segment |-> segment,
                                 at |-> Here, len |-> len, kind |-> kind,
                                 value |-> value, vsegment |-> vsegment])

(* define_label(label, seg, sent), the entries read from table.            *)
Define(table, label, seg, sent) ==
    LET entry == table[label]
        new == DefinedEntry(label, entry, seg, sent, next_seg, pass)
    IN  /\ labels' = [table EXCEPT ![label] =
                         EntryAfterSymdef(entry, seg, new, pass, ptype)]
        /\ next_seg' = IF NeedsSegment(entry, seg) THEN next_seg + 2 ELSE next_seg
        /\ global_offset_changed' =
              global_offset_changed + (IF Changed(entry, seg, new) THEN 1 ELSE 0)
        /\ errors' =
              IF ~DefineError(entry, seg, new, pass, ptype, LateIsError) THEN errors
              ELSE IF Redefined(entry, seg, pass) THEN errors \cup {"redefined"}
              ELSE errors \cup {"late"}
        /\ symdefs' = IF HandedOver(entry, seg, new, pass, ptype)
                      THEN Append(symdefs, Symdef(label, new)) ELSE symdefs

(* A line that cannot be parsed takes no space and defines nothing.        *)
ParseFails(table, kind) ==
    /\ errors' = errors \cup {kind}
    /\ labels' = table
    /\ UNCHANGED <<placeVars, next_seg, global_offset_changed, symdefs, image>>

LabelLine ==
    /\ Line("label")
    /\ Define(labels, program[line].name, segment, Here)
    /\ UNCHANGED <<placeVars, image>>

(* EQU defines its label in every pass but the last (insn_size calls       *)
(* define_equ, assemble does not).                                         *)
EquLine ==
    /\ Line("equ")
    /\ LET e == program[line].arg
           table == Evaluated(labels, e, pass_final(ptype))
       IN  IF pass_final(ptype) /\ ~AllKnown(labels, e)
           THEN ParseFails(table, "undefined")
           ELSE IF IsComplex(labels, e, segment)
           THEN ParseFails(table, "complex")
           ELSE IF pass_final(ptype)
           THEN /\ labels' = table
                /\ UNCHANGED <<placeVars, next_seg, global_offset_changed,
                               errors, symdefs, image>>
           ELSE /\ Define(table, program[line].name,
                          ValueSegment(labels, e, segment),
                          Value(labels, e, Here))
                /\ UNCHANGED <<placeVars, image>>

DataLine ==
    /\ Line("data")
    /\ Advance(program[line].len)
    /\ Emit("data", program[line].len, 0, NO_SEG)
    /\ UNCHANGED <<segment, labelVars, errors>>

(* TIMES arg DB ...: its argument is critical from the stabilization pass  *)
(* on, and a negative one is an error of the final pass only.              *)
TimesLine ==
    /\ Line("times")
    /\ LET e == program[line].arg
           critical == pass_stable(ptype)
           table == Evaluated(labels, e, critical)
           simple == IsSimple(labels, e, segment)
           times == IF simple THEN Value(labels, e, Here) ELSE 1
           len == IF times > 0 THEN times * program[line].len ELSE 0
       IN  IF critical /\ ~AllKnown(labels, e)
           THEN ParseFails(table, "undefined")
           ELSE /\ labels' = table
                /\ errors' = errors
                      \cup (IF simple THEN {} ELSE {"nonconstant"})
                      \cup (IF times < 0 /\ pass_final(ptype)
                            THEN {"negative"} ELSE {})
                /\ Advance(len)
                /\ Emit("data", len, 0, NO_SEG)
                /\ UNCHANGED <<segment, next_seg, global_offset_changed, symdefs>>

JumpLine ==
    /\ Line("jump")
    /\ LET e == program[line].arg
           table == Evaluated(labels, e, pass_final(ptype))
           short == JumpIsShort(labels, e, segment, Here)
       IN  IF pass_final(ptype) /\ ~AllKnown(labels, e)
           THEN ParseFails(table, "undefined")
           ELSE IF IsComplex(labels, e, segment)
           THEN ParseFails(table, "complex")
           ELSE /\ labels' = table
                /\ Advance(JumpLen(short))
                /\ Emit(IF short THEN "short" ELSE "near", JumpLen(short),
                        Value(labels, e, Here), ValueSegment(labels, e, segment))
                /\ UNCHANGED <<segment, next_seg, global_offset_changed, errors,
                               symdefs>>

(* DD arg: an expression that is not relocatable is an error, but takes    *)
(* its space.                                                              *)
ReferLine ==
    /\ Line("refer")
    /\ LET e == program[line].arg
           table == Evaluated(labels, e, pass_final(ptype))
       IN  IF pass_final(ptype) /\ ~AllKnown(labels, e)
           THEN ParseFails(table, "undefined")
           ELSE /\ labels' = table
                /\ errors' = IF IsComplex(labels, e, segment)
                             THEN errors \cup {"complex"} ELSE errors
                /\ Advance(ReferLen)
                /\ Emit("refer", ReferLen, Value(labels, e, Here),
                        ValueSegment(labels, e, segment))
                /\ UNCHANGED <<segment, next_seg, global_offset_changed, symdefs>>

(* [GLOBAL name], [EXTERN name], ...                                       *)
DeclareLine ==
    /\ Line("declare")
    /\ LET s == program[line]
           entry == labels[s.name]
           table == [labels EXCEPT ![s.name] = DeclaredEntry(entry, s.type, ptype)]
           defines == s.type \in {"common", "extern", "required"}
       IN  IF DeclareAccepted(entry, s.type, ptype) /\ defines
           THEN Define(table, s.name, PSEUDO_SEG,
                       IF s.type = "common" THEN s.size ELSE 0)
           ELSE /\ labels' = table
                /\ errors' = IF DeclareError(entry, s.type, ptype)
                             THEN errors \cup {"conflict"} ELSE errors
                /\ UNCHANGED <<next_seg, global_offset_changed, symdefs>>
    /\ UNCHANGED <<placeVars, image>>

SectionLine ==
    /\ Line("section")
    /\ segment' = program[line].segment
    /\ UNCHANGED <<offsets, labelVars, errors, image>>

Next ==
    \/ BeginPass \/ EndPass \/ Finish
    \/ SkippedLine \/ LabelLine \/ EquLine \/ DataLine \/ TimesLine
    \/ JumpLine \/ ReferLine \/ DeclareLine \/ SectionLine

(* One thread of control that never waits: as long as a step is possible   *)
(* it is taken.                                                            *)
Spec == Init /\ [][Next]_vars /\ WF_vars(Next)
=============================================================================
