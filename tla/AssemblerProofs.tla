-------------------------- MODULE AssemblerProofs ---------------------------
(***************************************************************************)
(* What TLAPS proves of the multi-pass core, for every program, every set  *)
(* of labels and sections, every jump length and every limit: types and    *)
(* settings; and, from the invariant SymbolInv, the label table and the    *)
(* symbols the output format is given.                                     *)
(***************************************************************************)
EXTENDS AssemblerInvariants, TLAPS, SequenceTheorems

-----------------------------------------------------------------------------
(* Types of lines and of expressions.                                      *)

(* A sequence stays one of the same elements when one of them is appended. *)
LEMMA AppendType ==
    ASSUME NEW S, NEW s \in Seq(S), NEW x \in S
    PROVE  Append(s, x) \in Seq(S)
  BY AppendProperties

(* A line has the fields its operation needs.                              *)
LEMMA StatementTypes ==
    ASSUME NEW s \in Statements
    PROVE  /\ s.op \in {"label", "equ", "declare"} => s.name \in Labels
           /\ s.op \in {"equ", "times", "jump", "refer"} => s.arg \in Expr
           /\ s.op \in {"data", "times"} => s.len \in Nat
           /\ s.op = "declare" => s.type \in DeclaredTypes /\ s.size \in Nat
           /\ s.op = "section" => s.segment \in Sections
  BY DEF Statements

(* The line being read is a line of the program.                           *)
LEMMA CurrentLine ==
    ASSUME TypeOK, line \in 1 .. Len(program)
    PROVE  program[line] \in Statements
  BY ProgramsAssumption, ElementOfSeq DEF TypeOK

(* Every section is a number, and none is NO_SEG.                          *)
LEMMA SectionTypes == Sections \subseteq Nat /\ Sections \subseteq Int
  BY SegmentsAssumption

(* An expression has a value and a segment, whatever is in the label table.*)
LEMMA ValueTypes ==
    ASSUME NEW table \in [Labels -> Entry], NEW e \in Expr,
           NEW seg \in Int, NEW here \in Int
    PROVE  /\ Value(table, e, here) \in Int
           /\ ValueSegment(table, e, seg) \in Int
  <1>1. \A t \in Terms : TermValue(table, t, here) \in Int
    BY DEF TermValue, Known, Terms, Entry
  <1>2. \A t \in Terms : TermSegment(table, t, seg) \in Int
    BY DEF TermSegment, Known, Terms, Entry, NO_SEG
  <1>3. e.plus \in Terms /\ e.minus \in Terms /\ e.c \in Int
    BY DEF Expr
  <1>4. TermValue(table, e.plus, here) - TermValue(table, e.minus, here) + e.c \in Int
    BY <1>1, <1>3
  <1> QED
    BY <1>2, <1>3, <1>4 DEF Value, ValueSegment, NO_SEG

(* Two tables that agree on the labels of an expression give it one value. *)
LEMMA ValueDependsOnPlaces ==
    ASSUME NEW t1 \in [Labels -> Entry], NEW t2 \in [Labels -> Entry],
           NEW e \in Expr, NEW seg, NEW here,
           \A l \in {e.plus, e.minus} \cap Labels :
               /\ t1[l].segment = t2[l].segment
               /\ t1[l].offset = t2[l].offset
               /\ Found(t1[l]) <=> Found(t2[l])
    PROVE  /\ Value(t1, e, here) = Value(t2, e, here)
           /\ ValueSegment(t1, e, seg) = ValueSegment(t2, e, seg)
  <1> DEFINE T == {e.plus, e.minus}
  <1>1. T \subseteq Labels \cup {HERE, NONE}
    BY DEF Expr, Terms
  <1>2. \A t \in T : Known(t1, t) <=> Known(t2, t)
    BY <1>1 DEF Known
  <1>3. \A t \in T : TermValue(t1, t, here) = TermValue(t2, t, here)
    BY <1>1, <1>2 DEF TermValue
  <1>4. \A t \in T : TermSegment(t1, t, seg) = TermSegment(t2, t, seg)
    BY <1>1, <1>2 DEF TermSegment
  <1>5. Unknown(t1, e) <=> Unknown(t2, e)
    <2>1. Known(t1, e.plus) = Known(t2, e.plus)
      BY <1>2 DEF Known
    <2>2. Known(t1, e.minus) = Known(t2, e.minus)
      BY <1>2 DEF Known
    <2> QED
      BY <2>1, <2>2 DEF Unknown
  <1>6. Cancels(t1, e, seg) <=> Cancels(t2, e, seg)
    BY <1>4 DEF Cancels
  <1> QED
    BY <1>3, <1>4, <1>5, <1>6 DEF Value, ValueSegment

(* A lookup leaves every entry where it is.                                *)
LEMMA EvaluatedTable ==
    ASSUME NEW table \in [Labels -> Entry], NEW e, NEW critical, pass \in Nat
    PROVE  /\ Evaluated(table, e, critical) \in [Labels -> Entry]
           /\ \A l \in Labels :
                 LET new == Evaluated(table, e, critical)[l]
                 IN  /\ new.segment = table[l].segment
                     /\ new.offset = table[l].offset
                     /\ Found(new) <=> Found(table[l])
  <1>1. \A l \in Labels :
            LET new == Referenced(table[l], pass)
            IN  /\ new \in Entry
                /\ new.segment = table[l].segment
                /\ new.offset = table[l].offset
                /\ Found(new) <=> Found(table[l])
    BY DEF Referenced, Entry, Found
  <1> QED
    BY <1>1 DEF Evaluated

-----------------------------------------------------------------------------
(* Declarations and definitions.                                           *)

(* A declaration leaves an entry where it is.                              *)
LEMMA DeclaredEntryTypes ==
    ASSUME NEW entry \in Entry, NEW type \in DeclaredTypes, NEW pt
    PROVE  /\ DeclaredEntry(entry, type, pt) \in Entry
           /\ DeclaredEntry(entry, type, pt).segment = entry.segment
           /\ DeclaredEntry(entry, type, pt).offset = entry.offset
  <1>1. TypeBeforeDeclare(entry, type, pt) \in LabelTypes /\ type \in LabelTypes
    BY DEF TypeBeforeDeclare, Entry, LabelTypes, DeclaredTypes
  <1>2. \A t \in LabelTypes : [entry EXCEPT !.type = t] \in Entry
                          /\ [entry EXCEPT !.type = t, !.defined = 0] \in Entry
    BY DEF Entry
  <1> QED
    BY <1>1, <1>2 DEF DeclaredEntry, Entry

(* A definition makes an entry of an entry.                                *)
LEMMA DefinedEntryTypes ==
    ASSUME NEW label, NEW entry \in Entry, NEW seg \in Int, NEW sent \in Int,
           NEW fresh \in Nat, NEW p \in Nat, NEW pt
    PROVE  LET new == DefinedEntry(label, entry, seg, sent, fresh, p)
           IN  new \in Entry /\ EntryAfterSymdef(entry, seg, new, p, pt) \in Entry
  <1> DEFINE new == DefinedEntry(label, entry, seg, sent, fresh, p)
  <1>1. DefinedType(label, entry, seg) \in LabelTypes
    BY DEF DefinedType, LabelTypes, Entry
  <1>2. DefinedSegment(entry, seg, fresh) \in Int
    BY DEF DefinedSegment, Entry
  <1>3. new \in Entry
    BY <1>1, <1>2 DEF DefinedEntry, Entry
  <1>4. [new EXCEPT !.type = "required"] \in Entry
    BY <1>3 DEF Entry, LabelTypes
  <1> QED
    BY <1>3, <1>4 DEF EntryAfterSymdef

(* The symbol of a definition is one the output format may be given.       *)
LEMMA SymdefTypes ==
    ASSUME NEW label \in Labels, NEW new \in Entry
    PROVE  Symdef(label, new) \in Symdefs
  <1>1. SymdefKind(new.type) \in {0, 1, 2}
    BY DEF SymdefKind
  <1> QED
    BY <1>1 DEF Symdef, Symdefs, Entry

(* define_label keeps the types, and leaves global_offset_changed at zero  *)
(* only if the label already was where it puts it.                         *)
LEMMA DefineStep ==
    ASSUME TypeOK, NEW table \in [Labels -> Entry], NEW label \in Labels,
           NEW seg \in Int, NEW sent \in Int,
           Define(table, label, seg, sent)
    PROVE  /\ labels' \in [Labels -> Entry]
           /\ next_seg' \in Nat
           /\ global_offset_changed' \in Nat
           /\ errors' \subseteq ErrorKinds
           /\ symdefs' \in Seq(Symdefs)
           /\ global_offset_changed' = 0 =>
                 /\ global_offset_changed = 0
                 /\ \A l \in Labels : /\ labels'[l].segment = table[l].segment
                                     /\ labels'[l].offset = table[l].offset
  <1> DEFINE entry == table[label]
             new == DefinedEntry(label, entry, seg, sent, next_seg, pass)
             after == EntryAfterSymdef(entry, seg, new, pass, ptype)
  <1>1. entry \in Entry /\ pass \in Nat /\ next_seg \in Nat
    BY DEF TypeOK
  <1>2. new \in Entry /\ after \in Entry
    BY <1>1, DefinedEntryTypes
  <1>3. labels' = [table EXCEPT ![label] = after]
    BY DEF Define
  <1>4. labels' \in [Labels -> Entry]
    BY <1>2, <1>3
  <1>5. next_seg' \in Nat
    BY <1>1 DEF Define
  <1>6. global_offset_changed' =
            global_offset_changed + (IF Changed(entry, seg, new) THEN 1 ELSE 0)
    BY DEF Define
  <1>7. global_offset_changed' \in Nat
    BY <1>6 DEF TypeOK
  <1>8. errors' \subseteq ErrorKinds
    BY DEF Define, TypeOK, ErrorKinds
  <1>9. symdefs' \in Seq(Symdefs)
    <2>1. Symdef(label, new) \in Symdefs
      BY <1>2, SymdefTypes
    <2>2. symdefs' = symdefs \/ symdefs' = Append(symdefs, Symdef(label, new))
      BY DEF Define
    <2> QED
      BY <2>1, <2>2, AppendType DEF TypeOK
  <1>10. ASSUME global_offset_changed' = 0
         PROVE  /\ global_offset_changed = 0
                /\ \A l \in Labels : /\ labels'[l].segment = table[l].segment
                                    /\ labels'[l].offset = table[l].offset
    <2>1. global_offset_changed = 0 /\ ~Changed(entry, seg, new)
      BY <1>6, <1>10 DEF TypeOK
    <2>2. new.segment = entry.segment /\ new.offset = entry.offset
      BY <2>1 DEF Changed, SameValue
    <2>3. after.segment = new.segment /\ after.offset = new.offset
      BY <1>2 DEF EntryAfterSymdef, Entry
    <2> QED
      BY <1>2, <1>3, <2>1, <2>2, <2>3
  <1> QED
    BY <1>4, <1>5, <1>7, <1>8, <1>9, <1>10

-----------------------------------------------------------------------------
(* What every line has in common.                                          *)

(* A line is read inside some section.                                     *)
InSection == line # 0 => segment \in Sections

(* Reading a line disturbs nothing of the pass loop.                       *)
LEMMA ReadLineTypes ==
    ASSUME TypeOK, InSection, ReadLine
    PROVE  /\ line \in 1 .. Len(program) /\ line' = line + 1
           /\ program[line] \in Statements
           /\ segment \in Sections /\ segment \in Int /\ Here \in Int
           /\ program' \in Programs
           /\ pass' \in Nat /\ ptype' \in PassTypes
           /\ line' \in Nat /\ line' <= Len(program') + 1
           /\ prev_offset_changed' \in Nat /\ stall_count' \in Nat
           /\ outcome' \in {"running", "ok", "failed"}
  <1>1. line \in 1 .. Len(program) /\ line' = line + 1 /\ UNCHANGED passVars
    BY DEF ReadLine
  <1>2. program[line] \in Statements
    BY <1>1, CurrentLine
  <1>3. Len(program) \in Nat
    BY ProgramsAssumption, LenProperties DEF TypeOK
  <1>4. line # 0
    BY <1>1, <1>3
  <1>5. segment \in Sections /\ segment \in Int
    BY <1>4, SectionTypes DEF InSection
  <1>6. Here \in Int
    BY <1>5 DEF Here, TypeOK
  <1>7. line' \in Nat /\ line' <= Len(program) + 1
    BY <1>1, <1>3
  <1> QED
    BY <1>1, <1>2, <1>5, <1>6, <1>7 DEF passVars, TypeOK

(* Code is appended to the image, in the final pass only.                  *)
LEMMA EmitTypes ==
    ASSUME TypeOK, InSection, ReadLine,
           NEW kind \in CodeKinds, NEW len \in Int, NEW value \in Int,
           NEW vsegment \in Int, Emit(kind, len, value, vsegment)
    PROVE  /\ image' \in Seq(Code)
           /\ ptype # "final" => image' = image
  <1> DEFINE code == [line |-> line, segment |-> segment, at |-> Here,
                      len |-> len, kind |-> kind, value |-> value,
                      vsegment |-> vsegment]
  <1>1. line \in Nat \ {0} /\ segment \in Sections /\ Here \in Int
    BY ReadLineTypes DEF TypeOK
  <1>2. code \in Code
    BY <1>1 DEF Code
  <1>3. \/ image' = image
        \/ ptype = "final" /\ image' = Append(image, code)
    BY DEF Emit, pass_final
  <1> QED
    BY <1>2, <1>3, AppendType DEF TypeOK

(* The offset of the section advances.                                     *)
LEMMA AdvanceTypes ==
    ASSUME TypeOK, segment \in Sections, NEW delta \in Int, Advance(delta)
    PROVE  offsets' \in [Sections -> Int]
  <1>1. offsets \in [Sections -> Int] /\ offsets[segment] + delta \in Int
    BY DEF TypeOK
  <1> QED
    BY <1>1 DEF Advance

(* A line that fails to parse only reports so.                             *)
LEMMA ParseFailsTypes ==
    ASSUME TypeOK, NEW table \in [Labels -> Entry], NEW kind \in ErrorKinds,
           ParseFails(table, kind)
    PROVE  /\ segment' = segment
           /\ offsets' \in [Sections -> Int]
           /\ labels' = table /\ next_seg' \in Nat
           /\ global_offset_changed' = global_offset_changed
           /\ errors' \subseteq ErrorKinds
           /\ symdefs' \in Seq(Symdefs) /\ image' = image
  BY DEF ParseFails, TypeOK, placeVars

(* The lengths of jumps are numbers.                                       *)
LEMMA JumpLenTypes == \A short \in BOOLEAN : JumpLen(short) \in Int
  BY SizesAssumption DEF JumpLen

-----------------------------------------------------------------------------
(* Type correctness.                                                       *)

LEMMA TypesInit == Init => TypeOK /\ InSection
  <1> SUFFICES ASSUME Init PROVE TypeOK /\ InSection
    OBVIOUS
  <1>1. labels \in [Labels -> Entry]
    <2>1. FreshEntry \in Entry
      BY DEF FreshEntry, Entry, LabelTypes
    <2>2. [FreshEntry EXCEPT !.type = "backend", !.segment = FirstFreeSegment,
                             !.defined = 1] \in Entry
      <3>1. FirstFreeSegment \in Int /\ "backend" \in LabelTypes
        BY SegmentsAssumption DEF LabelTypes
      <3> QED
        BY <2>1, <3>1 DEF Entry
    <2> QED
      BY <2>1, <2>2 DEF Init
  <1>2. next_seg \in Nat /\ prev_offset_changed \in Nat
    BY SegmentsAssumption, LimitsAssumption DEF Init
  <1>3. program \in Programs /\ line = 0 /\ line <= Len(program) + 1
    BY ProgramsAssumption, LenProperties DEF Init
  <1>4. symdefs \in Seq(Symdefs) /\ image \in Seq(Code)
    BY DEF Init
  <1> QED
    BY <1>1, <1>2, <1>3, <1>4 DEF Init, TypeOK, InSection, PassTypes, ErrorKinds

LEMMA TypesLoop ==
    ASSUME TypeOK, InSection, BeginPass \/ EndPass \/ Finish
    PROVE  TypeOK' /\ InSection'
  <1>1. Len(program) \in Nat
    BY ProgramsAssumption, LenProperties DEF TypeOK
  <1>2. CASE BeginPass
    <2>1. ptype' \in PassTypes
      BY <1>2 DEF BeginPass, NextPassType, PassTypes, TypeOK
    <2>2. offsets' \in [Sections -> Int] /\ segment' \in Sections
      BY <1>2, SegmentsAssumption DEF BeginPass
    <2> QED
      BY <1>1, <1>2, <2>1, <2>2 DEF BeginPass, TypeOK, InSection
  <1>3. CASE EndPass
    <2>1. StallCount \in Nat
      BY DEF StallCount, TypeOK
    <2>2. PassErrors \subseteq ErrorKinds
      BY DEF PassErrors, ErrorKinds
    <2>3. prev_offset_changed' \in Nat
      BY <1>3 DEF EndPass, TypeOK
    <2>4. line' = 0 /\ line' <= Len(program') + 1
      BY <1>1, <1>3 DEF EndPass
    <2> QED
      BY <1>3, <2>1, <2>2, <2>3, <2>4 DEF EndPass, TypeOK, InSection
  <1>4. CASE Finish
    <2>1. errors' \subseteq ErrorKinds /\ outcome' \in {"running", "ok", "failed"}
      BY <1>4 DEF Finish, TypeOK, ErrorKinds
    <2> QED
      BY <1>4, <2>1 DEF Finish, TypeOK, InSection
  <1> QED
    BY <1>2, <1>3, <1>4

(* A line keeps the types if it keeps those of what it changes.            *)
LEMMA TypesOfLine ==
    ASSUME TypeOK, InSection, ReadLine,
           segment' \in Sections, offsets' \in [Sections -> Int],
           labels' \in [Labels -> Entry], next_seg' \in Nat,
           global_offset_changed' \in Nat, errors' \subseteq ErrorKinds,
           symdefs' \in Seq(Symdefs), image' \in Seq(Code)
    PROVE  TypeOK' /\ InSection'
  BY ReadLineTypes DEF TypeOK, InSection

LEMMA TypesLabelLine ==
    ASSUME TypeOK, InSection, LabelLine
    PROVE  TypeOK' /\ InSection'
  <1>1. ReadLine /\ program[line].op = "label"
    BY DEF LabelLine, Line
  <1>2. program[line].name \in Labels /\ segment \in Sections /\ segment \in Int
        /\ Here \in Int
    BY <1>1, ReadLineTypes, StatementTypes
  <1>3. Define(labels, program[line].name, segment, Here)
    BY DEF LabelLine
  <1>4. labels \in [Labels -> Entry]
    BY DEF TypeOK
  <1>5. segment' = segment /\ offsets' = offsets /\ image' = image
    BY DEF LabelLine, placeVars
  <1> QED
    BY <1>1, <1>2, <1>3, <1>4, <1>5, DefineStep, TypesOfLine DEF TypeOK

LEMMA TypesEquLine ==
    ASSUME TypeOK, InSection, EquLine
    PROVE  TypeOK' /\ InSection'
  <1> DEFINE e == program[line].arg
             table == Evaluated(labels, e, pass_final(ptype))
  <1>1. ReadLine /\ program[line].op = "equ"
    BY DEF EquLine, Line
  <1>2. program[line].name \in Labels /\ e \in Expr /\ segment \in Sections
        /\ segment \in Int /\ Here \in Int
    BY <1>1, ReadLineTypes, StatementTypes
  <1>3. labels \in [Labels -> Entry] /\ table \in [Labels -> Entry]
    BY EvaluatedTable DEF TypeOK
  <1>4. CASE ParseFails(table, "undefined") \/ ParseFails(table, "complex")
    <2>1. {"undefined", "complex"} \subseteq ErrorKinds
      BY DEF ErrorKinds
    <2> QED
      BY <1>1, <1>2, <1>3, <1>4, <2>1, ParseFailsTypes, TypesOfLine DEF TypeOK
  <1>5. CASE /\ labels' = table
             /\ UNCHANGED <<placeVars, next_seg, global_offset_changed, errors,
                            symdefs, image>>
    BY <1>1, <1>2, <1>3, <1>5, TypesOfLine DEF TypeOK, placeVars
  <1>6. CASE /\ Define(table, program[line].name,
                       ValueSegment(labels, e, segment), Value(labels, e, Here))
             /\ UNCHANGED <<placeVars, image>>
    <2>1. ValueSegment(labels, e, segment) \in Int /\ Value(labels, e, Here) \in Int
      BY <1>2, <1>3, ValueTypes
    <2> QED
      BY <1>1, <1>2, <1>3, <1>6, <2>1, DefineStep, TypesOfLine DEF TypeOK, placeVars
  <1> QED
    BY <1>4, <1>5, <1>6 DEF EquLine

LEMMA TypesDataLine ==
    ASSUME TypeOK, InSection, DataLine
    PROVE  TypeOK' /\ InSection'
  <1>1. ReadLine /\ program[line].op = "data"
    BY DEF DataLine, Line
  <1>2. program[line].len \in Int /\ segment \in Sections
    BY <1>1, ReadLineTypes, StatementTypes
  <1>3. offsets' \in [Sections -> Int]
    BY <1>2, AdvanceTypes DEF DataLine
  <1>4. image' \in Seq(Code)
    BY <1>1, <1>2, EmitTypes DEF DataLine, CodeKinds, NO_SEG
  <1> QED
    BY <1>1, <1>2, <1>3, <1>4, TypesOfLine DEF DataLine, TypeOK, labelVars

LEMMA TypesTimesLine ==
    ASSUME TypeOK, InSection, TimesLine
    PROVE  TypeOK' /\ InSection'
  <1> DEFINE e == program[line].arg
             critical == pass_stable(ptype)
             table == Evaluated(labels, e, critical)
             simple == IsSimple(labels, e, segment)
             times == IF simple THEN Value(labels, e, Here) ELSE 1
             len == IF times > 0 THEN times * program[line].len ELSE 0
  <1>1. ReadLine /\ program[line].op = "times"
    BY DEF TimesLine, Line
  <1>2. e \in Expr /\ program[line].len \in Nat /\ segment \in Sections
        /\ segment \in Int /\ Here \in Int
    BY <1>1, ReadLineTypes, StatementTypes
  <1>3. labels \in [Labels -> Entry] /\ table \in [Labels -> Entry]
    BY EvaluatedTable DEF TypeOK
  <1>4. len \in Int
    <2>0. Value(labels, e, Here) \in Int
      BY <1>2, <1>3, ValueTypes
    <2>1. times \in Int
      BY <2>0
    <2> HIDE DEF times
    <2>2. times * program[line].len \in Int
      BY <1>2, <2>1
    <2> QED
      BY <2>2
  <1>5. CASE ParseFails(table, "undefined")
    BY <1>1, <1>2, <1>3, <1>5, ParseFailsTypes, TypesOfLine DEF TypeOK, ErrorKinds
  <1>6. CASE /\ labels' = table
             /\ errors' = errors \cup (IF simple THEN {} ELSE {"nonconstant"})
                                \cup (IF times < 0 /\ pass_final(ptype)
                                      THEN {"negative"} ELSE {})
             /\ Advance(len)
             /\ Emit("data", len, 0, NO_SEG)
             /\ UNCHANGED <<segment, next_seg, global_offset_changed, symdefs>>
    <2> HIDE DEF len, times, simple, table
    <2>1. errors' \subseteq ErrorKinds
      BY <1>6 DEF TypeOK, ErrorKinds
    <2>2. offsets' \in [Sections -> Int]
      BY <1>2, <1>4, <1>6, AdvanceTypes
    <2>3. image' \in Seq(Code)
      <3>1. "data" \in CodeKinds /\ 0 \in Int /\ NO_SEG \in Int
        BY DEF CodeKinds, NO_SEG
      <3>2. Emit("data", len, 0, NO_SEG)
        BY <1>6
      <3> QED
        BY <1>1, <1>4, <3>1, <3>2, EmitTypes
    <2> QED
      BY <1>1, <1>2, <1>3, <1>6, <2>1, <2>2, <2>3, TypesOfLine DEF TypeOK
  <1> QED
    BY <1>5, <1>6 DEF TimesLine

LEMMA TypesJumpLine ==
    ASSUME TypeOK, InSection, JumpLine
    PROVE  TypeOK' /\ InSection'
  <1> DEFINE e == program[line].arg
             table == Evaluated(labels, e, pass_final(ptype))
             short == JumpIsShort(labels, e, segment, Here)
             kind == IF short THEN "short" ELSE "near"
             value == Value(labels, e, Here)
             vseg == ValueSegment(labels, e, segment)
  <1>1. ReadLine /\ program[line].op = "jump"
    BY DEF JumpLine, Line
  <1>2. e \in Expr /\ segment \in Sections /\ segment \in Int /\ Here \in Int
    BY <1>1, ReadLineTypes, StatementTypes
  <1>3. labels \in [Labels -> Entry] /\ table \in [Labels -> Entry]
    BY EvaluatedTable DEF TypeOK
  <1>4. value \in Int /\ vseg \in Int
    BY <1>2, <1>3, ValueTypes
  <1>5. kind \in CodeKinds /\ JumpLen(short) \in Int
    BY SizesAssumption DEF CodeKinds, JumpLen
  <1>6. CASE ParseFails(table, "undefined") \/ ParseFails(table, "complex")
    <2>1. {"undefined", "complex"} \subseteq ErrorKinds
      BY DEF ErrorKinds
    <2> QED
      BY <1>1, <1>2, <1>3, <1>6, <2>1, ParseFailsTypes, TypesOfLine DEF TypeOK
  <1>7. CASE /\ labels' = table
             /\ Advance(JumpLen(short))
             /\ Emit(kind, JumpLen(short), value, vseg)
             /\ UNCHANGED <<segment, next_seg, global_offset_changed, errors,
                            symdefs>>
    <2> HIDE DEF table, kind, value, vseg, short
    <2>1. offsets' \in [Sections -> Int]
      BY <1>2, <1>5, <1>7, AdvanceTypes
    <2>2. image' \in Seq(Code)
      BY <1>1, <1>4, <1>5, <1>7, EmitTypes
    <2> QED
      BY <1>1, <1>2, <1>3, <1>7, <2>1, <2>2, TypesOfLine DEF TypeOK
  <1> QED
    BY <1>6, <1>7 DEF JumpLine

LEMMA TypesReferLine ==
    ASSUME TypeOK, InSection, ReferLine
    PROVE  TypeOK' /\ InSection'
  <1> DEFINE e == program[line].arg
             table == Evaluated(labels, e, pass_final(ptype))
             value == Value(labels, e, Here)
             vseg == ValueSegment(labels, e, segment)
  <1>1. ReadLine /\ program[line].op = "refer"
    BY DEF ReferLine, Line
  <1>2. e \in Expr /\ segment \in Sections /\ segment \in Int /\ Here \in Int
    BY <1>1, ReadLineTypes, StatementTypes
  <1>3. labels \in [Labels -> Entry] /\ table \in [Labels -> Entry]
    BY EvaluatedTable DEF TypeOK
  <1>4. value \in Int /\ vseg \in Int /\ ReferLen \in Int /\ "refer" \in CodeKinds
    BY <1>2, <1>3, ValueTypes, SizesAssumption DEF CodeKinds
  <1>5. CASE ParseFails(table, "undefined")
    BY <1>1, <1>2, <1>3, <1>5, ParseFailsTypes, TypesOfLine DEF TypeOK, ErrorKinds
  <1>6. CASE /\ labels' = table
             /\ errors' = IF IsComplex(labels, e, segment)
                          THEN errors \cup {"complex"} ELSE errors
             /\ Advance(ReferLen)
             /\ Emit("refer", ReferLen, value, vseg)
             /\ UNCHANGED <<segment, next_seg, global_offset_changed, symdefs>>
    <2> HIDE DEF table, value, vseg
    <2>1. errors' \subseteq ErrorKinds
      BY <1>6 DEF TypeOK, ErrorKinds
    <2>2. offsets' \in [Sections -> Int]
      BY <1>2, <1>4, <1>6, AdvanceTypes
    <2>3. image' \in Seq(Code)
      BY <1>1, <1>4, <1>6, EmitTypes
    <2> QED
      BY <1>1, <1>2, <1>3, <1>6, <2>1, <2>2, <2>3, TypesOfLine DEF TypeOK
  <1> QED
    BY <1>5, <1>6 DEF ReferLine

LEMMA TypesDeclareLine ==
    ASSUME TypeOK, InSection, DeclareLine
    PROVE  TypeOK' /\ InSection'
  <1> DEFINE s == program[line]
             entry == labels[s.name]
             declared == DeclaredEntry(entry, s.type, ptype)
             table == [labels EXCEPT ![s.name] = declared]
             sent == IF s.type = "common" THEN s.size ELSE 0
  <1>1. ReadLine /\ s.op = "declare" /\ UNCHANGED <<placeVars, image>>
    BY DEF DeclareLine, Line
  <1>2. s.name \in Labels /\ s.type \in DeclaredTypes /\ s.size \in Nat
        /\ segment \in Sections
    BY <1>1, ReadLineTypes, StatementTypes
  <1>3. table \in [Labels -> Entry]
    BY <1>2, DeclaredEntryTypes DEF TypeOK
  <1>4. CASE Define(table, s.name, PSEUDO_SEG, sent)
    <2>1. PSEUDO_SEG \in Int /\ sent \in Int
      BY <1>2 DEF PSEUDO_SEG
    <2> HIDE DEF table, sent
    <2> QED
      BY <1>1, <1>2, <1>3, <1>4, <2>1, DefineStep, TypesOfLine DEF TypeOK, placeVars
  <1>5. CASE /\ labels' = table
             /\ errors' = IF DeclareError(entry, s.type, ptype)
                          THEN errors \cup {"conflict"} ELSE errors
             /\ UNCHANGED <<next_seg, global_offset_changed, symdefs>>
    <2> HIDE DEF table
    <2>1. errors' \subseteq ErrorKinds
      BY <1>5 DEF TypeOK, ErrorKinds
    <2> QED
      BY <1>1, <1>2, <1>3, <1>5, <2>1, TypesOfLine DEF TypeOK, placeVars
  <1> QED
    BY <1>4, <1>5 DEF DeclareLine

LEMMA TypesOtherLines ==
    ASSUME TypeOK, InSection, SkippedLine \/ SectionLine
    PROVE  TypeOK' /\ InSection'
  <1>1. CASE SkippedLine
    BY <1>1, ReadLineTypes, TypesOfLine
       DEF SkippedLine, placeVars, labelVars, TypeOK
  <1>2. CASE SectionLine
    <2>1. ReadLine /\ program[line].op = "section"
      BY <1>2 DEF SectionLine, Line
    <2>2. program[line].segment \in Sections
      BY <2>1, ReadLineTypes, StatementTypes
    <2> QED
      BY <1>2, <2>1, <2>2, TypesOfLine DEF SectionLine, labelVars, TypeOK
  <1> QED
    BY <1>1, <1>2

LEMMA TypesStep ==
    ASSUME TypeOK, InSection, [Next]_vars
    PROVE  TypeOK' /\ InSection'
  <1>1. CASE Next
    BY <1>1, TypesLoop, TypesLabelLine, TypesEquLine, TypesDataLine, TypesTimesLine,
       TypesJumpLine, TypesReferLine, TypesDeclareLine, TypesOtherLines DEF Next
  <1>2. CASE UNCHANGED vars
    BY <1>2 DEF vars, TypeOK, InSection
  <1> QED
    BY <1>1, <1>2

(* Every variable keeps its type in every assembly: the label table always *)
(* holds well-formed entries, and whatever is handed to the output format  *)
(* is a symbol or a piece of code its interface allows (labels.c           *)
(* out_symdef, assemble.c out).                                            *)
THEOREM TypeCorrectness == Spec => []TypeOK
  <1>1. Init => TypeOK /\ InSection
    BY TypesInit
  <1>2. TypeOK /\ InSection /\ [Next]_vars => (TypeOK /\ InSection)'
    BY TypesStep
  <1> QED
    BY <1>1, <1>2, PTL DEF Spec

-----------------------------------------------------------------------------
(* What a line does to the label table and to the image.                   *)

(* If global_offset_changed is zero after the line, no label moved.        *)
Quiet ==
    global_offset_changed' = 0 =>
        /\ global_offset_changed = 0
        /\ \A l \in Labels : /\ labels'[l].segment = labels[l].segment
                            /\ labels'[l].offset = labels[l].offset

(* A piece of code that refers to something holds the value its expression *)
(* has in the label table the line finds, where each of its labels is known*)
Faithful(c) ==
    IsReference(c) =>
        LET e == program[c.line].arg
        IN  /\ e \in Expr
            /\ AllKnown(labels, e)
            /\ c.value = Value(labels, e, c.at)
            /\ c.vsegment = ValueSegment(labels, e, c.segment)

(* At most one piece is generated, in the final pass, and it is faithful.  *)
Generates ==
    \/ image' = image
    \/ /\ ptype = "final"
       /\ \E c \in Code : image' = Append(image, c) /\ Faithful(c)

LEMMA EmitGenerates ==
    ASSUME TypeOK, InSection, ReadLine,
           NEW kind \in CodeKinds, NEW len \in Int, NEW value \in Int,
           NEW vsegment \in Int, Emit(kind, len, value, vsegment),
           ptype = "final" =>
               Faithful([line |-> line, segment |-> segment, at |-> Here,
                         len |-> len, kind |-> kind, value |-> value,
                         vsegment |-> vsegment])
    PROVE  Generates
  <1> DEFINE code == [line |-> line, segment |-> segment, at |-> Here,
                      len |-> len, kind |-> kind, value |-> value,
                      vsegment |-> vsegment]
  <1>1. line \in Nat \ {0} /\ segment \in Sections /\ Here \in Int
    BY ReadLineTypes DEF TypeOK
  <1>2. code \in Code
    BY <1>1 DEF Code
  <1>3. \/ image' = image
        \/ ptype = "final" /\ image' = Append(image, code)
    BY DEF Emit, pass_final
  <1> HIDE DEF code
  <1>4. ptype = "final" => Faithful(code)
    BY DEF code
  <1> QED
    BY <1>2, <1>3, <1>4 DEF Generates

(* A table made from the current one without moving a label is as good.    *)
LEMMA QuietTable ==
    ASSUME TypeOK,
           global_offset_changed' = global_offset_changed,
           \A l \in Labels : /\ labels'[l].segment = labels[l].segment
                            /\ labels'[l].offset = labels[l].offset
    PROVE  Quiet
  BY DEF Quiet

LEMMA EffectsLabelEquDeclare ==
    ASSUME TypeOK, InSection, LabelLine \/ EquLine \/ DeclareLine
    PROVE  Quiet /\ Generates
  <1>1. ReadLine
    BY DEF LabelLine, EquLine, DeclareLine, Line
  <1>2. labels \in [Labels -> Entry] /\ pass \in Nat
    BY DEF TypeOK
  <1>3. segment \in Int /\ Here \in Int
    BY <1>1, ReadLineTypes
  <1>4. CASE LabelLine
    <2>1. program[line].name \in Labels
      BY <1>1, <1>4, ReadLineTypes, StatementTypes DEF LabelLine, Line
    <2>2. Define(labels, program[line].name, segment, Here)
      BY <1>4 DEF LabelLine
    <2>3. Quiet
      BY <1>2, <1>3, <2>1, <2>2, DefineStep DEF Quiet
    <2> QED
      BY <1>4, <2>3 DEF LabelLine, Generates
  <1>5. CASE EquLine
    <2> DEFINE e == program[line].arg
               table == Evaluated(labels, e, pass_final(ptype))
    <2>1. program[line].name \in Labels /\ e \in Expr
      BY <1>1, <1>5, ReadLineTypes, StatementTypes DEF EquLine, Line
    <2>2. /\ table \in [Labels -> Entry]
          /\ \A l \in Labels : /\ table[l].segment = labels[l].segment
                              /\ table[l].offset = labels[l].offset
      BY <1>2, EvaluatedTable
    <2>3. image' = image
      BY <1>5 DEF EquLine, ParseFails
    <2>4. CASE labels' = table /\ global_offset_changed' = global_offset_changed
      BY <2>2, <2>3, <2>4, QuietTable DEF Generates
    <2>5. CASE Define(table, program[line].name, ValueSegment(labels, e, segment),
                      Value(labels, e, Here))
      <3>1. ValueSegment(labels, e, segment) \in Int /\ Value(labels, e, Here) \in Int
        BY <1>2, <1>3, <2>1, ValueTypes
      <3> HIDE DEF table
      <3> QED
        BY <2>1, <2>2, <2>3, <2>5, <3>1, DefineStep DEF Quiet, Generates
    <2> QED
      BY <1>5, <2>4, <2>5 DEF EquLine, ParseFails
  <1>6. CASE DeclareLine
    <2> DEFINE s == program[line]
               entry == labels[s.name]
               declared == DeclaredEntry(entry, s.type, ptype)
               table == [labels EXCEPT ![s.name] = declared]
               sent == IF s.type = "common" THEN s.size ELSE 0
    <2>1. s.name \in Labels /\ s.type \in DeclaredTypes /\ s.size \in Nat
      BY <1>1, <1>6, ReadLineTypes, StatementTypes DEF DeclareLine, Line
    <2>2. /\ declared \in Entry
          /\ declared.segment = entry.segment /\ declared.offset = entry.offset
      BY <1>2, <2>1, DeclaredEntryTypes
    <2>3. /\ table \in [Labels -> Entry]
          /\ \A l \in Labels : /\ table[l].segment = labels[l].segment
                              /\ table[l].offset = labels[l].offset
      BY <1>2, <2>1, <2>2
    <2>4. image' = image
      BY <1>6 DEF DeclareLine
    <2>5. CASE labels' = table /\ global_offset_changed' = global_offset_changed
      BY <2>3, <2>4, <2>5, QuietTable DEF Generates
    <2>6. CASE Define(table, s.name, PSEUDO_SEG, sent)
      <3>1. PSEUDO_SEG \in Int /\ sent \in Int
        BY <2>1 DEF PSEUDO_SEG
      <3> HIDE DEF table, sent
      <3> QED
        BY <2>1, <2>3, <2>4, <2>6, <3>1, DefineStep DEF Quiet, Generates
    <2> QED
      BY <1>6, <2>5, <2>6 DEF DeclareLine
  <1> QED
    BY <1>4, <1>5, <1>6

(* The lines that generate no reference.                                   *)
LEMMA EffectsOtherLines ==
    ASSUME TypeOK, InSection, DataLine \/ TimesLine \/ SkippedLine \/ SectionLine
    PROVE  Quiet /\ Generates
  <1>1. ReadLine
    BY DEF DataLine, TimesLine, SkippedLine, SectionLine, Line
  <1>2. CASE SkippedLine \/ SectionLine
    <2>1. UNCHANGED <<labelVars, image>>
      BY <1>2 DEF SkippedLine, SectionLine
    <2> QED
      BY <2>1, QuietTable DEF labelVars, Generates
  <1> DEFINE Piece(len) ==
                 [line |-> line, segment |-> segment, at |-> Here, len |-> len,
                  kind |-> "data", value |-> 0, vsegment |-> NO_SEG]
  <1>3. \A len : Faithful(Piece(len))
    BY DEF Faithful, IsReference
  <1> HIDE DEF Piece
  <1>4. ASSUME NEW len \in Int, Emit("data", len, 0, NO_SEG)
        PROVE  Generates
    <2>1. "data" \in CodeKinds /\ 0 \in Int /\ NO_SEG \in Int
      BY DEF CodeKinds, NO_SEG
    <2> QED
      BY <1>1, <1>3, <1>4, <2>1, EmitGenerates DEF Piece
  <1>5. CASE DataLine
    <2>1. program[line].len \in Int
      BY <1>1, <1>5, ReadLineTypes, StatementTypes DEF DataLine, Line
    <2>2. Emit("data", program[line].len, 0, NO_SEG) /\ UNCHANGED labelVars
      BY <1>5 DEF DataLine
    <2> QED
      BY <1>4, <2>1, <2>2, QuietTable DEF labelVars
  <1>6. CASE TimesLine
    <2> DEFINE e == program[line].arg
               critical == pass_stable(ptype)
               table == Evaluated(labels, e, critical)
               simple == IsSimple(labels, e, segment)
               times == IF simple THEN Value(labels, e, Here) ELSE 1
               len == IF times > 0 THEN times * program[line].len ELSE 0
    <2>1. e \in Expr /\ program[line].len \in Nat /\ segment \in Int /\ Here \in Int
      BY <1>1, <1>6, ReadLineTypes, StatementTypes DEF TimesLine, Line
    <2>2. \A l \in Labels : /\ table[l].segment = labels[l].segment
                           /\ table[l].offset = labels[l].offset
      BY EvaluatedTable DEF TypeOK
    <2>3. Value(labels, e, Here) \in Int
      BY <2>1, ValueTypes DEF TypeOK
    <2>4. times \in Int
      BY <2>3
    <2>5. len \in Int
      <3> HIDE DEF times
      <3>1. times * program[line].len \in Int
        BY <2>1, <2>4
      <3> QED
        BY <3>1
    <2>6. /\ labels' = table /\ global_offset_changed' = global_offset_changed
          /\ image' = image \/ Emit("data", len, 0, NO_SEG)
      BY <1>6 DEF TimesLine, ParseFails
    <2> HIDE DEF len, table
    <2>7. Quiet
      BY <2>2, <2>6, QuietTable
    <2> QED
      BY <1>4, <2>5, <2>6, <2>7 DEF Generates
  <1> QED
    BY <1>2, <1>5, <1>6

(* The lines that generate a reference.                                    *)
LEMMA EffectsJumpRefer ==
    ASSUME TypeOK, InSection, JumpLine \/ ReferLine
    PROVE  Quiet /\ Generates
  <1> DEFINE e == program[line].arg
             table == Evaluated(labels, e, pass_final(ptype))
             short == JumpIsShort(labels, e, segment, Here)
             value == Value(labels, e, Here)
             vseg == ValueSegment(labels, e, segment)
             Piece(kind, len) ==
                 [line |-> line, segment |-> segment, at |-> Here, len |-> len,
                  kind |-> kind, value |-> value, vsegment |-> vseg]
  <1>1. ReadLine
    BY DEF JumpLine, ReferLine, Line
  <1>2. e \in Expr /\ segment \in Int /\ Here \in Int
    BY <1>1, ReadLineTypes, StatementTypes DEF JumpLine, ReferLine, Line
  <1>3. \A l \in Labels : /\ table[l].segment = labels[l].segment
                         /\ table[l].offset = labels[l].offset
    BY EvaluatedTable DEF TypeOK
  <1>4. value \in Int /\ vseg \in Int
    BY <1>2, ValueTypes DEF TypeOK
  <1>5. ASSUME AllKnown(labels, e), NEW kind \in CodeKinds, NEW len \in Int
        PROVE  Faithful(Piece(kind, len))
    BY <1>2, <1>5 DEF Faithful
  <1> HIDE DEF value, vseg
  <1>6. ASSUME ptype = "final" => AllKnown(labels, e),
               NEW kind \in CodeKinds, NEW len \in Int,
               Emit(kind, len, value, vseg)
        PROVE  Generates
    BY <1>1, <1>4, <1>5, <1>6, EmitGenerates
  <1>7. labels' = table /\ global_offset_changed' = global_offset_changed
    BY DEF JumpLine, ReferLine, ParseFails
  <1>8. Quiet
    BY <1>3, <1>7, QuietTable
  <1>9. CASE JumpLine
    <2> DEFINE kind == IF short THEN "short" ELSE "near"
    <2>1. kind \in CodeKinds /\ JumpLen(short) \in Int
      BY SizesAssumption DEF CodeKinds, JumpLen
    <2>2. \/ image' = image
          \/ /\ ptype = "final" => AllKnown(labels, e)
             /\ Emit(kind, JumpLen(short), value, vseg)
      BY <1>9 DEF JumpLine, ParseFails, pass_final, value, vseg
    <2> HIDE DEF kind, short
    <2> QED
      BY <1>6, <1>8, <2>1, <2>2 DEF Generates
  <1>10. CASE ReferLine
    <2>1. "refer" \in CodeKinds /\ ReferLen \in Int
      BY SizesAssumption DEF CodeKinds
    <2>2. \/ image' = image
          \/ /\ ptype = "final" => AllKnown(labels, e)
             /\ Emit("refer", ReferLen, value, vseg)
      BY <1>10 DEF ReferLine, ParseFails, pass_final, value, vseg
    <2> QED
      BY <1>6, <1>8, <2>1, <2>2 DEF Generates
  <1> QED
    BY <1>9, <1>10

-----------------------------------------------------------------------------
(* References: the inductive invariant.                                    *)

NothingBeforeFinal == ptype # "final" => image = <<>>

ReferencesHaveExpr ==
    \A i \in DOMAIN image :
        IsReference(image[i]) => program[image[i].line].arg \in Expr

(* As long as no label moved in the final pass, all its references agree.  *)
FinalReferencesAgree ==
    ptype = "final" /\ global_offset_changed = 0 =>
        \A i \in DOMAIN image :
            IsReference(image[i]) => ReferenceAgrees(image[i])

(* A final pass in which a label moved ends with an error.                 *)
MovesAreReported ==
    ptype = "final" /\ line = 0 /\ errors = {} => global_offset_changed = 0

SuccessIsQuiet == outcome = "ok" => ptype = "final" /\ global_offset_changed = 0

ReferenceInv ==
    /\ TypeOK
    /\ InSection
    /\ NothingBeforeFinal
    /\ ReferencesHaveExpr
    /\ FinalReferencesAgree
    /\ MovesAreReported
    /\ SuccessIsQuiet

LEMMA DefinedAgain ==
    ASSUME NEW entry \in Entry
    PROVE  LET new == [entry EXCEPT !.defined = 1]
           IN  /\ new \in Entry /\ Found(new)
               /\ new.segment = entry.segment /\ new.offset = entry.offset
  BY DEF Entry, Found

LEMMA AsItStandsTypes ==
    ASSUME TypeOK
    PROVE  /\ AsItStands \in [Labels -> Entry]
           /\ \A l \in Labels : /\ AsItStands[l].segment = labels[l].segment
                               /\ AsItStands[l].offset = labels[l].offset
                               /\ Found(AsItStands[l])
  <1>1. labels \in [Labels -> Entry]
    BY DEF TypeOK
  <1> QED
    BY <1>1, DefinedAgain DEF AsItStands

LEMMA AsItStandsTypesPrime ==
    ASSUME TypeOK'
    PROVE  /\ AsItStands' \in [Labels -> Entry]
           /\ \A l \in Labels : /\ AsItStands'[l].segment = labels'[l].segment
                               /\ AsItStands'[l].offset = labels'[l].offset
                               /\ Found(AsItStands'[l])
  <1>1. labels' \in [Labels -> Entry]
    BY DEF TypeOK
  <1> QED
    BY <1>1, DefinedAgain DEF AsItStands

(* A piece that agreed goes on agreeing when no label moves.               *)
LEMMA AgreementKept ==
    ASSUME TypeOK, TypeOK', program' = program,
           \A l \in Labels : /\ labels'[l].segment = labels[l].segment
                            /\ labels'[l].offset = labels[l].offset,
           NEW c, program[c.line].arg \in Expr, ReferenceAgrees(c)
    PROVE  ReferenceAgrees(c)'
  <1> DEFINE e == program[c.line].arg
  <1>1. \A l \in {e.plus, e.minus} \cap Labels :
            /\ AsItStands[l].segment = AsItStands'[l].segment
            /\ AsItStands[l].offset = AsItStands'[l].offset
            /\ Found(AsItStands[l]) <=> Found(AsItStands'[l])
    BY AsItStandsTypes, AsItStandsTypesPrime
  <1>2. AsItStands \in [Labels -> Entry] /\ AsItStands' \in [Labels -> Entry]
    BY AsItStandsTypes, AsItStandsTypesPrime
  <1>3. /\ Value(AsItStands, e, c.at) = Value(AsItStands', e, c.at)
        /\ ValueSegment(AsItStands, e, c.segment)
              = ValueSegment(AsItStands', e, c.segment)
    BY <1>1, <1>2, ValueDependsOnPlaces
  <1> QED
    BY <1>3 DEF ReferenceAgrees

(* A piece that is faithful to the current table agrees with the next one  *)
(* if no label moves.                                                      *)
LEMMA FaithfulAgrees ==
    ASSUME TypeOK, TypeOK', program' = program,
           \A l \in Labels : /\ labels'[l].segment = labels[l].segment
                            /\ labels'[l].offset = labels[l].offset,
           NEW c, IsReference(c), Faithful(c)
    PROVE  ReferenceAgrees(c)'
  <1> DEFINE e == program[c.line].arg
  <1>1. /\ e \in Expr /\ AllKnown(labels, e)
        /\ c.value = Value(labels, e, c.at)
        /\ c.vsegment = ValueSegment(labels, e, c.segment)
    BY DEF Faithful
  <1>2. \A l \in {e.plus, e.minus} \cap Labels : Found(labels[l])
    BY <1>1, ProgramsAssumption DEF AllKnown, Known
  <1>3. labels \in [Labels -> Entry]
    BY DEF TypeOK
  <1>4. /\ Value(labels, e, c.at) = Value(AsItStands', e, c.at)
        /\ ValueSegment(labels, e, c.segment)
              = ValueSegment(AsItStands', e, c.segment)
    BY <1>1, <1>2, <1>3, AsItStandsTypesPrime, ValueDependsOnPlaces
  <1> QED
    BY <1>1, <1>4 DEF ReferenceAgrees

LEMMA ReferenceInvLines ==
    ASSUME ReferenceInv, ReadLine, Quiet, Generates, TypeOK', InSection'
    PROVE  ReferenceInv'
  <1>1. /\ program' = program /\ ptype' = ptype /\ outcome' = outcome
        /\ line' # 0 /\ outcome = "running"
    BY ReadLineTypes DEF ReferenceInv, ReadLine, passVars
  <1>2. NothingBeforeFinal'
    BY <1>1 DEF ReferenceInv, NothingBeforeFinal, Generates
  <1>3. MovesAreReported' /\ SuccessIsQuiet'
    BY <1>1 DEF ReferenceInv, MovesAreReported, SuccessIsQuiet
  <1>4. CASE image' = image
    <2>1. ReferencesHaveExpr'
      BY <1>1, <1>4 DEF ReferenceInv, ReferencesHaveExpr
    <2>2. FinalReferencesAgree'
      <3> SUFFICES ASSUME ptype' = "final", global_offset_changed' = 0,
                          NEW i \in DOMAIN image, IsReference(image[i])
                   PROVE  ReferenceAgrees(image[i])'
        BY <1>4 DEF FinalReferencesAgree, IsReference
      <3>1. ReferenceAgrees(image[i]) /\ program[image[i].line].arg \in Expr
        BY <1>1 DEF ReferenceInv, FinalReferencesAgree, ReferencesHaveExpr, Quiet
      <3>2. ReferenceAgrees(image[i])'
        BY <1>1, <1>4, <3>1, AgreementKept DEF ReferenceInv, Quiet
      <3> QED
        BY <3>2
    <2> QED
      BY <1>2, <1>3, <2>1, <2>2 DEF ReferenceInv
  <1>5. CASE /\ ptype = "final"
             /\ \E c \in Code : image' = Append(image, c) /\ Faithful(c)
    <2>1. PICK c \in Code : image' = Append(image, c) /\ Faithful(c)
      BY <1>5
    <2>2. /\ DOMAIN image' = 1 .. Len(image) + 1
          /\ \A i \in 1 .. Len(image) : i \in DOMAIN image /\ image'[i] = image[i]
          /\ image'[Len(image) + 1] = c
          /\ Len(image) \in Nat
      <3>1. image \in Seq(Code)
        BY DEF ReferenceInv, TypeOK
      <3> QED
        BY <2>1, <3>1, AppendProperties, LenProperties
    <2>3. ASSUME NEW i \in DOMAIN image'
          PROVE  \/ i \in DOMAIN image /\ image'[i] = image[i]
                 \/ image'[i] = c
      BY <2>2
    <2>4. ReferencesHaveExpr'
      BY <1>1, <2>1, <2>3 DEF ReferenceInv, ReferencesHaveExpr, Faithful
    <2>5. FinalReferencesAgree'
      <3> SUFFICES ASSUME ptype' = "final", global_offset_changed' = 0,
                          NEW i \in DOMAIN image', IsReference(image'[i])
                   PROVE  ReferenceAgrees(image[i])'
        BY DEF FinalReferencesAgree, IsReference
      <3>1. CASE image'[i] = c
        <4>1. ReferenceAgrees(c)'
          BY <1>1, <2>1, <3>1, FaithfulAgrees DEF ReferenceInv, Quiet
        <4> QED
          BY <3>1, <4>1 DEF ReferenceAgrees
      <3>2. CASE i \in DOMAIN image /\ image'[i] = image[i]
        <4>1. ReferenceAgrees(image[i]) /\ program[image[i].line].arg \in Expr
          BY <1>1, <3>2 DEF ReferenceInv, FinalReferencesAgree, ReferencesHaveExpr, Quiet
        <4> DEFINE d == image[i]
        <4>2. \A x : program[x.line].arg \in Expr /\ ReferenceAgrees(x)
                       => ReferenceAgrees(x)'
          BY <1>1, AgreementKept DEF ReferenceInv, Quiet
        <4> QED
          BY <3>2, <4>1, <4>2 DEF ReferenceAgrees
      <3> QED
        BY <2>3, <3>1, <3>2
    <2> QED
      BY <1>2, <1>3, <2>4, <2>5 DEF ReferenceInv
  <1> QED
    BY <1>4, <1>5 DEF Generates

LEMMA ReferenceInvInit == Init => ReferenceInv
  <1> SUFFICES ASSUME Init PROVE ReferenceInv
    OBVIOUS
  <1>1. TypeOK /\ InSection
    BY TypesInit
  <1>2. ptype = "init" /\ image = <<>> /\ outcome = "running"
    BY DEF Init
  <1>3. DOMAIN image = {}
    BY <1>2
  <1> QED
    BY <1>1, <1>2, <1>3 DEF ReferenceInv, NothingBeforeFinal, ReferencesHaveExpr,
       FinalReferencesAgree, MovesAreReported, SuccessIsQuiet

LEMMA ReferenceInvLoop ==
    ASSUME ReferenceInv, BeginPass \/ EndPass \/ Finish
    PROVE  ReferenceInv'
  <1>1. TypeOK' /\ InSection'
    BY TypesLoop DEF ReferenceInv
  <1>2. program' = program /\ labels' = labels /\ image' = image
    BY DEF BeginPass, EndPass, Finish
  <1>3. ReferencesHaveExpr'
    BY <1>2 DEF ReferenceInv, ReferencesHaveExpr
  <1>4. \A c : ReferenceAgrees(c) => ReferenceAgrees(c)'
    BY <1>2 DEF ReferenceAgrees, AsItStands
  <1>5. CASE BeginPass
    <2>1. image = <<>> /\ DOMAIN image = {}
      BY <1>5 DEF ReferenceInv, NothingBeforeFinal, BeginPass, pass_final
    <2>2. line' # 0 /\ outcome' = "running"
      BY <1>5 DEF BeginPass
    <2> QED
      BY <1>1, <1>2, <1>3, <2>1, <2>2 DEF ReferenceInv, NothingBeforeFinal,
         FinalReferencesAgree, MovesAreReported, SuccessIsQuiet
  <1>6. CASE EndPass
    <2>1. /\ ptype' = ptype /\ global_offset_changed' = global_offset_changed
          /\ errors' = errors \cup PassErrors /\ outcome = "running"
          /\ outcome' = outcome
      BY <1>6 DEF EndPass
    <2>2. FinalReferencesAgree'
      BY <1>2, <1>4, <2>1 DEF ReferenceInv, FinalReferencesAgree, IsReference
    <2>3. ptype = "final" /\ errors' = {} => global_offset_changed = 0
      BY <2>1 DEF PassErrors
    <2> QED
      BY <1>1, <1>2, <1>3, <2>1, <2>2, <2>3 DEF ReferenceInv, NothingBeforeFinal,
         MovesAreReported, SuccessIsQuiet
  <1>7. CASE Finish
    <2>1. /\ ptype' = ptype /\ global_offset_changed' = global_offset_changed
          /\ line' = line /\ line = 0
          /\ errors' = {} => errors = {}
          /\ outcome' = "ok" => errors = {} /\ ptype = "final"
      BY <1>7 DEF Finish, terminate_after_phase, pass_final
    <2>2. FinalReferencesAgree'
      BY <1>2, <1>4, <2>1 DEF ReferenceInv, FinalReferencesAgree, IsReference
    <2>3. MovesAreReported' /\ SuccessIsQuiet'
      BY <2>1 DEF ReferenceInv, MovesAreReported, SuccessIsQuiet
    <2> QED
      BY <1>1, <1>2, <1>3, <2>1, <2>2, <2>3 DEF ReferenceInv, NothingBeforeFinal
  <1> QED
    BY <1>5, <1>6, <1>7

LEMMA ReferenceInvStep ==
    ASSUME ReferenceInv, [Next]_vars
    PROVE  ReferenceInv'
  <1>1. TypeOK' /\ InSection'
    BY TypesStep DEF ReferenceInv
  <1>2. CASE LabelLine \/ EquLine \/ DeclareLine
    <2>1. ReadLine
      BY <1>2 DEF LabelLine, EquLine, DeclareLine, Line
    <2> QED
      BY <1>1, <1>2, <2>1, EffectsLabelEquDeclare, ReferenceInvLines DEF ReferenceInv
  <1>3. CASE DataLine \/ TimesLine \/ SkippedLine \/ SectionLine
    <2>1. ReadLine
      BY <1>3 DEF DataLine, TimesLine, SkippedLine, SectionLine, Line
    <2> QED
      BY <1>1, <1>3, <2>1, EffectsOtherLines, ReferenceInvLines DEF ReferenceInv
  <1>4. CASE JumpLine \/ ReferLine
    <2>1. ReadLine
      BY <1>4 DEF JumpLine, ReferLine, Line
    <2> QED
      BY <1>1, <1>4, <2>1, EffectsJumpRefer, ReferenceInvLines DEF ReferenceInv
  <1>5. CASE UNCHANGED vars
    <2>1. \A c : ReferenceAgrees(c) => ReferenceAgrees(c)'
      BY <1>5 DEF vars, ReferenceAgrees, AsItStands
    <2> QED
      BY <1>1, <1>5, <2>1 DEF vars, ReferenceInv, NothingBeforeFinal,
         ReferencesHaveExpr, FinalReferencesAgree, MovesAreReported,
         SuccessIsQuiet, IsReference
  <1> QED
    BY <1>2, <1>3, <1>4, <1>5, ReferenceInvLoop DEF Next

(* In every assembly that succeeds, each jump and each DD was generated    *)
(* with the value its expression has in the final label table.  It rests on*)
(* the phase check of assemble_file: what the final pass reads may change  *)
(* later in that pass, but then global_offset_changed says so.             *)
THEOREM ReferencesAreCorrect == Spec => []ReferencesAgree
  <1>1. Init => ReferenceInv
    BY ReferenceInvInit
  <1>2. ReferenceInv /\ [Next]_vars => ReferenceInv'
    BY ReferenceInvStep
  <1>3. ReferenceInv => ReferencesAgree
    BY DEF ReferenceInv, SuccessIsQuiet, FinalReferencesAgree, ReferencesAgree,
       Succeeded
  <1> QED
    BY <1>1, <1>2, <1>3, PTL DEF Spec

-----------------------------------------------------------------------------
(* Short jumps.                                                            *)

(* The two windows of jmp_match, within which it does not work out the     *)
(* length of the jump, give the answer the displacement gives.             *)
LEMMA FitsShortIsExact ==
    ASSUME NEW delta \in Int
    PROVE  FitsShort(delta) <=> delta - ShortLen \in MinDisp .. MaxDisp
  BY SizesAssumption DEF FitsShort

ShortJumpsFit ==
    \A i \in DOMAIN image :
        image[i].kind = "short" =>
            /\ image[i].value - (image[i].at + image[i].len) \in MinDisp .. MaxDisp
            /\ image[i].vsegment = image[i].segment

LEMMA ShortJumpsFitJump ==
    ASSUME TypeOK, InSection, ShortJumpsFit, JumpLine
    PROVE  ShortJumpsFit'
  <1> DEFINE e == program[line].arg
             short == JumpIsShort(labels, e, segment, Here)
             value == Value(labels, e, Here)
             vseg == ValueSegment(labels, e, segment)
             code == [line |-> line, segment |-> segment, at |-> Here,
                      len |-> JumpLen(short),
                      kind |-> IF short THEN "short" ELSE "near",
                      value |-> value, vsegment |-> vseg]
  <1>1. ReadLine /\ e \in Expr /\ segment \in Int /\ Here \in Int
    BY ReadLineTypes, StatementTypes DEF JumpLine, Line
  <1>2. value \in Int
    BY <1>1, ValueTypes DEF TypeOK
  <1>3. CASE image' = image
    BY <1>3 DEF ShortJumpsFit
  <1>4. CASE AllKnown(labels, e) /\ image' = Append(image, code)
    <2>1. short => /\ value - (Here + ShortLen) \in MinDisp .. MaxDisp
                   /\ vseg = segment
      <3>1. ~Unknown(labels, e)
        BY <1>4 DEF AllKnown, Unknown, Known
      <3>2. short => vseg = segment /\ FitsShort(value - Here)
        BY <3>1 DEF JumpIsShort
      <3> HIDE DEF value, vseg, short
      <3>3. short => value - Here - ShortLen \in MinDisp .. MaxDisp
        BY <1>1, <1>2, <3>2, FitsShortIsExact
      <3> QED
        BY <1>1, <1>2, <3>2, <3>3, SizesAssumption
    <2>2. code.kind = "short" =>
             /\ code.value - (code.at + code.len) \in MinDisp .. MaxDisp
             /\ code.vsegment = code.segment
      BY <2>1 DEF JumpLen
    <2>3. \A i \in DOMAIN image' : \/ i \in DOMAIN image /\ image'[i] = image[i]
                                   \/ image'[i] = code
      <3>1. image \in Seq(Code)
        BY DEF TypeOK
      <3>2. Len(image) \in Nat /\ DOMAIN image = 1 .. Len(image)
        BY <3>1, LenProperties
      <3> HIDE DEF code
      <3> QED
        BY <1>4, <3>1, <3>2, AppendProperties
    <2> HIDE DEF code
    <2> QED
      BY <2>2, <2>3 DEF ShortJumpsFit
  <1>5. \/ image' = image
        \/ AllKnown(labels, e) /\ image' = Append(image, code)
    BY DEF JumpLine, Emit, ParseFails, pass_final
  <1> QED
    BY <1>3, <1>4, <1>5

(* Code of another kind does not matter.                                   *)
LEMMA ShortJumpsFitEmit ==
    ASSUME TypeOK, ShortJumpsFit, NEW kind, kind # "short", NEW len, NEW value,
           NEW vsegment, Emit(kind, len, value, vsegment)
    PROVE  ShortJumpsFit'
  <1> DEFINE code == [line |-> line, segment |-> segment, at |-> Here,
                      len |-> len, kind |-> kind, value |-> value,
                      vsegment |-> vsegment]
  <1>1. code.kind # "short"
    OBVIOUS
  <1>2. CASE image' = image
    BY <1>2 DEF ShortJumpsFit
  <1>3. CASE image' = Append(image, code)
    <2>1. image \in Seq(Code)
      BY DEF TypeOK
    <2>2. Len(image) \in Nat /\ DOMAIN image = 1 .. Len(image)
      BY <2>1, LenProperties
    <2> HIDE DEF code
    <2>3. \A i \in DOMAIN image' : \/ i \in DOMAIN image /\ image'[i] = image[i]
                                   \/ image'[i] = code
      BY <1>3, <2>1, <2>2, AppendProperties
    <2> QED
      BY <1>1, <2>3 DEF ShortJumpsFit
  <1> QED
    BY <1>2, <1>3 DEF Emit

LEMMA ShortJumpsFitStep ==
    ASSUME TypeOK, InSection, ShortJumpsFit, [Next]_vars
    PROVE  ShortJumpsFit'
  <1>1. CASE JumpLine
    BY <1>1, ShortJumpsFitJump
  <1>2. CASE DataLine \/ ReferLine
    <2>1. \/ image' = image
          \/ \E kind \in {"data", "refer"} : \E len, value, vsegment :
                 Emit(kind, len, value, vsegment)
      BY <1>2 DEF DataLine, ReferLine, ParseFails
    <2> QED
      BY <2>1, ShortJumpsFitEmit DEF ShortJumpsFit
  <1>3. CASE TimesLine
    <2>1. image' = image \/ \E len : Emit("data", len, 0, NO_SEG)
      BY <1>3 DEF TimesLine, ParseFails
    <2> QED
      BY <2>1, ShortJumpsFitEmit DEF ShortJumpsFit
  <1>4. CASE image' = image
    BY <1>4 DEF ShortJumpsFit
  <1>5. CASE \/ BeginPass \/ EndPass \/ Finish \/ SkippedLine \/ LabelLine
             \/ EquLine \/ DeclareLine \/ SectionLine \/ UNCHANGED vars
    <2>1. image' = image
      BY <1>5 DEF BeginPass, EndPass, Finish, SkippedLine, LabelLine, EquLine,
         ParseFails, DeclareLine, SectionLine, vars
    <2> QED
      BY <1>4, <2>1
  <1> QED
    BY <1>1, <1>2, <1>3, <1>5 DEF Next

(* In every assembly that succeeds, the displacement of each jump generated*)
(* with 8 bits fits into them, measured to where the final label table has *)
(* its target: jmp_match, asked in a pass in which labels may still move,  *)
(* was right.                                                              *)
THEOREM ShortJumpsAreCorrect == Spec => []ShortJumpsReach
  <1>1. Init => ReferenceInv /\ ShortJumpsFit
    BY ReferenceInvInit DEF Init, ShortJumpsFit
  <1>2. ReferenceInv /\ ShortJumpsFit /\ [Next]_vars
           => ReferenceInv' /\ ShortJumpsFit'
    BY ReferenceInvStep, ShortJumpsFitStep DEF ReferenceInv
  <1>3. ReferenceInv /\ ShortJumpsFit => ShortJumpsReach
    <2> SUFFICES ASSUME ReferenceInv, ShortJumpsFit, Succeeded,
                        NEW i \in DOMAIN image, image[i].kind = "short"
                 PROVE  ShortJumpReaches(image[i])
      BY DEF ShortJumpsReach
    <2>1. ReferenceAgrees(image[i])
      BY DEF ReferenceInv, SuccessIsQuiet, FinalReferencesAgree, Succeeded,
         IsReference
    <2> QED
      BY <2>1 DEF ReferenceAgrees, ShortJumpReaches, ShortJumpsFit
  <1> QED
    BY <1>1, <1>2, <1>3, PTL DEF Spec

-----------------------------------------------------------------------------
(* What one line does to one entry of the label table.                     *)

(* A lookup only remembers its pass.                                       *)
LookedUpOnly(old, new) == new = old \/ new = Referenced(old, pass)

(* An entry takes a type once; EXTERN and REQUIRED may give way to others. *)
Evolves(old, new) ==
    /\ \/ new.type = old.type
       \/ old.type = "local" /\ (is_extern(new.type) => ~Found(old))
       \/ is_extern(old.type) /\ new.type \in {"required", "global", "common"}
    /\ Found(old) /\ ~is_extern(old.type) => Found(new)

LEMMA EvolvesTransitive ==
    ASSUME NEW a \in Entry, NEW b \in Entry, NEW c \in Entry,
           Evolves(a, b), Evolves(b, c)
    PROVE  Evolves(a, c)
  BY DEF Evolves, is_extern

LEMMA LookupFacts ==
    ASSUME NEW old \in Entry, NEW new, LookedUpOnly(old, new), pass \in Nat
    PROVE  /\ new \in Entry
           /\ new.type = old.type /\ new.segment = old.segment
           /\ new.offset = old.offset /\ new.size = old.size
           /\ new.defined = old.defined
           /\ old.lastref <= pass + 1 => new.lastref >= old.lastref
           /\ Evolves(old, new)
  BY DEF LookedUpOnly, Referenced, Entry, Found, Evolves

LEMMA DeclaredFacts ==
    ASSUME NEW entry \in Entry, NEW type \in DeclaredTypes, NEW pt
    PROVE  LET new == DeclaredEntry(entry, type, pt)
           IN  /\ new \in Entry
               /\ new.segment = entry.segment /\ new.offset = entry.offset
               /\ new.size = entry.size /\ new.lastref = entry.lastref
               /\ new.defined = IF Overrides(TypeBeforeDeclare(entry, type, pt), type)
                                   /\ ~Agrees(TypeBeforeDeclare(entry, type, pt), type)
                                THEN 0 ELSE entry.defined
               /\ new.type = IF DeclareAccepted(entry, type, pt) THEN type
                             ELSE TypeBeforeDeclare(entry, type, pt)
               /\ Evolves(entry, new)
  <1> DEFINE old == TypeBeforeDeclare(entry, type, pt)
  <1>1. old \in LabelTypes /\ type \in LabelTypes
    BY DEF TypeBeforeDeclare, Entry, LabelTypes, DeclaredTypes
  <1>2. \A t \in LabelTypes :
           LET new == [entry EXCEPT !.type = t]
           IN  /\ new \in Entry /\ new.type = t /\ new.defined = entry.defined
               /\ new.segment = entry.segment /\ new.offset = entry.offset
               /\ new.size = entry.size /\ new.lastref = entry.lastref
    BY DEF Entry
  <1>3. \A t \in LabelTypes :
           LET new == [entry EXCEPT !.type = t, !.defined = 0]
           IN  /\ new \in Entry /\ new.type = t /\ new.defined = 0
               /\ new.segment = entry.segment /\ new.offset = entry.offset
               /\ new.size = entry.size /\ new.lastref = entry.lastref
    BY DEF Entry
  <1>4. CASE Agrees(old, type)
    <2>1. Evolves(entry, [entry EXCEPT !.type = type])
      BY <1>1, <1>2, <1>4 DEF Evolves, Agrees, TypeBeforeDeclare, is_extern, Found,
         DeclaredTypes
    <2> QED
      BY <1>1, <1>2, <1>4, <2>1 DEF DeclaredEntry, DeclareAccepted
  <1>5. CASE ~Agrees(old, type) /\ Overrides(old, type)
    <2>1. Evolves(entry, [entry EXCEPT !.type = type, !.defined = 0])
      BY <1>1, <1>3, <1>5 DEF Evolves, Overrides, TypeBeforeDeclare, is_extern,
         is_global, Found
    <2> QED
      BY <1>1, <1>3, <1>5, <2>1 DEF DeclaredEntry, DeclareAccepted
  <1>6. CASE ~Agrees(old, type) /\ ~Overrides(old, type)
    <2>1. Evolves(entry, [entry EXCEPT !.type = old])
      BY <1>1, <1>2, <1>6 DEF Evolves, TypeBeforeDeclare, is_extern, Found, Agrees
    <2> QED
      BY <1>1, <1>2, <1>6, <2>1 DEF DeclaredEntry, DeclareAccepted
  <1> QED
    BY <1>4, <1>5, <1>6

(* What define_label leaves in an entry.                                   *)
LEMMA DefinedFacts ==
    ASSUME NEW label, NEW entry \in Entry, NEW seg \in Int, NEW sent \in Int,
           NEW fresh \in Nat, NEW p \in Nat, NEW pt
    PROVE  LET new == DefinedEntry(label, entry, seg, sent, fresh, p)
               after == EntryAfterSymdef(entry, seg, new, p, pt)
           IN  /\ new \in Entry /\ after \in Entry
               /\ new.type = DefinedType(label, entry, seg)
               /\ new.lastref = entry.lastref
               /\ new.segment = DefinedSegment(entry, seg, fresh)
               /\ new.offset = IF new.type = "common" THEN 0 ELSE sent
               /\ new.size = IF new.type = "common" THEN sent ELSE 0
               /\ after.type = IF HandedOver(entry, seg, new, p, pt) /\ new.type = "extern"
                               THEN "required" ELSE new.type
               /\ after.segment = new.segment /\ after.offset = new.offset
               /\ after.size = new.size /\ after.defined = p + 1
               /\ after.lastref = entry.lastref
               /\ Evolves(entry, after)
  <1> DEFINE new == DefinedEntry(label, entry, seg, sent, fresh, p)
             after == EntryAfterSymdef(entry, seg, new, p, pt)
  <1>1. new \in Entry /\ after \in Entry
    BY DefinedEntryTypes
  <1>2. /\ new.type = DefinedType(label, entry, seg)
        /\ new.lastref = entry.lastref /\ new.defined = p + 1
        /\ new.segment = DefinedSegment(entry, seg, fresh)
        /\ new.offset = IF new.type = "common" THEN 0 ELSE sent
        /\ new.size = IF new.type = "common" THEN sent ELSE 0
    BY DEF DefinedEntry
  <1>3. /\ after.type = IF HandedOver(entry, seg, new, p, pt) /\ new.type = "extern"
                        THEN "required" ELSE new.type
        /\ after.segment = new.segment /\ after.offset = new.offset
        /\ after.size = new.size /\ after.defined = new.defined
        /\ after.lastref = new.lastref
    <2> HIDE DEF new
    <2> QED
      BY <1>1 DEF EntryAfterSymdef, Entry
  <1>4. Evolves(entry, after)
    <2> HIDE DEF new, after
    <2> QED
      BY <1>1, <1>2, <1>3 DEF Evolves, DefinedType, Promoted, is_extern, Found
  <1> QED
    BY <1>1, <1>2, <1>3, <1>4

-----------------------------------------------------------------------------
(* What a line does to the label table: it only looks labels up, or it     *)
(* declares one, or it defines one.                                        *)

LineStep ==
    \/ SkippedLine \/ LabelLine \/ EquLine \/ DataLine \/ TimesLine
    \/ JumpLine \/ ReferLine \/ DeclareLine \/ SectionLine

Looks(s) ==
    /\ s.op \in {"label", "equ", "declare"} /\ Executes(s) =>
          s.op = "equ" /\ (pass_final(ptype) \/ errors' # {})
    /\ \A l \in Labels : LookedUpOnly(labels[l], labels'[l])
    /\ UNCHANGED <<next_seg, global_offset_changed, symdefs>>

Declared(s) == DeclaredEntry(labels[s.name], s.type, ptype)

Declares(s) ==
    /\ s.op = "declare" /\ Executes(s)
    /\ labels' = [labels EXCEPT ![s.name] = Declared(s)]
    /\ ~(/\ DeclareAccepted(labels[s.name], s.type, ptype)
         /\ s.type \in {"common", "extern", "required"})
    /\ errors' = {} => ~DeclareError(labels[s.name], s.type, ptype)
    /\ UNCHANGED <<next_seg, global_offset_changed, symdefs>>

(* The table that define_label finds, and what it is given.                *)
Prepared(s, table) ==
    /\ table \in [Labels -> Entry]
    /\ \A l \in Labels \ {s.name} : LookedUpOnly(labels[l], table[l])
    /\ s.op \in {"label", "equ"} => LookedUpOnly(labels[s.name], table[s.name])
    /\ s.op = "declare" =>
          /\ DeclareAccepted(labels[s.name], s.type, ptype)
          /\ s.type \in {"common", "extern", "required"}
          /\ table[s.name] = Declared(s)

GivenBy(s, seg, sent) ==
    /\ s.op = "label" => seg = segment /\ sent = Here
    /\ s.op = "equ" => /\ seg = ValueSegment(labels, s.arg, segment)
                       /\ sent = Value(labels, s.arg, Here)
                       /\ ~pass_final(ptype)
    /\ s.op = "declare" => seg = PSEUDO_SEG /\ sent = DeclaredValue(s)

DefinesFrom(s, table, seg, sent) ==
    /\ s.op \in {"label", "equ", "declare"} /\ s.name \in Labels /\ Executes(s)
    /\ Prepared(s, table)
    /\ seg \in Int /\ sent \in Int /\ GivenBy(s, seg, sent)
    /\ Define(table, s.name, seg, sent)

LEMMA EvaluatedLooks ==
    ASSUME NEW e, NEW critical
    PROVE  \A l \in Labels : LookedUpOnly(labels[l], Evaluated(labels, e, critical)[l])
  BY DEF Evaluated, LookedUpOnly

LEMMA LineIsRead ==
    ASSUME TypeOK, InSection, LineStep
    PROVE  /\ ReadLine /\ line \in 1 .. Len(program) /\ line' = line + 1
           /\ program[line] \in Statements
           /\ segment \in Sections /\ segment \in Int /\ Here \in Int
           /\ UNCHANGED passVars /\ outcome = "running"
           /\ TypeOK' /\ InSection'
  <1>1. ReadLine
    BY DEF LineStep, SkippedLine, LabelLine, EquLine, DataLine, TimesLine,
       JumpLine, ReferLine, DeclareLine, SectionLine, Line
  <1>2. TypeOK' /\ InSection'
    BY TypesStep DEF LineStep, Next
  <1> QED
    BY <1>1, <1>2, ReadLineTypes DEF ReadLine

LEMMA LineEffects ==
    ASSUME TypeOK, InSection, LineStep
    PROVE  \/ Looks(program[line])
           \/ Declares(program[line])
           \/ \E table, seg, sent : DefinesFrom(program[line], table, seg, sent)
  <1> DEFINE s == program[line]
  <1>1. /\ ReadLine /\ s \in Statements /\ segment \in Int /\ Here \in Int
        /\ labels \in [Labels -> Entry] /\ pass \in Nat
    BY LineIsRead DEF TypeOK
  <1>2. CASE SkippedLine \/ DataLine \/ SectionLine
    BY <1>2 DEF SkippedLine, DataLine, SectionLine, Line, labelVars, Looks,
       LookedUpOnly
  <1>3. CASE TimesLine \/ JumpLine \/ ReferLine
    <2>1. /\ \E critical : labels' = Evaluated(labels, s.arg, critical)
          /\ UNCHANGED <<next_seg, global_offset_changed, symdefs>>
          /\ s.op \notin {"label", "equ", "declare"}
      BY <1>3 DEF TimesLine, JumpLine, ReferLine, ParseFails, Line
    <2> QED
      BY <2>1, EvaluatedLooks DEF Looks
  <1>4. CASE LabelLine
    <2>1. s.op = "label" /\ Executes(s) /\ Define(labels, s.name, segment, Here)
      BY <1>4 DEF LabelLine, Line
    <2>2. s.name \in Labels
      BY <1>1, <2>1, StatementTypes
    <2>3. DefinesFrom(s, labels, segment, Here)
      BY <1>1, <2>1, <2>2 DEF DefinesFrom, Prepared, GivenBy, LookedUpOnly
    <2> QED
      BY <2>3
  <1>5. CASE EquLine
    <2> DEFINE table == Evaluated(labels, s.arg, pass_final(ptype))
               seg == ValueSegment(labels, s.arg, segment)
               sent == Value(labels, s.arg, Here)
    <2>1. s.op = "equ" /\ Executes(s)
      BY <1>5 DEF EquLine, Line
    <2>2. s.name \in Labels /\ s.arg \in Expr
      BY <1>1, <2>1, StatementTypes
    <2>3. table \in [Labels -> Entry] /\ \A l \in Labels : LookedUpOnly(labels[l], table[l])
      BY <1>1, EvaluatedTable, EvaluatedLooks
    <2>4. seg \in Int /\ sent \in Int
      BY <1>1, <2>2, ValueTypes
    <2>5. \/ /\ labels' = table /\ UNCHANGED <<next_seg, global_offset_changed, symdefs>>
             /\ pass_final(ptype) \/ errors' # {}
          \/ ~pass_final(ptype) /\ Define(table, s.name, seg, sent)
      BY <1>5 DEF EquLine, ParseFails
    <2> HIDE DEF table
    <2>6. CASE /\ labels' = table /\ UNCHANGED <<next_seg, global_offset_changed, symdefs>>
               /\ pass_final(ptype) \/ errors' # {}
      BY <2>1, <2>3, <2>6 DEF Looks
    <2>7. CASE ~pass_final(ptype) /\ Define(table, s.name, seg, sent)
      <3>1. DefinesFrom(s, table, seg, sent)
        BY <2>1, <2>2, <2>3, <2>4, <2>7 DEF DefinesFrom, Prepared, GivenBy
      <3> QED
        BY <3>1
    <2> QED
      BY <2>5, <2>6, <2>7
  <1>6. CASE DeclareLine
    <2> DEFINE entry == labels[s.name]
               table == [labels EXCEPT ![s.name] = Declared(s)]
               sent == IF s.type = "common" THEN s.size ELSE 0
    <2>1. s.op = "declare" /\ Executes(s)
      BY <1>6 DEF DeclareLine, Line
    <2>2. s.name \in Labels /\ s.type \in DeclaredTypes /\ s.size \in Nat
      BY <1>1, <2>1, StatementTypes
    <2>3. CASE /\ DeclareAccepted(entry, s.type, ptype)
               /\ s.type \in {"common", "extern", "required"}
      <3>1. Define(table, s.name, PSEUDO_SEG, sent)
        BY <1>6, <2>3 DEF DeclareLine, Declared
      <3>2. Declared(s) \in Entry
        BY <1>1, <2>2, DeclaredFacts DEF Declared
      <3>3. Prepared(s, table)
        BY <1>1, <2>1, <2>2, <2>3, <3>2 DEF Prepared, LookedUpOnly
      <3>4. GivenBy(s, PSEUDO_SEG, sent) /\ PSEUDO_SEG \in Int /\ sent \in Int
        BY <2>1, <2>2 DEF GivenBy, DeclaredValue, PSEUDO_SEG
      <3>5. DefinesFrom(s, table, PSEUDO_SEG, sent)
        BY <2>1, <2>2, <3>1, <3>3, <3>4 DEF DefinesFrom
      <3> QED
        BY <3>5
    <2>4. CASE ~(/\ DeclareAccepted(entry, s.type, ptype)
                 /\ s.type \in {"common", "extern", "required"})
      <3>1. /\ labels' = table
            /\ errors' = IF DeclareError(entry, s.type, ptype)
                         THEN errors \cup {"conflict"} ELSE errors
            /\ UNCHANGED <<next_seg, global_offset_changed, symdefs>>
        BY <1>6, <2>4 DEF DeclareLine, Declared
      <3>2. errors' = {} => ~DeclareError(entry, s.type, ptype)
        BY <3>1
      <3> QED
        BY <2>1, <2>4, <3>1, <3>2 DEF Declares
    <2> QED
      BY <2>3, <2>4
  <1> QED
    BY <1>2, <1>3, <1>4, <1>5, <1>6 DEF LineStep

(* What define_label does when it finds such a table.                      *)
LEMMA DefineEffects ==
    ASSUME TypeOK, NEW s, NEW table, NEW seg, NEW sent,
           DefinesFrom(s, table, seg, sent)
    PROVE  LET entry == table[s.name]
               new == DefinedEntry(s.name, entry, seg, sent, next_seg, pass)
               after == EntryAfterSymdef(entry, seg, new, pass, ptype)
           IN  /\ entry \in Entry /\ new \in Entry /\ after \in Entry
               /\ labels'[s.name] = after
               /\ \A l \in Labels \ {s.name} : LookedUpOnly(labels[l], labels'[l])
               /\ \A l \in Labels : labels'[l] \in Entry
  <1> DEFINE entry == table[s.name]
             new == DefinedEntry(s.name, entry, seg, sent, next_seg, pass)
             after == EntryAfterSymdef(entry, seg, new, pass, ptype)
  <1>1. /\ table \in [Labels -> Entry] /\ s.name \in Labels /\ pass \in Nat
        /\ next_seg \in Nat /\ seg \in Int /\ sent \in Int
        /\ \A l \in Labels \ {s.name} : LookedUpOnly(labels[l], table[l])
    BY DEF DefinesFrom, Prepared, TypeOK
  <1>2. entry \in Entry
    BY <1>1
  <1>3. new \in Entry /\ after \in Entry
    BY <1>1, <1>2, DefinedEntryTypes
  <1>4. labels' = [table EXCEPT ![s.name] = after]
    BY DEF DefinesFrom, Define
  <1> HIDE DEF new, after
  <1>5. /\ labels'[s.name] = after
        /\ \A l \in Labels \ {s.name} : labels'[l] = table[l]
        /\ \A l \in Labels : labels'[l] \in Entry
    BY <1>1, <1>3, <1>4
  <1> QED
    BY <1>1, <1>2, <1>3, <1>5 DEF new, after

(* Whatever the line, every entry evolves.                                 *)
LEMMA EntriesEvolve ==
    ASSUME TypeOK, InSection, LineStep, NEW l \in Labels
    PROVE  Evolves(labels[l], labels'[l])
  <1> DEFINE s == program[line]
  <1>1. labels[l] \in Entry /\ pass \in Nat /\ s \in Statements
    BY LineIsRead DEF TypeOK
  <1>2. ASSUME LookedUpOnly(labels[l], labels'[l]) PROVE Evolves(labels[l], labels'[l])
    BY <1>1, <1>2, LookupFacts
  <1>3. CASE Looks(s)
    BY <1>2, <1>3 DEF Looks
  <1>4. CASE Declares(s)
    <2>1. s.type \in DeclaredTypes /\ s.name \in Labels
      BY <1>1, <1>4, StatementTypes DEF Declares
    <2>2. labels' = [labels EXCEPT ![s.name] = Declared(s)]
      BY <1>4 DEF Declares
    <2>3. CASE l = s.name
      <3>1. labels'[l] = Declared(s)
        BY <2>1, <2>2, <2>3 DEF TypeOK
      <3> QED
        BY <1>1, <2>1, <2>3, <3>1, DeclaredFacts DEF Declared
    <2>4. CASE l # s.name
      BY <1>2, <2>2, <2>4 DEF TypeOK, LookedUpOnly
    <2> QED
      BY <2>3, <2>4
  <1>5. ASSUME NEW table, NEW seg, NEW sent, DefinesFrom(s, table, seg, sent)
        PROVE  Evolves(labels[l], labels'[l])
    <2> DEFINE entry == table[s.name]
               new == DefinedEntry(s.name, entry, seg, sent, next_seg, pass)
               after == EntryAfterSymdef(entry, seg, new, pass, ptype)
    <2>1. /\ entry \in Entry /\ after \in Entry /\ labels'[s.name] = after
          /\ \A k \in Labels \ {s.name} : LookedUpOnly(labels[k], labels'[k])
      BY <1>5, DefineEffects
    <2>2. CASE l # s.name
      BY <1>2, <2>1, <2>2
    <2>3. CASE l = s.name
      <3>1. Evolves(entry, after)
        BY <1>5, <2>1, DefinedFacts DEF DefinesFrom, TypeOK
      <3>2. Evolves(labels[l], entry)
        <4>1. CASE s.op \in {"label", "equ"}
          BY <1>1, <1>5, <2>3, <4>1, LookupFacts DEF DefinesFrom, Prepared
        <4>2. CASE s.op = "declare"
          <5>1. entry = Declared(s) /\ s.type \in DeclaredTypes
            BY <1>1, <1>5, <4>2, StatementTypes DEF DefinesFrom, Prepared
          <5> QED
            BY <1>1, <2>3, <5>1, DeclaredFacts DEF Declared
        <4> QED
          BY <1>5, <4>1, <4>2 DEF DefinesFrom
      <3> HIDE DEF entry, after
      <3> QED
        BY <1>1, <2>1, <2>3, <3>1, <3>2, EvolvesTransitive
    <2> QED
      BY <2>2, <2>3
  <1> QED
    BY <1>3, <1>4, <1>5, LineEffects

-----------------------------------------------------------------------------
(* The numbers of the passes.                                              *)

LoopStep == BeginPass \/ EndPass \/ Finish

LEMMA NextIsLineOrLoop == Next <=> LoopStep \/ LineStep
  BY DEF Next, LoopStep, LineStep

LEMMA LoopKeeps ==
    ASSUME LoopStep
    PROVE  UNCHANGED <<program, labels, next_seg, symdefs, image>>
  BY DEF LoopStep, BeginPass, EndPass, Finish

LEMMA ErrorsStay ==
    ASSUME TypeOK, InSection, Next, errors' = {}
    PROVE  errors = {}
  <1>1. CASE LoopStep
    BY <1>1 DEF LoopStep, BeginPass, EndPass, Finish, terminate_after_phase
  <1>2. CASE LineStep
    BY <1>2 DEF LineStep, SkippedLine, LabelLine, EquLine, DataLine, TimesLine,
       JumpLine, ReferLine, DeclareLine, SectionLine, Define, ParseFails
  <1> QED
    BY <1>1, <1>2, NextIsLineOrLoop

LEMMA ProgramStays ==
    ASSUME TypeOK, InSection, Next
    PROVE  program' = program
  BY NextIsLineOrLoop, LoopKeeps, LineIsRead DEF passVars

LEMMA PassNumbersStep ==
    ASSUME TypeOK, InSection, PassNumbers, Next
    PROVE  PassNumbers'
  <1>1. pass \in Nat /\ Len(program) \in Nat
    BY ProgramsAssumption, LenProperties DEF TypeOK
  <1>2. CASE BeginPass
    BY <1>1, <1>2 DEF BeginPass, NextPassType, PassNumbers, terminate_after_phase
  <1>3. CASE EndPass
    BY <1>1, <1>3 DEF EndPass, PassNumbers
  <1>4. CASE Finish
    BY <1>1, <1>4 DEF Finish, PassNumbers, terminate_after_phase
  <1>5. CASE LineStep
    BY <1>1, <1>5, LineIsRead DEF PassNumbers, passVars
  <1> QED
    BY <1>2, <1>3, <1>4, <1>5, NextIsLineOrLoop DEF LoopStep

(* While a line is read, it is a line of the current pass; the lines that  *)
(* were passed stay so, and the only new one is that line.                 *)
LEMMA PassedLines ==
    ASSUME TypeOK, InSection, PassNumbers, Next, NEW n \in DOMAIN program, Passed(n)'
    PROVE  Passed(n) \/ (LineStep /\ n = line /\ pass = 1 /\ ptype = "first")
  <1>1. /\ pass \in Nat /\ line \in Nat /\ Len(program) \in Nat
        /\ DOMAIN program = 1 .. Len(program)
    BY ProgramsAssumption, LenProperties DEF TypeOK
  <1>2. CASE BeginPass
    BY <1>1, <1>2 DEF BeginPass, Passed
  <1>3. CASE EndPass
    BY <1>1, <1>3 DEF EndPass, Passed
  <1>4. CASE Finish
    BY <1>1, <1>4 DEF Finish, Passed
  <1>5. CASE LineStep
    BY <1>1, <1>5, LineIsRead DEF Passed, passVars, PassNumbers
  <1> QED
    BY <1>2, <1>3, <1>4, <1>5, NextIsLineOrLoop DEF LoopStep

-----------------------------------------------------------------------------
(* Definitions have segments.                                              *)

LEMMA ValueSegmentIsNoPseudo ==
    ASSUME TypeOK, DefinedHaveSegments, NEW e \in Expr, NEW seg \in Sections
    PROVE  ValueSegment(labels, e, seg) # PSEUDO_SEG
  BY SegmentsAssumption DEF ValueSegment, TermSegment, Known, NO_SEG, PSEUDO_SEG,
     DefinedHaveSegments, Expr, Terms

(* What label and EQU lines define is no pseudo-segment.                   *)
LEMMA DefinedElsewhere ==
    ASSUME TypeOK, InSection, LineStep, DefinedHaveSegments,
           NEW table, NEW seg, NEW sent, DefinesFrom(program[line], table, seg, sent)
    PROVE  program[line].op # "declare" => seg # PSEUDO_SEG
  <1>1. program[line] \in Statements /\ segment \in Sections
    BY LineIsRead
  <1>2. program[line].op = "label" => seg # PSEUDO_SEG
    BY <1>1, SegmentsAssumption DEF DefinesFrom, GivenBy, PSEUDO_SEG
  <1>3. program[line].op = "equ" => seg # PSEUDO_SEG
    BY <1>1, StatementTypes, ValueSegmentIsNoPseudo DEF DefinesFrom, GivenBy
  <1> QED
    BY <1>2, <1>3 DEF DefinesFrom

LEMMA DefinedHaveSegmentsStep ==
    ASSUME TypeOK, InSection, DefinedHaveSegments, Next
    PROVE  DefinedHaveSegments'
  <1> DEFINE s == program[line]
  <1>0. next_seg \in Nat /\ labels \in [Labels -> Entry] /\ pass \in Nat
    BY DEF TypeOK
  <1>1. CASE LoopStep
    BY <1>1, LoopKeeps DEF DefinedHaveSegments
  <1>2. CASE LineStep /\ Looks(s)
    BY <1>0, <1>2, LookupFacts DEF Looks, DefinedHaveSegments, Found
  <1>3. CASE LineStep /\ Declares(s)
    <2>1. s \in Statements /\ s.type \in DeclaredTypes /\ s.name \in Labels
      BY <1>3, LineIsRead, StatementTypes DEF Declares
    <2>2. Declared(s).segment = labels[s.name].segment
          /\ (Found(Declared(s)) => Found(labels[s.name]))
      BY <1>0, <2>1, DeclaredFacts DEF Declared, Found
    <2> QED
      BY <1>0, <1>3, <2>1, <2>2 DEF Declares, DefinedHaveSegments
  <1>4. ASSUME LineStep, NEW table, NEW seg, NEW sent, DefinesFrom(s, table, seg, sent)
        PROVE  DefinedHaveSegments'
    <2> DEFINE entry == table[s.name]
               new == DefinedEntry(s.name, entry, seg, sent, next_seg, pass)
               after == EntryAfterSymdef(entry, seg, new, pass, ptype)
    <2>1. /\ entry \in Entry /\ labels'[s.name] = after
          /\ \A k \in Labels \ {s.name} : LookedUpOnly(labels[k], labels'[k])
      BY <1>4, DefineEffects
    <2>2. after.segment = DefinedSegment(entry, seg, next_seg)
      BY <1>0, <1>4, <2>1, DefinedFacts DEF DefinesFrom
    <2>3. after.segment # PSEUDO_SEG
      BY <1>0, <2>2 DEF DefinedSegment, PSEUDO_SEG, DefinedHaveSegments
    <2>4. next_seg' > 0
      BY <1>0, <1>4 DEF DefinesFrom, Define, DefinedHaveSegments
    <2> HIDE DEF after
    <2>5. \A k \in Labels \ {s.name} : Found(labels'[k]) => labels'[k].segment # PSEUDO_SEG
      BY <1>0, <2>1, LookupFacts DEF DefinedHaveSegments, Found
    <2> QED
      BY <2>1, <2>3, <2>4, <2>5 DEF DefinedHaveSegments
  <1> QED
    BY <1>1, <1>2, <1>3, <1>4, NextIsLineOrLoop, LineEffects

-----------------------------------------------------------------------------
(* Declarations and definitions are absorbed.                              *)

(* What was absorbed stays so.                                             *)
LEMMA AbsorbedStays ==
    ASSUME TypeOK, InSection, LineStep, NEW s \in Statements, Absorbed(s)
    PROVE  Absorbed(s)'
  <1>1. CASE s.op = "declare"
    <2>1. s.name \in Labels /\ s.type \in DeclaredTypes
      BY <1>1, StatementTypes
    <2>2. Evolves(labels[s.name], labels'[s.name])
      BY <2>1, EntriesEvolve
    <2> QED
      BY <1>1, <2>1, <2>2 DEF Absorbed, Evolves, is_extern, is_global, DeclaredTypes
  <1>2. CASE s.op \in {"label", "equ"}
    <2>1. s.name \in Labels
      BY <1>2, StatementTypes
    <2>2. Evolves(labels[s.name], labels'[s.name])
      BY <2>1, EntriesEvolve
    <2> QED
      BY <1>2, <2>1, <2>2 DEF Absorbed, Evolves, is_extern, Found
  <1>3. CASE s.op \notin {"declare", "label", "equ"}
    BY <1>3 DEF Absorbed
  <1> QED
    BY <1>1, <1>2, <1>3

(* In the first pass the line absorbs what it says, or is in error.        *)
LEMMA FirstPassAbsorbs ==
    ASSUME TypeOK, InSection, LineStep, DefinedHaveSegments, ptype = "first",
           NEW s, s = program[line], Prepares(s), errors' = {}
    PROVE  Absorbed(s)'
  <1>0. /\ s \in Statements /\ next_seg \in Nat /\ labels \in [Labels -> Entry]
        /\ pass \in Nat /\ Executes(s) /\ ~pass_final(ptype)
    BY LineIsRead DEF TypeOK, Executes, Prepares, pass_final
  <1>1. ASSUME NEW table, NEW seg, NEW sent, DefinesFrom(s, table, seg, sent)
        PROVE  Absorbed(s)'
    <2> DEFINE entry == table[s.name]
               new == DefinedEntry(s.name, entry, seg, sent, next_seg, pass)
               after == EntryAfterSymdef(entry, seg, new, pass, ptype)
    <2>1. entry \in Entry /\ labels'[s.name] = after
      BY <1>1, DefineEffects
    <2>2. /\ after.defined = pass + 1
          /\ after.type = IF HandedOver(entry, seg, new, pass, ptype) /\ new.type = "extern"
                          THEN "required" ELSE new.type
          /\ new.type = DefinedType(s.name, entry, seg)
      BY <1>0, <1>1, <2>1, DefinedFacts DEF DefinesFrom
    <2> HIDE DEF after, new
    <2>3. CASE s.op \in {"label", "equ"}
      <3>1. seg # PSEUDO_SEG
        BY <1>1, <2>3, DefinedElsewhere
      <3>2. ~is_extern(new.type) /\ ~(s.name \in SpecialLabels /\ new.type = "local")
        BY <2>1, <2>2, <3>1 DEF DefinedType, Promoted, is_extern
      <3>3. after.type = new.type
        BY <2>2, <3>2 DEF is_extern
      <3> QED
        BY <1>0, <2>1, <2>2, <2>3, <3>2, <3>3 DEF Absorbed, Found
    <2>4. CASE s.op = "declare"
      <3>1. /\ s.type \in {"common", "extern", "required"} /\ seg = PSEUDO_SEG
            /\ entry = Declared(s) /\ DeclareAccepted(labels[s.name], s.type, ptype)
        BY <1>1, <2>4 DEF DefinesFrom, Prepared, GivenBy
      <3>2. entry.type = s.type
        BY <1>0, <1>1, <3>1, DeclaredFacts DEF Declared, DefinesFrom, DeclaredTypes
      <3>3. new.type = s.type
        BY <2>2, <3>1, <3>2 DEF DefinedType, Promoted
      <3>4. after.type = s.type
        BY <2>2, <3>1, <3>3 DEF HandedOver
      <3> QED
        BY <2>1, <2>4, <3>4 DEF Absorbed
    <2> QED
      BY <1>1, <2>3, <2>4 DEF DefinesFrom
  <1>2. CASE Declares(s)
    <2> DEFINE old == TypeBeforeDeclare(labels[s.name], s.type, ptype)
    <2>1. s.op = "declare" /\ s.name \in Labels /\ s.type \in DeclaredTypes
      BY <1>0, <1>2, StatementTypes DEF Declares
    <2>2. Declared(s).type =
             IF DeclareAccepted(labels[s.name], s.type, ptype) THEN s.type ELSE old
      BY <1>0, <2>1, DeclaredFacts DEF Declared
    <2>3. labels'[s.name] = Declared(s) /\ ~DeclareError(labels[s.name], s.type, ptype)
      BY <1>0, <1>2, <2>1 DEF Declares
    <2>4. \/ Declared(s).type = s.type
          \/ Declared(s).type = old /\ IgnoredBy(old, s.type)
      BY <2>2, <2>3 DEF DeclareError, DeclareAccepted
    <2> HIDE DEF old
    <2>5. \/ labels'[s.name].type = s.type
          \/ is_extern(s.type) /\ is_global(labels'[s.name].type)
          \/ s.type = "extern" /\ labels'[s.name].type = "required"
      BY <2>3, <2>4 DEF IgnoredBy, Agrees, is_extern
    <2> QED
      BY <2>1, <2>5 DEF Absorbed
  <1>3. CASE Looks(s)
    BY <1>0, <1>3 DEF Looks, Absorbed
  <1> QED
    BY <1>1, <1>2, <1>3, LineEffects

LEMMA DeclarationsHoldStep ==
    ASSUME TypeOK, InSection, PassNumbers, DefinedHaveSegments, DeclarationsHold, Next
    PROVE  DeclarationsHold'
  <1> SUFFICES ASSUME errors' = {}, NEW n \in DOMAIN program,
                      Prepares(program[n]), Passed(n)'
               PROVE  Absorbed(program[n])'
    BY ProgramStays DEF DeclarationsHold
  <1>1. errors = {} /\ program' = program
    BY ErrorsStay, ProgramStays
  <1> DEFINE s == program[n]
  <1>2. s \in Statements
    BY ProgramsAssumption, ElementOfSeq DEF TypeOK
  <1>3. CASE Passed(n)
    <2>1. Absorbed(s)
      BY <1>1, <1>3 DEF DeclarationsHold
    <2>2. \A x \in Statements : Absorbed(x) => Absorbed(x)'
      <3>1. CASE LineStep
        BY <3>1, AbsorbedStays
      <3>2. CASE LoopStep
        BY <3>2, LoopKeeps DEF Absorbed
      <3> QED
        BY <3>1, <3>2, NextIsLineOrLoop
    <2> QED
      BY <1>1, <1>2, <2>1, <2>2 DEF Absorbed
  <1>4. CASE LineStep /\ n = line /\ ptype = "first"
    <2>1. \A x : x = program[line] /\ Prepares(x) => Absorbed(x)'
      BY <1>4, FirstPassAbsorbs
    <2> QED
      BY <1>1, <1>4, <2>1 DEF Absorbed
  <1> QED
    BY <1>3, <1>4, PassedLines

(* In a pass that is not the first, a declaration leaves its entry as it   *)
(* is, and a definition its type.                                          *)
LEMMA DeclaredAgain ==
    ASSUME NEW s \in Statements, s.op = "declare", Absorbed(s), labels \in [Labels -> Entry],
           ~DeclareError(labels[s.name], s.type, ptype)
    PROVE  /\ Declared(s) = labels[s.name]
           /\ DeclareAccepted(labels[s.name], s.type, ptype) <=> labels[s.name].type = s.type
  <1> DEFINE entry == labels[s.name]
  <1>1. s.name \in Labels /\ s.type \in DeclaredTypes /\ entry \in Entry
    BY StatementTypes
  <1>2. TypeBeforeDeclare(entry, s.type, ptype) = entry.type
    BY <1>1 DEF Absorbed, TypeBeforeDeclare, is_extern, is_global, DeclaredTypes
  <1>3. [entry EXCEPT !.type = entry.type] = entry
    BY <1>1 DEF Entry
  <1>4. Agrees(entry.type, s.type) <=> entry.type = s.type
    BY <1>1 DEF Absorbed, Agrees, is_extern, is_global, DeclaredTypes
  <1>5. ~Agrees(entry.type, s.type) => ~Overrides(entry.type, s.type)
    BY <1>1 DEF Absorbed, Agrees, Overrides, is_extern, is_global, DeclaredTypes
  <1> QED
    BY <1>2, <1>3, <1>4, <1>5 DEF Declared, DeclaredEntry, DeclareAccepted

LEMMA DefinedAgainType ==
    ASSUME NEW s \in Statements, s.op \in {"label", "equ"}, Absorbed(s),
           NEW entry, entry.type = labels[s.name].type, NEW seg
    PROVE  ~Promoted(entry, seg) /\ DefinedType(s.name, entry, seg) = entry.type
  BY DEF Absorbed, Promoted, DefinedType

-----------------------------------------------------------------------------
(* The labels of the output format.                                        *)

LEMMA BackendIsNotDefined ==
    ASSUME TypeOK, InSection, LineStep, BackendLabelsStay, LeavesBackendAlone,
           NEW table, NEW seg, NEW sent, DefinesFrom(program[line], table, seg, sent)
    PROVE  program[line].name \notin BackendLabels
  <1> DEFINE s == program[line]
             entry == labels[s.name]
  <1>1. s \in Statements /\ line \in DOMAIN program /\ s.name \in Labels
    BY ProgramsAssumption, LenProperties, LineIsRead DEF DefinesFrom, TypeOK
  <1>2. CASE s.op \in {"label", "equ"}
    BY <1>1, <1>2 DEF LeavesBackendAlone
  <1>3. CASE s.op = "declare" /\ s.name \in BackendLabels
    <2>1. entry.type = "backend" /\ s.type \in {"common", "extern", "required"}
      BY <1>1, <1>3 DEF BackendLabelsStay, DefinesFrom, Prepared
    <2>2. ~DeclareAccepted(entry, s.type, ptype)
      BY <2>1 DEF DeclareAccepted, TypeBeforeDeclare, Agrees, Overrides, is_extern
    <2> QED
      BY <1>3, <2>2 DEF DefinesFrom, Prepared
  <1> QED
    BY <1>2, <1>3 DEF DefinesFrom

LEMMA BackendTypes ==
    ASSUME TypeOK, InSection, LineStep, NEW l \in Labels
    PROVE  labels'[l].type = "backend" <=> labels[l].type = "backend"
  <1> DEFINE s == program[line]
  <1>0. /\ labels \in [Labels -> Entry] /\ pass \in Nat /\ next_seg \in Nat
        /\ s \in Statements
    BY LineIsRead DEF TypeOK
  <1>1. labels[l].type = "backend" => labels'[l].type = "backend"
    BY EntriesEvolve DEF Evolves, is_extern
  <1>2. ASSUME LookedUpOnly(labels[l], labels'[l])
        PROVE  labels'[l].type = labels[l].type
    BY <1>0, <1>2, LookupFacts
  <1>3. CASE Looks(s)
    BY <1>2, <1>3 DEF Looks
  <1>4. ASSUME s.op = "declare", s.name \in Labels, Declared(s).type = "backend"
        PROVE  labels[s.name].type = "backend"
    <2>1. s.type \in DeclaredTypes
      BY <1>0, <1>4, StatementTypes
    <2>2. \/ Declared(s).type = s.type
          \/ Declared(s).type = TypeBeforeDeclare(labels[s.name], s.type, ptype)
      BY <1>0, <1>4, <2>1, DeclaredFacts DEF Declared
    <2> QED
      BY <1>4, <2>1, <2>2 DEF DeclaredTypes, TypeBeforeDeclare
  <1>5. CASE Declares(s)
    <2>1. s.name \in Labels /\ s.op = "declare"
      BY <1>0, <1>5, StatementTypes DEF Declares
    <2>2. labels'[l] = IF l = s.name THEN Declared(s) ELSE labels[l]
      BY <1>0, <1>5 DEF Declares
    <2> QED
      BY <1>1, <1>4, <2>1, <2>2
  <1>6. ASSUME NEW table, NEW seg, NEW sent, DefinesFrom(s, table, seg, sent),
               labels'[l].type = "backend"
        PROVE  labels[l].type = "backend"
    <2> DEFINE entry == table[s.name]
               new == DefinedEntry(s.name, entry, seg, sent, next_seg, pass)
               after == EntryAfterSymdef(entry, seg, new, pass, ptype)
    <2>1. /\ entry \in Entry /\ labels'[s.name] = after
          /\ \A k \in Labels \ {s.name} : LookedUpOnly(labels[k], labels'[k])
      BY <1>6, DefineEffects
    <2>2. CASE l # s.name
      BY <1>2, <1>6, <2>1, <2>2
    <2>3. CASE l = s.name
      <3>1. after.type = IF HandedOver(entry, seg, new, pass, ptype) /\ new.type = "extern"
                          THEN "required" ELSE new.type
        BY <1>0, <1>6, <2>1, DefinedFacts DEF DefinesFrom
      <3>2. new.type = DefinedType(s.name, entry, seg)
        BY <1>0, <1>6, <2>1, DefinedFacts DEF DefinesFrom
      <3> HIDE DEF after, new
      <3>3. entry.type = "backend"
        BY <1>6, <2>1, <2>3, <3>1, <3>2 DEF DefinedType
      <3>4. CASE s.op \in {"label", "equ"}
        BY <1>0, <1>6, <2>3, <3>3, <3>4, LookupFacts DEF DefinesFrom, Prepared
      <3>5. CASE s.op = "declare"
        BY <1>4, <1>6, <2>3, <3>3, <3>5 DEF DefinesFrom, Prepared
      <3> QED
        BY <1>6, <3>4, <3>5 DEF DefinesFrom
    <2> QED
      BY <2>2, <2>3
  <1> QED
    BY <1>1, <1>3, <1>2, <1>5, <1>6, LineEffects

LEMMA BackendLabelsStayStep ==
    ASSUME TypeOK, InSection, BackendLabelsStay, Next
    PROVE  BackendLabelsStay'
  <1> DEFINE s == program[line]
  <1>0. /\ labels \in [Labels -> Entry] /\ pass \in Nat
        /\ LeavesBackendAlone' <=> LeavesBackendAlone
    BY ProgramStays DEF TypeOK, LeavesBackendAlone
  <1>1. CASE LoopStep
    BY <1>0, <1>1, LoopKeeps DEF BackendLabelsStay
  <1>2. CASE LineStep
    <2> SUFFICES ASSUME NEW l \in BackendLabels, LeavesBackendAlone,
                        labels[l].segment = FirstFreeSegment
                 PROVE  labels'[l].segment = FirstFreeSegment
      BY <1>0, <1>2, BackendTypes DEF BackendLabelsStay
    <2>0. l \in Labels /\ s \in Statements
      BY <1>2, LabelSetsAssumption, LineIsRead
    <2>1. ASSUME LookedUpOnly(labels[l], labels'[l])
          PROVE  labels'[l].segment = FirstFreeSegment
      BY <1>0, <2>0, <2>1, LookupFacts
    <2>2. CASE Looks(s)
      BY <2>0, <2>1, <2>2 DEF Looks
    <2>3. CASE Declares(s)
      <3>1. s.name \in Labels /\ s.type \in DeclaredTypes
        BY <2>0, <2>3, StatementTypes DEF Declares
      <3>2. Declared(s).segment = labels[s.name].segment
        BY <1>0, <3>1, DeclaredFacts DEF Declared
      <3>3. labels'[l] = IF l = s.name THEN Declared(s) ELSE labels[l]
        BY <1>0, <2>0, <2>3 DEF Declares
      <3> QED
        BY <3>2, <3>3
    <2>4. ASSUME NEW table, NEW seg, NEW sent, DefinesFrom(s, table, seg, sent)
          PROVE  labels'[l].segment = FirstFreeSegment
      <3>1. l # s.name
        BY <1>2, <2>4, BackendIsNotDefined
      <3> QED
        BY <2>0, <2>1, <2>4, <3>1, DefineEffects
    <2> QED
      BY <1>2, <2>2, <2>3, <2>4, LineEffects
  <1> QED
    BY <1>1, <1>2, NextIsLineOrLoop

-----------------------------------------------------------------------------
(* A line that counts no change moves no label.                            *)

LEMMA QuietDefine ==
    ASSUME TypeOK, NEW s, NEW table, NEW seg, NEW sent,
           DefinesFrom(s, table, seg, sent), global_offset_changed' = global_offset_changed
    PROVE  LET entry == table[s.name]
               new == DefinedEntry(s.name, entry, seg, sent, next_seg, pass)
           IN  /\ ~Changed(entry, seg, new)
               /\ LastDef(entry, seg) # 0 /\ SameValue(entry, new)
               /\ ~Promoted(entry, seg) /\ Found(entry)
  <1> DEFINE entry == table[s.name]
             new == DefinedEntry(s.name, entry, seg, sent, next_seg, pass)
  <1>1. global_offset_changed' =
            global_offset_changed + (IF Changed(entry, seg, new) THEN 1 ELSE 0)
    BY DEF DefinesFrom, Define
  <1>2. ~Changed(entry, seg, new)
    BY <1>1 DEF TypeOK
  <1>3. LastDef(entry, seg) # 0 /\ SameValue(entry, new)
    BY <1>2 DEF Changed
  <1>4. ~Promoted(entry, seg) /\ Found(entry)
    BY <1>3 DEF LastDef, Found, Promoted
  <1> QED
    BY <1>2, <1>3, <1>4

LEMMA QuietLine ==
    ASSUME TypeOK, InSection, LineStep, global_offset_changed' = global_offset_changed,
           NEW l \in Labels
    PROVE  /\ SameValue(labels[l], labels'[l])
           /\ pass_stable(ptype) =>
                 (labels'[l].type = "common" <=> labels[l].type = "common")
  <1> DEFINE s == program[line]
             Same(old, new) ==
                 /\ SameValue(old, new)
                 /\ pass_stable(ptype) => (new.type = "common" <=> old.type = "common")
  <1>0. /\ labels \in [Labels -> Entry] /\ pass \in Nat /\ next_seg \in Nat
        /\ s \in Statements
    BY LineIsRead DEF TypeOK
  <1>1. ASSUME LookedUpOnly(labels[l], labels'[l]) PROVE Same(labels[l], labels'[l])
    BY <1>0, <1>1, LookupFacts DEF SameValue
  <1>2. ASSUME s.op = "declare", s.name \in Labels,
               Declared(s).defined # 0 \/ s.type \notin {"common", "extern", "required"}
                 \/ ~DeclareAccepted(labels[s.name], s.type, ptype)
        PROVE  Same(labels[s.name], Declared(s))
    <2>1. s.type \in DeclaredTypes
      BY <1>0, <1>2, StatementTypes
    <2>2. SameValue(labels[s.name], Declared(s))
      BY <1>0, <1>2, <2>1, DeclaredFacts DEF Declared, SameValue
    <2>3. ASSUME pass_stable(ptype)
          PROVE  Declared(s).type = "common" <=> labels[s.name].type = "common"
      <3> DEFINE old == labels[s.name].type
      <3>1. TypeBeforeDeclare(labels[s.name], s.type, ptype) = old
        BY <2>3 DEF TypeBeforeDeclare
      <3>2. Declared(s).type = IF Agrees(old, s.type) \/ Overrides(old, s.type)
                               THEN s.type ELSE old
        BY <1>0, <1>2, <2>1, <3>1, DeclaredFacts DEF Declared, DeclareAccepted
      <3>3. Declared(s).defined = IF Overrides(old, s.type) /\ ~Agrees(old, s.type)
                                  THEN 0 ELSE labels[s.name].defined
        BY <1>0, <1>2, <2>1, <3>1, DeclaredFacts DEF Declared
      <3>4. DeclareAccepted(labels[s.name], s.type, ptype)
               <=> Agrees(old, s.type) \/ Overrides(old, s.type)
        BY <3>1 DEF DeclareAccepted
      <3> HIDE DEF old
      <3> QED
        BY <1>2, <3>2, <3>3, <3>4 DEF old, Agrees, Overrides, is_extern, is_global
    <2> QED
      BY <2>2, <2>3
  <1>3. CASE Looks(s)
    BY <1>1, <1>3 DEF Looks
  <1>4. CASE Declares(s)
    <2>1. s.name \in Labels /\ s.op = "declare"
      BY <1>0, <1>4, StatementTypes DEF Declares
    <2>2. Same(labels[s.name], Declared(s))
      BY <1>2, <1>4, <2>1 DEF Declares
    <2>3. labels'[l] = IF l = s.name THEN Declared(s) ELSE labels[l]
      BY <1>0, <1>4 DEF Declares
    <2> QED
      BY <2>2, <2>3 DEF SameValue
  <1>5. ASSUME NEW table, NEW seg, NEW sent, DefinesFrom(s, table, seg, sent)
        PROVE  Same(labels[l], labels'[l])
    <2> DEFINE entry == table[s.name]
               new == DefinedEntry(s.name, entry, seg, sent, next_seg, pass)
               after == EntryAfterSymdef(entry, seg, new, pass, ptype)
    <2>1. /\ entry \in Entry /\ new \in Entry /\ labels'[s.name] = after
          /\ \A k \in Labels \ {s.name} : LookedUpOnly(labels[k], labels'[k])
      BY <1>5, DefineEffects
    <2>2. CASE l # s.name
      BY <1>1, <2>1, <2>2
    <2>3. CASE l = s.name
      <3>1. /\ SameValue(entry, new) /\ ~Promoted(entry, seg) /\ Found(entry)
        BY <1>5, QuietDefine
      <3>2. /\ after.segment = new.segment /\ after.offset = new.offset
            /\ after.size = new.size /\ new.type = DefinedType(s.name, entry, seg)
            /\ after.type = IF HandedOver(entry, seg, new, pass, ptype)
                               /\ new.type = "extern"
                            THEN "required" ELSE new.type
        BY <1>0, <1>5, <2>1, DefinedFacts DEF DefinesFrom
      <3> HIDE DEF new, after
      <3>3. Same(entry, after)
        BY <3>1, <3>2 DEF SameValue, DefinedType
      <3>4. Same(labels[l], entry)
        <4>1. CASE s.op \in {"label", "equ"}
          BY <1>0, <1>5, <2>3, <4>1, LookupFacts DEF DefinesFrom, Prepared, SameValue
        <4>2. CASE s.op = "declare"
          <5>1. entry = Declared(s) /\ Declared(s).defined # 0
            BY <1>5, <3>1, <4>2 DEF DefinesFrom, Prepared, Found
          <5> HIDE DEF entry
          <5> QED
            BY <1>2, <1>5, <2>3, <4>2, <5>1 DEF DefinesFrom
        <4> QED
          BY <1>5, <4>1, <4>2 DEF DefinesFrom
      <3> HIDE DEF entry
      <3> QED
        BY <2>1, <2>3, <3>3, <3>4 DEF SameValue
    <2> QED
      BY <2>2, <2>3
  <1> QED
    BY <1>3, <1>4, <1>5, LineEffects

(* Changes are only added up.                                              *)
LEMMA ChangesGrow ==
    ASSUME TypeOK, InSection, LineStep
    PROVE  \/ global_offset_changed' = global_offset_changed
           \/ global_offset_changed' = global_offset_changed + 1
  <1>1. CASE Looks(program[line]) \/ Declares(program[line])
    BY <1>1 DEF Looks, Declares
  <1>2. ASSUME NEW table, NEW seg, NEW sent, DefinesFrom(program[line], table, seg, sent)
        PROVE  \/ global_offset_changed' = global_offset_changed
               \/ global_offset_changed' = global_offset_changed + 1
    BY <1>2 DEF DefinesFrom, Define, TypeOK
  <1> QED
    BY <1>1, <1>2, LineEffects

-----------------------------------------------------------------------------
(* Symbols.                                                                *)

(* What a definition adds to the symbols.                                  *)
LEMMA SymdefsAfterDefine ==
    ASSUME NEW s, NEW table, NEW seg, NEW sent, DefinesFrom(s, table, seg, sent)
    PROVE  LET entry == table[s.name]
               new == DefinedEntry(s.name, entry, seg, sent, next_seg, pass)
           IN  symdefs' = IF HandedOver(entry, seg, new, pass, ptype)
                          THEN Append(symdefs, Symdef(s.name, new)) ELSE symdefs
  BY DEF DefinesFrom, Define

LEMMA NewIsNotBackend ==
    ASSUME TypeOK, InSection, LineStep, BackendLabelsStay, LeavesBackendAlone,
           NEW s, s = program[line],
           NEW table, NEW seg, NEW sent, DefinesFrom(s, table, seg, sent)
    PROVE  DefinedEntry(s.name, table[s.name], seg, sent, next_seg, pass).type # "backend"
  <1> DEFINE entry == table[s.name]
             new == DefinedEntry(s.name, entry, seg, sent, next_seg, pass)
             after == EntryAfterSymdef(entry, seg, new, pass, ptype)
  <1>1. s.name \in Labels \ BackendLabels
    BY BackendIsNotDefined DEF DefinesFrom
  <1>2. labels'[s.name].type # "backend"
    BY <1>1, BackendTypes DEF BackendLabelsStay
  <1>3. labels'[s.name] = after /\ entry \in Entry
    BY DefineEffects
  <1>4. after.type = IF HandedOver(entry, seg, new, pass, ptype) /\ new.type = "extern"
                     THEN "required" ELSE new.type
    BY <1>3, DefinedFacts DEF DefinesFrom, TypeOK
  <1> HIDE DEF new, after
  <1>5. new.type # "backend"
    BY <1>2, <1>3, <1>4
  <1> QED
    BY <1>5 DEF new

LEMMA SymdefsOfLine ==
    ASSUME TypeOK, InSection, LineStep, BackendLabelsStay, LeavesBackendAlone,
           ptype # "stab"
    PROVE  symdefs' = symdefs
  <1> DEFINE s == program[line]
  <1>1. CASE Looks(s) \/ Declares(s)
    BY <1>1 DEF Looks, Declares
  <1>2. ASSUME NEW table, NEW seg, NEW sent, DefinesFrom(s, table, seg, sent)
        PROVE  symdefs' = symdefs
    <2>1. DefinedEntry(s.name, table[s.name], seg, sent, next_seg, pass).type # "backend"
      BY <1>2, NewIsNotBackend
    <2>2. ~HandedOver(table[s.name], seg,
                      DefinedEntry(s.name, table[s.name], seg, sent, next_seg, pass),
                      pass, ptype)
      BY <2>1 DEF HandedOver
    <2> QED
      BY <1>2, <2>2, SymdefsAfterDefine
  <1> QED
    BY <1>1, <1>2, LineEffects

(* In the stabilization pass without errors: a definition finds its label  *)
(* with the type it leaves it, and if it was defined in this pass already, *)
(* nothing happens.                                                        *)
LEMMA StableDefine ==
    ASSUME TypeOK, InSection, LineStep, PassNumbers, DeclarationsHold,
           pass > 1, errors = {},
           NEW s, s = program[line], Prepares(s),
           NEW table, NEW seg, NEW sent, DefinesFrom(s, table, seg, sent)
    PROVE  LET entry == table[s.name]
               old == labels[s.name]
               new == DefinedEntry(s.name, entry, seg, sent, next_seg, pass)
           IN  /\ entry.type = old.type /\ entry.defined = old.defined
               /\ SameValue(entry, old)
               /\ s.op = "declare" => entry = old /\ old.type = s.type
               /\ ~Promoted(entry, seg) /\ new.type = entry.type
  <1> DEFINE entry == table[s.name]
             old == labels[s.name]
             new == DefinedEntry(s.name, entry, seg, sent, next_seg, pass)
  <1>1. /\ s \in Statements /\ s.name \in Labels /\ old \in Entry /\ entry \in Entry
        /\ pass \in Nat /\ line \in DOMAIN program
    BY LineIsRead, DefineEffects, LenProperties, ProgramsAssumption
       DEF TypeOK, DefinesFrom
  <1>2. Absorbed(s)
    BY <1>1 DEF DeclarationsHold, Passed
  <1>3. new.type = DefinedType(s.name, entry, seg)
    BY DEF DefinedEntry
  <1>4. CASE s.op \in {"label", "equ"}
    <2>1. LookedUpOnly(old, entry)
      BY <1>4 DEF DefinesFrom, Prepared
    <2>2. entry.type = old.type /\ entry.defined = old.defined /\ SameValue(entry, old)
      BY <1>1, <2>1, LookupFacts DEF SameValue
    <2> HIDE DEF entry, old, new
    <2>3. ~Promoted(entry, seg) /\ DefinedType(s.name, entry, seg) = entry.type
      BY <1>1, <1>2, <1>4, <2>2, DefinedAgainType DEF old
    <2> QED
      BY <1>3, <1>4, <2>2, <2>3 DEF entry, old, new
  <1>5. CASE s.op = "declare"
    <2>1. /\ DeclareAccepted(old, s.type, ptype) /\ entry = Declared(s)
          /\ s.type \in {"common", "extern", "required"} /\ seg = PSEUDO_SEG
      BY <1>5 DEF DefinesFrom, Prepared, GivenBy
    <2>2. ~DeclareError(old, s.type, ptype)
      BY <2>1 DEF DeclareAccepted, DeclareError
    <2>3. entry = old /\ old.type = s.type
      BY <1>1, <1>2, <1>5, <2>1, <2>2, DeclaredAgain DEF TypeOK
    <2>4. ~Promoted(entry, seg) /\ DefinedType(s.name, entry, seg) = entry.type
      <3> HIDE DEF entry, old
      <3> QED
        BY <2>1, <2>3 DEF Promoted, DefinedType
    <2> QED
      BY <1>3, <1>5, <2>3, <2>4 DEF SameValue
  <1> QED
    BY <1>4, <1>5 DEF DefinesFrom

(* If a definition brings no error, one that was made in this pass already *)
(* is repeated as it was.                                                  *)
LEMMA RepeatedDefine ==
    ASSUME TypeOK, NEW s, NEW table, NEW seg, NEW sent,
           DefinesFrom(s, table, seg, sent), errors' = {},
           Redefined(table[s.name], seg, pass)
    PROVE  ~Changed(table[s.name], seg,
                    DefinedEntry(s.name, table[s.name], seg, sent, next_seg, pass))
  BY DEF DefinesFrom, Define, DefineError

(* The entries of a line that defines nothing, in a later pass.            *)
LEMMA StableOther ==
    ASSUME TypeOK, InSection, LineStep, DeclarationsHold, pass > 1, errors = {},
           errors' = {}, NEW s, s = program[line], Looks(s) \/ (Prepares(s) /\ Declares(s)),
           NEW l \in Labels
    PROVE  LookedUpOnly(labels[l], labels'[l])
  <1>1. CASE Looks(s)
    BY <1>1 DEF Looks
  <1>2. CASE Prepares(s) /\ Declares(s)
    <2>1. /\ s \in Statements /\ line \in DOMAIN program /\ labels \in [Labels -> Entry]
          /\ s.op = "declare" /\ ~DeclareError(labels[s.name], s.type, ptype)
          /\ labels' = [labels EXCEPT ![s.name] = Declared(s)]
      BY <1>2, LineIsRead, LenProperties, ProgramsAssumption DEF TypeOK, Declares
    <2>2. Absorbed(s)
      BY <1>2, <2>1 DEF DeclarationsHold, Passed
    <2>3. Declared(s) = labels[s.name]
      BY <2>1, <2>2, DeclaredAgain
    <2> QED
      BY <2>1, <2>3 DEF LookedUpOnly
  <1> QED
    BY <1>1, <1>2

(* Every line that is executed before the final pass is one of all passes  *)
(* before it.                                                              *)
LEMMA ExecutedIsPrepared ==
    ASSUME ptype # "final", NEW s, Executes(s)
    PROVE  Prepares(s)
  BY DEF Executes, Prepares, pass_final

(* What was handed over goes on to agree while its entry keeps its value.  *)
LEMMA AgreesStill ==
    ASSUME NEW d, SymdefAgrees(d), SameValue(labels[d.name], labels'[d.name])
    PROVE  SymdefAgrees(d)'
  BY DEF SymdefAgrees, SameValue

LEMMA LookupsKeepSymbols ==
    ASSUME TypeOK, NEW l \in Labels, LookedUpOnly(labels[l], labels'[l])
    PROVE  SameValue(labels[l], labels'[l]) /\ labels'[l].defined = labels[l].defined
  BY LookupFacts DEF TypeOK, SameValue

LEMMA SymbolsComeLateStep ==
    ASSUME TypeOK, InSection, BackendLabelsStay, SymbolsComeLate, Next
    PROVE  SymbolsComeLate'
  <1>0. LeavesBackendAlone' <=> LeavesBackendAlone
    BY ProgramStays DEF LeavesBackendAlone
  <1>1. CASE LoopStep
    <2>1. ~pass_stable(ptype') => ~pass_stable(ptype)
      BY <1>1 DEF LoopStep, BeginPass, EndPass, Finish, NextPassType, pass_stable
    <2> QED
      BY <1>0, <1>1, <2>1, LoopKeeps DEF SymbolsComeLate, pass_stable
  <1>2. CASE LineStep
    BY <1>0, <1>2, LineIsRead, SymdefsOfLine DEF SymbolsComeLate, pass_stable, passVars
  <1> QED
    BY <1>1, <1>2, NextIsLineOrLoop

(* In the stabilization pass a symbol is handed over with what its label   *)
(* holds from then on.                                                     *)
SymbolsAreFixed ==
    /\ \A i, j \in DOMAIN symdefs : symdefs[i].name = symdefs[j].name => i = j
    /\ \A i \in DOMAIN symdefs : /\ SymdefAgrees(symdefs[i])
                                 /\ labels[symdefs[i].name].defined = pass + 1

LEMMA SymbolsAreFixedStep ==
    ASSUME TypeOK, InSection, LineStep, PassNumbers, DeclarationsHold,
           ptype = "stab", errors = {}, errors' = {}, SymbolsAreFixed
    PROVE  SymbolsAreFixed'
  <1> DEFINE s == program[line]
  <1>0. /\ labels \in [Labels -> Entry] /\ pass \in Nat /\ pass > 1 /\ next_seg \in Nat
        /\ symdefs \in Seq(Symdefs) /\ pass' = pass /\ s \in Statements
        /\ Len(symdefs) \in Nat /\ DOMAIN symdefs = 1 .. Len(symdefs)
        /\ \A i \in DOMAIN symdefs : symdefs[i].name \in Labels
    <2>1. symdefs \in Seq(Symdefs)
      BY DEF TypeOK
    <2>2. \A i \in DOMAIN symdefs : symdefs[i].name \in Labels
      <3>1. \A i \in DOMAIN symdefs : symdefs[i] \in Symdefs
        BY <2>1, ElementOfSeq, LenProperties
      <3> QED
        BY <3>1 DEF Symdefs
    <2> QED
      BY <2>1, <2>2, LineIsRead, LenProperties DEF TypeOK, PassNumbers, passVars
  <1>1. ASSUME symdefs' = symdefs,
               \A i \in DOMAIN symdefs :
                   LET l == symdefs[i].name
                   IN  /\ SameValue(labels[l], labels'[l])
                       /\ labels'[l].defined = labels[l].defined
        PROVE  SymbolsAreFixed'
    <2>1. \A d : SymdefAgrees(d) /\ SameValue(labels[d.name], labels'[d.name])
                    => SymdefAgrees(d)'
      BY AgreesStill
    <2> QED
      BY <1>0, <1>1, <2>1 DEF SymbolsAreFixed, SymdefAgrees
  <1>2. CASE Looks(s) \/ Declares(s)
    <2>1. \A l \in Labels : LookedUpOnly(labels[l], labels'[l])
      <3>1. Declares(s) => Prepares(s)
        BY ExecutedIsPrepared DEF Declares
      <3>2. \A x : x = s => \A l \in Labels : LookedUpOnly(labels[l], labels'[l])
        BY <1>0, <1>2, <3>1, StableOther
      <3> QED
        BY <3>2
    <2>2. symdefs' = symdefs
      BY <1>2 DEF Looks, Declares
    <2> QED
      BY <1>0, <1>1, <2>1, <2>2, LookupsKeepSymbols
  <1>3. ASSUME NEW table, NEW seg, NEW sent, DefinesFrom(s, table, seg, sent)
        PROVE  SymbolsAreFixed'
    <2> DEFINE l == s.name
               entry == table[l]
               new == DefinedEntry(l, entry, seg, sent, next_seg, pass)
               after == EntryAfterSymdef(entry, seg, new, pass, ptype)
    <2>1. /\ entry \in Entry /\ new \in Entry /\ labels'[l] = after /\ l \in Labels
          /\ \A k \in Labels \ {l} : LookedUpOnly(labels[k], labels'[k])
      BY <1>3, DefineEffects DEF DefinesFrom
    <2>2. /\ after.segment = new.segment /\ after.offset = new.offset
          /\ after.size = new.size /\ after.defined = pass + 1
      BY <1>0, <1>3, <2>1, DefinedFacts DEF DefinesFrom
    <2>3. /\ entry.defined = labels[l].defined /\ SameValue(entry, labels[l])
          /\ ~Promoted(entry, seg)
      <3>1. Prepares(s)
        BY <1>3, ExecutedIsPrepared DEF DefinesFrom
      <3> QED
        BY <1>0, <1>3, <3>1, StableDefine
    <2>4. symdefs' = IF HandedOver(entry, seg, new, pass, ptype)
                     THEN Append(symdefs, Symdef(l, new)) ELSE symdefs
      BY <1>3, SymdefsAfterDefine
    <2>5. \A k \in Labels \ {l} : /\ SameValue(labels[k], labels'[k])
                                  /\ labels'[k].defined = labels[k].defined
      BY <2>1, LookupsKeepSymbols
    <2>6. CASE Redefined(entry, seg, pass)
      <3>1. ~Changed(entry, seg, new)
        BY <1>3, <2>6, RepeatedDefine
      <3> HIDE DEF new, after, entry
      <3>2. SameValue(labels[l], labels'[l])
        BY <2>1, <2>2, <2>3, <3>1 DEF Changed, SameValue
      <3>3. labels'[l].defined = labels[l].defined
        BY <2>1, <2>2, <2>3, <2>6 DEF Redefined, LastDef
      <3>4. symdefs' = symdefs
        BY <2>4, <2>6 DEF HandedOver
      <3> QED
        BY <1>0, <1>1, <2>5, <3>2, <3>3, <3>4
    <2>7. CASE ~Redefined(entry, seg, pass)
      <3> HIDE DEF new, after, entry
      <3>1. \A i \in DOMAIN symdefs : symdefs[i].name \in Labels \ {l}
        BY <1>0, <2>3, <2>7 DEF Redefined, LastDef, SymbolsAreFixed
      <3>2. CASE symdefs' = symdefs
        BY <1>1, <2>5, <3>1, <3>2
      <3>3. CASE symdefs' = Append(symdefs, Symdef(l, new))
        <4> DEFINE d == Symdef(l, new)
             Agree(x) == /\ x.segment = labels'[x.name].segment
                         /\ x.value = IF x.kind = 2 THEN labels'[x.name].size
                                      ELSE labels'[x.name].offset
        <4>1. d.name = l /\ Agree(d)
          <5>1. SymdefKind(new.type) = 2 <=> new.type = "common"
            BY <2>1 DEF SymdefKind, Entry, LabelTypes
          <5> QED
            BY <2>1, <2>2, <5>1 DEF Symdef
        <4>2. d \in Symdefs
          BY <2>1, SymdefTypes
        <4> HIDE DEF d, Agree
        <4>3. /\ DOMAIN symdefs' = 1 .. Len(symdefs) + 1
              /\ \A i \in DOMAIN symdefs : symdefs'[i] = symdefs[i]
              /\ symdefs'[Len(symdefs) + 1] = d
          BY <1>0, <3>3, <4>2, AppendProperties, LenProperties DEF d
        <4>4. \A i \in DOMAIN symdefs' :
                 \/ i \in DOMAIN symdefs /\ symdefs'[i] = symdefs[i]
                 \/ i = Len(symdefs) + 1 /\ symdefs'[i] = d
          BY <1>0, <4>3
        <4>5. \A i \in DOMAIN symdefs : Agree(symdefs[i])
          BY <2>5, <3>1 DEF SymbolsAreFixed, SymdefAgrees, SameValue, Agree
        <4>6. \A i, j \in DOMAIN symdefs' : symdefs'[i].name = symdefs'[j].name => i = j
          BY <3>1, <4>1, <4>4 DEF SymbolsAreFixed
        <4>7. \A i \in DOMAIN symdefs' : labels'[symdefs'[i].name].defined = pass + 1
          BY <2>1, <2>2, <2>5, <3>1, <4>1, <4>4 DEF SymbolsAreFixed
        <4>8. \A i \in DOMAIN symdefs' : Agree(symdefs'[i])
          BY <4>1, <4>4, <4>5
        <4> QED
          BY <1>0, <4>6, <4>7, <4>8 DEF SymbolsAreFixed, SymdefAgrees, Agree
      <3> QED
        BY <2>4, <3>2, <3>3
    <2> QED
      BY <2>6, <2>7
  <1> QED
    BY <1>2, <1>3, LineEffects

LEMMA SymbolsAreCurrentStep ==
    ASSUME TypeOK, InSection, PassNumbers, DeclarationsHold, BackendLabelsStay,
           SymbolsComeLate, SymbolsAreCurrent, SymbolsAreOfThisPass, Next
    PROVE  SymbolsAreCurrent' /\ SymbolsAreOfThisPass'
  <1> SUFFICES ASSUME LeavesBackendAlone, errors' = {}
               PROVE  SymbolsAreCurrent' /\ SymbolsAreOfThisPass'
    BY ProgramStays DEF SymbolsAreCurrent, SymbolsAreOfThisPass, LeavesBackendAlone
  <1>0. errors = {}
    BY ErrorsStay
  <1>1. CASE LoopStep
    <2>1. UNCHANGED <<program, labels, symdefs>>
      BY <1>1, LoopKeeps
    <2>2. \/ BeginPass
          \/ UNCHANGED <<pass, ptype, global_offset_changed>>
      BY <1>1 DEF LoopStep, EndPass, Finish
    <2>3. CASE BeginPass
      <3>1. ptype # "final" /\ (ptype' = "stab" => ~pass_stable(ptype))
        BY <2>3 DEF BeginPass, NextPassType, pass_final, pass_stable
      <3>2. ptype' = "stab" => DOMAIN symdefs = {}
        BY <3>1 DEF SymbolsComeLate
      <3> QED
        BY <1>0, <2>1, <3>1, <3>2
           DEF SymbolsAreCurrent, SymbolsAreOfThisPass, SymdefAgrees
    <2> QED
      BY <1>0, <2>1, <2>2, <2>3
         DEF SymbolsAreCurrent, SymbolsAreOfThisPass, SymdefAgrees
  <1>2. CASE LineStep /\ ptype = "stab"
    <2>1. SymbolsAreFixed
      BY <1>0, <1>2 DEF SymbolsAreCurrent, SymbolsAreOfThisPass, SymbolsAreFixed
    <2>2. SymbolsAreFixed' /\ pass' = pass
      BY <1>0, <1>2, <2>1, SymbolsAreFixedStep, LineIsRead DEF passVars
    <2> QED
      BY <2>2 DEF SymbolsAreCurrent, SymbolsAreOfThisPass, SymbolsAreFixed
  <1>3. CASE LineStep /\ ptype # "stab"
    <2>1. /\ symdefs' = symdefs /\ ptype' = ptype
          /\ symdefs \in Seq(Symdefs)
      BY <1>3, SymdefsOfLine, LineIsRead DEF passVars, TypeOK
    <2>2. CASE ptype # "final"
      <3>1. DOMAIN symdefs = {}
        BY <1>3, <2>2 DEF SymbolsComeLate, pass_stable
      <3> QED
        BY <1>3, <2>1, <3>1 DEF SymbolsAreCurrent, SymbolsAreOfThisPass
    <2>3. CASE ptype = "final" /\ global_offset_changed' = 0
      <3>1. global_offset_changed = 0
        BY <1>3, <2>3, ChangesGrow DEF TypeOK
      <3>2. \A i \in DOMAIN symdefs :
               LET l == symdefs[i].name
               IN  l \in Labels /\ SameValue(labels[l], labels'[l])
        <4>1. \A i \in DOMAIN symdefs : symdefs[i] \in Symdefs
          BY <2>1, ElementOfSeq, LenProperties
        <4>2. \A i \in DOMAIN symdefs : symdefs[i].name \in Labels
          BY <4>1 DEF Symdefs
        <4>3. \A l \in Labels : SameValue(labels[l], labels'[l])
          BY <1>3, <2>3, <3>1, QuietLine
        <4> QED
          BY <4>2, <4>3
      <3> QED
        BY <1>0, <2>1, <2>3, <3>1, <3>2
           DEF SymbolsAreCurrent, SymbolsAreOfThisPass, SymdefAgrees, SameValue
    <2>4. CASE ptype = "final" /\ global_offset_changed' # 0
      BY <1>0, <2>1, <2>4 DEF SymbolsAreCurrent, SymbolsAreOfThisPass
    <2> QED
      BY <2>2, <2>3, <2>4
  <1> QED
    BY <1>1, <1>2, <1>3, NextIsLineOrLoop

LEMMA SymbolInvInit == Init => SymbolInv
  <1> SUFFICES ASSUME Init PROVE SymbolInv
    OBVIOUS
  <1>1. DOMAIN symdefs = {} /\ symdefs = <<>>
    BY DEF Init
  <1>2. \A l \in Labels :
           labels[l] = IF l \in BackendLabels
                       THEN [FreshEntry EXCEPT !.type = "backend",
                                               !.segment = FirstFreeSegment,
                                               !.defined = 1]
                       ELSE FreshEntry
    BY DEF Init
  <1>3. DefinedHaveSegments /\ BackendLabelsStay
    BY <1>2, SegmentsAssumption
       DEF Init, DefinedHaveSegments, BackendLabelsStay, FreshEntry, Found, PSEUDO_SEG
  <1>4. PassNumbers /\ DeclarationsHold
    BY DEF Init, PassNumbers, DeclarationsHold, Passed
  <1> QED
    BY <1>1, <1>3, <1>4
       DEF SymbolInv, SymbolsComeLate, SymbolsAreCurrent, SymbolsAreOfThisPass

LEMMA SymbolInvStep ==
    ASSUME TypeOK, InSection, SymbolInv, [Next]_vars
    PROVE  SymbolInv'
  <1>1. CASE Next
    <2>1. PassNumbers' /\ DefinedHaveSegments' /\ DeclarationsHold' /\ BackendLabelsStay'
      BY <1>1, PassNumbersStep, DefinedHaveSegmentsStep, DeclarationsHoldStep,
         BackendLabelsStayStep DEF SymbolInv
    <2>2. SymbolsComeLate' /\ SymbolsAreCurrent' /\ SymbolsAreOfThisPass'
      BY <1>1, SymbolsComeLateStep, SymbolsAreCurrentStep DEF SymbolInv
    <2> QED
      BY <2>1, <2>2 DEF SymbolInv
  <1>2. CASE UNCHANGED vars
    BY <1>2 DEF vars, SymbolInv, PassNumbers, DefinedHaveSegments, DeclarationsHold,
       BackendLabelsStay, SymbolsComeLate, SymbolsAreCurrent, SymbolsAreOfThisPass,
       Passed, Absorbed, LeavesBackendAlone, SymdefAgrees
  <1> QED
    BY <1>1, <1>2

(* In every successful assembly of a program that leaves the names of the  *)
(* output format alone, each symbol was handed over once and with the value*)
(* its label has in the end: out_symdef runs one pass before the code is   *)
(* generated, and neither what the declarations do to a label nor what the *)
(* rest of the two passes does can make it stale.                          *)
THEOREM SymbolsAreRight == Spec => [](LeavesBackendAlone => SymdefsAgree)
  <1>1. Init => ReferenceInv /\ SymbolInv
    BY ReferenceInvInit, SymbolInvInit
  <1>2. ReferenceInv /\ SymbolInv /\ [Next]_vars => (ReferenceInv /\ SymbolInv)'
    BY ReferenceInvStep, SymbolInvStep DEF ReferenceInv
  <1>3. ReferenceInv /\ SymbolInv => (LeavesBackendAlone => SymdefsAgree)
    BY DEF ReferenceInv, SymbolInv, SuccessIsQuiet, PassNumbers, SymbolsAreCurrent,
       SymdefsAgree, Succeeded
  <1> QED
    BY <1>1, <1>2, <1>3, PTL DEF Spec
=============================================================================
