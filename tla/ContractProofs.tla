--------------------------- MODULE ContractProofs ---------------------------
(***************************************************************************)
(* That the output format gets a symbol for whatever the code refers to,   *)
(* although an EXTERN nobody refers to is dropped before the code exists,  *)
(* and that the assembler takes only steps its interface allows.           *)
(***************************************************************************)
EXTENDS LayoutProofs

-----------------------------------------------------------------------------
(* What a line may do to the marks of an entry.                            *)
LEMMA MarksOfLine ==
    ASSUME TypeOK, InSection, LineStep, NEW l \in Labels
    PROVE  /\ labels'[l].lastref \in {labels[l].lastref, pass + 1}
           /\ labels'[l].defined \in {0, labels[l].defined, pass + 1}
  <1> DEFINE s == program[line]
  <1>1. labels \in [Labels -> Entry] /\ pass \in Nat /\ next_seg \in Nat /\ s \in Statements
    BY LineIsRead DEF TypeOK
  <1>2. \A old \in Entry : \A new :
            LookedUpOnly(old, new) => /\ new.lastref \in {old.lastref, pass + 1}
                                      /\ new.defined = old.defined
    BY DEF LookedUpOnly, Referenced, Entry
  <1>3. CASE Looks(s)
    BY <1>1, <1>2, <1>3 DEF Looks
  <1>4. s.op = "declare" => /\ s.name \in Labels
                            /\ Declared(s).lastref = labels[s.name].lastref
                            /\ Declared(s).defined \in {0, labels[s.name].defined}
    BY <1>1, StatementTypes, DeclaredFacts DEF Declared
  <1>5. CASE Declares(s)
    BY <1>1, <1>4, <1>5 DEF Declares
  <1>6. ASSUME NEW table, NEW seg, NEW sent, DefinesFrom(s, table, seg, sent)
        PROVE  /\ labels'[l].lastref \in {labels[l].lastref, pass + 1}
               /\ labels'[l].defined \in {0, labels[l].defined, pass + 1}
    <2> DEFINE entry == table[s.name]
               new == DefinedEntry(s.name, entry, seg, sent, next_seg, pass)
               after == EntryAfterSymdef(entry, seg, new, pass, ptype)
    <2>1. /\ entry \in Entry /\ labels'[s.name] = after
          /\ \A k \in Labels \ {s.name} : LookedUpOnly(labels[k], labels'[k])
      BY <1>6, DefineEffects
    <2>2. after.defined = pass + 1 /\ after.lastref = entry.lastref
      BY <1>1, <1>6, <2>1, DefinedFacts DEF DefinesFrom
    <2>3. entry.lastref \in {labels[s.name].lastref, pass + 1}
      BY <1>1, <1>2, <1>4, <1>6 DEF DefinesFrom, Prepared
    <2> HIDE DEF entry, new, after
    <2> QED
      BY <1>1, <1>2, <2>1, <2>2, <2>3
  <1> QED
    BY <1>3, <1>5, <1>6, LineEffects

LEMMA DefinitionsArePastStep ==
    ASSUME TypeOK, InSection, DefinitionsArePast, Next
    PROVE  DefinitionsArePast'
  <1>1. pass \in Nat /\ labels \in [Labels -> Entry]
        /\ \A l \in Labels : labels[l].defined \in Nat
    BY DEF TypeOK, Entry
  <1>2. CASE LoopStep
    <2>1. labels' = labels /\ pass' \in {pass, pass + 1}
      BY <1>2 DEF LoopStep, BeginPass, EndPass, Finish
    <2> QED
      BY <1>1, <2>1 DEF DefinitionsArePast
  <1>3. CASE LineStep
    <2>1. pass' = pass
      BY <1>3, LineIsRead DEF passVars
    <2>2. \A l \in Labels : labels'[l].defined \in {0, labels[l].defined, pass + 1}
      BY <1>3, MarksOfLine
    <2> QED
      BY <1>1, <2>1, <2>2 DEF DefinitionsArePast
  <1> QED
    BY <1>2, <1>3, NextIsLineOrLoop

-----------------------------------------------------------------------------
(* Lookups.                                                                *)

(* In an optimization pass the line remembers the labels it mentions, but  *)
(* for those that are not defined yet.                                     *)
LEMMA LookupIsMade ==
    ASSUME TypeOK, InSection, LineStep, ptype = "opt", errors' = {},
           NEW s, s = program[line], Executes(s),
           NEW l \in Labels, s.op \in {"equ", "times", "jump", "refer"},
           l \in {s.arg.plus, s.arg.minus}, Found(labels[l])
    PROVE  labels'[l].lastref = pass + 1
  <1> DEFINE table == Evaluated(labels, s.arg, pass_final(ptype))
             times == Evaluated(labels, s.arg, pass_stable(ptype))
  <1>1. labels \in [Labels -> Entry] /\ pass \in Nat /\ next_seg \in Nat
        /\ s \in Statements /\ s.arg \in Expr /\ segment \in Int /\ Here \in Int
    BY LineIsRead, StatementTypes DEF TypeOK
  <1>2. table[l].lastref = pass + 1 /\ times[l].lastref = pass + 1
    BY <1>1 DEF Evaluated, LookedUp, Referenced, Entry, pass_final, pass_stable
  <1>3. ~pass_final(ptype)
    BY DEF pass_final
  <1>4. table \in [Labels -> Entry]
    BY <1>1, EvaluatedTable
  <1>6. CASE EquLine
    <2>1. s.op = "equ" /\ s.name \in Labels
      BY <1>1, <1>6, StatementTypes DEF EquLine, Line
    <2>2. \/ labels' = table
          \/ Define(table, s.name, ValueSegment(labels, s.arg, segment),
                    Value(labels, s.arg, Here))
      BY <1>3, <1>6 DEF EquLine, ParseFails
    <2>3. ASSUME NEW seg \in Int, NEW sent \in Int, Define(table, s.name, seg, sent)
          PROVE  labels'[l].lastref = pass + 1
      <3> DEFINE entry == table[s.name]
                 new == DefinedEntry(s.name, entry, seg, sent, next_seg, pass)
                 after == EntryAfterSymdef(entry, seg, new, pass, ptype)
      <3>1. entry \in Entry
        BY <1>4, <2>1
      <3>2. labels' = [table EXCEPT ![s.name] = after]
        BY <2>3 DEF Define
      <3> HIDE DEF table, entry
      <3>3. after.lastref = entry.lastref
        BY <1>1, <3>1, DefinedFacts
      <3> HIDE DEF after
      <3> QED
        BY <1>2, <1>4, <2>1, <3>2, <3>3 DEF entry
    <2> QED
      BY <1>1, <1>2, <2>2, <2>3, ValueTypes
  <1>7. CASE TimesLine
    <2>1. labels' = times
      BY <1>7 DEF TimesLine, ParseFails
    <2> QED
      BY <1>2, <2>1
  <1>8. CASE JumpLine
    <2>1. labels' = table
      BY <1>8 DEF JumpLine, ParseFails
    <2> QED
      BY <1>2, <2>1
  <1>9. CASE ReferLine
    <2>1. labels' = table
      BY <1>9 DEF ReferLine, ParseFails
    <2> QED
      BY <1>2, <2>1
  <1> QED
    BY <1>6, <1>7, <1>8, <1>9 DEF LineStep, SkippedLine, LabelLine, DataLine, DeclareLine,
       SectionLine, Line

LEMMA LookupsLine ==
    ASSUME GoesWell, LineStep, errors' = {}, TypeOK', StaysSettled, StaysSettled',
           LookupsAreRemembered
    PROVE  LookupsAreRemembered'
  <1>1. /\ program' = program /\ ptype' = ptype /\ pass' = pass /\ line' = line + 1
        /\ line \in DOMAIN program /\ DOMAIN program = 1 .. Len(program)
        /\ Len(program) \in Nat /\ pass \in Nat /\ global_offset_changed \in Nat
        /\ labels \in [Labels -> Entry] /\ labels' \in [Labels -> Entry]
        /\ TypeOK /\ InSection
    BY LineIsRead, LineOfProgram, LenProperties, ProgramsAssumption
       DEF GoesWell, TypeOK, passVars
  <1>2. \/ global_offset_changed' = global_offset_changed
        \/ ptype # "stab" /\ global_offset_changed' # 0
    <2>1. ptype = "stab" => global_offset_changed' = 0 /\ global_offset_changed = 0
      BY <1>1 DEF StaysSettled, pass_stable
    <2> QED
      BY <1>1, <2>1, ChangesGrow
  <1>3. CASE ptype # "stab" /\ global_offset_changed' # 0
    BY <1>1, <1>3 DEF LookupsAreRemembered
  <1>4. CASE global_offset_changed' = global_offset_changed
    <2> SUFFICES ASSUME NEW n \in DOMAIN program, NEW l \in Labels,
                        MentionedBy(n, l), Found(labels'[l])
                 PROVE  /\ (/\ ptype = "opt" /\ global_offset_changed = 0
                            /\ n <= line) => labels'[l].lastref > pass
                        /\ ptype = "stab" => labels'[l].lastref >= pass
      BY <1>1, <1>4 DEF LookupsAreRemembered, MentionedBy
    <2>1. Found(labels[l])
      BY <1>4, QuietTables DEF SameForLayout
    <2>2. labels'[l].lastref \in {labels[l].lastref, pass + 1} /\ labels[l].lastref \in Nat
      BY <1>1, MarksOfLine DEF Entry
    <2>3. ptype = "stab" => labels'[l].lastref >= pass
      BY <1>1, <2>1, <2>2 DEF LookupsAreRemembered
    <2>4. CASE ptype = "opt" /\ global_offset_changed = 0 /\ n < line
      BY <1>1, <2>1, <2>2, <2>4 DEF LookupsAreRemembered
    <2>5. CASE ptype = "opt" /\ n = line
      <3>1. Executes(program[line])
        BY <1>1, AllLinesCount
      <3>2. \A s : /\ s = program[line] /\ s.op \in {"equ", "times", "jump", "refer"}
                   /\ l \in {s.arg.plus, s.arg.minus}
                   => labels'[l].lastref = pass + 1
        BY <1>1, <2>1, <2>5, <3>1, LookupIsMade
      <3>3. labels'[l].lastref = pass + 1
        BY <2>5, <3>2 DEF MentionedBy
      <3> QED
        BY <1>1, <2>5, <3>3
    <2> QED
      BY <1>1, <2>3, <2>4, <2>5
  <1> QED
    BY <1>2, <1>3, <1>4

LEMMA LookupsLoop ==
    ASSUME TypeOK, InSection, LookupsAreRemembered, LoopStep
    PROVE  LookupsAreRemembered'
  <1>1. /\ program' = program /\ labels' = labels /\ pass \in Nat /\ line \in Nat
        /\ DOMAIN program = 1 .. Len(program) /\ Len(program) \in Nat
        /\ \A l \in Labels : labels[l].lastref \in Nat
    BY LoopKeeps, LenProperties, ProgramsAssumption DEF TypeOK, Entry
  <1>2. CASE BeginPass
    <2>1. /\ line = 0 /\ line' = 1 /\ pass' = pass + 1
          /\ ptype' = "stab" => ptype = "opt" /\ global_offset_changed = 0
      BY <1>2 DEF BeginPass, NextPassType, pass_final, TypeOK, PassTypes
    <2> QED
      BY <1>1, <2>1 DEF LookupsAreRemembered, MentionedBy
  <1>3. CASE EndPass
    BY <1>1, <1>3 DEF EndPass, LookupsAreRemembered, MentionedBy
  <1>4. CASE Finish
    BY <1>1, <1>4 DEF Finish, LookupsAreRemembered, MentionedBy
  <1> QED
    BY <1>2, <1>3, <1>4 DEF LoopStep

-----------------------------------------------------------------------------
(* Definitions.                                                            *)

LEMMA DefinerStays ==
    ASSUME NEW n, NEW l, program' = program, labels'[l].type = labels[l].type,
           Definer(n, l)
    PROVE  Definer(n, l)'
  BY DEF Definer

(* Before the stabilization pass the line that defined a label defines it  *)
(* again, and a declaration that takes its place defines it, or makes it   *)
(* undefined.                                                              *)
LEMMA DefinersBeforeStable ==
    ASSUME TypeOK, InSection, LineStep, errors' = {}, ~pass_stable(ptype),
           NEW l \in Labels, Found(labels'[l]),
           Found(labels[l]) => \E n \in DOMAIN program : Definer(n, l)
    PROVE  \E n \in DOMAIN program : Definer(n, l)'
  <1> DEFINE s == program[line]
  <1>1. /\ labels \in [Labels -> Entry] /\ pass \in Nat /\ next_seg \in Nat
        /\ s \in Statements /\ line \in DOMAIN program /\ program' = program
    BY LineIsRead, LineOfProgram DEF TypeOK, passVars
  <1>2. ASSUME LookedUpOnly(labels[l], labels'[l])
        PROVE  \E n \in DOMAIN program : Definer(n, l)'
    <2>1. labels'[l].type = labels[l].type /\ Found(labels[l])
      BY <1>1, <1>2, LookupFacts DEF Found
    <2> QED
      BY <1>1, <2>1, DefinerStays
  <1>3. CASE Looks(s)
    BY <1>2, <1>3 DEF Looks
  <1>4. CASE Declares(s)
    <2> DEFINE old == labels[s.name]
               was == TypeBeforeDeclare(old, s.type, ptype)
    <2>1. /\ s.op = "declare" /\ s.name \in Labels /\ s.type \in DeclaredTypes
          /\ labels' = [labels EXCEPT ![s.name] = Declared(s)] /\ old \in Entry
          /\ ~DeclareError(old, s.type, ptype)
          /\ ~(/\ DeclareAccepted(old, s.type, ptype)
               /\ s.type \in {"common", "extern", "required"})
      BY <1>1, <1>4, StatementTypes DEF Declares
    <2>2. CASE l # s.name
      BY <1>2, <2>1, <2>2 DEF TypeOK, LookedUpOnly
    <2>3. CASE l = s.name
      <3>1. labels'[l] = Declared(s)
        BY <1>1, <2>1, <2>3
      <3>2. /\ Declared(s).defined = IF Overrides(was, s.type) /\ ~Agrees(was, s.type)
                                     THEN 0 ELSE old.defined
            /\ Declared(s).type = IF DeclareAccepted(old, s.type, ptype) THEN s.type
                                  ELSE was
        BY <2>1, DeclaredFacts DEF Declared
      <3>3. Found(old) /\ (Overrides(was, s.type) => Agrees(was, s.type))
        BY <2>3, <3>1, <3>2 DEF Found
      <3>4. PICK n \in DOMAIN program : Definer(n, l)
        BY <2>3, <3>3
      <3>5. old.type \in {"common", "extern", "required"} => Declared(s).type = old.type
        <4>1. old.type \in {"common", "extern", "required"} => was = old.type
          BY DEF TypeBeforeDeclare
        <4> HIDE DEF was, old
        <4> QED
          BY <2>1, <3>2, <3>3, <4>1 DEF DeclareAccepted, Agrees, was
      <3>6. CASE program[n].op = "declare"
        <4>1. old.type \in {"common", "extern", "required"}
          BY <2>3, <3>4, <3>6 DEF Definer
        <4> QED
          BY <1>1, <2>3, <3>1, <3>4, <3>5, <4>1, DefinerStays
      <3>7. CASE program[n].op # "declare"
        BY <1>1, <3>4, <3>7 DEF Definer
      <3> QED
        BY <3>6, <3>7
    <2> QED
      BY <2>2, <2>3
  <1>5. ASSUME NEW table, NEW seg, NEW sent, DefinesFrom(s, table, seg, sent)
        PROVE  \E n \in DOMAIN program : Definer(n, l)'
    <2> DEFINE entry == table[s.name]
               new == DefinedEntry(s.name, entry, seg, sent, next_seg, pass)
               after == EntryAfterSymdef(entry, seg, new, pass, ptype)
    <2>1. /\ entry \in Entry /\ labels'[s.name] = after /\ s.name \in Labels
          /\ \A k \in Labels \ {s.name} : LookedUpOnly(labels[k], labels'[k])
          /\ s.op \in {"label", "equ", "declare"}
      BY <1>5, DefineEffects DEF DefinesFrom
    <2>2. CASE l # s.name
      BY <1>2, <2>1, <2>2
    <2>3. CASE l = s.name /\ s.op # "declare"
      BY <1>1, <2>1, <2>3 DEF Definer
    <2>4. CASE l = s.name /\ s.op = "declare"
      <3>1. /\ DeclareAccepted(labels[s.name], s.type, ptype) /\ entry = Declared(s)
            /\ s.type \in {"common", "extern", "required"} /\ seg = PSEUDO_SEG
            /\ s.type \in DeclaredTypes
        BY <1>1, <1>5, <2>4, StatementTypes DEF DefinesFrom, Prepared, GivenBy
      <3>2. entry.type = s.type
        BY <1>1, <2>1, <3>1, DeclaredFacts DEF Declared
      <3>3. /\ new.type = DefinedType(s.name, entry, seg)
            /\ after.type = IF HandedOver(entry, seg, new, pass, ptype) /\ new.type = "extern"
                            THEN "required" ELSE new.type
        BY <1>1, <1>5, <2>1, DefinedFacts DEF DefinesFrom
      <3> HIDE DEF entry, new, after
      <3>4. after.type = s.type
        BY <3>1, <3>2, <3>3 DEF DefinedType, Promoted, HandedOver, pass_stable
      <3>5. labels'[l].type = s.type
        BY <2>1, <2>4, <3>4
      <3> QED
        BY <1>1, <2>4, <3>1, <3>5 DEF Definer
    <2> QED
      BY <2>1, <2>2, <2>3, <2>4
  <1> QED
    BY <1>3, <1>4, <1>5, LineEffects

(* In the stabilization pass a definition still to come is not missed.     *)
LEMMA DefinersInStab ==
    ASSUME GoesWell, LineStep, errors' = {}, ptype = "stab", NEW l \in Labels,
           \/ labels[l].defined = pass + 1
           \/ \E n \in DOMAIN program : n >= line /\ Definer(n, l)
    PROVE  \/ labels'[l].defined = pass + 1
           \/ \E n \in DOMAIN program : n >= line + 1 /\ Definer(n, l)'
  <1> DEFINE s == program[line]
  <1>1. /\ labels \in [Labels -> Entry] /\ pass \in Nat /\ next_seg \in Nat
        /\ TypeOK /\ InSection /\ PassNumbers /\ DeclarationsHold /\ pass > 1 /\ errors = {}
        /\ line \in DOMAIN program /\ program' = program
        /\ DOMAIN program = 1 .. Len(program) /\ Len(program) \in Nat
    BY LineIsRead, LineOfProgram, LenProperties, ProgramsAssumption
       DEF GoesWell, TypeOK, passVars
  <1>2. s \in Statements /\ Prepares(s) /\ Executes(s) /\ Absorbed(s)
    BY <1>1, AllLinesCount
  <1>3. ASSUME LookedUpOnly(labels[l], labels'[l]), ~Definer(line, l)
        PROVE  \/ labels'[l].defined = pass + 1
               \/ \E n \in DOMAIN program : n >= line + 1 /\ Definer(n, l)'
    <2>1. labels'[l].type = labels[l].type /\ labels'[l].defined = labels[l].defined
      BY <1>1, <1>3, LookupFacts
    <2>2. \A n \in DOMAIN program : n >= line /\ Definer(n, l) => n >= line + 1
      BY <1>1, <1>3
    <2> QED
      BY <1>1, <2>1, <2>2, DefinerStays
  <1>4. CASE Looks(s)
    <2>1. s.op \notin {"label", "equ", "declare"}
      BY <1>2, <1>4 DEF Looks, pass_final
    <2>2. ~Definer(line, l)
      BY <2>1 DEF Definer
    <2> QED
      BY <1>3, <1>4, <2>2 DEF Looks
  <1>5. CASE Declares(s)
    <2>1. \A x : x = s => LookedUpOnly(labels[l], labels'[l])
      BY <1>1, <1>2, <1>5, StableOther
    <2>2. /\ s.op = "declare" /\ ~DeclareError(labels[s.name], s.type, ptype)
          /\ ~(/\ DeclareAccepted(labels[s.name], s.type, ptype)
               /\ s.type \in {"common", "extern", "required"})
      BY <1>5 DEF Declares
    <2>3. DeclareAccepted(labels[s.name], s.type, ptype) <=> labels[s.name].type = s.type
      BY <1>1, <1>2, <2>2, DeclaredAgain
    <2>4. ~Definer(line, l)
      BY <2>2, <2>3 DEF Definer
    <2> QED
      BY <1>3, <2>1, <2>4
  <1>6. ASSUME NEW table, NEW seg, NEW sent, DefinesFrom(s, table, seg, sent)
        PROVE  \/ labels'[l].defined = pass + 1
               \/ \E n \in DOMAIN program : n >= line + 1 /\ Definer(n, l)'
    <2> DEFINE entry == table[s.name]
               new == DefinedEntry(s.name, entry, seg, sent, next_seg, pass)
               after == EntryAfterSymdef(entry, seg, new, pass, ptype)
    <2>1. /\ entry \in Entry /\ labels'[s.name] = after
          /\ \A k \in Labels \ {s.name} : LookedUpOnly(labels[k], labels'[k])
      BY <1>1, <1>6, DefineEffects
    <2>2. after.defined = pass + 1
      BY <1>1, <1>6, <2>1, DefinedFacts DEF DefinesFrom
    <2>3. CASE l = s.name
      BY <2>1, <2>2, <2>3
    <2>4. CASE l # s.name
      BY <1>3, <2>1, <2>4 DEF Definer
    <2> QED
      BY <2>3, <2>4
  <1> QED
    BY <1>1, <1>4, <1>5, <1>6, LineEffects

-----------------------------------------------------------------------------
(* Symbols.                                                                *)

LEMMA SymdefsGrow ==
    ASSUME TypeOK, InSection, LineStep, NEW i \in DOMAIN symdefs
    PROVE  i \in DOMAIN symdefs' /\ symdefs'[i] = symdefs[i]
  <1> DEFINE s == program[line]
  <1>1. CASE symdefs' = symdefs
    BY <1>1
  <1>2. ASSUME NEW d \in Symdefs, symdefs' = Append(symdefs, d)
        PROVE  i \in DOMAIN symdefs' /\ symdefs'[i] = symdefs[i]
    <2>1. symdefs \in Seq(Symdefs) /\ Len(symdefs) \in Nat
          /\ DOMAIN symdefs = 1 .. Len(symdefs)
      BY LenProperties DEF TypeOK
    <2> QED
      BY <1>2, <2>1, AppendProperties, LenProperties
  <1>3. CASE Looks(s) \/ Declares(s)
    BY <1>1, <1>3 DEF Looks, Declares
  <1>4. ASSUME NEW table, NEW seg, NEW sent, DefinesFrom(s, table, seg, sent)
        PROVE  i \in DOMAIN symdefs' /\ symdefs'[i] = symdefs[i]
    <2> DEFINE new == DefinedEntry(s.name, table[s.name], seg, sent, next_seg, pass)
    <2>1. new \in Entry /\ s.name \in Labels
      BY <1>4, DefineEffects DEF DefinesFrom
    <2>2. symdefs' = symdefs \/ symdefs' = Append(symdefs, Symdef(s.name, new))
      BY <1>4, SymdefsAfterDefine
    <2> HIDE DEF new
    <2> QED
      BY <1>1, <1>2, <2>1, <2>2, SymdefTypes
  <1> QED
    BY <1>3, <1>4, LineEffects

LEMMA HandedStays ==
    ASSUME TypeOK, InSection, LineStep, NEW l, Handed(l)
    PROVE  Handed(l)'
  BY SymdefsGrow DEF Handed

(* What the stabilization pass defines is handed over, if some line has    *)
(* referred to it in this pass or the one before (out_symdef).             *)
LEMMA HandedOnce ==
    ASSUME GoesWell, LineStep, errors' = {}, ptype = "stab", NEW l \in Labels,
           labels[l].lastref >= pass, labels[l].defined = pass + 1 => Handed(l),
           labels'[l].defined = pass + 1
    PROVE  Handed(l)'
  <1> DEFINE s == program[line]
  <1>1. /\ labels \in [Labels -> Entry] /\ pass \in Nat /\ next_seg \in Nat
        /\ TypeOK /\ InSection /\ PassNumbers /\ DeclarationsHold /\ pass > 1 /\ errors = {}
        /\ line \in DOMAIN program /\ labels[l].lastref \in Nat
    BY LineOfProgram DEF GoesWell, TypeOK, Entry
  <1>2. s \in Statements /\ Prepares(s)
    BY <1>1, AllLinesCount
  <1>3. CASE labels[l].defined = pass + 1
    BY <1>1, <1>3, HandedStays
  <1>4. CASE labels[l].defined # pass + 1
    <2>1. ~LookedUpOnly(labels[l], labels'[l])
      BY <1>1, <1>4, LookupFacts
    <2>2. ~Looks(s) /\ ~Declares(s)
      <3>1. \A x : x = s => ~Looks(x) /\ ~Declares(x)
        BY <1>1, <1>2, <2>1, StableOther
      <3> QED
        BY <3>1
    <2>3. PICK table, seg, sent : DefinesFrom(s, table, seg, sent)
      BY <1>1, <2>2, LineEffects
    <2> DEFINE entry == table[s.name]
               new == DefinedEntry(s.name, entry, seg, sent, next_seg, pass)
    <2>4. /\ entry \in Entry /\ new \in Entry
          /\ \A k \in Labels \ {s.name} : LookedUpOnly(labels[k], labels'[k])
      BY <1>1, <2>3, DefineEffects
    <2>5. l = s.name
      BY <2>1, <2>4
    <2>6. entry.defined = labels[l].defined /\ ~Promoted(entry, seg)
          /\ (s.op = "declare" => entry = labels[l])
      BY <1>1, <1>2, <2>3, <2>5, StableDefine
    <2>7. new.lastref = entry.lastref
      BY DEF DefinedEntry
    <2>8. entry.lastref >= pass
      <3>1. CASE s.op = "declare"
        BY <2>6, <3>1
      <3>2. CASE s.op \in {"label", "equ"}
        <4>1. LookedUpOnly(labels[l], entry)
          BY <2>3, <2>5, <3>2 DEF DefinesFrom, Prepared
        <4> QED
          BY <1>1, <4>1 DEF LookedUpOnly, Referenced, Entry
      <3> QED
        BY <2>3, <3>1, <3>2 DEF DefinesFrom
    <2>9. symdefs' = IF HandedOver(entry, seg, new, pass, ptype)
                     THEN Append(symdefs, Symdef(s.name, new)) ELSE symdefs
      BY <2>3, SymdefsAfterDefine
    <2> HIDE DEF entry, new
    <2>10. HandedOver(entry, seg, new, pass, ptype)
      BY <1>1, <1>4, <2>4, <2>6, <2>7, <2>8 DEF HandedOver, Redefined, LastDef, pass_final, Entry
    <2>11. Symdef(s.name, new) \in Symdefs /\ Symdef(s.name, new).name = l
      BY <2>4, <2>5, SymdefTypes DEF Symdef
    <2>12. symdefs \in Seq(Symdefs) /\ Len(symdefs) \in Nat
      BY <1>1, LenProperties DEF TypeOK
    <2> DEFINE d == Symdef(s.name, new)
    <2> HIDE DEF d
    <2>13. Len(symdefs) + 1 \in DOMAIN symdefs' /\ symdefs'[Len(symdefs) + 1] = d
      BY <2>9, <2>10, <2>11, <2>12, AppendProperties, LenProperties DEF d
    <2> QED
      BY <2>11, <2>13 DEF Handed, d
  <1> QED
    BY <1>3, <1>4

-----------------------------------------------------------------------------
(* Code.                                                                   *)

(* What the line may add to the code refers to nothing, or to what the     *)
(* expression of the line refers to.                                       *)
Refers(c) ==
    /\ c \in Code
    /\ \/ c.vsegment = NO_SEG
       \/ /\ program[line].op \in {"jump", "refer"}
          /\ c.vsegment = ValueSegment(labels, program[line].arg, segment)

CodeRefers == image' = image \/ \E c : Refers(c) /\ image' = Append(image, c)

LEMMA EmitRefers ==
    ASSUME TypeOK, InSection, ReadLine,
           NEW kind \in CodeKinds, NEW len \in Int, NEW value \in Int,
           NEW vsegment \in Int, Emit(kind, len, value, vsegment),
           \/ vsegment = NO_SEG
           \/ /\ program[line].op \in {"jump", "refer"}
              /\ vsegment = ValueSegment(labels, program[line].arg, segment)
    PROVE  CodeRefers
  <1> DEFINE c == [line |-> line, segment |-> segment, at |-> Here,
                   len |-> len, kind |-> kind, value |-> value,
                   vsegment |-> vsegment]
  <1>1. line \in Nat \ {0} /\ segment \in Sections /\ Here \in Int
    BY ReadLineTypes DEF TypeOK
  <1>2. c \in Code /\ c.vsegment = vsegment
    BY <1>1 DEF Code
  <1>3. image' = image \/ image' = Append(image, c)
    BY DEF Emit
  <1> HIDE DEF c
  <1> QED
    BY <1>2, <1>3 DEF CodeRefers, Refers

LEMMA LineRefers ==
    ASSUME TypeOK, InSection, LineStep
    PROVE  CodeRefers
  <1> DEFINE s == program[line]
             value == Value(labels, s.arg, Here)
             vsegment == ValueSegment(labels, s.arg, segment)
  <1>1. /\ ReadLine /\ s \in Statements /\ segment \in Int /\ Here \in Int
        /\ labels \in [Labels -> Entry]
    BY LineIsRead DEF TypeOK
  <1>2. ASSUME image' = image PROVE CodeRefers
    BY <1>2 DEF CodeRefers
  <1>3. CASE SkippedLine \/ LabelLine \/ EquLine \/ DeclareLine \/ SectionLine
    BY <1>2, <1>3 DEF SkippedLine, LabelLine, EquLine, DeclareLine, SectionLine, ParseFails
  <1>4. CASE DataLine
    <2>1. Emit("data", s.len, 0, NO_SEG) /\ s.len \in Nat
      BY <1>1, <1>4, StatementTypes DEF DataLine, Line
    <2> QED
      BY <1>1, <2>1, EmitRefers DEF CodeKinds, NO_SEG
  <1>5. CASE TimesLine
    <2> DEFINE times == IF IsSimple(labels, s.arg, segment) THEN value ELSE 1
               len == IF times > 0 THEN times * s.len ELSE 0
    <2>1. s.len \in Nat /\ s.arg \in Expr
      BY <1>1, <1>5, StatementTypes DEF TimesLine, Line
    <2>2. value \in Int
      BY <1>1, <2>1, ValueTypes
    <2>3. len \in Int
      <3> HIDE DEF value
      <3> QED
        BY <2>1, <2>2
    <2>4. image' = image \/ Emit("data", len, 0, NO_SEG)
      BY <1>5 DEF TimesLine, ParseFails
    <2> HIDE DEF len
    <2> QED
      BY <1>1, <1>2, <2>3, <2>4, EmitRefers DEF CodeKinds, NO_SEG
  <1>6. CASE JumpLine
    <2> DEFINE short == JumpIsShort(labels, s.arg, segment, Here)
               len == JumpLen(short)
               kind == IF short THEN "short" ELSE "near"
    <2>1. s.arg \in Expr /\ s.op = "jump"
      BY <1>1, <1>6, StatementTypes DEF JumpLine, Line
    <2>2. value \in Int /\ vsegment \in Int
      BY <1>1, <2>1, ValueTypes
    <2>3. len \in Int /\ kind \in CodeKinds
      BY SizesAssumption DEF JumpLen, CodeKinds
    <2>4. image' = image \/ Emit(kind, len, value, vsegment)
      BY <1>6 DEF JumpLine, ParseFails
    <2> HIDE DEF len, kind, value
    <2> QED
      BY <1>1, <1>2, <2>1, <2>2, <2>3, <2>4, EmitRefers
  <1>7. CASE ReferLine
    <2>1. s.arg \in Expr /\ s.op = "refer"
      BY <1>1, <1>7, StatementTypes DEF ReferLine, Line
    <2>2. value \in Int /\ vsegment \in Int
      BY <1>1, <2>1, ValueTypes
    <2>3. ReferLen \in Int /\ "refer" \in CodeKinds
      BY SizesAssumption DEF CodeKinds
    <2>4. image' = image \/ Emit("refer", ReferLen, value, vsegment)
      BY <1>7 DEF ReferLine, ParseFails
    <2> HIDE DEF value
    <2> QED
      BY <1>1, <1>2, <2>1, <2>2, <2>3, <2>4, EmitRefers
  <1> QED
    BY <1>3, <1>4, <1>5, <1>6, <1>7 DEF LineStep

(* The symbol of what a line of the final pass refers to has been handed   *)
(* over, with the segment the table gives it.                              *)
LEMMA ReferenceIsHanded ==
    ASSUME GoesWell, LineStep, ptype = "final", global_offset_changed = 0,
           BackendLabelsStay, LeavesBackendAlone, SymbolsAreCurrent, MentionedAreHanded,
           program[line].op \in {"jump", "refer"}
    PROVE  LET v == ValueSegment(labels, program[line].arg, segment)
           IN  v \in OwnSegments \/ \E j \in DOMAIN symdefs : symdefs[j].segment = v
  <1> DEFINE s == program[line]
             e == s.arg
             v == ValueSegment(labels, e, segment)
             t == e.plus
  <1>1. /\ e \in Expr /\ segment \in Sections /\ line \in DOMAIN program
        /\ e.plus \in Labels \cup {HERE, NONE}
    BY LineIsRead, LineOfProgram, StatementTypes DEF GoesWell, Expr, Terms
  <1>2. v \in OwnSegments \/ (t \in Labels /\ Found(labels[t]) /\ v = labels[t].segment)
    BY <1>1, ProgramsAssumption DEF ValueSegment, TermSegment, Known, OwnSegments
  <1>3. CASE t \in Labels /\ Found(labels[t]) /\ v = labels[t].segment
    <2>1. CASE t \in BackendLabels
      BY <1>3, <2>1 DEF BackendLabelsStay, OwnSegments
    <2>2. CASE t \notin BackendLabels
      <3>1. Mentioned(t)
        BY <1>1 DEF Mentioned, MentionedBy
      <3>2. PICK j \in DOMAIN symdefs : symdefs[j].name = t
        BY <1>3, <2>2, <3>1 DEF MentionedAreHanded, OwnLabels, Handed
      <3>3. SymdefAgrees(symdefs[j])
        BY <3>2 DEF SymbolsAreCurrent, GoesWell
      <3>4. symdefs[j].segment = labels[t].segment
        BY <3>2, <3>3 DEF SymdefAgrees
      <3> QED
        BY <1>3, <3>4
    <2> QED
      BY <2>1, <2>2
  <1> QED
    BY <1>2, <1>3

LEMMA CodeIsResolvedLine ==
    ASSUME GoesWell, LineStep, TypeOK', ptype = "final" => global_offset_changed = 0,
           NothingBeforeFinal, NothingBeforeFinal',
           BackendLabelsStay, LeavesBackendAlone, SymbolsAreCurrent, MentionedAreHanded,
           CodeIsResolved
    PROVE  CodeIsResolved'
  <1>1. /\ TypeOK /\ InSection /\ ptype' = ptype
    BY LineIsRead DEF GoesWell, passVars
  <1>2. \A v : HasSymbol(v) => HasSymbol(v)'
    <2>1. ASSUME NEW i \in DOMAIN symdefs
          PROVE  i \in DOMAIN symdefs' /\ symdefs'[i] = symdefs[i]
      BY <1>1, SymdefsGrow
    <2> QED
      BY <2>1 DEF OwnSegments, HasSymbol
  <1>3. CASE image' = image
    BY <1>2, <1>3 DEF CodeIsResolved
  <1>4. ASSUME NEW c, Refers(c), image' = Append(image, c)
        PROVE  CodeIsResolved'
    <2>1. image \in Seq(Code) /\ Len(image) \in Nat /\ DOMAIN image = 1 .. Len(image)
      BY <1>1, LenProperties DEF TypeOK
    <2>2. c \in Code
      BY <1>4 DEF Refers
    <2>3. /\ DOMAIN image' = 1 .. Len(image) + 1
          /\ \A i \in DOMAIN image : image'[i] = image[i]
          /\ image'[Len(image) + 1] = c
      BY <1>4, <2>1, <2>2, AppendProperties, LenProperties
    <2>4. ptype = "final"
      <3>1. image' # <<>>
        BY <1>4, <2>1, <2>2, AppendProperties, EmptySeq
      <3> QED
        BY <1>1, <3>1 DEF NothingBeforeFinal
    <2>5. HasSymbol(c.vsegment)
      <3>1. CASE c.vsegment = NO_SEG
        BY <3>1 DEF OwnSegments, HasSymbol
      <3>2. CASE /\ program[line].op \in {"jump", "refer"}
                 /\ c.vsegment = ValueSegment(labels, program[line].arg, segment)
        BY <2>4, <3>2, ReferenceIsHanded DEF HasSymbol
      <3> QED
        BY <1>4, <3>1, <3>2 DEF Refers
    <2>6. \A i \in DOMAIN image' : image'[i] = c \/ (i \in DOMAIN image /\ image'[i] = image[i])
      BY <2>1, <2>3
    <2>7. \A i \in DOMAIN image' : HasSymbol(image'[i].vsegment)
      BY <2>5, <2>6 DEF CodeIsResolved
    <2>8. \A i \in DOMAIN image' : \E v : v = image'[i].vsegment /\ HasSymbol(v)'
      BY <1>2, <2>7
    <2> QED
      BY <2>8 DEF CodeIsResolved, HasSymbol
  <1> QED
    BY <1>1, <1>3, <1>4, LineRefers DEF CodeRefers

LEMMA CodeIsSeparateStep ==
    ASSUME TypeOK, TypeOK', InSection, NothingBeforeFinal, NothingBeforeFinal',
           CodeIsSeparate, Next
    PROVE  CodeIsSeparate'
  <1>1. /\ image \in Seq(Code) /\ Len(image) \in Nat /\ DOMAIN image = 1 .. Len(image)
        /\ offsets \in [Sections -> Int]
    BY LenProperties DEF TypeOK
  <1>2. \A i \in DOMAIN image : /\ image[i].segment \in Sections
                                /\ image[i].at \in Int /\ image[i].len \in Int
    <2>1. \A i \in DOMAIN image : image[i] \in Code
      BY <1>1, ElementOfSeq
    <2> QED
      BY <2>1 DEF Code
  <1>3. ASSUME ptype' # "final" PROVE CodeIsSeparate'
    <2>1. DOMAIN image' = {}
      BY <1>3 DEF NothingBeforeFinal
    <2> QED
      BY <1>3, <2>1 DEF CodeIsSeparate
  <1>4. CASE LoopStep
    <2>1. image' = image /\ (ptype' = "final" /\ line' # 0 => ptype # "final")
      BY <1>4 DEF LoopStep, BeginPass, EndPass, Finish, pass_final
    <2>2. CASE ptype # "final"
      <3>1. DOMAIN image' = {}
        BY <2>1, <2>2 DEF NothingBeforeFinal
      <3> QED
        BY <3>1 DEF CodeIsSeparate
    <2>3. CASE ~(ptype' = "final" /\ line' # 0)
      BY <2>1, <2>3 DEF CodeIsSeparate
    <2> QED
      BY <2>1, <2>2, <2>3
  <1>5. CASE LineStep /\ ptype = "final"
    <2>1. /\ ptype' = "final" /\ line' # 0 /\ line # 0 /\ segment \in Sections
          /\ Here \in Int /\ CodeFollows
      BY <1>5, LineIsRead, LineGenerates DEF passVars
    <2>2. CASE image' = image /\ offsets' = offsets
      BY <1>5, <2>1, <2>2 DEF CodeIsSeparate
    <2>3. ASSUME NEW c, Piece(c) PROVE CodeIsSeparate'
      <3>1. /\ c \in Code /\ image' = Append(image, c) /\ c.segment = segment
            /\ c.at = offsets[segment] /\ 0 < c.len
            /\ offsets' = [offsets EXCEPT ![segment] = @ + c.len]
        BY <2>3 DEF Piece, Here, Advance
      <3>2. c.at \in Int /\ c.len \in Int
        BY <3>1 DEF Code
      <3>3. /\ DOMAIN image' = 1 .. Len(image) + 1
            /\ \A i \in DOMAIN image : image'[i] = image[i]
            /\ image'[Len(image) + 1] = c
        BY <1>1, <3>1, AppendProperties, LenProperties
      <3>4. \A i \in DOMAIN image' : \/ i \in DOMAIN image /\ image'[i] = image[i]
                                     \/ i = Len(image) + 1 /\ image'[i] = c
        BY <1>1, <3>3
      <3>5. \A i \in DOMAIN image :
               /\ image[i].at + image[i].len <= offsets[image[i].segment]
               /\ image[i].at + image[i].len \in Int
        BY <1>2, <1>5, <2>1 DEF CodeIsSeparate
      <3>6. \A x \in Sections : offsets[x] <= offsets'[x] /\ offsets'[x] \in Int
                                /\ offsets[x] \in Int
        BY <1>1, <2>1, <3>1, <3>2
      <3>7. offsets'[c.segment] = c.at + c.len
        BY <1>1, <2>1, <3>1
      <3>8. \A i \in DOMAIN image' :
               image'[i].at + image'[i].len <= offsets'[image'[i].segment]
        <4>1. \A i \in DOMAIN image :
                 image[i].at + image[i].len <= offsets'[image[i].segment]
          BY <1>2, <3>5, <3>6
        <4> QED
          BY <3>2, <3>4, <3>7, <4>1
      <3>9. \A i, j \in DOMAIN image' :
               i < j /\ image'[i].segment = image'[j].segment
                   => image'[i].at + image'[i].len <= image'[j].at
        <4> SUFFICES ASSUME NEW i \in DOMAIN image', NEW j \in DOMAIN image', i < j,
                            image'[i].segment = image'[j].segment
                     PROVE  image'[i].at + image'[i].len <= image'[j].at
          OBVIOUS
        <4>1. i \in DOMAIN image /\ image'[i] = image[i]
          BY <1>1, <3>3, <3>4
        <4>2. CASE j \in DOMAIN image /\ image'[j] = image[j]
          BY <4>1, <4>2 DEF CodeIsSeparate
        <4>3. CASE image'[j] = c
          BY <3>1, <3>5, <4>1, <4>3
        <4> QED
          BY <3>4, <4>2, <4>3
      <3> QED
        BY <3>8, <3>9 DEF CodeIsSeparate
    <2> QED
      BY <2>1, <2>2, <2>3 DEF CodeFollows
  <1>6. CASE LineStep /\ ptype # "final"
    BY <1>3, <1>6, LineIsRead DEF passVars
  <1> QED
    BY <1>4, <1>5, <1>6, NextIsLineOrLoop

-----------------------------------------------------------------------------
(* The invariant.                                                          *)
ExternParts ==
    /\ EveryLabelHasADefiner
    /\ LookupsAreRemembered
    /\ MentionedAreHanded
    /\ CodeIsResolved

LEMMA ExternLine ==
    ASSUME GoesWell, LineStep, errors' = {}, TypeOK', LeavesBackendAlone, BackendLabelsStay,
           SymbolsAreCurrent, StaysSettled, StaysSettled',
           NothingBeforeFinal, NothingBeforeFinal', ExternParts
    PROVE  ExternParts'
  <1>1. /\ program' = program /\ ptype' = ptype /\ pass' = pass /\ line' = line + 1
        /\ line \in DOMAIN program /\ DOMAIN program = 1 .. Len(program)
        /\ Len(program) \in Nat /\ pass \in Nat /\ line # 0 /\ line' # 0
        /\ TypeOK /\ InSection /\ OwnLabels \subseteq Labels
    <2>1. /\ ptype' = ptype /\ pass' = pass /\ line' = line + 1 /\ program' = program
          /\ line \in 1 .. Len(program) /\ TypeOK /\ InSection
      BY LineIsRead DEF GoesWell, passVars
    <2>2. pass \in Nat /\ program \in Seq(Statements)
      BY <2>1, ProgramsAssumption DEF TypeOK
    <2>3. Len(program) \in Nat /\ DOMAIN program = 1 .. Len(program)
      BY <2>2, LenProperties
    <2> QED
      BY <2>1, <2>2, <2>3 DEF OwnLabels
  <1>2. pass_stable(ptype) => /\ global_offset_changed = 0
                              /\ \A l \in Labels : Found(labels'[l]) => Found(labels[l])
    <2>1. pass_stable(ptype) => global_offset_changed = 0 /\ global_offset_changed' = 0
      BY <1>1 DEF StaysSettled
    <2> QED
      BY <2>1, QuietTables DEF SameForLayout
  <1>3. EveryLabelHasADefiner'
    <2> SUFFICES ASSUME NEW l \in OwnLabels, Found(labels'[l])
                 PROVE  /\ ~pass_stable(ptype) => \E n \in DOMAIN program : Definer(n, l)'
                        /\ ptype = "stab" =>
                              \/ labels'[l].defined = pass + 1
                              \/ \E n \in DOMAIN program : n >= line + 1 /\ Definer(n, l)'
      BY <1>1 DEF EveryLabelHasADefiner, OwnLabels
    <2>1. CASE ~pass_stable(ptype)
      BY <1>1, <2>1, DefinersBeforeStable DEF ExternParts, EveryLabelHasADefiner, pass_stable
    <2>2. CASE ptype = "stab"
      <3>1. \/ labels[l].defined = pass + 1
            \/ \E n \in DOMAIN program : n >= line /\ Definer(n, l)
        BY <1>1, <1>2, <2>2 DEF ExternParts, EveryLabelHasADefiner, pass_stable
      <3> QED
        BY <1>1, <2>2, <3>1, DefinersInStab DEF pass_stable
    <2> QED
      BY <2>1, <2>2 DEF pass_stable
  <1>4. LookupsAreRemembered'
    BY LookupsLine DEF ExternParts
  <1>5. MentionedAreHanded'
    <2> SUFFICES ASSUME NEW l \in OwnLabels, Found(labels'[l]), Mentioned(l)
                 PROVE  /\ ptype = "stab" /\ labels'[l].defined = pass + 1 => Handed(l)'
                        /\ ptype = "final" => Handed(l)'
      BY <1>1 DEF MentionedAreHanded, Mentioned, MentionedBy, OwnLabels
    <2>1. CASE ptype = "stab" /\ labels'[l].defined = pass + 1
      <3>1. Found(labels[l]) /\ l \in Labels
        BY <1>1, <1>2, <2>1 DEF pass_stable
      <3>2. labels[l].lastref >= pass
        BY <2>1, <3>1 DEF ExternParts, LookupsAreRemembered, Mentioned
      <3>3. labels[l].defined = pass + 1 => Handed(l)
        BY <2>1, <3>1 DEF ExternParts, MentionedAreHanded
      <3>4. Handed(l)'
        BY <2>1, <3>1, <3>2, <3>3, HandedOnce
      <3> QED
        BY <2>1, <3>4
    <2>2. CASE ptype = "final"
      <3>1. Found(labels[l])
        BY <1>1, <1>2, <2>2 DEF pass_stable
      <3>2. Handed(l)
        BY <2>2, <3>1 DEF ExternParts, MentionedAreHanded
      <3>3. Handed(l)'
        BY <1>1, <3>2, HandedStays
      <3> QED
        BY <2>2, <3>3
    <2> QED
      BY <2>1, <2>2
  <1>6. CodeIsResolved'
    <2>1. ptype = "final" => global_offset_changed = 0
      BY <1>2 DEF pass_stable
    <2> QED
      BY <2>1, CodeIsResolvedLine DEF ExternParts
  <1> QED
    BY <1>3, <1>4, <1>5, <1>6 DEF ExternParts

LEMMA ExternLoop ==
    ASSUME TypeOK, InSection, PassNumbers, DefinitionsArePast, ExternParts, LoopStep
    PROVE  ExternParts'
  <1>1. /\ program' = program /\ labels' = labels /\ symdefs' = symdefs /\ image' = image
        /\ pass \in Nat /\ line \in Nat /\ DOMAIN program = 1 .. Len(program)
        /\ Len(program) \in Nat /\ OwnLabels \subseteq Labels
        /\ \A l \in Labels : labels[l].defined \in Nat
    BY LoopKeeps, LenProperties, ProgramsAssumption DEF TypeOK, Entry, OwnLabels
  <1>2. LookupsAreRemembered'
    BY LookupsLoop DEF ExternParts
  <1>3. CodeIsResolved'
    BY <1>1 DEF ExternParts, CodeIsResolved, HasSymbol
  <1>4. CASE BeginPass
    <2>1. /\ line = 0 /\ line' = 1 /\ pass' = pass + 1
          /\ ~pass_stable(ptype') => ~pass_stable(ptype)
          /\ ptype' = "stab" => ~pass_stable(ptype)
          /\ ptype' = "final" => ptype = "stab"
      BY <1>4 DEF BeginPass, NextPassType, pass_final, pass_stable, TypeOK, PassTypes
    <2>2. EveryLabelHasADefiner'
      BY <1>1, <2>1 DEF ExternParts, EveryLabelHasADefiner, Definer
    <2>3. ASSUME NEW l \in OwnLabels, Found(labels[l]), Mentioned(l)
          PROVE  /\ ptype' = "stab" => labels[l].defined # pass + 2
                 /\ ptype' = "final" => Handed(l)
      <3>1. labels[l].defined <= pass + 1
        BY <1>1 DEF DefinitionsArePast
      <3>2. ptype = "stab" => labels[l].defined = pass + 1
        BY <2>1, <2>3 DEF ExternParts, EveryLabelHasADefiner
      <3> QED
        BY <1>1, <2>1, <2>3, <3>1, <3>2 DEF ExternParts, MentionedAreHanded
    <2>4. MentionedAreHanded'
      BY <1>1, <2>1, <2>3 DEF MentionedAreHanded, Mentioned, MentionedBy, Handed
    <2> QED
      BY <1>2, <1>3, <2>2, <2>4 DEF ExternParts
  <1>5. CASE EndPass \/ Finish
    <2>1. /\ ptype' = ptype /\ pass' = pass /\ line' = 0
          /\ line = 0 \/ line = Len(program) + 1
      BY <1>5 DEF EndPass, Finish
    <2>2. EveryLabelHasADefiner'
      BY <1>1, <2>1 DEF ExternParts, EveryLabelHasADefiner, Definer
    <2>3. MentionedAreHanded'
      BY <1>1, <2>1 DEF ExternParts, MentionedAreHanded, Mentioned, MentionedBy, Handed
    <2> QED
      BY <1>2, <1>3, <2>2, <2>3 DEF ExternParts
  <1> QED
    BY <1>4, <1>5 DEF LoopStep

(* A line of the first pass.                                               *)
LEMMA ExternEarly ==
    ASSUME TypeOK, InSection, LineStep, errors' = {}, ptype = "first", ExternParts,
           NothingBeforeFinal'
    PROVE  ExternParts'
  <1>1. /\ program' = program /\ ptype' = ptype /\ image' = <<>> /\ DOMAIN image' = {}
        /\ OwnLabels \subseteq Labels
    BY LineIsRead DEF passVars, NothingBeforeFinal, OwnLabels
  <1>2. EveryLabelHasADefiner'
    <2> SUFFICES ASSUME NEW l \in OwnLabels, Found(labels'[l])
                 PROVE  \E n \in DOMAIN program : Definer(n, l)'
      BY <1>1 DEF EveryLabelHasADefiner, OwnLabels
    <2> QED
      BY <1>1, DefinersBeforeStable DEF ExternParts, EveryLabelHasADefiner, pass_stable
  <1>3. LookupsAreRemembered' /\ MentionedAreHanded' /\ CodeIsResolved'
    BY <1>1 DEF LookupsAreRemembered, MentionedAreHanded, CodeIsResolved
  <1> QED
    BY <1>2, <1>3 DEF ExternParts

HandedInv ==
    /\ PlacedInv
    /\ DefinitionsArePast
    /\ CodeIsSeparate
    /\ ExternInv

LEMMA HandedInvInit == Init => HandedInv
  <1> SUFFICES ASSUME Init PROVE HandedInv
    OBVIOUS
  <1>1. /\ ptype = "init" /\ image = <<>> /\ DOMAIN image = {} /\ pass = 0
        /\ \A l \in Labels : labels[l].defined \in {0, 1}
        /\ \A l \in Labels \ BackendLabels : labels[l].defined = 0
    BY DEF Init, FreshEntry
  <1>2. EveryLabelHasADefiner
    BY <1>1 DEF EveryLabelHasADefiner, OwnLabels, Found
  <1>3. DefinitionsArePast
    <2>1. pass = 0 /\ \A l \in Labels : labels[l].defined = 0 \/ labels[l].defined = 1
      BY <1>1
    <2>2. pass + 1 = 1 /\ \A l \in Labels : labels[l].defined <= 1
      BY ONLY <2>1
    <2> QED
      BY <2>2 DEF DefinitionsArePast
  <1> QED
    BY <1>1, <1>2, <1>3, PlacedInvInit
       DEF HandedInv, CodeIsSeparate, ExternInv, LookupsAreRemembered,
           MentionedAreHanded, CodeIsResolved

LEMMA HandedInvStep ==
    ASSUME HandedInv, [Next]_vars
    PROVE  HandedInv'
  <1>1. PlacedInv'
    BY PlacedInvStep DEF HandedInv
  <1>2. /\ TypeOK /\ InSection /\ SymbolInv /\ NothingBeforeFinal
        /\ TypeOK' /\ InSection' /\ SymbolInv' /\ NothingBeforeFinal'
        /\ LayoutInv /\ LayoutInv'
    BY <1>1 DEF HandedInv, PlacedInv, SettledInv, ReferenceInv
  <1>3. CASE Next
    <2>1. DefinitionsArePast' /\ CodeIsSeparate'
      BY <1>2, <1>3, DefinitionsArePastStep, CodeIsSeparateStep DEF HandedInv
    <2> SUFFICES ASSUME PassInvariantProgram', LeavesBackendAlone', errors' = {}
                 PROVE  ExternParts'
      BY <1>1, <2>1 DEF HandedInv, ExternInv, ExternParts
    <2>2. /\ PassInvariantProgram /\ LeavesBackendAlone /\ errors = {}
          /\ ExternParts
      BY <1>2, <1>3, ProgramStays, ErrorsStay
         DEF HandedInv, ExternInv, ExternParts, PassInvariantProgram, LeavesBackendAlone
    <2>3. StaysSettled /\ StaysSettled'
      BY <1>2, <2>2 DEF LayoutInv
    <2>4. CASE LoopStep
      BY <1>2, <2>2, <2>4, ExternLoop DEF HandedInv, SymbolInv
    <2>5. CASE LineStep /\ pass > 1
      <3>1. GoesWell
        BY <1>2, <2>2, <2>5 DEF GoesWell, SymbolInv
      <3> QED
        BY <1>2, <2>2, <2>3, <2>5, <3>1, ExternLine DEF SymbolInv
    <2>6. CASE LineStep /\ ~(pass > 1)
      <3>1. pass \in Nat
        BY <1>2 DEF TypeOK
      <3>2. PassNumbers
        BY <1>2 DEF SymbolInv
      <3>3. line # 0
        <4>1. line \in 1 .. Len(program)
          BY <1>2, <2>6, LineIsRead
        <4> QED
          BY ONLY <4>1
      <3>4. pass = 0 \/ pass = 1
        BY ONLY <3>1, <2>6
      <3>5. ptype = "first"
        BY <3>2, <3>3, <3>4 DEF PassNumbers
      <3> QED
        BY <1>2, <2>2, <2>6, <3>5, ExternEarly
    <2> QED
      BY <1>3, <2>4, <2>5, <2>6, NextIsLineOrLoop
  <1>4. CASE UNCHANGED vars
    <2>1. DefinitionsArePast' /\ CodeIsSeparate'
      BY <1>4 DEF vars, HandedInv, DefinitionsArePast, CodeIsSeparate
    <2>2. ExternInv'
      BY <1>4 DEF vars, HandedInv, ExternInv, PassInvariantProgram, LeavesBackendAlone,
         EveryLabelHasADefiner, LookupsAreRemembered, MentionedAreHanded, CodeIsResolved,
         Definer, Mentioned, MentionedBy, Handed, HasSymbol
    <2> QED
      BY <1>1, <2>1, <2>2 DEF HandedInv
  <1> QED
    BY <1>3, <1>4

(* Whatever the code of a successful assembly refers to outside of it has a*)
(* symbol, although out_symdef drops an EXTERN that nothing referred to    *)
(* before there is any code, in programs that do not ask which pass it is  *)
(* and do not define the labels of the output format.                      *)
THEOREM ReferencesHaveSymbols ==
    Spec => [](LeavesBackendAlone => ReferencedExternsAreKept)
  <1>1. Init => HandedInv
    BY HandedInvInit
  <1>2. HandedInv /\ [Next]_vars => HandedInv'
    BY HandedInvStep
  <1>3. HandedInv => (LeavesBackendAlone => ReferencedExternsAreKept)
    <2> SUFFICES ASSUME HandedInv, LeavesBackendAlone, Succeeded, PassInvariantProgram
                 PROVE  ReferencedExternsAreKept
      BY DEF ReferencedExternsAreKept
    <2>1. errors = {}
      BY DEF HandedInv, PlacedInv, SettledInv, SymbolInv, PassNumbers, Succeeded
    <2> QED
      BY <2>1 DEF HandedInv, ExternInv, CodeIsResolved, HasSymbol,
         ReferencedExternsAreKept
  <1> QED
    BY <1>1, <1>2, <1>3, PTL DEF Spec

-----------------------------------------------------------------------------
(* The interface.                                                          *)

(* A line hands a symbol over in the stabilization pass only, and code in  *)
(* the final pass only.                                                    *)
LEMMA LineHandsOver ==
    ASSUME TypeOK, InSection, LineStep, NothingBeforeFinal',
           BackendLabelsStay, LeavesBackendAlone
    PROVE  /\ \/ symdefs' = symdefs
              \/ ptype = "stab" /\ \E d \in Symdefs : symdefs' = Append(symdefs, d)
           /\ \/ image' = image
              \/ ptype = "final" /\ \E c \in Code : image' = Append(image, c)
  <1> DEFINE s == program[line]
  <1>1. ptype' = ptype /\ image \in Seq(Code)
    BY LineIsRead DEF TypeOK, passVars
  <1>2. \/ image' = image
        \/ ptype = "final" /\ \E c \in Code : image' = Append(image, c)
    <2>1. \/ image' = image \/ \E c \in Code : image' = Append(image, c)
      BY LineRefers DEF CodeRefers, Refers
    <2>2. \A c \in Code : Append(image, c) # <<>>
      BY <1>1, AppendProperties, EmptySeq
    <2> QED
      BY <1>1, <2>1, <2>2 DEF NothingBeforeFinal
  <1>3. CASE Looks(s) \/ Declares(s)
    BY <1>2, <1>3 DEF Looks, Declares
  <1>4. ASSUME NEW table, NEW seg, NEW sent, DefinesFrom(s, table, seg, sent)
        PROVE  \/ symdefs' = symdefs
               \/ ptype = "stab" /\ \E d \in Symdefs : symdefs' = Append(symdefs, d)
    <2> DEFINE entry == table[s.name]
               new == DefinedEntry(s.name, entry, seg, sent, next_seg, pass)
    <2>1. new \in Entry /\ s.name \in Labels
      BY <1>4, DefineEffects DEF DefinesFrom
    <2>2. symdefs' = IF HandedOver(entry, seg, new, pass, ptype)
                     THEN Append(symdefs, Symdef(s.name, new)) ELSE symdefs
      BY <1>4, SymdefsAfterDefine
    <2> HIDE DEF entry, new
    <2>3. Symdef(s.name, new) \in Symdefs
      BY <2>1, SymdefTypes
    <2> QED
      BY <2>2, <2>3, SymdefsOfLine
  <1> QED
    BY <1>2, <1>3, <1>4, LineEffects

(* One element more at the end is what the interface expects.              *)
LEMMA AppendIsOneMore ==
    ASSUME NEW S, NEW old \in Seq(S), NEW e \in S
    PROVE  Contract!OneMore(old, Append(old, e), S)
  <1>1. /\ Append(old, e) \in Seq(S) /\ Len(old) \in Nat
        /\ Len(Append(old, e)) = Len(old) + 1
        /\ Append(old, e)[Len(old) + 1] = e
        /\ \A i \in 1 .. Len(old) : Append(old, e)[i] = old[i]
    BY AppendProperties, LenProperties
  <1>2. SubSeq(Append(old, e), 1, Len(old)) = old
    OBVIOUS
  <1> QED
    BY <1>1, <1>2 DEF Contract!OneMore

LEMMA ContractStep ==
    ASSUME HandedInv, HandedInv', PassInvariantProgram, LeavesBackendAlone, [Next]_vars
    PROVE  [Contract!Next]_(Contract!vars)
  <1>1. /\ TypeOK /\ InSection /\ SymbolInv /\ NothingBeforeFinal /\ NothingBeforeFinal'
    BY DEF HandedInv, PlacedInv, SettledInv, ReferenceInv
  <1>2. CASE UNCHANGED vars
    BY <1>2 DEF vars, Contract!vars
  <1>3. CASE BeginPass
    <2>1. /\ outcome = "running" /\ UNCHANGED <<symdefs, image, outcome>>
          /\ ptype # "final"
          /\ ptype' = "stab" => ptype # "stab"
          /\ ptype' = "final" <=> ptype = "stab"
      BY <1>1, <1>3 DEF BeginPass, NextPassType, pass_final, TypeOK, PassTypes
    <2> QED
      BY <2>1 DEF Contract!Next, Contract!vars, Contract!StartSymbols,
         Contract!StartCode
  <1>4. CASE EndPass
    BY <1>4 DEF EndPass, Contract!vars
  <1>5. CASE Finish
    <2>1. /\ outcome = "running" /\ UNCHANGED <<ptype, symdefs, image>>
          /\ \/ outcome' = "failed"
             \/ outcome' = "ok" /\ errors = {} /\ ptype = "final"
      BY <1>5 DEF Finish, terminate_after_phase, pass_final
    <2>2. CASE outcome' = "failed"
      BY <2>1, <2>2 DEF Contract!Next, Contract!Discard
    <2>3. CASE outcome' = "ok" /\ errors = {} /\ ptype = "final"
      <3>1. Contract!InOrder
        BY DEF HandedInv, CodeIsSeparate, Contract!InOrder
      <3>2. Contract!OneSymbolPerName
        BY <1>1, <2>3 DEF SymbolInv, SymbolsAreCurrent, Contract!OneSymbolPerName
      <3>3. Contract!Resolvable
        BY <2>3 DEF HandedInv, ExternInv, CodeIsResolved, HasSymbol, Contract!Resolvable
      <3> QED
        BY <2>1, <2>3, <3>1, <3>2, <3>3 DEF Contract!Next, Contract!Write
    <2> QED
      BY <2>1, <2>2, <2>3
  <1>6. CASE LineStep
    <2>1. /\ outcome = "running" /\ UNCHANGED <<ptype, outcome>>
          /\ symdefs \in Seq(Symdefs) /\ image \in Seq(Code)
      BY <1>1, <1>6, LineIsRead DEF TypeOK, passVars
    <2>2. /\ \/ symdefs' = symdefs
             \/ ptype = "stab" /\ \E d \in Symdefs : symdefs' = Append(symdefs, d)
          /\ \/ image' = image
             \/ ptype = "final" /\ \E c \in Code : image' = Append(image, c)
      BY <1>1, <1>6, LineHandsOver DEF SymbolInv
    <2>3. CASE symdefs' = symdefs /\ image' = image
      BY <2>1, <2>3 DEF Contract!vars
    <2>4. CASE image' = image /\ ptype = "stab"
               /\ \E d \in Symdefs : symdefs' = Append(symdefs, d)
      <3>1. Contract!OneMore(symdefs, symdefs', Symdefs)
        BY <2>1, <2>4, AppendIsOneMore
      <3> QED
        BY <2>1, <2>4, <3>1 DEF Contract!Next, Contract!HandOver
    <2>5. CASE symdefs' = symdefs /\ ptype = "final"
               /\ \E c \in Code : image' = Append(image, c)
      <3>1. Contract!OneMore(image, image', Code)
        BY <2>1, <2>5, AppendIsOneMore
      <3> QED
        BY <2>1, <2>5, <3>1 DEF Contract!Next, Contract!Generate
    <2> QED
      BY <2>2, <2>3, <2>4, <2>5
  <1> QED
    BY <1>2, <1>3, <1>4, <1>5, <1>6 DEF Next, LineStep

(* The assembler takes the steps its interface with the output format      *)
(* allows and no others: sizes, then symbols, then code, and the file is   *)
(* written only if they make one consistent object (assemble_file, main).  *)
(* Programs that ask which pass it is, or define the labels of the output  *)
(* format, are left out.                                                   *)
THEOREM InterfaceIsKept ==
    Spec /\ PassInvariantProgram /\ LeavesBackendAlone
        => Contract!Init /\ [][Contract!Next]_(Contract!vars)
  <1> DEFINE Inv == HandedInv /\ PassInvariantProgram /\ LeavesBackendAlone
  <1>1. Init /\ PassInvariantProgram /\ LeavesBackendAlone => Inv
    BY HandedInvInit
  <1>2. Inv /\ [Next]_vars => Inv'
    <2> SUFFICES ASSUME Inv, [Next]_vars PROVE Inv'
      OBVIOUS
    <2>1. program' = program
      BY ProgramStays DEF vars, HandedInv, PlacedInv, SettledInv
    <2> QED
      BY <2>1, HandedInvStep DEF PassInvariantProgram, LeavesBackendAlone
  <1>3. Init => Contract!Init
    BY DEF Init, Contract!Init
  <1>4. Inv /\ Inv' /\ [Next]_vars => [Contract!Next]_(Contract!vars)
    BY ContractStep
  <1> HIDE DEF Inv
  <1> QED
    BY <1>1, <1>2, <1>3, <1>4, PTL DEF Spec
=============================================================================
