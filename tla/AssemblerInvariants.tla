------------------------ MODULE AssemblerInvariants -------------------------
(***************************************************************************)
(* Why the multi-pass core keeps its promises: what is true after every    *)
(* line and every pass, strong enough to be kept by each of them.  The     *)
(* proof modules show that it is, for every program, and that the          *)
(* properties of AssemblerProps follow from it.                            *)
(***************************************************************************)
EXTENDS AssemblerProps

(* The lines of all passes but the final one.                              *)
Prepares(s) == s.when \in {"always", "prep"}

(* Line n has been read in at least one pass before the final one.         *)
Passed(n) == pass > 1 \/ (pass = 1 /\ (line = 0 \/ n < line))

(* Programs that leave the names alone that the output format defined: a   *)
(* label of such a name is accepted, and handed over in every pass.        *)
LeavesBackendAlone ==
    \A n \in DOMAIN program :
        program[n].op \in {"label", "equ"} => program[n].name \notin BackendLabels

-----------------------------------------------------------------------------
(* The passes.                                                             *)

PassNumbers ==
    /\ ptype = "init" <=> pass = 0
    /\ ptype = "first" <=> pass = 1
    /\ ptype = "init" => line = 0
    /\ line # 0 => outcome = "running"
    /\ outcome = "ok" => errors = {}

(* A line counts at most one change.                                       *)
ChangesAreCounted ==
    global_offset_changed <= IF line = 0 THEN Len(program) ELSE line - 1

(* How many changes an optimization pass may still bring and count as      *)
(* progress.                                                               *)
Room ==
    IF prev_offset_changed > Len(program) THEN Len(program) + 1
    ELSE IF prev_offset_changed = 0 THEN 1
    ELSE prev_offset_changed

(* How many passes it may have taken that changed something: each made the *)
(* room smaller or counts towards the stall limit.                         *)
Credit == (Len(program) + 1 - Room) * (LimitStalled + 1) + stall_count

ChangingPasses ==
    CASE ptype \in {"init", "first"} -> 0
      [] ptype = "opt" -> IF line = 0 /\ global_offset_changed # 0
                          THEN pass - 1 ELSE pass - 2
      [] ptype = "stab" -> pass - 3
      [] ptype = "final" -> pass - 4

PassesArePaid == ChangingPasses <= Credit

StallsAreLimited ==
    stall_count <= IF errors = {} \/ line # 0 THEN LimitStalled ELSE LimitStalled + 1

PassInv ==
    /\ PassNumbers
    /\ ChangesAreCounted
    /\ StallsAreLimited
    /\ PassesArePaid

-----------------------------------------------------------------------------
(* Declarations and definitions that were read once leave nothing more to  *)
(* do to the type of their label: a later pass only repeats them.          *)
Absorbed(s) ==
    /\ s.op = "declare" =>
          LET type == labels[s.name].type
          IN  \/ type = s.type
              \/ is_extern(s.type) /\ is_global(type)
              \/ s.type = "extern" /\ type = "required"
    /\ s.op \in {"label", "equ"} =>
          LET entry == labels[s.name]
          IN  /\ Found(entry) /\ ~is_extern(entry.type)
              /\ ~(s.name \in SpecialLabels /\ entry.type = "local")

DeclarationsHold ==
    errors = {} =>
        \A n \in DOMAIN program :
            Prepares(program[n]) /\ Passed(n) => Absorbed(program[n])

(* Whatever is defined has a segment.                                      *)
DefinedHaveSegments ==
    /\ next_seg > 0
    /\ \A l \in Labels : Found(labels[l]) => labels[l].segment # PSEUDO_SEG

(* The labels of the output format are what it made them.                  *)
BackendLabelsStay ==
    \A l \in Labels :
        /\ labels[l].type = "backend" <=> l \in BackendLabels
        /\ l \in BackendLabels /\ LeavesBackendAlone =>
              labels[l].segment = FirstFreeSegment

-----------------------------------------------------------------------------
(* Symbols: those handed over in the stabilization pass were defined in it,*)
(* so nothing more can happen to them there without an error.              *)
Handed(l) == \E i \in DOMAIN symdefs : symdefs[i].name = l

SymbolsComeLate ==
    LeavesBackendAlone /\ ~pass_stable(ptype) => symdefs = <<>>

SymbolsAreCurrent ==
    LeavesBackendAlone /\ errors = {} =>
        /\ \A i, j \in DOMAIN symdefs : symdefs[i].name = symdefs[j].name => i = j
        /\ (ptype = "final" => global_offset_changed = 0) =>
              \A i \in DOMAIN symdefs : SymdefAgrees(symdefs[i])

SymbolsAreOfThisPass ==
    LeavesBackendAlone /\ errors = {} /\ ptype = "stab" =>
        \A i \in DOMAIN symdefs : labels[symdefs[i].name].defined = pass + 1

SymbolInv ==
    /\ PassNumbers
    /\ DefinedHaveSegments
    /\ DeclarationsHold
    /\ BackendLabelsStay
    /\ SymbolsComeLate
    /\ SymbolsAreCurrent
    /\ SymbolsAreOfThisPass

-----------------------------------------------------------------------------
(* The layout.  A place is what a line finds: the current section and the  *)
(* offsets of all sections.                                                *)
Place == [segment : Sections, offsets : [Sections -> Int]]

FirstPlace == [segment |-> DefaultSection, offsets |-> [s \in Sections |-> 0]]

(* How many bytes a line takes that parses, with this table at this place. *)
Times(table, s, seg, here) ==
    IF IsSimple(table, s.arg, seg) THEN Value(table, s.arg, here) ELSE 1

Length(table, s, seg, here) ==
    IF s.op = "data" THEN s.len
    ELSE IF s.op = "times"
    THEN IF Times(table, s, seg, here) > 0
         THEN Times(table, s, seg, here) * s.len ELSE 0
    ELSE IF s.op = "jump" THEN JumpLen(JumpIsShort(table, s.arg, seg, here))
    ELSE IF s.op = "refer" THEN ReferLen
    ELSE 0

PlaceAfter(table, s, place) ==
    LET here == place.offsets[place.segment]
    IN  [segment |-> IF s.op = "section" THEN s.segment ELSE place.segment,
         offsets |-> [place.offsets EXCEPT ![place.segment] =
                         @ + Length(table, s, place.segment, here)]]

(* Defined with this segment and value, the entry stays as it is.          *)
StaysPut(entry, seg, sent) ==
    /\ Found(entry)
    /\ seg # PSEUDO_SEG => ~is_extern(entry.type)
    /\ entry.segment # 0 /\ seg \in {PSEUDO_SEG, entry.segment}
    /\ IF entry.type = "common" THEN entry.offset = 0 /\ entry.size = sent
       ELSE entry.offset = sent /\ entry.size = 0

(* At this place the line defines nothing that is not in the table already.*)
DeclaredValue(s) == IF s.type = "common" THEN s.size ELSE 0

Settled(table, s, place) ==
    LET here == place.offsets[place.segment]
    IN  /\ s.op = "label" =>
              StaysPut(table[s.name], place.segment, here)
        /\ s.op = "equ" =>
              StaysPut(table[s.name], ValueSegment(table, s.arg, place.segment),
                       Value(table, s.arg, here))
        /\ (/\ s.op = "declare" /\ s.type \in {"common", "extern", "required"}
            /\ table[s.name].type = s.type) =>
              StaysPut(table[s.name], PSEUDO_SEG, DeclaredValue(s))

(* The places of all lines; those before line m are where the table puts   *)
(* them, and the lines there settled.                                      *)
Routes == [1 .. Len(program) + 1 -> Place]

IsRoute(places, m) ==
    /\ places[1] = FirstPlace
    /\ \A n \in 1 .. Len(program) : n < m =>
          /\ Settled(labels, program[n], places[n])
          /\ places[n + 1] = PlaceAfter(labels, program[n], places[n])

OnRoute(places) ==
    line # 0 => places[line] = [segment |-> segment, offsets |-> offsets]

(* An optimization pass that has changed nothing so far settles its lines; *)
(* from then on every pass goes the same way and changes nothing.          *)
SettlesLines ==
    ptype = "opt" /\ global_offset_changed = 0 =>
        \E places \in Routes :
            /\ IsRoute(places, IF line = 0 THEN Len(program) + 1 ELSE line)
            /\ OnRoute(places)

StaysSettled ==
    pass_stable(ptype) =>
        /\ global_offset_changed = 0
        /\ \E places \in Routes :
              IsRoute(places, Len(program) + 1) /\ OnRoute(places)

LayoutInv ==
    PassInvariantProgram /\ errors = {} => SettlesLines /\ StaysSettled

-----------------------------------------------------------------------------
(* The first pass of a program without forward references.                 *)

(* The first pass finds nothing defined; what it defines it defines now.   *)
FirstDefinitions ==
    /\ ptype = "init" => \A l \in Labels \ BackendLabels : ~Found(labels[l])
    /\ ptype = "first" =>
          /\ \A l \in Labels \ BackendLabels :
                Found(labels[l]) => labels[l].defined = pass + 1
          /\ \A n \in DOMAIN program :
                program[n].op \in {"label", "equ"} /\ Passed(n) =>
                    labels[program[n].name].defined = pass + 1

(* It settles its lines one after the other; no optimization pass changes  *)
(* anything, so that there is one.                                         *)
FirstSettles ==
    ptype = "first" =>
        \E places \in Routes :
            /\ IsRoute(places, IF line = 0 THEN Len(program) + 1 ELSE line)
            /\ OnRoute(places)

OptimizerSettled ==
    ptype = "opt" =>
        /\ pass = 2 /\ global_offset_changed = 0
        /\ \E places \in Routes :
              IsRoute(places, Len(program) + 1) /\ OnRoute(places)

FourPasses == (ptype = "stab" => pass = 3) /\ (ptype = "final" => pass = 4)

AboveInv ==
    PassInvariantProgram /\ NoForwardReferences /\ errors = {} =>
        /\ FirstDefinitions
        /\ FirstSettles /\ OptimizerSettled
        /\ FourPasses

-----------------------------------------------------------------------------
(* The code of the final pass lies where its lines are.                    *)
CodeIsInOrder ==
    /\ \A i \in DOMAIN image : line # 0 => image[i].line < line
    /\ \A i, j \in DOMAIN image : i < j => image[i].line < image[j].line

FinalPlace ==
    ptype = "final" /\ line # 0 =>
        /\ segment = SectionAt(line)
        /\ \A s \in Sections : offsets[s] = EndOfCode(s, line)

FinalLine(n) == ptype = "final" /\ (line = 0 \/ n < line)

LabelsArePlaced ==
    global_offset_changed = 0 =>
        \A n \in DOMAIN program :
            program[n].op = "label" /\ InFinalPass(n) /\ FinalLine(n) =>
                /\ labels[program[n].name].segment = SectionAt(n)
                /\ Given(labels[program[n].name]) = EndOfCodeBefore(n)

EquatesArePlaced ==
    PassInvariantProgram /\ errors = {} =>
        \A n \in DOMAIN program :
            program[n].op = "equ" /\ FinalLine(n) =>
                LET e == program[n].arg
                    entry == labels[program[n].name]
                IN  /\ Given(entry) = Value(labels, e, EndOfCodeBefore(n))
                    /\ entry.segment = ValueSegment(labels, e, SectionAt(n))

-----------------------------------------------------------------------------
(* External symbols.                                                       *)

(* Line n defines label l each time it is read.                            *)
Definer(n, l) ==
    /\ program[n].op \in {"label", "equ", "declare"} /\ program[n].name = l
    /\ program[n].op = "declare" =>
          /\ program[n].type \in {"common", "extern", "required"}
          /\ program[n].type = labels[l].type

MentionedBy(n, l) ==
    /\ program[n].op \in {"equ", "times", "jump", "refer"}
    /\ l \in {program[n].arg.plus, program[n].arg.minus}

Mentioned(l) == \E n \in DOMAIN program : MentionedBy(n, l)

OwnLabels == Labels \ BackendLabels

(* No definition is of a pass to come.                                     *)
DefinitionsArePast == \A l \in Labels : labels[l].defined <= pass + 1

(* Whatever is defined is defined in every pass.                           *)
EveryLabelHasADefiner ==
    \A l \in OwnLabels : Found(labels[l]) =>
        /\ ~pass_stable(ptype) => \E n \in DOMAIN program : Definer(n, l)
        /\ ptype = "stab" =>
              \/ labels[l].defined = pass + 1
              \/ \E n \in DOMAIN program : line # 0 /\ n >= line /\ Definer(n, l)

(* Labels remember that the line referred to them, in this pass or, while  *)
(* symbols are handed over, in the one before.                             *)
LookupsAreRemembered ==
    \A n \in DOMAIN program, l \in Labels :
        MentionedBy(n, l) /\ Found(labels[l]) =>
            /\ ptype = "opt" /\ global_offset_changed = 0 /\ (line = 0 \/ n < line) =>
                  labels[l].lastref > pass
            /\ ptype = "stab" => labels[l].lastref >= pass

(* What the code can refer to was handed over.                             *)
MentionedAreHanded ==
    \A l \in OwnLabels : Found(labels[l]) /\ Mentioned(l) =>
        /\ ptype = "stab" /\ labels[l].defined = pass + 1 => Handed(l)
        /\ ptype = "final" => Handed(l)

(* Pieces of code of a section follow each other.                          *)
CodeIsSeparate ==
    /\ \A i, j \in DOMAIN image :
          i < j /\ image[i].segment = image[j].segment
              => image[i].at + image[i].len <= image[j].at
    /\ ptype = "final" /\ line # 0 =>
          \A i \in DOMAIN image :
              image[i].at + image[i].len <= offsets[image[i].segment]

HasSymbol(v) == v \in OwnSegments \/ \E j \in DOMAIN symdefs : symdefs[j].segment = v

CodeIsResolved == \A i \in DOMAIN image : HasSymbol(image[i].vsegment)

ExternInv ==
    PassInvariantProgram /\ LeavesBackendAlone /\ errors = {} =>
        /\ EveryLabelHasADefiner
        /\ LookupsAreRemembered
        /\ MentionedAreHanded
        /\ CodeIsResolved
=============================================================================
