---------------------------- MODULE LayoutProofs ----------------------------
(***************************************************************************)
(* The pass loop and the layout of the code: what TLAPS proves for every   *)
(* program about how often assemble_file reads it, from the invariant      *)
(* PassInv and the two limits of the optimizer; about the passes after the *)
(* optimizer came to rest, from the invariant LayoutInv, and all passes but*)
(* the first if nothing is named before it is defined, from AboveInv; and  *)
(* about the places of labels and EQUs in the code.                        *)
(***************************************************************************)
EXTENDS AssemblerProofs, WellFoundedInduction

-----------------------------------------------------------------------------
(* Arithmetic the solver is not asked to find twice.                       *)

LEMMA ProductsGrow ==
    ASSUME NEW a \in Int, NEW b \in Int, NEW k \in Nat, a < b
    PROVE  a * k + k <= b * k
  <1> DEFINE d == b - a - 1
  <1>1. d \in Nat /\ b = a + 1 + d
    OBVIOUS
  <1>2. d * k >= 0
    BY <1>1
  <1>3. (a + 1 + d) * k = a * k + k + d * k
    BY <1>1
  <1> HIDE DEF d
  <1> QED
    BY <1>1, <1>2, <1>3

-----------------------------------------------------------------------------
(* The invariant.                                                          *)

LEMMA ChangesAreCountedStep ==
    ASSUME TypeOK, InSection, ChangesAreCounted, Next
    PROVE  ChangesAreCounted'
  <1>1. /\ line \in Nat /\ Len(program) \in Nat /\ global_offset_changed \in Nat
        /\ program' = program
    BY ProgramsAssumption, LenProperties, ProgramStays DEF TypeOK
  <1>2. CASE BeginPass
    BY <1>1, <1>2 DEF BeginPass, ChangesAreCounted
  <1>3. CASE EndPass
    BY <1>1, <1>3 DEF EndPass, ChangesAreCounted
  <1>4. CASE Finish
    BY <1>1, <1>4 DEF Finish, ChangesAreCounted
  <1>5. CASE LineStep
    BY <1>1, <1>5, LineIsRead, ChangesGrow DEF ChangesAreCounted
  <1> QED
    BY <1>2, <1>3, <1>4, <1>5, NextIsLineOrLoop DEF LoopStep

LEMMA StallsAreLimitedStep ==
    ASSUME TypeOK, InSection, StallsAreLimited, Next
    PROVE  StallsAreLimited'
  <1>1. line \in Nat /\ stall_count \in Nat /\ LimitStalled \in Nat
    BY LimitsAssumption DEF TypeOK
  <1>2. CASE BeginPass
    BY <1>1, <1>2 DEF BeginPass, StallsAreLimited, terminate_after_phase
  <1>3. CASE EndPass
    <2>1. stall_count <= LimitStalled /\ line' = 0 /\ stall_count' = StallCount
      BY <1>1, <1>3, ProgramsAssumption, LenProperties DEF EndPass, StallsAreLimited, TypeOK
    <2>2. StallCount <= stall_count + 1
      BY <1>1 DEF StallCount
    <2>3. errors' = {} => StallCount <= LimitStalled
      BY <1>1, <1>3, <2>1 DEF EndPass, PassErrors, StallCount
    <2> QED
      BY <1>1, <2>1, <2>2, <2>3 DEF StallsAreLimited, StallCount
  <1>4. CASE Finish
    <2>1. UNCHANGED <<line, stall_count>> /\ (errors' = {} => errors = {})
      BY <1>4 DEF Finish, terminate_after_phase
    <2> QED
      BY <1>1, <2>1 DEF StallsAreLimited
  <1>5. CASE LineStep
    BY <1>1, <1>5, LineIsRead DEF StallsAreLimited, passVars
  <1> QED
    BY <1>2, <1>3, <1>4, <1>5, NextIsLineOrLoop DEF LoopStep

LEMMA RoomFacts ==
    ASSUME TypeOK
    PROVE  Room \in Nat /\ Room >= 1 /\ Room <= Len(program) + 1
  <1>1. Len(program) \in Nat /\ prev_offset_changed \in Nat
    BY ProgramsAssumption, LenProperties DEF TypeOK
  <1> QED
    BY <1>1 DEF Room

(* The end of an optimization pass that changed something pays for it.     *)
LEMMA ChangingPassPays ==
    ASSUME TypeOK, EndPass, StallsAreLimited, ChangesAreCounted, ptype = "opt",
           global_offset_changed # 0
    PROVE  Credit \in Int /\ Credit' \in Int /\ Credit + 1 <= Credit'
  <1> DEFINE len == Len(program)
             k == LimitStalled + 1
             room == Room
             left == len + 1 - room
  <1>1. /\ len \in Nat /\ k \in Nat /\ stall_count \in Nat /\ prev_offset_changed \in Nat
        /\ global_offset_changed \in Nat /\ room \in Nat /\ left \in Int
        /\ program' = program /\ global_offset_changed <= len
        /\ stall_count + 1 <= k
    BY ProgramsAssumption, LimitsAssumption, LenProperties, RoomFacts
       DEF TypeOK, EndPass, ChangesAreCounted, StallsAreLimited
  <1>2. left * k \in Int /\ Credit = left * k + stall_count
    BY <1>1 DEF Credit
  <1>3. CASE Improved
    <2>1. stall_count' = 0 /\ prev_offset_changed' = global_offset_changed
      BY <1>3 DEF EndPass, StallCount
    <2>2. Room' = global_offset_changed
      BY <1>1, <2>1 DEF Room
    <2>3. global_offset_changed < room
      BY <1>1, <1>3 DEF Room, Improved
    <2> DEFINE next == len + 1 - global_offset_changed
    <2>4. next \in Int /\ left < next
      BY <1>1, <2>3
    <2>5. Credit' = next * k + 0
      BY <1>1, <2>1, <2>2 DEF Credit
    <2> HIDE DEF next, left, k
    <2>6. left * k + k <= next * k /\ next * k \in Int
      BY <1>1, <2>4, ProductsGrow
    <2> QED
      BY <1>1, <1>2, <2>5, <2>6
  <1>4. CASE ~Improved
    <2>1. stall_count' = stall_count + 1 /\ prev_offset_changed' = prev_offset_changed
      BY <1>4 DEF EndPass, StallCount
    <2>2. Room' = room
      BY <1>1, <2>1 DEF Room
    <2>3. Credit' = left * k + stall_count'
      BY <1>1, <2>2 DEF Credit
    <2> HIDE DEF left, k
    <2> QED
      BY <1>1, <1>2, <2>1, <2>3
  <1> QED
    BY <1>3, <1>4

LEMMA CreditStays ==
    ASSUME TypeOK, UNCHANGED <<program, prev_offset_changed, stall_count>>
    PROVE  Credit' = Credit /\ Credit \in Int
  <1>1. Credit' = Credit
    BY DEF Credit, Room
  <1>2. /\ Len(program) + 1 - Room \in Int /\ LimitStalled + 1 \in Int
        /\ stall_count \in Int
    BY ProgramsAssumption, LimitsAssumption, LenProperties, RoomFacts DEF TypeOK
  <1>3. Credit \in Int
    BY <1>2 DEF Credit
  <1> QED
    BY <1>1, <1>3

LEMMA PassesArePaidStep ==
    ASSUME TypeOK, InSection, PassInv, Next
    PROVE  PassesArePaid'
  <1>1. /\ pass \in Nat /\ line \in Nat /\ ptype \in PassTypes
        /\ PassNumbers /\ ChangingPasses <= Credit
    BY DEF TypeOK, PassInv, PassesArePaid
  <1>2. CASE BeginPass
    <2>1. Credit' = Credit /\ Credit \in Int
      BY <1>2, CreditStays DEF BeginPass
    <2>2. ChangingPasses' = ChangingPasses
      BY <1>1, <1>2 DEF BeginPass, pass_final, NextPassType, ChangingPasses,
         PassNumbers, PassTypes
    <2> QED
      BY <1>1, <2>1, <2>2 DEF PassesArePaid
  <1>3. CASE EndPass /\ ptype = "opt" /\ global_offset_changed # 0
    <2>1. Credit \in Int /\ Credit' \in Int /\ Credit + 1 <= Credit'
      BY <1>3, ChangingPassPays DEF PassInv
    <2>2. ChangingPasses = pass - 2 /\ ChangingPasses' = pass - 1
      BY <1>1, <1>3, ProgramsAssumption, LenProperties
         DEF EndPass, ChangingPasses, TypeOK
    <2> QED
      BY <1>1, <2>1, <2>2 DEF PassesArePaid
  <1>4. CASE EndPass /\ ~(ptype = "opt" /\ global_offset_changed # 0)
    <2>1. Credit' = Credit
      <3>1. stall_count' = stall_count /\ prev_offset_changed' = prev_offset_changed
        BY <1>4 DEF EndPass, StallCount
      <3> QED
        BY <1>4, <3>1, CreditStays DEF EndPass
    <2>2. ChangingPasses' = ChangingPasses
      BY <1>1, <1>4 DEF EndPass, ChangingPasses, PassTypes
    <2> QED
      BY <1>1, <2>1, <2>2 DEF PassesArePaid
  <1>5. CASE Finish
    <2>1. Credit' = Credit /\ ChangingPasses' = ChangingPasses
      BY <1>5, CreditStays DEF Finish, ChangingPasses
    <2> QED
      BY <1>1, <2>1 DEF PassesArePaid
  <1>6. CASE LineStep
    <2>1. /\ UNCHANGED <<program, prev_offset_changed, stall_count, pass, ptype>>
          /\ line # 0 /\ line' # 0
      BY <1>1, <1>6, LineIsRead DEF passVars
    <2>2. Credit' = Credit /\ ChangingPasses' = ChangingPasses
      BY <2>1, CreditStays DEF ChangingPasses
    <2> QED
      BY <1>1, <2>2 DEF PassesArePaid
  <1> QED
    BY <1>2, <1>3, <1>4, <1>5, <1>6, NextIsLineOrLoop DEF LoopStep

LEMMA PassInvInit == Init => PassInv
  <1> SUFFICES ASSUME Init PROVE PassInv
    OBVIOUS
  <1>1. /\ ptype = "init" /\ line = 0 /\ stall_count = 0 /\ global_offset_changed = 0
        /\ pass = 0 /\ outcome = "running" /\ TypeOK
    BY TypesInit DEF Init
  <1>2. /\ Len(program) + 1 - Room \in Nat /\ LimitStalled + 1 \in Nat
        /\ Len(program) \in Nat
    BY <1>1, RoomFacts, LimitsAssumption, LenProperties, ProgramsAssumption DEF TypeOK
  <1>3. (Len(program) + 1 - Room) * (LimitStalled + 1) \in Nat
    BY <1>2
  <1>4. PassesArePaid
    BY <1>1, <1>3 DEF PassesArePaid, ChangingPasses, Credit
  <1> QED
    BY <1>1, <1>2, <1>4, LimitsAssumption
       DEF PassInv, PassNumbers, ChangesAreCounted, StallsAreLimited

LEMMA PassInvStep ==
    ASSUME TypeOK, InSection, PassInv, [Next]_vars
    PROVE  PassInv'
  <1>1. CASE Next
    BY <1>1, PassNumbersStep, ChangesAreCountedStep, StallsAreLimitedStep,
       PassesArePaidStep DEF PassInv
  <1>2. CASE UNCHANGED vars
    BY <1>2 DEF vars, PassInv, PassNumbers, ChangesAreCounted, StallsAreLimited,
       PassesArePaid, ChangingPasses, Credit, Room
  <1> QED
    BY <1>1, <1>2

(* However often its labels move, a program is read at most so many times: *)
(* the stall counter of assemble_file is reset only by a pass that brought *)
(* fewer changes than every optimization pass before it, there are at most *)
(* as many changes as lines, and at LIMIT_STALLED the optimizer gives up.  *)
THEOREM PassesStayBounded == Spec => []PassesAreBounded
  <1>1. Init => TypeOK /\ InSection /\ PassInv
    BY TypesInit, PassInvInit
  <1>2. TypeOK /\ InSection /\ PassInv /\ [Next]_vars => (TypeOK /\ InSection /\ PassInv)'
    BY TypesStep, PassInvStep
  <1>3. TypeOK /\ PassInv => PassesAreBounded
    <2> SUFFICES ASSUME TypeOK, PassInv PROVE PassesAreBounded
      OBVIOUS
    <2> DEFINE k == LimitStalled + 1
               left == Len(program) + 1 - Room
    <2>1. /\ pass \in Nat /\ stall_count \in Nat /\ k \in Nat /\ left \in Int
          /\ Len(program) + 1 \in Int /\ left < Len(program) + 1 /\ stall_count <= k
          /\ ptype \in PassTypes
      BY ProgramsAssumption, LimitsAssumption, LenProperties, RoomFacts
         DEF TypeOK, PassInv, StallsAreLimited
    <2>2. ChangingPasses <= left * k + stall_count
      BY DEF PassInv, PassesArePaid, Credit
    <2>3. pass <= ChangingPasses + 4 /\ ChangingPasses \in Int
      <3>1. PassNumbers
        BY DEF PassInv
      <3>2. ptype \in {"init", "first"} => pass <= 1
        BY <2>1, <3>1 DEF PassNumbers
      <3>3. pass \in Nat
        BY <2>1
      <3>4. CASE ptype \in {"init", "first"}
        BY <3>2, <3>3, <3>4 DEF ChangingPasses
      <3>5. CASE ptype = "opt"
        BY <3>3, <3>5 DEF ChangingPasses
      <3>6. CASE ptype = "stab"
        BY <3>3, <3>6 DEF ChangingPasses
      <3>7. CASE ptype = "final"
        BY <3>3, <3>7 DEF ChangingPasses
      <3> QED
        BY <2>1, <3>4, <3>5, <3>6, <3>7 DEF PassTypes
    <2> HIDE DEF k, left
    <2>4. /\ left * k + k <= (Len(program) + 1) * k
          /\ left * k \in Int /\ (Len(program) + 1) * k \in Int
      BY <2>1, ProductsGrow
    <2>5. pass <= (Len(program) + 1) * k + 4
      BY <2>1, <2>2, <2>3, <2>4
    <2> QED
      BY <2>5 DEF PassesAreBounded, k
  <1> QED
    BY <1>1, <1>2, <1>3, PTL DEF Spec

-----------------------------------------------------------------------------
(* Where a line leaves the place it found.                                 *)

CurrentPlace == [segment |-> segment, offsets |-> offsets]

LEMMA PlaceTypes ==
    ASSUME TypeOK, segment \in Sections
    PROVE  CurrentPlace \in Place
  BY DEF TypeOK, CurrentPlace, Place

LEMMA NoAdvance ==
    ASSUME NEW table, NEW s, NEW place \in Place,
           s.op \in {"label", "equ", "declare", "section"}
    PROVE  PlaceAfter(table, s, place)
              = [segment |-> IF s.op = "section" THEN s.segment ELSE place.segment,
                 offsets |-> place.offsets]
  <1>1. place.offsets \in [Sections -> Int] /\ place.segment \in Sections
    BY DEF Place
  <1>2. Length(table, s, place.segment, place.offsets[place.segment]) = 0
    BY DEF Length
  <1>3. [place.offsets EXCEPT ![place.segment] = @ + 0] = place.offsets
    BY <1>1
  <1> QED
    BY <1>2, <1>3 DEF PlaceAfter

LEMMA LineAdvances ==
    ASSUME TypeOK, InSection, LineStep, Executes(program[line]), errors' = {}
    PROVE  CurrentPlace' = PlaceAfter(labels, program[line], CurrentPlace)
  <1> DEFINE s == program[line]
             len == Length(labels, s, segment, Here)
  <1>1. CurrentPlace \in Place
    BY LineIsRead, PlaceTypes
  <1>2. PlaceAfter(labels, s, CurrentPlace) =
           [segment |-> IF s.op = "section" THEN s.segment ELSE segment,
            offsets |-> [offsets EXCEPT ![segment] = @ + len]]
    BY DEF PlaceAfter, CurrentPlace, Here
  <1>3. ASSUME NEW n, len = n, segment' = segment, Advance(n), s.op # "section"
        PROVE  CurrentPlace' = PlaceAfter(labels, s, CurrentPlace)
    BY <1>2, <1>3 DEF CurrentPlace, Advance
  <1>4. CASE SkippedLine
    BY <1>4 DEF SkippedLine
  <1>5. CASE LabelLine \/ EquLine \/ DeclareLine
    <2>1. s.op \in {"label", "equ", "declare"} /\ UNCHANGED placeVars
      BY <1>5 DEF LabelLine, EquLine, DeclareLine, Line, ParseFails
    <2> QED
      BY <1>1, <2>1, NoAdvance DEF CurrentPlace, placeVars
  <1>6. CASE SectionLine
    <2>1. s.op = "section" /\ offsets' = offsets /\ segment' = s.segment
      BY <1>6 DEF SectionLine, Line
    <2> QED
      BY <1>1, <2>1, NoAdvance DEF CurrentPlace
  <1>7. CASE DataLine
    <2>1. s.op = "data" /\ Advance(s.len) /\ segment' = segment
      BY <1>7 DEF DataLine, Line
    <2>2. len = s.len
      BY <2>1 DEF Length
    <2> QED
      BY <1>3, <2>1, <2>2
  <1>8. CASE TimesLine
    <2> DEFINE times == IF IsSimple(labels, s.arg, segment)
                        THEN Value(labels, s.arg, Here) ELSE 1
               n == IF times > 0 THEN times * s.len ELSE 0
    <2>1. s.op = "times" /\ Advance(n) /\ segment' = segment
      BY <1>8 DEF TimesLine, Line, ParseFails
    <2>2. len = n
      BY <2>1 DEF Length, Times
    <2> HIDE DEF n, len
    <2> QED
      BY <1>3, <2>1, <2>2
  <1>9. CASE JumpLine
    <2> DEFINE n == JumpLen(JumpIsShort(labels, s.arg, segment, Here))
    <2>1. s.op = "jump" /\ Advance(n) /\ segment' = segment
      BY <1>9 DEF JumpLine, Line, ParseFails
    <2>2. len = n
      BY <2>1 DEF Length
    <2> HIDE DEF n, len
    <2> QED
      BY <1>3, <2>1, <2>2
  <1>10. CASE ReferLine
    <2>1. s.op = "refer" /\ Advance(ReferLen) /\ segment' = segment
      BY <1>10 DEF ReferLine, Line, ParseFails
    <2>2. len = ReferLen
      BY <2>1 DEF Length
    <2> HIDE DEF len
    <2> QED
      BY <1>3, <2>1, <2>2
  <1> QED
    BY <1>4, <1>5, <1>6, <1>7, <1>8, <1>9, <1>10 DEF LineStep

-----------------------------------------------------------------------------
(* Tables that give every line the same size and leave it settled.         *)

(* EXTERN may have become REQUIRED, and lookups may have been remembered.  *)
SameForLayout(old, new) ==
    /\ Found(old) <=> Found(new)
    /\ SameValue(old, new)
    /\ new.type = old.type \/ (old.type = "extern" /\ new.type = "required")

LEMMA SameLengths ==
    ASSUME NEW t1 \in [Labels -> Entry], NEW t2 \in [Labels -> Entry],
           \A l \in Labels : SameForLayout(t1[l], t2[l]),
           NEW s \in Statements, NEW place
    PROVE  PlaceAfter(t1, s, place) = PlaceAfter(t2, s, place)
  <1> DEFINE seg == place.segment
             here == place.offsets[seg]
  <1>1. ASSUME s.op \in {"equ", "times", "jump", "refer"}
        PROVE  /\ Value(t1, s.arg, here) = Value(t2, s.arg, here)
               /\ ValueSegment(t1, s.arg, seg) = ValueSegment(t2, s.arg, seg)
               /\ Unknown(t1, s.arg) = Unknown(t2, s.arg)
               /\ IsSimple(t1, s.arg, seg) = IsSimple(t2, s.arg, seg)
    <2> DEFINE e == s.arg
    <2>1. e \in Expr /\ e.plus \in Terms /\ e.minus \in Terms
      BY <1>1, StatementTypes DEF Expr
    <2>2. \A t \in Terms : /\ Known(t1, t) = Known(t2, t)
                           /\ TermSegment(t1, t, seg) = TermSegment(t2, t, seg)
                           /\ TermValue(t1, t, here) = TermValue(t2, t, here)
      BY DEF Known, TermSegment, TermValue, SameForLayout, SameValue, Terms
    <2> QED
      BY <2>1, <2>2 DEF Value, ValueSegment, Unknown, IsSimple, Cancels
  <1>2. ASSUME s.op \in {"equ", "times", "jump", "refer"}
        PROVE  /\ JumpIsShort(t1, s.arg, seg, here) = JumpIsShort(t2, s.arg, seg, here)
               /\ Times(t1, s, seg, here) = Times(t2, s, seg, here)
    BY <1>1, <1>2 DEF JumpIsShort, Times
  <1>3. Length(t1, s, seg, here) = Length(t2, s, seg, here)
    BY <1>2 DEF Length
  <1> QED
    BY <1>3 DEF PlaceAfter

(* A settled line stays so, unless a REQUIRED had yet to be read.          *)
LEMMA SettledStays ==
    ASSUME NEW t1 \in [Labels -> Entry], NEW t2 \in [Labels -> Entry],
           \A l \in Labels : SameForLayout(t1[l], t2[l]),
           NEW s \in Statements, NEW place,
           s.op = "declare" /\ t1[s.name].type = "extern" => s.type # "required",
           Settled(t1, s, place)
    PROVE  Settled(t2, s, place)
  <1> DEFINE seg == place.segment
             here == place.offsets[seg]
  <1>1. \A l \in Labels : \A x, v : StaysPut(t1[l], x, v) => StaysPut(t2[l], x, v)
    BY DEF StaysPut, SameForLayout, SameValue, is_extern
  <1>2. ASSUME s.op = "equ"
        PROVE  /\ Value(t1, s.arg, here) = Value(t2, s.arg, here)
               /\ ValueSegment(t1, s.arg, seg) = ValueSegment(t2, s.arg, seg)
    BY <1>2, StatementTypes, ValueDependsOnPlaces DEF SameForLayout, SameValue
  <1>3. s.op \in {"label", "equ", "declare"} => s.name \in Labels
    BY StatementTypes
  <1>4. /\ s.op = "label" => StaysPut(t2[s.name], seg, here)
        /\ s.op = "equ" => StaysPut(t2[s.name], ValueSegment(t2, s.arg, seg),
                                    Value(t2, s.arg, here))
    BY <1>1, <1>2, <1>3 DEF Settled
  <1>5. ASSUME s.op = "declare", s.type \in {"common", "extern", "required"},
               t2[s.name].type = s.type
        PROVE  StaysPut(t2[s.name], PSEUDO_SEG, DeclaredValue(s))
    <2>1. t1[s.name].type = s.type
      BY <1>3, <1>5 DEF SameForLayout
    <2> QED
      BY <1>1, <1>3, <1>5, <2>1 DEF Settled
  <1> QED
    BY <1>4, <1>5 DEF Settled

-----------------------------------------------------------------------------
(* Lines that change nothing.                                              *)

(* What holds while an assembly goes well that is past its first pass.     *)
GoesWell ==
    /\ TypeOK /\ InSection /\ PassNumbers /\ DefinedHaveSegments /\ DeclarationsHold
    /\ PassInvariantProgram /\ pass > 1 /\ errors = {}

LEMMA AllLinesCount ==
    ASSUME GoesWell, NEW n \in DOMAIN program
    PROVE  /\ program[n] \in Statements /\ Executes(program[n])
           /\ Prepares(program[n]) /\ Absorbed(program[n])
  <1>1. program[n] \in Statements /\ program[n].when = "always"
    BY ProgramsAssumption, ElementOfSeq, LenProperties
       DEF GoesWell, TypeOK, PassInvariantProgram
  <1>2. Prepares(program[n]) /\ Executes(program[n])
    BY <1>1 DEF Prepares, Executes
  <1> QED
    BY <1>1, <1>2 DEF GoesWell, DeclarationsHold, Passed

LEMMA LineOfProgram ==
    ASSUME TypeOK, InSection, LineStep
    PROVE  line \in DOMAIN program
  BY LineIsRead, LenProperties, ProgramsAssumption DEF TypeOK

(* A line that counts no change leaves the table as good as it was.        *)
LEMMA QuietTables ==
    ASSUME GoesWell, LineStep, errors' = {},
           global_offset_changed' = global_offset_changed, NEW l \in Labels
    PROVE  SameForLayout(labels[l], labels'[l])
  <1> DEFINE s == program[line]
  <1>0. /\ labels \in [Labels -> Entry] /\ pass \in Nat /\ next_seg \in Nat
        /\ TypeOK /\ InSection /\ line \in DOMAIN program
        /\ PassNumbers /\ DeclarationsHold /\ pass > 1 /\ errors = {}
    BY LineOfProgram DEF GoesWell, TypeOK
  <1>1. s \in Statements /\ Prepares(s)
    BY <1>0, AllLinesCount
  <1>2. ASSUME LookedUpOnly(labels[l], labels'[l]) PROVE SameForLayout(labels[l], labels'[l])
    BY <1>0, <1>2, LookupFacts DEF SameForLayout, SameValue, Found
  <1>3. CASE Looks(s) \/ Declares(s)
    <2>1. \A x : x = s => LookedUpOnly(labels[l], labels'[l])
      BY <1>0, <1>1, <1>3, StableOther
    <2> QED
      BY <1>2, <2>1
  <1>4. ASSUME NEW table, NEW seg, NEW sent, DefinesFrom(s, table, seg, sent)
        PROVE  SameForLayout(labels[l], labels'[l])
    <2> DEFINE entry == table[s.name]
               new == DefinedEntry(s.name, entry, seg, sent, next_seg, pass)
               after == EntryAfterSymdef(entry, seg, new, pass, ptype)
    <2>1. /\ entry \in Entry /\ labels'[s.name] = after
          /\ \A k \in Labels \ {s.name} : LookedUpOnly(labels[k], labels'[k])
      BY <1>0, <1>4, DefineEffects
    <2>2. CASE l # s.name
      BY <1>2, <2>1, <2>2
    <2>3. CASE l = s.name
      <3>1. SameValue(entry, new) /\ Found(entry)
        BY <1>0, <1>4, QuietDefine
      <3>2. /\ entry.type = labels[s.name].type /\ entry.defined = labels[s.name].defined
            /\ SameValue(entry, labels[s.name]) /\ new.type = entry.type
        BY <1>0, <1>1, <1>4, StableDefine
      <3>3. /\ after.segment = new.segment /\ after.offset = new.offset
            /\ after.size = new.size /\ after.defined = pass + 1
            /\ after.type = IF HandedOver(entry, seg, new, pass, ptype)
                               /\ new.type = "extern"
                            THEN "required" ELSE new.type
        BY <1>0, <1>4, <2>1, DefinedFacts DEF DefinesFrom
      <3> HIDE DEF entry, new, after
      <3> QED
        BY <1>0, <2>1, <2>3, <3>1, <3>2, <3>3 DEF SameForLayout, SameValue, Found
    <2> QED
      BY <2>2, <2>3
  <1> QED
    BY <1>3, <1>4, LineEffects, <1>0

(* A settled line counts no change.                                        *)
LEMMA SettledIsQuiet ==
    ASSUME GoesWell, LineStep, Settled(labels, program[line], CurrentPlace)
    PROVE  global_offset_changed' = global_offset_changed
  <1> DEFINE s == program[line]
  <1>0. /\ labels \in [Labels -> Entry] /\ global_offset_changed \in Nat
        /\ TypeOK /\ InSection /\ line \in DOMAIN program
        /\ PassNumbers /\ DeclarationsHold /\ pass > 1 /\ errors = {}
        /\ DefinedHaveSegments
    BY LineOfProgram DEF GoesWell, TypeOK
  <1>1. s \in Statements /\ Prepares(s)
    BY <1>0, AllLinesCount
  <1>2. CASE Looks(s) \/ Declares(s)
    BY <1>2 DEF Looks, Declares
  <1>3. ASSUME NEW table, NEW seg, NEW sent, DefinesFrom(s, table, seg, sent)
        PROVE  global_offset_changed' = global_offset_changed
    <2> DEFINE entry == table[s.name]
               old == labels[s.name]
               new == DefinedEntry(s.name, entry, seg, sent, next_seg, pass)
    <2>1. /\ entry.type = old.type /\ entry.defined = old.defined
          /\ SameValue(entry, old) /\ ~Promoted(entry, seg) /\ new.type = entry.type
          /\ s.op = "declare" => old.type = s.type
      BY <1>0, <1>1, <1>3, StableDefine
    <2>2. StaysPut(old, seg, sent)
      <3>1. /\ CurrentPlace.segment = segment
            /\ CurrentPlace.offsets[CurrentPlace.segment] = Here
        BY DEF CurrentPlace, Here
      <3>2. s.op \in {"label", "equ", "declare"} /\ GivenBy(s, seg, sent)
            /\ (s.op = "declare" => s.type \in {"common", "extern", "required"})
        BY <1>3 DEF DefinesFrom, Prepared
      <3>3. CASE s.op = "label"
        BY <3>1, <3>2, <3>3 DEF Settled, GivenBy
      <3>4. CASE s.op = "equ"
        BY <3>1, <3>2, <3>4 DEF Settled, GivenBy
      <3>5. CASE s.op = "declare"
        BY <2>1, <3>1, <3>2, <3>5 DEF Settled, GivenBy
      <3> QED
        BY <3>2, <3>3, <3>4, <3>5
    <2>3. /\ new.segment = DefinedSegment(entry, seg, next_seg)
          /\ new.offset = IF new.type = "common" THEN 0 ELSE sent
          /\ new.size = IF new.type = "common" THEN sent ELSE 0
      BY DEF DefinedEntry
    <2>4. ~Changed(entry, seg, new)
      <3> HIDE DEF new, entry, old
      <3>1. LastDef(entry, seg) # 0
        BY <2>1, <2>2 DEF LastDef, StaysPut, Found
      <3>2. SameValue(entry, new)
        BY <2>1, <2>2, <2>3 DEF SameValue, StaysPut, DefinedSegment, PSEUDO_SEG
      <3> QED
        BY <3>1, <3>2 DEF Changed
    <2>5. global_offset_changed' =
             global_offset_changed + (IF Changed(entry, seg, new) THEN 1 ELSE 0)
      BY <1>3 DEF DefinesFrom, Define
    <2> HIDE DEF new, entry
    <2> QED
      BY <1>0, <2>4, <2>5
  <1> QED
    BY <1>0, <1>2, <1>3, LineEffects

(* A line of an optimization pass that counts no change is settled.        *)
LEMMA QuietIsSettled ==
    ASSUME GoesWell, LineStep, errors' = {}, ptype # "final",
           global_offset_changed' = global_offset_changed
    PROVE  Settled(labels, program[line], CurrentPlace)
  <1> DEFINE s == program[line]
             old == labels[s.name]
  <1>0. /\ labels \in [Labels -> Entry] /\ TypeOK /\ InSection
        /\ PassNumbers /\ DeclarationsHold /\ pass > 1 /\ errors = {}
        /\ line \in DOMAIN program /\ DefinedHaveSegments
    BY LineOfProgram DEF GoesWell, TypeOK
  <1>1. s \in Statements /\ Prepares(s) /\ Executes(s) /\ Absorbed(s)
    BY <1>0, AllLinesCount
  <1>2. /\ CurrentPlace.segment = segment
        /\ CurrentPlace.offsets[CurrentPlace.segment] = Here
    BY DEF CurrentPlace, Here
  <1>3. CASE Looks(s)
    BY <1>1, <1>3 DEF Looks, Settled, pass_final
  <1>4. CASE Declares(s)
    <2>1. s.op = "declare" /\ ~DeclareError(old, s.type, ptype)
      BY <1>4 DEF Declares
    <2>2. DeclareAccepted(old, s.type, ptype) <=> old.type = s.type
      BY <1>0, <1>1, <2>1, DeclaredAgain
    <2> QED
      BY <1>4, <2>1, <2>2 DEF Declares, Settled
  <1>5. ASSUME NEW table, NEW seg, NEW sent, DefinesFrom(s, table, seg, sent)
        PROVE  Settled(labels, s, CurrentPlace)
    <2> DEFINE entry == table[s.name]
               new == DefinedEntry(s.name, entry, seg, sent, next_seg, pass)
    <2>1. /\ entry.type = old.type /\ entry.defined = old.defined
          /\ SameValue(entry, old) /\ new.type = entry.type
      BY <1>0, <1>1, <1>5, StableDefine
    <2>2. SameValue(entry, new) /\ ~Promoted(entry, seg) /\ Found(entry)
      BY <1>0, <1>5, QuietDefine
    <2>3. /\ new.segment = DefinedSegment(entry, seg, next_seg)
          /\ new.offset = IF new.type = "common" THEN 0 ELSE sent
          /\ new.size = IF new.type = "common" THEN sent ELSE 0
      BY DEF DefinedEntry
    <2>4. old.segment # 0 /\ s.name \in Labels
      <3>1. s.name \in Labels /\ Found(old)
        BY <1>5, <2>1, <2>2 DEF DefinesFrom, Found
      <3> QED
        BY <1>0, <3>1 DEF DefinedHaveSegments, PSEUDO_SEG
    <2>5. StaysPut(old, seg, sent)
      <3> HIDE DEF new, entry, old
      <3> QED
        BY <2>1, <2>2, <2>3, <2>4
           DEF StaysPut, SameValue, Promoted, Found, DefinedSegment, PSEUDO_SEG
    <2>6. s.op \in {"label", "equ", "declare"} /\ GivenBy(s, seg, sent)
      BY <1>5 DEF DefinesFrom
    <2> QED
      BY <1>2, <2>5, <2>6 DEF Settled, GivenBy
  <1> QED
    BY <1>0, <1>3, <1>4, <1>5, LineEffects

-----------------------------------------------------------------------------
(* The route through the program.                                          *)

(* A stretch of the route stays one over a line that counts no change.     *)
LEMMA RouteStays ==
    ASSUME GoesWell, LineStep, errors' = {}, TypeOK',
           global_offset_changed' = global_offset_changed,
           NEW n \in DOMAIN program, NEW here, NEW next,
           Settled(labels, program[n], here),
           next = PlaceAfter(labels, program[n], here)
    PROVE  /\ Settled(labels', program[n], here)
           /\ next = PlaceAfter(labels', program[n], here)
  <1>1. \A l \in Labels : SameForLayout(labels[l], labels'[l])
    BY QuietTables
  <1>2. /\ program[n] \in Statements /\ Absorbed(program[n])
        /\ labels \in [Labels -> Entry] /\ labels' \in [Labels -> Entry]
    BY AllLinesCount DEF GoesWell, TypeOK
  <1>3. program[n].op = "declare" /\ labels[program[n].name].type = "extern"
           => program[n].type # "required"
    BY <1>2 DEF Absorbed, is_global
  <1>4. Settled(labels', program[n], here)
    BY <1>1, <1>2, <1>3, SettledStays
  <1>5. PlaceAfter(labels, program[n], here) = PlaceAfter(labels', program[n], here)
    BY <1>1, <1>2, SameLengths
  <1> QED
    BY <1>4, <1>5

(* On a complete route a line changes nothing and leaves the route one.    *)
LEMMA RouteGoesOn ==
    ASSUME GoesWell, LineStep, errors' = {}, TypeOK',
           NEW places \in Routes, IsRoute(places, Len(program) + 1), OnRoute(places)
    PROVE  /\ global_offset_changed' = global_offset_changed
           /\ places \in Routes' /\ OnRoute(places)'
           /\ IsRoute(places, Len(program) + 1)'
  <1> DEFINE s == program[line]
             len == Len(program)
  <1>0. /\ line \in 1 .. len /\ DOMAIN program = 1 .. len
        /\ len \in Nat /\ line' = line + 1 /\ line # 0 /\ line' # 0
        /\ program' = program /\ Executes(s)
    <2>1. TypeOK /\ InSection
      BY DEF GoesWell
    <2>2. line \in 1 .. len /\ line' = line + 1 /\ program' = program
      BY <2>1, LineIsRead DEF passVars
    <2>3. len \in Nat /\ DOMAIN program = 1 .. len
      BY <2>1, LenProperties, ProgramsAssumption DEF TypeOK
    <2>4. Executes(s)
      BY <2>2, <2>3, AllLinesCount
    <2> QED
      BY <2>2, <2>3, <2>4
  <1>1. CurrentPlace' = PlaceAfter(labels, s, CurrentPlace)
    BY <1>0, LineAdvances DEF GoesWell
  <1>2. places[line] = CurrentPlace
    BY <1>0 DEF OnRoute, CurrentPlace
  <1>3. \A n \in 1 .. len :
           /\ Settled(labels, program[n], places[n])
           /\ places[n + 1] = PlaceAfter(labels, program[n], places[n])
    BY <1>0 DEF IsRoute
  <1>4. global_offset_changed' = global_offset_changed
    BY <1>0, <1>2, <1>3, SettledIsQuiet
  <1>5. \A n \in 1 .. len :
           /\ Settled(labels', program[n], places[n])
           /\ places[n + 1] = PlaceAfter(labels', program[n], places[n])
    BY <1>0, <1>3, <1>4, RouteStays
  <1>6. places[1] = FirstPlace /\ places[line + 1] = CurrentPlace'
    BY <1>0, <1>1, <1>2, <1>3 DEF IsRoute
  <1>7. places \in Routes'
    BY <1>0 DEF Routes
  <1> QED
    BY <1>0, <1>4, <1>5, <1>6, <1>7 DEF IsRoute, OnRoute, CurrentPlace

LEMMA LayoutInvLine ==
    ASSUME GoesWell, LineStep, errors' = {}, TypeOK', InSection',
           SettlesLines, StaysSettled
    PROVE  SettlesLines' /\ StaysSettled'
  <1> DEFINE s == program[line]
             len == Len(program)
  <1>0. /\ line \in 1 .. len /\ line \in DOMAIN program /\ DOMAIN program = 1 .. len
        /\ len \in Nat /\ line' = line + 1 /\ line # 0 /\ line' # 0
        /\ UNCHANGED <<program, ptype, pass>> /\ global_offset_changed \in Nat
        /\ s \in Statements /\ Executes(s) /\ segment \in Sections
    <2>1. TypeOK /\ InSection
      BY DEF GoesWell
    <2>2. /\ line \in 1 .. len /\ line' = line + 1 /\ s \in Statements
          /\ segment \in Sections /\ UNCHANGED passVars
      BY <2>1, LineIsRead
    <2>3. /\ program \in Programs /\ global_offset_changed \in Nat
          /\ UNCHANGED <<program, ptype, pass>>
      BY <2>1, <2>2 DEF TypeOK, passVars
    <2>4. len \in Nat /\ DOMAIN program = 1 .. len
      BY <2>3, LenProperties, ProgramsAssumption
    <2>5. Executes(s)
      BY <2>2, <2>4, AllLinesCount
    <2> QED
      BY <2>2, <2>3, <2>4, <2>5
  <1>1. CurrentPlace' = PlaceAfter(labels, s, CurrentPlace)
    BY <1>0, LineAdvances DEF GoesWell
  <1>2. CurrentPlace' \in Place
    <2>1. segment' \in Sections /\ offsets' \in [Sections -> Int]
      BY <1>0 DEF TypeOK, InSection
    <2> QED
      BY <2>1 DEF CurrentPlace, Place
  <1>3. ASSUME ptype = "opt", global_offset_changed' = 0
        PROVE  SettlesLines'
    <2>1. global_offset_changed = 0
      BY <1>0, <1>3, ChangesGrow DEF GoesWell
    <2>2. PICK places \in Routes : IsRoute(places, line) /\ places[line] = CurrentPlace
      BY <1>0, <1>3, <2>1 DEF SettlesLines, OnRoute, CurrentPlace
    <2> DEFINE after == [places EXCEPT ![line + 1] = CurrentPlace']
    <2>3. places \in [1 .. len + 1 -> Place] /\ line + 1 \in 1 .. len + 1
      BY <1>0, <2>2 DEF Routes
    <2>4. /\ after \in [1 .. len + 1 -> Place]
          /\ after[line + 1] = CurrentPlace'
          /\ \A n \in 1 .. line : after[n] = places[n]
      BY <1>0, <1>2, <2>3
    <2> HIDE DEF after
    <2>5. Settled(labels, s, CurrentPlace)
      BY <1>3, <2>1, QuietIsSettled
    <2>6. ASSUME NEW n \in 1 .. len, n < line + 1
          PROVE  /\ Settled(labels, program[n], after[n])
                 /\ after[n + 1] = PlaceAfter(labels, program[n], after[n])
      <3>1. CASE n < line
        <4>1. n \in 1 .. line /\ n + 1 \in 1 .. line
          BY <1>0, <3>1
        <4> QED
          BY <2>2, <2>4, <3>1, <4>1 DEF IsRoute
      <3>2. CASE n = line
        BY <1>0, <1>1, <2>2, <2>4, <2>5, <3>2
      <3> QED
        BY <1>0, <2>6, <3>1, <3>2
    <2>7. \A n \in 1 .. len : n < line + 1 =>
             /\ Settled(labels', program[n], after[n])
             /\ after[n + 1] = PlaceAfter(labels', program[n], after[n])
      BY <1>0, <1>3, <2>1, <2>6, RouteStays
    <2>8. after[1] = FirstPlace
      BY <1>0, <2>2, <2>4 DEF IsRoute
    <2> QED
      BY <1>0, <2>4, <2>7, <2>8 DEF SettlesLines, Routes, IsRoute, OnRoute, CurrentPlace
  <1>4. ASSUME pass_stable(ptype)
        PROVE  StaysSettled'
    <2>1. PICK places \in Routes : IsRoute(places, len + 1) /\ OnRoute(places)
      BY <1>4 DEF StaysSettled
    <2>2. /\ global_offset_changed' = global_offset_changed
          /\ places \in Routes' /\ OnRoute(places)'
          /\ IsRoute(places, Len(program) + 1)'
      BY <2>1, RouteGoesOn
    <2>3. global_offset_changed' = 0
      BY <1>4, <2>2 DEF StaysSettled
    <2> QED
      BY <2>2, <2>3 DEF StaysSettled
  <1>5. pass_stable(ptype) => ptype # "opt"
    BY DEF pass_stable
  <1> QED
    BY <1>0, <1>3, <1>4, <1>5 DEF SettlesLines, StaysSettled

LEMMA LayoutInvLoop ==
    ASSUME TypeOK, InSection, SettlesLines, StaysSettled, LoopStep
    PROVE  SettlesLines' /\ StaysSettled'
  <1> DEFINE len == Len(program)
  <1>0. len \in Nat /\ UNCHANGED <<program, labels>>
    BY LoopKeeps, ProgramsAssumption, LenProperties DEF TypeOK
  <1>1. \A places, m :
           IsRoute(places, m) =>
              /\ places[1] = FirstPlace
              /\ \A n \in 1 .. len : n < m =>
                    /\ Settled(labels', program'[n], places[n])
                    /\ places[n + 1] = PlaceAfter(labels', program'[n], places[n])
    BY <1>0 DEF IsRoute
  <1>2. CASE BeginPass
    <2>1. /\ CurrentPlace' = FirstPlace /\ line' = 1 /\ global_offset_changed' = 0
          /\ line = 0 /\ ptype' = NextPassType
      BY <1>2 DEF BeginPass, CurrentPlace, FirstPlace
    <2>2. CASE ptype' = "opt"
      <3> DEFINE places == [n \in 1 .. len + 1 |-> FirstPlace]
      <3>1. FirstPlace \in Place
        BY SegmentsAssumption DEF FirstPlace, Place
      <3>2. places \in Routes'
        BY <1>0, <3>1 DEF Routes
      <3>3. places[1] = FirstPlace /\ \A n \in 1 .. len : ~(n < 1)
        BY <1>0
      <3> HIDE DEF places
      <3>4. SettlesLines'
        BY <1>0, <2>1, <3>2, <3>3 DEF SettlesLines, OnRoute, IsRoute, CurrentPlace
      <3> QED
        BY <2>2, <3>4 DEF StaysSettled, pass_stable
    <2>3. CASE ptype' \in {"stab", "final"}
      <3>1. \E places \in Routes : IsRoute(places, len + 1)
        <4>1. CASE ptype = "opt"
          BY <2>1, <2>3, <4>1 DEF NextPassType, SettlesLines
        <4>2. CASE ptype # "opt"
          <5>1. pass_stable(ptype)
            BY <2>1, <2>3, <4>2 DEF NextPassType, pass_stable, TypeOK, PassTypes
          <5> QED
            BY <5>1 DEF StaysSettled
        <4> QED
          BY <4>1, <4>2
      <3>2. PICK places \in Routes : IsRoute(places, len + 1)
        BY <3>1
      <3>3. /\ places[1] = FirstPlace /\ places \in Routes'
            /\ \A n \in 1 .. len : n < len + 1 =>
                  /\ Settled(labels', program'[n], places[n])
                  /\ places[n + 1] = PlaceAfter(labels', program'[n], places[n])
        BY <1>0, <1>1, <3>2 DEF Routes
      <3> QED
        BY <1>0, <2>1, <2>3, <3>3
           DEF StaysSettled, SettlesLines, OnRoute, CurrentPlace, IsRoute
    <2>4. CASE ptype' \notin {"opt", "stab", "final"}
      BY <2>4 DEF StaysSettled, SettlesLines, pass_stable
    <2> QED
      BY <2>2, <2>3, <2>4
  <1>3. CASE EndPass
    <2>1. /\ line = len + 1 /\ line' = 0 /\ line # 0
          /\ UNCHANGED <<ptype, global_offset_changed>>
      BY <1>0, <1>3 DEF EndPass
    <2>2. SettlesLines'
      BY <1>0, <2>1 DEF SettlesLines, OnRoute, IsRoute, Routes
    <2>3. StaysSettled'
      BY <1>0, <2>1 DEF StaysSettled, OnRoute, IsRoute, Routes
    <2> QED
      BY <2>2, <2>3
  <1>4. CASE Finish
    <2>1. UNCHANGED <<ptype, line, global_offset_changed, segment, offsets>>
      BY <1>4 DEF Finish
    <2> QED
      BY <1>0, <2>1 DEF SettlesLines, StaysSettled, OnRoute, IsRoute, Routes
  <1> QED
    BY <1>2, <1>3, <1>4 DEF LoopStep

(* Everything the proofs about the two passes after the optimizer rest on. *)
SettledInv == TypeOK /\ InSection /\ SymbolInv /\ LayoutInv

LEMMA SettledInvInit == Init => SettledInv
  <1> SUFFICES ASSUME Init PROVE SettledInv
    OBVIOUS
  <1>1. ptype = "init"
    BY DEF Init
  <1>2. LayoutInv
    BY <1>1 DEF LayoutInv, SettlesLines, StaysSettled, pass_stable
  <1> QED
    BY <1>2, TypesInit, SymbolInvInit DEF SettledInv

LEMMA SettledInvStep ==
    ASSUME SettledInv, [Next]_vars
    PROVE  SettledInv'
  <1>1. TypeOK' /\ InSection' /\ SymbolInv'
    BY TypesStep, SymbolInvStep DEF SettledInv
  <1>2. CASE Next
    <2> SUFFICES ASSUME PassInvariantProgram', errors' = {}
                 PROVE  SettlesLines' /\ StaysSettled'
      BY <1>1 DEF SettledInv, LayoutInv
    <2>1. /\ PassInvariantProgram /\ errors = {} /\ SettlesLines /\ StaysSettled
          /\ TypeOK /\ InSection /\ SymbolInv
      BY <1>2, ProgramStays, ErrorsStay DEF SettledInv, LayoutInv, PassInvariantProgram
    <2>2. CASE LoopStep
      BY <2>1, <2>2, LayoutInvLoop
    <2>3. CASE LineStep /\ pass > 1
      <3>1. GoesWell
        BY <2>1, <2>3 DEF GoesWell, SymbolInv
      <3> QED
        BY <1>1, <2>1, <2>3, <3>1, LayoutInvLine
    <2>4. CASE LineStep /\ ~(pass > 1)
      <3>1. pass \in {0, 1} /\ PassNumbers
        BY <2>1, <2>4 DEF SymbolInv, TypeOK
      <3>2. ptype \in {"init", "first"}
        BY <3>1 DEF PassNumbers
      <3>3. ptype' = ptype
        BY <2>1, <2>4, LineIsRead DEF passVars
      <3> QED
        BY <3>2, <3>3 DEF SettlesLines, StaysSettled, pass_stable
    <2> QED
      BY <1>2, <2>2, <2>3, <2>4, NextIsLineOrLoop
  <1>3. CASE UNCHANGED vars
    BY <1>1, <1>3 DEF vars, SettledInv, LayoutInv, PassInvariantProgram, SettlesLines,
       StaysSettled, Routes, IsRoute, OnRoute
  <1> QED
    BY <1>2, <1>3

(* In a program that does not ask which pass it is in, nothing moves in the*)
(* stabilization and the final pass until something else is wrong: what the*)
(* last optimization pass left unchanged, each line finds and leaves as it *)
(* was (define_label; the "phase error" of assemble_file is not reached).  *)
THEOREM NothingMovesOnceStable == Spec => []NoPhaseErrors
  <1>1. Init => SettledInv
    BY SettledInvInit
  <1>2. SettledInv /\ [Next]_vars => SettledInv'
    BY SettledInvStep
  <1>3. SettledInv => NoPhaseErrors
    BY DEF SettledInv, LayoutInv, StaysSettled, NoPhaseErrors
  <1> QED
    BY <1>1, <1>2, <1>3, PTL DEF Spec

-----------------------------------------------------------------------------
(* The first pass of a program that refers to nothing below.               *)

FirstGoesWell ==
    /\ TypeOK /\ InSection /\ PassNumbers /\ DefinedHaveSegments /\ DeclarationsHold
    /\ BackendLabelsStay
    /\ PassInvariantProgram /\ NoForwardReferences /\ errors = {}
    /\ ptype = "first" /\ FirstDefinitions

LEMMA FirstLines ==
    ASSUME FirstGoesWell, LineStep
    PROVE  /\ labels \in [Labels -> Entry] /\ pass \in Nat /\ next_seg \in Nat
           /\ Len(program) \in Nat /\ DOMAIN program = 1 .. Len(program)
           /\ line \in 1 .. Len(program) /\ line' = line + 1 /\ pass = 1
           /\ UNCHANGED <<program, ptype, pass>>
           /\ segment \in Sections /\ TypeOK' /\ InSection'
           /\ \A n \in DOMAIN program :
                 /\ program[n] \in Statements
                 /\ Prepares(program[n]) /\ Executes(program[n])
           /\ \A n \in DOMAIN program :
                 n < line => Passed(n) /\ Absorbed(program[n])
  <1>1. /\ labels \in [Labels -> Entry] /\ pass \in Nat /\ next_seg \in Nat
        /\ program \in Programs
    BY DEF FirstGoesWell, TypeOK
  <1>2. Len(program) \in Nat /\ DOMAIN program = 1 .. Len(program)
    BY <1>1, LenProperties, ProgramsAssumption
  <1>3. /\ line \in 1 .. Len(program) /\ line' = line + 1
        /\ UNCHANGED <<program, ptype, pass>>
        /\ segment \in Sections /\ TypeOK' /\ InSection'
    BY LineIsRead DEF FirstGoesWell, passVars
  <1>4. pass = 1
    BY DEF FirstGoesWell, PassNumbers
  <1>5. ASSUME NEW n \in DOMAIN program
        PROVE  /\ program[n] \in Statements
               /\ Prepares(program[n]) /\ Executes(program[n])
    <2>1. program[n] \in Statements /\ program[n].when = "always"
      BY <1>1, ProgramsAssumption, ElementOfSeq, LenProperties
         DEF FirstGoesWell, PassInvariantProgram
    <2> QED
      BY <2>1 DEF Prepares, Executes
  <1>6. ASSUME NEW n \in DOMAIN program, n < line
        PROVE  Passed(n) /\ Absorbed(program[n])
    BY <1>4, <1>5, <1>6 DEF Passed, FirstGoesWell, DeclarationsHold
  <1> QED
    BY <1>1, <1>2, <1>3, <1>4, <1>5, <1>6

(* A declaration undefines an EXTERN or REQUIRED only, and then gives it   *)
(* another type.                                                           *)
LEMMA DeclaredStaysDefined ==
    ASSUME NEW entry \in Entry, NEW type \in DeclaredTypes, NEW pt, Found(entry),
           \/ ~is_extern(entry.type)
           \/ DeclaredEntry(entry, type, pt).type = entry.type
    PROVE  DeclaredEntry(entry, type, pt).defined = entry.defined
  <1> DEFINE old == TypeBeforeDeclare(entry, type, pt)
             new == DeclaredEntry(entry, type, pt)
  <1>1. /\ new.defined = IF Overrides(old, type) /\ ~Agrees(old, type)
                         THEN 0 ELSE entry.defined
        /\ new.type = IF DeclareAccepted(entry, type, pt) THEN type ELSE old
    BY DeclaredFacts
  <1> SUFFICES ASSUME Overrides(old, type) PROVE FALSE
    BY <1>1
  <1>2. is_extern(old) /\ is_global(type) /\ DeclareAccepted(entry, type, pt)
    BY DEF Overrides, DeclareAccepted
  <1>3. is_extern(entry.type)
    BY <1>2 DEF TypeBeforeDeclare, is_extern, is_global
  <1> QED
    BY <1>1, <1>2, <1>3 DEF is_extern, is_global

(* What define_label leaves before the stabilization pass.                 *)
LEMMA DefinedInFirst ==
    ASSUME FirstGoesWell, LineStep, NEW s, s = program[line],
           NEW table, NEW seg, NEW sent, DefinesFrom(s, table, seg, sent)
    PROVE  LET entry == table[s.name]
               new == DefinedEntry(s.name, entry, seg, sent, next_seg, pass)
               after == labels'[s.name]
           IN  /\ entry \in Entry /\ new \in Entry /\ s.name \in Labels
               /\ after.segment = new.segment /\ after.offset = new.offset
               /\ after.size = new.size /\ after.defined = pass + 1
               /\ after.type = new.type /\ new.type = DefinedType(s.name, entry, seg)
               /\ new.segment = DefinedSegment(entry, seg, next_seg)
               /\ new.offset = IF new.type = "common" THEN 0 ELSE sent
               /\ new.size = IF new.type = "common" THEN sent ELSE 0
  <1> DEFINE entry == table[s.name]
             new == DefinedEntry(s.name, entry, seg, sent, next_seg, pass)
             after == EntryAfterSymdef(entry, seg, new, pass, ptype)
  <1>0. TypeOK /\ pass \in Nat /\ next_seg \in Nat /\ ptype = "first"
    BY DEF FirstGoesWell, TypeOK
  <1>1. entry \in Entry /\ new \in Entry /\ labels'[s.name] = after
    BY <1>0, DefineEffects
  <1>2. s.name \in Labels /\ seg \in Int /\ sent \in Int
    BY DEF DefinesFrom
  <1>3. /\ new.type = DefinedType(s.name, entry, seg)
        /\ new.segment = DefinedSegment(entry, seg, next_seg)
        /\ new.offset = IF new.type = "common" THEN 0 ELSE sent
        /\ new.size = IF new.type = "common" THEN sent ELSE 0
        /\ after.segment = new.segment /\ after.offset = new.offset
        /\ after.size = new.size /\ after.defined = pass + 1
        /\ after.type = IF HandedOver(entry, seg, new, pass, ptype)
                           /\ new.type = "extern"
                        THEN "required" ELSE new.type
    BY <1>0, <1>1, <1>2, DefinedFacts
  <1>4. HandedOver(entry, seg, new, pass, ptype) => new.type = "backend"
    BY <1>0 DEF HandedOver
  <1> HIDE DEF entry, new, after
  <1>5. after.type = new.type
    BY <1>3, <1>4
  <1> QED
    BY <1>1, <1>2, <1>3, <1>5 DEF entry, new

(* What was defined in this pass keeps its value, or is redefined.         *)
LEMMA DefinedOnce ==
    ASSUME FirstGoesWell, LineStep, errors' = {}, NEW l \in Labels,
           labels[l].defined = pass + 1,
           ~is_extern(labels[l].type) \/ labels'[l].type = labels[l].type
    PROVE  /\ labels'[l].defined = pass + 1 /\ SameValue(labels[l], labels'[l])
           /\ labels'[l].type = "common" =>
                 labels[l].type = "common" \/ labels'[l].offset = 0
  <1> DEFINE s == program[line]
             old == labels[l]
             after == labels'[l]
  <1>0. /\ TypeOK /\ InSection /\ DefinedHaveSegments /\ ptype = "first"
        /\ labels \in [Labels -> Entry] /\ old \in Entry /\ pass \in Nat
        /\ next_seg \in Nat /\ s \in Statements /\ Found(old)
    BY FirstLines DEF FirstGoesWell, Found
  <1>1. ASSUME NEW x \in Entry, LookedUpOnly(old, x)
        PROVE  x.defined = old.defined /\ SameValue(old, x) /\ x.type = old.type
    BY <1>0, <1>1, LookupFacts DEF SameValue
  <1>2. ASSUME LookedUpOnly(old, after)
        PROVE  after.defined = pass + 1 /\ SameValue(old, after) /\ after.type = old.type
    BY <1>0, <1>2, LookupFacts DEF SameValue
  <1>3. CASE Looks(s)
    BY <1>2, <1>3 DEF Looks
  <1>4. ASSUME s.op = "declare", l = s.name,
               ~is_extern(old.type) \/ Declared(s).type = old.type
        PROVE  /\ Declared(s) \in Entry /\ s.type \in DeclaredTypes
               /\ Declared(s).defined = pass + 1 /\ SameValue(old, Declared(s))
               /\ Declared(s).type = IF DeclareAccepted(old, s.type, ptype) THEN s.type
                                     ELSE TypeBeforeDeclare(old, s.type, ptype)
    <2>1. s.type \in DeclaredTypes
      BY <1>0, <1>4, StatementTypes
    <2>2. /\ Declared(s) \in Entry /\ SameValue(old, Declared(s))
          /\ Declared(s).type = IF DeclareAccepted(old, s.type, ptype) THEN s.type
                                ELSE TypeBeforeDeclare(old, s.type, ptype)
      BY <1>0, <1>4, <2>1, DeclaredFacts DEF Declared, SameValue
    <2>3. Declared(s).defined = old.defined
      BY <1>0, <1>4, <2>1, DeclaredStaysDefined DEF Declared
    <2> QED
      BY <2>1, <2>2, <2>3
  <1>5. CASE Declares(s)
    <2>1. CASE l # s.name
      BY <1>0, <1>2, <1>5, <2>1 DEF Declares, LookedUpOnly
    <2>2. CASE l = s.name
      <3>1. after = Declared(s) /\ s.op = "declare"
        BY <1>0, <1>5, <2>2 DEF Declares
      <3>2. /\ Declared(s).defined = pass + 1 /\ SameValue(old, Declared(s))
            /\ Declared(s).type = IF DeclareAccepted(old, s.type, ptype) THEN s.type
                                  ELSE TypeBeforeDeclare(old, s.type, ptype)
        BY <1>4, <2>2, <3>1
      <3>3. ASSUME Declared(s).type = "common" PROVE old.type = "common"
        <4>1. ~DeclareAccepted(old, s.type, ptype)
          BY <1>5, <2>2, <3>2, <3>3 DEF Declares
        <4> QED
          BY <3>2, <3>3, <4>1 DEF TypeBeforeDeclare, DeclareAccepted, Agrees
      <3> QED
        BY <3>1, <3>2, <3>3
    <2> QED
      BY <2>1, <2>2
  <1>6. ASSUME NEW table, NEW seg, NEW sent, DefinesFrom(s, table, seg, sent)
        PROVE  /\ after.defined = pass + 1 /\ SameValue(old, after)
               /\ after.type = "common" => after.offset = 0 \/ old.type = "common"
    <2> DEFINE entry == table[s.name]
               new == DefinedEntry(s.name, entry, seg, sent, next_seg, pass)
    <2>1. CASE l # s.name
      <3>1. LookedUpOnly(old, after)
        BY <1>0, <1>6, <2>1, DefineEffects
      <3> QED
        BY <1>2, <3>1
    <2>2. CASE l = s.name
      <3>1. /\ entry \in Entry /\ new \in Entry
            /\ after.segment = new.segment /\ after.offset = new.offset
            /\ after.size = new.size /\ after.defined = pass + 1
            /\ after.type = new.type /\ new.type = DefinedType(s.name, entry, seg)
            /\ new.offset = IF new.type = "common" THEN 0 ELSE sent
        BY <1>6, <2>2, DefinedInFirst
      <3>2. entry.defined = pass + 1 /\ SameValue(old, entry) /\ ~Promoted(entry, seg)
        <4>1. CASE s.op \in {"label", "equ"}
          <5>1. LookedUpOnly(old, entry)
            BY <1>6, <2>2, <4>1 DEF DefinesFrom, Prepared
          <5>2. entry.defined = pass + 1 /\ SameValue(old, entry) /\ entry.type = old.type
            BY <1>1, <3>1, <5>1
          <5>3. Promoted(entry, seg) => is_extern(entry.type) /\ new.type = "global"
            BY <3>1 DEF Promoted, DefinedType
          <5> HIDE DEF entry, new, old, after
          <5> QED
            BY <3>1, <5>2, <5>3 DEF is_extern, old, after
        <4>2. CASE s.op = "declare"
          <5>1. /\ s.type \in {"common", "extern", "required"} /\ seg = PSEUDO_SEG
                /\ entry = Declared(s) /\ DeclareAccepted(old, s.type, ptype)
            BY <1>6, <2>2, <4>2 DEF DefinesFrom, Prepared, GivenBy
          <5>2. Declared(s).type = s.type
            BY <1>0, <2>2, <4>2, <5>1, StatementTypes, DeclaredFacts DEF Declared
          <5>3. ~Promoted(entry, seg) /\ new.type = s.type
            <6> HIDE DEF new
            <6> QED
              BY <3>1, <5>1, <5>2 DEF Promoted, DefinedType
          <5>4. after.type = Declared(s).type
            BY <3>1, <5>2, <5>3
          <5>5. Declared(s).defined = pass + 1 /\ SameValue(old, Declared(s))
            BY <1>4, <2>2, <4>2, <5>4
          <5> QED
            BY <5>1, <5>3, <5>5
        <4> QED
          BY <1>6, <4>1, <4>2 DEF DefinesFrom
      <3>3. Redefined(entry, seg, pass)
        BY <3>2 DEF Redefined, LastDef
      <3>4. ~Changed(entry, seg, new)
        BY <1>0, <1>6, <3>3, RepeatedDefine
      <3> HIDE DEF entry, new, old, after
      <3> QED
        BY <3>1, <3>2, <3>4 DEF Changed, SameValue
    <2> QED
      BY <2>1, <2>2
  <1> QED
    BY <1>0, <1>2, <1>3, <1>5, <1>6, LineEffects

(* The labels of an expression were defined above, and stay as they are.   *)
LEMMA ArgumentsStay ==
    ASSUME FirstGoesWell, LineStep, errors' = {},
           NEW n \in DOMAIN program, n <= line,
           program[n].op \in {"equ", "times", "jump", "refer"},
           NEW l \in {program[n].arg.plus, program[n].arg.minus} \cap Labels
    PROVE  Found(labels[l]) /\ Found(labels'[l]) /\ SameValue(labels[l], labels'[l])
  <1>1. /\ pass = 1 /\ DOMAIN program = 1 .. Len(program) /\ Len(program) \in Nat
        /\ line \in 1 .. Len(program)
        /\ \A k \in DOMAIN program : k < line => Passed(k) /\ Absorbed(program[k])
    BY FirstLines
  <1>2. DefinedAbove(n, l)
    BY DEF FirstGoesWell, NoForwardReferences
  <1>3. PICK m \in 1 .. n - 1 : program[m].op \in {"label", "equ"} /\ program[m].name = l
    BY <1>2 DEF DefinedAbove
  <1>4. m \in DOMAIN program /\ m < line
    BY <1>1, <1>3
  <1>5. Passed(m) /\ Absorbed(program[m])
    BY <1>1, <1>4
  <1>6. labels[l].defined = pass + 1
    BY <1>3, <1>4, <1>5 DEF FirstGoesWell, FirstDefinitions
  <1>7. ~is_extern(labels[l].type)
    BY <1>3, <1>5 DEF Absorbed
  <1>8. labels'[l].defined = pass + 1 /\ SameValue(labels[l], labels'[l])
    BY <1>6, <1>7, DefinedOnce
  <1> QED
    BY <1>1, <1>6, <1>8 DEF Found

(* So its value and the length of its line stay.                           *)
LEMMA LengthsStay ==
    ASSUME FirstGoesWell, LineStep, errors' = {},
           NEW n \in DOMAIN program, n <= line, NEW place
    PROVE  LET s == program[n]
               seg == place.segment
               here == place.offsets[seg]
           IN  /\ PlaceAfter(labels, s, place) = PlaceAfter(labels', s, place)
               /\ s.op = "equ" =>
                     /\ Value(labels, s.arg, here) = Value(labels', s.arg, here)
                     /\ ValueSegment(labels, s.arg, seg) = ValueSegment(labels', s.arg, seg)
  <1> DEFINE s == program[n]
             seg == place.segment
             here == place.offsets[seg]
  <1>0. /\ s \in Statements /\ labels \in [Labels -> Entry]
        /\ labels' \in [Labels -> Entry]
    BY FirstLines DEF TypeOK
  <1>1. ASSUME s.op \in {"equ", "times", "jump", "refer"}
        PROVE  /\ Value(labels, s.arg, here) = Value(labels', s.arg, here)
               /\ ValueSegment(labels, s.arg, seg) = ValueSegment(labels', s.arg, seg)
               /\ Unknown(labels, s.arg) = Unknown(labels', s.arg)
               /\ IsSimple(labels, s.arg, seg) = IsSimple(labels', s.arg, seg)
    <2> DEFINE e == s.arg
    <2>1. e \in Expr /\ e.plus \in Terms /\ e.minus \in Terms
      BY <1>0, <1>1, StatementTypes DEF Expr
    <2>2. \A l \in {e.plus, e.minus} \cap Labels :
             Found(labels[l]) /\ Found(labels'[l]) /\ SameValue(labels[l], labels'[l])
      BY <1>1, ArgumentsStay
    <2>3. \A t \in {e.plus, e.minus} :
             /\ Known(labels, t) = Known(labels', t)
             /\ TermSegment(labels, t, seg) = TermSegment(labels', t, seg)
             /\ TermValue(labels, t, here) = TermValue(labels', t, here)
      BY <2>1, <2>2 DEF Known, TermSegment, TermValue, SameValue, Terms
    <2> QED
      BY <2>3 DEF Value, ValueSegment, Unknown, IsSimple, Cancels
  <1>2. ASSUME s.op \in {"equ", "times", "jump", "refer"}
        PROVE  /\ JumpIsShort(labels, s.arg, seg, here) = JumpIsShort(labels', s.arg, seg, here)
               /\ Times(labels, s, seg, here) = Times(labels', s, seg, here)
    BY <1>1, <1>2 DEF JumpIsShort, Times
  <1>3. Length(labels, s, seg, here) = Length(labels', s, seg, here)
    BY <1>2 DEF Length
  <1> QED
    BY <1>1, <1>3 DEF PlaceAfter

(* A stretch of the route stays one over every line that is read.          *)
LEMMA FirstRouteStays ==
    ASSUME FirstGoesWell, LineStep, errors' = {},
           NEW n \in DOMAIN program, n < line, NEW place \in Place,
           Settled(labels, program[n], place)
    PROVE  Settled(labels', program[n], place)
  <1> DEFINE s == program[n]
             seg == place.segment
             here == place.offsets[seg]
             old == labels[s.name]
             new == labels'[s.name]
  <1>0. /\ s \in Statements /\ labels \in [Labels -> Entry]
        /\ labels' \in [Labels -> Entry] /\ Passed(n) /\ Absorbed(s)
        /\ line \in 1 .. Len(program) /\ Len(program) \in Nat
        /\ DOMAIN program = 1 .. Len(program) /\ pass \in Nat
        /\ TypeOK /\ InSection /\ DefinedHaveSegments /\ BackendLabelsStay
        /\ FirstDefinitions /\ ptype = "first"
    BY FirstLines DEF FirstGoesWell, TypeOK
  <1>1. ASSUME s.op \in {"label", "equ"}, NEW x, NEW v, x # PSEUDO_SEG,
               StaysPut(old, x, v)
        PROVE  StaysPut(new, x, v)
    <2>1. s.name \in Labels /\ old.defined = pass + 1 /\ ~is_extern(old.type)
      BY <1>0, <1>1, StatementTypes DEF FirstDefinitions, Absorbed
    <2>2. /\ new.defined = pass + 1 /\ SameValue(old, new)
          /\ new.type = "common" => old.type = "common" \/ new.offset = 0
      BY <2>1, DefinedOnce
    <2>3. Evolves(old, new)
      BY <1>0, <2>1, EntriesEvolve
    <2> HIDE DEF old, new
    <2> QED
      BY <1>0, <1>1, <2>1, <2>2, <2>3
         DEF StaysPut, SameValue, Evolves, Found, is_extern
  <1>2. CASE s.op = "label"
    <2>1. StaysPut(old, seg, here) /\ seg # PSEUDO_SEG
      BY <1>2, SegmentsAssumption DEF Settled, Place, PSEUDO_SEG
    <2> QED
      BY <1>1, <1>2, <2>1 DEF Settled
  <1>3. CASE s.op = "equ"
    <2>1. /\ StaysPut(old, ValueSegment(labels, s.arg, seg), Value(labels, s.arg, here))
          /\ ValueSegment(labels, s.arg, seg) # PSEUDO_SEG
      BY <1>0, <1>3, StatementTypes, ValueSegmentIsNoPseudo DEF Settled, Place
    <2>2. StaysPut(new, ValueSegment(labels, s.arg, seg), Value(labels, s.arg, here))
      BY <1>1, <1>3, <2>1
    <2>3. /\ Value(labels, s.arg, here) = Value(labels', s.arg, here)
          /\ ValueSegment(labels, s.arg, seg) = ValueSegment(labels', s.arg, seg)
      BY <1>0, <1>3, LengthsStay
    <2> QED
      BY <1>3, <2>2, <2>3 DEF Settled
  <1>4. CASE s.op = "declare"
    <2> SUFFICES ASSUME s.type \in {"common", "extern", "required"}, new.type = s.type
                 PROVE  StaysPut(new, PSEUDO_SEG, DeclaredValue(s))
      BY <1>4 DEF Settled
    <2>1. s.name \in Labels /\ Evolves(old, new)
      BY <1>0, <1>4, StatementTypes, EntriesEvolve
    <2>2. old.type = s.type
      BY <1>0, <1>4, <2>1 DEF Absorbed, Evolves, is_extern, is_global
    <2>3. StaysPut(old, PSEUDO_SEG, DeclaredValue(s))
      BY <1>4, <2>2 DEF Settled
    <2>4. s.name \notin BackendLabels
      BY <1>0, <2>1, <2>2 DEF BackendLabelsStay
    <2>5. old.defined = pass + 1
      BY <1>0, <2>1, <2>3, <2>4 DEF FirstDefinitions, StaysPut
    <2>6. new.defined = pass + 1 /\ SameValue(old, new)
      BY <2>1, <2>2, <2>5, DefinedOnce
    <2> HIDE DEF old, new
    <2> QED
      BY <1>0, <2>2, <2>3, <2>6 DEF StaysPut, SameValue, Found, PSEUDO_SEG
  <1>5. CASE s.op \notin {"label", "equ", "declare"}
    BY <1>5 DEF Settled
  <1> QED
    BY <1>2, <1>3, <1>4, <1>5

(* The line that is read settles.                                          *)
LEMMA FirstLineSettles ==
    ASSUME FirstGoesWell, LineStep, errors' = {}
    PROVE  Settled(labels', program[line], CurrentPlace)
  <1> DEFINE s == program[line]
             after == labels'[s.name]
  <1>0. /\ s \in Statements /\ Executes(s) /\ Prepares(s) /\ line \in DOMAIN program
        /\ TypeOK /\ InSection /\ DefinedHaveSegments /\ ptype = "first"
        /\ segment \in Sections /\ next_seg \in Nat /\ pass \in Nat
        /\ labels \in [Labels -> Entry] /\ program' = program /\ line <= line
    BY FirstLines DEF FirstGoesWell
  <1>1. /\ CurrentPlace.segment = segment
        /\ CurrentPlace.offsets[CurrentPlace.segment] = Here
    BY DEF CurrentPlace, Here
  <1>2. CASE Looks(s)
    BY <1>0, <1>2 DEF Looks, Settled, pass_final
  <1>3. CASE Declares(s)
    <2> DEFINE before == TypeBeforeDeclare(labels[s.name], s.type, ptype)
    <2>1. s.op = "declare" /\ s.name \in Labels /\ s.type \in DeclaredTypes
      BY <1>0, <1>3, StatementTypes DEF Declares
    <2>2. after = Declared(s)
      BY <1>0, <1>3, <2>1 DEF Declares
    <2>3. Declared(s).type =
             IF DeclareAccepted(labels[s.name], s.type, ptype) THEN s.type ELSE before
      BY <1>0, <2>1, DeclaredFacts DEF Declared
    <2>4. s.type \in {"common", "extern", "required"} => after.type # s.type
      BY <1>3, <2>2, <2>3 DEF Declares, DeclareAccepted, Agrees
    <2> QED
      BY <2>1, <2>4 DEF Settled
  <1>4. ASSUME NEW table, NEW seg, NEW sent, DefinesFrom(s, table, seg, sent)
        PROVE  Settled(labels', s, CurrentPlace)
    <2>1. /\ after.defined = pass + 1
          /\ after.segment = DefinedSegment(table[s.name], seg, next_seg)
          /\ after.offset = IF after.type = "common" THEN 0 ELSE sent
          /\ after.size = IF after.type = "common" THEN sent ELSE 0
      BY <1>4, DefinedInFirst
    <2>2. after.segment # 0
      <3>1. s.name \in Labels /\ Found(after)
        BY <1>0, <1>4, <2>1 DEF DefinesFrom, Found
      <3>2. DefinedHaveSegments'
        BY <1>0, DefinedHaveSegmentsStep, NextIsLineOrLoop
      <3> QED
        BY <3>1, <3>2 DEF DefinedHaveSegments, PSEUDO_SEG
    <2>3. s.op \in {"label", "equ", "declare"} /\ GivenBy(s, seg, sent)
          /\ (s.op # "declare" => seg # PSEUDO_SEG)
      BY <1>0, <1>4, DefinedElsewhere DEF DefinesFrom
    <2>4. s.op \in {"label", "equ"} => ~is_extern(after.type)
      <3>1. \A x : x = s => Absorbed(x)'
        BY <1>0, FirstPassAbsorbs
      <3> QED
        BY <3>1 DEF Absorbed
    <2>5. StaysPut(after, seg, sent)
      <3> HIDE DEF after
      <3> QED
        BY <1>0, <2>1, <2>2, <2>3, <2>4
           DEF StaysPut, Found, DefinedSegment, PSEUDO_SEG, GivenBy
    <2>6. s.op = "equ" =>
             /\ Value(labels, s.arg, Here) = Value(labels', s.arg, Here)
             /\ ValueSegment(labels, s.arg, segment) = ValueSegment(labels', s.arg, segment)
      BY <1>0, <1>1, LengthsStay
    <2> QED
      BY <1>1, <2>3, <2>5, <2>6 DEF Settled, GivenBy
  <1> QED
    BY <1>0, <1>2, <1>3, <1>4, LineEffects

LEMMA FirstDefinitionsLine ==
    ASSUME FirstGoesWell, LineStep, errors' = {}
    PROVE  FirstDefinitions'
  <1> DEFINE s == program[line]
  <1>0. /\ s \in Statements /\ Executes(s) /\ Prepares(s) /\ line \in DOMAIN program
        /\ TypeOK /\ InSection /\ DefinedHaveSegments /\ ptype = "first"
        /\ PassNumbers /\ next_seg \in Nat /\ pass \in Nat /\ FirstDefinitions
        /\ labels \in [Labels -> Entry] /\ UNCHANGED <<program, ptype, pass>>
        /\ \A n \in DOMAIN program : program[n] \in Statements
        /\ \A n \in DOMAIN program : n < line => Absorbed(program[n])
        /\ pass = 1 /\ line' = line + 1 /\ line \in Nat /\ DOMAIN program \subseteq Nat
    BY FirstLines DEF FirstGoesWell
  <1>1. ASSUME NEW l \in Labels \ BackendLabels, Found(labels'[l])
        PROVE  labels'[l].defined = pass + 1
    <2>1. Found(labels[l]) => labels[l].defined = pass + 1
      BY <1>0 DEF FirstDefinitions
    <2>2. ASSUME LookedUpOnly(labels[l], labels'[l])
          PROVE  labels'[l].defined = pass + 1
      BY <1>0, <1>1, <2>1, <2>2, LookupFacts DEF Found
    <2>3. CASE Looks(s)
      BY <2>2, <2>3 DEF Looks
    <2>4. CASE Declares(s)
      <3>1. s.op = "declare" /\ s.name \in Labels /\ s.type \in DeclaredTypes
        BY <1>0, <2>4, StatementTypes DEF Declares
      <3>2. CASE l = s.name
        <4>1. labels'[l] = Declared(s)
          BY <1>0, <2>4, <3>1, <3>2 DEF Declares
        <4>2. Declared(s).defined \in {0, labels[l].defined}
          BY <1>0, <3>1, <3>2, DeclaredFacts DEF Declared
        <4> QED
          BY <1>1, <2>1, <4>1, <4>2 DEF Found
      <3>3. CASE l # s.name
        BY <1>0, <2>2, <2>4, <3>3 DEF Declares, LookedUpOnly
      <3> QED
        BY <3>2, <3>3
    <2>5. ASSUME NEW table, NEW seg, NEW sent, DefinesFrom(s, table, seg, sent)
          PROVE  labels'[l].defined = pass + 1
      <3>1. CASE l = s.name
        BY <2>5, <3>1, DefinedInFirst
      <3>2. CASE l # s.name
        <4>1. LookedUpOnly(labels[l], labels'[l])
          BY <1>0, <2>5, <3>2, DefineEffects
        <4> QED
          BY <2>2, <4>1
      <3> QED
        BY <3>1, <3>2
    <2> QED
      BY <1>0, <2>3, <2>4, <2>5, LineEffects
  <1>2. ASSUME NEW n \in DOMAIN program, program[n].op \in {"label", "equ"}, Passed(n)'
        PROVE  labels'[program[n].name].defined = pass + 1
    <2>1. n < line \/ n = line
      BY <1>0, <1>2 DEF Passed
    <2>2. CASE n < line
      <3>1. program[n].name \in Labels /\ Passed(n) /\ Absorbed(program[n])
        BY <1>0, <1>2, <2>2, StatementTypes DEF Passed
      <3>2. labels[program[n].name].defined = pass + 1
        BY <1>0, <1>2, <3>1 DEF FirstDefinitions
      <3>3. ~is_extern(labels[program[n].name].type)
        BY <1>2, <3>1 DEF Absorbed
      <3> QED
        BY <3>1, <3>2, <3>3, DefinedOnce
    <2>3. CASE n = line
      <3>1. ~Looks(s) /\ ~Declares(s)
        BY <1>0, <1>2, <2>3 DEF Looks, Declares, pass_final
      <3>2. ASSUME NEW table, NEW seg, NEW sent, DefinesFrom(s, table, seg, sent)
            PROVE  labels'[s.name].defined = pass + 1
        BY <3>2, DefinedInFirst
      <3> QED
        BY <1>0, <2>3, <3>1, <3>2, LineEffects
    <2> QED
      BY <2>1, <2>2, <2>3
  <1> QED
    BY <1>0, <1>1, <1>2 DEF FirstDefinitions

LEMMA FirstSettlesLine ==
    ASSUME FirstGoesWell, LineStep, errors' = {}, FirstSettles
    PROVE  FirstSettles'
  <1> DEFINE s == program[line]
             len == Len(program)
  <1>0. /\ line \in 1 .. len /\ line \in DOMAIN program /\ DOMAIN program = 1 .. len
        /\ len \in Nat /\ line' = line + 1 /\ line # 0 /\ line' # 0
        /\ program' = program /\ Executes(s) /\ TypeOK /\ InSection
        /\ TypeOK' /\ InSection' /\ ptype = "first"
    BY FirstLines DEF FirstGoesWell
  <1>1. CurrentPlace' = PlaceAfter(labels, s, CurrentPlace)
    BY <1>0, LineAdvances
  <1>2. CurrentPlace' \in Place
    <2>1. segment' \in Sections /\ offsets' \in [Sections -> Int]
      BY <1>0 DEF TypeOK, InSection
    <2> QED
      BY <2>1 DEF CurrentPlace, Place
  <1>3. PICK places \in Routes : IsRoute(places, line) /\ places[line] = CurrentPlace
    BY <1>0 DEF FirstSettles, OnRoute, CurrentPlace
  <1> DEFINE after == [places EXCEPT ![line + 1] = CurrentPlace']
  <1>4. places \in [1 .. len + 1 -> Place] /\ line + 1 \in 1 .. len + 1
    BY <1>0, <1>3 DEF Routes
  <1>5. /\ after \in [1 .. len + 1 -> Place]
        /\ after[line + 1] = CurrentPlace'
        /\ \A n \in 1 .. line : after[n] = places[n]
    BY <1>0, <1>2, <1>4
  <1> HIDE DEF after
  <1>6. ASSUME NEW n \in 1 .. len, n < line + 1
        PROVE  /\ Settled(labels', program[n], after[n])
               /\ after[n + 1] = PlaceAfter(labels', program[n], after[n])
    <2>0. n \in DOMAIN program /\ n <= line
      BY <1>0, <1>6
    <2>1. CASE n < line
      <3>1. n \in 1 .. line /\ n + 1 \in 1 .. line
        BY <1>0, <2>1
      <3>2. /\ Settled(labels, program[n], after[n])
            /\ after[n + 1] = PlaceAfter(labels, program[n], after[n])
            /\ after[n] \in Place
        BY <1>0, <1>3, <1>4, <1>5, <2>1, <3>1 DEF IsRoute
      <3>3. Settled(labels', program[n], after[n])
        BY <2>0, <2>1, <3>2, FirstRouteStays
      <3>4. PlaceAfter(labels, program[n], after[n]) = PlaceAfter(labels', program[n], after[n])
        BY <2>0, LengthsStay
      <3> QED
        BY <3>2, <3>3, <3>4
    <2>2. CASE n = line
      <3>1. after[n] = CurrentPlace
        BY <1>0, <1>3, <1>5, <2>2
      <3>2. Settled(labels', program[n], after[n])
        BY <2>2, <3>1, FirstLineSettles
      <3>3. PlaceAfter(labels, program[n], after[n]) = PlaceAfter(labels', program[n], after[n])
        BY <2>0, LengthsStay
      <3> QED
        BY <1>1, <1>5, <2>2, <3>1, <3>2, <3>3
    <2> QED
      BY <1>0, <2>0, <2>1, <2>2
  <1>7. after[1] = FirstPlace
    BY <1>0, <1>3, <1>5 DEF IsRoute
  <1> QED
    BY <1>0, <1>5, <1>6, <1>7 DEF FirstSettles, Routes, IsRoute, OnRoute, CurrentPlace

LEMMA AboveInvLoop ==
    ASSUME TypeOK, InSection, PassNumbers, FirstDefinitions, FirstSettles,
           OptimizerSettled, FourPasses, LoopStep
    PROVE  FirstDefinitions' /\ FirstSettles' /\ OptimizerSettled' /\ FourPasses'
  <1> DEFINE len == Len(program)
  <1>0. /\ len \in Nat /\ UNCHANGED <<program, labels>> /\ DOMAIN program = 1 .. len
        /\ pass \in Nat /\ line \in Nat /\ ptype \in PassTypes
    BY LoopKeeps, ProgramsAssumption, LenProperties DEF TypeOK
  <1>1. CASE BeginPass
    <2>1. /\ CurrentPlace' = FirstPlace /\ line' = 1 /\ global_offset_changed' = 0
          /\ line = 0 /\ ptype' = NextPassType /\ pass' = pass + 1 /\ ptype # "final"
      BY <1>1 DEF BeginPass, CurrentPlace, FirstPlace, pass_final
    <2>2. CASE ptype = "init"
      <3>1. ptype' = "first"
        BY <2>1, <2>2 DEF NextPassType
      <3>2. FirstDefinitions'
        <4>1. \A n \in DOMAIN program : ~Passed(n)'
          BY <1>0, <2>1, <2>2 DEF Passed, PassNumbers
        <4>2. \A l \in Labels \ BackendLabels : ~Found(labels'[l])
          BY <1>0, <2>2 DEF FirstDefinitions
        <4> QED
          BY <1>0, <3>1, <4>1, <4>2 DEF FirstDefinitions
      <3> DEFINE places == [n \in 1 .. len + 1 |-> FirstPlace]
      <3>3. FirstPlace \in Place
        BY SegmentsAssumption DEF FirstPlace, Place
      <3>4. places \in Routes'
        BY <1>0, <3>3 DEF Routes
      <3>5. places[1] = FirstPlace /\ \A n \in 1 .. len : ~(n < 1)
        BY <1>0
      <3> HIDE DEF places
      <3>6. FirstSettles'
        BY <1>0, <2>1, <3>4, <3>5 DEF FirstSettles, OnRoute, IsRoute, CurrentPlace
      <3> QED
        BY <3>1, <3>2, <3>6 DEF OptimizerSettled, FourPasses
    <2>3. CASE ptype = "first"
      <3>1. ptype' = "opt" /\ pass' = 2
        BY <2>1, <2>3 DEF NextPassType, PassNumbers
      <3>2. PICK places \in Routes : IsRoute(places, len + 1)
        BY <2>1, <2>3 DEF FirstSettles
      <3>3. places \in Routes' /\ IsRoute(places, Len(program) + 1)'
        BY <1>0, <3>2 DEF Routes, IsRoute
      <3>4. OnRoute(places)'
        BY <2>1, <3>2 DEF OnRoute, IsRoute, CurrentPlace
      <3>5. OptimizerSettled'
        BY <2>1, <3>1, <3>3, <3>4 DEF OptimizerSettled
      <3> QED
        BY <3>1, <3>5 DEF FirstDefinitions, FirstSettles, FourPasses
    <2>4. CASE ptype = "opt"
      <3>1. ptype' = "stab" /\ pass' = 3
        BY <2>1, <2>4 DEF NextPassType, OptimizerSettled
      <3> QED
        BY <3>1 DEF FirstDefinitions, FirstSettles, OptimizerSettled, FourPasses
    <2>5. CASE ptype = "stab"
      <3>1. ptype' = "final" /\ pass' = 4
        BY <2>1, <2>5 DEF NextPassType, FourPasses
      <3> QED
        BY <3>1 DEF FirstDefinitions, FirstSettles, OptimizerSettled, FourPasses
    <2> QED
      BY <1>0, <2>1, <2>2, <2>3, <2>4, <2>5 DEF PassTypes
  <1>2. CASE EndPass
    <2>1. /\ line = len + 1 /\ line' = 0 /\ line # 0
          /\ UNCHANGED <<ptype, pass, global_offset_changed>>
      BY <1>0, <1>2 DEF EndPass
    <2>2. FirstDefinitions'
      <3>1. \A n \in DOMAIN program : Passed(n)' => Passed(n)
        BY <1>0, <2>1 DEF Passed
      <3> QED
        BY <1>0, <2>1, <3>1 DEF FirstDefinitions
    <2>3. FirstSettles' /\ OptimizerSettled'
      BY <1>0, <2>1 DEF FirstSettles, OptimizerSettled, OnRoute, IsRoute, Routes
    <2> QED
      BY <2>1, <2>2, <2>3 DEF FourPasses
  <1>3. CASE Finish
    <2>1. UNCHANGED <<ptype, pass, line, global_offset_changed, segment, offsets>>
      BY <1>3 DEF Finish
    <2> QED
      BY <1>0, <2>1 DEF FirstDefinitions, FirstSettles, OptimizerSettled, FourPasses,
         Passed, OnRoute, IsRoute, Routes
  <1> QED
    BY <1>1, <1>2, <1>3 DEF LoopStep

LEMMA AboveInvInit == Init => AboveInv
  <1> SUFFICES ASSUME Init PROVE AboveInv
    OBVIOUS
  <1>1. ptype = "init"
    BY DEF Init
  <1>2. \A l \in Labels \ BackendLabels : ~Found(labels[l])
    BY DEF Init, Found, FreshEntry
  <1> QED
    BY <1>1, <1>2 DEF AboveInv, FirstDefinitions, FirstSettles, OptimizerSettled,
       FourPasses

LEMMA AboveInvStep ==
    ASSUME SettledInv, AboveInv, [Next]_vars
    PROVE  AboveInv'
  <1>1. CASE Next
    <2> SUFFICES ASSUME PassInvariantProgram', NoForwardReferences', errors' = {}
                 PROVE  /\ FirstDefinitions' /\ FirstSettles'
                        /\ OptimizerSettled' /\ FourPasses'
      BY DEF AboveInv
    <2>1. /\ TypeOK /\ InSection /\ PassNumbers /\ DefinedHaveSegments
          /\ DeclarationsHold /\ BackendLabelsStay
      BY DEF SettledInv, SymbolInv
    <2>2. program' = program /\ errors = {}
      BY <1>1, <2>1, ProgramStays, ErrorsStay
    <2>3. /\ PassInvariantProgram /\ NoForwardReferences
          /\ FirstDefinitions /\ FirstSettles /\ OptimizerSettled /\ FourPasses
      BY <2>2 DEF AboveInv, PassInvariantProgram, NoForwardReferences, DefinedAbove
    <2>4. CASE LoopStep
      BY <2>1, <2>3, <2>4, AboveInvLoop
    <2>5. CASE LineStep
      <3>1. UNCHANGED <<ptype, pass>> /\ TypeOK' /\ line # 0 /\ line' # 0
        <4>1. /\ UNCHANGED <<ptype, pass>> /\ TypeOK'
              /\ line \in 1 .. Len(program) /\ line' = line + 1
          BY <2>1, <2>5, LineIsRead DEF passVars
        <4>2. Len(program) \in Nat
          BY <2>1, ProgramsAssumption, LenProperties DEF TypeOK
        <4> QED
          BY <4>1, <4>2
      <3>2. FourPasses'
        BY <2>3, <3>1 DEF FourPasses
      <3>3. CASE ptype = "first"
        <4>1. FirstGoesWell
          BY <2>1, <2>2, <2>3, <3>3 DEF FirstGoesWell
        <4>2. FirstDefinitions' /\ FirstSettles'
          BY <2>3, <2>5, <4>1, FirstDefinitionsLine, FirstSettlesLine
        <4> QED
          BY <3>1, <3>2, <3>3, <4>2 DEF OptimizerSettled
      <3>4. CASE ptype = "opt"
        <4>1. pass = 2 /\ global_offset_changed = 0
          BY <2>3, <3>4 DEF OptimizerSettled
        <4>2. PICK places \in Routes :
                 IsRoute(places, Len(program) + 1) /\ OnRoute(places)
          BY <2>3, <3>4 DEF OptimizerSettled
        <4>3. GoesWell
          BY <2>1, <2>2, <2>3, <4>1 DEF GoesWell
        <4>4. /\ global_offset_changed' = global_offset_changed
              /\ places \in Routes' /\ OnRoute(places)'
              /\ IsRoute(places, Len(program) + 1)'
          BY <2>5, <3>1, <4>2, <4>3, RouteGoesOn
        <4>5. OptimizerSettled'
          BY <3>1, <4>1, <4>4 DEF OptimizerSettled
        <4> QED
          BY <3>1, <3>2, <3>4, <4>5 DEF FirstDefinitions, FirstSettles
      <3>5. CASE ptype = "init"
        BY <2>1, <3>1, <3>5 DEF PassNumbers
      <3>6. CASE ptype \notin {"init", "first", "opt"}
        BY <3>1, <3>2, <3>6 DEF FirstDefinitions, FirstSettles, OptimizerSettled
      <3> QED
        BY <3>3, <3>4, <3>5, <3>6
    <2> QED
      BY <1>1, <2>4, <2>5, NextIsLineOrLoop
  <1>2. CASE UNCHANGED vars
    BY <1>2 DEF vars, AboveInv, PassInvariantProgram, NoForwardReferences,
       DefinedAbove, FirstDefinitions, FirstSettles, OptimizerSettled, FourPasses,
       Passed, Routes, IsRoute, OnRoute
  <1> QED
    BY <1>1, <1>2

(* A program whose expressions name only labels that are defined above them*)
(* is laid out by the first pass: no optimization, stabilization or final  *)
(* pass changes a label, and assemble_file reads it four times.            *)
THEOREM FirstPassIsEnough == Spec => []FirstPassSettles
  <1>1. Init => SettledInv /\ AboveInv
    BY SettledInvInit, AboveInvInit
  <1>2. SettledInv /\ AboveInv /\ [Next]_vars => (SettledInv /\ AboveInv)'
    BY SettledInvStep, AboveInvStep
  <1>3. SettledInv /\ AboveInv => FirstPassSettles
    <2> SUFFICES ASSUME SettledInv, AboveInv,
                        PassInvariantProgram, NoForwardReferences, errors = {}
                 PROVE  (pass > 1 => global_offset_changed = 0) /\ pass <= 4
      BY DEF FirstPassSettles
    <2>1. /\ ptype \in PassTypes /\ pass \in Nat /\ PassNumbers
          /\ StaysSettled /\ OptimizerSettled /\ FourPasses
      BY DEF SettledInv, SymbolInv, LayoutInv, AboveInv, TypeOK
    <2>2. ptype \in {"init", "first"} => pass <= 1
      BY <2>1 DEF PassNumbers
    <2>3. ptype = "opt" => pass = 2 /\ global_offset_changed = 0
      BY <2>1 DEF OptimizerSettled
    <2>4. ptype \in {"stab", "final"} => pass \in {3, 4} /\ global_offset_changed = 0
      BY <2>1 DEF FourPasses, StaysSettled, pass_stable
    <2> QED
      BY <2>1, <2>2, <2>3, <2>4 DEF PassTypes
  <1> QED
    BY <1>1, <1>2, <1>3, PTL DEF Spec

-----------------------------------------------------------------------------
(* Sets of numbers have a least and, if bounded, a greatest element.       *)

LEMMA SmallestOf ==
    ASSUME NEW S, S \subseteq Nat, S # {}
    PROVE  \E m \in S : \A k \in S : m <= k
  <1> DEFINE R == OpToRel(<, Nat)
  <1>1. IsWellFoundedOn(R, Nat)
    BY NatLessThanWellFounded
  <1>2. \A x, y \in Nat : y < x => <<y, x>> \in R
    BY DEF OpToRel
  <1> HIDE DEF R
  <1>3. PICK m \in S : \A k \in S : ~(<<k, m>> \in R)
    BY <1>1, WFMin
  <1>4. ASSUME NEW k \in S PROVE m <= k
    <2>1. m \in Nat /\ k \in Nat /\ ~(<<k, m>> \in R)
      BY <1>3
    <2>2. ~(k < m)
      BY <1>2, <2>1
    <2> QED
      BY <2>1, <2>2
  <1> QED
    BY <1>4

LEMMA LargestOf ==
    ASSUME NEW n \in Nat, NEW S, S \subseteq 1 .. n, S # {}
    PROVE  \E m \in S : \A k \in S : k <= m
  <1> DEFINE T == {n - k : k \in S}
  <1>0. \A k \in S : k \in Int /\ n - k \in Nat
    OBVIOUS
  <1>1. T \subseteq Nat /\ T # {}
    BY <1>0
  <1>2. PICK t \in T : \A k \in T : t <= k
    <2> HIDE DEF T
    <2> QED
      BY <1>1, SmallestOf
  <1>3. PICK m \in S : t = n - m
    OBVIOUS
  <1>4. ASSUME NEW k \in S PROVE k <= m
    <2>1. n - m <= n - k
      BY <1>2, <1>3
    <2> QED
      BY <1>0, <2>1
  <1> QED
    BY <1>4

(* The greatest element is the one that is chosen.                         *)
LEMMA GreatestIsChosen ==
    ASSUME NEW S \in SUBSET Int, NEW m \in S, \A k \in S : k <= m
    PROVE  (CHOOSE x \in S : \A k \in S : k <= x) = m
  <1> DEFINE c == CHOOSE x \in S : \A k \in S : k <= x
  <1>1. c \in S /\ \A k \in S : k <= c
    OBVIOUS
  <1> HIDE DEF c
  <1>2. c <= m /\ m <= c /\ c \in Int /\ m \in Int
    BY <1>1
  <1>3. c = m
    BY <1>2
  <1> QED
    BY <1>3 DEF c

-----------------------------------------------------------------------------
(* Where the final pass stands.                                            *)

(* The next line is in the section of this one, or in the one it selects.  *)
LEMMA SectionAtNext ==
    ASSUME NEW n \in Nat \ {0}, NEW s, s = program[n]
    PROVE  SectionAt(n + 1) = IF s.op = "section" /\ InFinalPass(n)
                              THEN s.segment ELSE SectionAt(n)
  <1> DEFINE Switches(k) == {m \in 1 .. k - 1 :
                                program[m].op = "section" /\ InFinalPass(m)}
  <1>1. 1 .. (n + 1) - 1 = (1 .. n - 1) \cup {n}
    OBVIOUS
  <1>2. CASE s.op = "section" /\ InFinalPass(n)
    <2>1. /\ n \in Switches(n + 1) /\ \A k \in Switches(n + 1) : k <= n
          /\ Switches(n + 1) \in SUBSET Int
      BY <1>1, <1>2
    <2> HIDE DEF Switches
    <2>2. (CHOOSE m \in Switches(n + 1) : \A k \in Switches(n + 1) : k <= m) = n
      BY <2>1, GreatestIsChosen
    <2> QED
      BY <1>2, <2>1, <2>2 DEF SectionAt, Switches
  <1>3. CASE ~(s.op = "section" /\ InFinalPass(n))
    <2> DEFINE Last(S) == IF S = {} THEN DefaultSection
                          ELSE program[CHOOSE m \in S : \A k \in S : k <= m].segment
    <2>1. Switches(n + 1) = Switches(n)
      BY <1>1, <1>3
    <2>2. SectionAt(n + 1) = Last(Switches(n + 1)) /\ SectionAt(n) = Last(Switches(n))
      BY DEF SectionAt
    <2> HIDE DEF Switches, Last
    <2> QED
      BY <1>3, <2>1, <2>2
  <1> QED
    BY <1>2, <1>3

LEMMA SectionAtFirst == SectionAt(1) = DefaultSection
  <1>1. {m \in 1 .. 1 - 1 : program[m].op = "section" /\ InFinalPass(m)} = {}
    OBVIOUS
  <1> QED
    BY <1>1 DEF SectionAt

(* A line of the final pass generates nothing and moves no offset, or one  *)
(* piece of code at its place, up to where it leaves it.                   *)
Piece(c) ==
    /\ c \in Code /\ image' = Append(image, c)
    /\ c.line = line /\ c.segment = segment /\ c.at = Here
    /\ segment' = segment /\ Advance(c.len) /\ 0 < c.len

CodeFollows ==
    \/ image' = image /\ offsets' = offsets
    \/ ptype = "final" /\ \E c : Piece(c)

LEMMA EmitFollows ==
    ASSUME TypeOK, InSection, ReadLine, ptype = "final",
           NEW kind \in CodeKinds, NEW len \in Nat, NEW value \in Int,
           NEW vsegment \in Int, Emit(kind, len, value, vsegment), Advance(len),
           segment' = segment
    PROVE  CodeFollows
  <1> DEFINE c == [line |-> line, segment |-> segment, at |-> Here,
                   len |-> len, kind |-> kind, value |-> value,
                   vsegment |-> vsegment]
  <1>1. line \in Nat \ {0} /\ segment \in Sections /\ Here \in Int
        /\ offsets \in [Sections -> Int]
    <2>1. offsets \in [Sections -> Int]
      BY DEF TypeOK
    <2> QED
      BY <2>1, ReadLineTypes
  <1>2. CASE len = 0
    <2>1. image' = image
      BY <1>2 DEF Emit
    <2>2. offsets' = offsets
      BY <1>1, <1>2 DEF Advance
    <2> QED
      BY <2>1, <2>2 DEF CodeFollows
  <1>3. CASE len # 0
    <2>1. c \in Code
      BY <1>1 DEF Code
    <2>2. image' = Append(image, c)
      BY <1>3 DEF Emit, pass_final
    <2>3. c.line = line /\ c.segment = segment /\ c.at = Here /\ c.len = len /\ 0 < len
      BY <1>3
    <2> HIDE DEF c
    <2> QED
      BY <2>1, <2>2, <2>3 DEF CodeFollows, Piece
  <1> QED
    BY <1>2, <1>3

LEMMA LineGenerates ==
    ASSUME TypeOK, InSection, LineStep, ptype = "final"
    PROVE  CodeFollows
  <1> DEFINE s == program[line]
  <1>1. /\ ReadLine /\ s \in Statements /\ segment \in Int /\ Here \in Int
        /\ labels \in [Labels -> Entry] /\ segment \in Sections
    BY LineIsRead DEF TypeOK
  <1>2. CASE SkippedLine \/ LabelLine \/ EquLine \/ DeclareLine \/ SectionLine
    BY <1>2 DEF SkippedLine, LabelLine, EquLine, DeclareLine, SectionLine, ParseFails,
       CodeFollows, placeVars
  <1>3. ASSUME NEW table, NEW kind, ParseFails(table, kind)
        PROVE  CodeFollows
    BY <1>3 DEF ParseFails, CodeFollows, placeVars
  <1>4. CASE DataLine
    <2>1. /\ s.len \in Nat /\ Advance(s.len) /\ Emit("data", s.len, 0, NO_SEG)
          /\ segment' = segment
      BY <1>1, <1>4, StatementTypes DEF DataLine, Line
    <2> QED
      BY <1>1, <2>1, EmitFollows DEF CodeKinds, NO_SEG
  <1>5. CASE TimesLine
    <2> DEFINE times == IF IsSimple(labels, s.arg, segment)
                        THEN Value(labels, s.arg, Here) ELSE 1
               len == IF times > 0 THEN times * s.len ELSE 0
    <2>1. s.len \in Nat /\ s.arg \in Expr
      BY <1>1, <1>5, StatementTypes DEF TimesLine, Line
    <2>2. times \in Int
      BY <1>1, <2>1, ValueTypes
    <2>3. len \in Nat
      <3> HIDE DEF times
      <3>1. times > 0 => times \in Nat /\ times * s.len \in Nat
        BY <2>1, <2>2
      <3> QED
        BY <3>1
    <2>4. \/ \E table, kind : ParseFails(table, kind)
          \/ Advance(len) /\ Emit("data", len, 0, NO_SEG) /\ segment' = segment
      BY <1>5 DEF TimesLine
    <2> HIDE DEF len
    <2> QED
      BY <1>1, <1>3, <2>3, <2>4, EmitFollows DEF CodeKinds, NO_SEG
  <1>6. CASE JumpLine
    <2> DEFINE short == JumpIsShort(labels, s.arg, segment, Here)
               len == JumpLen(short)
               value == Value(labels, s.arg, Here)
               vsegment == ValueSegment(labels, s.arg, segment)
               kind == IF short THEN "short" ELSE "near"
    <2>1. s.arg \in Expr
      BY <1>1, <1>6, StatementTypes DEF JumpLine, Line
    <2>2. value \in Int /\ vsegment \in Int
      BY <1>1, <2>1, ValueTypes
    <2>3. len \in Nat /\ kind \in CodeKinds
      BY SizesAssumption DEF JumpLen, CodeKinds
    <2>4. \/ \E table, k : ParseFails(table, k)
          \/ Advance(len) /\ Emit(kind, len, value, vsegment) /\ segment' = segment
      BY <1>6 DEF JumpLine
    <2> HIDE DEF len, value, vsegment, kind, short
    <2> QED
      BY <1>1, <1>3, <2>2, <2>3, <2>4, EmitFollows
  <1>7. CASE ReferLine
    <2> DEFINE value == Value(labels, s.arg, Here)
               vsegment == ValueSegment(labels, s.arg, segment)
    <2>1. s.arg \in Expr
      BY <1>1, <1>7, StatementTypes DEF ReferLine, Line
    <2>2. value \in Int /\ vsegment \in Int
      BY <1>1, <2>1, ValueTypes
    <2>3. ReferLen \in Nat /\ "refer" \in CodeKinds
      BY SizesAssumption DEF CodeKinds
    <2>4. \/ \E table, k : ParseFails(table, k)
          \/ Advance(ReferLen) /\ Emit("refer", ReferLen, value, vsegment)
             /\ segment' = segment
      BY <1>7 DEF ReferLine
    <2> HIDE DEF value, vsegment
    <2> QED
      BY <1>1, <1>3, <2>2, <2>3, <2>4, EmitFollows
  <1> QED
    BY <1>2, <1>4, <1>5, <1>6, <1>7 DEF LineStep

-----------------------------------------------------------------------------
(* Where the code of a section ends.                                       *)

Before(code, s, n) == {i \in DOMAIN code : code[i].segment = s /\ code[i].line < n}

EndOf(code, S) ==
    IF S = {} THEN 0
    ELSE LET last == CHOOSE i \in S : \A k \in S : k <= i
         IN  code[last].at + code[last].len

LEMMA EndOfCodeIs ==
    /\ \A s, n : EndOfCode(s, n) = EndOf(image, Before(image, s, n))
    /\ \A s, n : EndOfCode(s, n)' = EndOf(image', Before(image', s, n))
  BY DEF EndOfCode, EndOf, Before

(* A piece of another section, or of a later line, does not matter.        *)
LEMMA EndStays ==
    ASSUME NEW code \in Seq(Code), NEW c \in Code, NEW s, NEW n,
           ~(c.segment = s /\ c.line < n)
    PROVE  EndOf(Append(code, c), Before(Append(code, c), s, n))
              = EndOf(code, Before(code, s, n))
  <1> DEFINE more == Append(code, c)
             S == Before(code, s, n)
  <1>1. /\ Len(code) \in Nat /\ DOMAIN code = 1 .. Len(code)
        /\ DOMAIN more = 1 .. Len(code) + 1 /\ more[Len(code) + 1] = c
        /\ \A i \in 1 .. Len(code) : more[i] = code[i]
    BY AppendProperties, LenProperties
  <1> HIDE DEF more
  <1>2. Before(more, s, n) = S
    BY <1>1 DEF Before
  <1>3. S \subseteq 1 .. Len(code)
    BY <1>1 DEF Before
  <1>4. CASE S # {}
    <2>1. PICK m \in S : \A k \in S : k <= m
      BY <1>1, <1>3, <1>4, LargestOf
    <2> HIDE DEF S
    <2>2. (CHOOSE i \in S : \A k \in S : k <= i) = m
      BY <1>3, <2>1, GreatestIsChosen
    <2>3. more[m] = code[m]
      BY <1>1, <1>3, <2>1
    <2>4. EndOf(code, S) = code[m].at + code[m].len
      BY <1>4, <2>2 DEF EndOf
    <2>5. EndOf(more, S) = more[m].at + more[m].len
      BY <1>4, <2>2 DEF EndOf
    <2>6. EndOf(more, Before(more, s, n)) = EndOf(code, S)
      BY <1>2, <2>3, <2>4, <2>5
    <2> QED
      BY <2>6 DEF S, more
  <1>5. CASE S = {}
    BY <1>2, <1>5 DEF EndOf, more
  <1> QED
    BY <1>4, <1>5

(* A piece of this section is its end.                                     *)
LEMMA EndMoves ==
    ASSUME NEW code \in Seq(Code), NEW c \in Code, NEW n, c.line < n
    PROVE  EndOf(Append(code, c), Before(Append(code, c), c.segment, n)) = c.at + c.len
  <1> DEFINE more == Append(code, c)
             last == Len(code) + 1
             S == Before(more, c.segment, n)
  <1>1. last \in Nat /\ DOMAIN more = 1 .. last /\ more[last] = c
    BY AppendProperties, LenProperties
  <1> HIDE DEF more
  <1>2. last \in S /\ S \in SUBSET Int /\ \A k \in S : k <= last
    BY <1>1 DEF Before
  <1> HIDE DEF S, last
  <1>3. (CHOOSE i \in S : \A k \in S : k <= i) = last
    BY <1>2, GreatestIsChosen
  <1> QED
    BY <1>1, <1>2, <1>3 DEF EndOf, S, more

(* All the code there is lies before the line.                             *)
LEMMA EndBeforeNext ==
    ASSUME TypeOK, CodeIsInOrder, line # 0, NEW s
    PROVE  EndOfCode(s, line + 1) = EndOfCode(s, line)
  <1>1. line \in Nat /\ \A i \in DOMAIN image : image[i].line < line
    BY DEF TypeOK, CodeIsInOrder
  <1>2. \A i \in DOMAIN image : image[i].line \in Int
    <2>1. \A i \in DOMAIN image : image[i] \in Code
      BY ElementOfSeq, LenProperties DEF TypeOK
    <2> QED
      BY <2>1 DEF Code
  <1>3. Before(image, s, line + 1) = Before(image, s, line)
    BY <1>1, <1>2 DEF Before
  <1> QED
    BY <1>3, EndOfCodeIs

LEMMA SectionFollows ==
    ASSUME TypeOK, InSection, LineStep, NEW s, s = program[line]
    PROVE  segment' = IF s.op = "section" /\ Executes(s) THEN s.segment ELSE segment
  BY DEF LineStep, SkippedLine, LabelLine, EquLine, DataLine, TimesLine, JumpLine,
     ReferLine, DeclareLine, SectionLine, Line, ParseFails, placeVars

LEMMA CodeIsInOrderStep ==
    ASSUME TypeOK, TypeOK', InSection, NothingBeforeFinal, NothingBeforeFinal',
           CodeIsInOrder, Next
    PROVE  CodeIsInOrder'
  <1>1. CASE ptype' # "final"
    BY <1>1 DEF NothingBeforeFinal, CodeIsInOrder
  <1>2. CASE LoopStep
    <2>1. CASE BeginPass
      BY <2>1 DEF BeginPass, pass_final, NothingBeforeFinal, CodeIsInOrder
    <2>2. CASE EndPass
      BY <2>2 DEF EndPass, CodeIsInOrder
    <2>3. CASE Finish
      BY <2>3 DEF Finish, CodeIsInOrder
    <2> QED
      BY <1>2, <2>1, <2>2, <2>3 DEF LoopStep
  <1>3. CASE LineStep /\ ptype' = "final"
    <2>1. /\ ptype = "final" /\ line' = line + 1 /\ line \in Nat /\ line # 0
          /\ image \in Seq(Code)
      BY <1>3, LineIsRead DEF passVars, TypeOK
    <2>2. \A i \in DOMAIN image : image[i].line < line /\ image[i].line \in Int
      <3>1. \A i \in DOMAIN image : image[i] \in Code
        BY <2>1, ElementOfSeq, LenProperties
      <3> QED
        BY <2>1, <3>1 DEF Code, CodeIsInOrder
    <2>3. CASE image' = image
      BY <2>1, <2>2, <2>3 DEF CodeIsInOrder
    <2>4. ASSUME NEW c, Piece(c) PROVE CodeIsInOrder'
      <3>1. /\ Len(image) \in Nat /\ DOMAIN image = 1 .. Len(image)
            /\ DOMAIN image' = 1 .. Len(image) + 1 /\ image'[Len(image) + 1] = c
            /\ \A i \in 1 .. Len(image) : image'[i] = image[i]
            /\ c.line = line
        BY <2>1, <2>4, AppendProperties, LenProperties DEF Piece
      <3>2. \A i \in DOMAIN image' : image'[i].line < line + 1
        BY <2>1, <2>2, <3>1
      <3>3. \A i, j \in DOMAIN image' : i < j => image'[i].line < image'[j].line
        BY <2>1, <2>2, <3>1 DEF CodeIsInOrder
      <3> QED
        BY <2>1, <3>2, <3>3 DEF CodeIsInOrder
    <2> QED
      BY <1>3, <2>1, <2>3, <2>4, LineGenerates DEF CodeFollows
  <1> QED
    BY <1>1, <1>2, <1>3, NextIsLineOrLoop

(* Code that was behind its lines is left there.                           *)
LEMMA EndIsKept ==
    ASSUME TypeOK, InSection, LineStep, ptype = "final", NEW s, NEW n \in Int, n <= line
    PROVE  EndOfCode(s, n)' = EndOfCode(s, n)
  <1>1. CASE image' = image
    BY <1>1, EndOfCodeIs
  <1>2. ASSUME NEW c, Piece(c) PROVE EndOfCode(s, n)' = EndOfCode(s, n)
    <2>1. c \in Code /\ c.line = line /\ image' = Append(image, c) /\ ~(c.line < n)
          /\ image \in Seq(Code)
      BY <1>2 DEF Piece, TypeOK
    <2> QED
      BY <2>1, EndStays, EndOfCodeIs
  <1> QED
    BY <1>1, <1>2, LineGenerates DEF CodeFollows

LEMMA FinalPlaceStep ==
    ASSUME TypeOK, InSection, NothingBeforeFinal, CodeIsInOrder, FinalPlace, Next
    PROVE  FinalPlace'
  <1>0. program' = program /\ \A n : SectionAt(n)' = SectionAt(n)
    BY ProgramStays DEF SectionAt, InFinalPass
  <1>1. CASE BeginPass
    <2>1. /\ line' = 1 /\ segment' = DefaultSection /\ offsets' = [s \in Sections |-> 0]
          /\ image' = image /\ image = <<>>
      BY <1>1 DEF BeginPass, pass_final, NothingBeforeFinal
    <2>2. \A s : EndOfCode(s, 1)' = 0
      <3>1. \A s : Before(image', s, 1) = {}
        BY <2>1 DEF Before
      <3> QED
        BY <3>1, EndOfCodeIs DEF EndOf
    <2> QED
      BY <1>0, <2>1, <2>2, SectionAtFirst DEF FinalPlace
  <1>2. CASE EndPass
    BY <1>2 DEF EndPass, FinalPlace
  <1>3. CASE Finish
    BY <1>3 DEF Finish, FinalPlace
  <1>4. CASE LineStep /\ ptype = "final"
    <2> DEFINE s == program[line]
    <2>1. /\ line' = line + 1 /\ line \in Nat \ {0} /\ image \in Seq(Code)
          /\ offsets \in [Sections -> Int] /\ segment \in Sections
      <3>1. line \in 1 .. Len(program) /\ line' = line + 1 /\ segment \in Sections
        BY <1>4, LineIsRead
      <3>2. line \in Nat /\ image \in Seq(Code) /\ offsets \in [Sections -> Int]
        BY DEF TypeOK
      <3>3. line # 0
        BY ONLY <3>1
      <3> QED
        BY <3>1, <3>2, <3>3
    <2>0. /\ segment = SectionAt(line)
          /\ \A x \in Sections : offsets[x] = EndOfCode(x, line)
      BY <1>4, <2>1 DEF FinalPlace
    <2>2. segment' = SectionAt(line + 1)
      <3>1. InFinalPass(line) <=> Executes(s)
        BY <1>4 DEF InFinalPass, Executes, pass_final
      <3>2. segment' = IF s.op = "section" /\ Executes(s) THEN s.segment ELSE segment
        BY <1>4, SectionFollows
      <3> QED
        BY <2>0, <2>1, <3>1, <3>2, SectionAtNext
    <2>3. \A x \in Sections : offsets'[x] = EndOf(image', Before(image', x, line + 1))
      <3>1. \A x : EndOfCode(x, line + 1) = EndOfCode(x, line)
        BY <2>1, EndBeforeNext
      <3>2. CASE image' = image /\ offsets' = offsets
        BY <2>0, <2>1, <3>1, <3>2, EndOfCodeIs
      <3>3. ASSUME NEW c, Piece(c), NEW x \in Sections
            PROVE  offsets'[x] = EndOf(image', Before(image', x, line + 1))
        <4>1. /\ c \in Code /\ image' = Append(image, c) /\ c.line = line
              /\ c.segment = segment /\ c.at = offsets[segment] /\ Advance(c.len)
          BY <3>3 DEF Piece, Here
        <4>2. CASE x = segment
          <5>1. offsets'[x] = c.at + c.len
            BY <2>1, <4>1, <4>2 DEF Advance
          <5>2. c.line < line + 1
            BY <2>1, <4>1
          <5> QED
            BY <2>1, <4>1, <4>2, <5>1, <5>2, EndMoves
        <4>3. CASE x # segment
          <5>1. offsets'[x] = offsets[x]
            BY <2>1, <4>1, <4>3 DEF Advance
          <5>2. offsets[x] = EndOf(image, Before(image, x, line + 1))
            BY <2>0, <2>1, <3>1, EndOfCodeIs
          <5> QED
            BY <2>1, <4>1, <4>3, <5>1, <5>2, EndStays
        <4> QED
          BY <4>2, <4>3
      <3> QED
        BY <1>4, <3>2, <3>3, LineGenerates DEF CodeFollows
    <2>4. \A x \in Sections : offsets'[x] = EndOfCode(x, line)'
      <3>1. \A x : EndOfCode(x, line)' = EndOf(image', Before(image', x, line'))
        BY DEF EndOfCode, EndOf, Before
      <3> QED
        BY <2>1, <2>3, <3>1
    <2>5. segment' = SectionAt(line)'
      BY <1>0, <2>1, <2>2 DEF SectionAt, InFinalPass
    <2> QED
      BY <2>4, <2>5 DEF FinalPlace
  <1>5. CASE LineStep /\ ptype # "final"
    BY <1>5, LineIsRead DEF FinalPlace, passVars
  <1> QED
    BY <1>1, <1>2, <1>3, <1>4, <1>5, NextIsLineOrLoop DEF LoopStep

-----------------------------------------------------------------------------
(* Labels and EQUs mark their places.                                      *)

LEMMA SectionsStay ==
    ASSUME program' = program
    PROVE  \A n : SectionAt(n)' = SectionAt(n)
  BY DEF SectionAt, InFinalPass

LEMMA PlacesStay ==
    ASSUME program' = program, image' = image
    PROVE  \A n : /\ EndOfCode(SectionAt(n), n)' = EndOfCode(SectionAt(n), n)
                  /\ EndOfCodeBefore(n)' = EndOfCodeBefore(n)
  <1> SUFFICES ASSUME NEW n
               PROVE  /\ EndOfCode(SectionAt(n), n)' = EndOfCode(SectionAt(n), n)
                      /\ EndOfCodeBefore(n)' = EndOfCodeBefore(n)
    OBVIOUS
  <1>1. SectionAt(n)' = SectionAt(n)
    BY SectionsStay
  <1>2. EndOfCode(SectionAt(n), n)' = EndOf(image', Before(image', SectionAt(n)', n))
    BY DEF EndOfCode, EndOf, Before
  <1>3. EndOfCode(SectionAt(n), n)' = EndOfCode(SectionAt(n), n)
    BY <1>1, <1>2, EndOfCodeIs
  <1> QED
    BY <1>3 DEF EndOfCodeBefore

LEMMA LabelsArePlacedStep ==
    ASSUME TypeOK, InSection, FinalPlace, LabelsArePlaced, Next
    PROVE  LabelsArePlaced'
  <1> SUFFICES ASSUME global_offset_changed' = 0, NEW n \in DOMAIN program,
                      program[n].op = "label", InFinalPass(n), FinalLine(n)'
               PROVE  /\ labels'[program[n].name].segment = SectionAt(n)'
                      /\ Given(labels'[program[n].name]) = EndOfCode(SectionAt(n), n)'
    BY ProgramStays DEF LabelsArePlaced, EndOfCodeBefore, InFinalPass
  <1> DEFINE l == program[n].name
  <1>0. /\ program' = program /\ SectionAt(n)' = SectionAt(n)
        /\ n \in Nat \ {0} /\ n <= Len(program) /\ Len(program) \in Nat
        /\ labels \in [Labels -> Entry] /\ pass \in Nat /\ next_seg \in Nat
        /\ program[n] \in Statements /\ l \in Labels /\ line \in Nat
    <2>1. program[n] \in Statements
      BY ProgramsAssumption, ElementOfSeq, LenProperties DEF TypeOK
    <2> QED
      BY <2>1, ProgramStays, SectionsStay, ProgramsAssumption, LenProperties,
         StatementTypes DEF TypeOK
  <1>1. CASE LoopStep
    <2>1. UNCHANGED <<program, labels, image>>
      BY <1>1, LoopKeeps
    <2>2. ~BeginPass /\ UNCHANGED global_offset_changed /\ FinalLine(n)
      BY <1>0, <1>1 DEF LoopStep, BeginPass, EndPass, Finish, FinalLine
    <2> QED
      BY <1>0, <2>1, <2>2, PlacesStay DEF LabelsArePlaced, EndOfCodeBefore
  <1>2. CASE LineStep
    <2>1. /\ ptype = "final" /\ line' = line + 1 /\ n <= line /\ line # 0
          /\ segment \in Sections
      BY <1>0, <1>2, LineIsRead DEF FinalLine, passVars
    <2>2. global_offset_changed = 0 /\ global_offset_changed' = global_offset_changed
      BY <1>2, ChangesGrow DEF TypeOK
    <2>3. EndOfCode(SectionAt(n), n)' = EndOfCode(SectionAt(n), n)
      <3>1. \A x : EndOfCode(x, n)' = EndOfCode(x, n)
        BY <1>0, <1>2, <2>1, EndIsKept
      <3>2. EndOfCode(SectionAt(n), n)' = EndOf(image', Before(image', SectionAt(n), n))
        BY <1>0 DEF EndOfCode, EndOf, Before
      <3> QED
        BY <3>1, <3>2, EndOfCodeIs
    <2>4. CASE n < line
      <3>1. /\ labels[l].segment = SectionAt(n)
            /\ Given(labels[l]) = EndOfCode(SectionAt(n), n)
        BY <2>1, <2>2, <2>4 DEF LabelsArePlaced, FinalLine, EndOfCodeBefore
      <3>2. /\ SameValue(labels[l], labels'[l])
            /\ labels'[l].type = "common" <=> labels[l].type = "common"
        BY <1>0, <1>2, <2>1, <2>2, QuietLine DEF pass_stable
      <3> QED
        BY <1>0, <2>3, <3>1, <3>2 DEF SameValue, Given
    <2>5. CASE n = line
      <3> DEFINE s == program[line]
      <3>1. s.op = "label" /\ Executes(s) /\ s.name = l
        BY <2>1, <2>5 DEF InFinalPass, Executes, pass_final
      <3>2. ~Looks(s) /\ ~Declares(s)
        BY <3>1 DEF Looks, Declares
      <3>3. PICK table, seg, sent : DefinesFrom(s, table, seg, sent)
        BY <1>2, <3>2, LineEffects
      <3> DEFINE entry == table[s.name]
                 new == DefinedEntry(s.name, entry, seg, sent, next_seg, pass)
                 after == EntryAfterSymdef(entry, seg, new, pass, ptype)
      <3>4. seg = segment /\ sent = Here
        BY <3>1, <3>3 DEF DefinesFrom, GivenBy
      <3>5. entry \in Entry /\ labels'[l] = after
        BY <3>1, <3>3, DefineEffects
      <3>6. /\ after.segment = new.segment /\ after.offset = new.offset
            /\ after.size = new.size
            /\ new.segment = DefinedSegment(entry, seg, next_seg)
            /\ new.offset = IF new.type = "common" THEN 0 ELSE sent
            /\ new.size = IF new.type = "common" THEN sent ELSE 0
            /\ after.type = IF HandedOver(entry, seg, new, pass, ptype)
                               /\ new.type = "extern"
                            THEN "required" ELSE new.type
        BY <1>0, <3>3, <3>5, DefinedFacts DEF DefinesFrom
      <3> HIDE DEF new, after, entry
      <3>7. labels'[l].segment = segment /\ Given(labels'[l]) = Here
        BY <2>1, <3>4, <3>5, <3>6, SegmentsAssumption
           DEF DefinedSegment, PSEUDO_SEG, Given
      <3>8. segment = SectionAt(n) /\ Here = EndOfCode(SectionAt(n), n)
        BY <2>1, <2>5 DEF FinalPlace, Here
      <3> QED
        BY <1>0, <2>3, <3>7, <3>8
    <2> QED
      BY <1>0, <2>1, <2>4, <2>5
  <1> QED
    BY <1>1, <1>2, NextIsLineOrLoop

LEMMA SameGiven ==
    ASSUME NEW t1 \in [Labels -> Entry], NEW t2 \in [Labels -> Entry],
           \A l \in Labels : SameForLayout(t1[l], t2[l]), NEW e \in Expr, NEW l \in Labels
    PROVE  /\ Given(t1[l]) = Given(t2[l]) /\ t1[l].segment = t2[l].segment
           /\ \A here : Value(t1, e, here) = Value(t2, e, here)
           /\ \A seg : ValueSegment(t1, e, seg) = ValueSegment(t2, e, seg)
  <1>1. \A k \in {e.plus, e.minus} \cap Labels :
           /\ t1[k].segment = t2[k].segment /\ t1[k].offset = t2[k].offset
           /\ Found(t1[k]) <=> Found(t2[k])
    BY DEF SameForLayout, SameValue
  <1> QED
    BY <1>1, ValueDependsOnPlaces DEF SameForLayout, SameValue, Given

LEMMA EquatesArePlacedStep ==
    ASSUME SettledInv, TypeOK', FinalPlace, EquatesArePlaced, Next
    PROVE  EquatesArePlaced'
  <1>a. TypeOK /\ InSection /\ SymbolInv /\ LayoutInv
    BY DEF SettledInv
  <1> SUFFICES ASSUME PassInvariantProgram, errors' = {}, NEW n \in DOMAIN program,
                      program[n].op = "equ", FinalLine(n)'
               PROVE  LET e == program[n].arg
                          entry == labels'[program[n].name]
                      IN  /\ Given(entry) = Value(labels', e, EndOfCode(SectionAt(n), n)')
                          /\ entry.segment = ValueSegment(labels', e, SectionAt(n)')
    BY <1>a, ProgramStays DEF EquatesArePlaced, EndOfCodeBefore, PassInvariantProgram
  <1> DEFINE l == program[n].name
             e == program[n].arg
  <1>0. /\ program' = program /\ SectionAt(n)' = SectionAt(n)
        /\ n \in Nat \ {0} /\ n <= Len(program) /\ Len(program) \in Nat
        /\ labels \in [Labels -> Entry] /\ pass \in Nat
        /\ program[n] \in Statements /\ l \in Labels /\ e \in Expr /\ line \in Nat
        /\ errors = {}
    <2>1. program[n] \in Statements
      BY <1>a, ProgramsAssumption, ElementOfSeq, LenProperties DEF TypeOK
    <2> QED
      <3>1. errors = {} /\ program' = program
        BY <1>a, ErrorsStay, ProgramStays
      <3>2. l \in Labels /\ e \in Expr
        BY <2>1, StatementTypes
      <3>3. SectionAt(n)' = SectionAt(n)
        BY <3>1, SectionsStay
      <3>4. /\ program \in Programs /\ labels \in [Labels -> Entry]
            /\ pass \in Nat /\ line \in Nat
        BY <1>a DEF TypeOK
      <3>5. Len(program) \in Nat /\ DOMAIN program = 1 .. Len(program)
        BY <3>4, ProgramsAssumption, LenProperties
      <3>6. n \in Nat \ {0} /\ n <= Len(program)
        BY <1>a, <3>5
      <3> QED
        BY <2>1, <3>1, <3>2, <3>3, <3>4, <3>5, <3>6
  <1>1. CASE LoopStep
    <2>1. UNCHANGED <<program, labels, image>>
      BY <1>1, LoopKeeps
    <2>2. FinalLine(n)
      BY <1>0, <1>1 DEF LoopStep, BeginPass, EndPass, Finish, FinalLine
    <2> QED
      BY <1>0, <2>1, <2>2, PlacesStay DEF EquatesArePlaced, EndOfCodeBefore
  <1>2. CASE LineStep
    <2>1. /\ ptype = "final" /\ line' = line + 1 /\ n <= line /\ line # 0
          /\ segment \in Sections /\ line \in DOMAIN program
      BY <1>0, <1>2, <1>a, LineIsRead, LineOfProgram DEF FinalLine, passVars
    <2>2. GoesWell
      BY <1>0, <1>a, <2>1 DEF GoesWell, SymbolInv, PassNumbers
    <2>3. Settled(labels, program[line], CurrentPlace)
      <3>1. PICK places \in Routes :
               IsRoute(places, Len(program) + 1) /\ places[line] = CurrentPlace
        BY <1>0, <1>a, <2>1 DEF LayoutInv, StaysSettled, OnRoute, CurrentPlace, pass_stable
      <3>2. line \in 1 .. Len(program) /\ line < Len(program) + 1
        BY <1>0, <1>2, <1>a, LineIsRead
      <3> QED
        BY <3>1, <3>2 DEF IsRoute
    <2>4. \A k \in Labels : SameForLayout(labels[k], labels'[k])
      BY <1>2, <2>2, <2>3, SettledIsQuiet, QuietTables
    <2>5. EndOfCode(SectionAt(n), n)' = EndOfCode(SectionAt(n), n)
      <3>1. \A x : EndOfCode(x, n)' = EndOfCode(x, n)
        BY <1>0, <1>2, <1>a, <2>1, EndIsKept
      <3>2. EndOfCode(SectionAt(n), n)' = EndOf(image', Before(image', SectionAt(n), n))
        BY <1>0 DEF EndOfCode, EndOf, Before
      <3> QED
        BY <3>1, <3>2, EndOfCodeIs
    <2>6. /\ Given(labels[l]) = Value(labels, e, EndOfCode(SectionAt(n), n))
          /\ labels[l].segment = ValueSegment(labels, e, SectionAt(n))
      <3>1. CASE n < line
        BY <1>0, <2>1, <3>1 DEF EquatesArePlaced, FinalLine, EndOfCodeBefore
      <3>2. CASE n = line
        <4>1. segment = SectionAt(n) /\ Here = EndOfCode(SectionAt(n), n)
          BY <2>1, <3>2 DEF FinalPlace, Here
        <4>2. StaysPut(labels[l], ValueSegment(labels, e, segment), Value(labels, e, Here))
          BY <2>3, <3>2 DEF Settled, CurrentPlace, Here
        <4>3. ValueSegment(labels, e, segment) # PSEUDO_SEG
          BY <1>0, <1>a, <2>1, ValueSegmentIsNoPseudo DEF SymbolInv
        <4> QED
          BY <4>1, <4>2, <4>3 DEF StaysPut, Given
      <3> QED
        BY <1>0, <2>1, <3>1, <3>2
    <2>7. /\ Given(labels'[l]) = Given(labels[l])
          /\ labels'[l].segment = labels[l].segment
          /\ \A here : Value(labels', e, here) = Value(labels, e, here)
          /\ \A seg : ValueSegment(labels', e, seg) = ValueSegment(labels, e, seg)
      <3>1. labels' \in [Labels -> Entry]
        BY DEF TypeOK
      <3> QED
        BY <1>0, <2>4, <3>1, SameGiven
    <2> QED
      BY <1>0, <2>5, <2>6, <2>7
  <1> QED
    BY <1>1, <1>2, <1>a, NextIsLineOrLoop

(* Everything about the places of labels.                                  *)
PlacedInv ==
    /\ ReferenceInv
    /\ SettledInv
    /\ CodeIsInOrder
    /\ FinalPlace
    /\ LabelsArePlaced
    /\ EquatesArePlaced

LEMMA PlacedInvInit == Init => PlacedInv
  <1> SUFFICES ASSUME Init PROVE PlacedInv
    OBVIOUS
  <1>1. ptype = "init" /\ image = <<>> /\ DOMAIN image = {}
    BY DEF Init
  <1> QED
    BY <1>1, ReferenceInvInit, SettledInvInit
       DEF PlacedInv, CodeIsInOrder, FinalPlace, FinalLine, LabelsArePlaced,
           EquatesArePlaced

LEMMA PlacedInvStep ==
    ASSUME PlacedInv, [Next]_vars
    PROVE  PlacedInv'
  <1>1. ReferenceInv' /\ SettledInv'
    BY ReferenceInvStep, SettledInvStep DEF PlacedInv
  <1>2. CASE Next
    BY <1>1, <1>2, CodeIsInOrderStep, FinalPlaceStep, LabelsArePlacedStep,
       EquatesArePlacedStep DEF PlacedInv, ReferenceInv
  <1>3. CASE UNCHANGED vars
    <2>1. \A n : SectionAt(n)' = SectionAt(n) /\ EndOfCodeBefore(n)' = EndOfCodeBefore(n)
      BY <1>3, SectionsStay, PlacesStay DEF vars
    <2>2. CodeIsInOrder' /\ FinalPlace'
      BY <1>3 DEF vars, PlacedInv, CodeIsInOrder, FinalPlace, SectionAt, EndOfCode,
         InFinalPass
    <2>3. LabelsArePlaced' /\ EquatesArePlaced'
      BY <1>3, <2>1 DEF vars, PlacedInv, LabelsArePlaced, EquatesArePlaced,
         PassInvariantProgram, FinalLine, InFinalPass
    <2> QED
      BY <1>1, <2>2, <2>3 DEF PlacedInv
  <1> QED
    BY <1>2, <1>3

(* In every successful assembly a label has the section and the offset at  *)
(* which the code of its line was generated: what the final pass defines it*)
(* with (insn_size, assemble) is what the code before it takes up.         *)
THEOREM LabelsAreWhereTheirCodeIs == Spec => []LabelsMarkTheirPlace
  <1>1. Init => PlacedInv
    BY PlacedInvInit
  <1>2. PlacedInv /\ [Next]_vars => PlacedInv'
    BY PlacedInvStep
  <1>3. PlacedInv => LabelsMarkTheirPlace
    <2> SUFFICES ASSUME PlacedInv, Succeeded PROVE LabelsMarkTheirPlace
      BY DEF LabelsMarkTheirPlace
    <2>1. ptype = "final" /\ global_offset_changed = 0 /\ line = 0
      BY DEF PlacedInv, ReferenceInv, SuccessIsQuiet, Succeeded, SettledInv, SymbolInv,
         PassNumbers
    <2> QED
      BY <2>1 DEF PlacedInv, LabelsArePlaced, FinalLine, LabelsMarkTheirPlace
  <1> QED
    BY <1>1, <1>2, <1>3, PTL DEF Spec

(* In every successful assembly of a program that does not ask which pass  *)
(* it is in, an EQU has the value of its expression in the code, though the*)
(* last pass does not define it (assemble leaves I_EQU to insn_size).      *)
THEOREM EquatesAreRight == Spec => []EquatesAreCurrent
  <1>1. Init => PlacedInv
    BY PlacedInvInit
  <1>2. PlacedInv /\ [Next]_vars => PlacedInv'
    BY PlacedInvStep
  <1>3. PlacedInv => EquatesAreCurrent
    <2> SUFFICES ASSUME PlacedInv, Succeeded PROVE EquatesAreCurrent
      BY DEF EquatesAreCurrent
    <2>1. ptype = "final" /\ errors = {} /\ line = 0
      BY DEF PlacedInv, ReferenceInv, SuccessIsQuiet, Succeeded, SettledInv, SymbolInv,
         PassNumbers
    <2> QED
      BY <2>1 DEF PlacedInv, EquatesArePlaced, FinalLine, EquatesAreCurrent
  <1> QED
    BY <1>1, <1>2, <1>3, PTL DEF Spec
=============================================================================
