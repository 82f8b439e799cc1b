------------------------------ MODULE BinFormat ------------------------------
(***************************************************************************)
(* The flat binary formats (output/outbin.c): sections with real and       *)
(* virtual addresses, which SECTION, ORG and ALIGN describe, and the       *)
(* layout bin_cleanup computes from that.  A section stands for its two    *)
(* segments, <name>.start and <name>.vstart.  Attributes are given in the  *)
(* last pass, one by one; earlier passes only make the sections.  The map  *)
(* file is left out.                                                       *)
(***************************************************************************)
EXTENDS Integers, Sequences, SequencesExt

CONSTANTS
    Text, Data, Bss,    \* the sections that are known by name
    SectionNames,       \* all names, the three among them
    Attributes,         \* [section, kind, value]
    Origins,            \* values of ORG
    Outs,               \* [segto, op, segment, part, offset, bytes, size]
    LINE, Spaces,       \* a record's data: 32 bytes at most; the bytes that 2,
                        \* 3 and 4 bytes of an address reach: 2^16, 2^24, 2^32
    MaxDirectives, MaxOuts

VARIABLES
    stage,      \* "first", "last", "follows", "laid", "layout",
                \* "written", or how it ended: "nonfatal", "fatal",
                \* "crash" or "assertion"
    sections,   \* in the order of their creation
    origin,     \* Undefined without ORG
    relocs,
    list, gp,   \* progbits sections, and the place bin_cleanup is at
    file,       \* pieces of sections and where they are, upper addresses
    directives, outs    \* counts, for the bounds
vars == <<stage, sections, origin, relocs, list, gp, file, directives, outs>>

Undefined == -1
Nothing == ""
Types == {"progbits", "nobits"}

NewSection(name) ==
    [name |-> name, len |-> 0,
     type |-> CASE name \in {Text, Data} -> "progbits"
                [] name = Bss -> "nobits"
                [] OTHER -> Nothing,
     start |-> Undefined, align |-> 0, aligned |-> FALSE, follows |-> Nothing,
     vstart |-> Undefined, valign |-> Undefined, vfollows |-> Nothing]
IndexOf(ss, name) ==
    LET is == {i \in DOMAIN ss : ss[i].name = name}
    IN IF is = {} THEN 0 ELSE CHOOSE i \in is : TRUE
ALIGN(x, a) == ((x + a - 1) \div a) * a

Init ==
    /\ stage = "first" /\ sections = <<NewSection(Text)>>
    /\ origin = Undefined /\ relocs = <<>> /\ directives = 0 /\ outs = 0
    /\ list = <<>> /\ gp = 1 /\ file = <<>>

create_section(name) ==
    /\ stage = "first" /\ IndexOf(sections, name) = 0
    /\ sections' = Append(sections, NewSection(name))
    /\ UNCHANGED <<stage, origin, relocs, list, gp, file, directives, outs>>

(* What names a section in the last pass only has been named before, and   *)
(* has a type then.                                                        *)
last_pass ==
    /\ stage = "first" /\ stage' = "last"
    /\ UNCHANGED <<sections, origin, relocs, list, gp, file, directives, outs>>
Typed(s) == [s EXCEPT !.type = IF @ = Nothing THEN "progbits" ELSE @]

(* A section with an attribute, and whether the attribute is refused.  A   *)
(* start takes its alignment from a section, but not the number of it.     *)
MaxOf(a, b) == IF a < b THEN b ELSE a
Align(s) == IF s.aligned THEN s.align ELSE Undefined
Aligned(s, value) == [s EXCEPT !.align = value, !.aligned = TRUE]
Refused(s, kind, value) ==
    CASE kind \in Types -> s.type \notin {Nothing, kind}
      [] kind = "align" ->
            s.start # Undefined /\ s.start % MaxOf(value, Align(s)) # 0
      [] kind = "valign" ->
            s.vstart # Undefined /\ s.vstart % MaxOf(value, s.valign) # 0
      [] kind = "start" ->
            \/ s.follows # Nothing \/ s.start \notin {Undefined, value}
            \/ s.aligned /\ value % s.align # 0
      [] kind = "vstart" ->
            \/ s.vfollows # Nothing \/ s.vstart \notin {Undefined, value}
            \/ s.valign # Undefined /\ value % s.valign # 0
      [] kind = "follows" -> s.start # Undefined
      [] kind = "vfollows" -> s.vstart # Undefined
bin_assign_attributes(s, kind, value) ==
    CASE kind \in Types -> [s EXCEPT !.type = kind]
      [] kind = "align" -> Aligned(s, MaxOf(value, Align(s)))
      [] kind = "valign" -> [s EXCEPT !.valign = MaxOf(value, @)]
      [] kind = "start" -> [s EXCEPT !.start = value, !.aligned = FALSE]
      [] kind = "vstart" -> [s EXCEPT !.vstart = value, !.valign = Undefined]
      [] kind = "follows" -> [s EXCEPT !.follows = value]
      [] kind = "vfollows" -> [s EXCEPT !.vfollows = value]

(* What is said of a section does not depend on its contents: the model    *)
(* has all of it first.                                                    *)
Directive == /\ stage = "last" /\ directives < MaxDirectives
             /\ \A i \in DOMAIN sections : sections[i].len = 0
             /\ directives' = directives + 1
bin_secname(a) ==
    LET i == IndexOf(sections, a.section)
        s == sections[i]
    IN /\ Directive /\ i # 0
       /\ IF Refused(s, a.kind, a.value)
          THEN stage' = "nonfatal" /\ UNCHANGED sections
          ELSE /\ sections' = [sections EXCEPT ![i] =
                      Typed(bin_assign_attributes(s, a.kind, a.value))]
               /\ UNCHANGED stage
       /\ UNCHANGED <<origin, relocs, list, gp, file, outs>>

(* ALIGN in a section, whatever else is said of it.                        *)
bin_sectalign(name, value) ==
    LET i == IndexOf(sections, name)
    IN /\ Directive /\ i # 0
       /\ sections' = [sections EXCEPT ![i] =
                          Typed(Aligned(@, MaxOf(value, @.align)))]
       /\ UNCHANGED <<stage, origin, relocs, list, gp, file, outs>>

bin_directive(value) ==
    /\ Directive
    /\ IF origin \notin {Undefined, value}
       THEN stage' = "nonfatal" /\ UNCHANGED origin
       ELSE origin' = value /\ UNCHANGED stage
    /\ UNCHANGED <<sections, relocs, list, gp, file, outs>>

(* Relative references count from the section their field is in; the place *)
(* in it is subtracted here, the section's address in the end.             *)
bin_out(r) ==
    LET i == IndexOf(sections, r.segto)
        s == Typed(sections[i])
        here == [s EXCEPT !.len = @ + r.bytes]
        reloc == [target |-> r.segto, posn |-> s.len, secref |-> r.segment,
                  part |-> r.part, relative |-> r.op = "relative", ref |-> r,
                  stored |-> IF r.op = "relative"
                             THEN r.offset - r.size - s.len ELSE r.offset]
        refers == r.op \in {"address", "relative"}
    IN /\ stage = "last" /\ i # 0 /\ outs < MaxOuts /\ outs' = outs + 1
       /\ IF refers /\ IndexOf(sections, r.segment) = 0
          THEN stage' = "nonfatal" /\ UNCHANGED <<sections, relocs>>
          ELSE /\ sections' = [sections EXCEPT ![i] = here]
               /\ relocs' = IF s.type = "progbits" /\ refers
                            THEN Append(relocs, reloc) ELSE relocs
               /\ UNCHANGED stage
       /\ UNCHANGED <<origin, list, gp, file, directives>>

-----------------------------------------------------------------------------
(* Step 1 of bin_cleanup: for a section without contents, real and virtual *)
(* attributes are the same.                                                *)
Mixed(s) ==
    /\ s.start # Undefined \/ s.aligned \/ s.follows # Nothing
    /\ s.vstart # Undefined \/ s.valign # Undefined \/ s.vfollows # Nothing
Virtual(s) ==
    LET t == [s EXCEPT !.vstart = IF s.start # Undefined THEN s.start ELSE @,
                       !.valign = IF s.aligned THEN s.align ELSE @,
                       !.vfollows = IF s.follows # Nothing THEN s.follows ELSE @,
                       !.follows = Nothing]
    IN [t EXCEPT !.start = IF t.vstart # Undefined THEN t.vstart ELSE @]
IsProgbits(s) == s.type = "progbits"
IsNobits(s) == s.type = "nobits"

cleanup_split ==
    LET typed == [i \in DOMAIN sections |-> Typed(sections[i])]
    IN /\ stage = "last"
       /\ IF \E i \in DOMAIN typed : IsNobits(typed[i]) /\ Mixed(typed[i])
          THEN stage' = "fatal" /\ UNCHANGED <<sections, list>>
          ELSE /\ stage' = "follows"
               /\ sections' = [i \in DOMAIN typed |->
                      IF IsNobits(typed[i]) THEN Virtual(typed[i]) ELSE typed[i]]
               /\ list' = SelectSeq(typed, IsProgbits)
       /\ UNCHANGED <<origin, relocs, gp, file, directives, outs>>

(* Step 2, one turn of the loop: the group led by the section at g, which  *)
(* is not behind the section it follows, is put there.  A group ends before*)
(* s, before a section with a start, or before one that is not behind the  *)
(* section it follows itself, unless that is the second of the group.      *)
Misplaced(i) ==
    i > 1 /\ list[i].follows # Nothing /\ list[i].follows # list[i - 1].name
Leaders == IF gp > Len(list) THEN {}
           ELSE IF list[gp].follows # Nothing THEN {gp}
           ELSE {i \in gp..Len(list) : Misplaced(i)}
Least(S) == CHOOSE x \in S : \A y \in S : x <= y
GroupEnd(g, s) ==
    Least({m \in g + 1..Len(list) + 1 :
             \/ m = Len(list) + 1 \/ m = s \/ list[m].start # Undefined
             \/ m > g + 1 /\ Misplaced(m)})
cleanup_follows ==
    LET g == Least(Leaders)
        s == IndexOf(list, list[g].follows)
        end == GroupEnd(g, s)
        group == SubSeq(list, g, end - 1)
    IN /\ stage = "follows"
       /\ IF Leaders = {} THEN stage' = "laid" /\ UNCHANGED <<list, gp>>
          ELSE IF \/ s \in {0, g}
                  \/ s < Len(list) /\ list[s + 1].follows = list[s].name
          THEN stage' = "fatal" /\ UNCHANGED <<list, gp>>
          ELSE /\ IF s < g
                  THEN /\ list' = SubSeq(list, 1, s) \o group
                           \o SubSeq(list, s + 1, g - 1)
                           \o SubSeq(list, end, Len(list))
                       /\ gp' = end
                  ELSE /\ list' = SubSeq(list, 1, g - 1)
                           \o SubSeq(list, end, s) \o group
                           \o SubSeq(list, s + 1, Len(list))
                       /\ gp' = g
               /\ UNCHANGED stage
       /\ UNCHANGED <<sections, origin, relocs, file, directives, outs>>

(* Groups that begin with a start address, in the order of these.          *)
ByStart(l) ==
    LET Sorted(sorted, i) ==
          IF i > 1 /\ l[i].start = Undefined THEN sorted
          ELSE LET end == Least({m \in i + 1..Len(l) + 1 :
                                   m = Len(l) + 1 \/ l[m].start # Undefined})
                   at == Least({m \in 1..Len(sorted) + 1 :
                                  \/ m = Len(sorted) + 1
                                  \/ sorted[m].start # Undefined
                                     /\ l[i].start < sorted[m].start})
               IN SubSeq(sorted, 1, at - 1) \o SubSeq(l, i, end - 1)
                  \o SubSeq(sorted, at, Len(sorted))
    IN FoldLeft(Sorted, <<>>, [i \in DOMAIN l |-> i])

(* Step 3: the start of each section, what is behind the last that is not  *)
(* empty (pend), and how it ends.  Sections that overlap are an error, for *)
(* whose message the section before is dereferenced, if there is one.      *)
FirstStart(first) ==
    CASE first.start # Undefined -> first.start
      [] origin = Undefined -> 0
      [] first.aligned -> ALIGN(origin, first.align)
      [] OTHER -> origin
Placed(s, pend) ==
    LET start == IF s.start # Undefined THEN s.start
                 ELSE ALIGN(pend, IF s.aligned THEN s.align ELSE 4)
    IN [s EXCEPT !.start = start,
                 !.vstart = IF @ # Undefined \/ s.vfollows # Nothing THEN @
                            ELSE IF s.valign # Undefined
                            THEN ALIGN(pend, s.valign) ELSE start]
Starts(l, from) ==
    LET Next1(acc, i) ==
          LET s == Placed(IF i = 1 THEN [l[1] EXCEPT !.start = from] ELSE l[i],
                          acc.pend)
              end == s.start + s.len
              next == {j \in i + 1..Len(l) : l[j].len > 0 /\ l[j].start # Undefined}
              limit == l[Least(next)].start
          IN IF s.start < acc.pend
             THEN [acc EXCEPT !.list = Append(@, s)]
             ELSE [list |-> Append(acc.list, s), pend |-> end, any |-> TRUE,
                   verdict |->
                     IF acc.verdict # "laid" \/ next = {} THEN acc.verdict
                     ELSE IF limit < acc.origin THEN "fatal"
                     ELSE IF s.start > limit
                     THEN IF acc.any THEN "fatal" ELSE "crash"
                     ELSE IF end > limit THEN "fatal" ELSE acc.verdict,
                   origin |-> acc.origin]
    IN FoldLeft(Next1, [list |-> <<>>, pend |-> from, any |-> FALSE,
                        verdict |-> "laid",
                        origin |-> IF origin = Undefined THEN from ELSE origin],
                [i \in DOMAIN l |-> i])

(* Step 4: sections that virtually follow others, as often as that finds   *)
(* an address; without saying so, a section follows the one created before *)
(* it, .bss the last that has contents.                                    *)
Followed(ss, last, g) ==
    IF g.vfollows # Nothing THEN IndexOf(ss, g.vfollows)
    ELSE IF g.name = Bss THEN last
    ELSE IndexOf(ss, sections[IndexOf(sections, g.name) - 1].name)
Unknown(ss) == \E i \in DOMAIN ss :
    /\ ss[i].vstart = Undefined /\ ss[i].vfollows # Nothing
    /\ IndexOf(ss, ss[i].vfollows) = 0
VStarts(ss, last) ==
    LET Found(acc, i) ==
          LET g == acc[i]
              s == acc[Followed(acc, last, g)]
              vstart == ALIGN(s.vstart + s.len,
                              IF g.valign = Undefined THEN 4 ELSE g.valign)
          IN IF g.vstart # Undefined \/ s.vstart = Undefined THEN acc
             ELSE [acc EXCEPT ![i].vstart = vstart,
                     ![i].start = IF IsNobits(g) THEN vstart ELSE @]
        Scan(acc, n) == FoldLeft(Found, acc, [i \in DOMAIN ss |-> i])
    IN FoldLeft(Scan, ss, [n \in DOMAIN ss |-> n])

(* The origin is that of the first section if there is no ORG.             *)
cleanup_layout ==
    LET sorted == ByStart(list)
        from == FirstStart(sorted[1])
        laid == Starts(sorted, from)
        all == laid.list \o SelectSeq(sections, IsNobits)
        done == VStarts(all, Len(laid.list))
        verdict ==
            IF /\ origin # Undefined /\ sorted[1].start # Undefined
               /\ sorted[1].start < origin THEN "fatal"
            ELSE IF laid.verdict # "laid" THEN laid.verdict
            ELSE IF \/ Unknown(all)
                    \/ \E i \in DOMAIN done : done[i].vstart = Undefined
            THEN "fatal" ELSE "layout"
    IN /\ stage = "laid" /\ stage' = verdict
       /\ IF verdict = "layout"
          THEN list' = done /\ origin' = laid.origin
          ELSE UNCHANGED <<list, origin>>
       /\ UNCHANGED <<sections, relocs, gp, file, directives, outs>>

(* Steps 5 and 6: the values of the references, and the sections one after *)
(* the other with zeroes between them (nasm_assert(addr <= s->start)).     *)
Address(name, part) ==
    LET s == list[IndexOf(list, name)]
    IN IF part = "start" THEN s.start ELSE s.vstart
RelocatedInFile(r) ==
    (r.stored + Address(r.secref, r.part)
        - (IF r.relative THEN Address(r.target, "start") ELSE 0))
      % (256 ^ r.ref.bytes)
Relocated(r) ==
    (r.stored + Address(r.secref, r.part)
        - (IF r.relative THEN Address(r.target, "vstart") ELSE 0))
      % (256 ^ r.ref.bytes)
InFile(l) == SelectSeq(l, LAMBDA s : s.len > 0 /\ IsProgbits(s))
Piece(s, from, len, addr) ==
    [type |-> "data", name |-> s.name, from |-> from, len |-> len, addr |-> addr]
do_output_bin(l, from) ==
    LET Written(acc, s) ==
          [addr |-> s.start + s.len, ok |-> acc.ok /\ acc.addr <= s.start,
           size |-> acc.size + s.start - acc.addr + s.len,
           file |-> Append(acc.file, Piece(s, 0, s.len,
                                          acc.size + s.start - acc.addr))]
    IN FoldLeft(Written, [addr |-> from, ok |-> TRUE, file |-> <<>>, size |-> 0],
                InFile(l))

(* Intel hex and S-records: data up to the next line, at an address of two *)
(* bytes behind an upper half that is written when it changes (hilba), or  *)
(* of as many bytes as the last address needs.                             *)
Lines(s) ==
    LET first == s.start \div LINE
        end == s.start + s.len
    IN [k \in 1..(end - 1) \div LINE - first + 1 |->
          LET from == MaxOf(s.start, LINE * (first + k - 1))
              to == IF end < LINE * (first + k) THEN end ELSE LINE * (first + k)
          IN Piece(s, from - s.start, to - from, from)]
AllLines(l) == FlattenSeq([i \in DOMAIN InFile(l) |-> Lines(InFile(l)[i])])
do_output_ith(l) ==
    LET Written(acc, r) ==
          LET hiaddr == r.addr \div Spaces[1]
              base == IF hiaddr = acc.hilba THEN <<>>
                      ELSE <<[type |-> "base", addr |-> hiaddr]>>
          IN [hilba |-> hiaddr,
              file |-> acc.file \o base
                       \o <<[r EXCEPT !.addr = @ % Spaces[1]]>>]
    IN FoldLeft(Written, [hilba |-> 0, file |-> <<>>], AllLines(l)).file
do_output_srec(l) ==
    LET fits == {n \in 1..3 : \A i \in DOMAIN InFile(l) :
                    InFile(l)[i].start + InFile(l)[i].len - 1 < Spaces[n]}
        alen == IF fits = {} THEN 3 ELSE Least(fits)
    IN [i \in DOMAIN AllLines(l) |->
           [AllLines(l)[i] EXCEPT !.addr = @ % Spaces[alen]]]

(* Which of the formats it is makes no difference before.                  *)
cleanup_output ==
    LET bin == do_output_bin(list, origin)
    IN /\ stage = "layout"
       /\ \/ /\ stage' = IF bin.ok THEN "written" ELSE "assertion"
             /\ file' = bin.file
          \/ stage' = "written" /\ file' = do_output_ith(list)
          \/ stage' = "written" /\ file' = do_output_srec(list)
       /\ relocs' = [i \in DOMAIN relocs |->
                       [relocs[i] EXCEPT !.stored = Relocated(relocs[i])]]
       /\ UNCHANGED <<sections, origin, list, gp, directives, outs>>

Next ==
    \/ \E name \in SectionNames : create_section(name)
    \/ last_pass
    \/ \E a \in Attributes : bin_secname(a)
    \/ \E name \in SectionNames : bin_sectalign(name, 8)
    \/ \E value \in Origins : bin_directive(value)
    \/ \E r \in Outs : bin_out(r)
    \/ cleanup_split \/ cleanup_follows \/ cleanup_layout \/ cleanup_output
Spec == Init /\ [][Next]_vars
-----------------------------------------------------------------------------
Laid(name) == list[IndexOf(list, name)]
OnBoundary(x, align) == x % (IF align = Undefined THEN 4 ELSE align) = 0

(* What bin_cleanup writes is an image of the program: all of each section *)
(* is in the file once, at its address or its distance from the origin, and*)
(* no two overlap, however SECTION, ORG and ALIGN ordered and placed them;    *)
(* a start and an alignment that were asked for are kept; memory behind    *)
(* what is virtually followed is where a section begins; and each reference*)
(* has the value it has when the sections are where they virtually are.    *)
(* A loader counts from the upper half last seen.                          *)
Loaded ==
    LET Load(acc, r) ==
          IF r.type = "base" THEN [acc EXCEPT !.base = r.addr * Spaces[1]]
          ELSE [acc EXCEPT !.data = Append(@, [r EXCEPT !.addr = @ + acc.base])]
    IN FoldLeft(Load, [base |-> 0, data |-> <<>>], file).data
FileIsTheImage ==
    LET Distance(r) == r.addr - Laid(r.name).start - r.from
        Of(s) == SelectSeq(Loaded, LAMBDA r : r.name = s.name)
    IN /\ \A i, j \in DOMAIN Loaded :
             i < j => Loaded[i].addr + Loaded[i].len <= Loaded[j].addr
       /\ \A i, j \in DOMAIN Loaded : Distance(Loaded[i]) = Distance(Loaded[j])
       /\ \A i \in DOMAIN Loaded : Distance(Loaded[i]) \in {0, -origin}
       /\ \A s \in ToSet(sections) :
             FoldLeft(LAMBDA n, r : IF r.from = n THEN n + r.len ELSE -1, 0, Of(s))
               = IF IsProgbits(s) THEN s.len ELSE 0
AsAsked(s) ==
    /\ s.start # Undefined => Laid(s.name).start = s.start
    /\ s.start = Undefined /\ IsProgbits(s) /\ s.name # list[1].name
          => OnBoundary(Laid(s.name).start, Align(s))
    /\ s.vstart # Undefined => Laid(s.name).vstart = s.vstart
    /\ s.vstart = Undefined /\ (IsNobits(s) \/ s.vfollows # Nothing)
          => OnBoundary(Laid(s.name).vstart, s.valign)
    /\ s.vfollows # Nothing =>
         LET before == Laid(s.vfollows)
             gap == Laid(s.name).vstart - (before.vstart + before.len)
         IN 0 <= gap /\ gap < (IF s.valign = Undefined THEN 4 ELSE s.valign)
Resolved(r) ==
    LET ref == r.ref
        here == Laid(ref.segto).vstart + r.posn + ref.size
        there == Address(ref.segment, ref.part) + ref.offset
    IN r.stored = (IF r.relative THEN there - here ELSE there)
                     % (256 ^ ref.bytes)
ImageIsFaithful ==
    /\ stage # "assertion"
    /\ stage = "written" =>
         /\ FileIsTheImage
         /\ \A i \in DOMAIN sections : AsAsked(sections[i])
         /\ \A i \in DOMAIN relocs : Resolved(relocs[i])
=============================================================================
