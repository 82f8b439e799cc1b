----------------------------- MODULE CoffObject -----------------------------
(***************************************************************************)
(* The COFF output formats (output/outcoff.c): sections, COMDATs among     *)
(* them, symbols, relocations, indices of symbols as data, and the file    *)
(* that coff_write makes of them.  A section stands for its segment, and   *)
(* an external symbol for its own.  Flags, alignment, types, checksums and *)
(* long names are left out, and so are .pdata and .xdata, whose addresses  *)
(* are relative to the image without saying so.                            *)
(***************************************************************************)
EXTENDS Integers, Sequences, SequencesExt

CONSTANTS
    Text, Bss,              \* sections without COMDAT: the default, and data-less
    Directives,             \* [name, comdat, selection] for SECTION
    Exports, Handlers,      \* symbols that EXPORT and SAFESEH name
    Externs, NO_SEG,        \* segments that are not of a section
    NONE, PLACEHOLDER,
    Settings,               \* "coff", "win32" and "win64"
    Definitions,            \* [name, segment, offset, is_global]
    References,             \* [op, segto, segment, addr, wrt, bytes, size]
    ASSOCIATIVE,            \* IMAGE_COMDAT_SELECT_ASSOCIATIVE
    MAX_RELOC,              \* IMAGE_SCN_MAX_RELOC
    MaxSections, MaxSyms, MaxBytes, MaxHandlers     \* bounds

VARIABLES
    setting, stage,         \* stage: "sizing", "symbols", "code", "written"
    sects, syms,
    exports, handlers,      \* EXPORTs; [name, index, sections] in .sxdata
    failed,
    refs, offsets,          \* history: references, where the assembler is
    file
vars == <<setting, stage, sects, syms, exports, handlers, failed, refs, offsets,
          file>>

win == setting # "coff"
Plain(name) == <<name, NONE>>
(* All sections called .text share the default segment.                    *)
Segment(s) == IF s.name = Text THEN Plain(Text) ELSE <<s.name, s.comdat>>
shndx(ss, segment) == SelectInSeq(ss, LAMBDA s : Segment(s) = segment)
Exists(ss, segment) == shndx(ss, segment) # 0

coff_make_section(ss, name) ==
    Append(ss, [name |-> name, comdat |-> NONE, selection |-> 0, associated |-> 0,
                has_symbol |-> FALSE, data |-> name # Bss, len |-> 0,
                relocs |-> <<>>, symidx |-> <<>>])
WithSection(ss, name) ==
    IF \E i \in DOMAIN ss : ss[i].name = name THEN ss
    ELSE coff_make_section(ss, name)

Init ==
    /\ setting \in Settings /\ stage = "sizing"
    /\ sects = <<>> /\ syms = <<>> /\ exports = <<>> /\ handlers = <<>>
    /\ failed = FALSE /\ refs = <<>> /\ offsets = <<>>
    /\ file = <<>>

(* SECTION.  A COMDAT that depends on one which does not exist yet gets a  *)
(* placeholder in front of it, which takes its name when it comes.         *)
Same(d, s) ==
    /\ s.name = d.name /\ s.comdat = d.comdat
    /\ d.comdat # NONE =>
          (s.selection = ASSOCIATIVE) = (d.selection = ASSOCIATIVE)
Placeholder(d, s) ==
    /\ s.name # d.name /\ d.comdat # NONE /\ s.comdat = d.comdat
    /\ s.selection = 0 /\ d.selection # ASSOCIATIVE
coff_section_names(d) ==
    LET i == SelectInSeq(sects, LAMBDA s : Same(d, s) \/ Placeholder(d, s))
        Leader(ss) == SelectInSeq(ss, LAMBDA s : s.comdat = d.comdat)
        holder == coff_make_section(sects, PLACEHOLDER)
        leaders == IF d.selection # ASSOCIATIVE \/ Leader(sects) # 0 THEN sects
                   ELSE [holder EXCEPT ![Len(holder)].comdat = d.comdat]
        made == coff_make_section(leaders, d.name)
    IN /\ stage = "sizing" /\ Len(sects) < MaxSections
       /\ sects' =
             IF i = 0
             THEN [made EXCEPT ![Len(made)].comdat = d.comdat,
                               ![Len(made)].selection = d.selection,
                               ![Len(made)].associated =
                                  IF d.selection = ASSOCIATIVE THEN Leader(leaders) ELSE 0]
             ELSE IF Same(d, sects[i]) THEN sects
             ELSE [sects EXCEPT ![i].name = d.name, ![i].selection = d.selection]
       /\ sects' # sects
       /\ UNCHANGED <<setting, stage, syms, exports, handlers, failed, refs,
                      offsets, file>>

(* EXPORT, in the first pass: one said before is found unless it is the    *)
(* last of the list.                                                       *)
AddExport(name) ==
    /\ stage = "sizing" /\ Len(sects) < MaxSections /\ Len(exports) < MaxHandlers
    /\ sects' = IF exports = <<>> THEN WithSection(sects, ".drectve") ELSE sects
    /\ exports' = IF exports # <<>> /\ name \in ToSet(Front(exports)) THEN exports
                  ELSE Append(exports, name)
    /\ UNCHANGED <<setting, stage, syms, handlers, failed, refs, offsets, file>>

(* SAFESEH makes its section in the first pass; in the last it writes an   *)
(* index, counted with the sections there are.                             *)
initsym == 3 + 2 * Len(sects)
coff_safeseh_section ==
    /\ setting = "win32" /\ stage = "sizing" /\ Len(sects) < MaxSections
    /\ sects' = WithSection(sects, ".sxdata") /\ sects' # sects
    /\ UNCHANGED <<setting, stage, syms, exports, handlers, failed, refs,
                   offsets, file>>
coff_safeseh(name) ==
    LET n == SelectInSeq(syms, LAMBDA s : s.name = name)
        sxseg == shndx(sects, Plain(".sxdata"))
    IN /\ setting = "win32" /\ stage = "code" /\ Len(handlers) < MaxHandlers
       /\ sxseg # 0
       /\ IF n = 0
          THEN failed' = TRUE /\ UNCHANGED <<handlers, sects>>
          ELSE /\ handlers' = Append(handlers, [name |-> name,
                                                index |-> n - 1 + initsym,
                                                sections |-> Len(sects)])
               /\ sects' = [sects EXCEPT ![sxseg].len = @ + 4]
               /\ UNCHANGED failed
       /\ UNCHANGED <<setting, stage, syms, exports, refs, offsets, file>>

Stage(from, to) ==
    /\ stage = from /\ stage' = to
    /\ UNCHANGED <<setting, sects, syms, exports, handlers, failed, refs,
                   offsets, file>>

-----------------------------------------------------------------------------
(* The first symbol of a COMDAT is that of its name, defined for it if it  *)
(* has another.  What is in no section that exists is an external symbol.  *)
Symbol(ss, d) ==
    LET section == IF d.segment = NO_SEG THEN -1 ELSE shndx(ss, d.segment)
    IN [name |-> d.name, section |-> section, segment |-> d.segment,
        value |-> IF d.is_global = 2 \/ section # 0 THEN d.offset ELSE 0,
        global |-> d.is_global > 0 \/ section = 0, was |-> d.is_global]
coff_defcomdatname(ss, i) ==
    Symbol(ss, [name |-> ss[i].comdat, segment |-> Segment(ss[i]), offset |-> 0,
                is_global |-> 1])
NeedsNameNever(s, name) == FALSE    \* the label stays the first symbol
NeedsName(s, name) == s.selection # ASSOCIATIVE /\ s.comdat # name
Defined(ss, list, d) ==     \* [sects, syms]
    LET i == shndx(ss, d.segment)
        first == d.segment # NO_SEG /\ i # 0 /\ ss[i].comdat # NONE
                 /\ ~ss[i].has_symbol
    IN [sects |-> IF first THEN [ss EXCEPT ![i].has_symbol = TRUE] ELSE ss,
        syms |-> list
                 \o (IF first /\ NeedsName(ss[i], d.name)
                     THEN <<coff_defcomdatname(ss, i)>> ELSE <<>>)
                 \o <<Symbol(ss, d)>>]
coff_deflabel(d) ==
    LET defined == Defined(sects, syms, d)
    IN /\ stage = "symbols" /\ Len(syms) < MaxSyms
       /\ \A i \in DOMAIN syms : syms[i].name # d.name
       /\ \/ d.segment \in {Plain(Text), NO_SEG} \cup Externs
          \/ Exists(sects, d.segment)
       /\ sects' = defined.sects /\ syms' = defined.syms
       /\ UNCHANGED <<setting, stage, exports, handlers, failed, refs, offsets, file>>

(* The arrays bsym and symval: the last symbol of a segment.               *)
OfSegment(segment) == {i \in DOMAIN syms : syms[i].segment = segment}
bsym(segment) ==
    IF OfSegment(segment) = {} THEN 0
    ELSE (CHOOSE i \in OfSegment(segment) :
             \A j \in OfSegment(segment) : j <= i) - 1
symval(segment) ==
    IF OfSegment(segment) = {} THEN 0 ELSE syms[bsym(segment) + 1].value

-----------------------------------------------------------------------------
(* A relocation counts its symbol from one of three places.                *)
coff_add_reloc(ss, i, segment) ==
    [address |-> ss[i].len,
     base |-> CASE segment = NO_SEG -> "absolute"
                [] segment # NO_SEG /\ Exists(ss, segment) -> "section"
                [] OTHER -> "real",
     symbol |-> CASE segment = NO_SEG -> 0
                  [] segment # NO_SEG /\ Exists(ss, segment) ->
                        2 * (shndx(ss, segment) - 1)
                  [] OTHER -> bsym(segment)]
Fix(reloc, segment) == IF reloc.base = "real" /\ ~win THEN symval(segment) ELSE 0

(* A symbol at a place: one with a type is preferred, here it is any.      *)
coff_out_get_symbol_idx(segment, offset) ==
    IF segment = NO_SEG \/ Exists(sects, segment)
    THEN LET section == IF segment = NO_SEG THEN -1 ELSE shndx(sects, segment)
         IN {n - 1 : n \in {m \in DOMAIN syms : /\ syms[m].section = section
                                                /\ syms[m].value = offset}}
    ELSE {bsym(segment)}

(* What coff_out does to its section: new length and fixups, and the value *)
(* it stores.  A relative reference of one or eight bytes writes nothing.  *)
(* Addresses without a segment come as data (out in asm/assemble.c).  An   *)
(* error may write something too, but then there is no object.             *)
Grown(s, n) == [s EXCEPT !.len = @ + n]
Written(ss, r, i) ==        \* a set of [section, stored]; none is an error
    LET s == ss[i]
        reloc == coff_add_reloc(ss, i, r.segment)
        Relocated(stored) ==
            {[section |-> [Grown(s, r.bytes) EXCEPT !.relocs = Append(@, reloc)],
              stored |-> stored + Fix(reloc, r.segment)]}
    IN CASE r.op = "address" /\ r.wrt = "..symtab" ->
              {[section |-> [Grown(s, r.bytes) EXCEPT !.symidx =
                                Append(@, [address |-> s.len, symbol |-> n])],
                stored |-> 0] : n \in coff_out_get_symbol_idx(r.segment, r.addr)}
         [] r.op = "address" /\ r.wrt = "..imagebase" ->
              IF setting = "win64" /\ r.bytes # 8 THEN Relocated(r.addr) ELSE {}
         [] r.op = "address" /\ r.wrt = NONE ->
              IF setting = "win64" \/ r.bytes = 4 THEN Relocated(r.addr) ELSE {}
         [] r.op = "relative" /\ r.bytes = 4 ->
              IF r.segment = NO_SEG /\ setting = "win32" THEN {}
              ELSE Relocated(IF win THEN r.addr + 4 - r.size
                             ELSE r.addr - (r.size + s.len))
         [] r.op = "relative" /\ r.bytes \in {1, 8} ->
              {[section |-> s, stored |-> 0]}
         [] OTHER -> {}

HandedOver(segment) ==
    \/ segment = NO_SEG \/ Exists(sects, segment)
    \/ \E i \in DOMAIN syms : syms[i].segment = segment
Offset(segment) == IF segment \in DOMAIN offsets THEN offsets[segment] ELSE 0
coff_out(r) ==
    LET ss == IF r.segto = Plain(Text) THEN WithSection(sects, Text) ELSE sects
        i == shndx(ss, r.segto)
        Put(section) == sects' = [ss EXCEPT ![i] = section]
    IN /\ stage = "code" /\ i # 0 /\ HandedOver(r.segment)
       /\ Offset(r.segto) + r.bytes <= MaxBytes
       /\ IF r.op \in {"data", "reserve"} \/ ~ss[i].data
          THEN Put(Grown(ss[i], r.bytes)) /\ UNCHANGED <<refs, failed>>
          ELSE IF Written(ss, r, i) = {}
          THEN failed' = TRUE /\ sects' = ss /\ UNCHANGED refs
          ELSE /\ \E w \in Written(ss, r, i) :
                    /\ Put(w.section)
                    /\ refs' = Append(refs, [at |-> Offset(r.segto), ref |-> r,
                                             stored |-> w.stored])
               /\ UNCHANGED failed
       /\ offsets' = [x \in DOMAIN offsets \cup {r.segto} |->
                         Offset(x) + IF x = r.segto THEN r.bytes ELSE 0]
       /\ UNCHANGED <<setting, stage, syms, exports, handlers, file>>

-----------------------------------------------------------------------------
(* Before the file is written: the text of the exports, a symbol for the   *)
(* linker, and the names of COMDATs that have no symbol yet.  A placeholder*)
(* that is left is an error.                                               *)
FEAT == "@feat.00"
BuildExportTable ==
    LET drectve == SelectInSeq(sects, LAMBDA s : s.name = ".drectve")
    IN IF exports = <<>> THEN sects
       ELSE [sects EXCEPT ![drectve].len = @ + Len(exports)]
Completed ==
    LET exported == BuildExportTable
        feat == [name |-> FEAT, segment |-> NO_SEG, offset |-> 1, is_global |-> 0]
        defined == IF setting = "win32" /\ ~\E s \in ToSet(syms) : s.name = FEAT
                   THEN Defined(exported, syms, feat)
                   ELSE [sects |-> exported, syms |-> syms]
        Name(acc, i) ==
            LET s == acc.sects[i]
                d == [name |-> s.comdat, segment |-> Segment(s), offset |-> 0,
                      is_global |-> 1]
            IN IF s.comdat # NONE /\ ~s.has_symbol /\ s.selection # ASSOCIATIVE
               THEN Defined(acc.sects, acc.syms, d) ELSE acc
    IN FoldLeft(Name, defined, [i \in DOMAIN sects |-> i])

(* The places of data and relocations in the file.  One that has too many  *)
(* relocations for its field counts them in a first entry.                 *)
Overflows(s) == s.data /\ Len(s.relocs) >= MAX_RELOC
nrelocs_uncounted(s) == Len(s.relocs)   \* without the entry that counts
nrelocs(s) == Len(s.relocs) + IF Overflows(s) THEN 1 ELSE 0
Header(s, pos) ==
    [overflow |-> Overflows(s), nrelocs |-> IF Overflows(s) THEN MAX_RELOC
                                            ELSE nrelocs(s),
     len |-> s.len, pos |-> IF s.data THEN pos ELSE 0,
     relpos |-> IF s.data THEN pos + s.len ELSE 0]
Headers(ss) ==              \* [pos, headers]
    FoldLeft(LAMBDA acc, s :
                [pos |-> acc.pos + IF s.data THEN s.len + 10 * nrelocs(s) ELSE 0,
                 headers |-> Append(acc.headers, Header(s, acc.pos))],
             [pos |-> 20 + 40 * Len(ss), headers |-> <<>>], ss)

coff_write_relocs_early(s, first) ==    \* section symbols before the file's
    [k \in DOMAIN s.relocs |->
        [address |-> s.relocs[k].address,
         symbol |-> s.relocs[k].symbol + IF s.relocs[k].base = "real" THEN first
                                         ELSE 0]]
coff_write_relocs(s, first) ==
    (IF Overflows(s) THEN <<[address |-> nrelocs(s), symbol |-> 0]>> ELSE <<>>)
    \o [k \in DOMAIN s.relocs |->
          [address |-> s.relocs[k].address,
           symbol |-> s.relocs[k].symbol + CASE s.relocs[k].base = "real" -> first
                                             [] s.relocs[k].base = "absolute" -> first - 1
                                             [] OTHER -> 2]]
coff_write_symbols(ss, list) ==
    LET Entry(name, value, section) ==
            [name |-> name, value |-> value, section |-> section]
        Aux == Entry("aux", 0, 0)
    IN <<Entry(".file", 0, -2), Aux>>
       \o FlattenSeq([i \in DOMAIN ss |-> <<Entry(ss[i].name, 0, i), Aux>>])
       \o <<Entry(".absolut", 0, -1)>>
       \o [n \in DOMAIN list |-> Entry(list[n].name, list[n].value, list[n].section)]

coff_write ==
    LET done == Completed
        first == 3 + 2 * Len(done.sects)
        all == ToSet(done.sects)
    IN /\ stage = "code"
       /\ sects' = done.sects /\ syms' = done.syms
       /\ failed' = (failed \/ \E s \in all : s.comdat # NONE /\ s.selection = 0)
       /\ IF ~win /\ \E s \in all : Overflows(s)
          THEN stage' = "fatal" /\ UNCHANGED file
          ELSE /\ stage' = "written"
               /\ file' = [headers |-> Headers(done.sects).headers,
                           sympos |-> Headers(done.sects).pos,
                           nsyms |-> Len(done.syms) + first,
                           reltabs |-> [i \in DOMAIN done.sects |->
                                  coff_write_relocs(done.sects[i], first)],
                           indices |-> [i \in DOMAIN done.sects |->
                                  [k \in DOMAIN done.sects[i].symidx |->
                                     [done.sects[i].symidx[k] EXCEPT !.symbol = @ + first]]],
                           symtab |-> coff_write_symbols(done.sects, done.syms)]
       /\ UNCHANGED <<setting, exports, handlers, refs, offsets>>

Next ==
    \/ \E d \in Directives : coff_section_names(d)
    \/ \E name \in Exports : AddExport(name)
    \/ coff_safeseh_section
    \/ Stage("sizing", "symbols")
    \/ \E d \in Definitions : coff_deflabel(d)
    \/ Stage("symbols", "code")
    \/ \E name \in Handlers : coff_safeseh(name)
    \/ \E r \in References : coff_out(r)
    \/ coff_write
Spec == Init /\ [][Next]_vars

-----------------------------------------------------------------------------
(* What the linker makes of an entry of the symbol table.                  *)
Place(entry) ==
    [base |-> CASE entry.section = -1 -> NO_SEG
                [] entry.section \in DOMAIN sects -> Segment(sects[entry.section])
                [] OTHER -> <<entry.name, entry.name>>,
     offset |-> IF entry.section = 0 THEN 0 ELSE entry.value]
Names(index, segment, offset) ==
    /\ Place(file.symtab[index + 1]).base = segment
    /\ segment \notin Externs => Place(file.symtab[index + 1]).offset = offset

(* What the field holds is relative to the end of the field in Windows'    *)
(* formats, to the section in standard COFF, where the value of a common   *)
(* symbol is taken off; a field for an index holds one.                    *)
LinksTo(i, x, ref) ==
    LET at == {k \in DOMAIN file.reltabs[i] :
                 /\ file.reltabs[i][k].address = x.at
                 /\ file.headers[i].overflow => k > 1}
        rel == file.reltabs[i][CHOOSE k \in at : TRUE]
        entry == file.symtab[rel.symbol + 1]
        common == IF ~win /\ entry.section = 0 THEN entry.value ELSE 0
        added == Place(entry).offset + x.stored - common
    IN IF ref.wrt = "..symtab"
       THEN \E k \in DOMAIN file.indices[i] :
               /\ file.indices[i][k].address = x.at
               /\ Names(file.indices[i][k].symbol, ref.segment, ref.addr)
       ELSE /\ \E k \in at : at = {k}
            /\ Place(entry).base = ref.segment
            /\ added = CASE ref.op = "address" -> ref.addr
                         [] win -> ref.addr - ref.size + 4
                         [] OTHER -> ref.addr - ref.size - x.at

(* A program that names .text (before handlers, or has none) and gives no  *)
(* other name to an external symbol is linked as it was assembled, whatever*)
(* sections, COMDATs, exports and handlers come before the symbols.        *)
NamesItsSections ==
    /\ \A s \in ToSet(syms) : s.section = 0 => s.segment = <<s.name, s.name>>
    /\ \A h \in ToSet(handlers) : h.sections = Len(sects)
LinksAsAssembled ==
    stage = "written" /\ ~failed /\ NamesItsSections =>
        /\ \A n \in DOMAIN refs :
              LinksTo(shndx(sects, refs[n].ref.segto), refs[n], refs[n].ref)
        /\ \A h \in ToSet(handlers) : file.symtab[h.index + 1].name = h.name

(* The headers describe the file: data and relocations of the sections     *)
(* follow each other up to the symbols, all relocations are counted, and   *)
(* so are the symbols.  The first symbol of a COMDAT has its name, and what*)
(* depends on one comes after it.                                          *)
Entries(i) == Len(file.reltabs[i])
FileIsDescribed ==
    /\ file.nsyms = Len(file.symtab)
    /\ \A i \in DOMAIN sects : sects[i].data =>
          LET h == file.headers[i]
              later == {j \in DOMAIN sects : j > i /\ sects[j].data}
              next == IF later = {} THEN file.sympos
                      ELSE file.headers[CHOOSE j \in later :
                                          \A k \in later : j <= k].pos
          IN /\ h.relpos = h.pos + sects[i].len
             /\ next = h.relpos + 10 * Entries(i)
             /\ Entries(i) = IF h.overflow THEN file.reltabs[i][1].address
                             ELSE h.nrelocs
ComdatsAreNamed ==
    \A i \in DOMAIN sects :
        LET s == sects[i]
            of == SelectSeq(syms, LAMBDA x : x.section = i)
        IN CASE s.comdat = NONE -> TRUE
             [] s.comdat # NONE /\ s.selection = ASSOCIATIVE ->
                   /\ s.associated < i
                   /\ sects[s.associated].comdat = s.comdat
                   /\ sects[s.associated].selection # ASSOCIATIVE
             [] OTHER -> Head(of).name = s.comdat /\ Head(of).value = 0
ObjectIsWellFormed ==
    stage = "written" /\ ~failed => FileIsDescribed /\ ComdatsAreNamed

(* "Values of `is_global' are: 0 means the symbol is local; 1 means the    *)
(* symbol is global", says nasm.h of symdef: no local symbol is given to   *)
(* the linker as one of another module.                                    *)
LocalsStayLocal == \A s \in ToSet(syms) : s.was = 0 => ~s.global
=============================================================================
