------------------------------ MODULE ElfObject ------------------------------
(***************************************************************************)
(* The ELF output formats (output/outelf.c): sections, symbols and         *)
(* relocations as the calls of the assembler build them up, and the symbol *)
(* table, relocation tables and section headers written in the end.        *)
(* Sections and external symbols stand for their segments.  Flags, types,  *)
(* visibility, alignment and sizes of symbols are left out.                *)
(***************************************************************************)
EXTENDS Integers, Sequences, SequencesExt

CONSTANTS
    Text, Bss,          \* the default section, and one without contents
    Sections,           \* names of sections, Text and Bss among them
    Externs,            \* symbols whose segment is not a section
    NO_SEG, NONE,
    Settings,           \* <<format, debug format>>
    Definitions,        \* [name, segment, offset, is_global] for symdef
    References,         \* [op, segto, segment, addr, wrt, bytes, size, signed]
    GLOBAL_TEMP_BASE,
    MaxSyms, MaxBytes   \* bounds: calls of symdef, bytes in a section

VARIABLES
    setting, stage,     \* stage: "sizing", "symbols", "code" or "written"
    sects, syms, nlocals, nglobs, bsym, failed,
    refs, offsets,      \* history: references, and where the assembler is
    file
vars == <<setting, stage, sects, syms, nlocals, nglobs, bsym, failed, refs,
          offsets, file>>

Rela == setting[1] # "elf32"
dfmt == setting[2]
ndebugs == IF dfmt = "dwarf" THEN 3 ELSE 0
XSHN_UNDEF == 0
XSHN_ABS == -1
XSHN_COMMON == -2
NoSymbol == -1

(* elf_make_section for a name not seen before; the index of a section is  *)
(* that of its header.                                                     *)
elf_make_section(ss, name) ==
    IF \E i \in DOMAIN ss : ss[i].name = name THEN ss
    ELSE Append(ss, [name |-> name, nobits |-> name = Bss, len |-> 0,
                     relocs |-> <<>>, gsyms |-> <<>>])
shndx(ss, segment) ==
    LET is == {i \in DOMAIN ss : ss[i].name = segment}
    IN IF is = {} THEN XSHN_UNDEF ELSE CHOOSE i \in is : TRUE

NoFile == [symtab |-> <<>>, locals |-> 0, reltabs |-> <<>>, headers |-> <<>>]
Init ==
    /\ setting \in Settings /\ stage = "sizing"
    /\ sects = <<>> /\ syms = <<>> /\ nlocals = 0 /\ nglobs = 0
    /\ bsym = [s \in Externs |-> 0] /\ failed = FALSE
    /\ refs = <<>> /\ offsets = [s \in Sections |-> 0]
    /\ file = NoFile

elf_section_names(name) ==
    /\ stage = "sizing"
    /\ sects' = elf_make_section(sects, name)
    /\ UNCHANGED <<setting, stage, syms, nlocals, nglobs, bsym, failed, refs,
                   offsets, file>>

Stage(from, to) ==
    /\ stage = from /\ stage' = to
    /\ UNCHANGED <<setting, sects, syms, nlocals, nglobs, bsym, failed, refs,
                   offsets, file>>

(* A common symbol has a segment of its own, like an external one.         *)
elf_deflabel(d) ==
    LET ss == IF d.segment = Text THEN elf_make_section(sects, Text) ELSE sects
        section == CASE d.is_global = 2 -> XSHN_COMMON
                     [] d.segment = NO_SEG -> XSHN_ABS
                     [] OTHER -> shndx(ss, d.segment)
        sym == [name |-> d.name, section |-> section,
                value |-> IF section \in {XSHN_UNDEF, XSHN_COMMON} THEN 0
                          ELSE d.offset,
                global |-> d.is_global > 0, globnum |-> nglobs]
    IN /\ stage = "symbols" /\ Len(syms) < MaxSyms
       /\ \A i \in DOMAIN syms : syms[i].name # d.name
       /\ d.segment \in Sections \ {Text} => section # XSHN_UNDEF
       /\ syms' = Append(syms, sym)
       /\ IF ~sym.global
          THEN /\ nlocals' = nlocals + 1
               /\ sects' = ss /\ UNCHANGED <<nglobs, bsym>>
          ELSE /\ nglobs' = nglobs + 1 /\ UNCHANGED nlocals
               /\ bsym' = IF section \in {XSHN_UNDEF, XSHN_COMMON}
                          THEN [bsym EXCEPT ![d.segment] = nglobs] ELSE bsym
               /\ sects' = IF section \in {XSHN_UNDEF, XSHN_COMMON, XSHN_ABS}
                           THEN ss
                           ELSE [ss EXCEPT ![section].gsyms = Append(@,
                                    [key |-> sym.value, globnum |-> nglobs])]
       /\ UNCHANGED <<setting, stage, failed, refs, offsets, file>>

-----------------------------------------------------------------------------
(* What a relocation adds, for formats with and without addends of their   *)
(* own: the addend and the bytes stored.                                   *)
Relocated(symbol, addend) ==
    [symbol |-> symbol, addend |-> IF Rela THEN addend ELSE 0,
     stored |-> IF Rela THEN 0 ELSE addend]

elf_add_reloc(ss, segment, addend) ==
    Relocated(CASE segment = NO_SEG -> 0
                [] shndx(ss, segment) # XSHN_UNDEF -> shndx(ss, segment) + 1
                [] OTHER -> GLOBAL_TEMP_BASE + bsym[segment], addend)

(* The global symbol at or before an offset; of several at one place any.  *)
rb_search(gsyms, offset) ==
    {g \in ToSet(gsyms) :
        /\ g.key <= offset
        /\ \A h \in ToSet(gsyms) : h.key <= offset => h.key <= g.key}

(* All relocations a reference may get: none is the error of a reference   *)
(* that finds no symbol.                                                   *)
elf_add_gsym_reloc(ss, segment, offset, pcrel, exact) ==
    IF shndx(ss, segment) = XSHN_UNDEF
    THEN IF exact /\ offset # 0 THEN {}
         ELSE {elf_add_reloc(ss, segment, offset - pcrel)}
    ELSE {Relocated(GLOBAL_TEMP_BASE + g.globnum, offset - pcrel - g.key) :
             g \in {h \in rb_search(ss[shndx(ss, segment)].gsyms, offset) :
                       exact => h.key = offset}}

(* The relocations an address may get in each format, and a relative      *)
(* reference; none is an error.                                            *)
If(condition, relocs) == IF condition THEN relocs ELSE {}
Address32(ss, r, len) ==
    LET plain == {elf_add_reloc(ss, r.segment, r.addr)}
    IN CASE r.wrt = NONE -> If(r.bytes # 8, plain)
         [] r.wrt = "..gotpc" ->
                If(r.bytes = 4, {elf_add_reloc(ss, r.segment, r.addr + len)})
         [] r.wrt = "..gotoff" -> If(r.bytes = 4, plain)
         [] r.wrt = "..got" -> If(r.bytes = 4,
                elf_add_gsym_reloc(ss, r.segment, r.addr, 0, TRUE))
         [] r.wrt = "..sym" -> If(r.bytes # 8,
                elf_add_gsym_reloc(ss, r.segment, r.addr, 0, FALSE))
         [] OTHER -> {}
Address64(ss, r, len) ==
    LET plain == {elf_add_reloc(ss, r.segment, r.addr)}
    IN CASE r.wrt = NONE -> plain
         [] r.wrt = "..gotpc" -> {elf_add_reloc(ss, r.segment, r.addr + len)}
         [] r.wrt = "..gotoff" -> If(r.bytes = 8, plain)
         [] r.wrt = "..got" -> If(r.bytes \in {4, 8},
                elf_add_gsym_reloc(ss, r.segment, r.addr, 0, TRUE))
         [] r.wrt = "..sym" ->
                elf_add_gsym_reloc(ss, r.segment, r.addr, 0, FALSE)
         [] OTHER -> {}
Addressx32(ss, r, len) ==
    If(r.wrt # "..gotoff" /\ ~(r.wrt = "..got" /\ r.bytes = 8),
       Address64(ss, r, len))

Relative32(ss, r) ==
    If((r.wrt = NONE /\ r.bytes # 8) \/ (r.wrt = "..plt" /\ r.bytes = 4),
       {elf_add_reloc(ss, r.segment, r.addr - r.size)})
Relative64(ss, r) ==
    IF r.wrt = NONE THEN {elf_add_reloc(ss, r.segment, r.addr - r.size)}
    ELSE If(r.wrt \in {"..gotpc", "..got"} \/ (r.wrt = "..plt" /\ r.bytes = 4),
            elf_add_gsym_reloc(ss, r.segment, r.addr, r.size, TRUE))
Relativex32(ss, r) == If(r.bytes # 8, Relative64(ss, r))

(* A number is stored as it is, but what is relative to it has a           *)
(* relocation in elf32.                                                    *)
Reloc(ss, r, len) ==
    LET f == setting[1]
        relative == r.op = "relative"
    IN IF r.segment = NO_SEG /\ ~(relative /\ f = "elf32")
       THEN {[symbol |-> NoSymbol, addend |-> 0,
              stored |-> r.addr - IF relative THEN r.size ELSE 0]}
       ELSE CASE f = "elf32" -> IF relative THEN Relative32(ss, r)
                                ELSE Address32(ss, r, len)
              [] f = "elf64" -> IF relative THEN Relative64(ss, r)
                                ELSE Address64(ss, r, len)
              [] OTHER -> IF relative THEN Relativex32(ss, r)
                          ELSE Addressx32(ss, r, len)

(* What code refers to has been handed over before (asm/labels.c).         *)
HandedOver(segment) ==
    \/ segment = NO_SEG
    \/ segment \in Sections /\ shndx(sects, segment) # XSHN_UNDEF
    \/ \E i \in DOMAIN syms : syms[i].name = segment

(* What a section without contents is given only lengthens it, by its size *)
(* (realsize), which for a signed address is negative.                     *)
realsize(r) == IF r.op = "address" /\ r.signed THEN -r.bytes ELSE r.bytes
elf_out(r) ==
    LET ss == IF r.segto = Text THEN elf_make_section(sects, Text) ELSE sects
        i == shndx(ss, r.segto)
        relocs == Reloc(ss, r, ss[i].len)
    IN /\ stage = "code" /\ i # XSHN_UNDEF /\ HandedOver(r.segment)
       /\ offsets[r.segto] + r.bytes <= MaxBytes
       /\ IF r.op \in {"data", "reserve"} \/ ss[i].nobits
          THEN /\ sects' = [ss EXCEPT ![i].len =
                               @ + IF ss[i].nobits THEN realsize(r) ELSE r.bytes]
               /\ UNCHANGED <<refs, failed>>
          ELSE IF relocs = {}
          THEN /\ failed' = TRUE
               /\ sects' = [ss EXCEPT ![i].len = @ + r.bytes]
               /\ UNCHANGED refs
          ELSE /\ \E x \in relocs :
                    /\ sects' = [ss EXCEPT ![i].len = @ + r.bytes,
                           ![i].relocs = IF x.symbol = NoSymbol THEN @
                              ELSE Append(@, [address |-> ss[i].len,
                                              symbol |-> x.symbol,
                                              addend |-> x.addend])]
                    /\ refs' = Append(refs, [at |-> offsets[r.segto],
                                             ref |-> r, stored |-> x.stored])
               /\ UNCHANGED failed
       /\ offsets' = [offsets EXCEPT ![r.segto] = @ + r.bytes]
       /\ UNCHANGED <<setting, stage, syms, nlocals, nglobs, bsym, file>>

-----------------------------------------------------------------------------
Entry(name, section, value) ==
    [name |-> name, section |-> section, value |-> value]
sec_debug == Len(sects) + 1

elf_build_symtab ==
    LET Of(global) == SelectSeq(syms, LAMBDA s : s.global = global)
        Entries(ss) == [i \in DOMAIN ss |->
                           Entry(ss[i].name, ss[i].section, ss[i].value)]
        locals == <<Entry(NONE, XSHN_UNDEF, 0), Entry(NONE, XSHN_ABS, 0)>>
                  \o [i \in DOMAIN sects |-> Entry(NONE, i, 0)]
                  \o (IF dfmt = "dwarf"
                      THEN [i \in 1..3 |-> Entry(NONE, sec_debug + <<3, 5, 6>>[i], 0)]
                      ELSE <<>>)
                  \o Entries(Of(FALSE))
    IN [symtab |-> locals \o Entries(Of(TRUE)), locals |-> Len(locals)]

(* From a placeholder for a global symbol to its index.                    *)
global_offset_plain == Len(sects) + nlocals + 2 - GLOBAL_TEMP_BASE
global_offset == Len(sects) + nlocals + ndebugs + 2 - GLOBAL_TEMP_BASE
elf_build_reltab(relocs) ==
    [i \in DOMAIN relocs |->
        [relocs[i] EXCEPT !.symbol =
            IF @ >= GLOBAL_TEMP_BASE THEN @ + global_offset ELSE @]]

(* The names in the order of add_sectname, the headers in the order they   *)
(* are written, with what sh_link and sh_info of a relocation table name.  *)
Named(names) == [i \in DOMAIN names |-> <<"", names[i]>>]
Debug ==
    CASE dfmt = "stabs" -> Named(<<"stab", "stabstr">>) \o <<<<"rel", "stab">>>>
      [] dfmt = "dwarf" ->
            Named(<<"aranges">>) \o <<<<"rel", "aranges">>>>
            \o Named(<<"pubnames", "info">>) \o <<<<"rel", "info">>>>
            \o Named(<<"abbrev", "line">>) \o <<<<"rel", "line">>>>
            \o Named(<<"frame", "loc">>)
      [] OTHER -> <<>>
Relocatable == SelectSeq(sects, LAMBDA s : s.relocs # <<>>)
sec_symtab_plain == Len(sects) + 2
sec_symtab == Len(sects) + Len(Debug) + 2
SectionNames ==
    [i \in DOMAIN sects |-> <<"", sects[i].name>>] \o Debug
    \o Named(<<"shstrtab", "symtab", "strtab">>)
    \o [i \in DOMAIN Relocatable |-> <<"rel", Relocatable[i].name>>]
SectionHeaders ==
    LET Plain(name) == [is |-> name, link |-> 0, info |-> 0]
        Relocating(name, info) ==
            [is |-> name, link |-> sec_symtab, info |-> info]
    IN [i \in DOMAIN sects |-> Plain(<<"", sects[i].name>>)]
       \o [i \in DOMAIN Debug |->
             CASE Debug[i] = <<"rel", "stab">> -> Relocating(Debug[i], sec_debug)
               [] Debug[i] = <<"rel", "aranges">> -> Relocating(Debug[i], sec_debug)
               [] Debug[i] = <<"rel", "info">> -> Relocating(Debug[i], sec_debug + 3)
               [] Debug[i] = <<"rel", "line">> -> Relocating(Debug[i], sec_debug + 6)
               [] OTHER -> Plain(Debug[i])]
       \o [i \in 1..3 |->
             Plain(<<"", <<"shstrtab", "symtab", "strtab">>[i]>>)]
       \o [i \in DOMAIN Relocatable |->
             Relocating(<<"rel", Relocatable[i].name>>,
                        shndx(sects, Relocatable[i].name))]

elf_write ==
    /\ stage = "code" /\ stage' = "written"
    /\ file' = [symtab |-> elf_build_symtab.symtab,
                locals |-> elf_build_symtab.locals,
                reltabs |-> [i \in DOMAIN sects |->
                                elf_build_reltab(sects[i].relocs)],
                headers |-> SectionHeaders]
    /\ UNCHANGED <<setting, sects, syms, nlocals, nglobs, bsym, failed, refs,
                   offsets>>

Next ==
    \/ \E name \in Sections : elf_section_names(name)
    \/ Stage("sizing", "symbols")
    \/ \E d \in Definitions : elf_deflabel(d)
    \/ Stage("symbols", "code")
    \/ \E r \in References : elf_out(r)
    \/ elf_write
Spec == Init /\ [][Next]_vars

-----------------------------------------------------------------------------
(* What a linker makes of an entry of the symbol table: a place in a       *)
(* section, a symbol of another module, or a number.                       *)
Place(entry) ==
    [base |-> CASE entry.section = XSHN_ABS -> NO_SEG
                [] entry.section \in DOMAIN sects -> sects[entry.section].name
                [] entry.name = NONE -> NO_SEG
                [] OTHER -> entry.name,
     offset |-> entry.value]

(* A reference links to what the assembler meant: there is one relocation  *)
(* at its field, with a symbol and an addend that give the place, counted  *)
(* from the end of the instruction if relative; a reference by ..got,      *)
(* ..plt or ..sym names a global symbol.                                   *)
LinksTo(i, x, ref) ==
    LET at == {k \in DOMAIN file.reltabs[i] : file.reltabs[i][k].address = x.at}
        rel == file.reltabs[i][CHOOSE k \in at : TRUE]
        place == Place(file.symtab[rel.symbol + 1])
        addend == IF Rela THEN rel.addend ELSE x.stored
    IN /\ \E k \in at : at = {k}
       /\ place.base = ref.segment
       /\ place.offset + addend
             = ref.addr - (IF ref.op = "relative" THEN ref.size ELSE 0)
                        + (IF ref.wrt = "..gotpc" /\ ref.op = "address"
                           THEN x.at ELSE 0)
       /\ ref.wrt \in {"..got", "..sym"} \/ (ref.wrt = "..plt" /\ Rela)
             => rel.symbol >= file.locals

(* A successful assembly gives the linker what the assembler meant, for all*)
(* symbols, sections and debug sections in whatever order; a relative      *)
(* reference to an absolute address is an exception in elf64, which gives  *)
(* it no relocation.                                                       *)
LinksAsAssembled ==
    stage = "written" /\ ~failed =>
        \A n \in DOMAIN refs :
            LET ref == refs[n].ref
                i == shndx(sects, ref.segto)
            IN IF ref.segment # NO_SEG \/ (ref.op = "relative" /\ ~Rela)
               THEN LinksTo(i, refs[n], ref)
               ELSE ref.op = "address" => refs[n].stored = ref.addr

(* The object is well-formed: the local symbols come first and are counted *)
(* by sh_info, each header stands where its name was added, each section's *)
(* symbol names it, and a table of relocations names its section and the   *)
(* table of symbols.                                                       *)
ObjectIsWellFormed ==
    stage = "written" =>
        /\ \A k \in DOMAIN file.symtab :
              \A s \in ToSet(syms) :
                  file.symtab[k].name = s.name => (s.global <=> k > file.locals)
        /\ Len(file.headers) = Len(SectionNames)
        /\ \A k \in DOMAIN file.headers :
              LET h == file.headers[k]
              IN /\ h.is = SectionNames[k]
                 /\ h.is[1] = "rel" =>
                       /\ file.headers[h.link].is = <<"", "symtab">>
                       /\ file.headers[h.info].is = <<"", h.is[2]>>
=============================================================================
