------------------------------ MODULE MCFormats ------------------------------
(***************************************************************************)
(* The output formats side by side: a behaviour is one of ELF, of COFF, of *)
(* flat binary, of the records of OMF or of its segments; the others stay  *)
(* as they were created.                                                   *)
(***************************************************************************)
EXTENDS Integers, Sequences

CONSTANTS
    ElfSections, MaxSyms, MaxBytes,
    MAX_RELOC, MaxSections, MaxHandlers,
    BinSections, MaxDirectives, MaxOuts,
    RECORD_MAX, WORD_MAX, Lengths, Offsets, MaxCalls,
    SegNames, GroupNames, ExtNames, MaxNamings, MaxRefs

VARIABLES
    which,
    setting, elf_stage, sects, syms, nlocals, nglobs, bsym, elf_failed,
    elf_refs, offsets, elf_file,
    coff_setting, coff_stage, coff_sects, coff_syms, exports, handlers,
    coff_failed, coff_refs, coff_offsets, coff_file,
    bin_stage, sections, origin, relocs, list, gp, bin_file, directives, outs,
    code, currentpos, tables, put, entered,
    obj_stage, segs, grps, exts, dws, current_seg, obj_failed, obj_refs, named,
    waiting
elfVars == <<setting, elf_stage, sects, syms, nlocals, nglobs, bsym, elf_failed,
             elf_refs, offsets, elf_file>>
coffVars == <<coff_setting, coff_stage, coff_sects, coff_syms, exports,
              handlers, coff_failed, coff_refs, coff_offsets, coff_file>>
binVars == <<bin_stage, sections, origin, relocs, list, gp, bin_file,
             directives, outs>>
recordVars == <<code, currentpos, tables, put, entered>>
segmentVars == <<obj_stage, segs, grps, exts, dws, current_seg, obj_failed,
                 obj_refs, named, waiting>>

-----------------------------------------------------------------------------
(* Symbols at several places and of several kinds, and what refers to them.*)
ElfDefinitions ==
    {[name |-> x[1], segment |-> x[2], offset |-> x[3], is_global |-> x[4]] :
       x \in {<<"foo", ".text", 0, 1>>, <<"foo", ".text", 3, 1>>,
              <<"foo", "none", 0, 1>>, <<"foo", ".data", 0, 0>>,
              <<"bar", ".text", 3, 1>>, <<"bar", "ext", 0, 0>>,
              <<"ext", "ext", 0, 1>>, <<"com", "com", 4, 2>>}}
ElfReference(op, segto, segment, addr, wrt, bytes, size) ==
    [op |-> op, segto |-> segto, segment |-> segment, addr |-> addr,
     wrt |-> wrt, bytes |-> bytes, size |-> size, signed |-> FALSE]
ElfReferences ==
    {ElfReference("address", ".text", x[1], x[2], x[3], x[4], x[4]) :
       x \in {<<".data", 4, "NONE", 4>>, <<".text", 4, "..sym", 4>>,
              <<".text", 3, "..got", 4>>, <<"ext", 0, "..got", 4>>,
              <<"com", 0, "NONE", 4>>, <<"none", 4, "NONE", 4>>,
              <<"ext", 0, "..gotpc", 4>>, <<".data", 4, "..gotoff", 8>>,
              <<".text", 0, "..got", 8>>}}
    \cup {ElfReference("relative", ".text", x[1], x[2], x[3], 4, 5) :
       x \in {<<".data", 3, "NONE">>, <<".data", 0, "..plt">>,
              <<"ext", 3, "NONE">>, <<"ext", 0, "..plt">>,
              <<"none", 3, "NONE">>}}
    \cup {ElfReference("data", ".text", "none", 0, "NONE", 1, 1),
          ElfReference("data", ".bss", "none", 0, "NONE", 8, 8),
          ElfReference("reserve", ".text", "none", 0, "NONE", 3, 3)}
ElfSettings == {<<"elf32", "stabs">>, <<"elf64", "dwarf">>, <<"elfx32", "none">>}

(* A section and its name, a COMDAT and one that depends on it.            *)
TextSegment == <<".text", "NONE">>
Comdat == <<"d", "k">>
NoSegment == <<"none", "none">>
External(name) == <<name, name>>
CoffDirectives ==
    {[name |-> x[1], comdat |-> x[2], selection |-> x[3]] :
       x \in {<<".text", "NONE", 0>>, <<".bss", "NONE", 0>>, <<"d", "k", 2>>,
              <<"a", "k", 5>>}}
CoffDefinitions ==
    {[name |-> x[1], segment |-> x[2], offset |-> x[3], is_global |-> x[4]] :
       x \in {<<"foo", Comdat, 4, 0>>, <<"bar", TextSegment, 4, 0>>,
              <<"ext", External("ext"), 0, 1>>, <<"com", External("com"), 4, 2>>}}
CoffReference(op, segto, segment, addr, wrt, bytes, size) ==
    [op |-> op, segto |-> segto, segment |-> segment, addr |-> addr,
     wrt |-> wrt, bytes |-> bytes, size |-> size]
CoffReferences ==
    {CoffReference("address", TextSegment, x[1], x[2], x[3], x[4], x[4]) :
       x \in {<<TextSegment, 4, "NONE", 4>>, <<TextSegment, 4, "..symtab", 4>>,
              <<External("ext"), 0, "..symtab", 4>>,
              <<External("com"), 0, "NONE", 4>>,
              <<NoSegment, 4, "..imagebase", 4>>}}
    \cup {CoffReference("relative", TextSegment, x[1], x[2], "NONE", 4, 5) :
       x \in {<<Comdat, 4>>, <<External("ext"), 1>>, <<NoSegment, 4>>}}
    \cup {CoffReference("reserve", <<".bss", "NONE">>, NoSegment, 0, "NONE", 8, 8)}

BinAttributes ==
    {[section |-> s, kind |-> "follows", value |-> t] :
       s \in {"a", "b"}, t \in {".text", "a", "b", "x"}}
    \cup {[section |-> x[1], kind |-> x[2], value |-> x[3]] :
       x \in {<<"a", "start", 3>>, <<"a", "start", 8>>, <<"b", "start", 8>>,
              <<"b", "align", 8>>, <<"a", "align", 1>>, <<".text", "align", 8>>,
              <<".text", "start", 4>>, <<"a", "vstart", 16>>,
              <<"a", "valign", 8>>, <<".bss", "start", 2>>,
              <<".bss", "valign", 1>>}}
    \cup {[section |-> x[1], kind |-> x[2], value |-> x[3]] :
       x \in {<<"b", "vfollows", "a">>, <<"a", "vfollows", "b">>,
              <<".bss", "vfollows", "a">>, <<"a", "nobits", "">>}}
BinOuts ==
    {[segto |-> x[1], op |-> x[2], segment |-> x[3], part |-> x[4],
      offset |-> x[5], bytes |-> x[6], size |-> x[7]] :
       x \in {<<".text", "address", "a", "vstart", 1, 2, 2>>,
              <<"a", "relative", ".text", "vstart", 0, 1, 2>>,
              <<"a", "address", ".bss", "start", 1, 2, 2>>,
              <<"b", "data", "", "", 0, 5, 5>>,
              <<".bss", "reserve", "", "", 0, 5, 5>>,
              <<".text", "address", "ext", "vstart", 0, 1, 1>>}}

Groupings == {<<>>, <<"s">>, <<"t", "s">>, <<"s", "t">>}

-----------------------------------------------------------------------------
Elf == INSTANCE ElfObject WITH
    Text <- ".text", Bss <- ".bss", Sections <- ElfSections,
    Externs <- {"ext", "com"}, NO_SEG <- "none", NONE <- "NONE",
    Settings <- ElfSettings, Definitions <- ElfDefinitions,
    References <- ElfReferences, GLOBAL_TEMP_BASE <- 1000,
    stage <- elf_stage, failed <- elf_failed, refs <- elf_refs, file <- elf_file
Coff == INSTANCE CoffObject WITH
    Text <- ".text", Bss <- ".bss", Directives <- CoffDirectives,
    Exports <- {"x"}, Handlers <- {"ext"},
    Externs <- {External("ext"), External("com")}, NO_SEG <- NoSegment,
    NONE <- "NONE", PLACEHOLDER <- "?", Settings <- {"coff", "win32", "win64"},
    Definitions <- CoffDefinitions, References <- CoffReferences,
    ASSOCIATIVE <- 5,
    setting <- coff_setting, stage <- coff_stage, sects <- coff_sects,
    syms <- coff_syms, failed <- coff_failed, refs <- coff_refs,
    offsets <- coff_offsets, file <- coff_file
Bin == INSTANCE BinFormat WITH
    Text <- ".text", Data <- ".data", Bss <- ".bss", SectionNames <- BinSections,
    Attributes <- BinAttributes, Origins <- {4}, Outs <- BinOuts,
    LINE <- 4, Spaces <- <<8, 16, 64>>,
    stage <- bin_stage, file <- bin_file
Records == INSTANCE ObjRecords
Segments == INSTANCE ObjSegments WITH
    FLAT <- "FLAT", NONE <- "NONE", Lists <- Groupings,
    MaxDirectives <- MaxNamings,
    stage <- obj_stage, failed <- obj_failed, refs <- obj_refs

Init ==
    /\ which \in {"elf", "coff", "bin", "records", "segments"}
    /\ Elf!Init /\ Coff!Init /\ Bin!Init /\ Records!Init /\ Segments!Init
    /\ which # "elf" => setting = <<"elf32", "stabs">>
    /\ which # "coff" => coff_setting = "coff"

Next ==
    /\ UNCHANGED which
    /\ \/ /\ which = "elf" /\ Elf!Next
          /\ UNCHANGED <<coffVars, binVars, recordVars, segmentVars>>
       \/ /\ which = "coff" /\ Coff!Next
          /\ UNCHANGED <<elfVars, binVars, recordVars, segmentVars>>
       \/ /\ which = "bin" /\ Bin!Next
          /\ UNCHANGED <<elfVars, coffVars, recordVars, segmentVars>>
       \/ /\ which = "records" /\ Records!Next
          /\ UNCHANGED <<elfVars, coffVars, binVars, segmentVars>>
       \/ /\ which = "segments" /\ Segments!Next
          /\ UNCHANGED <<elfVars, coffVars, binVars, recordVars>>

Spec == Init /\ [][Next]_<<which, elfVars, coffVars, binVars, recordVars,
                           segmentVars>>

-----------------------------------------------------------------------------
(* elf_out and elf_write, or coff_out and coff_write, give the linker what *)
(* the assembler meant.                                                    *)
LinksAsAssembled ==
    /\ which = "elf" => Elf!LinksAsAssembled
    /\ which = "coff" => Coff!LinksAsAssembled

(* The tables elf_write writes agree with each other, and so do the headers*)
(* and the symbols of coff_write.                                          *)
ObjectIsWellFormed ==
    /\ which = "elf" => Elf!ObjectIsWellFormed
    /\ which = "coff" => Coff!ObjectIsWellFormed

(* bin_cleanup writes an image of the program.                             *)
ImageIsFaithful == which = "bin" => Bin!ImageIsFaithful

(* The records of outobj.c hold what was put into them, none too long.     *)
RecordsAreWhole == which = "records" => Records!RecordsAreWhole

(* Names of segments and groups are resolved in whatever order they come.  *)
NamesAreResolved == which = "segments" => Segments!NamesAreResolved
=============================================================================
