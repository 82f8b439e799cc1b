----------------------------- MODULE LabelTable -----------------------------
(***************************************************************************)
(* The label manager of asm/labels.c as operators on one entry of the      *)
(* label table: what a declaration (GLOBAL, EXTERN, ...), a definition and *)
(* a reference do to the entry, and when the entry is handed to the output *)
(* format.  Names are fully qualified (local-label scoping, mangling and   *)
(* the free-text "special" attribute of a declaration are left out), and   *)
(* the one back end that moves a label to another segment (herelabel, only *)
(* Mach-O has it) is left out too.                                         *)
(***************************************************************************)
EXTENDS Integers

CONSTANTS
    Labels,          \* the names a program uses
    SpecialLabels,   \* those that ismagic() accepts: "..name" but not "..@name"
    BackendLabels    \* those the output format defines in its init, like ..got

ASSUME LabelSetsAssumption ==
    /\ SpecialLabels \subseteq Labels
    /\ BackendLabels \subseteq SpecialLabels

NO_SEG == -1         \* the segment of a plain number
PSEUDO_SEG == 0      \* what extern, required and common pass to define_label

LabelTypes == {"local", "static", "global", "extern", "required", "common",
               "special", "backend"}

PassTypes == {"init", "first", "opt", "stab", "final"}

(* One entry.  defined is 0 or the pass number plus one of its definition; *)
(* lastref is 0 or the pass number plus one of its last lookup.            *)
Entry == [type : LabelTypes, segment : Int, offset : Int, size : Int,
          defined : Nat, lastref : Nat]

FreshEntry == [type |-> "local", segment |-> 0, offset |-> 0, size |-> 0,
               defined |-> 0, lastref |-> 0]

is_extern(type) == type \in {"extern", "required"}
is_global(type) == type \in {"global", "common"}

pass_stable(ptype) == ptype \in {"stab", "final"}
pass_final(ptype) == ptype = "final"

-----------------------------------------------------------------------------
(* declare_label_lptr: the type the entry takes before it is compared with *)
(* the declaration.                                                        *)
TypeBeforeDeclare(entry, type, ptype) ==
    IF pass_stable(ptype) \/ entry.type # "local" THEN entry.type
    ELSE IF is_extern(type) /\ entry.defined # 0 THEN "global"
    ELSE type

(* The declaration repeats the type, or strengthens EXTERN to REQUIRED.    *)
Agrees(old, type) == old = type \/ (old = "extern" /\ type = "required")

(* EXTERN or REQUIRED is replaced by GLOBAL or COMMON.                     *)
Overrides(old, type) == is_extern(old) /\ is_global(type)

(* GLOBAL, COMMON and REQUIRED ignore a later EXTERN or REQUIRED.          *)
IgnoredBy(old, type) ==
    ~Agrees(old, type) /\ is_extern(type) /\ (is_global(old) \/ is_extern(old))

DeclareError(entry, type, ptype) ==
    LET old == TypeBeforeDeclare(entry, type, ptype)
    IN  ~Agrees(old, type) /\ ~Overrides(old, type) /\ ~IgnoredBy(old, type)

(* The result of declare_label: the caller calls define_label only if TRUE.*)
DeclareAccepted(entry, type, ptype) ==
    LET old == TypeBeforeDeclare(entry, type, ptype)
    IN  Agrees(old, type) \/ Overrides(old, type)

DeclaredEntry(entry, type, ptype) ==
    LET old == TypeBeforeDeclare(entry, type, ptype)
    IN  IF Agrees(old, type) THEN [entry EXCEPT !.type = type]
        ELSE IF Overrides(old, type)
             THEN [entry EXCEPT !.type = type, !.defined = 0]
        ELSE [entry EXCEPT !.type = old]

-----------------------------------------------------------------------------
(* define_label(label, segment, offset) in pass number pass: "sent" is the *)
(* offset or, for COMMON, the size; "fresh" is what seg_alloc() would give.*)
Promoted(entry, segment) == segment # PSEUDO_SEG /\ is_extern(entry.type)

LastDef(entry, segment) == IF Promoted(entry, segment) THEN 0 ELSE entry.defined

NeedsSegment(entry, segment) == segment = PSEUDO_SEG /\ entry.segment = 0

DefinedSegment(entry, segment, fresh) ==
    IF segment # PSEUDO_SEG THEN segment
    ELSE IF entry.segment # 0 THEN entry.segment
    ELSE fresh

DefinedType(label, entry, segment) ==
    IF Promoted(entry, segment) THEN "global"
    ELSE IF label \in SpecialLabels /\ entry.type = "local" THEN "special"
    ELSE entry.type

(* What define_label stores, before out_symdef.                            *)
DefinedEntry(label, entry, segment, sent, fresh, pass) ==
    LET type == DefinedType(label, entry, segment)
        common == type = "common"
    IN  [type |-> type,
         segment |-> DefinedSegment(entry, segment, fresh),
         offset |-> IF common THEN 0 ELSE sent,
         size |-> IF common THEN sent ELSE 0,
         defined |-> pass + 1,
         lastref |-> entry.lastref]

SameValue(old, new) ==
    /\ old.segment = new.segment
    /\ old.offset = new.offset
    /\ old.size = new.size

(* Faulty variant: a moved label does not count as changed.                *)
ChangedButNotMoved(entry, segment, new) ==
    LastDef(entry, segment) = 0 \/ entry.segment # new.segment
                                \/ entry.size # new.size

(* What is added to global_offset_changed.                                 *)
Changed(entry, segment, new) ==
    LastDef(entry, segment) = 0 \/ ~SameValue(entry, new)

(* The errors of define_label: "inconsistently redefined", and the warning *)
(* label-redef-late when it counts as an error (lateIsError).              *)
Redefined(entry, segment, pass) == LastDef(entry, segment) = pass + 1

DefineError(entry, segment, new, pass, ptype, lateIsError) ==
    /\ Changed(entry, segment, new)
    /\ \/ Redefined(entry, segment, pass)
       \/ lateIsError /\ pass_final(ptype) /\ new.type # "special"

-----------------------------------------------------------------------------
(* Faulty variants of out_symdef: it runs for every definition; it drops   *)
(* an EXTERN referred to in the previous pass; it also runs while code is  *)
(* generated.                                                              *)
HandedOverAlways(entry, segment, new, pass, ptype) ==
    /\ ptype = "stab"
    /\ ~(new.type = "extern" /\ new.lastref < pass)

HandedOverIfSeenNow(entry, segment, new, pass, ptype) ==
    /\ ~Redefined(entry, segment, pass)
    /\ ptype = "stab"
    /\ ~(new.type = "extern" /\ new.lastref <= pass)

HandedOverLate(entry, segment, new, pass, ptype) ==
    /\ ~Redefined(entry, segment, pass)
    /\ pass_stable(ptype)
    /\ ~(new.type = "extern" /\ new.lastref < pass)

(* out_symdef: only the stabilization pass hands symbols over, except that *)
(* a back-end symbol goes out in every pass before the final one; an       *)
(* EXTERN nothing referred to in this pass or the previous one is dropped. *)
HandedOver(entry, segment, new, pass, ptype) ==
    /\ ~Redefined(entry, segment, pass)
    /\ ~pass_final(ptype)
    /\ ptype = "stab" \/ new.type = "backend"
    /\ ~(new.type = "extern" /\ new.lastref < pass)

(* An EXTERN that is handed over becomes REQUIRED.                         *)
EntryAfterSymdef(entry, segment, new, pass, ptype) ==
    IF HandedOver(entry, segment, new, pass, ptype) /\ new.type = "extern"
    THEN [new EXCEPT !.type = "required"]
    ELSE new

(* Faulty variants: COMMON goes out as a special fixup, or with its offset.*)
SymdefKindOfFixup(type) ==
    CASE type \in {"global", "extern", "required"} -> 1
      [] type = "common" -> 3
      [] OTHER -> 0

SymdefKind(type) ==
    CASE type \in {"global", "extern", "required"} -> 1
      [] type = "common" -> 2
      [] OTHER -> 0

SymdefWithOffset(label, new) ==
    [name |-> label, segment |-> new.segment, kind |-> SymdefKind(new.type),
     value |-> new.offset]

Symdef(label, new) ==
    [name |-> label, segment |-> new.segment, kind |-> SymdefKind(new.type),
     value |-> IF new.type = "common" THEN new.size ELSE new.offset]

Symdefs == [name : Labels, segment : Int, kind : {0, 1, 2}, value : Int]

-----------------------------------------------------------------------------
(* lookup_label: any label ever defined is found, with its latest value.   *)
Found(entry) == entry.defined # 0

Referenced(entry, pass) ==
    IF Found(entry) THEN [entry EXCEPT !.lastref = pass + 1] ELSE entry
=============================================================================
