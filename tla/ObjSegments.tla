---------------------------- MODULE ObjSegments -----------------------------
(***************************************************************************)
(* Segments, groups and external symbols of the OMF format                 *)
(* (output/outobj.c), named by directives in any order and before they     *)
(* exist, and the fixups that refer to them.  Segments, groups and external*)
(* symbols have indices of their own; a name stands for its segment.       *)
(* Alignment, classes, and common symbols' sizes are left out; how records *)
(* are written is ObjRecords.                                              *)
(***************************************************************************)
EXTENDS Integers, Sequences, FiniteSets, SequencesExt

CONSTANTS
    SegNames, GroupNames,   \* FLAT is a group that exists with a flat segment
    ExtNames,
    FLAT, NONE,
    Lists,                  \* sequences of segment names, for GROUP
    MaxDirectives, MaxRefs  \* bounds: directives, and references, of a program

VARIABLES
    stage,          \* "first", "final", "written"
    segs,           \* [name, use32, grp]: grp is an index of grps, or 0
    grps,           \* [name, segs, nindices]: first indices, then names
    exts, dws,      \* [name, type, ptr], and those with an unresolved default
    current_seg,
    failed,
    refs,           \* history: references, with what the fixup says
    named,          \* history: <<group, segment>> as directives name them
    waiting         \* history: <<external, default WRT>>
vars == <<stage, segs, grps, exts, dws, current_seg, failed, refs, named, waiting>>

IndexOf(list, name) ==
    LET is == {i \in DOMAIN list : list[i].name = name}
    IN IF is = {} THEN 0 ELSE CHOOSE i \in is : \A j \in is : i <= j
Members(i) == {grps[i].segs[k].index : k \in 1..grps[i].nindices}

Init ==
    /\ stage = "first" /\ segs = <<>> /\ grps = <<>>
    /\ exts = <<>> /\ dws = <<>> /\ current_seg = 0
    /\ failed = FALSE /\ refs = <<>> /\ named = <<>> /\ waiting = <<>>
Directive ==
    /\ stage = "first"
    /\ Len(named) + Len(segs) + Len(exts) < MaxDirectives

(* A segment is part of the first group that has it; FLAT does not count.  *)
Grouped(ss, gs, s, g) ==
    IF ss[s].grp # 0 /\ gs[ss[s].grp].name # FLAT THEN ss
    ELSE [ss EXCEPT ![s].grp = g]

(* The names of a group move up to make room for an index.                 *)
ByIndex(index) == [index |-> index, name |-> NONE]
ByName(name) == [index |-> 0, name |-> name]
Resolve(gs, g, i, s) ==
    LET n == gs[g].nindices
    IN [gs EXCEPT ![g].segs = [[@ EXCEPT ![i] = gs[g].segs[n + 1]]
                                 EXCEPT ![n + 1] = ByIndex(s)],
                  ![g].nindices = n + 1]
ResolveInPlace(gs, g, i, s) ==
    [gs EXCEPT ![g].segs = [@ EXCEPT ![i] = ByIndex(s)], ![g].nindices = @ + 1]

(* External symbols that wait for a name get the segment or group.         *)
Resolved(list, name, type) ==
    [e \in DOMAIN list |->
        IF e \in ToSet(dws) /\ list[e].type = "string" /\ list[e].ptr = name
        THEN [list[e] EXCEPT !.type = type] ELSE list[e]]
StillWaiting(names) == SelectSeq(dws, LAMBDA e : exts[e].ptr \notin names)

(* SEGMENT for a new name: it may make FLAT, which is a GROUP directive,   *)
(* and belongs to every group that names it already.                       *)
WithFlat(gs) ==
    IF IndexOf(gs, FLAT) # 0 THEN gs
    ELSE Append(gs, [name |-> FLAT, segs |-> <<>>, nindices |-> 0])
obj_segment(name, use32, flat) ==
    LET s == Len(segs) + 1
        first == flat /\ IndexOf(grps, FLAT) = 0
        flatgrps == IF flat THEN WithFlat(grps) ELSE grps
        new == Append(segs, [name |-> name, use32 |-> use32,
                             grp |-> IF flat THEN IndexOf(flatgrps, FLAT) ELSE 0])
        InGroup(acc, g) ==
          LET Names == {i \in acc.gs[g].nindices + 1..Len(acc.gs[g].segs) :
                          acc.gs[g].segs[i].name = name}
          IN IF Names = {} THEN acc
             ELSE [gs |-> Resolve(acc.gs, g, CHOOSE i \in Names : TRUE, s),
                   ss |-> Grouped(acc.ss, acc.gs, s, g)]
        done == FoldLeft(InGroup, [gs |-> flatgrps, ss |-> new],
                         [g \in DOMAIN flatgrps |-> g])
    IN /\ Directive /\ IndexOf(segs, name) = 0 /\ (flat => use32)
       /\ segs' = done.ss /\ grps' = done.gs /\ current_seg' = s
       /\ exts' = Resolved(IF first THEN Resolved(exts, FLAT, "group") ELSE exts,
                           name, "segment")
       /\ dws' = StillWaiting({name} \cup IF first THEN {FLAT} ELSE {})
       /\ UNCHANGED <<stage, failed, refs, named, waiting>>
obj_segment_again(name) ==
    /\ stage # "written" /\ IndexOf(segs, name) # 0
    /\ current_seg' = IndexOf(segs, name) /\ current_seg' # current_seg
    /\ UNCHANGED <<stage, segs, grps, exts, dws, failed, refs, named, waiting>>

(* GROUP, which may be said of a group more than once; a segment that the  *)
(* group has already is skipped.                                           *)
AddTo(acc, name, g) ==
    LET grp == acc.gs[g]
        n == grp.nindices
        s == IndexOf(segs, name)
        there == \E i \in DOMAIN grp.segs :
                   IF i <= n THEN segs[grp.segs[i].index].name = name
                   ELSE grp.segs[i].name = name
    IN IF there THEN acc
       ELSE IF s = 0
       THEN [acc EXCEPT !.gs[g].segs = Append(@, ByName(name))]
       ELSE [gs |-> Resolve([acc.gs EXCEPT ![g].segs = Append(@, ByName(NONE))],
                            g, Len(grp.segs) + 1, s),
             ss |-> Grouped(acc.ss, acc.gs, s, g)]
obj_group(name, list) ==
    LET known == IndexOf(grps, name)
        gs == IF known # 0 THEN grps
              ELSE Append(grps, [name |-> name, segs |-> <<>>, nindices |-> 0])
        g == IndexOf(gs, name)
        done == FoldLeft(LAMBDA acc, n : AddTo(acc, n, g),
                         [gs |-> gs, ss |-> segs], list)
    IN /\ Directive
       /\ grps' = done.gs /\ segs' = done.ss
       /\ exts' = Resolved(exts, name, "group") /\ dws' = StillWaiting({name})
       /\ named' = named \o [i \in DOMAIN list |-> <<name, list[i]>>]
       /\ UNCHANGED <<stage, current_seg, failed, refs, waiting>>

(* EXTERN and COMMON, after all symbols' declarations have been seen: in a *)
(* 32-bit segment the default is its group or itself, `wrt' says another.  *)
Default(wrt) ==
    LET seg == IndexOf(segs, wrt)
        grp == IndexOf(grps, wrt)
        Is(type, ptr) == [type |-> type, ptr |-> ptr]
    IN CASE wrt # NONE /\ seg # 0 -> Is("segment", wrt)
         [] wrt # NONE /\ seg = 0 /\ grp # 0 -> Is("group", wrt)
         [] wrt # NONE /\ seg = 0 /\ grp = 0 -> Is("string", wrt)
         [] wrt = NONE /\ current_seg # 0 /\ segs[current_seg].use32 ->
               LET s == segs[current_seg]
               IN IF s.grp # 0 THEN Is("group", grps[s.grp].name)
                  ELSE Is("segment", s.name)
         [] OTHER -> Is("none", NONE)
obj_deflabel(name, wrt) ==
    LET default == Default(wrt)
    IN /\ Directive /\ IndexOf(exts, name) = 0
       /\ exts' = Append(exts, [name |-> name, type |-> default.type,
                                ptr |-> default.ptr])
       /\ dws' = IF default.type = "string" THEN <<Len(exts) + 1>> \o dws ELSE dws
       /\ waiting' = IF wrt = NONE THEN waiting ELSE Append(waiting, <<name, wrt>>)
       /\ UNCHANGED <<stage, segs, grps, current_seg, failed, refs, named>>

final_pass ==
    /\ stage = "first" /\ stage' = "final" /\ segs # <<>>
    /\ current_seg' = 1
    /\ UNCHANGED <<segs, grps, exts, dws, failed, refs, named, waiting>>

-----------------------------------------------------------------------------
(* A fixup names a target and a frame, each by kind and index.             *)
Target(name) ==
    CASE IndexOf(segs, name) # 0 -> <<"segment", IndexOf(segs, name)>>
      [] IndexOf(segs, name) = 0 /\ IndexOf(grps, name) # 0 ->
            <<"group", IndexOf(grps, name)>>
      [] OTHER -> <<"external", IndexOf(exts, name)>>
NoFrame == <<"target", 0>>
DefaultFrame(e) ==
    CASE e.type = "none" -> NoFrame
      [] e.type = "segment" -> <<"segment", IndexOf(segs, e.ptr)>>
      [] OTHER -> <<"group", IndexOf(grps, e.ptr)>>
Unresolved(name, base, wrt) ==
    /\ wrt = NONE /\ ~base /\ Target(name)[1] = "external"
    /\ exts[Target(name)[2]].type = "string"
FrameOfSegment(name, base, wrt) ==
    LET t == Target(name)
    IN CASE wrt # NONE -> Target(wrt)
         [] wrt = NONE /\ t[1] = "external" -> DefaultFrame(exts[t[2]])
         [] OTHER -> NoFrame
Frame(name, base, wrt) ==
    LET t == Target(name)
    IN CASE wrt # NONE -> Target(wrt)
         [] wrt = NONE /\ ~base /\ t[1] = "segment" /\ segs[t[2]].grp # 0 ->
               <<"group", segs[t[2]].grp>>
         [] wrt = NONE /\ ~base /\ t[1] = "external" -> DefaultFrame(exts[t[2]])
         [] OTHER -> NoFrame
obj_write_fixup(name, base, wrt) ==
    /\ stage = "final" /\ Len(refs) < MaxRefs
    /\ \A n \in {name, wrt} \ {NONE} :
         \E list \in {segs, grps, exts} : IndexOf(list, n) # 0
    /\ IF Unresolved(name, base, wrt)
       THEN failed' = TRUE /\ UNCHANGED refs
       ELSE /\ refs' = Append(refs, [name |-> name, base |-> base, wrt |-> wrt,
                                     target |-> Target(name),
                                     frame |-> Frame(name, base, wrt)])
            /\ UNCHANGED failed
    /\ UNCHANGED <<stage, segs, grps, exts, dws, current_seg, named, waiting>>

(* What the references use as the base of a segment (SEG).                 *)
obj_segbase(s) ==
    IF segs[s].grp # 0 THEN <<"group", segs[s].grp>> ELSE <<"segment", s>>

(* A group that names a segment that never came is an error.               *)
obj_write_file ==
    /\ stage = "final" /\ stage' = "written"
    /\ failed' = (failed \/ \E g \in DOMAIN grps : grps[g].nindices < Len(grps[g].segs))
    /\ UNCHANGED <<segs, grps, exts, dws, current_seg, refs, named, waiting>>

Names == SegNames \cup GroupNames \cup ExtNames
Next ==
    \/ \E name \in SegNames, use32, flat \in BOOLEAN : obj_segment(name, use32, flat)
    \/ \E name \in SegNames : obj_segment_again(name)
    \/ \E name \in GroupNames, list \in Lists : obj_group(name, list)
    \/ \E name \in ExtNames, wrt \in {NONE} \cup SegNames \cup GroupNames :
          obj_deflabel(name, wrt)
    \/ final_pass
    \/ \E name \in Names, base \in BOOLEAN, wrt \in {NONE} \cup Names :
          obj_write_fixup(name, base, wrt)
    \/ obj_write_file
Spec == Init /\ [][Next]_vars

-----------------------------------------------------------------------------
(* The names of a written object are resolved, in whatever order SEGMENT,  *)
(* GROUP and EXTERN came: a group lists each segment that was said to be in*)
(* it, once; a segment's own group is one that has it, unless it is FLAT,  *)
(* which it is only where no other has it; each default WRT is the segment *)
(* or group of that name.  A reference to a segment of a group has the     *)
(* group as its frame, as its base has (obj_segbase), and is never left    *)
(* with a name not resolved.                                               *)
GroupsAreWhole ==
    \A g \in DOMAIN grps :
        LET said == {m[2] : m \in {n \in ToSet(named) : n[1] = grps[g].name}}
        IN /\ {segs[i].name : i \in Members(g)} = said
           /\ Len(grps[g].segs) = Cardinality(said)
SegmentsAreGrouped ==
    \A s \in DOMAIN segs :
        LET having == {g \in DOMAIN grps : s \in Members(g) /\ grps[g].name # FLAT}
        IN IF having # {} THEN segs[s].grp \in having
           ELSE segs[s].grp # 0 => grps[segs[s].grp].name = FLAT
DefaultsAreResolved ==
    \A w \in ToSet(waiting) :
        LET e == exts[IndexOf(exts, w[1])]
        IN CASE e.type = "segment" -> IndexOf(segs, e.ptr) # 0 /\ e.ptr = w[2]
             [] e.type = "group" -> IndexOf(grps, e.ptr) # 0 /\ e.ptr = w[2]
             [] OTHER -> IndexOf(segs, w[2]) = 0 /\ IndexOf(grps, w[2]) = 0
FramesAreBases ==
    \A r \in ToSet(refs) :
        r.target[1] = "segment" /\ r.wrt = NONE /\ ~r.base =>
            LET base == obj_segbase(r.target[2])
            IN r.frame = IF base[1] = "group" THEN base ELSE NoFrame
NamesAreResolved ==
    stage = "written" /\ ~failed =>
        GroupsAreWhole /\ SegmentsAreGrouped /\ DefaultsAreResolved /\ FramesAreBases
=============================================================================
