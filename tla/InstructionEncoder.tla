------------------------- MODULE InstructionEncoder -------------------------
(***************************************************************************)
(* From an instruction and its template to bytes (asm/assemble.c): the     *)
(* byte code of the template is read twice, by calcsize, which collects    *)
(* prefixes and counts bytes, and by gencode, which writes them.  A byte   *)
(* code is <<code, arguments...>>; its two lowest bits, and for ModRM the  *)
(* bits 3 and 4, name operands.  The fields of VEX, EVEX and REX2 prefixes *)
(* are kept apart; the bits that the hardware wants inverted are not.      *)
(* Instructions have at most four operands, so the codes 5..7, which       *)
(* extend these numbers, are left out.                                     *)
(***************************************************************************)
EXTENDS EffectiveAddress

PPS == {"WAIT", "SEG", "ASIZE", "LOCK", "OSIZE", "REP", "REX", "NF", "ZU"}
Order == <<"WAIT", "SEG", "ASIZE", "LOCK", "OSIZE", "REP", "REX", "NF", "ZU">>
PFE_NULL == -1
PFE_ERR == -3
PFE_MULTI == -2
Unprefixed == [p \in PPS |-> "none"]

opno(c) == (c % 4) + 1
opno2(c) == ((c \div 8) % 4) + 1
opr(ins, n) == IF n <= Len(ins.oprs) THEN ins.oprs[n] ELSE [k |-> "none"]
MaskBits == {"P", "W", "R", "X", "B"}
BXR0 == {"B", "X", "R"}
BXR1 == {"B1", "X1", "R1"}
rex_highvec(rex) ==
    {p[1] : p \in {q \in {<<"B1", "BV">>, <<"X1", "XV">>, <<"R1", "RV">>} :
                      {q[1], q[2]} \subseteq rex}}
itemp_has(itemp, flag) == flag \in itemp.flags
Fail(ins) == [ins EXCEPT !.failed = TRUE]
Longer(ins, n) == [ins EXCEPT !.length = @ + n]

---------------------------------------------------------------------------
(* calcsize: one byte code after the other.                                *)

SizedBytes(ins, op, sizes) ==
    CASE op.size \in sizes -> IF op.size = 16 THEN 2 ELSE 4
      [] op.size \notin sizes -> IF ins.op_size = 16 THEN 2 ELSE 4
CodeBytes(ins, c) ==
    CASE c \in \o20..\o27 \cup \o50..\o53 \cup \o274..\o277 -> 1
      [] c \in \o30..\o33 \cup \o60..\o63 -> 2
      [] c \in \o34..\o37 \cup \o64..\o67 ->
            SizedBytes(ins, opr(ins, opno(c)), {16, 32, 64})
      [] c \in \o40..\o43 \cup \o254..\o257 \cup \o264..\o267 -> 4
      [] c \in \o44..\o47 -> ins.addr_size \div 8
      [] c \in \o54..\o57 -> 8
      [] OTHER -> 0

set_asize(ins, size, name, allowed) ==
    LET pfx == ins.prefixes["ASIZE"] IN
    IF pfx \notin allowed \cup {"none"} THEN Fail(ins)
    ELSE [ins EXCEPT !.addr_size = size,
                     !.prefixes["ASIZE"] = IF pfx = "none" THEN name ELSE @]
asize_code(ins, c) ==
    LET osp(bits) == IF bits THEN {"asp"} ELSE {} IN
    CASE c = \o310 -> IF ins.bits = 64 THEN Fail(ins)
                      ELSE set_asize(ins, 16, "a16", {"a16"} \cup osp(ins.bits = 32))
      [] c = \o311 -> set_asize(ins, 32, "a32", {"a32"} \cup osp(ins.bits # 32))
      [] c = \o313 -> IF ins.bits # 64 THEN Fail(ins)
                      ELSE set_asize(ins, 64, "a64", {"a64"})

(* is_o16, is_o32 and is_o64.                                              *)
set_osize(ins, size) ==
    LET pfx == ins.prefixes["OSIZE"]
        name == CASE size = 16 -> "o16" [] size = 32 -> "o32" [] OTHER -> "o64"
        asis == /\ pfx = "osp"
                /\ (size = 16 /\ ins.bits # 16) \/ (size = 32 /\ ins.bits = 16) \/ size = 64
        sized == [ins EXCEPT !.op_size = size]
    IN CASE size = 32 /\ "NW" \in ins.rex -> Fail(sized)
         [] asis /\ size = 64 ->
               [sized EXCEPT !.rex = @ \cup (IF "NW" \in @ THEN {} ELSE {"W"})]
         [] ~(size = 32 /\ "NW" \in ins.rex) /\ ~asis /\ pfx \in {"none", name}
              /\ size \notin ins.opt_opsize -> [sized EXCEPT !.prefixes["OSIZE"] = name]
         [] OTHER -> sized
osize_code(ins, c) ==
    LET pfx == ins.prefixes["OSIZE"] IN
    CASE c = \o320 -> set_osize(ins, 16)
      [] c = \o321 -> set_osize(ins, 32)
      [] c = \o323 -> set_osize([ins EXCEPT !.rex = @ \cup {"NW"}], 64)
      [] c = \o324 -> set_osize(ins, 64)
      [] c = \o327 -> IF ins.bits # 64 THEN ins
                      ELSE [ins EXCEPT !.rex = @ \cup {"NW"},
                                       !.op_size = IF @ = 32 THEN 64 ELSE @]
      [] c = \o330 -> (CASE pfx = "none" -> set_osize(ins, ins.op_size)
                          [] pfx = "osp" -> set_osize(ins, IF ins.bits = 16 THEN 32 ELSE 16)
                          [] pfx = "o16" -> set_osize(ins, 16)
                          [] pfx = "o32" -> set_osize(ins, 32)
                          [] pfx = "o64" -> set_osize(ins, 64))
      [] c = \o336 -> [ins EXCEPT !.opt_opsize = {16, 32, 64}]
      [] c = \o337 -> [ins EXCEPT !.opt_opsize = {64}]
      [] c = \o342 -> set_osize(ins, ins.bits)

(* The prefixes that the template demands or forbids.                      *)
need_code(ins, c) ==
    LET need(slots, b) == [ins EXCEPT !.need_pfx =
                              [p \in PPS |-> IF p \in slots THEN b ELSE @[p]]]
    IN CASE c = \o331 -> need({"REP"}, PFE_NULL)
         [] c = \o332 -> need({"REP"}, \hf2)
         [] c = \o333 -> need({"REP"}, \hf3)
         [] c = \o360 -> need({"REP", "OSIZE"}, PFE_NULL)
         [] c = \o361 -> [need({"REP"}, PFE_NULL) EXCEPT !.need_pfx["OSIZE"] = \h66]
         [] c = \o366 -> need({"OSIZE"}, \h66)
         [] c = \o364 -> need({"OSIZE"}, PFE_NULL)
         [] c = \o365 -> need({"ASIZE"}, PFE_NULL)
         [] c = \o367 -> need({"ASIZE"}, \h67)

(* <<code, class and map, W, LL, pp>> and for EVEX also the tuple type.    *)
vex_code(ins, code) ==
    LET c == code[1]
        op == opr(ins, opno(c))
        evex == c \in \o240..\o250
        named == c \notin {\o250, \o270}
    IN [ins EXCEPT
          !.rex = @ \cup {IF evex THEN "EV" ELSE "V"},
          !.vexreg = IF named /\ op.k = "reg" THEN op.r.n ELSE 0,
          !.veximm = IF named /\ op.k = "imm" THEN op.v ELSE @,
          !.vex_cm = code[2],
          !.vex_wlp = IF evex THEN @ ELSE [w |-> code[3], l |-> code[4], p |-> code[5]],
          !.evex = IF evex THEN [map |-> code[2], w |-> code[3], ll |-> code[4],
                                 p |-> code[5], b |-> FALSE] ELSE @,
          !.evex_tuple = IF evex THEN code[6] ELSE @]

ea_evex_flags(ins, opy) ==
    LET er_sae == ins.deco \cap {"er", "sae"} # {} IN
    CASE er_sae /\ ~itemp_has(ins.itemp, "LIG") /\ ins.evex.ll # 2 -> Fail(ins)
      [] er_sae /\ (itemp_has(ins.itemp, "LIG") \/ ins.evex.ll = 2) ->
            [ins EXCEPT !.evex.b = ~@,
                        !.evex.ll = IF "er" \in ins.deco THEN ins.evex_rm ELSE 0]
      [] ~er_sae /\ opy.bcast -> [ins EXCEPT !.evex.b = ~@]
      [] OTHER -> ins
WithEa(ins, ea, rex) ==
    IF ins.failed \/ ~ea.ok THEN Fail(ins)
    ELSE [Longer(ins, ea_size(ea)) EXCEPT !.ea = ea, !.rex = @ \cup ea.rex \cup rex]
modrm_code(ins, c) ==
    LET rex == IF c <= \o177 THEN rexflags(opr(ins, opno(c)).r, REX_rR) ELSE {}
        opy == opr(ins, opno2(c))
        mib == itemp_has(ins.itemp, "MIB") /\ ins.mib_index # NoReg
        y == IF mib THEN [opy EXCEPT !.i = ins.mib_index, !.s = 1,
                              !.hint = [type |-> "notbase", base |-> ins.mib_index]]
             ELSE opy
        flagged == IF "EV" \in ins.rex THEN ea_evex_flags(ins, y) ELSE ins
        shift == IF "EV" \in ins.rex
                 THEN get_disp8_shift(ins.evex_tuple, flagged.evex) ELSE 0
    IN WithEa(flagged,
              process_ea(y, ins.addr_size, ins.bits, shift,
                         [type |-> ins.eat, sib |-> itemp_has(ins.itemp, "SIB"),
                          mib |-> itemp_has(ins.itemp, "MIB")]), rex)

IsModrm(c) == c \in \o100..\o137 \cup \o200..\o237
calcsize_code(ins, code) ==
    LET c == code[1] IN
    CASE c \in 1..4 -> Longer(ins, c)
      [] c \in \o10..\o13 ->
            Longer([ins EXCEPT !.rex = @ \cup rexflags(opr(ins, opno(c)).r, REX_rB)], 1)
      [] c \in \o14..\o17 -> [ins EXCEPT !.mib_index = opr(ins, opno(c)).r]
      [] c = \o171 ->
            Longer([ins EXCEPT !.rex = @ \cup rexflags(opr(ins, opno2(code[2])).r, REX_rR)], 1)
      [] c \in \o172..\o177 -> Longer(ins, 1)
      [] c \in \o240..\o243 \cup \o260..\o263 \cup {\o250, \o270} ->
            vex_code(ins, code)
      [] c \in \o310..\o313 -> asize_code(ins, c)
      [] c \in {\o320, \o321, \o323, \o324, \o327, \o330, \o336, \o337, \o342} ->
            osize_code(ins, c)
      [] c = \o325 -> [ins EXCEPT !.rex = @ \cup {"NH"}]
      [] c = \o334 -> [ins EXCEPT !.rex = @ \cup {"L"}]
      [] c \in {\o331, \o332, \o333} \cup \o360..\o367 -> need_code(ins, c)
      [] c = \o341 ->
            [ins EXCEPT !.prefixes["WAIT"] = IF @ = "none" THEN "wait" ELSE @]
      [] c \in \o355..\o357 -> [ins EXCEPT !.vex_cm = c % 4]
      [] c \in \o374..\o376 ->
            [ins EXCEPT !.eat = CASE c = \o374 -> "xmm" [] c = \o375 -> "ymm" [] OTHER -> "zmm"]
      [] IsModrm(c) -> modrm_code(ins, c)
      [] OTHER -> Longer(ins, CodeBytes(ins, c))

(* The keyword that asks for a class of prefixes.                          *)
rex_keyword(ins) ==
    LET asked == ins.prefixes["REX"]
        vex == {"V", "EV"} \cap ins.rex # {}
    IN CASE \/ asked = "evex" /\ "EV" \notin ins.rex
            \/ asked \in {"vex", "vex3", "vex2"} /\ "V" \notin ins.rex
            \/ asked = "rex" /\ (ins.bits # 64 \/ vex \/ "2" \in ins.rex)
            \/ asked = "rex2" /\ (ins.bits # 64 \/ vex \/ rex_highvec(ins.rex) # {}) ->
               Fail(ins)
         [] asked = "rex" /\ ins.bits = 64 /\ ~vex /\ "2" \notin ins.rex ->
               [ins EXCEPT !.rex = @ \cup {"P"}]
         [] asked = "rex2" /\ ins.bits = 64 /\ ~vex /\ rex_highvec(ins.rex) = {} ->
               [ins EXCEPT !.rex = @ \cup {"P", "2"}]
         [] OTHER -> ins

Vex3WithoutB(ins) ==
    ins.vex_cm # 1 \/ {"X", "W"} \cap ins.rex # {} \/ ins.prefixes["REX"] = "vex3"
Vex3(ins) ==
    ins.vex_cm # 1 \/ {"B", "X", "W"} \cap ins.rex # {} \/ ins.prefixes["REX"] = "vex3"
vex_size(ins) ==
    LET ww == itemp_has(ins.itemp, "WW")
        bad32 == BXR0 \cup BXR1 \cup (IF ww THEN {"W"} ELSE {})
        x == IF ww THEN ins
             ELSE [ins EXCEPT !.rex = (@ \ {"W"}) \cup
                                      (IF "V" \in @ /\ ins.vex_wlp.w = 1 THEN {"W"} ELSE {})]
    IN CASE \/ "H" \in x.rex
            \/ x.bits # 64 /\ (x.rex \cap bad32 # {} \/ x.vexreg > 7)
            \/ "EV" \notin x.rex /\ (x.vexreg > 15 \/ x.rex \cap BXR1 # {})
            \/ "EV" \notin x.rex /\ Vex3(x) /\ x.prefixes["REX"] = "vex2" -> Fail(x)
         [] OTHER -> Longer(x, CASE "EV" \in x.rex -> 4
                                 [] "EV" \notin x.rex /\ Vex3(x) -> 3 [] OTHER -> 2)
rex2_size(ins) ==
    IF \/ ins.bits # 64 \/ "H" \in ins.rex
       \/ itemp_has(ins.itemp, "NOAPX") \/ rex_highvec(ins.rex) # {}
    THEN Fail(ins) ELSE Longer([ins EXCEPT !.rex = @ \cup {"2", "P"}], 2)
LockIsRexR(rex) == rex \cap ({"L", "W"} \cup BXR0 \cup BXR1) = {"L", "R"}
rex_size(ins) ==
    CASE "H" \in ins.rex -> Fail(ins)
      [] "H" \notin ins.rex /\ ins.bits = 64 ->
            Longer([ins EXCEPT !.rex = (@ \ {"L"}) \cup {"P"}], 1)
      [] "H" \notin ins.rex /\ ins.bits # 64 /\ LockIsRexR(ins.rex)
         /\ ins.prefixes["LOCK"] = "none" -> Longer([ins EXCEPT !.rex = @ \ {"P"}], 1)
      [] OTHER -> Fail(ins)
extension_size(ins) ==
    CASE {"V", "EV"} \cap ins.rex # {} -> vex_size(ins)
      [] {"V", "EV"} \cap ins.rex = {} /\ (BXR1 \cup {"2"}) \cap ins.rex # {} -> rex2_size(ins)
      [] {"V", "EV", "2"} \cap ins.rex = {} /\ BXR1 \cap ins.rex = {}
         /\ MaskBits \cap ins.rex # {} -> rex_size(ins)
      [] OTHER -> ins
opmap_size(ins) ==
    IF {"2", "V", "EV"} \cap ins.rex # {} \/ ins.vex_cm = 0 THEN 0
    ELSE IF ins.vex_cm = 1 THEN 1 ELSE 2

---------------------------------------------------------------------------
(* Legacy prefixes.                                                        *)

prefix_byte(pfx, bits) ==
    CASE pfx = "wait" -> \h9b
      [] pfx = "lock" -> \hf0
      [] pfx = "repne" -> \hf2
      [] pfx = "rep" -> \hf3
      [] pfx = "cs" -> \h2e
      [] pfx = "fs" -> \h64
      [] pfx = "a16" -> CASE bits = 64 -> PFE_ERR [] bits = 32 -> \h67 [] OTHER -> PFE_NULL
      [] pfx = "a32" -> IF bits # 32 THEN \h67 ELSE PFE_NULL
      [] pfx = "asp" -> \h67
      [] pfx = "o16" -> IF bits # 16 THEN \h66 ELSE PFE_NULL
      [] pfx = "o32" -> IF bits = 16 THEN \h66 ELSE PFE_NULL
      [] pfx = "o64" -> IF bits = 64 THEN PFE_NULL ELSE PFE_ERR
      [] pfx = "osp" -> \h66
      [] pfx \in {"rex", "vex", "evex", "vex3", "vex2", "rex2"} -> PFE_MULTI
      [] OTHER -> PFE_NULL        \* a64 has no case of its own

Overridable == {"none", "o16", "o32", "o64", "a16", "a32", "a64"}
PrefixByte(ins, p) ==
    LET pfx == ins.prefixes[p]
        r == ins.need_pfx[p]
        c == prefix_byte(pfx, ins.bits)
        b == IF /\ r # 0 /\ r # c /\ ~(r <= 0 /\ c <= 0)
                /\ pfx \in Overridable THEN r ELSE c
    IN IF b \in {\h66, \hf2, \hf3} /\ {"V", "EV"} \cap ins.rex # {}
       THEN PFE_NULL ELSE b
emit_prefixes(ins) ==
    FlattenSeq([n \in 1..Len(Order) |->
                  IF PrefixByte(ins, Order[n]) >= 0
                  THEN <<Byte(PrefixByte(ins, Order[n]))>> ELSE <<>>])
(* a64 is an error outside 64-bit mode, like o64, and a16 inside it.       *)
PrefixErrors(ins) ==
    \/ ins.prefixes["ASIZE"] = "a16" /\ ins.bits = 64
    \/ ins.prefixes["ASIZE"] = "a64" /\ ins.bits # 64
    \/ ins.prefixes["OSIZE"] = "o64" /\ ins.bits # 64

WithPrefixes(ins) ==
    IF ins.failed \/ PrefixErrors(ins) THEN Fail(ins)
    ELSE Longer(ins, opmap_size(ins) + Len(emit_prefixes(ins)))
calcsize(insn) ==
    LET nh(ins) == IF "NH" \notin ins.rex THEN ins
                   ELSE IF "H" \in ins.rex THEN Fail(ins)
                   ELSE [ins EXCEPT !.rex = @ \ {"P"}]
        wide(ins) == IF ins.prefixes["OSIZE"] = "o64" /\ "NW" \notin ins.rex
                     THEN [ins EXCEPT !.rex = @ \cup {"W"}] ELSE ins
        fresh == [insn EXCEPT !.op_size = IF insn.bits # 16 THEN 32 ELSE 16,
                              !.rex = {}, !.vexreg = 0, !.vex_cm = 0, !.eat = "scalar"]
        step(ins, code) == IF ins.failed THEN ins ELSE calcsize_code(ins, code)
        extended(ins) == IF ins.failed THEN ins
                         ELSE extension_size(rex_keyword(wide(nh(ins))))
    IN WithPrefixes(extended(FoldLeft(step, fresh, insn.itemp.code)))

---------------------------------------------------------------------------
(* gencode: `g' is the instruction, what was written of it, and whether a  *)
(* warning or an error was given; `start' is the address of its first byte.*)

Emit(g, items) == [g EXCEPT !.bytes = @ \o items]
Bit(set, x, value) == IF x \in set THEN value ELSE 0
Opmap(cm) ==
    CASE cm = 0 -> <<>> [] cm = 1 -> <<Byte(\h0f)>>
      [] cm = 2 -> <<Byte(\h0f), Byte(\h38)>> [] cm = 3 -> <<Byte(\h0f), Byte(\h3a)>>
emit_rex(g) ==
    LET rex == g.ins.rex IN
    IF g.rex_done THEN g
    ELSE [Emit(g, CASE {"V", "EV"} \cap rex # {} -> <<>>
                    [] {"V", "EV"} \cap rex = {} /\ "2" \in rex ->
                          <<Byte(\hd5), Payload(1, [rex |-> rex \cap (BXR0 \cup BXR1 \cup {"W"}),
                                                    map |-> g.ins.vex_cm])>>
                    [] OTHER ->
                          (CASE rex \cap (MaskBits \cup {"L"}) = {"L", "R"} -> <<Byte(\hf0)>>
                             [] rex \cap (MaskBits \cup {"L"}) # {"L", "R"} /\ "P" \in rex ->
                                   <<Byte(\h40 + Bit(rex, "W", 8) + Bit(rex, "R", 4)
                                          + Bit(rex, "X", 2) + Bit(rex, "B", 1))>>
                             [] OTHER -> <<>>) \o Opmap(g.ins.vex_cm))
          EXCEPT !.rex_done = TRUE]

overflow_out(v, bytes, kind) ==
    LET w == Width[8 * bytes] IN
    CASE kind = "wrap" -> overflow_general(v, 8 * bytes)
      [] kind = "signed" -> v < -(2^(w - 1)) \/ v >= 2^(w - 1)
      [] kind = "unsigned" -> v < 0 \/ v >= 2^w
(* A field as wide as addresses may wrap round; one of 8 bytes is never     *)
(* too small.                                                              *)
out(g, v, bytes, flags) ==
    LET kind == IF 8 * bytes >= g.ins.bits THEN "wrap" ELSE flags IN
    [Emit(g, <<Num(bytes, v)>>) EXCEPT
        !.warned = @ \/ (bytes < 8 /\ overflow_out(v, bytes, kind))]
out_imm(g, op, bytes, flags) == out(g, IF op.k = "mem" THEN op.off ELSE op.v, bytes, flags)
End(g) == g.start + g.ins.length
out_reladdr(g, op, bytes) == out(g, op.v - End(g), bytes, "signed")

(* 0274: a signed byte, of an operand that may be as wide as op_size.      *)
SignedByte(g, op) ==
    LET m == 2^Width[g.ins.op_size] IN
    [Emit(g, <<Num(1, op.v)>>) EXCEPT
        !.warned = @ \/ ~(op.v \in -128..127 \/ op.v \in (m - 128)..(m - 1))]

emit_vex(g) ==
    LET rex == g.ins.rex
        fields == [r |-> Bit(rex, "R", 8), x |-> Bit(rex, "X", 8), b |-> Bit(rex, "B", 8),
                   w |-> Bit(rex, "W", 1), v |-> g.ins.vexreg, map |-> g.ins.vex_cm % 64,
                   l |-> g.ins.vex_wlp.l, p |-> g.ins.vex_wlp.p]
    IN Emit(g, IF Vex3(g.ins)
               THEN <<Byte(IF g.ins.vex_cm >= 64 THEN \h8f ELSE \hc4), Payload(2, fields)>>
               ELSE <<Byte(\hc5), Payload(1, [fields EXCEPT !.x = 0, !.b = 0, !.w = 0])>>)
emit_evex(g) ==
    LET rex == g.ins.rex
        v == g.ins.vexreg + g.ins.veximm
        has(bit, vec, of_vector) == bit \in rex /\ (vec \in rex) = of_vector
        fields == [r3 |-> "R" \in rex, r4 |-> "R1" \in rex, b3 |-> "B" \in rex,
                   x3 |-> ("X" \in rex) # has("B1", "BV", TRUE),
                   b4 |-> has("B1", "BV", FALSE),
                   x4 |-> has("X1", "XV", FALSE),
                   v4 |-> (v >= 16) # has("X1", "XV", TRUE),
                   v |-> v % 16, w |-> IF "W" \in rex THEN 1 ELSE g.ins.evex.w,
                   map |-> g.ins.evex.map, p |-> g.ins.evex.p, ll |-> g.ins.evex.ll,
                   b |-> g.ins.evex.b, z |-> "z" \in g.ins.deco,
                   aaa |-> g.ins.opmask]
    IN Emit(g, <<Byte(\h62), Payload(3, fields)>>)

emit_ea(g, c) ==
    LET op == opr(g.ins, opno2(c))
        spare == IF c <= \o177 THEN opr(g.ins, opno(c)).r.n ELSE c % 8
    IN [Emit(g, ea_bytes(g.ins.ea, spare, op, End(g))) EXCEPT
           !.warned = \/ @
                      \/ op.k = "mem" /\ ea_overflow(g.ins.ea, op, g.ins.addr_size)
                      \/ g.ins.ea.rip /\ overflow_out(op.off - End(g), 4, "signed")]
(* A register in the high half of a byte.                                  *)
emit_is4(g, r, c) == Emit(g, <<Byte((r.n % 16) * 16 + (IF r.n >= 16 THEN 8 ELSE 0) + c)>>)

gencode_code(g, code) ==
    LET c == code[1]
        op == opr(g.ins, opno(c))
    IN CASE c \in 1..4 -> Emit(emit_rex(g), [i \in 1..c |-> Byte(code[i + 1])])
         [] c \in \o10..\o13 -> Emit(emit_rex(g), <<Byte(code[2] + (op.r.n % 8))>>)
         [] c \in \o20..\o23 -> out_imm(g, op, 1, "wrap")
         [] c \in \o24..\o27 -> out_imm(g, op, 1, "unsigned")
         [] c \in \o30..\o33 \cup \o40..\o47 \cup \o54..\o57 ->
               out_imm(g, op, CodeBytes(g.ins, c), "wrap")
         [] c \in \o34..\o37 -> out_imm(g, op, SizedBytes(g.ins, op, {16, 32}), "wrap")
         [] c \in \o50..\o53 ->
               LET delta == sext(op.v - End(g), g.ins.op_size) IN
               [out_reladdr(g, op, 1) EXCEPT !.failed = @ \/ delta # sext(delta, 8)]
         [] c \in \o60..\o67 -> out_reladdr(g, op, CodeBytes(g.ins, c))
         [] c = \o171 -> Emit(g, <<Byte(code[2] + 8 * (opr(g.ins, opno2(code[2])).r.n % 8))>>)
         [] c \in \o174..\o177 -> emit_is4(g, op.r, 0)
         [] c \in \o240..\o243 \cup {\o250} -> emit_evex(g)
         [] c \in \o254..\o257 -> out_imm(g, op, 4, "signed")
         [] c \in \o264..\o267 -> out_imm(g, op, 4, "unsigned")
         [] c \in \o260..\o263 \cup {\o270} -> emit_vex(g)
         [] c \in \o274..\o277 -> SignedByte(g, op)
         [] IsModrm(c) -> emit_ea(g, c)
         [] OTHER -> g
gencode(ins, start) ==
    FoldLeft(gencode_code,
             [ins |-> ins, start |-> start, bytes |-> emit_prefixes(ins),
              rex_done |-> FALSE, warned |-> FALSE, failed |-> FALSE],
             ins.itemp.code)
=============================================================================
