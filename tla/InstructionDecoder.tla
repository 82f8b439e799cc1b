------------------------- MODULE InstructionDecoder -------------------------
(***************************************************************************)
(* From bytes to an instruction (disasm/prefix.c, disasm/disasm.c): the    *)
(* prefixes are parsed first; then every template of the opcode is         *)
(* compared with what follows, and the match with the fewest prefixes left *)
(* over is taken.  Data are the items of EffectiveAddress: a template that *)
(* reads another number of bytes than were written together does not       *)
(* match.  The limit of 15 bytes is left out; no instruction here is as    *)
(* long as that.                                                           *)
(***************************************************************************)
EXTENDS EffectiveAddress

NoRex == [type |-> "none", map |-> 0, breg |-> 0, bregbv |-> 0, xreg |-> 0, xregxv |-> 0,
          rreg |-> 0, vreg |-> 0, vregxv |-> 0, w |-> 0, l |-> 0, p |-> 0, flags |-> {},
          xop |-> FALSE, vex3 |-> FALSE, evex |-> <<>>]
If(condition, value) == IF condition THEN value ELSE 0
Has(n, bit) == (n \div bit) % 2 = 1

rex_fields(op) ==
    [NoRex EXCEPT !.type = "rex", !.w = If(Has(op, 8), 1), !.rreg = If(Has(op, 4), 8),
                  !.xreg = If(Has(op, 2), 8), !.breg = If(Has(op, 1), 8),
                  !.flags = {f[1] : f \in {g \in {<<"W", 8>>, <<"R", 4>>, <<"X", 2>>, <<"B", 1>>} :
                                               Has(op, g[2])}} \cup {"P"}]
rex2_fields(f) ==
    LET reg(low, high) == If(low \in f.rex, 8) + If(high \in f.rex, 16) IN
    [NoRex EXCEPT !.type = "rex2", !.map = f.map, !.w = If("W" \in f.rex, 1),
                  !.rreg = reg("R", "R1"), !.xreg = reg("X", "X1"), !.breg = reg("B", "B1"),
                  !.flags = {"2", "P"} \cup (f.rex \cap {"W", "R", "X", "B"})]
vex_fields(f) ==
    [NoRex EXCEPT !.type = "vex", !.map = f.map, !.w = f.w, !.rreg = f.r, !.xreg = f.x,
                  !.breg = f.b, !.vreg = f.v, !.l = f.l, !.p = f.p,
                  !.flags = {"P", "V"} \cup (IF f.w = 1 THEN {"W"} ELSE {})
                            \cup (IF f.r = 8 THEN {"R"} ELSE {})
                            \cup (IF f.x = 8 THEN {"X"} ELSE {})
                            \cup (IF f.b = 8 THEN {"B"} ELSE {})]
(* Bit 4 of B is X3, and bit 4 of X is V4, where they are vectors.         *)
parse_evex(f) ==
    [NoRex EXCEPT !.type = "evex", !.map = f.map, !.w = f.w, !.l = f.ll, !.p = f.p,
                  !.rreg = If(f.r3, 8) + If(f.r4, 16),
                  !.breg = If(f.b3, 8) + If(f.b4, 16),
                  !.bregbv = If(f.b3, 8) + If(f.x3, 16),
                  !.xreg = If(f.x3, 8) + If(f.x4, 16),
                  !.xregxv = If(f.x3, 8) + If(f.v4, 16),
                  !.vreg = f.v + If(f.v4, 16), !.vregxv = f.v, !.evex = f,
                  !.flags = {"EV", "P"} \cup (IF f.w = 1 THEN {"W"} ELSE {})
                            \cup (IF f.r3 THEN {"R"} ELSE {})
                            \cup (IF f.x3 THEN {"X"} ELSE {})
                            \cup (IF f.b3 THEN {"B"} ELSE {})]

(* A GPR has no vector extension of its own.                               *)
SameForVectors(rex) == [rex EXCEPT !.bregbv = rex.breg, !.xregxv = rex.xreg,
                                   !.vregxv = rex.vreg]
(* Outside 64-bit mode C4, C5 and 62 are instructions of their own unless  *)
(* the upper three bits of the next byte are set.                          *)
extends(op, next, bits) ==
    CASE op \in \h40..\h4f \cup {\hd5} -> bits = 64
      [] op \in {\hc4, \hc5, \h62, \h8f} ->
            /\ next.f # <<>>
            /\ op = \h8f => next.f.map >= 8
            /\ \/ bits = 64
               \/ op = \hc5 /\ next.f.r = 0 /\ next.f.v < 4
               \/ op \in {\hc4, \h8f} /\ next.f.r = 0 /\ next.f.x = 0 /\ next.f.b = 0
               \/ op = \h62 /\ ~next.f.r3 /\ ~next.f.x3 /\ ~next.f.b3
      [] OTHER -> FALSE
parse_rex(op, next) ==
    CASE op \in \h40..\h4f -> SameForVectors(rex_fields(op))
      [] op = \hd5 -> SameForVectors(rex2_fields(next.f))
      [] op = \hc5 -> SameForVectors(vex_fields([next.f EXCEPT !.map = 1]))
      [] op = \hc4 -> [SameForVectors(vex_fields(next.f)) EXCEPT !.vex3 = TRUE]
      [] op = \h8f -> [SameForVectors(vex_fields(next.f)) EXCEPT !.xop = TRUE]
      [] op = \h62 -> parse_evex(next.f)

legacy == {\hf2, \hf3, \hf0, \h26, \h2e, \h36, \h3e, \h64, \h65, \h66, \h67}
SegOf == [b \in {\h26, \h2e, \h36, \h3e, \h64, \h65} |->
            CASE b = \h26 -> "es" [] b = \h2e -> "cs" [] b = \h36 -> "ss"
              [] b = \h3e -> "ds" [] b = \h64 -> "fs" [] OTHER -> "gs"]
OneOf(bytes, set) ==
    LET found == SelectSeq(bytes, LAMBDA b : b \in set)
    IN IF found = <<>> THEN 0 ELSE Last(found)
legacy_map(rest) ==
    LET begins(a, b) == Len(rest) > 1 /\ rest[1].v = a /\ rest[2].v = b IN
    CASE begins(\h0f, \h38) -> <<2, SubSeq(rest, 3, Len(rest))>>
      [] begins(\h0f, \h3a) -> <<3, SubSeq(rest, 3, Len(rest))>>
      [] Head(rest).v = \h0f /\ ~begins(\h0f, \h38) /\ ~begins(\h0f, \h3a) -> <<1, Tail(rest)>>
      [] OTHER -> <<0, rest>>
parse_prefixes(bytes, bits) ==
    LET wait == Head(bytes).v = \h9b
        data == IF wait THEN Tail(bytes) ELSE bytes
        n == CHOOSE i \in 0..(Len(data) - 1) :
                /\ data[i + 1].v \notin legacy
                /\ \A j \in 1..i : data[j].v \in legacy
        before == [j \in 1..n |-> data[j].v]
        op == data[n + 1].v
        extended == Len(data) > n + 1 /\ extends(op, data[n + 2], bits)
        rex == IF extended THEN parse_rex(op, data[n + 2]) ELSE NoRex
        taken == n + (IF ~extended THEN 0 ELSE IF rex.type = "rex" THEN 1 ELSE 2)
        rest == SubSeq(data, taken + 1, Len(data))
        mapped == IF rex.type \in {"none", "rex"} THEN legacy_map(rest) ELSE <<rex.map, rest>>
        osp == OneOf(before, {\h66}) # 0
        asp == OneOf(before, {\h67}) # 0
        rep == OneOf(before, {\hf2, \hf3})
    IN [ok |-> rex.type \in {"vex", "evex"} => ~osp /\ rep = 0,
        wait |-> wait, rep |-> rep, lock |-> OneOf(before, {\hf0}) # 0,
        seg |-> OneOf(before, DOMAIN SegOf), osp |-> osp, asp |-> asp,
        osize |-> CASE osp -> (IF bits = 16 THEN 32 ELSE 16)
                    [] ~osp /\ bits = 64 -> 32 [] OTHER -> bits,
        asize |-> CASE asp -> (IF bits = 32 THEN 16 ELSE 32) [] OTHER -> bits,
        rex |-> [rex EXCEPT !.map = mapped[1]], data |-> mapped[2]]

---------------------------------------------------------------------------
(* Registers.                                                              *)

ValidReg(c, n) ==
    CASE c \in {"xmm", "ymm", "zmm", "r8", "r16", "r32", "r64"} -> n < 32
      [] c \in {"tmm", "mmx", "k"} -> n < 8
      [] c = "sreg" -> n < 6
      [] c = "bnd" -> n < 4
      [] c = "creg" -> n < 16
      [] OTHER -> FALSE
whichreg(c, n, rex) ==
    CASE ~ValidReg(c, n) -> NoReg
      [] ValidReg(c, n) /\ c = "r8" /\ n \in 4..7 /\ {"P", "NH"} \cap rex = {} -> Reg("h8", n)
      [] OTHER -> Reg(c, n)
whichbreg(c, n, m) ==
    whichreg(c, n + (IF c \in vector THEN m.pf.rex.bregbv ELSE m.pf.rex.breg), m.rex)
whichrreg(c, n, m) == whichreg(c, n + m.pf.rex.rreg, m.rex)

---------------------------------------------------------------------------
(* matches: `m' is the state of the comparison.                            *)

NoMatch(m) == [m EXCEPT !.ok = FALSE]
Demand(m, condition) == IF condition THEN m ELSE NoMatch(m)
SetReg(m, i, r) ==
    IF r = NoReg THEN NoMatch(m)
    ELSE [m EXCEPT !.oprs = [@ EXCEPT ![i] = [k |-> "reg", r |-> r]]]
opno(c) == (c % 4) + 1
opno2(c) == ((c \div 8) % 4) + 1

(* An immediate of some bytes; what it means is known up to a power of 2.  *)
Imm(m, i, bytes, signed, upto) ==
    IF m.data = <<>> \/ Head(m.data).n # bytes THEN NoMatch(m)
    ELSE LET v == Head(m.data).v IN
         [m EXCEPT !.data = Tail(@),
                   !.oprs = [@ EXCEPT ![i] =
                       [k |-> "imm", v |-> IF signed THEN sext(v, 8 * bytes) ELSE v,
                        upto |-> upto, rel |-> FALSE]]]
Rel(m, i, bytes, asize) ==
    LET n == Imm(m, i, bytes, TRUE, asize) IN
    IF n.ok THEN [n EXCEPT !.oprs = [@ EXCEPT ![i].rel = TRUE]] ELSE n
imm_match(m, c) ==
    LET i == opno(c)
        sized == IF m.osize = 32 THEN 4 ELSE 2
        near == IF m.bits = 64 THEN 4 ELSE sized
    IN CASE c \in \o274..\o277 -> Imm(m, i, 1, TRUE, m.op_size)
         [] c \in \o20..\o27 -> Imm(m, i, 1, FALSE, 8)
         [] c \in \o30..\o33 -> Imm(m, i, 2, FALSE, 16)
         [] c \in \o34..\o37 -> Imm(m, i, sized, FALSE, 8 * sized)
         [] c \in \o40..\o43 -> Imm(m, i, 4, FALSE, 32)
         [] c \in \o254..\o257 -> Imm(m, i, 4, TRUE, 64)
         [] c \in \o44..\o47 -> Imm(m, i, m.pf.asize \div 8, FALSE, m.pf.asize)
         [] c \in \o54..\o57 -> Imm(m, i, 8, FALSE, 64)
         [] c \in \o50..\o53 -> Rel(m, i, 1, m.bits)
         [] c \in \o64..\o67 -> Rel(m, i, near, IF m.bits = 64 THEN 64 ELSE 8 * near)
IsImm(c) == c \in \o20..\o57 \cup \o64..\o67 \cup \o254..\o257 \cup \o274..\o277

modrm_match(m, c) ==
    LET i == opno2(c)
        modrm == Head(m.data).v
        shift == get_disp8_shift(m.tuple, m.evex)
        ea == do_ea(m.data, m.bits, m.pf.asize, m.eat, m.pf.rex, shift)
        spare == (modrm \div 8) % 8
        placed == IF modrm >= 192
                  THEN SetReg(m, i, whichbreg(m.itemp.opd[i].c, ea.rm, m))
                  ELSE [m EXCEPT !.a_used = TRUE,
                                 !.oprs = [@ EXCEPT ![i] =
                                   [k |-> "mem", b |-> ea.b, i |-> ea.i, s |-> ea.s,
                                    off |-> ea.off, rip |-> ea.rip]]]
        moved == [placed EXCEPT !.data = ea.data]
    IN CASE m.data = <<>> \/ Head(m.data).n # 1 -> NoMatch(m)
         [] c > \o177 /\ spare # c % 8 -> NoMatch(m)
         [] ~ea.ok -> NoMatch(m)
         [] c > \o177 -> moved
         [] OTHER -> SetReg(moved, opno(c), whichrreg(m.itemp.opd[opno(c)].c, spare, m))

has(m, flag) == flag \in m.itemp.flags
vex_match(m, code) ==
    LET c == code[1]
        rex == m.pf.rex
        n == [m EXCEPT !.rex = @ \cup {"V"}]
    IN IF \/ rex.type # "vex" \/ code[2] % 64 # rex.map
          \/ ~has(m, "WIG") /\ rex.w # code[3]
          \/ rex.p # code[5]
          \/ ~has(m, "LIG") /\ rex.l # code[4]
          \/ c = \o270 /\ rex.vreg # 0
       THEN NoMatch(m)
       ELSE IF c = \o270 THEN n
            ELSE SetReg(n, opno(c), whichreg(m.itemp.opd[opno(c)].c, rex.vreg, n.rex))

(* A ModRM byte that is a memory operand, from the byte code for it.       *)
is_mem_modrm(b, modrm) ==
    b \div 32 \in {2, 4} /\ (b \div 4) % 2 = 0 /\ modrm \div 64 # 3
(* The byte code here is the tuple type, which comes before that of ModRM. *)
tuple_code == \o300
evex_match(m, code) ==
    LET c == code[1]
        f == m.pf.rex.evex
        i == opno(c)
        memop == is_mem_modrm(tuple_code, m.data[2].v)
        lanes == m.itemp.deco
        free_v4 == c # \o250 \/ (memop /\ ~has(m, "SCC"))
        limit == IF m.bits = 64 THEN 32 ELSE 8
        vreg == (IF m.eat # "scalar" THEN m.pf.rex.vregxv ELSE m.pf.rex.vreg) % limit
        mismatch == \/ f.map # code[2] \/ f.p # code[5] \/ f.b
                    \/ ~has(m, "WIG") /\ f.w # code[3]
                    \/ ~has(m, "LIG") /\ ~(f.b /\ ~memop) /\ f.ll # code[4]
                    \/ "mask" \notin lanes /\ f.aaa # 0
                    \/ "z" \notin lanes /\ f.z
                    \/ ~free_v4 /\ f.v4
                    \/ c = \o250 /\ f.v # 0
        w == CASE has(m, "WIG") -> {"NW"} [] ~has(m, "WIG") /\ f.w = 1 -> {"W"} [] OTHER -> {}
        n == [m EXCEPT !.rex = @ \cup {"EV"} \cup w,
                       !.tuple = code[6]]
    IN IF m.pf.rex.type # "evex" \/ Len(m.data) < 2 THEN NoMatch(m)
       ELSE IF mismatch THEN NoMatch(m)
       ELSE IF c = \o250 THEN n
            ELSE SetReg(n, i, whichreg(m.itemp.opd[i].c, vreg, n.rex))

Uses(m, condition) == IF condition THEN [m EXCEPT !.a_used = TRUE] ELSE NoMatch(m)
asize_match(m, c) ==
    CASE c = \o310 -> Uses(m, m.pf.asize = 16)
      [] c = \o311 -> Uses(m, m.pf.asize = 32)
      [] c = \o313 -> Uses(m, m.pf.asize = 64)
      [] c = \o365 -> Demand(m, ~m.pf.asp)
      [] c = \o367 -> Uses(m, m.pf.asp)

(* VEX and EVEX carry no operand size: the template says what it is.       *)
osize_is(m, size) ==
    CASE {"V", "EV"} \cap m.rex # {} -> [m EXCEPT !.osize = size, !.o_used = TRUE]
      [] {"V", "EV"} \cap m.rex = {} /\ m.osize = size -> [m EXCEPT !.o_used = TRUE]
      [] OTHER -> NoMatch(m)
near64(m) ==
    LET n == [m EXCEPT !.rex = @ \cup {"NW"}]
    IN IF m.osize = 16 THEN n ELSE [n EXCEPT !.osize = 64, !.op_size = 64]
osize_match(m, c) ==
    CASE c = \o320 -> osize_is(m, 16)
      [] c = \o321 -> osize_is(m, 32)
      [] c = \o323 -> near64(m)
      [] c = \o327 -> IF m.bits = 64 THEN near64(m) ELSE m
      [] c = \o324 -> IF m.osize = 64 THEN [m EXCEPT !.o_used = TRUE] ELSE NoMatch(m)
      [] c = \o342 -> IF m.osize = m.bits THEN [m EXCEPT !.o_used = TRUE] ELSE NoMatch(m)

prefix_match(m, c) ==
    LET pf == m.pf IN
    CASE c \in {\o272, \o273} /\ pf.rep # 0 /\ (c = \o272 \/ pf.lock) ->
            [m EXCEPT !.drep = "hle"]
      [] c = \o271 /\ pf.rep = \hf3 -> [m EXCEPT !.drep = "hle"]
      [] c \in \o314..\o317 ->
            Demand(m, [n \in \o314..\o317 |-> CASE n = \o314 -> "B" [] n = \o315 -> "X"
                                                [] n = \o316 -> "R" [] OTHER -> "W"][c]
                      \notin pf.rex.flags)
      [] c = \o325 -> [m EXCEPT !.rex = @ \cup {"NH"}]
      [] c = \o326 -> Demand(m, pf.rep # \hf3)
      [] c = \o331 -> Demand(m, pf.rep = 0)
      [] c \in {\o332, \o333} ->
            [Demand(m, pf.rep = (IF c = \o332 THEN \hf2 ELSE \hf3)) EXCEPT !.drep = "none"]
      [] c = \o334 /\ m.bits # 64 /\ pf.lock ->
            [m EXCEPT !.rex = @ \cup {"R"}, !.dlock = FALSE]
      [] c = \o341 -> [Demand(m, pf.wait) EXCEPT !.dwait = FALSE]
      [] c = \o360 -> Demand(m, ~pf.osp /\ pf.rep = 0)
      [] c = \o361 -> [Demand(m, pf.osp /\ pf.rep = 0) EXCEPT !.o_used = TRUE]
      [] c = \o364 -> Demand(m, ~pf.osp)
      [] c = \o366 -> [Demand(m, pf.osp) EXCEPT !.o_used = TRUE]
      [] OTHER -> m

matches_code(m, code) ==
    LET c == code[1]
        here(n) == Len(m.data) >= n
    IN CASE c \in 1..4 ->
               IF here(c) /\ \A n \in 1..c : m.data[n].v = code[n + 1]
               THEN [m EXCEPT !.data = SubSeq(@, c + 1, Len(@))] ELSE NoMatch(m)
         [] c \in \o10..\o13 ->
               IF here(1) /\ Head(m.data).v - code[2] \in 0..7
               THEN SetReg([m EXCEPT !.data = Tail(@)], opno(c),
                           whichbreg(m.itemp.opd[opno(c)].c, Head(m.data).v - code[2], m))
               ELSE NoMatch(m)
         [] c = \o171 ->
               IF here(1) /\ Head(m.data).v \div 64 = code[2] \div 64
                  /\ Head(m.data).v % 8 = code[2] % 8
               THEN SetReg([m EXCEPT !.data = Tail(@)], opno2(code[2]),
                           whichrreg(m.itemp.opd[opno2(code[2])].c,
                                     (Head(m.data).v \div 8) % 8, m))
               ELSE NoMatch(m)
         [] c \in \o174..\o177 ->
               IF here(1)
               THEN LET d == Head(m.data).v
                        n == (d \div 16) + (IF (d \div 8) % 2 = 1 THEN 16 ELSE 0)
                    IN SetReg([m EXCEPT !.data = Tail(@)], opno(c),
                              whichbreg(m.itemp.opd[opno(c)].c,
                                        n % (IF m.bits = 64 THEN 32 ELSE 8), m))
               ELSE NoMatch(m)
         [] c \in \o240..\o243 \cup {\o250} -> evex_match(m, code)
         [] c \in \o260..\o263 \cup {\o270} -> vex_match(m, code)
         [] c \in \o374..\o376 ->
               [m EXCEPT !.eat = CASE c = \o374 -> "xmm" [] c = \o375 -> "ymm" [] OTHER -> "zmm"]
         [] c \in \o100..\o137 \cup \o200..\o237 -> modrm_match(m, c)
         [] IsImm(c) -> imm_match(m, c)
         [] c \in {\o310, \o311, \o313, \o365, \o367} -> asize_match(m, c)
         [] c \in {\o320, \o321, \o323, \o324, \o327, \o342} -> osize_match(m, c)
         [] OTHER -> prefix_match(m, c)

(* What is left over becomes a prefix of the line, or spoils the match.    *)
osize_prefix(m) ==
    CASE m.pf.osp /\ m.osize = 16 /\ m.bits # 16 -> {"o16"}
      [] m.pf.osp /\ m.osize = 32 /\ m.bits = 16 -> {"o32"}
      [] m.pf.osp /\ ~(m.osize = 16 /\ m.bits # 16) /\ ~(m.osize = 32 /\ m.bits = 16) ->
            {"osp"}
      [] ~m.pf.osp /\ m.pf.rex.w = 1 /\ m.osize = 64 -> {"o64"}
      [] OTHER -> {}
leftovers(m) ==
    LET o_used == m.o_used /\ ~(m.pf.rex.w = 1 /\ m.osize = 64 /\ "NW" \in m.rex)
    IN (IF m.dlock THEN {"lock"} ELSE {})
       \cup (IF m.drep = "none" THEN {} ELSE {m.drep})
       \cup (IF m.dwait THEN {"wait"} ELSE {})
       \cup (IF o_used THEN {} ELSE osize_prefix(m))
       \cup (IF m.a_used \/ m.pf.seg = 0 THEN {} ELSE {SegOf[m.pf.seg]})
       \cup (IF m.a_used \/ ~m.pf.asp THEN {} ELSE {IF m.pf.asize = 16 THEN "a16" ELSE "a32"})
       \cup (IF has(m, "LATEVEX") /\ m.pf.rex.type = "vex" THEN {"vex"} ELSE {})
Implicit(m) ==
    [i \in DOMAIN m.oprs |->
       IF m.oprs[i].k = "none" THEN [k |-> "reg", r |-> m.itemp.opd[i].implicit] ELSE m.oprs[i]]
(* The types of the operands are those of the template.                    *)
works(m) ==
    \A i \in DOMAIN m.oprs : m.oprs[i].k = "mem" => m.itemp.opd[i].memory

agrees(pf, itemp, end) ==
    LET same == {"V", "EV"} \cap pf.rex.flags = {"V", "EV"} \cap end.rex
        absent == (end.rex \ pf.rex.flags) \cap {"2", "P", "B", "X", "R", "W"}
        unlockable == end.dlock /\ ({"V", "EV"} \cap end.rex # {} \/ "LOCK" \notin itemp.flags)
    IN Demand(end, end.ok /\ same /\ absent = {} /\ ~unlockable /\ works(end))
matches(pf, itemp, bits) ==
    LET wide == bits = 64 /\ pf.rex.w = 1
                /\ (pf.rex.type \in {"none", "rex", "rex2"} \/ "WW" \in itemp.flags)
        osize == IF wide THEN 64 ELSE pf.osize
        start == [ok |-> TRUE, pf |-> pf, itemp |-> itemp, bits |-> bits, data |-> pf.data,
                  rex |-> pf.rex.flags, osize |-> osize, op_size |-> osize,
                  oprs |-> [i \in DOMAIN itemp.opd |-> [k |-> "none"]],
                  a_used |-> \E i \in DOMAIN itemp.opd : itemp.opd[i].moffs,
                  o_used |-> FALSE, dlock |-> pf.lock, dwait |-> pf.wait,
                  drep |-> CASE pf.rep = \hf2 -> "repne" [] pf.rep = \hf3 -> "rep"
                             [] OTHER -> "none",
                  eat |-> "scalar", tuple |-> "none",
                  evex |-> [b |-> FALSE, w |-> 0, ll |-> 0]]
        step(m, code) == IF m.ok THEN matches_code(m, code) ELSE m
        barred == \/ itemp.deco # {} /\ pf.rex.type # "evex"
                  \/ (IF bits = 64 THEN "NOLONG" ELSE "LONG") \in itemp.flags
    IN IF barred THEN NoMatch(start)
       ELSE agrees(pf, itemp, FoldLeft(step, start, itemp.code))

(* The map of a template: what must have been in front of its opcode.      *)
map_of(itemp) ==
    LET in(codes) == SelectSeq(itemp.code, LAMBDA x : x[1] \in codes)
        vex == in(\o260..\o263 \cup {\o270})
        evex == in(\o240..\o243 \cup {\o250})
        legacy_code == in(\o355..\o357)
    IN CASE vex # <<>> -> <<IF vex[1][2] >= 64 THEN "xop" ELSE "vex", vex[1][2] % 64>>
         [] evex # <<>> -> <<"evex", evex[1][2]>>
         [] vex = <<>> /\ evex = <<>> ->
               <<"none", IF legacy_code = <<>> THEN 0 ELSE legacy_code[1][1] % 4>>
xmap(rex) ==
    <<CASE rex.type = "vex" -> (IF rex.xop THEN "xop" ELSE "vex")
        [] rex.type = "evex" -> "evex" [] OTHER -> "none", rex.map>>

(* All best matches.  Flags of the templates decide between them.          *)
BestOf(found) ==
    LET rank(m) == Cardinality(leftovers(m))
    IN {x \in found : \A y \in found : rank(x) <= rank(y)}
Found(pf, bits, templates) ==
    IF ~pf.ok THEN {}
    ELSE BestOf({m \in {matches(pf, t, bits) :
                           t \in {x \in templates : map_of(x) = xmap(pf.rex)}} : m.ok})
disasm(bytes, bits, templates) ==
    {[opcode |-> m.itemp.opcode, oprs |-> Implicit(m), prefixes |-> leftovers(m),
      rest |-> m.data] : m \in Found(parse_prefixes(bytes, bits), bits, templates)}
=============================================================================
