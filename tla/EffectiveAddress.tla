-------------------------- MODULE EffectiveAddress --------------------------
(***************************************************************************)
(* Memory operands: how the text of an address becomes a base, an index, a *)
(* scale and an offset (asm/eval.c, asm/parser.c), how these are coded in  *)
(* a ModRM and a SIB byte and a displacement (process_ea of                *)
(* asm/assemble.c), and how the bytes are read back (do_ea of              *)
(* disasm/disasm.c).  The text is the sequence of the terms of a sum.  A   *)
(* register is its class and its number; bytes that belong together are    *)
(* one item [n |-> number of bytes, v |-> value].  Widths in bits are a    *)
(* parameter, because a displacement of 32 bits is out of TLC's reach.     *)
(***************************************************************************)
EXTENDS Integers, Sequences, SequencesExt

CONSTANTS
    Width,      \* bits of a field of 8, 16, 32 and 64 bits
    RegOrder    \* registers in the order of enum reg_enum

Reg(c, n) == [c |-> c, n |-> n]
NoReg == Reg("none", 0)
Simple == Reg("simple", 0)      \* the number among the terms of a vector
Segment == Reg("segbase", 0)    \* the segment of a label

gpr == {"r8", "h8", "r16", "r32", "r64"}
vector == {"xmm", "ymm", "zmm", "tmm"}
SizeOf == [c \in {"r8", "h8", "r16", "r32", "r64"} |->
            CASE c = "r16" -> 16 [] c = "r32" -> 32 [] c = "r64" -> 64 [] OTHER -> 8]

sext(v, size) == ((v + 2^(Width[size] - 1)) % 2^Width[size]) - 2^(Width[size] - 1)
overflow_general(v, size) == size < 64 /\ (v >= 2^Width[size] \/ -v >= 2^Width[size])

---------------------------------------------------------------------------
(* The evaluator.  A vector is a function from the terms that are present. *)

add_vectors(e, q) ==
    LET both == DOMAIN e.vec \cap DOMAIN q
        sum == [t \in DOMAIN e.vec \cup DOMAIN q |->
                  (IF t \in DOMAIN e.vec THEN e.vec[t] ELSE 0)
                  + (IF t \in DOMAIN q THEN q[t] ELSE 0)]
    IN [e EXCEPT
          !.vec = [t \in {u \in DOMAIN sum : u \in both => sum[u] # 0} |-> sum[t]],
          !.hint.type = IF \E t \in both : sum[t] # 0 THEN "summed" ELSE @]

(* A register that comes first asks to be the base ...                     *)
expr6(e, t) ==
    IF t \notin {Simple, Segment} /\ e.hint.type = "none"
    THEN [e EXCEPT !.hint = [type |-> "makebase", base |-> t]] ELSE e
(* ... unless it is multiplied by a number.                                *)
scalar_mult(e, term) ==
    IF term.times /\ e.hint = [type |-> "makebase", base |-> term.t]
    THEN [e EXCEPT !.hint.type = "notbase"] ELSE e
evaluate(terms, hint) ==
    FoldLeft(LAMBDA e, term :
               add_vectors(scalar_mult(expr6(e, term.t), term),
                           [t \in {term.t} |-> term.k]),
             [vec |-> <<>>, hint |-> hint], terms)
NoHint == [type |-> "none", base |-> NoReg]

---------------------------------------------------------------------------
(* The parser.                                                             *)

init_operand == [b |-> NoReg, i |-> NoReg, s |-> 0, off |-> 0, known |-> TRUE,
                 error |-> FALSE]
parse_mref(vec) ==
    LET reg(o, r) ==
            CASE r.c \in gpr /\ vec[r] = 1 /\ o.b = NoReg -> [o EXCEPT !.b = r]
              [] ~(r.c \in gpr /\ vec[r] = 1 /\ o.b = NoReg) /\ o.i = NoReg ->
                    [o EXCEPT !.i = r, !.s = vec[r]]
              [] OTHER -> [o EXCEPT !.error = TRUE]
        present == SelectSeq(RegOrder, LAMBDA r : r \in DOMAIN vec /\ vec[r] # 0)
    IN [FoldLeft(reg, init_operand, present) EXCEPT
            !.off = IF Simple \in DOMAIN vec THEN vec[Simple] ELSE 0,
            !.known = Segment \notin DOMAIN vec]

(* [base+offset,index*scale]                                               *)
parse_mib(op, o2) ==
    LET x == IF o2.b # NoReg /\ o2.i = NoReg
             THEN [o2 EXCEPT !.i = o2.b, !.s = 1, !.b = NoReg] ELSE o2
    IN [op EXCEPT
          !.i = x.i, !.s = x.s,
          !.error = \/ op.error \/ x.error \/ op.i # NoReg \/ x.b # NoReg
                    \/ x.off # 0 \/ ~x.known,
          !.hint = CASE op.b # NoReg -> [type |-> "makebase", base |-> op.b]
                     [] op.b = NoReg /\ x.i # NoReg -> [type |-> "notbase", base |-> x.i]
                     [] OTHER -> NoHint]

(* rip is the type IP_REL; a negative scale fails the assertion.           *)
mref_set_optype(op, text, bits) ==
    [op EXCEPT
       !.rip = /\ op.b = NoReg /\ op.i = NoReg /\ bits = 64
               /\ "abs" \notin text.flags
               /\ "rel" \in text.flags \/ text.default_rel,
       !.error = @ \/ (op.i # NoReg /\ op.s <= 0)]

parse_address(text, bits) ==
    LET e == evaluate(text.terms, NoHint)
        op == parse_mref(e.vec) @@
              [k |-> "mem", hint |-> e.hint, rip |-> FALSE, flags |-> text.flags,
               disp |-> text.disp, bcast |-> text.bcast]
    IN mref_set_optype(
         IF text.index = <<>> THEN op
         ELSE parse_mib(op, parse_mref(evaluate(text.index, e.hint).vec)),
         text, bits)

---------------------------------------------------------------------------
(* The size of addresses: what the registers, the user and the mode allow. *)

add_asp(op, asize, bits) ==
    LET i == IF op.s = 0 THEN NoReg ELSE op.i
        mode == IF bits = 64 THEN {64, 32} ELSE {32, 16}
        asked == IF asize = 0 THEN mode ELSE {asize}
        sized == IF i = NoReg /\ op.b = NoReg
                 THEN IF (bits # 64 /\ op.disp > 8) \/ (bits = 64 /\ op.disp = 16)
                      THEN {op.disp} ELSE mode
                 ELSE {n \in mode : \A r \in {op.b, i} :
                                        r.c \in {"r16", "r32", "r64"} => n = SizeOf[r.c]}
        valid == mode \cap asked \cap sized
        other == IF bits = 32 THEN 16 ELSE 32
    IN [addr_size |-> IF bits \notin valid /\ other \in valid THEN other ELSE bits,
        prefix |-> bits \notin valid /\ other \in valid,
        error |-> bits \notin valid /\ other \notin valid]

(* REX bits a register needs where `mask' is the field it goes to.         *)
rexflags(r, mask) ==
    mask \cap
    ((IF r.n % 16 >= 8 THEN {"B", "X", "R"} ELSE {}) \cup
     (IF r.n >= 16 THEN {"B1", "X1", "R1"} ELSE {}) \cup
     (IF r.c \in vector THEN {"BV", "XV", "RV"} ELSE {}) \cup
     (IF r.c = "h8" THEN {"H"} ELSE {}) \cup
     (IF r.c = "r8" /\ r.n >= 4 THEN {"P"} ELSE {}))
REX_rB == {"B", "B1", "BV", "H", "P"}
REX_rX == {"X", "X1", "XV", "H", "P"}
REX_rR == {"R", "R1", "RV", "H", "P"}
RexOf(r, mask) == IF r = NoReg THEN {} ELSE rexflags(r, mask)

---------------------------------------------------------------------------
(* The coding of an operand.  `need' is the template's: the type of the    *)
(* index, and whether it wants a split or an explicit SIB; shift is that   *)
(* of compressed displacements.                                            *)

ESP == 4
EBP == 5
Invalid == [ok |-> FALSE]
Scales == {1, 2, 4, 8}
Ea(mod, rm, sib, bytes, rex) ==
    [ok |-> TRUE, mod |-> mod, rm |-> rm, sib |-> sib, bytes |-> bytes, rex |-> rex,
     rip |-> FALSE, disp8 |-> 0, disp8_ok |-> TRUE, type |-> "scalar"]

memory_mod(op, o, zerook, shift, asize) ==
    LET disp8 == sext(o \div 2^shift, 8)
        disp8_ok == op.known /\ disp8 * 2^shift = sext(o, asize)
    IN [mod |-> CASE "wordoffs" \in op.flags -> 2
                  [] "byteoffs" \in op.flags -> 1
                  [] {"wordoffs", "byteoffs"} \cap op.flags = {} /\ op.known /\ o = 0
                        /\ zerook -> 0
                  [] OTHER -> IF disp8_ok THEN 1 ELSE 2,
        disp8 |-> disp8, disp8_ok |-> disp8_ok]
With(ea, m) == [ea EXCEPT !.disp8 = m.disp8, !.disp8_ok = m.disp8_ok]

(* Register r/m.                                                           *)
ea_register(op) ==
    IF op.bcast THEN Invalid ELSE Ea(3, op.r.n % 8, <<>>, 0, rexflags(op.r, REX_rB))

(* No register.  An absolute number cannot be relative to rip.             *)
ea_offset(op, asize, bits, need) ==
    LET rip == op.rip /\ ~op.known
        bytes == IF asize # 16 THEN 4 ELSE 2
    IN IF rip /\ bits = 64 /\ need.sib THEN Invalid
       ELSE IF need.sib \/ (bits = 64 /\ ~rip)
            THEN Ea(0, 4, <<1, 4, 5>>, 4, {})
            ELSE [Ea(0, IF asize # 16 THEN 5 ELSE 6, <<>>, bytes, {})
                    EXCEPT !.rip = bits = 64]

(* Base and index of 32 or 64 bits; the index may be a vector.             *)
Sib(base, index, scale, op, o, shift, asize) ==
    LET m == memory_mod(op, o, base.n % 8 # EBP, shift, asize)
        rex == RexOf(index, REX_rX) \cup RexOf(base, REX_rB)
        x == IF index = NoReg THEN ESP ELSE index.n % 8
    IN IF base = NoReg THEN Ea(0, 4, <<scale, x, EBP>>, 4, rex)
       ELSE With(Ea(m.mod, 4, <<scale, x, base.n % 8>>,
                    IF m.mod = 2 THEN 4 ELSE m.mod, rex), m)

ea_vector(op, i, o, shift, asize) ==
    IF \/ op.b # NoReg /\ op.b.c \notin {"r32", "r64"}
       \/ op.b # NoReg /\ SizeOf[op.b.c] # asize
       \/ op.disp \in {16, 64} \/ asize = 16 \/ op.s \notin Scales
    THEN Invalid
    ELSE [Sib(op.b, i, op.s, op, o, shift, asize) EXCEPT !.type = i.c]

(* The reorganization of base and index, one step after the other.         *)
Hinted(op, i) ==
    LET f == [bt |-> op.b, it |-> i, s |-> op.s]
    IN IF /\ f.s = 1 /\ f.bt # NoReg /\ f.it # NoReg /\ f.bt.n # f.it.n
          /\ \/ op.hint = [type |-> "notbase", base |-> op.b]
             \/ op.hint = [type |-> "makebase", base |-> i]
       THEN [f EXCEPT !.bt = f.it, !.it = f.bt] ELSE f
SingleBase(f, op, i) ==
    IF f.bt = NoReg /\ f.s = 1 /\ op.hint # [type |-> "notbase", base |-> i]
    THEN [f EXCEPT !.bt = f.it, !.it = NoReg] ELSE f
Explicit(f) == [bt |-> NoReg, it |-> f.bt, s |-> 1]
Halved(f) == [f EXCEPT !.bt = f.it, !.s = @ - 1]
SplitMib(f, op) ==
    LET g == IF f.it = NoReg /\ op.hint = [type |-> "notbase", base |-> op.b]
             THEN Explicit(f) ELSE f
    IN IF op.hint.type = "summed" /\ g.bt = NoReg THEN Halved(g) ELSE g
Split(f, op) ==
    LET nosplit == "nosplit" \in op.flags
        g == IF /\ f.bt = NoReg
                /\ \/ /\ f.s = 2 /\ f.it.n # ESP
                      /\ ~nosplit \/ op.hint.type = "summed"
                   \/ f.s \in {3, 5, 9}
             THEN Halved(f) ELSE f
    IN IF /\ g.it = NoReg /\ g.bt.n % 8 # ESP /\ nosplit
          /\ op.hint = [type |-> "notbase", base |-> op.b]
       THEN Explicit(g) ELSE g
EspStaysIndex(f) == f
EspIsBase(f) ==
    IF f.s = 1 /\ f.it # NoReg /\ f.it.n = ESP
    THEN [f EXCEPT !.bt = f.it, !.it = f.bt] ELSE f

ea_indirect(op, i, o, shift, asize, need) ==
    LET hinted == SingleBase(Hinted(op, i), op, i)
        f == EspIsBase(IF need.mib THEN SplitMib(hinted, op) ELSE Split(hinted, op))
        m == memory_mod(op, o, f.bt.n % 8 # EBP, shift, asize)
    IN IF \/ i # NoReg /\ i.c \notin {"r32", "r64"}
          \/ op.b # NoReg /\ op.b.c \notin {"r32", "r64"}
          \/ \E r \in {op.b, i} \ {NoReg} : SizeOf[r.c] # asize
          \/ op.disp \in {16, 64} \/ asize = 16
          \/ f.it # NoReg /\ (f.it.n = ESP \/ f.s \notin Scales)
       THEN Invalid
       ELSE IF f.it = NoReg /\ f.bt.n % 8 # ESP /\ ~need.sib
            THEN With(Ea(m.mod, f.bt.n % 8, <<>>, IF m.mod = 2 THEN 4 ELSE m.mod,
                         rexflags(f.bt, REX_rB)), m)
            ELSE Sib(f.bt, f.it, IF f.it = NoReg THEN 1 ELSE f.s, op, o, shift, asize)

(* 16-bit addresses: BX or BP, SI or DI, or both.                          *)
BX == Reg("r16", 3)
BP == Reg("r16", 5)
SI == Reg("r16", 6)
DI == Reg("r16", 7)
Pairs == <<{BX, SI}, {BX, DI}, {BP, SI}, {BP, DI}, {SI}, {DI}, {BP}, {BX}>>
ea_16bit(op, i, o, shift, asize) ==
    LET regs == {op.b, i} \ {NoReg}
        rm == {n \in 0..7 : Pairs[n + 1] = regs}
    IN IF \/ asize = 64 \/ rm = {} \/ op.disp \in {32, 64}
          \/ i # NoReg /\ (op.s # 1 \/ i = op.b)
       THEN Invalid
       ELSE LET n == CHOOSE x \in rm : TRUE
                m == memory_mod(op, o, n # 6, shift, asize)
            IN With(Ea(m.mod, n, <<>>, m.mod, {}), m)

OfType(ea, type) == IF ea.ok /\ ea.type # type THEN Invalid ELSE ea
process_ea(op, asize, bits, shift, need) ==
    LET i == IF op.s = 0 THEN NoReg ELSE op.i
        wide == {"r32", "r64"} \cap {op.b.c, i.c} # {}
    IN OfType(CASE op.k = "reg" -> ea_register(op)
                [] op.k = "mem" /\ op.b = NoReg /\ i = NoReg ->
                      ea_offset(op, asize, bits, need)
                [] op.k = "mem" /\ i.c \in vector ->
                      ea_vector(op, i, sext(op.off, 32), shift, asize)
                [] op.k = "mem" /\ i.c \notin vector /\ wide ->
                      ea_indirect(op, i, sext(op.off, 32), shift, asize, need)
                [] OTHER -> ea_16bit(op, i, sext(op.off, 16), shift, asize), need.type)

---------------------------------------------------------------------------
(* The bytes; `end' is the address behind the instruction.                 *)

Byte(v) == [n |-> 1, v |-> v, f |-> <<>>]
Num(bytes, v) == [n |-> bytes, v |-> v % 2^Width[8 * bytes], f |-> <<>>]
Payload(bytes, f) == [n |-> bytes, v |-> 0, f |-> f]   \* the fields of a prefix
Log2 == [s \in Scales |-> CASE s = 1 -> 0 [] s = 2 -> 1 [] s = 4 -> 2 [] OTHER -> 3]

ea_size(ea) == 1 + Len(ea.sib) \div 3 + ea.bytes
ea_bytes(ea, rfield, op, end) ==
    <<Byte(64 * ea.mod + 8 * (rfield % 8) + ea.rm)>>
    \o (IF ea.sib = <<>> THEN <<>>
        ELSE <<Byte(64 * Log2[ea.sib[1]] + 8 * ea.sib[2] + ea.sib[3])>>)
    \o (CASE ea.bytes = 0 -> <<>>
          [] ea.bytes = 1 -> <<Num(1, ea.disp8)>>
          [] OTHER -> <<Num(ea.bytes, op.off - (IF ea.rip THEN end ELSE 0))>>)
ea_overflow(ea, op, asize) ==
    CASE ea.bytes = 0 -> FALSE
      [] ea.bytes = 1 -> ~ea.disp8_ok
      [] OTHER -> /\ ~ea.rip
                  /\ \/ overflow_general(op.off, asize)
                     \/ sext(op.off, asize) # sext(op.off, 8 * ea.bytes)
---------------------------------------------------------------------------
(* The shift of a compressed displacement, from the tuple type of the      *)
(* template and the fields of the EVEX prefix.                             *)
get_disp8_shift(tuple, evex) ==
    LET full == [FV |-> 4, HV |-> 3, FVM |-> 4, HVM |-> 3, QVM |-> 2, OVM |-> 1]
        fixed == [none |-> 0, T1S8 |-> 0, T1S16 |-> 1, T1F32 |-> 2, T1F64 |-> 3,
                  M128 |-> 4]
        scalar == [T1S |-> 2, T2 |-> 3, T4 |-> 4, T8 |-> 5]
    IN CASE tuple = "DUP" -> IF evex.ll = 0 THEN 3 ELSE evex.ll + 4
         [] tuple \in {"FV", "HV"} /\ evex.b -> 2 + evex.w
         [] tuple \in DOMAIN full /\ ~(tuple \in {"FV", "HV"} /\ evex.b) ->
               evex.ll + full[tuple]
         [] tuple \in DOMAIN fixed -> fixed[tuple]
         [] tuple \in DOMAIN scalar -> scalar[tuple] + evex.w

---------------------------------------------------------------------------
(* The disassembler: `data' begins with the ModRM byte, `rex' has the      *)
(* extensions of the fields, and regsize the size of addresses.            *)

NoEa == [ok |-> FALSE]
Displacement(bytes, data, shift) ==
    IF bytes = 0 THEN 0 ELSE sext(data[1].v, 8 * bytes) * 2^shift
ReadEa(b, i, s, bytes, rip, data, shift) ==
    IF bytes > 0 /\ (data = <<>> \/ Head(data).n # bytes) THEN NoEa
    ELSE [ok |-> TRUE, b |-> b, i |-> i, s |-> s, rip |-> rip,
          off |-> Displacement(bytes, data, IF bytes = 1 THEN shift ELSE 0),
          data |-> IF bytes = 0 THEN data ELSE Tail(data)]

do_ea16(mod, rm, data, type, shift) ==
    LET direct == mod = 0 /\ rm = 6
        base == CASE direct -> NoReg [] rm \in {0, 1, 7} -> BX
                  [] rm \in {2, 3, 6} /\ ~direct -> BP [] rm = 4 -> SI [] rm = 5 -> DI
        index == CASE rm \in {0, 2} -> SI [] rm \in {1, 3} -> DI [] OTHER -> NoReg
    IN IF type # "scalar" THEN NoEa
       ELSE ReadEa(base, index, 1, IF direct THEN 2 ELSE mod, FALSE, data, shift)

do_ea32(mod, rm, data, bits, asize, type, rex, shift) ==
    LET regs == IF asize = 64 THEN "r64" ELSE "r32"
        sib == IF rm = 4 THEN data[1].v ELSE 0
        x == (sib \div 8) % 8
        b == IF rm = 4 THEN sib % 8 ELSE rm
        index == CASE rm # 4 -> NoReg
                   [] rm = 4 /\ type # "scalar" -> Reg(type, x + rex.xregxv)
                   [] OTHER -> IF x + rex.xreg = 4 THEN NoReg ELSE Reg(regs, x + rex.xreg)
        direct == b = 5 /\ mod = 0
    IN IF rm # 4 /\ type # "scalar" THEN NoEa
       ELSE ReadEa(IF direct THEN NoReg ELSE Reg(regs, b + rex.breg), index,
                   2^(sib \div 64), CASE direct \/ mod = 2 -> 4 [] OTHER -> mod,
                   direct /\ rm # 4 /\ bits = 64,
                   IF rm = 4 THEN Tail(data) ELSE data, shift)

do_ea(data, bits, asize, type, rex, shift) ==
    LET mod == Head(data).v \div 64
        rm == Head(data).v % 8
    IN CASE mod = 3 -> [ok |-> TRUE, rm |-> rm, data |-> Tail(data)]
         [] mod # 3 /\ asize = 16 -> do_ea16(mod, rm, Tail(data), type, shift)
         [] OTHER -> do_ea32(mod, rm, Tail(data), bits, asize, type, rex, shift)
=============================================================================
