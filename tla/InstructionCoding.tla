-------------------------- MODULE InstructionCoding --------------------------
(***************************************************************************)
(* The way of one instruction through nasm and back through ndisasm: its   *)
(* operands are parsed, its size is computed (insn_size), its code is      *)
(* generated (assemble), and the code is disassembled.  The template is    *)
(* part of the line; how matches() of asm/assemble.c finds it is left out. *)
(***************************************************************************)
EXTENDS InstructionEncoder, FiniteSets

CONSTANTS
    Templates,  \* the instruction table
    Lines,      \* instructions: the mode, the template, the operands
    Origin      \* the address of the instruction

D == INSTANCE InstructionDecoder

VARIABLES coding, line, ins, emitted, decoded
vars == <<coding, line, ins, emitted, decoded>>

NoInsn == [failed |-> FALSE]

Begin(l) ==
    /\ coding = "line"
    /\ line = l
    /\ ins = NoInsn
    /\ emitted = [bytes |-> <<>>]
    /\ decoded = {}
Init == \E l \in Lines : Begin(l)

(* parse_line: the operands.                                               *)
Parsed(text) ==
    IF text.k = "mem" THEN parse_address(text, line.bits) ELSE text
Parse ==
    /\ coding = "line"
    /\ coding' = "parsed"
    /\ ins' = [bits |-> line.bits, itemp |-> line.itemp, prefixes |-> line.prefixes,
               deco |-> line.deco, opmask |-> line.opmask, evex_rm |-> line.evex_rm,
               oprs |-> [i \in DOMAIN line.oprs |-> Parsed(line.oprs[i])],
               rex |-> {}, need_pfx |-> [p \in PPS |-> 0], op_size |-> 0, opt_opsize |-> {},
               addr_size |-> line.bits, vexreg |-> 0, veximm |-> 0, vex_cm |-> 0,
               vex_wlp |-> [w |-> 0, l |-> 0, p |-> 0], evex |-> [b |-> FALSE, w |-> 0, ll |-> 0],
               evex_tuple |-> "none", eat |-> "scalar", mib_index |-> NoReg,
               ea |-> Invalid, length |-> 0,
               failed |-> \E i \in DOMAIN line.oprs : Parsed(line.oprs[i]).error]
    /\ UNCHANGED <<line, emitted, decoded>>

(* insn_size: add_asp, then calcsize.                                      *)
AsizeOf(pfx, bits) ==
    CASE pfx = "a16" -> 16 [] pfx = "a32" -> 32 [] pfx = "a64" -> 64
      [] pfx = "asp" -> IF bits = 32 THEN 16 ELSE 32 [] OTHER -> 0
MemoryOf(oprs) ==
    LET mem == SelectSeq(oprs, LAMBDA o : o.k = "mem")
    IN IF mem = <<>> THEN [init_operand EXCEPT !.error = FALSE] @@ [disp |-> 0]
       ELSE Head(mem)
Size ==
    /\ coding = "parsed"
    /\ LET asp == add_asp(MemoryOf(ins.oprs), AsizeOf(ins.prefixes["ASIZE"], ins.bits),
                          ins.bits)
           sized == [ins EXCEPT !.addr_size = asp.addr_size,
                                !.prefixes["ASIZE"] =
                                    IF ~asp.prefix THEN @
                                    ELSE IF ins.bits = 32 THEN "a16" ELSE "a32"]
       IN IF ins.failed \/ asp.error
          THEN coding' = "rejected" /\ UNCHANGED ins
          ELSE /\ ins' = calcsize(sized)
               /\ coding' = IF ins'.failed THEN "rejected" ELSE "sized"
    /\ UNCHANGED <<line, emitted, decoded>>

(* assemble: gencode.                                                      *)
Generate ==
    /\ coding = "sized"
    /\ emitted' = gencode(ins, Origin)
    /\ coding' = IF emitted'.failed THEN "rejected" ELSE "generated"
    /\ UNCHANGED <<line, ins, decoded>>

(* disasm, up to the choice between matches that are equally good.         *)
Show ==
    /\ coding = "generated"
    /\ decoded' = D!disasm(emitted.bytes, line.bits, Templates)
    /\ coding' = "shown"
    /\ UNCHANGED <<line, ins, emitted>>

Next == Parse \/ Size \/ Generate \/ Show
Spec == Init /\ [][Next]_vars

-----------------------------------------------------------------------------
(* Addresses as the processor computes them.                               *)

LinearForm(b, i, s) ==
    [r \in {b, i} \ {NoReg} |->
        (IF r = b THEN 1 ELSE 0) + (IF r = i THEN s ELSE 0)]
Terms(text) ==
    LET all == text.terms \o text.index
        count(r) == FoldLeft(LAMBDA n, t : n + (IF t.t = r THEN t.k ELSE 0), 0, all)
    IN [r \in {all[n].t : n \in DOMAIN all} |-> count(r)]
Registers(text) ==
    LET f == Terms(text)
    IN [r \in {x \in DOMAIN f : x \notin {Simple, Segment} /\ f[x] # 0} |-> f[r]]
Encodable(text, bits) ==
    LET f == Registers(text)
        regs == DOMAIN f
        size == SizeOf[(CHOOSE r \in regs : TRUE).c]
    IN regs # {} =>
         /\ \A r \in regs : r.c \in {"r16", "r32", "r64"} /\ SizeOf[r.c] = size
         /\ size \in (IF bits = 64 THEN {32, 64} ELSE {16, 32})
         /\ IF size = 16 THEN \E n \in 1..8 : f = LinearForm(NoReg, NoReg, 0) @@ [r \in Pairs[n] |-> 1]
            ELSE \E b \in regs \cup {NoReg}, i \in regs \cup {NoReg}, s \in Scales :
                    (i = NoReg \/ i.n # ESP) /\ f = LinearForm(b, i, s)
Mod(v, size) == v % 2^Width[size]
SameAddress(text, op, asize) ==
    LET f == Terms(text)
        off == IF Simple \in DOMAIN f THEN f[Simple] ELSE 0
        shown == op.off + (IF op.rip THEN Origin + ins.length ELSE 0)
    IN /\ Registers(text) = LinearForm(op.b, op.i, op.s)
       /\ Mod(off, IF asize = 16 THEN 16 ELSE 32) = Mod(shown, IF asize = 16 THEN 16 ELSE 32)

Accepted == coding \in {"generated", "shown"}
PlainLoad == line.itemp.opcode = "mov" /\ line.oprs[2].k = "mem" /\ line.itemp.opd[2].c = "r32"
             /\ line.prefixes = Unprefixed

(* A sum of registers is accepted if and only if the processor can compute *)
(* it, and what is shown computes the same address: splitting eax*2, a     *)
(* hint that changes base and index, a displacement cut to a byte and an   *)
(* address relative to rip never change where the instruction reads.       *)
AddressesSurvive ==
    PlainLoad =>
       /\ coding = "rejected" /\ line.oprs[2].disp \in {0, 8} => ~Encodable(line.oprs[2], line.bits)
       /\ Accepted => Encodable(line.oprs[2], line.bits)
       /\ coding = "shown" /\ ~emitted.warned =>
             \A d \in decoded : SameAddress(line.oprs[2], d.oprs[2], ins.addr_size)

(* What ndisasm cannot read back, each shown by a run of its own or listed *)
(* in the README: CR8 as LOCK CR0, a VEX prefix of two bytes in 16- and    *)
(* 32-bit mode whose register is not one of the first four, and of EVEX a  *)
(* compressed displacement, broadcasting and rounding, and an index beyond *)
(* the first 16 registers.                                                 *)
Cr8ByLock == line.bits # 64 /\ {"L", "R"} \subseteq ins.rex
LooksLikeLds ==
    line.bits # 64 /\ "V" \in ins.rex /\ ~Vex3(ins) /\ ins.vexreg >= 4
Compressed == "EV" \in ins.rex /\ ins.ea.bytes = 1
HiddenEvex ==
    "EV" \in ins.rex /\ (ins.evex.b \/ {"X1", "XV"} \subseteq ins.rex)
Written ==
    ({line.prefixes[p] : p \in {"LOCK", "REP"}} \ {"none"})
    \cup (IF line.prefixes["OSIZE"] # "osp" THEN {}
          ELSE IF line.bits = 16 THEN {"o32"} ELSE {"o16"})
SameOperand(given, shown) ==
    CASE given.k = "reg" -> shown.k = "reg" /\ shown.r = given.r
      [] given.k = "imm" ->
            /\ shown.k = "imm"
            /\ Mod(given.v, shown.upto)
               = Mod(shown.v + (IF shown.rel THEN Origin + ins.length ELSE 0), shown.upto)
      [] given.k = "mem" /\ "terms" \in DOMAIN given -> 
            \/ shown.k = "mem" /\ SameAddress(given, shown, ins.addr_size)
            \/ shown.k = "imm" /\ Mod(shown.v - Terms(given)[Simple], ins.addr_size) = 0

(* An instruction that was assembled without a warning has as many bytes   *)
(* as the pass that placed the labels counted, and the disassembler, which *)
(* walks the same byte codes the other way, shows nothing but this         *)
(* instruction with its operands and prefixes.                             *)
InstructionsSurvive ==
    /\ coding = "shown" /\ ~emitted.warned =>
          FoldLeft(LAMBDA n, item : n + item.n, 0, emitted.bytes) = ins.length
    /\ coding = "shown" /\ ~emitted.warned
       /\ ~Cr8ByLock /\ ~LooksLikeLds /\ ~Compressed /\ ~HiddenEvex =>
          /\ decoded # {}
          /\ \A d \in decoded :
                /\ d.opcode = line.itemp.opcode
                /\ d.rest = <<>>
                /\ d.prefixes = Written
                /\ \A i \in DOMAIN line.oprs : SameOperand(line.oprs[i], d.oprs[i])

(* ndisasm shares the instruction table with nasm (doc/ndisasm.src): what  *)
(* was coded with a VEX prefix is found in it.  But outside 64-bit mode    *)
(* parse_prefixes demands of C5 that bit 5 of the next byte be set as for  *)
(* C4 and 62, and there it is a bit of the register.                       *)
VexIsShown ==
    coding = "shown" /\ ~emitted.warned /\ "V" \in ins.rex => decoded # {}

(* disp8.h promises one shift of compressed displacements, "disp8 << shift" *)
(* (src/include/disp8.h); the disassembler computes it from EVEX fields    *)
(* that it never sets.                                                     *)
DisplacementsAreScaled ==
    coding = "shown" /\ ~emitted.warned /\ Compressed =>
       \A d \in decoded : \A i \in DOMAIN line.oprs :
          line.oprs[i].k = "mem" => SameAddress(line.oprs[i], d.oprs[i], ins.addr_size)
=============================================================================
