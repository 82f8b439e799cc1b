---------------------------- MODULE MCTemplates ----------------------------
(* Templates of x86/insns.dat, one or more of each way of coding, and lines *)
(* for them: many addresses for a plain load, and the other instructions   *)
(* with low, high and special registers, in every mode that has them.      *)
EXTENDS InstructionEncoder

MCWidth == [size \in {8, 16, 32, 64} |->
              CASE size = 8 -> 8 [] size = 16 -> 16 [] size = 32 -> 24 [] size = 64 -> 28]

-----------------------------------------------------------------------------
(* Templates.                                                              *)
Gpr(c) == [c |-> c, memory |-> FALSE, moffs |-> FALSE, implicit |-> NoReg]
Rm(c) == [Gpr(c) EXCEPT !.memory = TRUE]
Only(c, n) == [Gpr(c) EXCEPT !.implicit = Reg(c, n)]
Moffs == [Gpr("none") EXCEPT !.memory = TRUE, !.moffs = TRUE]
Imm == Gpr("none")
Memory == Rm("none")
Template(opcode, opd, code, flags) ==
    [opcode |-> opcode, opd |-> opd, code |-> code, flags |-> flags, deco |-> {}]

MovLoad == Template("mov", <<Gpr("r32"), Rm("r32")>>,
                    <<<<\o321>>, <<1, \h8b>>, <<\o110>>>>, {})
MovByte == Template("mov", <<Rm("r8"), Gpr("r8")>>,
                    <<<<\o271>>, <<1, \h88>>, <<\o101>>>>, {})
MovWord == Template("mov", <<Rm("r16"), Gpr("r16")>>,
                    <<<<\o271>>, <<\o320>>, <<1, \h89>>, <<\o101>>>>, {})
MovQuad == Template("mov", <<Gpr("r64"), Rm("r64")>>,
                    <<<<\o324>>, <<1, \h8b>>, <<\o110>>>>, {"LONG"})
MovImm32 == Template("mov", <<Gpr("r32"), Imm>>,
                     <<<<\o321>>, <<\o010, \hb8>>, <<\o041>>>>, {})
MovImm64 == Template("mov", <<Gpr("r64"), Imm>>,
                     <<<<\o324>>, <<\o010, \hb8>>, <<\o055>>>>, {"LONG"})
MovSigned == Template("mov", <<Rm("r64"), Imm>>,
                      <<<<\o324>>, <<1, \hc7>>, <<\o200>>, <<\o255>>>>, {"LONG"})
AddByte == Template("add", <<Rm("r32"), Imm>>,
                    <<<<\o273>>, <<\o321>>, <<1, \h83>>, <<\o200>>, <<\o275>>>>, {"LOCK"})
AddWord == Template("add", <<Rm("r16"), Imm>>,
                    <<<<\o273>>, <<\o320>>, <<1, \h81>>, <<\o200>>, <<\o031>>>>, {"LOCK"})
Push(c, osize, flags) ==
    Template("push", <<Gpr(c)>>, <<<<\o327>>, <<osize>>, <<\o010, \h50>>>>, flags)
MovOffset == Template("mov", <<Only("r32", 0), Moffs>>,
                      <<<<\o321>>, <<1, \ha1>>, <<\o045>>>>, {"NOAPX"})
Addps == Template("addps", <<Gpr("xmm"), Rm("xmm")>>,
                  <<<<\o360>>, <<\o355>>, <<1, \h58>>, <<\o110>>>>, {})
Addsd == Template("addsd", <<Gpr("xmm"), Rm("xmm")>>,
                  <<<<\o332>>, <<\o355>>, <<1, \h58>>, <<\o110>>>>, {})
Pshufb == Template("pshufb", <<Gpr("xmm"), Rm("xmm")>>,
                   <<<<\o361>>, <<\o356>>, <<1, \h00>>, <<\o110>>>>, {"NOAPX"})
Pinsrb == Template("pinsrb", <<Gpr("xmm"), Rm("r32"), Imm>>,
                   <<<<\o325>>, <<\o361>>, <<\o357>>, <<1, \h20>>, <<\o110>>, <<\o026>>>>,
                   {"NOAPX"})
Vaddps == Template("vaddps", <<Gpr("xmm"), Gpr("xmm"), Rm("xmm")>>,
                   <<<<\o261, 1, 0, 0, 0>>, <<1, \h58>>, <<\o120>>>>, {"WIG", "NOAPX"})
Andn(c, w, flags) ==
    Template("andn", <<Gpr(c), Gpr(c), Rm(c)>>,
             <<<<\o261, 2, w, 0, 0>>, <<1, \hf2>>, <<\o120>>>>, flags)
Vgather == Template("vgatherdps", <<Gpr("xmm"), Memory, Gpr("xmm")>>,
                    <<<<\o374>>, <<\o262, 2, 0, 0, 1>>, <<1, \h92>>, <<\o110>>>>, {})
Vblendv == Template("vblendvps", <<Gpr("xmm"), Gpr("xmm"), Rm("xmm"), Gpr("xmm")>>,
                    <<<<\o261, 3, 0, 0, 1>>, <<1, \h4a>>, <<\o120>>, <<\o177>>>>, {})
Evex(t) == [t EXCEPT !.deco = {"mask", "z"}]
EvexAdd(c, ll) ==
    Evex(Template("vaddps", <<Gpr(c), Gpr(c), Rm(c)>>,
                  <<<<\o241, 1, 0, ll, 0, "FV">>, <<\o301>>, <<1, \h58>>, <<\o120>>>>, {}))
EvexMax == Evex(Template("vmaxps", <<Gpr("zmm"), Gpr("zmm"), Rm("zmm")>>,
                         <<<<\o241, 1, 0, 2, 0, "FV">>, <<\o301>>, <<1, \h5f>>, <<\o120>>>>, {}))
EvexMov == Evex(Template("vmovaps", <<Gpr("zmm"), Rm("zmm")>>,
                         <<<<\o250, 1, 0, 2, 0, "FVM">>, <<\o303>>, <<1, \h28>>, <<\o110>>>>, {}))
EvexGather == [Template("vgatherdps", <<Gpr("xmm"), Memory>>,
                        <<<<\o374>>, <<\o250, 2, 0, 0, 1, "T1S">>, <<\o306>>, <<1, \h92>>, <<\o110>>>>,
                        {}) EXCEPT !.deco = {"mask"}]
MovCr32 == Template("mov", <<Gpr("creg"), Gpr("r32")>>,
                    <<<<\o334>>, <<\o355>>, <<1, \h22>>, <<\o110>>>>, {"NOLONG"})
MovCr64 == Template("mov", <<Gpr("creg"), Gpr("r64")>>,
                    <<<<\o323>>, <<\o355>>, <<1, \h22>>, <<\o110>>>>, {"LONG"})
Jcxz(name, asize, osize, flags) ==
    Template(name, <<Imm>>, <<<<asize>>, <<\o327>>, <<osize>>, <<1, \he3>>, <<\o050>>>>, flags)
Jmp(osize, flags) ==
    Template("jmp", <<Imm>>, <<<<\o327>>, <<osize>>, <<1, \he9>>, <<\o064>>>>, flags)
Cmpxchg16b == Template("cmpxchg16b", <<Memory>>,
                       <<<<\o324>>, <<\o355>>, <<1, \hc7>>, <<\o201>>>>, {"LONG", "LOCK"})
Lzcnt(c, osize) == Template("lzcnt", <<Gpr(c), Rm(c)>>,
                            <<<<osize>>, <<\o333>>, <<\o355>>, <<1, \hbd>>, <<\o110>>>>, {})
Bsr == Template("bsr", <<Gpr("r32"), Rm("r32")>>,
                <<<<\o321>>, <<\o326>>, <<\o355>>, <<1, \hbd>>, <<\o110>>>>, {})
Bswap == Template("bswap", <<Gpr("r64")>>, <<<<\o324>>, <<\o355>>, <<\o010, \hc8>>>>, {"LONG"})
Movzx == Template("movzx", <<Gpr("r32"), Rm("r8")>>,
                  <<<<\o321>>, <<\o355>>, <<1, \hb6>>, <<\o110>>>>, {})
Bndldx == Template("bndldx", <<Gpr("bnd"), Memory>>,
                   <<<<\o355>>, <<1, \h1a>>, <<\o110>>>>, {"MIB"})
Tileload == Template("tileloadd", <<Gpr("tmm"), Memory>>,
                     <<<<\o270, 2, 0, 0, 3>>, <<1, \h4b>>, <<\o110>>>>,
                     {"SIB", "MIB", "LONG", "NOAPX"})
Tilezero == Template("tilezero", <<Gpr("tmm")>>,
                     <<<<\o270, 2, 0, 0, 3>>, <<1, \h49>>, <<\o171, \o300>>>>, {"LONG", "NOAPX"})
Nop == Template("nop", <<>>, <<<<\o330>>, <<\o314>>, <<\o326>>, <<1, \h90>>>>, {})
Pause == Template("pause", <<>>, <<<<\o330>>, <<\o333>>, <<1, \h90>>>>, {})
PushByte == Template("push", <<Imm>>, <<<<\o327>>, <<\o330>>, <<1, \h6a>>, <<\o274>>>>, {})
Pusha == Template("pusha", <<>>, <<<<\o342>>, <<1, \h60>>>>, {"NOLONG"})
Enter == Template("enter", <<Imm, Imm>>,
                  <<<<\o327>>, <<\o342>>, <<1, \hc8>>, <<\o030>>, <<\o025>>>>, {})
Fclex == Template("fclex", <<>>, <<<<\o341>>, <<2, \hdb, \he2>>>>, {})
Adox == Template("adox", <<Gpr("r32"), Rm("r32")>>,
                 <<<<\o333>>, <<\o364>>, <<\o317>>, <<\o356>>, <<1, \hf6>>, <<\o110>>>>, {"NOAPX"})
PushWide == Template("push", <<Imm>>, <<<<\o327>>, <<\o324>>, <<1, \h68>>, <<\o254>>>>, {"LONG"})
MovToSeg(c, osize) == Template("mov", <<Gpr("sreg"), Rm(c)>>,
                               <<<<\o336>>, <<osize>>, <<1, \h8e>>, <<\o110>>>>, {})
Movrs == Template("movrs", <<Gpr("r32"), Memory>>,
                  <<<<\o321>>, <<\o331>>, <<\o356>>, <<1, \h8b>>, <<\o110>>>>, {"NOAPX"})
VgatherY == Template("vgatherqpd", <<Gpr("ymm"), Memory, Gpr("ymm")>>,
                     <<<<\o375>>, <<\o262, 2, 1, 1, 1>>, <<1, \h93>>, <<\o110>>>>, {"NOAPX"})
Interrupt == Template("int", <<Imm>>, <<<<1, \hcd>>, <<\o024>>>>, {})
StoreOffset == Template("mov", <<Moffs, Only("r8", 0)>>, <<<<1, \ha2>>, <<\o044>>>>, {"NOAPX"})

-----------------------------------------------------------------------------
(* Operands.                                                               *)
R(c, n) == [k |-> "reg", r |-> Reg(c, n), size |-> 0, bcast |-> FALSE, error |-> FALSE]
I(v, size) == [k |-> "imm", v |-> v, size |-> size, bcast |-> FALSE, error |-> FALSE]
Term(r, k) == [t |-> r, k |-> k, times |-> k # 1]
Once(r) == [t |-> r, k |-> 1, times |-> TRUE]
N(v) == Term(Simple, v)
Address(terms, index, flags, disp) ==
    [k |-> "mem", terms |-> terms, index |-> index, flags |-> flags, disp |-> disp,
     default_rel |-> FALSE, bcast |-> FALSE, size |-> 0]
M(terms) == Address(terms, <<>>, {}, 0)
Line(bits, itemp, oprs) ==
    [bits |-> bits, itemp |-> itemp, oprs |-> oprs, prefixes |-> Unprefixed,
     deco |-> {}, opmask |-> 0, evex_rm |-> 0]
With_(lines, slot, pfx) == {[l EXCEPT !.prefixes[slot] = pfx] : l \in lines}

-----------------------------------------------------------------------------
(* Addresses.                                                              *)
Regs(c) == CASE c = "r16" -> {Reg(c, n) : n \in {0, 3, 5, 6, 7}}
             [] c = "r32" -> {Reg(c, n) : n \in {0, 4, 5}}
             [] c = "r64" -> {Reg(c, n) : n \in {0, 4, 5, 12, 13, 20}}
MCRegOrder == <<Reg("r16", 0), Reg("r16", 5), Reg("r16", 3), Reg("r16", 7), Reg("r32", 0), Reg("r32", 5),
                Reg("r32", 3), Reg("r32", 4), Reg("xmm", 1), Reg("xmm", 12), Reg("xmm", 20), Reg("ymm", 1),
                Reg("r64", 12), Reg("r64", 13), Reg("r64", 20), Reg("r64", 0), Reg("r64", 5),
                Reg("r64", 4), Reg("r16", 6)>>
Offsets == {0, 5, 127, 128, -128, -129, 65533, 65541, 2^24 - 1, 2^24 + 2}
Scaled(c, ks) == UNION {{Term(r, k) : k \in ks} : r \in Regs(c)}
Wide(c) ==
    {<<t>> : t \in Scaled(c, 1..9) \cup {Once(r) : r \in Regs(c)}}
    \cup {<<Term(b, 1), x>> : b \in Regs(c), x \in Scaled(c, {1, 2, 3, 8})
                                                 \cup {Once(r) : r \in Regs(c)}}
    \cup {<<x, Term(b, 1)>> : b \in Regs(c), x \in Scaled(c, {2})
                                                 \cup {Once(r) : r \in Regs(c)}}
    \cup {<<Once(r), Once(s)>> : r, s \in Regs(c)}
    \cup {<<Term(r, 2), Term(s, 2)>> : r, s \in Regs(c)}
Narrow == {<<t>> : t \in Scaled("r16", {1, 2})}
          \cup {<<Term(r, 1), Term(s, 1)>> : r, s \in Regs("r16")}
Loads(bits, sums, numbers, words) ==
    {Line(bits, MovLoad, <<R("r32", 0), Address(sum \o number, <<>>, w[1], w[2])>>) :
       sum \in sums, number \in numbers, w \in words}
(* What is written between the brackets in front of the sum.               *)
Plain == <<{}, 0>>
Nosplit == <<{"nosplit"}, 0>>
ByteOffset == <<{"byteoffs"}, 8>>
Sized == {<<{"wordoffs"}, size>> : size \in {16, 32, 64}}
Number == {<<N(v)>> : v \in Offsets}
Few == {<<>>, <<N(5)>>}
AddressLines ==
    Loads(32, Wide("r32") \cup Narrow, Few, {Plain})
    \cup Loads(64, Wide("r64"), {<<>>}, {Plain})
    \cup Loads(64, {<<Term(b, 1), x>> : b \in Regs("r64"), x \in Scaled("r64", {2})},
               Few, {Nosplit, ByteOffset})
    \cup Loads(64, Wide("r32"), {<<>>}, {Plain})
    \cup Loads(16, Narrow \cup Wide("r32"), {<<>>}, {Plain})
    \cup Loads(32, Wide("r32"), {<<>>, <<N(1), N(2)>>}, {Nosplit})
    \cup Loads(32, {<<Term(r, 1)>> : r \in Regs("r32")} \cup {<<Term(r, 2)>> : r \in Regs("r32")}
                   \cup {<<>>, <<Term(BX, 1)>>, <<Term(BP, 1)>>},
               Number \cup {<<>>, <<N(1), N(2)>>},
               {Plain, ByteOffset, <<{"nosplit", "byteoffs"}, 8>>} \cup Sized)
    \cup Loads(64, {<<>>, <<Term(Segment, 1)>>}, Number, {Plain, <<{"rel"}, 0>>, <<{"abs"}, 0>>} \cup Sized)
    \cup With_(Loads(32, {<<>>, <<Term(BX, 1)>>}, Few, {Plain} \cup Sized), "ASIZE", "a16")
    \cup With_(Loads(64, {<<>>, <<Term(Reg("r32", 0), 1)>>}, Few, {Plain}), "ASIZE", "a32")
    \cup With_(Loads(16, {<<>>, <<Term(Reg("r32", 0), 1)>>}, Few, {Plain}), "ASIZE", "asp")

-----------------------------------------------------------------------------
(* The other instructions.                                                 *)
Numbers(c, bits) ==
    CASE c \in {"xmm", "zmm", "r8", "r16", "r32", "r64"} ->
            IF bits = 64 THEN {0, 4, 5, 12, 21} ELSE {0, 4, 5}
      [] c = "creg" -> IF bits = 64 THEN {0, 8} ELSE {0, 3, 8}
      [] OTHER -> {0, 3}
Rs(c, bits) ==
    {R(c, n) : n \in Numbers(c, bits)}
    \cup (IF c = "r8" THEN {R("h8", n) : n \in {4, 7}} ELSE {})
Ptr(bits) == IF bits = 64 THEN "r64" ELSE "r32"
Ms(bits) ==
    {M(<<Term(Reg(Ptr(bits), 0), 1), N(5)>>), M(<<N(5)>>)}
    \cup (IF bits = 64 THEN {M(<<Term(Reg("r64", 12), 1), Term(Reg("r64", 13), 2)>>),
                             M(<<Term(Reg("r64", 20), 1)>>),
                             Address(<<Term(Segment, 1), N(5)>>, <<>>, {"rel"}, 0)}
          ELSE {M(<<Term(BX, 1)>>)})
RMs(c, bits) == Rs(c, bits) \cup Ms(bits)
Modes == {16, 32, 64}
Two(bits, t, a, b) == {Line(bits, t, <<x, y>>) : x \in a, y \in b}
Three(bits, t, a, b, c) == {Line(bits, t, <<x, y, z>>) : x \in a, y \in b, z \in c}
LegacyLines(bits) ==
    Two(bits, MovByte, RMs("r8", bits), Rs("r8", bits))
    \cup Two(bits, MovWord, RMs("r16", bits), {R("r16", 0)})
    \cup Two(bits, MovImm32, Rs("r32", bits), {I(v, 0) : v \in {0, -1, 2^24 - 1, 2^24}})
    \cup With_(Two(bits, AddByte, Ms(bits), {I(v, 0) : v \in {1, -128, 127, 2^24 - 1, 300}}),
               "LOCK", "lock")
    \cup Two(bits, AddByte, {R("r32", 0)}, {I(1, 0)})
    \cup Two(bits, AddWord, {R("r16", 5)} \cup Ms(bits), {I(v, 0) : v \in {-1, 65535, 65536}})
    \cup Two(bits, MovOffset, {R("r32", 0)},
             {Address(<<N(v)>>, <<>>, {"wordoffs"}, bits) : v \in {5, 65541, 2^24 + 5}})
    \cup UNION {Two(bits, t, Rs("xmm", bits), RMs("xmm", bits)) : t \in {Addps, Addsd, Pshufb}}
    \cup Three(bits, Pinsrb, {R("xmm", 5)}, RMs("r32", bits), {I(v, 0) : v \in {3, -1, 256}})
    \cup UNION {Two(bits, Lzcnt(x[1], x[2]), {R(x[1], 5)}, Rs(x[1], bits) \cup Ms(bits)) :
                  x \in {<<"r16", \o320>>, <<"r32", \o321>>}}
    \cup Two(bits, Bsr, {R("r32", 4)}, RMs("r32", bits))
    \cup Two(bits, Movzx, Rs("r32", bits), Rs("r8", bits))
    \cup Two(bits, Adox, Rs("r32", bits), RMs("r32", bits))
    \cup {Line(bits, Enter, <<I(8, 0), I(3, 0)>>)}
    \cup {Line(bits, Interrupt, <<I(v, 0)>>) : v \in {3, 200, 256}}
    \cup {Line(bits, StoreOffset, <<Address(<<N(5)>>, <<>>, {"wordoffs"}, bits), R("r8", 0)>>)}
    \cup {Line(bits, MovToSeg(x[1], x[2]), <<R("sreg", 3), y>>) :
             x \in {IF bits = 16 THEN <<"r16", \o320>> ELSE <<"r32", \o321>>}, y \in Ms(bits)}
    \cup {Line(bits, Movrs, <<R("r32", 5), m>>) : m \in Ms(bits)}
    \cup {Line(bits, PushByte, <<I(v, 0)>>) : v \in {5, -1, 200}}
    \cup {Line(bits, t, <<>>) : t \in {Nop, Pause, Fclex}}
    \cup With_(Two(bits, MovWord, Ms(bits), {R("r16", 0)}), "SEG", "fs")
    \cup With_({Line(bits, Nop, <<>>)}, "OSIZE", "osp")
    \cup With_({Line(bits, Nop, <<>>)}, "REP", "repne")
PushLines(bits) ==
    {Line(bits, Push("r16", \o320, {}), <<x>>) : x \in Rs("r16", bits)}
    \cup (IF bits = 64 THEN {Line(64, Push("r64", \o324, {"LONG"}), <<x>>) : x \in Rs("r64", 64)}
          ELSE {Line(bits, Push("r32", \o321, {"NOLONG"}), <<x>>) : x \in Rs("r32", bits)})
Targets == {0, 100, 227, 228, 65636}
JumpLines(bits) ==
    LET osize == CASE bits = 16 -> \o320 [] bits = 32 -> \o321 [] OTHER -> \o324
        flags == IF bits = 64 THEN {"LONG"} ELSE {"NOLONG"}
        wide == IF bits = 64 THEN Jcxz("jrcxz", \o313, osize, flags)
                ELSE Jcxz("jcxz", \o310, osize, flags)
    IN {Line(bits, t, <<I(v, 0)>>) :
          v \in Targets, t \in {Jmp(osize, flags), wide, Jcxz("jecxz", \o311, osize, flags)}
                               \cup (IF bits = 64 THEN {} ELSE {Jmp(\o320, flags), Jmp(\o321, flags)})}
MibAddresses(c) ==
    LET a == Reg(c, 0)
        five == Reg(c, 5)
    IN {M(sum \o n) : sum \in {<<Term(a, 1)>>, <<Once(a)>>, <<Term(a, 2)>>, <<Term(a, 1), Term(five, 1)>>,
                              <<Term(a, 1), Term(five, 2)>>, <<Term(a, 1), Term(a, 1)>>},
                      n \in {<<>>, <<N(5)>>}}
       \cup {Address(<<Term(a, 1), N(5)>>, <<t>>, {}, 0) :
               t \in {Term(five, 1), Term(five, 4), Term(a, 1), N(3)}}
OnlyOldLines(bits) ==
    Two(bits, MovCr32, Rs("creg", bits), Rs("r32", bits))
    \cup {Line(bits, Pusha, <<>>)}
    \cup {Line(bits, Bndldx, <<R("bnd", 1), m>>) : m \in MibAddresses("r32")}
VexLinesOf(bits) ==
    Three(bits, Vaddps, {R("xmm", 5)}, Rs("xmm", bits), RMs("xmm", bits))
    \cup Three(bits, Andn("r32", 0, {}), Rs("r32", bits), {R("r32", 0)}, RMs("r32", bits))
    \cup UNION {With_({Line(bits, Vaddps, <<R("xmm", 1), R("xmm", 0), R("xmm", n)>>)}, "REX", p) :
                  n \in Numbers("xmm", bits), p \in {"vex", "vex2", "vex3", "evex"}}
    \cup {Line(bits, Vblendv, <<R("xmm", 1), R("xmm", 0), R("xmm", 4), R("xmm", n)>>) :
            n \in {0, 5} \cup (IF bits = 64 THEN {12} ELSE {})}
    \cup {Line(bits, Vgather, <<R("xmm", 0),
                M(<<Term(Reg(Ptr(bits), 0), 1), Term(Reg("xmm", n), 4), N(5)>>), R("xmm", 3)>>) :
            n \in {1, 12, 20}}
    \cup {Line(bits, VgatherY, <<R("ymm", 0),
                M(<<Term(Reg("ymm", 1), 2), N(5)>>), R("ymm", 3)>>)}
EvexLinesOf(bits) ==
    UNION {{[Line(bits, EvexAdd(x[1], x[2]), <<R(x[1], 1), r, s>>) EXCEPT !.opmask = aaa] :
              r \in Rs(x[1], bits), s \in Rs(x[1], bits), aaa \in {0, 3}} :
              x \in {<<"xmm", 0>>, <<"zmm", 2>>}}
    \cup {[Line(bits, EvexMov, <<R("zmm", 1), x>>) EXCEPT !.deco = z] :
            x \in RMs("zmm", bits), z \in {{}, {"z"}}}
    \cup {Line(bits, EvexMov, <<R("zmm", 1), M(<<Term(Reg(Ptr(bits), 0), 1), N(64 * v)>>)>>) :
            v \in {1, 2, 200}}
    \cup {[Line(bits, EvexGather, <<R("xmm", 0),
                M(<<Term(Reg(Ptr(bits), 0), 1), Term(Reg("xmm", n), 4)>>)>>) EXCEPT !.opmask = 1] :
            n \in {1, 12, 20}}
    \cup {[Line(bits, x[1], <<R("zmm", 1), R("zmm", 0), R("zmm", 3)>>) EXCEPT
             !.deco = {x[2]}, !.evex_rm = 1] : x \in {<<EvexAdd("zmm", 2), "er">>, <<EvexMax, "sae">>}}
    \cup {Line(bits, EvexAdd("zmm", 2), <<R("zmm", 1), R("zmm", 0),
                [M(<<Term(Reg(Ptr(bits), 0), 1)>>) EXCEPT !.bcast = TRUE]>>)}
LongLines ==
    Two(64, MovQuad, Rs("r64", 64), RMs("r64", 64))
    \cup {Line(64, PushWide, <<I(v, 0)>>) : v \in {-1, 2^23 - 1, 2^23}}
    \cup Two(64, MovImm64, Rs("r64", 64), {I(v, 0) : v \in {-1, 2^28 - 1}})
    \cup Two(64, MovSigned, RMs("r64", 64), {I(v, 0) : v \in {-1, 2^23 - 1, 2^23}})
    \cup Three(64, Andn("r64", 1, {"LONG"}), {R("r64", 12)}, Rs("r64", 64), Rs("r64", 64))
    \cup Two(64, MovCr64, Rs("creg", 64), Rs("r64", 64))
    \cup {Line(64, Cmpxchg16b, <<x>>) : x \in Ms(64)}
    \cup {Line(64, Bswap, <<x>>) : x \in Rs("r64", 64)}
    \cup {Line(64, Tilezero, <<x>>) : x \in Rs("tmm", 64)}
    \cup {Line(64, Tileload, <<R("tmm", 1), m>>) : m \in MibAddresses("r64")}
    \cup UNION {With_(Two(64, Addps, {R("xmm", 0)}, {R("xmm", n) : n \in {0, 12}})
                      \cup Two(64, MovLoad, {R("r32", 0)}, {R("r32", 4)}), "REX", p) :
                  p \in {"rex", "rex2", "vex"}}
MCLines ==
    AddressLines \cup LongLines \cup OnlyOldLines(16) \cup OnlyOldLines(32)
    \cup UNION {LegacyLines(bits) \cup PushLines(bits) \cup JumpLines(bits)
                \cup VexLinesOf(bits) \cup EvexLinesOf(bits) : bits \in Modes}
MCInsns == {l.itemp : l \in MCLines}
=============================================================================
