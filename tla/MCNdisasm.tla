----------------------------- MODULE MCNdisasm -----------------------------
(***************************************************************************)
(* The disassembler: a behaviour walks through a file (Ndisasm), or sends  *)
(* an instruction through nasm and back (InstructionCoding); the other is  *)
(* left as it was created.  There are short files with few options, or     *)
(* with targets of jumps for -a; and a longer one with many points, which  *)
(* the heap must put in order.                                             *)
(***************************************************************************)
EXTENDS Ndisasm, MCTemplates

CONSTANTS Templates, Lines, Origin
VARIABLES which, coding, line, ins, emitted, decoded
codingVars == <<coding, line, ins, emitted, decoded>>

Coding == INSTANCE InstructionCoding

Point(at) == [pos |-> at, length |-> 0]
Region(at, n) == [pos |-> at, length |-> n]
Codes(length, lens, jumps) ==
    [1..length -> [len : lens, jump : jumps]]
InputsOf(codes, headers, datamax, auto, options, most) ==
    [code : codes, seekable : BOOLEAN, header : headers, origin : headers,
     datamax : {datamax}, auto : {auto}, options : {options}, most : {most}]

MCInputs ==
    UNION {InputsOf(Codes(5, {0, 2, 3}, {0}), {0, 1}, 4, FALSE,
                    {Point(2), Point(5), Region(3, 1)}, 2),
           InputsOf(Codes(4, {0, 2, 3}, {0, 1}), {0}, 8, TRUE, {Point(2)}, 1),
           InputsOf(Codes(8, {3}, {0}), {0}, 8, FALSE,
                    {Point(at) : at \in 1..6}, 4)}
OneInput ==
    InputsOf(Codes(1, {2}, {0}), {0}, 4, FALSE, {Point(1)}, 1)

MCInit ==
    \/ which = "file" /\ Coding!Begin(CHOOSE x \in Lines : TRUE) /\ Init
    \/ which = "line" /\ input = (CHOOSE x \in Inputs : TRUE) /\ Init /\ Coding!Init
Walk == which = "file" /\ Next /\ UNCHANGED codingVars
Code == which = "line" /\ Coding!Next /\ UNCHANGED vars
MCNext == (Walk \/ Code) /\ UNCHANGED which
MCSpec ==
    /\ MCInit /\ [][MCNext]_<<which, vars, codingVars>>
    /\ WF_vars(Walk)

-----------------------------------------------------------------------------
(* The loop of disasm/ndisasm.c comes to the end of every file.             *)
EveryFileEnds == which = "file" => DisassemblyEnds

(* calcsize, process_ea and gencode write addresses that do_ea reads back.  *)
AddressesSurvive == which = "line" => Coding!AddressesSurvive

(* matches of disasm/disasm.c understands what gencode wrote.               *)
InstructionsSurvive == which = "line" => Coding!InstructionsSurvive

(* parse_prefixes of disasm/prefix.c knows the VEX prefixes.               *)
VexIsShown == which = "line" => Coding!VexIsShown

(* get_disp8_shift of include/disp8.h scales the displacement both ways.   *)
DisplacementsAreScaled == which = "line" => Coding!DisplacementsAreScaled
=============================================================================
