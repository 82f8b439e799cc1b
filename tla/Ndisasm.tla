------------------------------- MODULE Ndisasm -------------------------------
(***************************************************************************)
(* The main loop of the disassembler (disasm/ndisasm.c) and its heap of    *)
(* synchronisation points (disasm/sync.c).  The file is read up to the     *)
(* next point; instructions are taken from a window of at least INSN_MAX   *)
(* bytes, and one that would cross the next point is shown as a byte.      *)
(***************************************************************************)
EXTENDS Integers, Sequences

CONSTANTS
    INSN_MAX,
    Inputs,             \* files and command lines, see Input
    SYNC_INITIAL_CHUNK, MaxPoints  \* bound: points in all

(* A file is what disasm() makes of each place of it: a length, 0 if it     *)
(* finds nothing, and the distance of a PC-relative target, 0 for none.    *)
(* Of the options -s and -k any up to a number of them are given.          *)
Input == [code : Seq([len : 0..INSN_MAX, jump : Nat]), seekable : BOOLEAN,
          header : Nat, origin : Nat, datamax : Nat, auto : BOOLEAN,
          options : SUBSET [pos : Nat, length : Nat], most : Nat]
ASSUME NdisasmAssumption ==
    INSN_MAX \in Nat \ {0} /\ Inputs \subseteq Input /\ SYNC_INITIAL_CHUNK \in Nat

VARIABLES
    stage,                  \* "options", "read", "decode" or "done"
    input,                  \* the file and the command line
    given,                  \* history: the options
    synx, capacity, allocated,
    nextsync, synclen, offset, dataread, fileoffs, eof, feof, lenread,
    q, have,                \* q - buffer and p - q
    shown                   \* what output_ins was called with

heapVars == <<synx, capacity, allocated>>
vars == <<stage, input, given, heapVars, nextsync, synclen, offset,
          dataread, fileoffs, eof, feof, lenread, q, have, shown>>

FileLen == Len(input.code)
DataMax == input.datamax
Least(a, b) == IF a < b THEN a ELSE b

-----------------------------------------------------------------------------
(* Moving x up from i, or down from i, until its neighbours fit.           *)
MovedUp(h, x) ==
    LET from[i \in 1..Len(h)] ==
            IF i > 1 /\ h[i \div 2].pos > x.pos
            THEN [from[i \div 2] EXCEPT ![i] = h[i \div 2]]
            ELSE [h EXCEPT ![i] = x]
    IN from[Len(h)]

SmallerChildLeft(h, x, i) ==
    IF 2*i <= Len(h) /\ h[2*i].pos < x.pos THEN 2*i ELSE 0
SmallerChild(h, x, i) ==
    CASE 2*i <= Len(h) /\ h[2*i].pos < x.pos
            /\ (2*i + 1 > Len(h) \/ h[2*i + 1].pos > h[2*i].pos) -> 2*i
      [] 2*i + 1 <= Len(h) /\ h[2*i + 1].pos < x.pos
            /\ ~(h[2*i].pos < x.pos /\ h[2*i + 1].pos > h[2*i].pos) -> 2*i + 1
      [] OTHER -> 0

MovedDown(h, x) ==
    LET from[i \in 1..Len(h)] ==
            LET c == SmallerChild(h, x, i)
            IN IF c = 0 THEN [h EXCEPT ![i] = x]
               ELSE [from[c] EXCEPT ![i] = h[c]]
    IN from[1]

WithoutFirst(h) ==
    LET rest == SubSeq(h, 1, Len(h) - 1)
    IN IF rest = <<>> THEN rest ELSE MovedDown(rest, h[Len(h)])

(* next_sync: points that end at or before position go.                    *)
AfterStrictly(h, position) ==
    LET popped[n \in 0..Len(h)] ==
            IF n = 0 THEN h
            ELSE LET g == popped[n - 1]
                 IN IF g # <<>> /\ g[1].pos + g[1].length < position
                    THEN WithoutFirst(g) ELSE g
    IN popped[Len(h)]
After(h, position) ==
    LET popped[n \in 0..Len(h)] ==
            IF n = 0 THEN h
            ELSE LET g == popped[n - 1]
                 IN IF g # <<>> /\ g[1].pos + g[1].length <= position
                    THEN WithoutFirst(g) ELSE g
    IN popped[Len(h)]

next_sync(h, position) ==
    /\ synx' = After(h, position)
    /\ nextsync' = IF synx' = <<>> THEN 0 ELSE synx'[1].pos
    /\ synclen' = IF synx' = <<>> THEN 0 ELSE synx'[1].length

(* add_sync.  When the block is full it is reallocated, which may fail,    *)
(* move it, or let it grow in place; synx and max_synx stay as they are.   *)
add_sync(pt) ==
    /\ allocated' \in IF Len(synx) < capacity THEN {allocated}
                      ELSE {allocated, 0, 2 * capacity}
    /\ synx' = IF Len(synx) >= capacity /\ allocated' = allocated
               THEN synx ELSE MovedUp(Append(synx, pt), pt)
    /\ UNCHANGED capacity

-----------------------------------------------------------------------------
Init ==
    /\ stage = "options"
    /\ input \in Inputs
    /\ given = {}
    /\ synx = <<>>
    /\ capacity = SYNC_INITIAL_CHUNK /\ allocated = SYNC_INITIAL_CHUNK
    /\ nextsync = 0 /\ synclen = 0 /\ offset = input.origin
    /\ dataread = 0 /\ fileoffs = 0
    /\ eof = FALSE /\ feof = FALSE /\ lenread = 0
    /\ q = 0 /\ have = 0
    /\ shown = <<>>

Option ==
    /\ stage = "options" /\ Len(synx) < input.most
    /\ \E pt \in input.options : add_sync(pt) /\ given' = given \cup {pt}
    /\ UNCHANGED <<stage, input, nextsync, synclen, offset, dataread,
                   fileoffs, eof, feof, lenread, q, have, shown>>

(* skip(): seeking succeeds beyond the end; reading stops there.           *)
Skipped(from, dist) ==
    IF input.seekable \/ dist = 0 THEN from + dist
    ELSE IF from > FileLen THEN from ELSE Least(from + dist, FileLen)
SkipSucceeds(from, dist) == Skipped(from, dist) = from + dist

Start ==
    /\ stage = "options"
    /\ stage' = IF SkipSucceeds(0, input.header) THEN "read" ELSE "done"
    /\ fileoffs' = Skipped(0, input.header)
    /\ feof' = ~SkipSucceeds(0, input.header)
    /\ next_sync(synx, offset)
    /\ UNCHANGED <<input, given, capacity, allocated, offset, dataread,
                   eof, lenread, q, have, shown>>

(* Differences are unsigned: past the point there is no limit.             *)
SyncPending == nextsync # 0 \/ synclen # 0
ToSyncFromHere == IF SyncPending /\ nextsync >= offset
                  THEN nextsync - offset ELSE 2 * INSN_MAX
ToSync == IF SyncPending /\ nextsync >= offset + have
          THEN nextsync - offset - have ELSE 2 * INSN_MAX

Read ==
    LET to_read == Least(Least(2 * INSN_MAX - q - have, ToSync),
                         DataMax - dataread)
        n == IF fileoffs > FileLen THEN 0 ELSE Least(to_read, FileLen - fileoffs)
        hit == SyncPending /\ offset = nextsync
    IN /\ stage = "read"
       /\ lenread' = n
       /\ stage' = "decode"
       /\ IF hit
          THEN /\ offset' = offset + synclen
               /\ dataread' = dataread + n + synclen
               /\ fileoffs' = Skipped(fileoffs + n, synclen)
               /\ eof' = (eof \/ (to_read > 0 /\ n = 0)
                              \/ (synclen > 0 /\ SkipSucceeds(fileoffs + n, synclen)))
               /\ feof' = /\ synclen = 0 \/ ~input.seekable
                          /\ feof \/ n < to_read
                                  \/ ~SkipSucceeds(fileoffs + n, synclen)
               /\ q' = 0 /\ have' = 0
               /\ next_sync(synx, offset + synclen)
          ELSE /\ dataread' = dataread + n
               /\ fileoffs' = fileoffs + n
               /\ eof' = (eof \/ (to_read > 0 /\ n = 0))
               /\ feof' = (feof \/ n < to_read)
               /\ have' = have + n
               /\ UNCHANGED <<q, offset, nextsync, synclen, synx>>
       /\ UNCHANGED <<input, given, capacity, allocated, shown>>

WindowReadyIfFull == have >= INSN_MAX
WindowReady == have > 0 /\ (have >= INSN_MAX \/ lenread = 0)

(* What is shown for the place q: an instruction, or a byte if there is    *)
(* none, if it is not all there, or if it would cross the next point.      *)
ShownLengthBeyond(len) ==
    IF len = 0 \/ (SyncPending /\ nextsync >= offset /\ len > nextsync - offset)
    THEN 1 ELSE len
ShownLength(len) ==
    IF len = 0 \/ len > have
       \/ (SyncPending /\ nextsync >= offset /\ len > nextsync - offset)
    THEN 1 ELSE len

Disassemble ==
    /\ stage = "decode" /\ WindowReady
    /\ LET place == fileoffs - have
           insn == input.code[place + 1]
           len == ShownLength(insn.len)
       IN /\ shown' = Append(shown, [offset |-> offset, place |-> place, len |-> len])
          /\ q' = q + len /\ have' = have - len /\ offset' = offset + len
          /\ IF input.auto /\ insn.len > 0 /\ insn.jump > 0
             THEN /\ Len(synx) < MaxPoints
                  /\ add_sync([pos |-> offset + insn.len + insn.jump, length |-> 0])
             ELSE UNCHANGED heapVars
    /\ UNCHANGED <<stage, input, given, nextsync, synclen, dataread,
                   fileoffs, eof, feof, lenread>>

Again ==
    /\ stage = "decode" /\ ~WindowReady
    /\ q' = IF q >= INSN_MAX THEN 0 ELSE q
    /\ stage' = IF lenread > 0 \/ (dataread < DataMax /\ ~eof /\ ~feof)
                THEN "read" ELSE "done"
    /\ UNCHANGED <<input, given, heapVars, nextsync, synclen, offset,
                   dataread, fileoffs, eof, feof, lenread, have, shown>>

Next == Option \/ Start \/ Read \/ Disassemble \/ Again

Spec == Init /\ [][Next]_vars /\ WF_vars(Next)

-----------------------------------------------------------------------------
(* What is shown at an offset are the bytes of the file that belong there, *)
(* each byte once and in order (the buffer with its two pointers); whatever*)
(* is left out are the regions of -k (skip()), and without them the whole  *)
(* file is shown, up to what -z allows. No read runs over the end of the   *)
(* buffer.                                                                 *)
ShowsTheFile ==
    /\ q + have <= 2 * INSN_MAX
    /\ \A i \in DOMAIN shown :
          /\ shown[i].offset - input.origin = shown[i].place - input.header
          /\ shown[i].place + shown[i].len <= FileLen
    /\ \A i \in 1..Len(shown) - 1 :
          LET end == shown[i].offset + shown[i].len
          IN \/ shown[i + 1].offset = end
             \/ \E pt \in given :
                   pt.pos = end /\ shown[i + 1].offset = end + pt.length
    /\ stage = "done" /\ (\A pt \in given : pt.length = 0) =>
          \A f \in input.header..Least(FileLen, input.header + DataMax) - 1 :
              \E i \in DOMAIN shown :
                  f \in shown[i].place..shown[i].place + shown[i].len - 1

(* No instruction jumps over a point given by -s, as doc/ndisasm.src:80    *)
(* promises, however many points were given in whatever order.             *)
Crosses(i, pos) ==
    shown[i].offset < pos /\ pos < shown[i].offset + shown[i].len

SyncPointsHit ==
    \A i \in DOMAIN shown : \A pt \in given : ~Crosses(i, pt.pos)

(* The loop comes to its end (its condition, and next_sync in it).         *)
DisassemblyEnds == <>(stage = "done")
=============================================================================
