----------------------------- MODULE ObjRecords -----------------------------
(***************************************************************************)
(* The record writer of the OMF format (output/outobj.c, "low level        *)
(* section"), with the contents of one segment and its fixups (obj_out)    *)
(* and the tables written at the end (obj_write_file).  A field is its     *)
(* size and its value; a chain of records ends with the one being filled,  *)
(* records with the master pointer `up' are written when all is done, the  *)
(* others at once, which is the same order.  Lengths of records and of     *)
(* fields of size x are parameters.                                        *)
(***************************************************************************)
EXTENDS Integers, Sequences, SequencesExt

CONSTANTS
    RECORD_MAX, WORD_MAX,   \* 1021 and 0xFFFF
    Lengths,                \* of data and of names
    Offsets,                \* values of symbols
    MaxCalls                \* bound: calls of obj_out, entries of tables

VARIABLES
    code, currentpos,       \* the LEDATA records of the segment
    tables,                 \* PUBDEF and LINNUM records
    put, entered            \* history: of obj_out, and of the tables
vars == <<code, currentpos, tables, put, entered>>

Field(size, val) == [size |-> size, x |-> FALSE, val |-> val]
XField(size, val) == [size |-> size, x |-> TRUE, val |-> val]
Size(fields) == FoldLeft(LAMBDA n, f : n + f.size, 0, fields)

(* x_size is 0 as long as nothing decides it; `start' is parm[2].          *)
obj_new(ori, parm) ==
    [ori |-> ori, parm |-> parm, start |-> 0, x_size |-> 0,
     fields |-> <<>>, committed |-> 0, child |-> <<>>]
Append1(r, f) == [r EXCEPT !.fields = Append(@, f)]
Committed(r) == [r EXCEPT !.committed = Len(r.fields)]
Pending(r) == SubSeq(r.fields, r.committed + 1, Len(r.fields))

(* The initializers: LEDATA begins with its segment and offset, which is a *)
(* field of size x, PUBDEF and LINNUM with group and segment.              *)
Begun(r) ==
    CASE r.ori = "ledata" ->
            LET wide == r.parm > WORD_MAX
            IN Committed([r EXCEPT
                    !.fields = @ \o <<Field(1, 0),
                                      XField(IF wide THEN 4 ELSE 2, r.parm)>>,
                    !.start = r.parm, !.x_size = IF wide THEN 32 ELSE 16])
      [] r.ori \in {"pubdef", "linnum"} ->
            Committed([r EXCEPT !.fields = @ \o <<Field(1, 0), Field(1, 0)>>])
      [] OTHER -> Committed(r)

(* What is not committed moves to the next record, without its x_size.     *)
obj_bump(chain) ==
    LET r == Last(chain)
        next == obj_new(r.ori, r.parm)
    IN Front(chain) \o
       <<[r EXCEPT !.fields = SubSeq(@, 1, r.committed)],
         IF Pending(r) = <<>> THEN next
         ELSE [Begun(next) EXCEPT !.fields = @ \o Pending(r)]>>
OnLast(chain, Op(_)) == Append(Front(chain), Op(Last(chain)))

obj_check_late(chain, size) ==
    LET fit == IF Size(Last(chain).fields) >= RECORD_MAX
               THEN obj_bump(chain) ELSE chain
    IN IF Last(fit).committed = 0 THEN OnLast(fit, Begun) ELSE fit
obj_check(chain, size) ==
    LET fit == IF Size(Last(chain).fields) + size > RECORD_MAX
               THEN obj_bump(chain) ELSE chain
    IN IF Last(fit).committed = 0 THEN OnLast(fit, Begun) ELSE fit

WriteField(chain, f) ==
    OnLast(obj_check(chain, f.size), LAMBDA r : Append1(r, f))
obj_commit(chain) == OnLast(chain, Committed)

obj_force(chain, x) ==
    LET fit == IF Last(chain).x_size = 48 - x THEN obj_bump(chain) ELSE chain
    IN OnLast(fit, LAMBDA r : [r EXCEPT !.x_size = x])
obj_x(chain, val) ==
    LET forced == IF val > WORD_MAX THEN obj_force(chain, 32) ELSE chain
        Sized(ch, x) == OnLast(ch, LAMBDA r : [r EXCEPT !.x_size = x])
    IN IF Last(forced).x_size = 32
       THEN Sized(WriteField(forced, XField(4, val)), 32)
       ELSE WriteField(Sized(forced, 16), XField(2, val))

Init ==
    /\ code = <<obj_new("ledata", 0)>> /\ currentpos = 0
    /\ tables = <<obj_new("pubdef", 0)>>
    /\ put = <<>> /\ entered = <<>>

-----------------------------------------------------------------------------
Called == Len(put) + Len(entered) < MaxCalls /\ entered = <<>>
At(chain, pos) == OnLast(chain, LAMBDA r : [r EXCEPT !.parm = pos])
History(op, size) == put' = Append(put, [op |-> op, at |-> currentpos, size |-> size])

(* Raw data fills a record and goes on in the next: byte by byte here.     *)
out_rawdata(n) ==
    LET Byte(chain, i) ==
          At(obj_commit(WriteField(chain, Field(1, currentpos + i - 1))),
             currentpos + i)
    IN /\ Called
       /\ code' = FoldLeft(Byte, At(code, currentpos), [i \in 1..n |-> i])
       /\ currentpos' = currentpos + n /\ History("data", n)
       /\ UNCHANGED <<tables, entered>>

(* A fixup goes into the record associated with the data (its child), with *)
(* the place counted from the record's start; relative ones need records   *)
(* of the size of their field.                                             *)
obj_write_fixup(chain, size, relative) ==
    LET r == Last(chain)
        child == IF r.child = <<>> THEN <<obj_new("null", 0)>> ELSE r.child
        forced == IF relative THEN obj_force(child, 8 * size) ELSE child
        place == WriteField(forced, Field(2, r.parm - r.start))
        method == WriteField(WriteField(place, Field(1, 0)), Field(1, 0))
    IN OnLast(chain, LAMBDA l : [l EXCEPT !.child = obj_commit(method)])
out_address(size, op) ==
    LET written == WriteField(At(code, currentpos), Field(size, currentpos))
    IN /\ Called
       /\ code' = obj_commit(IF op = "number" THEN written
                             ELSE obj_write_fixup(written, size, op = "relative"))
       /\ currentpos' = currentpos + size /\ History(op, size)
       /\ UNCHANGED <<tables, entered>>

out_reserve(n) ==
    LET here == At(code, currentpos)
    IN /\ Called
       /\ code' = obj_commit(IF Last(here).committed > 0 THEN obj_bump(here)
                             ELSE here)
       /\ currentpos' = currentpos + n /\ History("reserve", n)
       /\ UNCHANGED <<tables, entered>>

(* An entry of a table, in a new record when table or segment change.      *)
Entered(kind, length, offset) ==
    LET chain == IF Last(tables).ori = kind THEN tables
                 ELSE Append(obj_commit(tables), obj_new(kind, 0))
        name == WriteField(chain, Field(IF kind = "pubdef" THEN length + 1 ELSE 2,
                                        Len(entered)))
        value == obj_x(name, offset)
    IN obj_commit(IF kind = "pubdef" THEN WriteField(value, Field(1, 0))
                  ELSE value)
table_entry(kind, length, offset) ==
    /\ Len(put) + Len(entered) < MaxCalls
    /\ tables' = Entered(kind, length, offset)
    /\ entered' = Append(entered, [kind |-> kind, offset |-> offset])
    /\ UNCHANGED <<code, currentpos, put>>

Next ==
    \/ \E n \in Lengths : out_rawdata(n) \/ out_reserve(n)
    \/ \E size \in {2, 4}, op \in {"number", "address", "relative"} :
          out_address(size, op)
    \/ \E length \in Lengths, offset \in Offsets :
          table_entry("pubdef", length, offset)
    \/ \E offset \in Offsets : table_entry("linnum", 0, offset)
Spec == Init /\ [][Next]_vars

-----------------------------------------------------------------------------
(* What obj_emit and obj_fwrite write: the committed part of each record,  *)
(* unless it is empty.                                                     *)
Written(chain) ==
    LET Cut(r) == [r EXCEPT !.fields = SubSeq(@, 1, r.committed)]
    IN SelectSeq([i \in DOMAIN chain |-> Cut(chain[i])],
                 LAMBDA r : r.fields # <<>>)
Bodies(r, header) ==    \* the fields behind the header, and their places
    [i \in 1..Len(r.fields) - header |->
        [field |-> r.fields[header + i],
         at |-> Size(SubSeq(r.fields, header + 1, header + i - 1))]]
Written2(chain) == FlattenSeq([i \in DOMAIN chain |-> Written(chain[i].child)])

(* The records hold what was put into the segment: none is too long, each  *)
(* byte and field is in one LEDATA record, whole and at the place where the*)
(* record's offset puts it, and each fixup is in a record that belongs to  *)
(* the LEDATA record of its field and points at it, in order; all entries  *)
(* of the tables are there in order, none divided between records.         *)
Data == SelectSeq(put, LAMBDA p : p.op # "reserve")
Fixups == SelectSeq(put, LAMBDA p : p.op \in {"address", "relative"})
Flat(chain, Of(_)) == FlattenSeq([i \in DOMAIN chain |-> Of(chain[i])])
CodeIsWhole ==
    LET Placed(r) == [i \in 1..Len(r.fields) - 2 |->
                        [val |-> r.fields[i + 2].val, size |-> r.fields[i + 2].size,
                         at |-> r.fields[2].val + Bodies(r, 2)[i].at]]
        all == Flat(Written(code), Placed)
    IN /\ \A i \in DOMAIN all : all[i].at = all[i].val
       /\ Size(all) = Size(Data)
       /\ \A i \in 1..Len(all) - 1 : all[i].at + all[i].size <= all[i + 1].at
FixupsPoint ==
    LET Pointing(r) ==
          LET Triples(f) == [i \in 1..Len(f.fields) \div 3 |->
                               r.start + f.fields[3 * i - 2].val]
          IN Flat(Written(r.child), Triples)
        Holds(r, at) == \E i \in 3..Len(r.fields) : r.fields[i].val = at
    IN /\ Flat(code, Pointing) = [i \in DOMAIN Fixups |-> Fixups[i].at]
       /\ \A k \in DOMAIN code : \A at \in ToSet(Pointing(code[k])) :
             Holds(code[k], at)
TablesAreWhole ==
    LET Width(r) == IF r.ori = "pubdef" THEN 3 ELSE 2
        Entries(r) ==
          [i \in 1..(Len(r.fields) - 2) \div Width(r) |->
             [n |-> r.fields[3 + Width(r) * (i - 1)].val,
              offset |-> r.fields[4 + Width(r) * (i - 1)].val, kind |-> r.ori]]
    IN /\ \A r \in ToSet(Written(tables)) : (Len(r.fields) - 2) % Width(r) = 0
       /\ Flat(Written(tables), Entries)
            = [i \in DOMAIN entered |-> [n |-> i - 1, kind |-> entered[i].kind,
                                         offset |-> entered[i].offset]]
RecordsAreWhole ==
    /\ \A r \in ToSet(code) \cup ToSet(tables) \cup ToSet(Written2(code)) :
          Size(r.fields) <= RECORD_MAX
    /\ CodeIsWhole /\ FixupsPoint /\ TablesAreWhole
=============================================================================
