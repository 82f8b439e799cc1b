-------------------------------- MODULE Raa --------------------------------
(* The sparse array of nasmlib/raa.c: layers of equal size that are added   *)
(* on top when a position is beyond the end, and below where data arrives.  *)
EXTENDS Integers

CONSTANTS
    RAA_LAYERSHIFT,
    Positions, Values,
    MaxWrites           \* bound: writes

VARIABLES
    raa,
    array, writes       \* history: what was written, and how often
vars == <<raa, array, writes>>

RAA_LAYERSIZE == 2^RAA_LAYERSHIFT
Absent == [layers |-> -1]

(* posn | ((RAA_LAYERSIZE << shift) - 1)                                   *)
LastOf(posn, layers) ==
    LET span == 2^(RAA_LAYERSHIFT * (layers + 1))
    IN (posn \div span) * span + span - 1
raa_init_layer(posn, layers) ==
    [layers |-> layers, endposn |-> LastOf(posn, layers),
     data |-> [i \in 0..RAA_LAYERSIZE - 1 |->
                  IF layers = 0 THEN 0 ELSE Absent]]
(* (posn >> shift) & RAA_LAYERMASK                                         *)
Slot(posn, layers) == (posn \div 2^(RAA_LAYERSHIFT * layers)) % RAA_LAYERSIZE

(* ilog2_64(posn) / RAA_LAYERSHIFT                                         *)
LayersForSize(posn) ==
    CHOOSE l \in 0..posn : /\ posn <= 2^(RAA_LAYERSHIFT * (l + 1))
                           /\ \A k \in 0..l - 1 :
                                posn > 2^(RAA_LAYERSHIFT * (k + 1))
LayersFor(posn) ==
    CHOOSE l \in 0..posn : /\ posn < 2^(RAA_LAYERSHIFT * (l + 1))
                           /\ \A k \in 0..l - 1 :
                                posn >= 2^(RAA_LAYERSHIFT * (k + 1))

RECURSIVE Reaching(_, _)
Reaching(r, posn) ==
    IF r.endposn >= posn THEN r
    ELSE LET top == raa_init_layer(r.endposn, r.layers + 1)
         IN Reaching([top EXCEPT !.data[0] = r], posn)
RECURSIVE Stored(_, _, _)
Stored(r, posn, value) ==
    LET l == Slot(posn, r.layers)
    IN IF r.layers = 0 THEN [r EXCEPT !.data[l] = value]
       ELSE LET below == IF r.data[l] = Absent
                         THEN raa_init_layer(posn, r.layers - 1)
                         ELSE r.data[l]
            IN [r EXCEPT !.data[l] = Stored(below, posn, value)]

Init == raa = Absent /\ array = [p \in Positions |-> 0] /\ writes = 0
raa_write(posn, value) ==
    /\ writes < MaxWrites
    /\ raa' = Stored(IF raa = Absent
                     THEN raa_init_layer(posn, LayersFor(posn))
                     ELSE Reaching(raa, posn), posn, value)
    /\ array' = [array EXCEPT ![posn] = value]
    /\ writes' = writes + 1
Next == \E posn \in Positions, value \in Values : raa_write(posn, value)
Spec == Init /\ [][Next]_vars

RECURSIVE Found(_, _)
Found(r, posn) ==
    IF r = Absent THEN 0
    ELSE IF r.layers = 0 THEN r.data[Slot(posn, 0)]
    ELSE Found(r.data[Slot(posn, r.layers)], posn)
raa_read(posn) ==
    IF raa = Absent \/ (raa # Absent /\ posn > raa.endposn) THEN 0
    ELSE Found(raa, posn)

(* Every position reads what was written to it last, zero if nothing was,  *)
(* however the array grew upwards and downwards in between: the offsets of *)
(* all sections are kept in it (asm/nasm.c).                               *)
ReadsWhatWasWritten == \A p \in Positions : raa_read(p) = array[p]
=============================================================================
