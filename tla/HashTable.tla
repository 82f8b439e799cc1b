------------------------------ MODULE HashTable ------------------------------
(***************************************************************************)
(* The hash table of nasmlib/hashtbl.c: open addressing with a step of its *)
(* own for every key, doubled when more than half full.  A search that     *)
(* fails leaves an insertion object; hash_add uses one and invalidates the *)
(* others.                                                                 *)
(***************************************************************************)
EXTENDS Integers, FiniteSets, FiniteSetsExt

CONSTANTS
    Keys,
    Lows, Highs,        \* the halves of the hashes of keys
    HASH_INIT_SIZE      \* a power of 2

None == "none"
NULL == -1
Endless == -1          \* a search that goes round for ever

HashParameters ==
    /\ None \notin Keys /\ Lows \subseteq Nat /\ Highs \subseteq Nat
    /\ HASH_INIT_SIZE \in Nat /\ HASH_INIT_SIZE >= 4
    /\ \A d \in 1..HASH_INIT_SIZE :
          HASH_INIT_SIZE % d = 0 /\ d % 2 = 1 => d = 1

VARIABLES
    hash,               \* hash_calc, chosen at the start
    table, load,        \* slots to nodes; no slots before the first hash_add
    inserts,            \* valid insertion objects
    added               \* history: the data added, 0 for none
hashVars == <<hash, table, load, inserts, added>>

size == Cardinality(DOMAIN table)
Empty == [key |-> None, data |-> 0]
Slots(n) == 0..n - 1
hash_max_load(n) == n \div 2
hash_inc_any(h, n) == h.high % n
hash_inc(h, n) ==
    LET inc == h.high % n IN IF inc % 2 = 0 THEN inc + 1 ELSE inc

(* The i-th slot tried, the first of them whose key is among some, and     *)
(* Endless if the search would go on for ever.                             *)
Tried(h, n, i) == (h.low + i * hash_inc(h, n)) % n
FirstTried(t, key, keys) ==
    LET n == Cardinality(DOMAIN t)
        stops == {i \in Slots(n) : t[Tried(hash[key], n, i)].key \in keys}
    IN IF stops = {} THEN Endless ELSE Tried(hash[key], n, Min(stops))

Lookup(key) == FirstTried(table, key, {None, key})

HashInit ==
    /\ hash \in [Keys -> [low : Lows, high : Highs]]
    /\ table = [i \in {} |-> Empty] /\ load = 0
    /\ inserts = {} /\ added = [k \in Keys |-> 0]

NotFound(key) == size = 0 \/ (Lookup(key) # Endless /\
                              table[Lookup(key)].key = None)
hash_find(key) ==
    /\ NotFound(key)
    /\ inserts' = inserts \cup
            {[key |-> key, where |-> IF size = 0 THEN NULL ELSE Lookup(key)]}
    /\ UNCHANGED <<hash, table, load, added>>

(* The table of n slots with every node put in again, from the first on.   *)
MovedLeft(t, n) ==
    LET moved[i \in 0..Cardinality(DOMAIN t)] ==
            IF i = 0 THEN [s \in Slots(n) |-> Empty]
            ELSE IF t[i - 1].key = None THEN moved[i - 1]
            ELSE [moved[i - 1] EXCEPT ![hash[t[i - 1].key].low % n] = t[i - 1]]
    IN moved[Cardinality(DOMAIN t)]
Moved(t, n) ==
    LET moved[i \in 0..Cardinality(DOMAIN t)] ==
            IF i = 0 THEN [s \in Slots(n) |-> Empty]
            ELSE IF t[i - 1].key = None THEN moved[i - 1]
            ELSE [moved[i - 1] EXCEPT
                    ![FirstTried(moved[i - 1], t[i - 1].key, {None})] = t[i - 1]]
    IN moved[Cardinality(DOMAIN t)]

hash_add(insert) ==
    LET fresh == insert.where = NULL
        t == IF fresh THEN [i \in Slots(HASH_INIT_SIZE) |-> Empty] ELSE table
        np == IF fresh THEN hash[insert.key].low % HASH_INIT_SIZE
              ELSE insert.where
        put == [t EXCEPT ![np] = [key |-> insert.key, data |-> load + 1]]
        n == Cardinality(DOMAIN t)
        grown == IF load + 1 > hash_max_load(n) THEN Moved(put, 2 * n) ELSE put
    IN /\ table' = grown
       /\ load' = load + 1
       /\ added' = [added EXCEPT ![insert.key] = load + 1]
       /\ inserts' = {}
       /\ UNCHANGED hash

HashNext == \/ \E key \in Keys : hash_find(key)
        \/ \E insert \in inserts : hash_add(insert)
HashSpec == HashInit /\ [][HashNext]_hashVars

-----------------------------------------------------------------------------
(* Every key finds the data it was added with and no other key is found;   *)
(* no search goes round for ever, whatever the hashes (hash_find,          *)
(* hash_findi).                                                            *)
FindsWhatWasAdded ==
    \A key \in Keys :
        IF size = 0 THEN added[key] = 0
        ELSE /\ Lookup(key) # Endless
             /\ table[Lookup(key)].data = added[key]

(* hash_iterate meets every key once: no node is lost or doubled when the  *)
(* table grows, and load counts them.                                      *)
EveryKeyOnce ==
    LET full == {i \in DOMAIN table : table[i].key # None}
    IN /\ Cardinality(full) = load
       /\ {table[i].key : i \in full} = {k \in Keys : added[k] # 0}

(* The table is the map of what was added: the two together.               *)
HashIsAMap == FindsWhatWasAdded /\ EveryKeyOnce
=============================================================================
