---------------------------- MODULE MCContainers ----------------------------
(***************************************************************************)
(* The containers of nasmlib side by side: a behaviour is one of the tree, *)
(* the sparse array, the sequential array or the hash table; the others    *)
(* stay as they were created.                                              *)
(***************************************************************************)
EXTENDS Saa, HashTable, SequencesExt

CONSTANTS
    TreeKeys, MaxNodes,
    Indices, Values, MaxWrites

VARIABLES
    which,
    heap, tree,
    raa, array, writes

treeVars == <<heap, tree>>
sparseVars == <<raa, array, writes>>

Tree == INSTANCE RbTree WITH Keys <- TreeKeys
Sparse == INSTANCE Raa WITH Positions <- Indices, RAA_LAYERSHIFT <- 1

Strings == {<<1>>, <<1, 2>>, <<1, 1, 1>>}

ASSUME SaaAssumption == SaaParameters
ASSUME HashAssumption == HashParameters

(* The keys are interchangeable: one order of their hashes is enough.      *)
Ordered ==
    LET keys == SetToSeq(Keys)
        Code(k) == 10 * hash[k].low + hash[k].high
    IN \A i \in 1..Len(keys) - 1 : Code(keys[i]) <= Code(keys[i + 1])

Init ==
    /\ which \in {"tree", "sparse", "bytes", "hash"}
    /\ Tree!Init /\ Sparse!Init /\ SaaInit /\ HashInit
    /\ Ordered
    /\ which # "hash" => \A j, k \in Keys : hash[j] = hash[k]
                         /\ hash[k] = [low |-> 0, high |-> 0]

Next ==
    /\ UNCHANGED which
    /\ \/ /\ which = "tree" /\ Tree!Next
          /\ UNCHANGED <<sparseVars, saaVars, hashVars>>
       \/ /\ which = "sparse" /\ Sparse!Next
          /\ UNCHANGED <<treeVars, saaVars, hashVars>>
       \/ /\ which = "bytes" /\ SaaNext
          /\ UNCHANGED <<treeVars, sparseVars, hashVars>>
       \/ /\ which = "hash" /\ HashNext
          /\ UNCHANGED <<treeVars, sparseVars, saaVars>>

Spec == Init /\ [][Next]_<<which, treeVars, sparseVars, saaVars, hashVars>>

-----------------------------------------------------------------------------
(* The properties of the tree and of the sparse array; those not in use    *)
(* hold as at the start.                                                   *)

(* The threads of nasmlib/rbtree.c lead through all nodes in order and     *)
(* rb_search finds the largest key that is not above the one asked for.    *)
TreeIsOrdered ==
    which = "tree" => Tree!WalksInOrder /\ Tree!SearchFindsTheFloor

(* raa_read of nasmlib/raa.c returns what was written last.                *)
ReadsWhatWasWritten == which = "sparse" => Sparse!ReadsWhatWasWritten
=============================================================================
