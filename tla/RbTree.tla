------------------------------- MODULE RbTree -------------------------------
(***************************************************************************)
(* The threaded tree of nasmlib/rbtree.c.  Nodes are numbered in the order *)
(* of their insertion, 0 is NULL; a heap h maps them to keys, pointers and *)
(* flags as the C structures do.                                           *)
(***************************************************************************)
EXTENDS Integers, Sequences, FiniteSets, SequencesExt

CONSTANTS
    Keys,
    MaxNodes            \* bound: nodes inserted

VARIABLES heap, tree
vars == <<heap, tree>>

Size(h) == Len(h)
IsRed(h, n) == "BLACK" \notin h[n].flags
Has(h, n, flag) == flag \in h[n].flags

is_red_left_left(h, n) ==
    /\ ~Has(h, n, "PRED")
    /\ IsRed(h, h[n].left) /\ ~Has(h, h[n].left, "PRED")
    /\ IsRed(h, h[h[n].left].left)
is_red_right(h, n) == ~Has(h, n, "SUCC") /\ IsRed(h, h[n].right)
is_red_both(h, n) ==
    /\ h[n].flags \cap {"PRED", "SUCC"} = {}
    /\ IsRed(h, h[n].left) \/ IsRed(h, h[n].right)

Relinked(h, n, left, right, flags) ==
    [h EXCEPT ![n].left = left, ![n].right = right, ![n].flags = flags]

(* Rotations return the heap and the new root of the subtree.              *)
rotate_left_unthreaded(h, n) ==
    LET x == h[n].right
        below == Relinked(h, n, h[n].left, h[x].left,
                         h[n].flags \cap {"PRED"})
    IN [heap |-> Relinked(below, x, n, h[x].right,
                         (h[n].flags \cap {"BLACK"}) \cup
                            (h[x].flags \cap {"SUCC"})),
        root |-> x]
rotate_left(h, n) ==
    LET x == h[n].right
        thread == Has(h, x, "PRED")
        below == Relinked(h, n, h[n].left, IF thread THEN x ELSE h[x].left,
                         (h[n].flags \cap {"PRED"}) \cup
                            (IF thread THEN {"SUCC"} ELSE {}))
    IN [heap |-> Relinked(below, x, n, h[x].right,
                         (h[n].flags \cap {"BLACK"}) \cup
                            (h[x].flags \cap {"SUCC"})),
        root |-> x]
rotate_right(h, n) ==
    LET x == h[n].left
        thread == Has(h, x, "SUCC")
        below == Relinked(h, n, IF thread THEN x ELSE h[x].right, h[n].right,
                         (h[n].flags \cap {"SUCC"}) \cup
                            (IF thread THEN {"PRED"} ELSE {}))
    IN [heap |-> Relinked(below, x, h[x].left, n,
                         (h[n].flags \cap {"BLACK"}) \cup
                            (h[x].flags \cap {"PRED"})),
        root |-> x]

Flipped(flags) == IF "BLACK" \in flags THEN flags \ {"BLACK"}
                  ELSE flags \cup {"BLACK"}
color_flip(h, n) ==
    [h EXCEPT ![n].flags = Flipped(@), ![h[n].left].flags = Flipped(@),
              ![h[n].right].flags = Flipped(@)]

Balanced(h, n) ==
    LET r == IF is_red_right(h, n) THEN rotate_left(h, n)
             ELSE [heap |-> h, root |-> n]
    IN IF is_red_left_left(r.heap, r.root)
       THEN rotate_right(r.heap, r.root) ELSE r

RECURSIVE InsertedBelow(_, _, _)
InsertedBelow(h0, n, x) ==
    LET h == IF is_red_both(h0, n) THEN color_flip(h0, n) ELSE h0
        down == IF h[x].key < h[n].key
                THEN LET up == [h EXCEPT ![x].right = n]
                     IN IF Has(h, n, "PRED")
                        THEN [up EXCEPT ![x].left = h[n].left,
                                        ![n].flags = @ \ {"PRED"},
                                        ![n].left = x]
                        ELSE LET s == InsertedBelow(up, h[n].left, x)
                             IN [s.heap EXCEPT ![n].left = s.root]
                ELSE LET up == [h EXCEPT ![x].left = n]
                     IN IF Has(h, n, "SUCC")
                        THEN [up EXCEPT ![x].right = h[n].right,
                                        ![n].flags = @ \ {"SUCC"},
                                        ![n].right = x]
                        ELSE LET s == InsertedBelow(up, h[n].right, x)
                             IN [s.heap EXCEPT ![n].right = s.root]
    IN Balanced(down, n)

Init == heap = <<>> /\ tree = 0
rb_insert(key) ==
    LET x == Size(heap) + 1
        fresh == Append(heap, [key |-> key, left |-> 0, right |-> 0,
                               flags |-> {"PRED", "SUCC"}])
        r == IF tree = 0 THEN [heap |-> fresh, root |-> x]
             ELSE InsertedBelow(fresh, tree, x)
    IN /\ Size(heap) < MaxNodes
       /\ heap' = r.heap /\ tree' = r.root
Next == \E key \in Keys : rb_insert(key)
Spec == Init /\ [][Next]_vars

-----------------------------------------------------------------------------
(* Search: the node of the largest key that is at most key, 0 if none.     *)
RECURSIVE SearchedAbove(_, _, _)
SearchedAbove(n, best, key) ==
    IF heap[n].key >= key
    THEN IF Has(heap, n, "PRED") THEN best
         ELSE SearchedAbove(heap[n].left, best, key)
    ELSE IF Has(heap, n, "SUCC") THEN n
         ELSE SearchedAbove(heap[n].right, n, key)
RECURSIVE Searched(_, _, _)
Searched(n, best, key) ==
    IF heap[n].key > key
    THEN IF Has(heap, n, "PRED") THEN best
         ELSE Searched(heap[n].left, best, key)
    ELSE IF heap[n].key = key \/ Has(heap, n, "SUCC") THEN n
         ELSE Searched(heap[n].right, n, key)
rb_search(key) == IF tree = 0 THEN 0 ELSE Searched(tree, 0, key)

RECURSIVE rb_first(_)
rb_first(n) == IF n = 0 \/ Has(heap, n, "PRED") THEN n
               ELSE rb_first(heap[n].left)
RECURSIVE rb_last(_)
rb_last(n) == IF n = 0 \/ Has(heap, n, "SUCC") THEN n
              ELSE rb_last(heap[n].right)
rb_prev(n) == IF Has(heap, n, "PRED") THEN heap[n].left
              ELSE rb_last(heap[n].left)
rb_next(n) == IF Has(heap, n, "SUCC") THEN heap[n].right
              ELSE rb_first(heap[n].right)

Walk(first, Step(_)) ==
    FoldLeft(LAMBDA path, i : Append(path, IF Last(path) = 0 THEN 0
                                           ELSE Step(Last(path))),
             <<first>>, heap)

-----------------------------------------------------------------------------
(* The walk from the first node along rb_next meets every node once, in    *)
(* the order of the keys, and ends; rb_prev goes the same way back: the    *)
(* threads survive every rotation, for keys inserted twice as well.        *)
WalksInOrder ==
    LET n == Size(heap)
        there == Walk(rb_first(tree), rb_next)
        back == Walk(rb_last(tree), rb_prev)
    IN /\ {there[i] : i \in 1..n} = 1..n /\ there[n + 1] = 0
       /\ \A i \in 1..n - 1 : heap[there[i]].key <= heap[there[i + 1]].key
       /\ \A i \in 1..n : back[i] = there[n + 1 - i]
       /\ back[n + 1] = 0

(* rb_search finds a node of the largest key that is not above the one     *)
(* asked for (include/rbtree.h), whatever the shape of the tree.           *)
SearchFindsTheFloor ==
    \A key \in {k - 1 : k \in Keys} \cup Keys :
        LET below == {n \in DOMAIN heap : heap[n].key <= key}
            found == rb_search(key)
        IN IF below = {} THEN found = 0
           ELSE /\ found \in below
                /\ \A n \in below : heap[n].key <= heap[found].key
=============================================================================
