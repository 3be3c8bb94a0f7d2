--------------------------------- MODULE AvlSet ---------------------------------
(***************************************************************************)
(* mbase::set, which holds the samplers of a processor in the order of      *)
(* their kind: an AVL tree of avl_node (node_type.h) walked by              *)
(* bst_iterator.  A tree is a function from node numbers to nodes; number   *)
(* Outside stands for the variables outside the tree that are passed by        *)
(* reference: its left is mRootNode, its right the local variable of erase.  *)
(* A place <<n, side>> is such a reference.                                 *)
(***************************************************************************)
EXTENDS Integers, Sequences, FiniteSets, FiniteSetsExt, SequencesExt

CONSTANTS Keys          \* a set of naturals: the kinds of sampler

VARIABLES
    node,       \* the tree
    mSize,
    contents,   \* history: the keys the set is meant to hold
    balanced    \* history: built by insert(const&) alone since it was last empty

vars == <<node, mSize, contents, balanced>>

Null == 0
Outside == 1
Root == <<Outside, "left">>
Local == <<Outside, "right">>
RECURSIVE insert_node(_, _, _, _, _), remove_node(_, _, _), leftmost(_, _), Ancestor(_, _, _),
          Inorder(_, _, _), EraseAll(_, _), Depth(_, _)

NoNode == [parent |-> Null, left |-> Null, right |-> Null, height |-> 0, data |-> 0]
EmptyTree == [n \in {Outside} |-> NoNode]
Opposite(side) == IF side = "left" THEN "right" ELSE "left"
Deref(t, place) == t[place[1]][place[2]]
Assign(t, place, n) == [t EXCEPT ![place[1]][place[2]] = n]
get_height(t, n) == IF n = Null THEN -1 ELSE t[n].height
Taller(t, n) == 1 + Max({get_height(t, t[n].left), get_height(t, t[n].right)})

\* rotate_with_left_child and rotate_with_right_child
rotate(t, place, side) ==
    LET k2    == Deref(t, place)
        k1    == t[k2][side]
        inner == t[k1][Opposite(side)]
        moved == [t EXCEPT ![k2][side] = inner, ![k1][Opposite(side)] = k2,
                           ![k1].parent = t[k2].parent, ![k2].parent = k1]
        hung  == IF inner = Null THEN moved ELSE [moved EXCEPT ![inner].parent = k2]
        lower == [hung EXCEPT ![k2].height = Taller(hung, k2)]
    IN  Assign([lower EXCEPT ![k1].height = Taller(lower, k1)], place, k1)

double(t, place, side) ==
    rotate(rotate(t, <<Deref(t, place), side>>, Opposite(side)), place, side)

\* mutant of balance: an inner subtree is lifted by one rotation
balance_single(t, place) ==
    LET n == Deref(t, place)
        high == IF get_height(t, t[n].left) - get_height(t, t[n].right) > 1 THEN "left" ELSE "right"
        uneven == get_height(t, t[n][high]) - get_height(t, t[n][Opposite(high)]) > 1
        turned == IF uneven THEN rotate(t, place, high) ELSE t
    IN  IF n = Null THEN t
        ELSE [turned EXCEPT ![Deref(turned, place)].height = Taller(turned, Deref(turned, place))]

balance(t, place) ==
    LET n == Deref(t, place)
        high == IF get_height(t, t[n].left) - get_height(t, t[n].right) > 1 THEN "left" ELSE "right"
        child == t[n][high]
        uneven == get_height(t, child) - get_height(t, t[n][Opposite(high)]) > 1
        turned == IF ~uneven THEN t
                  ELSE IF get_height(t, t[child][high]) >= get_height(t, t[child][Opposite(high)])
                  THEN rotate(t, place, high) ELSE double(t, place, high)
    IN  IF n = Null THEN t
        ELSE [turned EXCEPT ![Deref(turned, place)].height = Taller(turned, Deref(turned, place))]

\* A copied value is inserted with balancing on the way up, a moved one without
Fresh(t) == CHOOSE n \in 2 .. Cardinality(Keys) + 1 :
                n \notin DOMAIN t /\ \A m \in 2 .. n - 1 : m \in DOMAIN t
insert_node(t, place, v, parent, moved) ==
    LET n == Deref(t, place)
        new == Fresh(t)
        side == IF v < t[n].data THEN "left" ELSE "right"
        below == insert_node(t, <<n, side>>, v, n, moved)
    IN  IF n = Null
        THEN balance(Assign([m \in DOMAIN t \cup {new} |->
                                IF m = new THEN [NoNode EXCEPT !.parent = parent, !.data = v]
                                ELSE t[m]],
                            place, new), place)
        ELSE IF v = t[n].data THEN t
        ELSE IF moved THEN below ELSE balance(below, place)

\* mutant of unlink: the child keeps the parent it had
unlink_keeps_parent(t, place) ==
    LET n == Deref(t, place)
        child == IF t[n].left # Null THEN t[n].left ELSE t[n].right
        up == t[n].parent
        t1 == IF up = Null THEN t
              ELSE [t EXCEPT ![up][IF t[up].left = n THEN "left" ELSE "right"] = child]
    IN  [m \in DOMAIN t \ {n} |-> Assign(t1, place, child)[m]]

\* A node with at most one child is replaced by it, in its parent and in place
unlink(t, place) ==
    LET n == Deref(t, place)
        child == IF t[n].left # Null THEN t[n].left ELSE t[n].right
        up == t[n].parent
        t1 == IF child = Null THEN t ELSE [t EXCEPT ![child].parent = up]
        t2 == IF up = Null THEN t1
              ELSE [t1 EXCEPT ![up][IF t[up].left = n THEN "left" ELSE "right"] = child]
    IN  [m \in DOMAIN t \ {n} |-> Assign(t2, place, child)[m]]

leftmost(t, n) == IF t[n].left = Null THEN n ELSE leftmost(t, t[n].left)
\* A node with two children takes the data of its successor, which is removed
\* instead; that path returns without balancing the node itself
remove_node(t, place, v) ==
    LET n == Deref(t, place)
        side == IF v < t[n].data THEN "left" ELSE "right"
        successor == t[leftmost(t, t[n].right)].data
    IN  IF n = Null THEN t
        ELSE IF v # t[n].data THEN balance(remove_node(t, <<n, side>>, v), place)
        ELSE IF t[n].left # Null /\ t[n].right # Null
        THEN remove_node([t EXCEPT ![n].data = successor], <<n, "right">>, successor)
        ELSE balance(unlink(t, place), place)

\* The iterator: the leftmost node first; ++ goes right and left again, or up
begin(t) == IF Deref(t, Root) = Null THEN Null ELSE leftmost(t, Deref(t, Root))
Ancestor(t, n, v) == IF n = Null \/ v < t[n].data THEN n ELSE Ancestor(t, t[n].parent, v)
increment(t, n) ==
    LET up == t[n].parent
    IN  IF t[n].right # Null THEN leftmost(t, t[n].right)
        ELSE IF up = Null THEN Null
        ELSE IF t[up].left = n THEN up
        ELSE IF t[up].right = n THEN Ancestor(t, up, t[n].data)
        ELSE n
Inorder(t, n, k) == IF n = Null \/ k = 0 THEN <<>> ELSE <<t[n].data>> \o Inorder(t, increment(t, n), k - 1)
Walk(t) == Inorder(t, begin(t), Cardinality(DOMAIN t))

\* find() walks the whole set
find(t, v) == IF \E n \in DOMAIN t \ {Outside} : t[n].data = v
              THEN CHOOSE n \in DOMAIN t \ {Outside} : t[n].data = v ELSE Null

\* erase() works on a local copy of the link to the node, which is stored back
\* only when the node was the root
erase(t, n) ==
    LET t1 == remove_node(Assign(t, Local, n), Local, t[n].data)
        t2 == IF Deref(t, Root) = n THEN Assign(t1, Root, Deref(t1, Local)) ELSE t1
    IN  Assign(t2, Local, Null)
\* clear() follows the iterators erase() returns
EraseAll(t, n) == IF n = Null THEN t ELSE EraseAll(erase(t, n), increment(t, n))

\* The copy constructor and assignment insert in order
copy(vs) == FoldLeft(LAMBDA t, v : insert_node(t, Root, v, Deref(t, Root), FALSE), EmptyTree, vs)
------------------------------------------------------------------------------
Init ==
    /\ node = EmptyTree /\ mSize = 0 /\ contents = {}
    /\ balanced = TRUE

Becomes(t, size, keys, b) ==
    /\ node' = t /\ mSize' = size /\ contents' = keys /\ balanced' = b
Growth(t) == Cardinality(DOMAIN t) - Cardinality(DOMAIN node)

Insert == \E v \in Keys :
    LET t == insert_node(node, Root, v, Deref(node, Root), FALSE)
    IN  Becomes(t, mSize + Growth(t), contents \cup {v}, balanced)
InsertMoved == \E v \in Keys :
    LET t == insert_node(node, Root, v, Deref(node, Root), TRUE)
    IN  Becomes(t, mSize + Growth(t), contents \cup {v}, FALSE)
Erase == \E v \in contents :
    /\ node' = erase(node, find(node, v)) /\ mSize' = mSize - 1
    /\ contents' = contents \ {v}
    /\ balanced' = FALSE
\* begin() has at most one child
Clear == Becomes(EraseAll(node, begin(node)), 0, {}, TRUE)
CopyAssign == Becomes(copy(Walk(node)), mSize, contents, TRUE)
\* operator=(set&&) iterates over the source after moving it into a local: the
\* elements are destroyed with the local and the set is left empty
MoveAssign == Becomes(copy(<<>>), 0, {}, TRUE)

Next == Insert \/ InsertMoved \/ Erase \/ Clear \/ CopyAssign \/ MoveAssign
Spec == Init /\ [][Next]_vars
------------------------------------------------------------------------------
\* Types of the tree and its histories.
TypeOK ==
    /\ DOMAIN node \subseteq 1 .. Cardinality(Keys) + 1
    /\ \A n \in DOMAIN node \ {Outside} :
        /\ node[n].height \in 0 .. Cardinality(Keys) /\ node[n].data \in Keys
    /\ balanced \in BOOLEAN

\* The iterators visit exactly the keys inserted and not erased, in order, and
\* no node is leaked or linked to when deleted, after any sequence of operations (node_type.h, set.h).
KeysInOrder ==
    /\ \A n \in DOMAIN node :
        {node[n].left, node[n].right, node[n].parent} \subseteq (DOMAIN node \ {Outside}) \cup {Null}
    /\ Walk(node) = SetToSortSeq(contents, <)
    /\ mSize = Cardinality(contents) /\ Cardinality(DOMAIN node) = mSize + 1

\* Insertions of copies keep the tree balanced, with its heights right: sizes of
\* the two subtrees of a node differ by one level at most (node_type.h:9, 255-290).
Depth(t, n) == IF n = Null THEN -1 ELSE 1 + Max({Depth(t, t[n].left), Depth(t, t[n].right)})
InsertsBalance == balanced =>
    \A n \in DOMAIN node \ {Outside} :
        /\ node[n].height = Depth(node, n)
        /\ Depth(node, node[n].left) - Depth(node, node[n].right) \in -1 .. 1
===============================================================================
