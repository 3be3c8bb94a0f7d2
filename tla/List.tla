---------------------------------- MODULE List ----------------------------------
(***************************************************************************)
(* mbase::list: a doubly linked list held as its first and last node and a *)
(* size.  The list value is a record with the nodes it has allocated; every *)
(* method is an operator on it.  `self` and `other` are two lists and the   *)
(* methods that move nodes or values between them; `items` and `others` are *)
(* the sequences a caller believes they hold.                               *)
(***************************************************************************)
EXTENDS Naturals, Sequences, FiniteSets, SequencesExt

CONSTANTS
    Values,     \* elements
    MaxSelf,    \* bound on the size of self
    MaxOther    \* bound on the size of the other list

VARIABLES
    self, other,    \* the lists
    items, others,  \* history: what they are meant to hold
    it,             \* history: the iterator the last method returned
    place,          \* history: the index it is meant to point to
    tailLost        \* history: reverse() has misplaced mLastNode

vars == <<self, other, items, others, it, place, tailLost>>

Null == 0
RECURSIVE Clear(_), Advance(_, _, _), Follow(_, _, _, _), EraseRange(_, _, _), Reversed(_, _, _), Uniques(_, _, _)

EmptyList == [node |-> <<>>, mFirstNode |-> Null, mLastNode |-> Null, mSize |-> 0]

\* Nodes are numbered; a new node takes a number no living node has
NodeIds == 1 .. MaxSelf + MaxOther + 1
Fresh(l) == CHOOSE n \in NodeIds : n \notin DOMAIN l.node /\ \A m \in 1 .. n - 1 : m \in DOMAIN l.node
list_node(l, prev, next, v) ==
    [n \in DOMAIN l.node \cup {Fresh(l)} |->
        IF n = Fresh(l) THEN [prev |-> prev, next |-> next, data |-> v] ELSE l.node[n]]
Without(nodes, n) == [m \in DOMAIN nodes \ {n} |-> nodes[m]]

\* The iterators: ++ and += follow next, -- and the reverse iterators follow prev
Advance(l, n, k) == IF k = 0 THEN n ELSE Advance(l, l.node[n].next, k - 1)
At(l, k) == Advance(l, l.mFirstNode, k)
Follow(l, n, link, k) ==
    IF n = Null \/ k = 0 THEN <<>>
    ELSE IF n \notin DOMAIN l.node THEN <<"a deleted node">>
    ELSE <<l.node[n].data>> \o Follow(l, l.node[n][link], link, k - 1)
Walk(l) == Follow(l, l.mFirstNode, "next", Cardinality(DOMAIN l.node) + 1)
WalkBack(l) == Follow(l, l.mLastNode, "prev", Cardinality(DOMAIN l.node) + 1)

push_back(l, v) ==
    LET new  == Fresh(l)
        node == list_node(l, l.mLastNode, Null, v)
    IN  [node |-> IF l.mLastNode # Null THEN [node EXCEPT ![l.mLastNode].next = new] ELSE node,
         mFirstNode |-> IF l.mLastNode # Null THEN l.mFirstNode ELSE new,
         mLastNode |-> new, mSize |-> l.mSize + 1]

push_front(l, v) ==
    LET new  == Fresh(l)
        node == list_node(l, Null, l.mFirstNode, v)
    IN  [node |-> IF l.mFirstNode # Null THEN [node EXCEPT ![l.mFirstNode].prev = new] ELSE node,
         mLastNode |-> IF l.mFirstNode # Null THEN l.mLastNode ELSE new,
         mFirstNode |-> new, mSize |-> l.mSize + 1]

pop_back(l) ==
    LET before == l.node[l.mLastNode].prev
    IN  IF l.mSize = 1 THEN [EmptyList EXCEPT !.node = Without(l.node, l.mLastNode)]
        ELSE [l EXCEPT !.mSize = @ - 1, !.mLastNode = before,
                       !.node = Without([@ EXCEPT ![before].next = Null], l.mLastNode)]

pop_front(l) ==
    LET after == l.node[l.mFirstNode].next
    IN  IF l.mSize = 1 THEN [EmptyList EXCEPT !.node = Without(l.node, l.mFirstNode)]
        ELSE [l EXCEPT !.mSize = @ - 1, !.mFirstNode = after,
                       !.node = Without([@ EXCEPT ![after].prev = Null], l.mFirstNode)]

Clear(l) ==
    IF l.mSize = 0 THEN [l EXCEPT !.mFirstNode = Null, !.mLastNode = Null] ELSE Clear(pop_back(l))

\* insert() of an rvalue, and the part the two insert() share: link before pos
insert_moved(l, pos, v) ==
    LET new  == Fresh(l)
        prev == l.node[pos].prev
        node == [list_node(l, prev, pos, v) EXCEPT ![pos].prev = new]
    IN  IF pos = Null THEN push_back(l, v)
        ELSE [l EXCEPT !.mSize = @ + 1,
                       !.node = IF prev # Null THEN [node EXCEPT ![prev].next = new] ELSE node,
                       !.mFirstNode = IF prev # Null THEN @ ELSE new]

insert(l, pos, v) ==
    IF pos # Null /\ pos = l.mFirstNode THEN push_front(l, v) ELSE insert_moved(l, pos, v)

\* Each is inserted before the same position; the iterator is to the last of them
insert_range(l, pos, vs) ==
    FoldLeft(LAMBDA r, v : [list |-> insert(r.list, pos, v), it |-> Fresh(r.list)],
             [list |-> l, it |-> l.mLastNode], vs)
insert_count(l, pos, n, v) ==
    IF n = 0 THEN [list |-> l, it |-> Null] ELSE insert_range(l, pos, [i \in 1 .. n |-> v])

insert_index(l, k, v) == insert(l, At(l, k), v)

\* mutant of erase: a node in the middle is unlinked forwards only
erase_forwards(l, pos) ==
    LET n == l.node[pos]
    IN  IF pos = l.mFirstNode THEN [list |-> pop_front(l), it |-> n.next]
        ELSE IF pos = l.mLastNode THEN [list |-> pop_back(l), it |-> n.prev]
        ELSE [list |-> [l EXCEPT !.mSize = @ - 1,
                                 !.node = Without([@ EXCEPT ![n.prev].next = n.next], pos)],
              it |-> n.next]
\* mutant of erase: the iterator returned is always the one before
erase_returns_prev(l, pos) ==
    LET n == l.node[pos]
    IN  [list |-> IF pos = l.mFirstNode THEN pop_front(l) ELSE IF pos = l.mLastNode THEN pop_back(l)
                  ELSE [l EXCEPT !.mSize = @ - 1,
                                 !.node = Without([@ EXCEPT ![n.prev].next = n.next,
                                                            ![n.next].prev = n.prev], pos)],
         it |-> n.prev]

\* erase() of the last of several nodes returns the node before it
erase(l, pos) ==
    LET n == l.node[pos]
    IN  IF pos = l.mFirstNode THEN [list |-> pop_front(l), it |-> n.next]
        ELSE IF pos = l.mLastNode THEN [list |-> pop_back(l), it |-> n.prev]
        ELSE [list |-> [l EXCEPT !.mSize = @ - 1,
                                 !.node = Without([@ EXCEPT ![n.prev].next = n.next,
                                                            ![n.next].prev = n.prev], pos)],
              it |-> n.next]

\* The loop advances once more past the node erase() returned; past the end it
\* dereferences null, which the callers below exclude
EraseRange(l, begin, end) ==
    IF begin = end THEN [list |-> l, it |-> Null]
    ELSE LET r == erase(l, begin)
         IN  IF r.it = Null THEN [list |-> r.list, it |-> "null dereference"]
             ELSE LET rest == EraseRange(r.list, r.list.node[r.it].next, end)
                  IN  IF r.list.node[r.it].next = end THEN r ELSE rest

\* The two links of every node are swapped; first and last are then taken from
\* the neighbours of the node before the old last one
Reversed(l, current, temp) ==
    IF current = Null
    THEN IF temp = Null THEN l
         ELSE [l EXCEPT !.mFirstNode = l.node[temp].prev, !.mLastNode = l.node[temp].next]
    ELSE LET n == l.node[current]
         IN  Reversed([l EXCEPT !.node[current].prev = n.next, !.node[current].next = n.prev],
                      n.next, n.prev)
reverse(l) == IF l.mSize = 0 THEN l ELSE Reversed(l, l.mFirstNode, Null)

\* unique() keeps the first of every value, adjacent or not
Uniques(l, n, fresh) ==
    IF n = Null THEN fresh
    ELSE Uniques(l, l.node[n].next,
                 IF \E i \in DOMAIN Walk(fresh) : Walk(fresh)[i] = l.node[n].data THEN fresh
                 ELSE push_back(fresh, l.node[n].data))
unique(l) == IF l.mSize = 0 THEN l ELSE Uniques(l, l.mFirstNode, EmptyList)

\* remove() and remove_if() erase the first match and return
FirstMatch(l, v) ==
    LET step[n \in DOMAIN l.node \cup {Null}] ==
            IF n = Null \/ l.node[n].data = v THEN n ELSE step[l.node[n].next]
    IN  step[l.mFirstNode]
remove(l, v) == LET n == FirstMatch(l, v) IN IF n = Null THEN l ELSE erase(l, n).list

\* operator=(const list&), the copy constructors, assign() and the range constructors
copy(vs) == FoldLeft(push_back, EmptyList, vs)

\* serialize() writes the count and, for elements of variable length, a length
\* before each; deserialize() reads the count and that many elements
serialize(l, primitive) ==
    <<l.mSize>> \o FlattenSeq([i \in 1 .. l.mSize |->
                       IF primitive THEN <<Walk(l)[i]>> ELSE <<1, Walk(l)[i]>>])
deserialize(cells, primitive) ==
    copy([i \in 1 .. cells[1] |-> IF primitive THEN cells[1 + i] ELSE cells[1 + 2 * i]])
------------------------------------------------------------------------------
Init ==
    /\ self = EmptyList /\ other = EmptyList
    /\ items = <<>> /\ others = <<>>
    /\ it = Null /\ place = 0 /\ tailLost = FALSE

\* A method of self that returns no iterator
Becomes(l, vs) ==
    /\ self' = l /\ items' = vs
    /\ it' = Null /\ place' = 0
    /\ UNCHANGED <<other, others, tailLost>>
\* ... and one that returns an iterator, meant to be to index p
BecomesAt(l, vs, i, p) ==
    /\ self' = l /\ items' = vs
    /\ it' = i /\ place' = p
    /\ UNCHANGED <<other, others, tailLost>>

Room(n) == Len(items) + n <= MaxSelf
Positions == 0 .. Len(items)        \* Len(items) is end()

PushBack == \E v \in Values : Room(1) /\ Becomes(push_back(self, v), Append(items, v))
PushFront == \E v \in Values : Room(1) /\ Becomes(push_front(self, v), <<v>> \o items)
PopBack == items # <<>> /\ Becomes(pop_back(self), Front(items))
PopFront == items # <<>> /\ Becomes(pop_front(self), Tail(items))
ClearAll == items # <<>> /\ Becomes(Clear(self), <<>>)

Spread(k, vs) == SubSeq(items, 1, k) \o vs \o SubSeq(items, k + 1, Len(items))
Insert == \E k \in Positions, v \in Values :
    Room(1) /\ BecomesAt(insert(self, At(self, k), v), Spread(k, <<v>>), Fresh(self), k)
InsertMoved == \E k \in Positions, v \in Values :
    Room(1) /\ BecomesAt(insert_moved(self, At(self, k), v), Spread(k, <<v>>), Fresh(self), k)
InsertIndex == \E k \in Positions, v \in Values :
    Room(1) /\ BecomesAt(insert_index(self, k, v), Spread(k, <<v>>), Fresh(self), k)

\* Several are inserted in order before end(); before a node that was first, the
\* second goes between the first and that node, so the order is kept there too
InsertRange == \E k \in Positions :
    /\ others # <<>> /\ Room(Len(others))
    /\ LET r == insert_range(self, At(self, k), Walk(other))
       IN  BecomesAt(r.list, Spread(k, others), r.it, k + Len(others) - 1)
InsertCount == \E k \in Positions, n \in 0 .. 2, v \in Values :
    /\ Room(n)
    /\ LET r == insert_count(self, At(self, k), n, v)
       IN  BecomesAt(r.list, Spread(k, [i \in 1 .. n |-> v]), r.it,
                     IF n = 0 THEN Len(items) ELSE k + n - 1)

\* The exception: erasing the last of several returns the node before the end
Erase == \E k \in 0 .. Len(items) - 1 :
    LET r == erase(self, At(self, k))
    IN  BecomesAt(r.list, RemoveAt(items, k + 1), r.it,
                  IF k > 0 /\ k = Len(items) - 1 THEN k - 1 ELSE k)

\* The ranges erase(begin, end) gets right: the empty one and, of several, the last alone
EraseLast == \E k \in {Len(items) - 1, Len(items)} :
    /\ Len(items) > 1
    /\ LET r == EraseRange(self, At(self, k), Null)
       IN  Becomes(r.list, SubSeq(items, 1, k))

RemoveValue == \E v \in Values :
    Becomes(remove(self, v),
            IF v \in ToSet(items) THEN RemoveFirst(items, v) ELSE items)
Unique ==
    Becomes(unique(self),
            FoldLeft(LAMBDA s, v : IF v \in ToSet(s) THEN s ELSE Append(s, v), <<>>, items))

\* Of other lengths than 0, 1 and 3 reverse() leaves mLastNode on another node
ReverseAll ==
    /\ self' = reverse(self) /\ items' = Reverse(items)
    /\ it' = Null /\ place' = 0
    /\ tailLost' = (Len(items) \notin {0, 1, 3})
    /\ UNCHANGED <<other, others>>

\* splice() of one element inserts a copy and erases the original
SpliceOne == \E k \in Positions, j \in 0 .. Len(others) - 1 :
    /\ Room(1)
    /\ self' = insert(self, At(self, k), Walk(other)[j + 1])
    /\ other' = erase(other, At(other, j)).list
    /\ items' = Spread(k, <<others[j + 1]>>) /\ others' = RemoveAt(others, j + 1)
    /\ it' = Null /\ place' = 0
    /\ UNCHANGED tailLost
\* splice() of a range erases from where its own loop has ended: it only copies
SpliceRange == \E k \in Positions, j \in 0 .. Len(others) - 1 :
    /\ Room(Len(others) - j)
    /\ other' = EraseRange(other, Null, Null).list
    /\ Becomes(insert_range(self, At(self, k), SubSeq(Walk(other), j + 1, Len(others))).list,
               Spread(k, SubSeq(others, j + 1, Len(others))))

MoveOther ==
    /\ Len(others) > 0
    /\ self' = other /\ other' = EmptyList
    /\ items' = others /\ others' = <<>>
    /\ it' = Null /\ place' = 0
    /\ UNCHANGED tailLost
Swap ==
    /\ Len(items) <= MaxOther
    /\ self' = other /\ other' = self
    /\ items' = others /\ others' = items
    /\ it' = Null /\ place' = 0
    /\ UNCHANGED tailLost
\* operator=(const list&) clears first: assigned to itself a list is emptied
CopyOther == Becomes(copy(Walk(other)), others)
CopyItself == Becomes(copy(Walk(Clear(self))), <<>>)
Assign == \E n \in 0 .. 2, v \in Values : Becomes(copy([i \in 1 .. n |-> v]), [i \in 1 .. n |-> v])
Restore == \E primitive \in BOOLEAN :
    Becomes(deserialize(serialize(self, primitive), primitive), items)

Next ==
    /\ ~tailLost
    /\ \/ PushBack \/ PushFront \/ PopBack \/ PopFront \/ ClearAll
       \/ Insert \/ InsertMoved \/ InsertIndex \/ InsertRange \/ InsertCount
       \/ Erase \/ EraseLast \/ RemoveValue \/ Unique \/ ReverseAll
       \/ SpliceOne \/ SpliceRange \/ MoveOther \/ Swap \/ CopyOther \/ CopyItself
       \/ Assign \/ Restore

Spec == Init /\ [][Next]_vars
------------------------------------------------------------------------------
\* A list holds its elements both ways round, counts them, and owns no other node.
Holds(l, vs) ==
    /\ l.mSize = Len(vs) /\ Cardinality(DOMAIN l.node) = Len(vs)
    /\ Walk(l) = vs

\* Types of the lists and their histories.
TypeOK ==
    /\ DOMAIN self.node \subseteq NodeIds /\ DOMAIN other.node \subseteq NodeIds
    /\ items \in BoundedSeq(Values, MaxSelf) /\ others \in BoundedSeq(Values, MaxOther)
    /\ it \in NodeIds \cup {Null} /\ place \in 0 .. MaxSelf /\ tailLost \in BOOLEAN

\* After any sequence of methods both lists hold what they are meant to, walked
\* forwards and backwards, with no node leaked or shared (list.h); walked backwards
\* except after reverse() of a list of two or of more than three.
Represents ==
    /\ Holds(self, items) /\ Holds(other, others)
    /\ ~tailLost => WalkBack(self) = Reverse(items)
    /\ WalkBack(other) = Reverse(others)

\* insert() returns the last element it inserted and erase() the element after the
\* erased one (before it, when the erased one was the last of several).
ReturnsPlace == it # Null => it = At(self, place)
===============================================================================
