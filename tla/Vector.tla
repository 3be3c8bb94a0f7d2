--------------------------------- MODULE Vector ---------------------------------
(***************************************************************************)
(* mbase::vector: storage for mCapacity elements of which the first mSize   *)
(* are constructed.  A vector is the sequence of its cells and its size; a  *)
(* cell that holds no element is Raw, or Written when bytes were stored      *)
(* through data() without a constructor.  `self` and `other` are two        *)
(* vectors, `items` and `others` what a caller believes they hold.          *)
(***************************************************************************)
EXTENDS Naturals, Sequences, SequencesExt

CONSTANTS
    Values,
    gVectorDefaultCapacity,     \* bound; 4 in the source
    MaxSize,                    \* bound on the size of a vector
    MaxCapacity                 \* bound on its capacity

VARIABLES self, other, items, others

vars == <<self, other, items, others>>

Raw == "raw"
Written(v) == <<"bytes", v>>
RECURSIVE calculate_capacity(_, _), resize_on_preset(_, _)

Unbuilt == [cell |-> <<>>, mSize |-> 0]
build_vector(n) == [cell |-> [i \in 1 .. n |-> Raw], mSize |-> 0]
calculate_capacity(base, n) == IF base <= n THEN calculate_capacity(2 * base, n) ELSE base
capacity(v) == Len(v.cell)

\* Elements are moved to the new storage and destroyed in the old
reserve(v, n) ==
    IF n <= capacity(v) THEN v
    ELSE [v EXCEPT !.cell = [i \in 1 .. n |-> IF i <= v.mSize THEN v.cell[i] ELSE Raw]]

push_back(v, x) ==
    LET w == IF v.mSize = capacity(v) THEN reserve(v, 2 * capacity(v) + 1) ELSE v
    IN  [cell |-> [w.cell EXCEPT ![w.mSize + 1] = x], mSize |-> w.mSize + 1]
Pushed(v, xs) == FoldLeft(push_back, v, xs)
pop_back(v) == IF v.mSize = 0 THEN v ELSE [cell |-> [v.cell EXCEPT ![v.mSize] = Raw], mSize |-> v.mSize - 1]
Elements(v, from, to) == SubSeq(v.cell, from, to)       \* from an iterator to another

clear(v) == build_vector(capacity(v))
\* operator=(vector&&): deep_clear(), then the storage of the other
shrink_to_fit(v) ==
    IF v.mSize = capacity(v) THEN v
    ELSE Pushed(build_vector(IF v.mSize = 0 THEN gVectorDefaultCapacity
                             ELSE calculate_capacity(gVectorDefaultCapacity, v.mSize)),
                Elements(v, 1, v.mSize))

\* The copy constructor and operator=(const vector&) keep the capacity of the source
copy(v) ==
    Pushed(build_vector(IF capacity(v) = 0 THEN gVectorDefaultCapacity ELSE capacity(v)),
           Elements(v, 1, v.mSize))
Filled(n, x) ==
    IF n = 0 THEN build_vector(gVectorDefaultCapacity)
    ELSE Pushed(build_vector(calculate_capacity(gVectorDefaultCapacity, n)), [i \in 1 .. n |-> x])

resize(v, n, default) ==
    IF n >= v.mSize
    THEN Pushed(IF n > capacity(v) THEN reserve(v, 2 * n) ELSE v, [i \in 1 .. n - v.mSize |-> default])
    ELSE [cell |-> [i \in DOMAIN v.cell |-> IF i <= n THEN v.cell[i] ELSE Raw], mSize |-> n]

\* Each element is constructed from the bytes already in its cell
Preset(c) == IF c = Raw THEN c ELSE c[2]
resize_on_preset(v, n) ==
    IF n > capacity(v) THEN resize_on_preset(reserve(v, 2 * n), n)
    ELSE [cell |-> [i \in DOMAIN v.cell |->
                      IF i > n THEN (IF i <= v.mSize THEN Raw ELSE v.cell[i])
                      ELSE IF i <= v.mSize THEN v.cell[i] ELSE Preset(v.cell[i])],
          mSize |-> n]

\* insert() of a range or of copies in the middle fills a new vector
insert(v, pos, xs) ==
    IF pos = v.mSize + 1 THEN Pushed(v, xs)
    ELSE Pushed(build_vector(IF capacity(v) = 0 THEN gVectorDefaultCapacity
                             ELSE calculate_capacity(gVectorDefaultCapacity, capacity(v))),
                Elements(v, 1, pos - 1) \o xs \o Elements(v, pos, v.mSize))

\* mutant of erase: the elements behind are not moved down
erase_last(v, pos) == pop_back(v)

\* erase(end()) is a pop_back(), and erase(it, it) erases what `it` points to
erase(v, pos) ==
    LET down == [i \in DOMAIN v.cell |->
                    IF i >= pos /\ i < v.mSize THEN v.cell[i + 1] ELSE v.cell[i]]
    IN  IF pos = v.mSize + 1 THEN pop_back(v) ELSE pop_back([v EXCEPT !.cell = down])
erase_range(v, from, to) ==
    IF from = to THEN erase(v, from)
    ELSE Pushed(build_vector(gVectorDefaultCapacity),
                Elements(v, 1, from - 1) \o Elements(v, to, v.mSize))
pop_front(v) ==
    IF v.mSize = 0 THEN v
    ELSE Pushed(build_vector(calculate_capacity(gVectorDefaultCapacity, capacity(v))),
                Elements(v, 2, v.mSize))

\* The count, and a length before each element that is not a number
serialize(v, primitive) ==
    <<v.mSize>> \o FlattenSeq([i \in 1 .. v.mSize |->
                       IF primitive THEN <<v.cell[i]>> ELSE <<1, v.cell[i]>>])
deserialize(bytes, primitive) ==
    Pushed(build_vector(gVectorDefaultCapacity),
           [i \in 1 .. bytes[1] |-> IF primitive THEN bytes[1 + i] ELSE bytes[1 + 2 * i]])
------------------------------------------------------------------------------
Init ==
    /\ self = build_vector(gVectorDefaultCapacity) /\ other = self
    /\ items = <<>> /\ others = <<>>

\* pop_front() and insert() in the middle double the capacity each time: it is bounded
Becomes(v, xs) == capacity(v) <= MaxCapacity /\ self' = v /\ items' = xs /\ UNCHANGED <<other, others>>
Room(n) == Len(items) + n <= MaxSize
Places == 1 .. Len(items) + 1       \* the last is end()
Without(from, to) == SubSeq(items, 1, from - 1) \o SubSeq(items, to, Len(items))

PushBack == \E x \in Values : Room(1) /\ Becomes(push_back(self, x), Append(items, x))
PopBack == Becomes(pop_back(self), IF items = <<>> THEN items ELSE Front(items))
PopFront == Becomes(pop_front(self), IF items = <<>> THEN items ELSE Tail(items))
Clear == Becomes(clear(self), <<>>)
Shrink == Becomes(shrink_to_fit(self), items)
Reserve == \E n \in 1 .. MaxSize : Becomes(reserve(self, n), items)
Resize == \E n \in 0 .. MaxSize, x \in Values :
    Becomes(resize(self, n, x), [i \in 1 .. n |-> IF i <= Len(items) THEN items[i] ELSE x])
Insert == \E p \in Places, n \in 1 .. 2, x \in Values :
    /\ Room(n)
    /\ Becomes(insert(self, p, [i \in 1 .. n |-> x]),
               SubSeq(items, 1, p - 1) \o [i \in 1 .. n |-> x] \o SubSeq(items, p, Len(items)))
InsertOther == \E p \in Places :
    /\ others # <<>> /\ Room(Len(others))
    /\ Becomes(insert(self, p, Elements(other, 1, other.mSize)),
               SubSeq(items, 1, p - 1) \o others \o SubSeq(items, p, Len(items)))
Erase == \E p \in Places :
    Becomes(erase(self, p),
            IF p <= Len(items) THEN RemoveAt(items, p) ELSE IF items = <<>> THEN items ELSE Front(items))
EraseRange == \E from, to \in Places :
    /\ from <= to
    /\ Becomes(erase_range(self, from, to),
               IF from < to THEN Without(from, to)
               ELSE IF from <= Len(items) THEN RemoveAt(items, from)
               ELSE IF items = <<>> THEN items ELSE Front(items))

\* The tokenizer stores tokens through data() into a vector with room for them and
\* then sets its size: vector(n) has more room than n
Tokenize == \E n \in 0 .. 2 : \E xs \in [1 .. n -> Values] :
    LET fresh == build_vector(IF n = 0 THEN gVectorDefaultCapacity
                              ELSE calculate_capacity(gVectorDefaultCapacity, n))
        stored == [fresh EXCEPT !.cell = [i \in DOMAIN @ |-> IF i <= n THEN Written(xs[i]) ELSE @[i]]]
    IN  Becomes([resize_on_preset(stored, n) EXCEPT !.cell = [i \in DOMAIN @ |-> IF i <= n THEN @[i] ELSE Raw]],
                xs)

Copy == Becomes(IF other.mSize = 0 THEN shrink_to_fit(clear(self)) ELSE copy(other), others)
\* operator=(const vector&) clears first: of itself it leaves the default capacity
CopyItself == items # <<>> /\ Becomes(build_vector(gVectorDefaultCapacity), <<>>)
Move ==
    /\ self' = other /\ other' = Unbuilt
    /\ items' = others /\ others' = <<>>
Swap ==
    /\ self' = other /\ other' = self
    /\ items' = others /\ others' = items
Assign == \E n \in 0 .. 2, x \in Values : Becomes(Filled(n, x), [i \in 1 .. n |-> x])
Restore == \E primitive \in BOOLEAN :
    Becomes(deserialize(serialize(self, primitive), primitive), items)

Next ==
    \/ PushBack \/ PopBack \/ PopFront \/ Clear \/ Shrink \/ Reserve \/ Resize
    \/ Insert \/ InsertOther \/ Erase \/ EraseRange \/ Tokenize
    \/ Copy \/ CopyItself \/ Move \/ Swap \/ Assign \/ Restore
Spec == Init /\ [][Next]_vars
------------------------------------------------------------------------------
\* Types of the vectors; no element is outside the storage.
TypeOK ==
    /\ items \in BoundedSeq(Values, MaxSize) /\ others \in BoundedSeq(Values, MaxSize)
    /\ self.mSize <= capacity(self) /\ other.mSize <= capacity(other)

\* After any sequence of methods, growth and reallocation included, the first size()
\* cells hold the elements in order and no other cell holds a constructed one, so
\* that every element is destroyed exactly once (vector.h).
Holds(v, xs) ==
    /\ v.mSize = Len(xs) /\ v.mSize <= capacity(v)
    /\ \A i \in DOMAIN v.cell : v.cell[i] = IF i <= v.mSize THEN xs[i] ELSE Raw
Represents == Holds(self, items) /\ Holds(other, others)
===============================================================================
