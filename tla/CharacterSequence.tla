--------------------------- MODULE CharacterSequence ---------------------------
(***************************************************************************)
(* mbase::character_sequence (mbase::string): a buffer of mCapacity bytes,   *)
(* zeroed when allocated, of which mSize are the string.  Most methods build *)
(* a new string and move it over the old one; some work by mSize, some (the  *)
(* C functions behind ==, +, find and split) stop at the first NUL.  `self`  *)
(* and `other` are two strings, `text` and `others` what a caller believes   *)
(* they hold, and `exact` tells whether no known defect has touched them.    *)
(***************************************************************************)
EXTENDS Naturals, Sequences, SequencesExt, FiniteSetsExt

CONSTANTS
    Letters, Digits, Sign, Dot, \* the characters: two sets and two characters
    gStringDefaultCapacity,     \* bound; 8 in the source
    MaxLength,                  \* bound on the length of `self`
    MaxOther                    \* bound on the length of `other`

VARIABLES self, other, text, others, exact

vars == <<self, other, text, others, exact>>

Nul == "nul"
Chars == Letters \cup Digits \cup {Sign, Dot}
RECURSIVE calculate_capacity(_), Doubled(_, _), Words(_, _), Pieces(_, _, _)

\* The doubling loop of _calculate_capacity and the one of operator+
Doubled(base, n) == IF base <= n THEN Doubled(2 * base, n) ELSE base
calculate_capacity(n) == Doubled(gStringDefaultCapacity, n)
Padded(xs, capacity) == [i \in 1 .. capacity |-> IF i <= Len(xs) THEN xs[i] ELSE Nul]
Build(xs, capacity) == [raw |-> Padded(xs, capacity), mSize |-> Len(xs)]
MovedFrom == [raw |-> <<>>, mSize |-> 0]

Content(s) == SubSeq(s.raw, 1, s.mSize)
\* What a C function sees from a position on
UpToNul(xs) == LET nuls == {i \in DOMAIN xs : xs[i] = Nul}
               IN  IF nuls = {} THEN xs ELSE SubSeq(xs, 1, Min(nuls) - 1)
CStr(s) == UpToNul(s.raw)

\* mutant of push_back: the buffer grows when it is full, not one byte before
push_back_full(s, c) ==
    LET n == s.mSize + 1
        grown == IF n > Len(s.raw) THEN Padded(SubSeq(s.raw, 1, n - 1), calculate_capacity(2 * Len(s.raw)))
                 ELSE s.raw
    IN  [raw |-> [grown EXCEPT ![n] = c], mSize |-> n]

\* mCapacity is doubled, and _resize doubles it once more
push_back(s, c) ==
    LET n == s.mSize + 1
        grown == IF n >= Len(s.raw) THEN Padded(SubSeq(s.raw, 1, n), calculate_capacity(2 * Len(s.raw)))
                 ELSE s.raw
    IN  [raw |-> [grown EXCEPT ![n] = c], mSize |-> n]
Pushed(s, xs) == FoldLeft(push_back, s, xs)
pop_back(s) == [raw |-> [s.raw EXCEPT ![s.mSize] = Nul], mSize |-> s.mSize - 1]
clear(s) == [raw |-> Padded(<<>>, Len(s.raw)), mSize |-> 0]
Ranged(xs) == Pushed(Build(<<>>, gStringDefaultCapacity), xs)
copy(s) == Build(Content(s), Len(s.raw))                            \* the copy constructor
assign(s) == Build(Content(s), calculate_capacity(s.mSize))         \* operator=(const character_sequence&)

resize(s, n) ==
    IF n > s.mSize THEN [raw |-> Padded(Content(s), calculate_capacity(n)), mSize |-> n]
    ELSE [raw |-> [i \in DOMAIN s.raw |-> IF i > n /\ i <= s.mSize THEN Nul ELSE s.raw[i]], mSize |-> n]
\* A resize() whose size is put back: to less than the size it wipes the tail
reserve(s, n) == [resize(s, n) EXCEPT !.mSize = s.mSize]
shrink_to_fit(s) == IF s.mSize = Len(s.raw) THEN s ELSE Build(Content(s), calculate_capacity(s.mSize))

\* strncat of both: each operand ends at its first NUL, but counts with its size
Plus(s, t) ==
    LET left == UpToNul(Content(s))
        right == UpToNul(Content(t))
        total == s.mSize + t.mSize
    IN  [raw |-> [i \in 1 .. Doubled(Len(s.raw), total) |->
                     IF i <= Len(left) THEN left[i]
                     ELSE IF i > s.mSize /\ i - s.mSize <= Len(right) THEN right[i - s.mSize] ELSE Nul],
         mSize |-> total]
append(s, t) == IF t.mSize = 0 THEN s ELSE Plus(s, t)               \* operator+=

\* The character under the iterator is pushed before the end is looked at: a count
\* beyond the end brings the terminator along
substr(s, pos, n) ==
    IF pos >= s.mSize THEN copy(s) ELSE Ranged(SubSeq(s.raw, pos + 1, Min({pos + n, s.mSize + 1})))
Part(s, pos, n) ==                                                  \* the (string, pos, count) constructor
    IF pos > s.mSize THEN copy(s)
    ELSE Pushed(Build(<<>>, Len(s.raw)), SubSeq(s.raw, pos + 1, Min({pos + n, s.mSize})))
\* assign and append of a part do not look at the end at all
Unchecked(s, pos, n) == IF pos > s.mSize THEN Content(s) ELSE SubSeq(s.raw, pos + 1, pos + n)

\* mutant of insert: the tail is dropped
insert_cut(s, index, t) ==
    IF index >= s.mSize THEN append(s, t) ELSE append(Ranged(SubSeq(s.raw, 1, index)), t)

insert(s, index, t) ==
    IF index >= s.mSize THEN append(s, t)
    ELSE Pushed(append(Ranged(SubSeq(s.raw, 1, index)), t), SubSeq(s.raw, index + 1, s.mSize))
insert_chars(s, index, xs) ==
    IF index >= s.mSize THEN Pushed(s, xs)
    ELSE Pushed(Ranged(SubSeq(s.raw, 1, index)), xs \o SubSeq(s.raw, index + 1, s.mSize))

\* At the end, erase() pops count characters
RECURSIVE Popped(_, _)
Popped(s, n) == IF n = 0 THEN s ELSE Popped(pop_back(s), n - 1)
erase(s, index, n) ==
    IF index = s.mSize THEN Popped(s, n)
    ELSE Pushed(Ranged(SubSeq(s.raw, 1, index)), SubSeq(s.raw, index + n + 1, s.mSize))
\* The character at `from` goes even if the range is empty
erase_range(s, from, to) ==
    Pushed(Ranged(SubSeq(s.raw, 1, from)), SubSeq(s.raw, Max({from + 1, to}) + 1, s.mSize))
remove_all(s, c) == Ranged(SelectSeq(Content(s), LAMBDA x : x # c))

serialize(s) == <<s.mSize>> \o Content(s)
deserialize(bytes) == Build(SubSeq(bytes, 2, bytes[1] + 1), calculate_capacity(bytes[1]))
------------------------------------------------------------------------------
\* Queries
npos == 99
find(s, w, pos) ==
    LET seen == UpToNul(SubSeq(s.raw, pos + 1, Len(s.raw)))
        at == {i \in 0 .. Len(seen) : i + Len(w) <= Len(seen) /\ SubSeq(seen, i + 1, i + Len(w)) = w}
    IN  IF at = {} THEN npos ELSE pos + Min(at)
contains(s, w) == find(s, w, 0) # npos
starts_with(s, w) == Len(w) <= s.mSize /\ SubSeq(s.raw, 1, Len(w)) = w
ends_with(s, w) == Len(w) <= s.mSize /\ SubSeq(s.raw, s.mSize - Len(w) + 1, s.mSize) = w

\* mutant of split_char: a run of delimiters gives an empty piece
split_every(xs, d) ==
    LET rest == SelectInSeq(xs, LAMBDA x : x = d)
    IN  IF xs = <<>> THEN <<>>
        ELSE IF rest = 0 THEN <<xs>>
        ELSE <<SubSeq(xs, 1, rest - 1)>> \o Words(SubSeq(xs, rest + 1, Len(xs)), d)

\* strtok with one delimiter: delimiters in front are skipped
split_char(xs, d) ==
    LET rest == SelectInSeq(xs, LAMBDA x : x = d)
    IN  IF xs = <<>> THEN <<>>
        ELSE IF rest = 0 THEN <<xs>>
        ELSE (IF rest = 1 THEN <<>> ELSE <<SubSeq(xs, 1, rest - 1)>>)
             \o Words(SubSeq(xs, rest + 1, Len(xs)), d)
Words(xs, d) == split_char(xs, d)
split(s, d) == Words(CStr(s), d)

\* Pieces between the matches of w, which are looked for from one character after the
\* last match on; `at` is where the next piece starts, `match` the match before it ends
Pieces(s, w, state) ==
    LET at == state[1]
        match == state[2]
        piece == SubSeq(s.raw, at + 1, match)
        rest == Pieces(s, w, <<Max({at, match}) + Len(w), find(s, w, match + 1)>>)
    IN  IF match = npos
        THEN IF at = s.mSize THEN <<>> ELSE <<SubSeq(s.raw, at + 1, s.mSize)>>
        ELSE (IF piece = <<>> THEN <<>> ELSE <<piece>>) \o rest
split_full(s, w) ==
    IF contains(s, w) THEN Pieces(s, w, <<0, find(s, w, 0)>>) ELSE <<Content(s)>>

\* mutant of is_equal: only as far as the shorter one goes
is_prefix(s, t) == LET n == Min({s.mSize, t.mSize}) IN SubSeq(CStr(s), 1, n) = SubSeq(CStr(t), 1, n)
is_equal(s, t) == CStr(s) = CStr(t)                                 \* strcmp
\* lexicographical_compare of the contents; any order of the characters will do
Rank(c) == IF c = Nul THEN 0 ELSE CHOOSE i \in 1 .. Cardinality(Chars) : SetToSeq(Chars)[i] = c
Less(s, t) ==
    LET xs == Content(s)
        ys == Content(t)
    IN  \E n \in 0 .. Len(xs) :
          /\ n <= Len(ys) /\ SubSeq(xs, 1, n) = SubSeq(ys, 1, n)
          /\ n < Len(ys)
          /\ n = Len(xs) \/ Rank(xs[n + 1]) < Rank(ys[n + 1])

\* is_alnum(), is_alpha() ... of the whole string: every character is of the class, and
\* there is one
All(class, s) == s.mSize > 0 /\ ToSet(Content(s)) \subseteq class
is_digit(s) == All(Digits, s)

Unsigned(xs) == IF xs # <<>> /\ xs[1] = Sign THEN Tail(xs) ELSE xs
\* mutant of is_integer: the sign is not skipped
is_unsigned(xs) == xs # <<>> /\ ToSet(xs) \subseteq Digits
is_integer(xs) == xs # <<>> /\ ToSet(Unsigned(xs)) \subseteq Digits
is_float(xs) ==
    /\ xs # <<>> /\ ToSet(Unsigned(xs)) \subseteq Digits \cup {Dot}
    /\ Len(SelectSeq(Unsigned(xs), LAMBDA c : c = Dot)) <= 1
    /\ ToSet(Unsigned(xs)) \cap Digits # {}
\* mutant of get_extension: the first dot counts
get_first_extension(s) ==
    LET dots == {i \in 1 .. s.mSize : s.raw[i] = Dot}
    IN  IF dots = {} THEN <<>> ELSE SubSeq(s.raw, Min(dots) + 1, s.mSize)
get_extension(s) ==
    LET dots == {i \in 1 .. s.mSize : s.raw[i] = Dot}
    IN  IF dots = {} THEN <<>> ELSE SubSeq(s.raw, Max(dots) + 1, s.mSize)
------------------------------------------------------------------------------
Init ==
    /\ self = Build(<<>>, gStringDefaultCapacity) /\ other = self
    /\ text = <<>> /\ others = <<>>
    /\ exact = TRUE

\* A string that was moved from can be assigned to and nothing else: push_back() writes
\* through the null pointer and operator+ doubles a capacity of 0 for ever.  A string a
\* known defect has touched is not edited further either, to keep the model small
Usable == self.raw # <<>> /\ exact
Becomes(s, xs, ok) ==
    /\ Len(xs) <= MaxLength /\ s.mSize <= MaxLength
    /\ self' = s /\ text' = xs /\ exact' = ok
    /\ UNCHANGED <<other, others>>
Places == 0 .. Len(text)
Spliced(at, xs, from) == SubSeq(text, 1, at) \o xs \o SubSeq(text, from + 1, Len(text))

PushBack == \E c \in Chars : Usable /\ Becomes(push_back(self, c), Append(text, c), exact)
PopBack == Usable /\ self.mSize > 0 /\ Becomes(pop_back(self), Front(text), exact)
Clear == Becomes(clear(self), <<>>, TRUE)
AppendOther == Usable /\ Becomes(append(self, other), text \o others, exact)
AppendItself == Usable /\ Becomes(append(self, self), text \o text, exact)
AppendPart == \E p \in Places, n \in 1 .. 2 :
    /\ Usable /\ (p <= other.mSize => p + n <= Len(other.raw))
    /\ Becomes(Pushed(self, Unchecked(other, p, n)),
               text \o (IF p > Len(others) THEN others ELSE SubSeq(others, p + 1, Min({p + n, Len(others)}))),
               exact /\ (p > Len(others) \/ p + n <= Len(others)))
Insert == \E p \in Places : Usable /\ Becomes(insert(self, p, other), Spliced(p, others, p), exact)
InsertPart == \E p \in Places, from \in 0 .. 1, n \in 1 .. 2 :
    /\ Usable /\ from < Len(others)
    /\ Becomes(insert(self, p, substr(other, from, n)),
               Spliced(p, SubSeq(others, from + 1, Min({from + n, Len(others)})), p),
               exact /\ from + n <= Len(others))
InsertChars == \E p \in Places, c \in Chars, n \in 1 .. 2 :
    /\ Usable
    /\ Becomes(insert_chars(self, p, [i \in 1 .. n |-> c]), Spliced(p, [i \in 1 .. n |-> c], p), exact)
\* Beyond the end the count runs past the buffer, at the end it pops from the string
Erase == \E p \in Places, n \in 0 .. 2 :
    /\ Usable /\ IF p = self.mSize THEN n <= self.mSize ELSE p + n <= self.mSize
    /\ Becomes(erase(self, p, n), IF p = Len(text) THEN SubSeq(text, 1, p - n) ELSE Spliced(p, <<>>, p + n), exact)
EraseRange == \E from, to \in Places :
    /\ Usable /\ from < self.mSize /\ from <= to
    /\ Becomes(erase_range(self, from, to), Spliced(from, <<>>, Max({to, from + 1})), exact)
RemoveAll == \E c \in Chars : Usable /\ Becomes(remove_all(self, c), SelectSeq(text, LAMBDA x : x # c), exact)
Resize == \E n \in Places : Usable /\ Becomes(resize(self, n), SubSeq(text, 1, n), exact)
Reserve == \E n \in 1 .. MaxLength :
    Usable /\ Becomes(reserve(self, n), text, exact /\ n >= self.mSize)
Shrink == Usable /\ Becomes(shrink_to_fit(self), text, exact)
Substr == \E p \in 0 .. 1, n \in 1 .. 2 :
    /\ p < Len(others)
    /\ Becomes(substr(other, p, n), SubSeq(others, p + 1, Min({p + n, Len(others)})), p + n <= Len(others))
Construct == \E p \in 0 .. 1, n \in 1 .. 2 :
    /\ p <= Len(others) /\ other.raw # <<>>
    /\ Becomes(Part(other, p, n), SubSeq(others, p + 1, Min({p + n, Len(others)})), TRUE)
Copy == Becomes(assign(other), others, TRUE)
CopyItself == text # <<>> /\ Becomes(Build(<<>>, gStringDefaultCapacity), <<>>, TRUE)
Restore == Becomes(deserialize(serialize(self)), text, exact)
\* `other` only takes strings no known defect has touched
Move ==
    /\ self' = other /\ other' = MovedFrom
    /\ text' = others /\ others' = <<>> /\ exact' = TRUE
Swap ==
    /\ exact /\ Len(text) <= MaxOther
    /\ self' = other /\ other' = self
    /\ text' = others /\ others' = text /\ UNCHANGED exact

Next ==
    \/ PushBack \/ PopBack \/ Clear \/ AppendOther \/ AppendItself \/ AppendPart
    \/ Insert \/ InsertPart \/ InsertChars \/ Erase \/ EraseRange \/ RemoveAll
    \/ Resize \/ Reserve \/ Shrink \/ Substr \/ Construct
    \/ Copy \/ CopyItself \/ Restore \/ Move \/ Swap
Spec == Init /\ [][Next]_vars
------------------------------------------------------------------------------
\* Types of the strings.
TypeOK ==
    /\ text \in BoundedSeq(Chars, MaxLength) /\ others \in BoundedSeq(Chars, MaxLength)
    /\ exact \in BOOLEAN
    /\ \A s \in {self, other} : s.mSize <= Len(s.raw)

\* Every buffer ends in NULs from the size on, so that c_str(), ==, find() and split()
\* stop in the string; the defects that put a NUL in it keep that (push_back, _resize).
Terminated == \A s \in {self, other} :
    s.raw # <<>> => s.mSize < Len(s.raw) /\ \A i \in s.mSize + 1 .. Len(s.raw) : s.raw[i] = Nul

\* After any sequence of methods the string is what the caller believes, unless a substr()
\* or an append() of a part ran into the terminator or reserve() wiped the tail.
Represents == (exact => Content(self) = text) /\ Content(other) = others

\* split() gives the stretches between the delimiters, split_full() those between the
\* occurrences of a word: together the string without them, and none of them empty.
SplitsRight == exact =>
    LET tokens == split(self, Sign)
        pieces == split_full(self, <<Sign, Dot>>)
    IN  /\ \A i \in DOMAIN tokens : tokens[i] # <<>> /\ Sign \notin ToSet(tokens[i])
        /\ FlattenSeq(tokens) = SelectSeq(text, LAMBDA c : c # Sign)
        /\ \A i \in DOMAIN pieces : ~contains(Ranged(pieces[i]), <<Sign, Dot>>)
        /\ text # <<>> => \A i \in DOMAIN pieces : pieces[i] # <<>>

\* starts_with() and ends_with(), which compare memory, agree with find(), which looks at C
\* strings; get_extension() is the last stretch between dots split() gives, by which the
\* state file (pc_state.cpp:295) is given its own extension or not.
SearchesAgree == exact =>
    /\ \A w \in {<<Sign>>, <<Sign, Dot>>} :
         /\ starts_with(self, w) <=> find(self, w, 0) = 0
         /\ ends_with(self, w) <=> self.mSize >= Len(w) /\ find(self, w, self.mSize - Len(w)) # npos
    /\ get_extension(self) # <<>> =>
         split(self, Dot) # <<>> /\ get_extension(self) = Last(split(self, Dot))

\* is_integer() accepts what is_float() accepts without a dot, and a lone sign, which the
\* MAIP parser then takes for the number 0; is_digit() of the whole string agrees (three
\* loops over the characters of their own).
IntegersAreNumbers ==
    /\ is_integer(CStr(self)) <=>
         CStr(self) = <<Sign>> \/ (is_float(CStr(self)) /\ Dot \notin ToSet(CStr(self)))
    /\ exact /\ is_integer(CStr(self)) => is_digit(self) \/ self.raw[1] = Sign

\* Exactly one of <, == and > holds of two strings: ==, which sees C strings, agrees with
\* <, which sees the characters, as long as there is no NUL inside.
OrderTotal == exact =>
    /\ is_equal(self, other) => ~Less(self, other) /\ ~Less(other, self)
    /\ ~is_equal(self, other) => (Less(self, other) # Less(other, self))
==============================================================================
