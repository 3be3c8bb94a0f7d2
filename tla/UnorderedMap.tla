------------------------------ MODULE UnorderedMap ------------------------------
(***************************************************************************)
(* mbase::unordered_map: a fixed number of buckets, each an mbase::list of   *)
(* pairs (List), and iterators that hold a bucket index and a list node.     *)
(* The maps of contexts, clients, models, sessions and requests are of this  *)
(* type, and several are filtered by a loop that erases where it stands:     *)
(* `it` is the iterator of such a loop.                                      *)
(***************************************************************************)
EXTENDS Naturals, Sequences, FiniteSets, Functions, SequencesExt

CONSTANTS
    Keys, Values,
    hash(_)     \* of a key

VARIABLES
    mBucket, mBucketCount, mSize,   \* this map
    it,                             \* the iterator of a loop over it
    contents,                       \* history: the function from keys to values it stands for
    first,                          \* history: the keys when the loop began
    visits                          \* history: how often the loop has stood on each key, at most 2

vars == <<mBucket, mBucketCount, mSize, it, contents, first, visits>>
mapVars == <<mBucket, mBucketCount, mSize, contents>>

Null == "null"      \* no list node
NoLoop == <<0, "none">>
gUmapDefaultBucketCount == 3        \* bound; 8 in the source
EmptyBuckets == [b \in 1 .. gUmapDefaultBucketCount |-> <<>>]

bucket(key) == (hash(key) % mBucketCount) + 1

\* Iterators: the first pair of the first bucket that holds one; end() is the null
\* node of the last such bucket, of bucket 0 when the map is empty
Filled(buckets) == {b \in DOMAIN buckets : buckets[b] # <<>>}
Least(s) == CHOOSE b \in s : \A c \in s : b <= c
Greatest(s) == CHOOSE b \in s : \A c \in s : b >= c
begin(buckets) ==
    IF Filled(buckets) = {} THEN <<1, Null>>
    ELSE LET b == Least(Filled(buckets)) IN <<b, buckets[b][1].first>>
end(buckets) ==
    IF Filled(buckets) = {} THEN <<1, Null>> ELSE <<Greatest(Filled(buckets)), Null>>

\* The first pair after bucket b
BeginAfter(buckets, b) ==
    LET later == {c \in Filled(buckets) : c > b}
    IN  IF later = {} THEN end(buckets) ELSE <<Least(later), buckets[Least(later)][1].first>>
IndexOf(list, key) == CHOOSE i \in DOMAIN list : list[i].first = key
increment(buckets, i) ==
    LET list == buckets[i[1]]
        n == IndexOf(list, i[2])
    IN  IF n < Len(list) THEN <<i[1], list[n + 1].first>> ELSE BeginAfter(buckets, i[1])

_is_key_duplicate(list, key) == \E i \in DOMAIN list : list[i].first = key
find(key) ==
    IF _is_key_duplicate(mBucket[bucket(key)], key) THEN <<bucket(key), key>> ELSE end(mBucket)
at(key) == LET list == mBucket[bucket(key)] IN list[IndexOf(list, key)].second
count(key) == IF find(key) = end(mBucket) THEN 0 ELSE 1

\* mutant of Inserted: a pair is appended without a look for its key
InsertedTwice(key, value) ==
    [mBucket EXCEPT ![bucket(key)] = Append(@, [first |-> key, second |-> value])]

\* insert() assigns to the pair of a key that is there already
Inserted(key, value) ==
    LET list == mBucket[bucket(key)]
        pair == [first |-> key, second |-> value]
    IN  IF _is_key_duplicate(list, key)
        THEN [mBucket EXCEPT ![bucket(key)][IndexOf(list, key)] = pair]
        ELSE [mBucket EXCEPT ![bucket(key)] = Append(@, pair)]

\* mutant of After: the search for the next pair begins one bucket late
AfterSkips(buckets, key) ==
    LET b == bucket(key)
        list == mBucket[b]
        n == IndexOf(list, key)
    IN  IF Len(list) = 1 THEN BeginAfter(buckets, b + 1)
        ELSE IF n > 1 /\ n = Len(list) THEN <<b, list[n - 1].first>>
        ELSE <<b, list[n + 1].first>>
\* What _erase() returns: of a list of several it is what list::erase returns, the
\* node before when the last was erased
After(buckets, key) ==
    LET b == bucket(key)
        list == mBucket[b]
        n == IndexOf(list, key)
    IN  IF Len(list) = 1
        THEN IF b = mBucketCount THEN end(buckets) ELSE BeginAfter(buckets, b)
        ELSE IF n > 1 /\ n = Len(list) THEN <<b, list[n - 1].first>>
        ELSE <<b, list[n + 1].first>>
_erase(key) == [mBucket EXCEPT ![bucket(key)] = RemoveAt(@, IndexOf(@, key))]
------------------------------------------------------------------------------
Init ==
    /\ mBucket = EmptyBuckets /\ mBucketCount = gUmapDefaultBucketCount /\ mSize = 0
    /\ contents = [k \in {} |-> 0]
    /\ it = NoLoop /\ first = {} /\ visits = [k \in Keys |-> 0]

\* No method is called while a loop runs but those of the loop, and none on a map
\* that was moved from but assignment: its bucket count is zero
Usable == it = NoLoop /\ mBucketCount > 0
KeepsLoop == UNCHANGED <<it, first, visits, mBucketCount>>

\* insert() and operator[]
Insert == \E k \in Keys, v \in Values :
    /\ Usable
    /\ mBucket' = Inserted(k, v)
    /\ mSize' = IF find(k) = end(mBucket) THEN mSize + 1 ELSE mSize
    /\ contents' = [j \in DOMAIN contents \cup {k} |-> IF j = k THEN v ELSE contents[j]]
    /\ KeepsLoop
EraseKey == \E k \in Keys :
    /\ Usable
    /\ IF count(k) = 1 THEN mBucket' = _erase(k) /\ mSize' = mSize - 1
                       ELSE UNCHANGED <<mBucket, mSize>>
    /\ contents' = Restrict(contents, DOMAIN contents \ {k})
    /\ KeepsLoop

\* A move leaves no bucket; the map that is assigned to takes them back
MoveAway ==
    /\ Usable
    /\ mBucket' = <<>> /\ mBucketCount' = 0 /\ mSize' = 0
    /\ contents' = Restrict(contents, {})
    /\ UNCHANGED <<it, first, visits>>
AssignEmpty ==
    /\ it = NoLoop
    /\ mBucket' = EmptyBuckets /\ mBucketCount' = gUmapDefaultBucketCount /\ mSize' = 0
    /\ contents' = Restrict(contents, {})
    /\ UNCHANGED <<it, first, visits>>

Stands(i) == [k \in Keys |-> IF k = i[2] /\ visits[k] < 2 THEN visits[k] + 1 ELSE visits[k]]

\* A loop: It = begin(); It != end(); and either ++It or It = erase(It)
LoopBegin ==
    /\ Usable
    /\ it' = begin(mBucket)
    /\ first' = DOMAIN contents
    /\ visits' = [k \in Keys |-> IF k = begin(mBucket)[2] THEN 1 ELSE 0]
    /\ UNCHANGED mapVars
LoopStep ==
    /\ it # NoLoop /\ it # end(mBucket)
    /\ it' = increment(mBucket, it)
    /\ visits' = Stands(it')
    /\ UNCHANGED <<mapVars, first>>
LoopErase ==
    /\ it # NoLoop /\ it # end(mBucket)
    /\ mBucket' = _erase(it[2]) /\ mSize' = mSize - 1
    /\ it' = After(mBucket', it[2])
    /\ contents' = Restrict(contents, DOMAIN contents \ {it[2]})
    /\ visits' = Stands(it')
    /\ UNCHANGED <<mBucketCount, first>>
LoopEnd ==
    /\ it # NoLoop /\ it = end(mBucket)
    /\ it' = NoLoop /\ first' = {} /\ visits' = [k \in Keys |-> 0]
    /\ UNCHANGED mapVars
\* clear() is the loop that erases everything
Loop == LoopStep \/ LoopErase \/ LoopEnd

Next == Insert \/ EraseKey \/ MoveAway \/ AssignEmpty \/ LoopBegin \/ LoopStep \/ LoopErase \/ LoopEnd
\* The loop is a sequential program
Spec == Init /\ [][Next]_vars
------------------------------------------------------------------------------
\* Types of the map, its iterator and the histories.
TypeOK ==
    /\ mBucketCount \in {0, gUmapDefaultBucketCount} /\ Len(mBucket) = mBucketCount
    /\ it = NoLoop \/ it \in (1 .. gUmapDefaultBucketCount) \X (Keys \cup {Null})
    /\ DOMAIN contents \subseteq Keys /\ first \subseteq Keys
    /\ visits \in [Keys -> 0 .. 2]

\* The lookups answer as the function the map stands for, and size() counts it,
\* whatever collides and in whatever order pairs come and go (unordered_map.h).
Lookups == mBucketCount > 0 =>
    /\ mSize = Cardinality(DOMAIN contents)
    /\ \A k \in Keys : count(k) = IF k \in DOMAIN contents THEN 1 ELSE 0
    /\ \A k \in DOMAIN contents : at(k) = contents[k]

\* A loop that erases where it stands has visited every pair when it reaches the
\* end, and it stands twice only on one whose successor in its bucket was erased.
LoopVisits ==
    /\ it # NoLoop /\ it = end(mBucket) => \A k \in first : visits[k] > 0
    /\ \A k \in Keys : visits[k] > 1 =>
        \E j \in first \ DOMAIN contents : j # k /\ hash(j) = hash(k)
===============================================================================
