------------------------------- MODULE StateFile -------------------------------
(***************************************************************************)
(* Persistent key-value state (pc_state.cpp): a PcState object holds the   *)
(* keys of one file in memory, loads them by initialize() and rewrites the *)
(* file by update(), which initialize() for another name and the           *)
(* destructor call as well.                                                *)
(*                                                                         *)
(* A file is the sequence of what was written by one call each: the header *)
(* with the number of structs, then a struct per key.  The disk may refuse *)
(* to open or to write, and the program may be killed between two writes.  *)
(* An object no constructor has run for is like a new one, so destruction  *)
(* and construction are one step.                                          *)
(***************************************************************************)
EXTENDS Naturals, Sequences, Functions

CONSTANTS
    Objects,    \* variables of type PcState
    Names,      \* object names, one file each
    Order,      \* the keys, in the order the map is walked
    Values

None == ""
Maps == UNION {[ks -> Values] : ks \in SUBSET Range(Order)}

VARIABLES
    state,      \* object to its members
    files,      \* name to what the file holds
    told,       \* history: name to the keys and values the application gave it
    spoiled     \* history: the names a known way of losing changes has happened to

vars == <<state, files, told, spoiled>>

Record == [mIsInitialized : BOOLEAN, mIsModified : BOOLEAN, name : Names \cup {None},
           mKvMap : Maps, moved : BOOLEAN]

TypeOK ==
    /\ DOMAIN state = Objects /\ Range(state) \subseteq Record
    /\ DOMAIN files \subseteq Names
    /\ \A f \in DOMAIN files : files[f] # <<>> => files[f][1] \in 0..Len(Order)
    /\ DOMAIN told = Names /\ Range(told) \subseteq Maps
    /\ spoiled \subseteq Names

Empty == [k \in {} |-> 0]
Blank == [mIsInitialized |-> FALSE, mIsModified |-> FALSE, name |-> None, mKvMap |-> Empty,
          moved |-> FALSE]

Init ==
    /\ state = [o \in Objects |-> Blank]
    /\ files = <<>>
    /\ told = [f \in Names |-> Empty]
    /\ spoiled = {}

With(m, k, v) == [x \in DOMAIN m \cup {k} |-> IF x = k THEN v ELSE m[x]]
Without(m, k) == Restrict(m, DOMAIN m \ {k})

-----------------------------------------------------------------------------
(* The file                                                                *)

Cells(m) ==
    LET keys == SelectSeq(Order, LAMBDA k : k \in DOMAIN m)
    IN [i \in DOMAIN keys |-> [key |-> keys[i], value |-> m[keys[i]]]]
WrittenShort(m) == <<IF Cells(m) = <<>> THEN 0 ELSE Len(Cells(m)) - 1>> \o Cells(m)
\* The header counts the structs behind it
Written(m) == <<Len(Cells(m))>> \o Cells(m)

\* advance_safe does not reach the end of the buffer: the last struct stays under the cursor, and
\* stands for those that are missing
Cursor(file, i) == IF i < Len(file) THEN i + 1 ELSE Len(file)
Structs(file) == IF file = <<>> THEN {} ELSE {Cursor(file, i) : i \in 1..file[1]}
\* Behind a header without structs the cursor does not move either: the magic bytes are read as
\* the length of a key, and the copy runs out of memory
Loadable(file) == 1 \notin Structs(file)
Loaded(file) ==
    [k \in {file[i].key : i \in Structs(file)} |->
        file[CHOOSE i \in Structs(file) : file[i].key = k].value]
Content(fs, f) == IF f \in DOMAIN fs THEN fs[f] ELSE <<>>

\* What update() may lead to.  A file that cannot be opened leaves the object modified; after a
\* write that failed it is not, and the file is cut.
Writes(s) ==
    LET cells == Written(s.mKvMap)
    IN {[files |-> With(files, s.name, SubSeq(cells, 1, n)), modified |-> FALSE,
         whole |-> n = Len(cells), lost |-> IF n = Len(cells) THEN {} ELSE {s.name}] :
        n \in 0..Len(cells)}
Unwritten(modified, lost) ==
    {[files |-> files, modified |-> modified, whole |-> FALSE, lost |-> lost]}
Pending(s) == s.mIsInitialized /\ s.mIsModified
update_always_clean(o) ==
    IF Pending(state[o]) THEN Unwritten(FALSE, {}) \cup Writes(state[o])
    ELSE Unwritten(state[o].mIsModified, {})
update(o) ==
    IF Pending(state[o]) THEN Unwritten(TRUE, {state[o].name}) \cup Writes(state[o])
    ELSE Unwritten(state[o].mIsModified, {})

-----------------------------------------------------------------------------
(* History: a name that no other object has open is whole again once it    *)
(* has been written or loaded                                              *)

Has(o, f) == state[o].mIsInitialized /\ state[o].name = f
Sole(o, f) == \A p \in Objects \ {o} : ~Has(p, f)
Kept(o, u) == IF u.whole /\ Sole(o, state[o].name) THEN {state[o].name} ELSE {}
ToldAfter(o, u) ==
    [f \in Names |-> IF f \in Kept(o, u) /\ f \in spoiled THEN state[o].mKvMap ELSE told[f]]

\* The program is gone, and only what is in the files stays
Die(fs) ==
    /\ state' = [o \in Objects |-> Blank]
    /\ files' = fs
    /\ told' = [f \in Names |-> IF Loadable(Content(fs, f)) THEN Loaded(Content(fs, f)) ELSE Empty]
    /\ spoiled' = {f \in Names : ~Loadable(Content(fs, f))}

-----------------------------------------------------------------------------
(* The calls                                                               *)

Update(o) == \E u \in update(o) :
    /\ files' = u.files
    /\ state' = [state EXCEPT ![o].mIsModified = u.modified]
    /\ told' = ToldAfter(o, u)
    /\ spoiled' = IF u.modified THEN spoiled ELSE (spoiled \cup u.lost) \ Kept(o, u)

destroy_unsaved(o) ==
    /\ state' = [state EXCEPT ![o] = Blank]
    /\ UNCHANGED <<files, told, spoiled>>
\* ~PcState
Destroy(o) == \E u \in update(o) :
    /\ files' = u.files
    /\ state' = [state EXCEPT ![o] = Blank]
    /\ told' = ToldAfter(o, u)
    /\ spoiled' = (spoiled \cup u.lost) \ Kept(o, u)

\* Both initializations: the earlier name is updated and closed.  No object name is the path of
\* a file, so the comparison with mFullStateName never ends the call.
Closed(o, u) ==
    /\ files' = u.files
    /\ state' = [state EXCEPT ![o] = [Blank EXCEPT !.moved = state[o].moved]]
    /\ told' = ToldAfter(o, u)
    /\ spoiled' = (spoiled \cup u.lost) \ Kept(o, u)
Opened(o, f, m) ==
    state' = [state EXCEPT ![o] = [mIsInitialized |-> TRUE, mIsModified |-> FALSE, name |-> f,
                                   mKvMap |-> m, moved |-> state[o].moved]]

InitializeNothing(o) == \E u \in update(o) : Closed(o, u)

initialize_unsaved(o, f) ==
    /\ Loadable(Content(files, f)) /\ ~state[o].moved
    /\ Opened(o, f, Loaded(Content(files, f)))
    /\ spoiled' = IF Sole(o, f) THEN spoiled ELSE spoiled \cup {f}
    /\ UNCHANGED <<files, told>>
\* A file that does not open is taken for an empty one.  A map that was moved from divides by
\* zero for the first key it is given.
Initialize(o, f) == \E u \in update(o), opens \in BOOLEAN :
    LET file == IF opens THEN Content(u.files, f) ELSE <<>>
        before == (spoiled \cup u.lost) \ Kept(o, u)
    IN IF ~Loadable(file) \/ (state[o].moved /\ Structs(file) # {})
       THEN Die(u.files)
       ELSE /\ opens \/ f \in DOMAIN u.files
            /\ files' = u.files
            /\ Opened(o, f, Loaded(file))
            /\ IF ~Sole(o, f) \/ ~opens
               THEN spoiled' = before \cup {f} /\ told' = ToldAfter(o, u)
               ELSE /\ spoiled' = before \ {f}
                    /\ told' = IF f \in before THEN [ToldAfter(o, u) EXCEPT ![f] = Loaded(file)]
                               ELSE ToldAfter(o, u)

InitializeOverwrite(o, f) == \E u \in update(o), opens \in BOOLEAN :
    LET before == (spoiled \cup u.lost) \ Kept(o, u) IN
    /\ files' = IF opens THEN With(u.files, f, <<>>) ELSE u.files
    /\ Opened(o, f, Empty)
    /\ told' = [ToldAfter(o, u) EXCEPT ![f] = Empty]
    /\ spoiled' = IF Sole(o, f) /\ opens THEN before \ {f} ELSE before \cup {f}

modify_quietly(o, m) ==
    /\ state[o].mIsInitialized
    /\ state' = [state EXCEPT ![o].mKvMap = m]
    /\ told' = IF state[o].name \in spoiled THEN told ELSE [told EXCEPT ![state[o].name] = m]
    /\ UNCHANGED <<files, spoiled>>
Modify(o, m) ==
    /\ state[o].mIsInitialized
    /\ state' = [state EXCEPT ![o].mKvMap = m, ![o].mIsModified = TRUE]
    /\ told' = IF state[o].name \in spoiled THEN told ELSE [told EXCEPT ![state[o].name] = m]
    /\ UNCHANGED <<files, spoiled>>

\* set_state, remove_state; neither does anything before initialize
SetState(o, k, v) == ~state[o].moved /\ Modify(o, With(state[o].mKvMap, k, v))
RemoveState(o, k) ==
    /\ ~state[o].moved /\ k \in DOMAIN state[o].mKvMap
    /\ Modify(o, Without(state[o].mKvMap, k))
\* All three, and get_state, look the key up
UseMoved(o) == state[o].mIsInitialized /\ state[o].moved /\ Die(files)

move_keeps_source(from, to) ==
    /\ from # to
    /\ state' = [state EXCEPT ![to] = state[from],
                              ![from].mKvMap = Empty, ![from].moved = TRUE]
    /\ UNCHANGED <<files, told, spoiled>>
\* The move constructor, onto a new object, and the move assignment, which does not update what
\* it overwrites
Move(from, to) ==
    /\ from # to
    /\ state' = [state EXCEPT ![to] = state[from], ![from] = [Blank EXCEPT !.moved = TRUE]]
    /\ spoiled' = IF state[to].mIsModified THEN spoiled \cup {state[to].name} ELSE spoiled
    /\ UNCHANGED <<files, told>>

\* Between two calls, or between two writes of an update
Crash == \/ Die(files)
         \/ \E o \in Objects : \E u \in update(o) : Die(u.files)

Next ==
    \/ \E o \in Objects :
        \/ Update(o) \/ Destroy(o) \/ InitializeNothing(o) \/ UseMoved(o)
        \/ \E f \in Names : Initialize(o, f) \/ InitializeOverwrite(o, f)
        \/ \E k \in Range(Order) : RemoveState(o, k) \/ \E v \in Values : SetState(o, k, v)
        \/ \E to \in Objects : Move(o, to)
    \/ Crash

Spec == Init /\ [][Next]_vars

-----------------------------------------------------------------------------

\* What the application gave a name is what the object in memory holds, and once nothing is
\* modified or nobody has the name open, what the next initialize() loads from its file; not where
\* a disk error, a second object of the name or a move assignment has lost it (spoiled).
StateKept ==
    /\ \A o \in Objects : LET s == state[o] IN
        s.mIsInitialized /\ s.name \notin spoiled =>
            /\ s.mKvMap = told[s.name]
            /\ s.mIsModified \/ (Loadable(Content(files, s.name))
                                 /\ Loaded(Content(files, s.name)) = s.mKvMap)
    /\ \A f \in Names \ spoiled : (\A o \in Objects : ~Has(o, f)) =>
            Loadable(Content(files, f)) /\ Loaded(Content(files, f)) = told[f]

\* A file that kills the program that loads it is one whose update was cut right behind the
\* header, by a kill or a failed write; no order of complete updates makes one.
OnlyCutsKill == \A f \in DOMAIN files :
    ~Loadable(files[f]) => f \in spoiled /\ files[f][1] > 0 /\ Len(files[f]) = 1
===============================================================================
