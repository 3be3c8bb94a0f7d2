------------------------------ MODULE MCSequential ------------------------------
(* Ten instances, a behaviour of one of them each, of code one thread runs:   *)
(* the KV cache of a processor, the containers of include/mbase, the MAIP     *)
(* packet, the event manager and the state files.  KvCache is extended and    *)
(* not instantiated, so that TLC evaluates its assumptions.                   *)
EXTENDS KvCache

VARIABLES part,
    lSelf, lOther, lItems, lOthers, lIt, lPlace, tailLost,                  \* list
    sNode, sSize, sContents, balanced,                                      \* set
    mBucket, mBucketCount, mSize, it, contents, first, visits,              \* unordered_map
    vSelf, vOther, vItems, vOthers,                                         \* vector
    self, other, text, others, exact,                                       \* string
    mVersionString, mIdentificationLine, mDescriptionKVals, payload, data, identified,
    handler, group, place, event, eIt, edits, counter, undefined, calls,    \* event_manager
    state, files, told, spoiled                                             \* PcState

listVars == <<lSelf, lOther, lItems, lOthers, lIt, lPlace, tailLost>>
setVars == <<sNode, sSize, sContents, balanced>>
mapVars == <<mBucket, mBucketCount, mSize, it, contents, first, visits>>
vectorVars == <<vSelf, vOther, vItems, vOthers>>
stringVars == <<self, other, text, others, exact>>
packetVars == <<mVersionString, mIdentificationLine, mDescriptionKVals, payload, data, identified>>
eventVars == <<handler, group, place, event, eIt, edits, counter, undefined, calls>>
stateVars == <<state, files, told, spoiled>>
allVars == <<part, cacheVars, listVars, setVars, mapVars, vectorVars, stringVars, packetVars, eventVars,
             stateVars>>

\* A context of six cells takes a locked prompt, two inputs and their responses, and is filled to
\* the last cell; plain inputs come first, then one caching mode for good
MCTokens == {"word", "eog"}
MCEog == {"eog"}
MCPrompts == UNION {[1..n -> {"word", "eog"}] : n \in 2..3}
OneMode == {<<"clear", "lock">>, <<"clear", "store">>}
ASSUME UsesAssumption == KeepsMode /\ LongPrompts

L == INSTANCE List WITH
        Values <- {"a", "b"}, MaxSelf <- 3, MaxOther <- 2,
        self <- lSelf, other <- lOther, items <- lItems, others <- lOthers, it <- lIt, place <- lPlace

A == INSTANCE AvlSet WITH
        Keys <- {1, 2, 3, 4}, node <- sNode, mSize <- sSize, contents <- sContents

\* Three keys in one bucket, two in buckets of their own, in the order of the iterator
HashOf(k) == CASE k = "a" -> 0 [] k = "b" -> 1 [] k \in {"c", "d", "e"} -> 2
U == INSTANCE UnorderedMap WITH Keys <- {"a", "b", "c", "d", "e"}, Values <- {1, 2}, hash <- HashOf

V == INSTANCE Vector WITH
        Values <- {"a", "b"}, gVectorDefaultCapacity <- 2, MaxSize <- 3, MaxCapacity <- 8,
        self <- vSelf, other <- vOther, items <- vItems, others <- vOthers

S == INSTANCE CharacterSequence WITH
        Letters <- {"a"}, Digits <- {"1"}, Sign <- "-", Dot <- ".",
        gStringDefaultCapacity <- 2, MaxLength <- 3, MaxOther <- 2

\* Types, strings, keys and values at their limits, over them, and with characters that delimit
P == INSTANCE MaipPacket WITH
        Alphas <- {"a"}, Digits <- {"0", "1", "2"}, Versions <- {<<"1", "0">>},
        Types <- {<<"a">>, <<"a", "a", "a">>, <<"1">>}, Strings <- {<<"a", " ">>, <<" ">>},
        Codes <- {<<"1", "0", "0", "0">>},
        Keys <- {<<"a">>, <<"a", "a">>, <<"a", "a", "a">>, <<"a", ":">>},
        Values <- {<<>>, <<"a">>, <<"1">>, <<"a", ";", "1">>, <<"a", "a", "a">>, <<"a", "a", "a", "a">>,
                   <<"1", ".", "1">>, <<"a", "\n", "END", "\n">>},
        Data <- {<<>>, <<"a", "END">>}, MaxValues <- 2,
        gMaipOpTypeLength <- 2, gMaipOpStringLength <- 2, gMaipDescriptionKeyLength <- 3,
        gMaipDescriptionValueLength <- 4, gMaipMaxKvalCount <- 2

\* Four registrations of three handlers for two events, two edits by every handler called
E == INSTANCE EventManager WITH
        Events <- {"x", "y"}, Handlers <- {"a", "b", "c"}, maxListeners <- 2, MaxRegistrations <- 4,
        MaxEdits <- 2, it <- eIt

\* Two objects of one file, and one object of two
F == INSTANCE StateFile WITH
        Objects <- {"p", "q"}, Names <- {"f"}, Order <- <<"a", "b">>, Values <- {1, 2}
G == INSTANCE StateFile WITH
        Objects <- {"p"}, Names <- {"f", "g"}, Order <- <<"a", "b">>, Values <- {1}

AllInit ==
    /\ part \in {"cache", "list", "set", "map", "vector", "string", "packet", "events", "file", "files"}
    /\ CacheInit /\ L!Init /\ A!Init /\ U!Init /\ V!Init /\ S!Init /\ P!Init /\ E!Init
    /\ IF part = "files" THEN G!Init ELSE F!Init
\* A step of one part leaves the variables of the others
Kept(p, vs) == IF part = p THEN TRUE ELSE UNCHANGED vs
OthersKept ==
    /\ UNCHANGED part
    /\ Kept("cache", cacheVars) /\ Kept("list", listVars) /\ Kept("set", setVars) /\ Kept("map", mapVars)
    /\ Kept("vector", vectorVars) /\ Kept("string", stringVars) /\ Kept("packet", packetVars)
    /\ Kept("events", eventVars)
    /\ IF part \in {"file", "files"} THEN TRUE ELSE UNCHANGED stateVars
AllNext ==
    \/ part = "cache" /\ CacheNext /\ OthersKept
    \/ part = "list" /\ L!Next /\ OthersKept
    \/ part = "set" /\ A!Next /\ OthersKept
    \/ part = "map" /\ U!Next /\ OthersKept
    \/ part = "vector" /\ V!Next /\ OthersKept
    \/ part = "string" /\ S!Next /\ OthersKept
    \/ part = "packet" /\ P!Next /\ OthersKept
    \/ part = "events" /\ E!Next /\ OthersKept
    \/ part = "file" /\ F!Next /\ OthersKept
    \/ part = "files" /\ G!Next /\ OthersKept
AllSpec == AllInit /\ [][AllNext]_allVars

\* The cache's cursor is behind its last cell.  A list, a set, a map and a vector hold what their
\* caller put there, in the order the library promises, and a loop that erases meets every
\* element; the defects the modules name aside.  Event groups hold those that believe they are
\* registered, and a dispatch calls each of them once.  A state object and its file hold what the
\* application gave its name, unless a known way of losing it has happened.
Represented ==
    CASE part = "cache" -> CacheTypeOK /\ CursorAtEnd
      [] part = "list" -> L!TypeOK /\ L!Represents /\ L!ReturnsPlace
      [] part = "set" -> A!TypeOK /\ A!KeysInOrder /\ A!InsertsBalance
      [] part = "map" -> U!TypeOK /\ U!Lookups /\ U!LoopVisits
      [] part = "vector" -> V!TypeOK /\ V!Represents
      [] part = "events" -> E!TypeOK /\ E!GroupsMatch /\ E!EveryListenerCalledOnce
      [] part = "file" -> F!TypeOK /\ F!StateKept /\ F!OnlyCutsKill
      [] part = "files" -> G!TypeOK /\ G!StateKept /\ G!OnlyCutsKill
      [] part \in {"string", "packet"} -> TRUE
\* A string no known defect has touched holds what its caller put there and ends with NUL, and
\* its searches, splits, tests and order agree.  A packet built within the limits is parsed to what
\* it was built from; a part of one, or one of the other kind, is refused.
TextsComeBack ==
    CASE part = "string" ->
            /\ S!TypeOK /\ S!Terminated /\ S!Represents /\ S!SplitsRight
            /\ S!SearchesAgree /\ S!IntegersAreNumbers /\ S!OrderTotal
      [] part = "packet" ->
            /\ P!TypeOK /\ P!RequestComesBack /\ P!KindsApart /\ P!PartRefused
            /\ P!LengthIsData /\ P!LookupsCover
      [] OTHER -> TRUE
===============================================================================
