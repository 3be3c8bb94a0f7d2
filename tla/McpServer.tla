------------------------------- MODULE McpServer -------------------------------
(***************************************************************************)
(* An MCP server over stdio: McpServerBase (mcp/mcp_server_base.cpp) with  *)
(* its one McpServerClient (mcp_server_client_state.cpp,                   *)
(* mcp_server_client_stdio.cpp).                                           *)
(*                                                                         *)
(* Two threads: the reader, which takes the client's messages one by one   *)
(* and answers most of them itself, and the application's, which registers *)
(* features, calls update() every frame and there runs the callbacks of    *)
(* the calls the reader has queued and of the server's own requests.  What *)
(* a message says is reduced to what decides its handling; the client is   *)
(* the environment and may send anything in any order.                     *)
(***************************************************************************)
EXTENDS Naturals, Sequences, FiniteSets

CONSTANTS
    Ids,            \* ids of the client's requests, each used once
    Queries,        \* ids of the server's requests to the client
    Features,       \* names of tools, prompts and resources
    KindOf,         \* [Features -> Kinds]
    MaxVersion,     \* bound: registrations and changes of one feature
    Uses            \* the pairs <<use, place>> the application makes

Kinds == {"tool", "prompt", "resource"}
ASSUME KindOfAssumption == KindOf \in [Features -> Kinds]
ASSUME MaxVersionAssumption == MaxVersion \in Nat

VARIABLES
    mIsInitializing, mIsClientInitialized,
    mHas,                   \* mHasRoots and mHasSampling, as a set
    mConnectedClients,      \* how often the client is in the list
    mSubscriptionMap,
    features,               \* the three maps: a version, 0 when not registered
    mSyncFeatureRequests,   \* calls queued by the reader
    syncFeatureRequests,    \* those update() has taken
    mRequestObject,         \* the server's unanswered requests, and of what kind
    mRootsResultObjects, mSamplingResultObjects,
    mClientListMutex,       \* "free" or "owner"
    place,                  \* where the application's thread is
    hand,                   \* what the reader is in the middle of
    read,                   \* history: the ids the reader has taken
    answers,                \* history: how often each id was answered
    cancelled,              \* history: the calls marked while queued
    ran,                    \* history: the calls whose callback ran
    dangling,               \* the calls whose feature was unregistered while they waited
    reported,               \* history: callbacks of the server's requests
    view, told              \* history: the versions last listed to the client;
                            \* the kinds of list it was told to read again

clientVars == <<mIsInitializing, mIsClientInitialized, mHas, mConnectedClients, mSubscriptionMap>>
callVars == <<mSyncFeatureRequests, syncFeatureRequests>>
queryVars == <<mRequestObject, mRootsResultObjects, mSamplingResultObjects, reported>>
viewVars == <<view, told>>
callHistory == <<cancelled, ran, dangling>>
vars == <<clientVars, features, callVars, queryVars, mClientListMutex, place, hand, read, answers,
          callHistory, viewVars>>

Calls == [id : Ids, feature : Features, mIsCancelled : BOOLEAN]
Places == {"main", "results", "result", "calls", "feature", "stuck", "crashed"}

TypeOK ==
    /\ {mIsInitializing, mIsClientInitialized} \subseteq BOOLEAN
    /\ mHas \in SUBSET {"roots", "sampling"}
    /\ mConnectedClients \in 0..1
    /\ mSubscriptionMap \in SUBSET Features
    /\ features \in [Features -> 0..MaxVersion]
    /\ {mSyncFeatureRequests, syncFeatureRequests} \subseteq Seq(Calls)
    /\ DOMAIN mRequestObject \in SUBSET Queries
    /\ \A q \in DOMAIN mRequestObject : mRequestObject[q] \in {"roots", "sampling"}
    /\ {mRootsResultObjects, mSamplingResultObjects} \subseteq Seq(Queries)
    /\ mClientListMutex \in {"free", "owner"}
    /\ place \in Places
    /\ hand \in Seq([step : {"listed"}, id : Ids] \cup [step : {"found"}, id : Ids, feature : Features])
    /\ read \in SUBSET Ids
    /\ answers \in [Ids -> Nat]
    /\ cancelled \in SUBSET Ids /\ ran \in SUBSET Ids /\ dangling \in SUBSET Ids
    /\ reported \in [Queries -> Nat]
    /\ view \in [Features -> 0..MaxVersion]
    /\ told \in SUBSET Kinds

Init ==
    /\ mIsInitializing = FALSE /\ mIsClientInitialized = FALSE
    /\ mHas = {} /\ mConnectedClients = 0 /\ mSubscriptionMap = {}
    /\ features = [f \in Features |-> 0]
    /\ mSyncFeatureRequests = <<>> /\ syncFeatureRequests = <<>>
    /\ mRequestObject = <<>> /\ mRootsResultObjects = <<>> /\ mSamplingResultObjects = <<>>
    /\ mClientListMutex = "free"
    /\ place = "main"
    /\ hand = <<>>
    /\ read = {}
    /\ answers = [i \in Ids |-> 0]
    /\ cancelled = {} /\ ran = {} /\ dangling = {}
    /\ reported = [q \in Queries |-> 0]
    /\ view = [f \in Features |-> 0]
    /\ told = {}

Answer(i) == answers' = [answers EXCEPT ![i] = @ + 1]
Extended(f, i, v) == [j \in DOMAIN f \cup {i} |-> IF j = i THEN v ELSE f[j]]

-----------------------------------------------------------------------------
(* The reader: process_mcp_message and what it calls.                      *)

Fresh(i) == hand = <<>> /\ i \notin read /\ read' = read \cup {i}

\* The client is neither between `initialize` and `initialized` nor before them
Serves == mIsClientInitialized /\ ~mIsInitializing

\* on_empty_processed_t: nothing is sent
Ignored(i) ==
    /\ Fresh(i)
    /\ ~Serves
    /\ UNCHANGED <<clientVars, features, callVars, queryVars, mClientListMutex, place, hand,
                   answers, callHistory, viewVars>>

\* mutant of Initialize: a client in the middle of it may begin again
InitializeAgain(has) ==
    /\ hand = <<>>
    /\ ~mIsClientInitialized
    /\ mClientListMutex = "free"
    /\ mHas' = mHas \cup has
    /\ mIsInitializing' = TRUE
    /\ mConnectedClients' = mConnectedClients + 1
    /\ UNCHANGED <<mIsClientInitialized, mSubscriptionMap, features, callVars, queryVars,
                   mClientListMutex, place, hand, read, answers, callHistory, viewVars>>

\* on_client_init_request_t.  A malformed or refused request, and one of a client
\* that is initialized already, change nothing; the answer, given at once, is
\* not counted.
Initialize(has) ==
    /\ hand = <<>>
    /\ ~mIsInitializing /\ ~mIsClientInitialized
    /\ mClientListMutex = "free"
    /\ mHas' = mHas \cup has
    /\ mIsInitializing' = TRUE
    /\ mConnectedClients' = mConnectedClients + 1
    /\ UNCHANGED <<mIsClientInitialized, mSubscriptionMap, features, callVars, queryVars,
                   mClientListMutex, place, hand, read, answers, callHistory, viewVars>>

\* notifications/initialized, which asks for no initialize before it
Initialized ==
    /\ hand = <<>>
    /\ ~mIsClientInitialized
    /\ mIsClientInitialized' = TRUE
    /\ mIsInitializing' = FALSE
    /\ UNCHANGED <<mHas, mConnectedClients, mSubscriptionMap, features, callVars, queryVars,
                   mClientListMutex, place, hand, read, answers, callHistory, viewVars>>

Resources == {f \in Features : KindOf[f] = "resource"}

\* ping, logging/setLevel, completion/complete, resources/subscribe and
\* unsubscribe of any uri, a request the server has not got, one with wrong
\* parameters
Simple(i) ==
    /\ Fresh(i)
    /\ Serves
    /\ \/ UNCHANGED mSubscriptionMap
       \/ \E f \in Resources : mSubscriptionMap' = mSubscriptionMap \cup {f}
       \/ \E f \in mSubscriptionMap : mSubscriptionMap' = mSubscriptionMap \ {f}
    /\ Answer(i)
    /\ UNCHANGED <<mIsInitializing, mIsClientInitialized, mHas, mConnectedClients, features,
                   callVars, queryVars, mClientListMutex, place, hand, callHistory, viewVars>>

\* default_list_*_t: the page is built under the synchronizer, and sent after it
List(i, kind) ==
    /\ Fresh(i)
    /\ Serves
    /\ hand' = <<[step |-> "listed", id |-> i]>>
    /\ view' = [f \in Features |-> IF KindOf[f] = kind THEN features[f] ELSE view[f]]
    /\ told' = told \ {kind}
    /\ UNCHANGED <<clientVars, features, callVars, queryVars, mClientListMutex, place, answers,
                   callHistory>>

ListSent ==
    /\ hand # <<>> /\ hand[1].step = "listed"
    /\ Answer(hand[1].id)
    /\ hand' = <<>>
    /\ UNCHANGED <<clientVars, features, callVars, queryVars, mClientListMutex, place, read,
                   callHistory, viewVars>>

\* tools/call, prompts/get, resources/read: the feature is looked up ...
Call(i, f) ==
    /\ Fresh(i)
    /\ Serves
    /\ features[f] # 0
    /\ hand' = <<[step |-> "found", id |-> i, feature |-> f]>>
    /\ UNCHANGED <<clientVars, features, callVars, queryVars, mClientListMutex, place, answers,
                   callHistory, viewVars>>

\* mutant of CallQueued: no return after the answer to wrong arguments
CallQueuedAnyway ==
    /\ hand # <<>> /\ hand[1].step = "found"
    /\ hand' = <<>>
    /\ answers' \in {answers, [answers EXCEPT ![hand[1].id] = @ + 1]}
    /\ mSyncFeatureRequests' = Append(mSyncFeatureRequests,
            [id |-> hand[1].id, feature |-> hand[1].feature, mIsCancelled |-> FALSE])
    /\ UNCHANGED <<clientVars, features, syncFeatureRequests, queryVars, mClientListMutex, place,
                   read, callHistory, viewVars>>

\* ... and if the arguments are right the call is queued
CallQueued ==
    /\ hand # <<>> /\ hand[1].step = "found"
    /\ hand' = <<>>
    /\ \/ Answer(hand[1].id) /\ UNCHANGED mSyncFeatureRequests
       \/ /\ mSyncFeatureRequests' = Append(mSyncFeatureRequests,
                [id |-> hand[1].id, feature |-> hand[1].feature, mIsCancelled |-> FALSE])
          /\ UNCHANGED answers
    /\ UNCHANGED <<clientVars, features, syncFeatureRequests, queryVars, mClientListMutex, place,
                   read, callHistory, viewVars>>

\* mutant of Marked: the calls update() has taken are marked as well
MarkedTaken(i) ==
    LET Mark(s) == [n \in DOMAIN s |-> [s[n] EXCEPT !.mIsCancelled = @ \/ s[n].id = i]]
    IN  /\ mSyncFeatureRequests' = Mark(mSyncFeatureRequests)
        /\ syncFeatureRequests' = Mark(syncFeatureRequests)

\* mutant of Marked: whatever is queued is marked
MarkedAll(i) ==
    /\ mSyncFeatureRequests' = [n \in DOMAIN mSyncFeatureRequests |->
            [mSyncFeatureRequests[n] EXCEPT !.mIsCancelled = TRUE]]
    /\ UNCHANGED syncFeatureRequests

Marked(i) ==
    /\ mSyncFeatureRequests' = [n \in DOMAIN mSyncFeatureRequests |->
            [mSyncFeatureRequests[n] EXCEPT !.mIsCancelled = @ \/ mSyncFeatureRequests[n].id = i]]
    /\ UNCHANGED syncFeatureRequests

\* notifications/cancelled
Cancellation(i) ==
    /\ hand = <<>>
    /\ mIsClientInitialized
    /\ Marked(i)
    /\ cancelled' = cancelled \cup
            {j \in {i} : \E n \in DOMAIN mSyncFeatureRequests : mSyncFeatureRequests[n].id = i}
    /\ UNCHANGED <<clientVars, features, queryVars, mClientListMutex, place, hand, read, answers,
                   ran, dangling, viewVars>>

\* mutant of Forgotten: an answered request of the server stays in the map
Remembered(q) == mRequestObject

Forgotten(q) == [p \in DOMAIN mRequestObject \ {q} |-> mRequestObject[p]]

\* process_response_message: the client's answer, result or error
Response(q) ==
    /\ hand = <<>>
    /\ q \in DOMAIN mRequestObject
    /\ mRequestObject' = Forgotten(q)
    /\ IF mRequestObject[q] = "roots"
       THEN /\ mRootsResultObjects' = Append(mRootsResultObjects, q)
            /\ UNCHANGED mSamplingResultObjects
       ELSE /\ mSamplingResultObjects' = Append(mSamplingResultObjects, q)
            /\ UNCHANGED mRootsResultObjects
    /\ UNCHANGED <<clientVars, features, callVars, reported, mClientListMutex, place, hand, read,
                   answers, callHistory, viewVars>>

-----------------------------------------------------------------------------
(* The application.                                                        *)

May(use) == <<use, place>> \in Uses

\* What changes a registered feature is not called while results are reported
QuietResults == Uses \cap ({"modify", "unregister"} \X {"results", "result"}) = {}

\* send_*_list_changed_notification: who already holds the mutex of the client
\* list never gets it again
Notified(kind) ==
    \/ mClientListMutex = "owner" /\ place' = "stuck" /\ UNCHANGED told
    \/ /\ mClientListMutex = "free"
       /\ told' = IF mConnectedClients > 0 /\ mIsClientInitialized THEN told \cup {kind} ELSE told
       /\ UNCHANGED place

\* mutant of Register: a new feature is announced like a changed one
RegisterNotifies(f) ==
    /\ May("register")
    /\ features[f] = 0
    /\ view[f] < MaxVersion
    /\ features' = [features EXCEPT ![f] = view[f] + 1]
    /\ Notified(KindOf[f])
    /\ UNCHANGED <<clientVars, callVars, queryVars, mClientListMutex, hand, read, answers,
                   callHistory, view>>

\* register_* of a new feature tells nobody
Register(f) ==
    /\ May("register")
    /\ features[f] = 0
    /\ view[f] < MaxVersion
    /\ features' = [features EXCEPT ![f] = view[f] + 1]
    /\ UNCHANGED <<clientVars, callVars, queryVars, mClientListMutex, place, hand, read, answers,
                   callHistory, viewVars>>

\* mutant of Modify: the client is not told
ModifySilently(f) ==
    /\ May("modify")
    /\ features[f] # 0
    /\ features[f] < MaxVersion
    /\ features' = [features EXCEPT ![f] = @ + 1]
    /\ UNCHANGED <<clientVars, callVars, queryVars, mClientListMutex, place, hand, read, answers,
                   callHistory, viewVars>>

\* register_* of a known feature
Modify(f) ==
    /\ May("modify")
    /\ features[f] # 0
    /\ features[f] < MaxVersion
    /\ features' = [features EXCEPT ![f] = @ + 1]
    /\ Notified(KindOf[f])
    /\ UNCHANGED <<clientVars, callVars, queryVars, mClientListMutex, hand, read, answers,
                   callHistory, view>>

CallsOf(s, f) == {s[n].id : n \in {m \in DOMAIN s : s[m].feature = f}}

\* the map's node is erased: a call in the reader's hand or in a queue keeps a pointer to it
Unregister(f) ==
    /\ May("unregister")
    /\ features[f] # 0
    /\ features' = [features EXCEPT ![f] = 0]
    /\ dangling' = dangling \cup CallsOf(mSyncFeatureRequests, f) \cup CallsOf(syncFeatureRequests, f)
                      \cup {i \in Ids : \E n \in DOMAIN hand :
                              hand[n].step = "found" /\ hand[n].id = i /\ hand[n].feature = f}
    /\ Notified(KindOf[f])
    /\ UNCHANGED <<clientVars, callVars, queryVars, mClientListMutex, hand, read, answers,
                   cancelled, ran, view>>

Pending(q) ==
    \/ q \in DOMAIN mRequestObject
    \/ q \in {mRootsResultObjects[n] : n \in DOMAIN mRootsResultObjects}
    \/ q \in {mSamplingResultObjects[n] : n \in DOMAIN mSamplingResultObjects}

\* list_roots and request_sampling; without the capability the callback is
\* called at once
Query(q, what) ==
    /\ May(what)
    /\ ~Pending(q) /\ reported[q] = 0
    /\ IF mIsClientInitialized /\ what \in mHas
       THEN /\ mRequestObject' = Extended(mRequestObject, q, what)
            /\ UNCHANGED reported
       ELSE /\ reported' = [reported EXCEPT ![q] = 1]
            /\ UNCHANGED mRequestObject
    /\ UNCHANGED <<clientVars, features, callVars, mRootsResultObjects, mSamplingResultObjects,
                   mClientListMutex, place, hand, read, answers, callHistory, viewVars>>

-----------------------------------------------------------------------------
(* default_update_method.                                                  *)

Update ==
    /\ place = "main"
    /\ place' = "results"
    /\ mClientListMutex' = "owner"
    /\ UNCHANGED <<clientVars, features, callVars, queryVars, hand, read, answers, callHistory,
                   viewVars>>

\* McpServerClient::default_update_method, for the client if it is in the list:
\* the results, one callback each, with the mutex of the list held
Results(q) ==
    /\ place = "results" /\ mConnectedClients > 0
    /\ \/ /\ mRootsResultObjects # <<>> /\ q = Head(mRootsResultObjects)
          /\ mRootsResultObjects' = Tail(mRootsResultObjects)
          /\ UNCHANGED mSamplingResultObjects
       \/ /\ mRootsResultObjects = <<>> /\ mSamplingResultObjects # <<>>
          /\ q = Head(mSamplingResultObjects)
          /\ mSamplingResultObjects' = Tail(mSamplingResultObjects)
          /\ UNCHANGED mRootsResultObjects
    /\ reported' = [reported EXCEPT ![q] = @ + 1]
    /\ place' = "result"
    /\ UNCHANGED <<clientVars, features, callVars, mRequestObject, mClientListMutex, hand, read,
                   answers, callHistory, viewVars>>

ResultReturns ==
    /\ place = "result"
    /\ place' = "results"
    /\ UNCHANGED <<clientVars, features, callVars, queryVars, mClientListMutex, hand, read,
                   answers, callHistory, viewVars>>

\* the mutex is released and the queued calls are taken; results that came
\* since the client's update wait for the next one
TakeCalls ==
    /\ place = "results"
    /\ place' = "calls"
    /\ mClientListMutex' = "free"
    /\ syncFeatureRequests' = mSyncFeatureRequests
    /\ mSyncFeatureRequests' = <<>>
    /\ UNCHANGED <<clientVars, features, queryVars, hand, read, answers, callHistory, viewVars>>

CallFeature ==
    /\ place = "calls" /\ syncFeatureRequests # <<>>
    /\ ~Head(syncFeatureRequests).mIsCancelled
    /\ place' = "feature"
    /\ ran' = ran \cup {Head(syncFeatureRequests).id}
    /\ UNCHANGED <<clientVars, features, callVars, queryVars, mClientListMutex, hand, read,
                   answers, cancelled, dangling, viewVars>>

FeatureReturns ==
    /\ place = "feature"
    /\ place' = "calls"
    /\ Answer(Head(syncFeatureRequests).id)
    /\ syncFeatureRequests' = Tail(syncFeatureRequests)
    /\ UNCHANGED <<clientVars, features, mSyncFeatureRequests, queryVars, mClientListMutex, hand,
                   read, callHistory, viewVars>>

SkipCancelled ==
    /\ place = "calls" /\ syncFeatureRequests # <<>>
    /\ Head(syncFeatureRequests).mIsCancelled
    /\ syncFeatureRequests' = Tail(syncFeatureRequests)
    /\ UNCHANGED <<clientVars, features, mSyncFeatureRequests, queryVars, mClientListMutex, place,
                   hand, read, answers, callHistory, viewVars>>

\* The pointer is used, by the reader to look at the arguments, by update() to run the callback
\* and send its result.  What the freed node still holds may do, as CallQueued, CallFeature and
\* FeatureReturns have it, or the program ends.
UseFreed ==
    /\ \/ hand # <<>> /\ hand[1].step = "found" /\ hand[1].id \in dangling
       \/ /\ place \in {"calls", "feature"} /\ syncFeatureRequests # <<>>
          /\ ~Head(syncFeatureRequests).mIsCancelled /\ Head(syncFeatureRequests).id \in dangling
    /\ place' = "crashed"
    /\ UNCHANGED <<clientVars, features, callVars, queryVars, mClientListMutex, hand, read,
                   answers, callHistory, viewVars>>

UpdateEnds ==
    /\ place = "calls" /\ syncFeatureRequests = <<>>
    /\ place' = "main"
    /\ UNCHANGED <<clientVars, features, callVars, queryVars, mClientListMutex, hand, read,
                   answers, callHistory, viewVars>>

-----------------------------------------------------------------------------
Client ==
    \/ \E i \in Ids :
          \/ Ignored(i)
          \/ Simple(i)
          \/ \E kind \in {KindOf[f] : f \in Features} : List(i, kind)
          \/ \E f \in Features : Call(i, f)
          \/ Cancellation(i)
    \/ \E has \in SUBSET {"roots", "sampling"} : Initialize(has)
    \/ Initialized
    \/ \E q \in Queries : Response(q)
Reader == place # "crashed" /\ (ListSent \/ CallQueued)
Application ==
    \/ \E f \in Features : Register(f) \/ Modify(f) \/ Unregister(f)
    \/ \E q \in Queries, what \in {"roots", "sampling"} : Query(q, what)
Owner ==
    \/ Update \/ ResultReturns \/ TakeCalls \/ CallFeature \/ FeatureReturns \/ SkipCancelled
    \/ UpdateEnds
    \/ \E q \in Queries : Results(q)

Next ==
    \/ place # "crashed" /\ (Client \/ Application \/ UseFreed)
    \/ Reader \/ Owner

\* The application calls update() every frame; a reader finishes what it reads
Spec == Init /\ [][Next]_vars /\ WF_vars(Owner) /\ WF_vars(Reader)

-----------------------------------------------------------------------------
(* Properties.                                                             *)

InQueue(s, i) == Cardinality({n \in DOMAIN s : s[n].id = i})

\* A request the reader has taken is answered at most once, and never while it
\* is still in the reader's hand, queued or taken: the reader's own answers and
\* those of update() do not meet (process_request_message, default_update_method).
AnsweredOnce ==
    \A i \in Ids :
        answers[i] + InQueue(hand, i) + InQueue(mSyncFeatureRequests, i)
            + InQueue(syncFeatureRequests, i) <= 1

\* mcp_server_detail.rst:139-144: a cancellation read before its call is
\* dispatched to the application thread keeps the callback from running; one
\* read later is ignored, and the call is answered.
CancellationTimely ==
    /\ cancelled \cap ran = {}
    /\ \A n \in DOMAIN syncFeatureRequests :
          syncFeatureRequests[n].mIsCancelled => syncFeatureRequests[n].id \in cancelled

\* A call that was queued is run and answered, unless it was cancelled in time or the program
\* ended over the freed feature of a call that waited.
CallAnswered(i) ==
    InQueue(mSyncFeatureRequests, i) > 0 ~> (answers[i] = 1 \/ i \in cancelled \/ place = "crashed")

\* The client never keeps a stale list in good faith: if a feature it has been
\* listed has changed or gone since, it has been told to read that list again.
ViewFresh ==
    mConnectedClients > 0 =>
        \A f \in Features :
            view[f] # 0 /\ view[f] # features[f] => KindOf[f] \in told

\* The server's own requests are reported at most once.
QueriesReportedOnce == \A q \in Queries : reported[q] + (IF Pending(q) THEN 1 ELSE 0) <= 1

\* The application's thread never waits for the client list's mutex it holds
\* itself while it runs the callbacks of the client's results, as long as these
\* change no registered feature: registering a new one does not notify.
NotStuck == place # "stuck"

\* Over stdio a request is answered at most once, a cancellation reaches what is still queued,
\* the client's view of the features is current or about to be renewed, the server's own requests
\* are reported once, and no callback waits for a mutex its caller holds.
StdioAnswersKept ==
    TypeOK /\ AnsweredOnce /\ CancellationTimely /\ ViewFresh /\ QueriesReportedOnce /\ NotStuck
===============================================================================
