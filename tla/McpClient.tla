------------------------------- MODULE McpClient -------------------------------
(***************************************************************************)
(* The MCP client's side of one server connection: McpServerStateBase      *)
(* (mcp/mcp_client_server_state.cpp) over McpClientServerHttp              *)
(* (mcp_client_server_http.cpp), with the part of McpClientBase            *)
(* (mcp_client_base.cpp) that serves the server's own requests.            *)
(*                                                                         *)
(* Two threads: the application's, which makes requests and calls          *)
(* McpClientBase::update() every frame, and the sender, created on demand, *)
(* which posts the queued payloads and reads the bodies that come back.    *)
(* A request lives in mRequestMap until its response or its timeout moves  *)
(* it, through mQueuedResponses, to the callback.  A section under one     *)
(* short-held lock is one action.  The HTTP server is the environment: a   *)
(* Post fails, or returns any message it may send for what it has seen.    *)
(* Notifications only call the application and are left out.               *)
(***************************************************************************)
EXTENDS Integers, FiniteSets, Functions, SequencesExt

CONSTANTS
    Ids,                \* the uuids generate_uuid hands out, a bound on requests
    Methods,            \* the methods the application calls
    Timeouts,           \* the in_timeout values it gives, in timer ticks
    Offers,             \* the sets of capabilities a server may declare
    Stateful,           \* does the server answer with a session id
    SamplingSupported,  \* mIsSamplingSupported
    MaxRoots,           \* bound: calls of add_root and remove_root
    MaxServerRequests   \* bound: requests the server makes

ASSUME TimeoutsAssumption == Timeouts \subseteq Int
ASSUME FlagsAssumption == {Stateful, SamplingSupported} \subseteq BOOLEAN
ASSUME BoundsAssumption == {MaxRoots, MaxServerRequests} \subseteq Nat

VARIABLES
    mRequestMap,            \* a partial function from Ids, under mRequestMapSync
    mQueuedResponses,       \* responses for update(), under mQueuedResponsesSync
    movedResponseObject,    \* those update() has taken
    called,                 \* history: the codes each request's callback was given
    mIsServerInitialized, mSupported,
    mPayloadList, payloadList,          \* queued; taken by the sender
    mSessionHeader, requestHeaders,     \* is Mcp-Session-Id in the map, in the copy
    mIsProcessorRunning,
    sender,                 \* where the sender thread is
    body,                   \* what it has still to read of an answer
    found,                  \* the response it holds, its request out of the map
    seen,                   \* history: the requests that have been posted
    place,                  \* where the application's thread is
    starting,               \* it has queued a payload and calls start_processor next
    mSamplingRequestsList, tmpSamplingRequests,     \* their lengths
    roots, served, answered   \* roots changed; server requests made, answered

requestVars == <<mRequestMap, mQueuedResponses, movedResponseObject, called>>
serverVars == <<mIsServerInitialized, mSupported>>
senderVars == <<payloadList, mSessionHeader, requestHeaders, sender, body, found, seen>>
threadVars == <<mIsProcessorRunning, place, starting>>
samplingVars == <<mSamplingRequestsList, tmpSamplingRequests>>
boundVars == <<roots, served, answered>>
vars == <<requestVars, serverVars, mPayloadList, senderVars, threadVars, samplingVars, boundVars>>

\* the capability each method's guard asks for
Needed(m) ==
    CASE m \in {"resources/list", "resources/read"} -> {"resources"}
      [] m \in {"resources/subscribe", "resources/unsubscribe"} -> {"subscribe"}
      [] m \in {"prompts/list", "prompts/get"} -> {"prompts"}
      [] m \in {"tools/list", "tools/call"} -> {"tools"}
      [] m = "logging/setLevel" -> {"logging"}
      [] m \in {"ping", "completion/complete"} -> {}

\* a payload knows whether the server was initialized when it was queued
Payloads == [kind : {"request"}, id : Ids, bound : BOOLEAN]
                \cup [kind : {"notification", "answer"}, bound : BOOLEAN]
Codes == {"success", "error", "timeout"}
Responses == [id : Ids, method : Methods \cup {"initialize"}, code : Codes]
\* what a server that has seen these requests may answer; "other" is roots/list, or
\* a method the client has not got
Bodies(ids) ==
    LET Messages == [kind : {"response"}, id : ids, code : {"success", "error"}]
                        \cup [kind : {"sampling/createMessage", "other"}]
    IN  {<<>>} \cup {<<m>> : m \in Messages} \cup {<<m, m>> : m \in Messages}

\* a request without a timeout
Endless(r) == r.mTimeoutInSeconds < 0

Requests(messages) == Cardinality({n \in DOMAIN messages : messages[n].kind # "response"})

TypeOK ==
    /\ DOMAIN mRequestMap \in SUBSET Ids
    /\ \A i \in DOMAIN mRequestMap :
          /\ mRequestMap[i] \in [method : Methods \cup {"initialize"}, mTimeoutInSeconds : Timeouts,
                                 mAttemptCount : Nat]
          /\ ~Endless(mRequestMap[i]) =>
                mRequestMap[i].mAttemptCount <= mRequestMap[i].mTimeoutInSeconds
    /\ {mQueuedResponses, movedResponseObject, found} \subseteq Seq(Responses)
    /\ \A i \in Ids : called[i] \in Seq(Codes)
    /\ mIsServerInitialized \in BOOLEAN
    /\ mSupported \in SUBSET UNION Offers
    /\ {mPayloadList, payloadList} \subseteq Seq(Payloads)
    /\ {mSessionHeader, requestHeaders, mIsProcessorRunning, starting} \subseteq BOOLEAN
    /\ sender \in {"none", "look", "post", "read", "leave"}
    /\ place \in {"idle", "swap", "moved", "sampling", "spin"}
    /\ seen \in SUBSET Ids
    /\ {mSamplingRequestsList, tmpSamplingRequests, roots, served, answered} \subseteq Nat

Init ==
    /\ mRequestMap = <<>> /\ mQueuedResponses = <<>> /\ movedResponseObject = <<>>
    /\ called = [i \in Ids |-> <<>>]
    /\ mIsServerInitialized = FALSE /\ mSupported = {}
    /\ mPayloadList = <<>> /\ payloadList = <<>>
    /\ mSessionHeader = FALSE /\ requestHeaders = FALSE
    /\ mIsProcessorRunning = FALSE
    /\ sender = "none" /\ body = <<>> /\ found = <<>> /\ seen = {}
    /\ place = "idle" /\ starting = FALSE
    /\ mSamplingRequestsList = 0 /\ tmpSamplingRequests = 0
    /\ roots = 0 /\ served = 0 /\ answered = 0

-----------------------------------------------------------------------------
(* Requests and payloads.                                                  *)

Extended(f, i, v) == [j \in DOMAIN f \cup {i} |-> IF j = i THEN v ELSE f[j]]

\* ids in a sequence of responses
IdsOf(s) == {s[n].id : n \in DOMAIN s}

Asked == DOMAIN mRequestMap \cup IdsOf(mQueuedResponses) \cup IdsOf(movedResponseObject)
            \cup IdsOf(found) \cup {i \in Ids : called[i] # <<>>}

Queued(p) == mPayloadList' = Append(mPayloadList, p)

\* the application runs: between two calls of update() or in a callback
Free == place \in {"idle", "moved"} /\ ~starting

\* create_request_state and the push of send_mcp_payload
create_request_state(m) ==
    \E i \in Ids \ Asked, limit \in Timeouts :
        /\ mRequestMap' = Extended(mRequestMap, i,
                [method |-> m, mTimeoutInSeconds |-> limit, mAttemptCount |-> 0])
        /\ Queued([kind |-> "request", id |-> i, bound |-> mIsServerInitialized])
        /\ starting' = TRUE
        /\ UNCHANGED <<mQueuedResponses, movedResponseObject, called, serverVars, senderVars,
                       mIsProcessorRunning, place, samplingVars, boundVars>>

initialize == Free /\ create_request_state("initialize")

\* every other method: list_tools, tool_call, subscribe, ping, ...
Request(m) ==
    /\ Free
    /\ mIsServerInitialized
    /\ Needed(m) \subseteq mSupported
    /\ create_request_state(m)

\* add_root and remove_root, which no guard keeps until the server is initialized
RootsChanged ==
    /\ Free
    /\ roots < MaxRoots
    /\ roots' = roots + 1
    /\ Queued([kind |-> "notification", bound |-> mIsServerInitialized])
    /\ starting' = TRUE
    /\ UNCHANGED <<requestVars, serverVars, senderVars, mIsProcessorRunning, place,
                   samplingVars, served, answered>>

\* the end of the application thread's send_mcp_payload; a thread that has
\* written mIsProcessorRunning has only to return, and is joined
start_processor ==
    /\ starting
    /\ starting' = FALSE
    /\ \/ mIsProcessorRunning /\ UNCHANGED <<mIsProcessorRunning, sender>>
       \/ /\ ~mIsProcessorRunning
          /\ mIsProcessorRunning' = TRUE
          /\ sender' = "look"
    /\ UNCHANGED <<requestVars, serverVars, mPayloadList, payloadList, mSessionHeader,
                   requestHeaders, body, found, seen, place, samplingVars, boundVars>>

-----------------------------------------------------------------------------
(* The application's thread in McpClientBase::update().                    *)

\* mutant of Expired: one tick late, so that the count runs past a limit
ExpiredLate(r) == r.mAttemptCount > r.mTimeoutInSeconds

Expired(r) == r.mAttemptCount = r.mTimeoutInSeconds

\* on_call for the requests `some` of the map
Ticked(some) ==
    LET out == {i \in some : Expired(mRequestMap[i])}
        Response(i) == [id |-> i, method |-> mRequestMap[i].method, code |-> "timeout"]
    IN  /\ mRequestMap' = [i \in DOMAIN mRequestMap \ out |->
              [mRequestMap[i] EXCEPT !.mAttemptCount = IF i \in some THEN @ + 1 ELSE @]]
        /\ \E s \in SetToSeqs(out) :
              mQueuedResponses' = mQueuedResponses \o [n \in DOMAIN s |-> Response(s[n])]

Frame == place = "idle" /\ ~starting

\* update() runs the timers.  A request without a timeout is not stepped over:
\* the loop visits it for ever, after those before it in the map's order, and
\* the lock of the map stays taken.
RunTimers ==
    /\ Frame
    /\ place' = "swap"
    /\ UNCHANGED <<requestVars, serverVars, mPayloadList, senderVars, mIsProcessorRunning,
                   starting, samplingVars, boundVars>>

\* a second has passed since the request timer ran
RunTimersDue ==
    /\ Frame
    /\ LET endless == {i \in DOMAIN mRequestMap : Endless(mRequestMap[i])}
       IN  \/ endless = {} /\ Ticked(DOMAIN mRequestMap) /\ place' = "swap"
           \/ /\ endless # {}
              /\ \E some \in SUBSET (DOMAIN mRequestMap \ endless) : Ticked(some)
              /\ place' = "spin"
    /\ UNCHANGED <<movedResponseObject, called, serverVars, mPayloadList, senderVars,
                   mIsProcessorRunning, starting, samplingVars, boundVars>>

Spin == place = "spin" /\ UNCHANGED vars

TakeResponses ==
    /\ place = "swap"
    /\ place' = "moved"
    /\ movedResponseObject' = mQueuedResponses
    /\ mQueuedResponses' = <<>>
    /\ UNCHANGED <<mRequestMap, called, serverVars, mPayloadList, senderVars,
                   mIsProcessorRunning, starting, samplingVars, boundVars>>

\* the callback of the next response taken
Called(r) ==
    /\ movedResponseObject' = Tail(movedResponseObject)
    /\ called' = [called EXCEPT ![r.id] = Append(@, r.code)]
    /\ UNCHANGED <<mRequestMap, mQueuedResponses>>

Delivering == place = "moved" /\ ~starting /\ movedResponseObject # <<>>

\* any result but that of an initialization, or a useless one of that
Deliver ==
    /\ Delivering
    /\ Called(Head(movedResponseObject))
    /\ UNCHANGED <<serverVars, mPayloadList, senderVars, threadVars, samplingVars, boundVars>>

\* a server with a version and capabilities: it is told so before the callback
DeliverInitialized ==
    /\ Delivering
    /\ LET r == Head(movedResponseObject)
       IN  r.method = "initialize" /\ r.code = "success" /\ Called(r)
    /\ \E offer \in Offers : mSupported' = mSupported \cup offer
    /\ mIsServerInitialized' = TRUE
    /\ Queued([kind |-> "notification", bound |-> TRUE])
    /\ starting' = TRUE
    /\ UNCHANGED <<senderVars, mIsProcessorRunning, place, samplingVars, boundVars>>

\* mutant of TakeSampling: the list is copied, and stays
TakeSamplingCopies ==
    /\ place = "moved" /\ ~starting /\ movedResponseObject = <<>>
    /\ place' = "sampling"
    /\ tmpSamplingRequests' = mSamplingRequestsList
    /\ UNCHANGED <<requestVars, serverVars, mPayloadList, senderVars, mIsProcessorRunning,
                   starting, mSamplingRequestsList, boundVars>>

TakeSampling ==
    /\ place = "moved" /\ ~starting /\ movedResponseObject = <<>>
    /\ place' = "sampling"
    /\ tmpSamplingRequests' = mSamplingRequestsList
    /\ mSamplingRequestsList' = 0
    /\ UNCHANGED <<requestVars, serverVars, mPayloadList, senderVars, mIsProcessorRunning,
                   starting, boundVars>>

\* on_sampling_request answers, or the request is rejected: one payload
AnswerSampling ==
    /\ place = "sampling" /\ ~starting /\ tmpSamplingRequests > 0
    /\ tmpSamplingRequests' = tmpSamplingRequests - 1
    /\ answered' = answered + 1
    /\ Queued([kind |-> "answer", bound |-> mIsServerInitialized])
    /\ starting' = TRUE
    /\ UNCHANGED <<requestVars, serverVars, senderVars, mIsProcessorRunning, place,
                   mSamplingRequestsList, roots, served>>

UpdateEnds ==
    /\ place = "sampling" /\ ~starting /\ tmpSamplingRequests = 0
    /\ place' = "idle"
    /\ UNCHANGED <<requestVars, serverVars, mPayloadList, senderVars, mIsProcessorRunning,
                   starting, samplingVars, boundVars>>

-----------------------------------------------------------------------------
(* The sender: McpClientServerHttp::update_t.                              *)

\* mutant of Look: the headers are those of the batch before
LookStale ==
    /\ sender = "look"
    /\ mPayloadList # <<>>
    /\ sender' = "post"
    /\ payloadList' = mPayloadList
    /\ mPayloadList' = <<>>
    /\ UNCHANGED <<requestVars, serverVars, requestHeaders, mSessionHeader, body, found, seen,
                   threadVars, samplingVars, boundVars>>

Look ==
    /\ sender = "look"
    /\ mPayloadList # <<>>
    /\ sender' = "post"
    /\ payloadList' = mPayloadList
    /\ mPayloadList' = <<>>
    /\ requestHeaders' = mSessionHeader
    /\ UNCHANGED <<requestVars, serverVars, mSessionHeader, body, found, seen, threadVars,
                   samplingVars, boundVars>>

LookEmpty ==
    /\ sender = "look"
    /\ mPayloadList = <<>>
    /\ sender' = "leave"
    /\ UNCHANGED <<requestVars, serverVars, mPayloadList, payloadList, mSessionHeader,
                   requestHeaders, body, found, seen, threadVars, samplingVars, boundVars>>

Leave ==
    /\ sender = "leave"
    /\ sender' = "none"
    /\ mIsProcessorRunning' = FALSE
    /\ UNCHANGED <<requestVars, serverVars, mPayloadList, payloadList, mSessionHeader,
                   requestHeaders, body, found, seen, place, starting, samplingVars,
                   boundVars>>

\* a request that could not be delivered is dropped
Post ==
    /\ sender = "post" /\ payloadList # <<>>
    /\ payloadList' = Tail(payloadList)
    /\ LET p == Head(payloadList)
       IN  seen' = IF p.kind = "request" THEN seen \cup {p.id} ELSE seen
    /\ \/ UNCHANGED <<mSessionHeader, sender, body, served>>
       \/ /\ mSessionHeader' = (mSessionHeader \/ Stateful)
          /\ sender' = "read"
          /\ body' \in Bodies(seen')
          /\ served' = served + Requests(body')
          /\ served' <= MaxServerRequests
    /\ UNCHANGED <<requestVars, serverVars, mPayloadList, requestHeaders, found, threadVars,
                   samplingVars, roots, answered>>

PostEnds ==
    /\ sender = "post" /\ payloadList = <<>>
    /\ sender' = "look"
    /\ UNCHANGED <<requestVars, serverVars, mPayloadList, payloadList, mSessionHeader,
                   requestHeaders, body, found, seen, threadVars, samplingVars, boundVars>>

Reading == sender = "read" /\ found = <<>>

ReadEnds ==
    /\ Reading /\ body = <<>>
    /\ sender' = "post"
    /\ UNCHANGED <<requestVars, serverVars, mPayloadList, payloadList, mSessionHeader,
                   requestHeaders, body, found, seen, threadVars, samplingVars, boundVars>>

\* mutant of Forget: the request stays in the map
Remember(i) == mRequestMap' = mRequestMap

Forget(i) == mRequestMap' = Restrict(mRequestMap, DOMAIN mRequestMap \ {i})

\* process_response_message: a response to nothing that waits is dropped
ReadResponse ==
    /\ Reading /\ body # <<>> /\ Head(body).kind = "response"
    /\ place # "spin"
    /\ body' = Tail(body)
    /\ LET i == Head(body).id
       IN  IF i \in DOMAIN mRequestMap
           THEN /\ Forget(i)
                /\ found' = <<[id |-> i, method |-> mRequestMap[i].method, code |-> Head(body).code]>>
           ELSE UNCHANGED <<mRequestMap, found>>
    /\ UNCHANGED <<mQueuedResponses, movedResponseObject, called, serverVars, mPayloadList,
                   payloadList, mSessionHeader, requestHeaders, sender, seen, threadVars,
                   samplingVars, boundVars>>

\* mutant of QueueResponse: a response not yet taken is overwritten
QueueResponseAlone ==
    /\ found # <<>>
    /\ mQueuedResponses' = found
    /\ found' = <<>>
    /\ UNCHANGED <<mRequestMap, movedResponseObject, called, serverVars, mPayloadList,
                   payloadList, mSessionHeader, requestHeaders, sender, body, seen, threadVars,
                   samplingVars, boundVars>>

\* the default_*_t handlers
QueueResponse ==
    /\ found # <<>>
    /\ mQueuedResponses' = mQueuedResponses \o found
    /\ found' = <<>>
    /\ UNCHANGED <<mRequestMap, movedResponseObject, called, serverVars, mPayloadList,
                   payloadList, mSessionHeader, requestHeaders, sender, body, seen, threadVars,
                   samplingVars, boundVars>>

\* process_request_message, whose own send_mcp_payload finds the sender running
ReadRequest ==
    /\ Reading /\ body # <<>> /\ Head(body).kind # "response"
    /\ body' = Tail(body)
    /\ IF Head(body).kind = "sampling/createMessage" /\ SamplingSupported
       THEN /\ mSamplingRequestsList' = mSamplingRequestsList + 1
            /\ UNCHANGED <<mPayloadList, answered>>
       ELSE /\ Queued([kind |-> "answer", bound |-> mIsServerInitialized])
            /\ answered' = answered + 1
            /\ UNCHANGED mSamplingRequestsList
    /\ UNCHANGED <<requestVars, serverVars, payloadList, mSessionHeader, requestHeaders,
                   sender, found, seen, threadVars, tmpSamplingRequests, roots, served>>

-----------------------------------------------------------------------------
Application == initialize \/ (\E m \in Methods : Request(m)) \/ RootsChanged
Owner == start_processor \/ RunTimers \/ RunTimersDue \/ Spin \/ TakeResponses \/ Deliver \/ DeliverInitialized
            \/ TakeSampling \/ AnswerSampling \/ UpdateEnds
Sender == Look \/ LookEmpty \/ Leave \/ Post \/ PostEnds \/ ReadEnds \/ ReadResponse
            \/ QueueResponse \/ ReadRequest

Next == Application \/ Owner \/ Sender

\* The application calls update() every frame, and in some frame after any other
\* the timer is due; the sender is a running thread, and httplib gives up on a
\* server that does not answer.
Fairness == WF_vars(Owner) /\ SF_vars(RunTimersDue) /\ WF_vars(Sender)

Spec == Init /\ [][Next]_vars /\ Fairness

-----------------------------------------------------------------------------
(* Properties.                                                             *)

\* A request is in exactly one place: waiting in the map, in the sender's hand,
\* queued for update(), taken by update(), or reported; so its callback is
\* called at most once, whatever the timer and late or repeated answers do
\* (the hand-over between on_call, process_response_message and update()).
Count(s, i) == Cardinality({n \in DOMAIN s : s[n].id = i})
RequestsAccounted ==
    \A i \in Asked :
        (IF i \in DOMAIN mRequestMap THEN 1 ELSE 0) + Count(found, i)
            + Count(mQueuedResponses, i) + Count(movedResponseObject, i) + Len(called[i]) = 1

\* Whatever is queued once the server is initialized is posted with the session
\* id a stateful server has given, although update_t copies the headers once a
\* batch and the id arrives in the middle of one.
SessionKept ==
    Stateful => \A n \in DOMAIN payloadList : payloadList[n].bound => requestHeaders

\* Every request of the server gets exactly one answer: those not answered yet
\* are still to be read, or in one of the two sampling lists.
ServerRequestsAccounted ==
    served = Requests(body) + mSamplingRequestsList + tmpSamplingRequests + answered

\* A request is in one place at a time, a session stays the one the server gave, and
\* the server's requests are answered once.
RequestsKept == TypeOK /\ RequestsAccounted /\ SessionKept /\ ServerRequestsAccounted

\* The client keeps the promise of McpRequests: every request is reported once,
\* also when its payload is lost with a failed Post or left behind in mPayloadList
\* by a sender that was about to leave (send_mcp_payload, line 77): the timer
\* reports it in the end.  But not when a request without a timeout keeps update()
\* in the loop of the request timer.
request == [i \in Ids |-> IF called[i] # <<>> THEN "reported"
                          ELSE IF i \in Asked THEN "pending" ELSE "new"]
Promise == INSTANCE McpRequests
IsMcpRequests == Promise!Safety
RequestsReported == \A i \in Ids : request[i] = "pending" ~> (request[i] = "reported" \/ place = "spin")
===============================================================================
