---------------------------- MODULE McpHttpSession ----------------------------
(***************************************************************************)
(* An MCP server over HTTP (mcp/mcp_server_http_streamable.cpp) and its    *)
(* clients (mcp_server_client_http_streamable.cpp).                        *)
(*                                                                         *)
(* Each POST runs on a handler thread of httplib, which reads the message  *)
(* it carries, or the messages of a JSON-RPC batch one after another, and  *)
(* then polls until its client object counts as processed.  McpServer says *)
(* how a message is handled: it is answered now by the handler, queued for *)
(* update() on the application's thread, or taken without an answer.  A    *)
(* stateful server keeps one client object per session, a stateless one    *)
(* makes one for each POST on the handler's stack, so that a session is a  *)
(* handler there.  send_mcp_payload and set_response_object take no lock   *)
(* against each other: each is a sequence of single accesses.              *)
(***************************************************************************)
EXTENDS Naturals, Sequences, FiniteSets

CONSTANTS
    Handlers,       \* the POSTs
    Sessions,       \* a stateful server's session ids, a bound
    MaxMessages     \* bound on the messages of each POST: more than one make a batch

\* The POSTs' names are none of the marks a thread or a queued call can have
HandlersApart == Handlers \cap {"main", "null", "cancelled"} = {} /\ MaxMessages \in [Handlers -> Nat]

VARIABLES
    stateful,               \* which of the two servers this is
    mStreambleClients,      \* the session table
    known,                  \* sessions whose id has reached their client
    mResponse, mIsRequestProcessed, mSynchronizer,   \* of each client object
    pc, session,            \* each handler's place and client object
    mSyncFeatureRequests, syncFeatureRequests,       \* queued and taken calls, by POST
    sending,                \* each thread inside send_mcp_payload
    messages,               \* how many of each POST's messages have been read
    content,                \* history: the answers put in each POST's response
    batched,                \* history: clients that had a POST of several messages
    stuck                   \* history: clients whose message may never be processed

tableVars == <<stateful, mStreambleClients, known>>
clientVars == <<mResponse, mIsRequestProcessed, mSynchronizer>>
callVars == <<mSyncFeatureRequests, syncFeatureRequests>>
batchVars == <<messages, batched>>
vars == <<tableVars, clientVars, pc, session, batchVars, callVars, sending, content, stuck>>

Main == "main"
NoHandler == "null"     \* a null mResponse
Skipped == "cancelled"  \* a queued call with mIsCancelled
Threads == Handlers \cup {Main}
Clients == Sessions \cup Handlers
Nothing == [step |-> "none"]
Sends == [step : {"content", "processed", "clear"}, client : Clients, of : Handlers]

TypeOK ==
    /\ stateful \in BOOLEAN
    /\ known \in SUBSET mStreambleClients /\ mStreambleClients \in SUBSET Sessions
    /\ mResponse \in [Clients -> Handlers \cup {NoHandler}]
    /\ mIsRequestProcessed \in [Clients -> BOOLEAN]
    /\ mSynchronizer \in [Clients -> Handlers \cup {NoHandler}]
    /\ pc \in [Handlers -> {"new", "lock", "previous", "set", "read", "send", "cancel", "wait", "done"}]
    /\ session \in [Handlers -> Clients]
    /\ {mSyncFeatureRequests, syncFeatureRequests} \subseteq Seq(Handlers \cup {Skipped})
    /\ sending \in [Threads -> Sends \cup {Nothing}]
    /\ messages \in [Handlers -> Nat]
    /\ content \in [Handlers -> SUBSET Handlers]
    /\ batched \in SUBSET Clients /\ stuck \in SUBSET Clients

Init ==
    /\ stateful \in BOOLEAN
    /\ mStreambleClients = {} /\ known = {}
    /\ mResponse = [c \in Clients |-> NoHandler]
    /\ mIsRequestProcessed = [c \in Clients |-> FALSE]
    /\ mSynchronizer = [c \in Clients |-> NoHandler]
    /\ pc = [h \in Handlers |-> "new"]
    /\ session = [h \in Handlers |-> h]
    /\ messages = [h \in Handlers |-> 0] /\ batched = {} /\ stuck = {}
    /\ mSyncFeatureRequests = <<>> /\ syncFeatureRequests = <<>>
    /\ sending = [t \in Threads |-> Nothing]
    /\ content = [h \in Handlers |-> {}]

-----------------------------------------------------------------------------
(* A handler.                                                              *)

Goto(h, p) == pc' = [pc EXCEPT ![h] = p]

Arrives(h, c) ==
    /\ pc[h] = "new"
    /\ session' = [session EXCEPT ![h] = c]
    /\ UNCHANGED <<batchVars, callVars, sending, content, stuck, stateful>>

\* no token, no body, a wrong Accept header, a session nobody has: 4xx
Refused(h) ==
    /\ pc[h] = "new"
    /\ Goto(h, "done")
    /\ UNCHANGED <<tableVars, clientVars, session, batchVars, callVars, sending, content, stuck>>

\* set_response_object on a client object nobody else has yet; which of the unused ids a
\* session is given makes no difference
NewSession == CHOOSE s \in Sessions : s \notin mStreambleClients
PostNew(h, c) ==
    /\ IF stateful THEN c \in Sessions \ mStreambleClients /\ c = NewSession ELSE c = h
    /\ Arrives(h, c)
    /\ mStreambleClients' = mStreambleClients \cup (Sessions \cap {c})
    /\ mIsRequestProcessed' = [mIsRequestProcessed EXCEPT ![c] = FALSE]
    /\ mResponse' = [mResponse EXCEPT ![c] = h]
    /\ Goto(h, "read")
    /\ UNCHANGED <<known, mSynchronizer>>

PostKnown(h, c) ==
    /\ stateful
    /\ c \in known
    /\ Arrives(h, c)
    /\ Goto(h, "lock")
    /\ UNCHANGED <<mStreambleClients, known, clientVars>>

Lock(h) ==
    /\ pc[h] = "lock"
    /\ mSynchronizer[session[h]] = NoHandler
    /\ mSynchronizer' = [mSynchronizer EXCEPT ![session[h]] = h]
    /\ Goto(h, "previous")
    /\ UNCHANGED <<tableVars, mResponse, mIsRequestProcessed, session, batchVars, callVars,
                   sending, content, stuck>>

\* mutant of Previous: the message before is not waited for
PreviousUnawaited(h) ==
    /\ pc[h] = "previous"
    /\ Goto(h, "set")
    /\ mIsRequestProcessed' = [mIsRequestProcessed EXCEPT ![session[h]] = FALSE]
    /\ UNCHANGED <<tableVars, mResponse, mSynchronizer, session, batchVars, callVars,
                   sending, content, stuck>>

\* the message before is processed, and this one is not
Previous(h) ==
    /\ pc[h] = "previous"
    /\ mIsRequestProcessed[session[h]]
    /\ Goto(h, "set")
    /\ mIsRequestProcessed' = [mIsRequestProcessed EXCEPT ![session[h]] = FALSE]
    /\ UNCHANGED <<tableVars, mResponse, mSynchronizer, session, batchVars, callVars,
                   sending, content, stuck>>

SetResponse(h) ==
    /\ pc[h] = "set"
    /\ mResponse' = [mResponse EXCEPT ![session[h]] = h]
    /\ stuck' = stuck \cup
          {c \in {session[h]} : \E t \in Threads : sending[t] # Nothing /\ sending[t].client = c}
    /\ mSynchronizer' = [mSynchronizer EXCEPT ![session[h]] = NoHandler]
    /\ Goto(h, "read")
    /\ UNCHANGED <<tableVars, mIsRequestProcessed, session, batchVars, callVars, sending, content>>

Send(t, h) == sending' = [sending EXCEPT ![t] = [step |-> "content", client |-> session[h], of |-> h]]

\* the next message of the POST
Reads(h) ==
    /\ pc[h] = "read" /\ messages[h] < MaxMessages[h]
    /\ messages' = [messages EXCEPT ![h] = @ + 1]
    /\ batched' = batched \cup {c \in {session[h]} : messages[h] > 0}

ReadNow(h) ==
    /\ Reads(h)
    /\ Send(h, h)
    /\ Goto(h, "send")
    /\ UNCHANGED <<tableVars, clientVars, session, callVars, content, stuck>>

ReadQueued(h) ==
    /\ Reads(h)
    /\ mSyncFeatureRequests' = Append(mSyncFeatureRequests, h)
    /\ UNCHANGED <<tableVars, clientVars, pc, session, syncFeatureRequests, sending, content, stuck>>

\* a notification, or a request of a client that is not initialized
ReadEmpty(h) ==
    /\ Reads(h)
    /\ mIsRequestProcessed' = [mIsRequestProcessed EXCEPT ![session[h]] = TRUE]
    /\ \/ UNCHANGED pc
       \/ Goto(h, "cancel")
    /\ UNCHANGED <<tableVars, mResponse, mSynchronizer, session, callVars, sending, content, stuck>>

\* default_cancellation_t goes on: it marks a queued call of that id, whosever it is, if any
Cancel(h) ==
    /\ pc[h] = "cancel"
    /\ Goto(h, "read")
    /\ \/ \E n \in DOMAIN mSyncFeatureRequests :
             /\ mSyncFeatureRequests[n] # Skipped
             /\ mSyncFeatureRequests' = [mSyncFeatureRequests EXCEPT ![n] = Skipped]
             /\ stuck' = stuck \cup {session[mSyncFeatureRequests[n]]}
       \/ UNCHANGED <<mSyncFeatureRequests, stuck>>
    /\ UNCHANGED <<tableVars, clientVars, session, batchVars, syncFeatureRequests, sending, content>>

\* No messages are left.  Some change nothing here and count as none: a response (its id is
\* unknown to a server that asks nothing over HTTP), a notification before the client is initialized.
ReadDone(h) ==
    /\ pc[h] = "read"
    /\ Goto(h, "wait")
    /\ stuck' = stuck \cup {c \in {session[h]} : messages[h] = 0}
    /\ UNCHANGED <<tableVars, clientVars, session, batchVars, callVars, sending, content>>

Sent(h) ==
    /\ pc[h] = "send" /\ sending[h] = Nothing
    /\ Goto(h, "read")
    /\ UNCHANGED <<tableVars, clientVars, session, batchVars, callVars, sending, content, stuck>>

\* mutant of Return: the handler does not wait for the answer
ReturnAtOnce(h) ==
    /\ pc[h] = "wait"
    /\ known' = known \cup (Sessions \cap {session[h]})
    /\ Goto(h, "done")
    /\ UNCHANGED <<stateful, mStreambleClients, clientVars, session, batchVars, callVars, sending,
                   content, stuck>>

\* the response goes out, with the id of the session
Return(h) ==
    /\ pc[h] = "wait"
    /\ mIsRequestProcessed[session[h]]
    /\ known' = known \cup (Sessions \cap {session[h]})
    /\ Goto(h, "done")
    /\ UNCHANGED <<stateful, mStreambleClients, clientVars, session, batchVars, callVars, sending,
                   content, stuck>>

-----------------------------------------------------------------------------
(* send_mcp_payload.                                                       *)

Client(t) == sending[t].client

SetContent(t) ==
    /\ sending[t].step = "content"
    /\ LET h == mResponse[Client(t)]
       IN  IF h = NoHandler
           THEN sending' = [sending EXCEPT ![t] = Nothing] /\ UNCHANGED content
           ELSE /\ sending' = [sending EXCEPT ![t].step = "processed"]
                /\ content' = [content EXCEPT ![h] = @ \cup {sending[t].of}]
    /\ UNCHANGED <<tableVars, clientVars, pc, session, batchVars, callVars, stuck>>

\* mutant of SetProcessed: the flag is forgotten
SetProcessedNot(t) ==
    /\ sending[t].step = "processed"
    /\ sending' = [sending EXCEPT ![t].step = "clear"]
    /\ UNCHANGED <<tableVars, clientVars, pc, session, batchVars, callVars, content, stuck>>

SetProcessed(t) ==
    /\ sending[t].step = "processed"
    /\ sending' = [sending EXCEPT ![t].step = "clear"]
    /\ mIsRequestProcessed' = [mIsRequestProcessed EXCEPT ![Client(t)] = TRUE]
    /\ UNCHANGED <<tableVars, mResponse, mSynchronizer, pc, session, batchVars, callVars,
                   content, stuck>>

ClearResponse(t) ==
    /\ sending[t].step = "clear"
    /\ sending' = [sending EXCEPT ![t] = Nothing]
    /\ mResponse' = [mResponse EXCEPT ![Client(t)] = NoHandler]
    /\ UNCHANGED <<tableVars, mIsRequestProcessed, mSynchronizer, pc, session, batchVars,
                   callVars, content, stuck>>

SendStep(t) == sending[t] # Nothing /\ (SetContent(t) \/ SetProcessed(t) \/ ClearResponse(t))

-----------------------------------------------------------------------------
(* The application's update().                                             *)

TakeCalls ==
    /\ sending[Main] = Nothing /\ syncFeatureRequests = <<>> /\ mSyncFeatureRequests # <<>>
    /\ syncFeatureRequests' = mSyncFeatureRequests
    /\ mSyncFeatureRequests' = <<>>
    /\ UNCHANGED <<tableVars, clientVars, pc, session, batchVars, sending, content, stuck>>

\* the feature's callback runs and its result is sent, or the call is skipped
CallFeature ==
    /\ sending[Main] = Nothing /\ syncFeatureRequests # <<>>
    /\ syncFeatureRequests' = Tail(syncFeatureRequests)
    /\ LET h == Head(syncFeatureRequests)
       IN  IF h = Skipped THEN UNCHANGED sending ELSE Send(Main, h)
    /\ UNCHANGED <<tableVars, clientVars, pc, session, batchVars, mSyncFeatureRequests, content, stuck>>

-----------------------------------------------------------------------------
Post(h) == Refused(h) \/ \E c \in Clients : PostNew(h, c) \/ PostKnown(h, c)
Handle(h) ==
    \/ Lock(h) \/ Previous(h) \/ SetResponse(h) \/ ReadNow(h) \/ ReadQueued(h) \/ ReadEmpty(h)
    \/ Cancel(h) \/ ReadDone(h) \/ Sent(h) \/ Return(h) \/ SendStep(h)
Update == TakeCalls \/ CallFeature \/ SendStep(Main)

Next == (\E h \in Handlers : Post(h) \/ Handle(h)) \/ Update

\* threads run, and the application calls update() every frame
Spec == Init /\ [][Next]_vars /\ WF_vars(Update) /\ \A h \in Handlers : WF_vars(Handle(h))

-----------------------------------------------------------------------------
(* Properties.                                                             *)

\* What a client object is for is one message at a time.  A session that had a POST with several
\* is no longer sound; nor is a stateless server that had one, for the call it may leave behind
\* writes to the stack of a handler that has returned.
Sound(h) == IF stateful THEN session[h] \notin batched ELSE batched = {}

\* A response carries the answer to its own POST or nothing, although answers
\* come from two threads and every POST of a session shares one mResponse.
AnswerMatches == \A h \in Handlers : Sound(h) => content[h] \subseteq {h}

\* A queued or taken call still has its client object: the handler whose stack
\* it lives on (stateless) has not returned.
HttpCalls(s) == {s[n] : n \in DOMAIN s}
OwnerAlive ==
    \A h \in HttpCalls(mSyncFeatureRequests) \cup HttpCalls(syncFeatureRequests) :
        h # Skipped /\ Sound(h) => stateful \/ pc[h] # "done"

\* Within a session a cancellation comes too late for every call: when a POST is read no call of
\* its session is in the queue, for the call before is waited for.  What it can reach is a call
\* of another session with the same id, or one that came in since.
CancelsTooLate ==
    \A h \in Handlers, g \in HttpCalls(mSyncFeatureRequests) :
        stateful /\ Sound(h) /\ pc[h] = "read" /\ messages[h] = 0 /\ g # Skipped =>
            session[g] # session[h]

\* A response carries the answer to its own POST or nothing, a queued call still has its client
\* object, and within a session a cancellation comes too late, as long as no POST carries
\* several messages.
HttpAnswersKept == TypeOK /\ AnswerMatches /\ OwnerAlive /\ CancelsTooLate

\* An answer is never put in the response object of a POST that has returned.
LiveResponse == [][\A h \in Handlers : Sound(h) /\ content'[h] # content[h] => pc[h] # "done"]_vars

\* Every POST returns, but in a session where a POST came in between the two last writes of
\* send_mcp_payload (line 48) and took its response object to be cleared with the one before, a
\* call was marked cancelled, or a POST had nothing in it that gives an answer or is an empty
\* message, and but for batches.
PostReturns(h) == pc[h] # "new" ~> (pc[h] = "done" \/ session[h] \in stuck \/ ~Sound(h))
===============================================================================
