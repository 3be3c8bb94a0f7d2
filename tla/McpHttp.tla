-------------------------------- MODULE McpHttp --------------------------------
(* The sessions of an MCP server over HTTP, with names of their own for what *)
(* McpServer has too, so that both can stand in one model.                   *)

CONSTANTS Handlers, Sessions, MaxMessages

VARIABLES
    stateful, mStreambleClients, known, mResponse, mIsRequestProcessed, mSynchronizer, pc, session,
    hSyncFeatureRequests, hTakenRequests, sending, messages, content, batched, stuck

H == INSTANCE McpHttpSession WITH
        mSyncFeatureRequests <- hSyncFeatureRequests, syncFeatureRequests <- hTakenRequests

\* A handler's name is none of the marks a thread or a message can have
ASSUME HandlersAssumption == H!HandlersApart

httpVars == <<stateful, mStreambleClients, known, mResponse, mIsRequestProcessed, mSynchronizer, pc,
              session, hSyncFeatureRequests, hTakenRequests, sending, messages, content, batched,
              stuck>>

\* Over HTTP a response carries the answer to its own POST or nothing, a queued call still has
\* its client object, and within a session a cancellation comes too late, batches aside.
HttpAnswersKept == H!HttpAnswersKept
\* Nothing is answered into the response of a POST that has returned, batches aside.
LiveResponse == H!LiveResponse
===============================================================================
