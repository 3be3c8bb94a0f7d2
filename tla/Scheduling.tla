------------------------------- MODULE Scheduling -------------------------------
(* The timers, the thread pool and the embedder processor, the latter two     *)
(* with names of their own for what another one has too, so that all three    *)
(* can stand in one model.                                                    *)
EXTENDS TimerLoop

CONSTANTS mThreadCount, Jobs,   \* ThreadPool
    Sizes, MaxInputs            \* EmbedderProcessor

VARIABLES
    windows, mIsRunning, tHandler, mFreeThreadIndex, owner, caller, slot, routine, pUndefined, accepted,
    dropped, ran,
    mSignal, mSignalState, mIsProcessorRunning, worker, eOwner, mIsRegistered, eIsRunning,
    mIsInitializeFailed, mAssignedClient, mModelContext, mFinishState, mSequenceEmbeddingCursor, input,
    embeddings, failed, written, unread, excused

P == INSTANCE ThreadPool WITH undefined <- pUndefined
B == INSTANCE EmbedderProcessor WITH owner <- eOwner, mIsRunning <- eIsRunning

ASSUME PoolAssumption == P!ConstantsFit
ASSUME EmbedderAssumption == B!ConstantsFit

poolVars == <<windows, mIsRunning, tHandler, mFreeThreadIndex, owner, caller, slot, routine, pUndefined,
              accepted, dropped, ran>>
embedderVars == <<mSignal, mSignalState, mIsProcessorRunning, worker, eOwner, mIsRegistered, eIsRunning,
                  mIsInitializeFailed, mAssignedClient, mModelContext, mFinishState,
                  mSequenceEmbeddingCursor, input, embeddings, failed, written, unread, excused>>

\* The list of timers holds those that believe they are registered, and a pass adds its time to
\* each once; a slot of the pool belongs to one job at a time and is not free while it does; an
\* embedding is written for the input it was computed from, by an embedder that has a context.
WorkKept ==
    /\ TypeOK /\ ListMatches /\ DeltaOnce
    /\ P!TypeOK /\ P!SlotsOwned
    /\ B!TypeOK /\ B!WrittenIsCurrent /\ B!RegisteredHasContext
==================================================================================
