----------------------------- MODULE EmbedderProcessor -----------------------------
(***************************************************************************)
(* InfEmbedderProcessor (inference/inf_embedder.cpp): the application's      *)
(* thread calls initialize, execute_input, next, destroy and update; a worker *)
(* thread, started for each job, runs update_t once (logical_processor).     *)
(* Flags are shared without a lock: an action reads or writes at most one    *)
(* flag the other side can change.  Inputs are numbered, and the embeddings  *)
(* of an input are known by its number; `embeddings` is what llama.cpp holds. *)
(***************************************************************************)
EXTENDS Naturals, Sequences

CONSTANTS
    Sizes,          \* how many token vectors an input may have
    MaxInputs       \* bound on the inputs executed

Signals == {"init", "destroy", "embed"}

VARIABLES
    mSignal, mSignalState,      \* the three processor_signals
    mIsProcessorRunning,
    worker,                     \* where the worker is in update_t
    owner,                      \* where the application's thread is
    mIsRegistered, mIsRunning, mIsInitializeFailed,
    mAssignedClient,            \* is there a client
    mModelContext,              \* is there a context
    mFinishState,               \* "CONTINUE" or "FINISHED"
    mSequenceEmbeddingCursor,
    input,                      \* mTokenizedInput: number and size
    embeddings,                 \* the number of the input last embedded, 0 for none
    failed,                     \* history: the operation failed, which nobody looks at
    written,                    \* history: what the last on_write was given
    unread,                     \* history: next() ran without a client
    excused                      \* history: why a job may not be answered

threadVars == <<mSignal, mSignalState, mIsProcessorRunning, worker, owner>>
flagVars == <<mIsRegistered, mIsRunning, mIsInitializeFailed, mAssignedClient, mModelContext>>
dataVars == <<mFinishState, mSequenceEmbeddingCursor, input, embeddings>>
historyVars == <<failed, written, unread, excused>>
vars == <<threadVars, flagVars, dataVars, historyVars>>

\* An input has at least one token vector.
ConstantsFit == Sizes \subseteq Nat \ {0} /\ MaxInputs \in Nat

Nothing == [of |-> 0, index |-> 0, current |-> 0, size |-> 0]

Init ==
    /\ mSignal = [s \in Signals |-> FALSE] /\ mSignalState = mSignal
    /\ mIsProcessorRunning = FALSE /\ worker = "none" /\ owner = "idle"
    /\ mIsRegistered = FALSE /\ mIsRunning = FALSE /\ mIsInitializeFailed = FALSE
    /\ mAssignedClient = FALSE /\ mModelContext = FALSE
    /\ mFinishState = "FINISHED" /\ mSequenceEmbeddingCursor = 0
    /\ input = [number |-> 0, size |-> 0] /\ embeddings = 0
    /\ failed = FALSE /\ written = Nothing /\ unread = FALSE /\ excused = FALSE

Ready == ~mSignal["destroy"] /\ ~mSignal["init"] /\ mIsRegistered
is_available == ~mSignal["embed"] /\ ~mSignalState["embed"]
Raised(s) == [mSignal EXCEPT ![s] = TRUE]
Lowered(f, ss) == [s \in Signals |-> f[s] /\ s \notin ss]
------------------------------------------------------------------------------
\* start_processor(): nothing if the flag is up, which it still is while a worker that has
\* looked at every signal returns; else it joins the old worker and starts a new one
Start ==
    /\ owner \in {"start", "start early"}
    /\ IF mIsProcessorRunning
       THEN /\ owner' = IF owner = "start" THEN "idle" ELSE "raise"
            /\ excused' = TRUE
       ELSE owner' = (IF owner = "start" THEN "join" ELSE "join early") /\ UNCHANGED excused
    /\ UNCHANGED <<mSignal, mSignalState, mIsProcessorRunning, worker, flagVars, dataVars, failed, written, unread>>
Joined ==
    /\ owner \in {"join", "join early"} /\ worker = "none"
    /\ mIsProcessorRunning' = TRUE /\ worker' = "begin"
    /\ owner' = IF owner = "join" THEN "idle" ELSE "raise"
    /\ UNCHANGED <<mSignal, mSignalState, flagVars, dataVars, historyVars>>

\* The initialization may be asked for while update() still owes on_destroy() or the
\* answer to the one before, whose flags it then wipes
initialize ==
    /\ owner = "idle"
    /\ ~mSignal["init"] /\ ~mSignal["destroy"] /\ ~mIsRegistered
    /\ mSignal' = Raised("init") /\ owner' = "start"
    /\ excused' = (excused \/ mSignalState["destroy"] \/ mSignalState["init"])
    /\ UNCHANGED <<mSignalState, mIsProcessorRunning, worker, flagVars, dataVars, failed, written, unread>>

\* destroy() reads is_registered() and then the signal, between which the worker may end a
\* destruction; the worker is started before the signal is raised, which then may be raised
\* on a processor that is no longer registered
destroy ==
    /\ owner = "idle" /\ mIsRegistered
    /\ owner' = "destroy"
    /\ UNCHANGED <<mSignal, mSignalState, mIsProcessorRunning, worker, flagVars, dataVars, historyVars>>
DestroyGoesOn ==
    /\ owner = "destroy"
    /\ IF mSignal["destroy"] THEN owner' = "idle" /\ UNCHANGED mAssignedClient
       ELSE owner' = "start early" /\ mAssignedClient' = FALSE
    /\ UNCHANGED <<mSignal, mSignalState, mIsProcessorRunning, worker, mIsRegistered, mIsRunning,
                   mIsInitializeFailed, mModelContext, dataVars, historyVars>>
RaiseDestroy ==
    /\ owner = "raise"
    /\ mSignal' = Raised("destroy") /\ owner' = "idle"
    /\ excused' = (excused \/ ~mIsRegistered \/ worker \notin {"begin", "registered"})
    /\ UNCHANGED <<mSignalState, mIsProcessorRunning, worker, flagVars, dataVars, failed, written, unread>>

set_inference_client ==
    /\ owner = "idle" /\ Ready /\ ~mAssignedClient
    /\ mAssignedClient' = TRUE
    /\ UNCHANGED <<threadVars, mIsRegistered, mIsRunning, mIsInitializeFailed, mModelContext, dataVars, historyVars>>

\* resume() starts no worker: a job raised before is left until another call starts one; it
\* asks for nothing, not even for a context
halt ==
    /\ owner = "idle" /\ mIsRunning
    /\ mIsRunning' = FALSE /\ excused' = TRUE
    /\ UNCHANGED <<threadVars, mIsRegistered, mIsInitializeFailed, mAssignedClient, mModelContext, dataVars,
                   failed, written, unread>>
resume ==
    /\ owner = "idle" /\ ~mIsRunning
    /\ mIsRunning' = TRUE
    /\ UNCHANGED <<threadVars, mIsRegistered, mIsInitializeFailed, mAssignedClient, mModelContext, dataVars, historyVars>>

\* execute_input(in_tokens, in_abandon): with in_abandon the signals are lowered first and
\* the worker is waited for, which may raise the state of the job it was in once more
Execute(n) ==
    /\ input.number < MaxInputs
    /\ input' = [number |-> input.number + 1, size |-> n]
    /\ mSequenceEmbeddingCursor' = 0
    /\ mSignal' = Raised("embed") /\ owner' = "start"
    /\ unread' = FALSE /\ failed' = FALSE
    /\ UNCHANGED <<mSignalState, worker, flagVars, mFinishState, embeddings, written, excused>>
execute_input(n) ==
    owner = "idle" /\ Ready /\ mIsRunning /\ is_available /\ Execute(n) /\ UNCHANGED mIsProcessorRunning
Abandon ==
    /\ owner = "idle" /\ Ready /\ mIsRunning /\ input.number \in 1 .. MaxInputs - 1
    /\ mSignal' = Lowered(mSignal, {"embed"}) /\ mSignalState' = Lowered(mSignalState, {"embed"})
    /\ mIsProcessorRunning' = FALSE /\ owner' = "abandon"
    /\ UNCHANGED <<worker, flagVars, dataVars, historyVars>>
ExecuteAbandoned(n) == owner = "abandon" /\ worker = "none" /\ Execute(n) /\ UNCHANGED mIsProcessorRunning

\* mutant of Finishes: the cursor is compared before it goes on
FinishesLate(at) == at = input.size + 1
Finishes(at) == at = input.size
\* next(): without a client the cursor goes on and the end is never noticed
next ==
    /\ owner = "idle" /\ Ready /\ mIsRunning
    /\ ~mSignal["embed"] /\ ~mSignalState["embed"]
    /\ mFinishState = "CONTINUE" /\ mSequenceEmbeddingCursor <= input.size
    /\ mSequenceEmbeddingCursor' = mSequenceEmbeddingCursor + 1
    /\ IF mAssignedClient
       THEN /\ mFinishState' = IF Finishes(mSequenceEmbeddingCursor') THEN "FINISHED" ELSE mFinishState
            /\ written' = [of |-> embeddings, index |-> mSequenceEmbeddingCursor',
                           current |-> input.number, size |-> input.size]
            /\ UNCHANGED unread
       ELSE unread' = TRUE /\ UNCHANGED <<mFinishState, written>>
    /\ UNCHANGED <<threadVars, flagVars, input, embeddings, failed, excused>>
------------------------------------------------------------------------------
\* update()
Updating == owner = "idle" /\ ~mSignal["destroy"]
SeeDestroyed ==
    /\ Updating /\ mSignalState["destroy"]
    /\ mIsProcessorRunning' = FALSE /\ owner' = "destroyed"
    /\ UNCHANGED <<mSignal, mSignalState, worker, flagVars, dataVars, historyVars>>
OnDestroy ==
    /\ owner = "destroyed" /\ worker = "none"
    /\ mSignal' = Lowered(mSignal, Signals) /\ mSignalState' = mSignal' /\ owner' = "idle"
    /\ UNCHANGED <<mIsProcessorRunning, worker, flagVars, dataVars, historyVars>>
\* A failure is remembered until the processor is destroyed, which an unregistered one is not
SeeInitialized ==
    /\ Updating /\ ~mSignalState["destroy"] /\ mSignalState["init"]
    /\ mSignalState' = Lowered(mSignalState, {"init"})
    /\ mIsProcessorRunning' = FALSE /\ owner' = "initialized"
    /\ UNCHANGED <<mSignal, worker, flagVars, dataVars, historyVars>>
\* mutant of OnInitialize: whether the initialization failed is not asked
OnInitializeUnasked ==
    /\ owner = "initialized" /\ worker = "none"
    /\ owner' = "idle" /\ mIsRunning' = TRUE /\ mIsRegistered' = TRUE
    /\ UNCHANGED <<mSignal, mSignalState, mIsProcessorRunning, worker, mIsInitializeFailed,
                   mAssignedClient, mModelContext, dataVars, historyVars>>
OnInitialize ==
    /\ owner = "initialized" /\ worker = "none"
    /\ owner' = "idle"
    /\ IF mIsInitializeFailed THEN UNCHANGED <<mIsRunning, mIsRegistered>>
       ELSE mIsRunning' = TRUE /\ mIsRegistered' = TRUE
    /\ UNCHANGED <<mSignal, mSignalState, mIsProcessorRunning, worker, mIsInitializeFailed,
                   mAssignedClient, mModelContext, dataVars, historyVars>>
OnBatchProcessed ==
    /\ Updating /\ ~mSignalState["destroy"] /\ ~mSignalState["init"] /\ mSignalState["embed"]
    /\ mSignalState' = Lowered(mSignalState, {"embed"})
    /\ UNCHANGED <<mSignal, mIsProcessorRunning, worker, owner, flagVars, dataVars, historyVars>>
------------------------------------------------------------------------------
\* update_t()
Goes(from, to) == worker = from /\ worker' = to
Quiet == UNCHANGED <<mIsProcessorRunning, owner, mSequenceEmbeddingCursor, input, written, unread, excused>>
Same == UNCHANGED <<flagVars, mFinishState, embeddings, failed>>

Begin ==
    /\ Goes("begin", IF mIsRegistered THEN "registered" ELSE "unregistered")
    /\ UNCHANGED <<mSignal, mSignalState>> /\ Quiet /\ Same
LookDestroy ==
    /\ Goes("registered", IF mSignal["destroy"] THEN "destroying" ELSE "running?")
    /\ UNCHANGED <<mSignal, mSignalState>> /\ Quiet /\ Same
_destroy_context ==
    /\ Goes("destroying", "destroy finished")
    /\ mModelContext' = FALSE /\ mFinishState' = "FINISHED" /\ embeddings' = 0
    /\ mIsRunning' = FALSE /\ mIsInitializeFailed' = FALSE /\ mAssignedClient' = FALSE
    /\ mIsRegistered' = FALSE
    /\ input' = [input EXCEPT !.size = 0] /\ mSequenceEmbeddingCursor' = 0
    /\ UNCHANGED <<mSignal, mSignalState, mIsProcessorRunning, owner, failed, written, unread, excused>>
LookRunning ==
    /\ Goes("running?", IF mIsRunning THEN "running" ELSE "exit")
    /\ UNCHANGED <<mSignal, mSignalState>> /\ Quiet /\ Same
LookEmbed ==
    /\ Goes("running", IF mSignal["embed"] THEN "embedding" ELSE "exit")
    /\ UNCHANGED <<mSignal, mSignalState>> /\ Quiet /\ Same
\* The result of the operation is ignored; a context has room for one sequence.  Of a processor
\* that was resumed while it was destroyed the context is NULL, and the worker does not come back
_calculate_embeddings ==
    /\ mModelContext /\ Goes("embedding", "embed finished")
    /\ mFinishState' = IF input.size > 0 THEN "CONTINUE" ELSE mFinishState
    /\ \/ embeddings' = input.number /\ UNCHANGED failed
       \/ failed' = TRUE /\ UNCHANGED embeddings
    /\ UNCHANGED <<mSignal, mSignalState, flagVars>> /\ Quiet
EmbedNothing ==
    /\ ~mModelContext /\ Goes("embedding", "lost")
    /\ excused' = TRUE
    /\ UNCHANGED <<mSignal, mSignalState, mIsProcessorRunning, owner, flagVars, dataVars, failed, written, unread>>
LookInitialize ==
    /\ Goes("unregistered", IF mSignal["init"] THEN "initializing" ELSE "exit")
    /\ UNCHANGED <<mSignal, mSignalState>> /\ Quiet /\ Same
_initialize_context ==
    /\ Goes("initializing", "init finished")
    /\ \/ mModelContext' = TRUE /\ UNCHANGED mIsInitializeFailed
       \/ mIsInitializeFailed' = TRUE /\ UNCHANGED mModelContext
    /\ UNCHANGED <<mSignal, mSignalState, mIsRegistered, mIsRunning, mAssignedClient, mFinishState, embeddings, failed>>
    /\ Quiet
\* set_signal_finished(): the state first
AtFinished(s) == CASE s = "init" -> "init finished" [] s = "destroy" -> "destroy finished"
                   [] s = "embed" -> "embed finished"
AtDrops(s) == CASE s = "init" -> "init drops" [] s = "destroy" -> "destroy drops" [] s = "embed" -> "embed drops"
Finished(s) ==
    /\ Goes(AtFinished(s), AtDrops(s))
    /\ mSignalState' = [mSignalState EXCEPT ![s] = TRUE]
    /\ UNCHANGED mSignal /\ Quiet /\ Same
\* mutant of Dropped: the signal stays up
DroppedNot(s) ==
    /\ Goes(AtDrops(s), IF s = "destroy" THEN "running?" ELSE "exit")
    /\ UNCHANGED <<mSignal, mSignalState>> /\ Quiet /\ Same
Dropped(s) ==
    /\ Goes(AtDrops(s), IF s = "destroy" THEN "running?" ELSE "exit")
    /\ mSignal' = Lowered(mSignal, {s})
    /\ UNCHANGED mSignalState /\ Quiet /\ Same
Exit ==
    /\ Goes("exit", "none") /\ mIsProcessorRunning' = FALSE
    /\ UNCHANGED <<mSignal, mSignalState, owner, flagVars, dataVars, historyVars>>

update_t ==
    \/ Begin \/ LookDestroy \/ _destroy_context \/ LookRunning \/ LookEmbed \/ _calculate_embeddings
    \/ EmbedNothing \/ LookInitialize \/ _initialize_context \/ Exit
    \/ \E s \in Signals : Finished(s) \/ Dropped(s)
update == SeeDestroyed \/ SeeInitialized \/ OnBatchProcessed
Goes_on ==
    \/ DestroyGoesOn \/ Start \/ Joined \/ RaiseDestroy \/ OnDestroy \/ OnInitialize \/ (\E n \in Sizes : ExecuteAbandoned(n))
Next ==
    \/ update_t \/ update \/ Goes_on
    \/ initialize \/ destroy \/ set_inference_client \/ halt \/ resume \/ Abandon \/ next
    \/ \E n \in Sizes : execute_input(n)
Spec == Init /\ [][Next]_vars

\* The worker is scheduled, a method goes on, and the application calls update()
Fairness == WF_vars(update_t) /\ WF_vars(Goes_on) /\ SF_vars(update)
------------------------------------------------------------------------------
\* Types of the processor's state.
TypeOK ==
    /\ mSignal \in [Signals -> BOOLEAN] /\ mSignalState \in [Signals -> BOOLEAN]
    /\ owner \in {"idle", "start", "start early", "join", "join early", "raise", "destroy", "abandon",
                 "destroyed", "initialized"}
    /\ {mIsRegistered, mIsRunning, mIsInitializeFailed, mAssignedClient, mModelContext} \subseteq BOOLEAN
    /\ mFinishState \in {"CONTINUE", "FINISHED"} /\ input.number \in 0 .. MaxInputs

\* What on_write() is given belongs to the input executed last, abandoned ones between
\* included, and to one of its vectors; unless the operation failed, whose result
\* _calculate_embeddings() ignores, or next() ran without a client before.
WrittenIsCurrent ==
    written.index > 0 /\ written.current = input.number /\ ~failed /\ ~unread /\ mModelContext =>
        written.of = input.number /\ written.index <= written.size

\* A registered processor has a context, and it has none once the application was told
\* that it is destroyed, whatever it called in between.
RegisteredHasContext == mIsRegistered /\ worker # "destroy finished" => mModelContext

\* Every signal raised is lowered and its state consumed by update(), unless start_processor
\* found the old worker returning, destroy() let its worker look before it raised the signal
\* (inf_embedder.cpp:343) or, called while the destruction before ended, raised it on a
\* processor no longer registered (:330, :335 and :423-424), initialize() came before update()
\* had seen the last job, or the processor was halted, whose resume() starts no worker.
JobsAnswered == \A s \in Signals :
    mSignal[s] ~> (~mSignal[s] /\ ~mSignalState[s]) \/ excused
====================================================================================
