----------------------------- MODULE T2TProcessor -----------------------------
(***************************************************************************)
(* InfProcessorTextToText (inference/inf_t2t_processor.cpp and             *)
(* inf_processor.cpp): one inference context, driven by the application's  *)
(* thread through initialize, execute_input, next, destroy and update, and *)
(* worked on by the update_t of a parallel state machine.                  *)
(*                                                                         *)
(* The thread machinery is LogicalProcessor, whose variables this module   *)
(* shares: an action here is one of its actions together with what the     *)
(* method does to the processor's own members.  A method that returns an   *)
(* error without changing anything is a stuttering step and has no action. *)
(* The _sync variants are the plain call followed by waiting for the       *)
(* signal to drop, which the application can do anyway.                    *)
(*                                                                         *)
(* The processor's LoRA signal is read by update_t and never raised        *)
(* anywhere in the sources, so _lora_operate is unreachable and absent.    *)
(***************************************************************************)
EXTENDS FiniteSets

CONSTANTS
    Threads, NoThread, NoSignal,
    Uses    \* the pairs <<use, place>> the application makes, see below

VARIABLES mSignal, mSignalState, owed, mIsProcessorRunning, mThreadHandle,
          phase, at, todo, caller

VARIABLES
    mIsRegistered, mIsRunning, mIsInitializeFailed, mAssignedClient,
    mFinishState,
    mModelContext,  \* "null" or "live"
    logits,         \* does the context hold logits to sample from (llama.cpp)
    place,          \* "main" or the callback the application code runs in
    rest,           \* what update() or the destructor has still to do
    asked,          \* destroy() has read is_registered() and goes on to
                    \* signal_destroying()
    continueDue     \* _decode_input has dropped its signal but not yet
                    \* written mFinishState = CONTINUE

ASSUME NoThreadAssumption == NoThread \notin Threads

Signals == {"init", "destroy", "lora", "kv", "input", "decode"}

ASSUME NoSignalAssumption == NoSignal \notin Signals

LP == INSTANCE LogicalProcessor WITH SpawnMayFail <- FALSE

processorVars == <<mSignal, mSignalState, owed, mIsProcessorRunning, mThreadHandle,
                   phase, at, todo, caller>>
flagVars == <<mIsRegistered, mIsRunning, mIsInitializeFailed, mAssignedClient>>
contextVars == <<mFinishState, mModelContext, logits, continueDue>>
hostVars == <<place, rest, asked>>
vars == <<processorVars, flagVars, contextVars, hostVars>>

Places == {"main", "on_initialize", "on_initialize_fail", "on_destroy", "on_register",
           "on_batch_processed", "on_kv_processed", "on_write", "on_finish"}
Rests == {"none", "stop", "on_destroy", "finish", "free", "destruct"}
FinishStates == {"CONTINUE", "FINISHED", "TOKEN_LIMIT_REACHED"}

TypeOK ==
    /\ LP!TypeOK
    /\ {mIsRegistered, mIsRunning, mIsInitializeFailed, mAssignedClient} \subseteq BOOLEAN
    /\ mFinishState \in FinishStates
    /\ mModelContext \in {"null", "live"}
    /\ logits \in BOOLEAN
    /\ place \in Places
    /\ rest \in Rests
    /\ asked \in BOOLEAN
    /\ continueDue \in BOOLEAN

\* the constructor
Constructed(finishState) ==
    /\ LP!Init
    /\ mIsRegistered = FALSE
    /\ mIsRunning = FALSE
    /\ mIsInitializeFailed = FALSE
    /\ mAssignedClient = FALSE
    /\ mFinishState = finishState
    /\ mModelContext = "null"
    /\ logits = FALSE
    /\ place = "main"
    /\ rest = "none"
    /\ asked = FALSE
    /\ continueDue = FALSE

InitUnsetFinishState == Constructed("unset")    \* mutant: no initialiser

Init == Constructed("FINISHED")

-----------------------------------------------------------------------------
(* The application's calls.  A use names a method together with the        *)
(* circumstances that matter; Uses says which of them the application      *)
(* makes, and from which place of its own code.                            *)

Ready == ~mSignal["destroy"] /\ ~mSignal["init"] /\ mIsRegistered

\* mutant of is_available: signal_kv_locked_process() is not asked
AvailableDuringKv == \A s \in {"init", "destroy", "input", "decode"} : ~mSignal[s]

is_available == \A s \in {"init", "destroy", "input", "decode", "kv"} : ~mSignal[s]

Undelivered == \E s \in Signals : mSignalState[s]

Calling(use) ==
    /\ caller = "idle" /\ ~asked
    /\ rest \in {"none", "finish"}   \* not inside update() but in a callback of it
    /\ <<use, place>> \in Uses

\* Restrictions on the application that the code leaves unchecked and properties rest on.
\* resume() on a registered processor only; no delete while it initializes or destroys
LawfulUses == \A p \in Places :
    <<"resume unregistered", p>> \notin Uses /\ <<"delete while changing", p>> \notin Uses

\* no initialize before update() has reported what is pending
PatientUses == \A p \in Places : <<"initialize before update", p>> \notin Uses

\* no second initialize after one that failed
SingleAttempts == \A p \in Places : <<"initialize after failure", p>> \notin Uses

\* next() only from the callback of a batch or of a token that did not end the response, which
\* feed the processor no input; and no input before update() has reported what is pending
TurnPlaces == {"on_batch_processed", "on_write"}
TurnUses ==
    /\ \A p \in Places : /\ <<"next after finish", p>> \notin Uses
                         /\ <<"execute_input before update", p>> \notin Uses
    /\ \A p \in Places \ TurnPlaces : <<"next", p>> \notin Uses
    /\ \A p \in TurnPlaces : <<"execute_input", p>> \notin Uses

initialize ==
    /\ Calling(IF Undelivered THEN "initialize before update"
               ELSE IF mIsInitializeFailed THEN "initialize after failure"
               ELSE "initialize")
    /\ ~mSignal["init"] /\ ~mSignal["destroy"]
    /\ ~mIsRegistered
    /\ LP!SetSignal("init") /\ caller' = "start"
    /\ UNCHANGED <<flagVars, contextVars, hostVars>>

\* execute_input; kv_locked is the input the KV-lock caching mode stores.
execute_input(kv_locked) ==
    LET s == IF kv_locked THEN "kv" ELSE "input"
    IN  /\ Calling(IF Undelivered THEN "execute_input before update" ELSE "execute_input")
        /\ Ready
        /\ mIsRunning
        /\ is_available
        /\ LP!SetSignal(s) /\ caller' = "start"
        /\ UNCHANGED <<flagVars, contextVars, hostVars>>

\* next does not ask is_available, nor whether there is anything to sample.
next ==
    /\ Calling(IF rest = "finish" THEN "next after finish" ELSE "next")
    /\ Ready
    /\ ~mSignal["decode"]
    /\ ~mSignalState["decode"]
    /\ mIsRunning
    /\ LP!SetSignal("decode") /\ caller' = "start"
    /\ UNCHANGED <<flagVars, contextVars, hostVars>>

set_inference_client ==
    /\ Calling("set_inference_client")
    /\ Ready
    /\ ~mAssignedClient
    /\ mAssignedClient' = TRUE
    /\ place' = "on_register"
    /\ UNCHANGED <<processorVars, mIsRegistered, mIsRunning, mIsInitializeFailed, contextVars, rest,
                   asked>>

halt ==
    /\ Calling("halt")
    /\ mIsRunning' = FALSE
    /\ UNCHANGED <<processorVars, mIsRegistered, mIsInitializeFailed, mAssignedClient,
                   contextVars, hostVars>>

resume ==
    /\ Calling(IF Ready THEN "resume" ELSE "resume unregistered")
    /\ mIsRunning' = TRUE
    /\ UNCHANGED <<processorVars, mIsRegistered, mIsInitializeFailed, mAssignedClient,
                   contextVars, hostVars>>

\* destroy asks is_registered() ...
destroy ==
    /\ Calling(IF mIsProcessorRunning THEN "destroy while running" ELSE "destroy")
    /\ mIsRegistered
    /\ asked' = TRUE
    /\ UNCHANGED <<processorVars, flagVars, contextVars, place, rest>>

\* ... and then signal_destroying(): the worker of an earlier destroy may have
\* unregistered the processor and dropped the signal in between, and the signal
\* is raised again where no worker will see it
DestroyGoesOn ==
    /\ asked
    /\ asked' = FALSE
    /\ IF mSignal["destroy"]
       THEN UNCHANGED <<processorVars, mAssignedClient>>
       ELSE mAssignedClient' = FALSE /\ LP!SetSignal("destroy") /\ caller' = "start"
    /\ UNCHANGED <<mIsRegistered, mIsRunning, mIsInitializeFailed, contextVars, place, rest>>

\* ~InfProcessorTextToText: with a context it stops the worker and frees the
\* context; the members and then ~logical_processor follow.
Delete ==
    /\ Calling(IF mSignal["init"] \/ mSignal["destroy"] THEN "delete while changing"
               ELSE "delete")
    /\ rest = "none"
    /\ IF mModelContext = "live"
       THEN LP!CallStop /\ caller' = "stop_join" /\ rest' = "free"
       ELSE LP!CallStop /\ caller' = "delete_join" /\ rest' = "destruct"
    /\ UNCHANGED <<flagVars, contextVars, place, asked>>

DeleteFree ==
    /\ rest = "free"
    /\ LP!CallStop /\ caller' = "delete_join"
    /\ mModelContext' = "null"
    /\ mAssignedClient' = FALSE
    /\ rest' = "destruct"
    /\ UNCHANGED <<mIsRegistered, mIsRunning, mIsInitializeFailed, mFinishState, logits,
                   continueDue, place, asked>>

LeaveCallback ==
    /\ caller = "idle" /\ ~asked
    /\ rest = "none"
    /\ place # "main"
    /\ place' = "main"
    /\ UNCHANGED <<processorVars, flagVars, contextVars, rest, asked>>

\* start_processor and stop_processor go on
ProcessorStep ==
    /\ LP!OwnerStep
    /\ IF rest = "on_destroy" /\ caller' = "idle"
       THEN place' = "on_destroy" /\ rest' = "none" /\ UNCHANGED asked
       ELSE UNCHANGED hostVars
    /\ UNCHANGED <<flagVars, contextVars>>

-----------------------------------------------------------------------------
(* update(), called from the program loop.  While a signal is high it only *)
(* makes a progress callback.                                              *)

Update ==
    /\ caller = "idle" /\ ~asked
    /\ rest = "none"
    /\ place = "main"
    /\ is_available

UpdateDestroyed ==
    /\ Update
    /\ mSignalState["destroy"]
    /\ LP!ResetSignals({}, Signals)
    /\ rest' = "stop"
    /\ UNCHANGED <<flagVars, contextVars, place, asked>>

\* mutant of UpdateStop: the worker is forgotten instead of joined
UpdateDetach ==
    /\ rest = "stop"
    /\ caller = "idle"
    /\ mIsProcessorRunning' = FALSE
    /\ mThreadHandle' = NoThread
    /\ rest' = "none"
    /\ place' = "on_destroy"
    /\ UNCHANGED <<mSignal, mSignalState, owed, phase, at, todo, caller, flagVars, contextVars,
                   asked>>

\* ... stop_processor(); on_destroy()
UpdateStop ==
    /\ rest = "stop"
    /\ LP!CallStop /\ caller' = "stop_join"
    /\ rest' = "on_destroy"
    /\ UNCHANGED <<flagVars, contextVars, place, asked>>

\* mutant of UpdateInitialized: is_init_failed() is not asked
UpdateInitializedAnyway ==
    /\ Update
    /\ ~mSignalState["destroy"]
    /\ mSignalState["init"]
    /\ LP!ResetSignals({"init"}, {})
    /\ place' = "on_initialize"
    /\ mIsRunning' = TRUE
    /\ mIsRegistered' = TRUE
    /\ UNCHANGED <<mIsInitializeFailed, mAssignedClient, contextVars, rest, asked>>

UpdateInitialized ==
    /\ Update
    /\ ~mSignalState["destroy"]
    /\ mSignalState["init"]
    /\ LP!ResetSignals({"init"}, {})
    /\ IF mIsInitializeFailed
       THEN place' = "on_initialize_fail" /\ UNCHANGED <<mIsRunning, mIsRegistered>>
       ELSE place' = "on_initialize" /\ mIsRunning' = TRUE /\ mIsRegistered' = TRUE
    /\ UNCHANGED <<mIsInitializeFailed, mAssignedClient, contextVars, rest, asked>>

\* a callback of the client, if there is one
Notify(callback) == place' = IF mAssignedClient THEN callback ELSE "main"

UpdateInput ==
    /\ Update
    /\ ~mSignalState["destroy"] /\ ~mSignalState["init"]
    /\ mSignalState["input"]
    /\ LP!ResetSignals({"input"}, {})
    /\ Notify("on_batch_processed")
    /\ UNCHANGED <<flagVars, contextVars, rest, asked>>

\* mutant of UpdateKv: the signal state is not reset
UpdateKvKept ==
    /\ Update
    /\ \A s \in {"destroy", "init", "input"} : ~mSignalState[s]
    /\ mSignalState["kv"]
    /\ Notify("on_kv_processed")
    /\ UNCHANGED <<processorVars, flagVars, contextVars, rest, asked>>

UpdateKv ==
    /\ Update
    /\ \A s \in {"destroy", "init", "input"} : ~mSignalState[s]
    /\ mSignalState["kv"]
    /\ LP!ResetSignals({"kv"}, {})
    /\ Notify("on_kv_processed")
    /\ UNCHANGED <<flagVars, contextVars, rest, asked>>

isNotFinished == mFinishState # "FINISHED"      \* mutant: the wrong enumerator

isFinish == mFinishState # "CONTINUE"

UpdateDecode ==
    /\ Update
    /\ \A s \in {"destroy", "init", "input", "kv"} : ~mSignalState[s]
    /\ mSignalState["decode"]
    /\ LP!ResetSignals({"decode"}, IF isFinish THEN {"input"} ELSE {})
    /\ rest' = IF isFinish /\ mAssignedClient THEN "finish" ELSE "none"
    /\ Notify("on_write")
    /\ UNCHANGED <<flagVars, contextVars, asked>>

\* on_write has returned; on_finish(this, mContextCursor, mFinishState)
UpdateFinish ==
    /\ caller = "idle" /\ ~asked
    /\ rest = "finish"
    /\ rest' = "none"
    /\ place' = "on_finish"
    /\ UNCHANGED <<processorVars, flagVars, contextVars, asked>>

-----------------------------------------------------------------------------
(* update_t, in the worker.                                                *)

Enter(t) ==
    /\ LP!Enter(t)
    /\ todo'[t] = IF mIsRegistered THEN Signals \ {"init"} ELSE {"init"}
    /\ UNCHANGED <<flagVars, contextVars, hostVars>>

\* the order update_t looks at the signals in
Before(s) ==
    CASE s \in {"init", "destroy"} -> {}
      [] s = "lora"   -> {"destroy"}
      [] s = "kv"     -> {"destroy", "lora"}
      [] s = "input"  -> {"destroy", "lora", "kv"}
      [] s = "decode" -> {"destroy", "lora", "kv", "input"}

\* mutants of Look: is_running() is not asked; CONTINUE is written at the end
LookWhenHalted(t, s) ==
    /\ ~continueDue
    /\ todo[t] \cap Before(s) = {}
    /\ LP!Look(t, s)
    /\ UNCHANGED <<flagVars, contextVars, hostVars>>
LookBeforeContinue(t, s) ==
    /\ todo[t] \cap Before(s) = {}
    /\ s = "lora" => mIsRunning
    /\ LP!Look(t, s)
    /\ UNCHANGED <<flagVars, contextVars, hostVars>>

\* is_running() is read once, with the look at the LoRA signal
Look(t, s) ==
    /\ ~continueDue
    /\ todo[t] \cap Before(s) = {}
    /\ s = "lora" => mIsRunning
    /\ LP!Look(t, s)
    /\ UNCHANGED <<flagVars, contextVars, hostVars>>

\* llama_init_from_model returns a context
ContextMade ==
    /\ mModelContext' = "live"
    /\ UNCHANGED mIsInitializeFailed

\* mutant of ContextRefused: the failure is not recorded
ContextRefusedSilently ==
    /\ mModelContext' = "null"
    /\ UNCHANGED mIsInitializeFailed

\* the model is not initialized, or llama_init_from_model returns NULL
ContextRefused ==
    /\ mModelContext' \in {mModelContext, "null"}
    /\ mIsInitializeFailed' = TRUE

\* _initialize_context
InitializeContext(t) ==
    /\ at[t] = "init"
    /\ LP!FinishState(t)
    /\ ContextMade \/ ContextRefused
    /\ logits' = FALSE
    /\ UNCHANGED <<mIsRegistered, mIsRunning, mAssignedClient, mFinishState, continueDue,
                   hostVars>>

\* _destroy_context
DestroyContext(t) ==
    /\ at[t] = "destroy"
    /\ LP!FinishState(t)
    /\ mModelContext' = "null"
    /\ mIsRunning' = FALSE
    /\ mIsInitializeFailed' = FALSE
    /\ mFinishState' = "FINISHED"
    /\ mAssignedClient' = FALSE
    /\ mIsRegistered' = FALSE
    /\ logits' = FALSE
    /\ UNCHANGED <<continueDue, hostVars>>

\* mutant of DecodeInput: the last token asks for no logits
DecodeInputNoLogits(t) ==
    /\ at[t] \in {"input", "kv"}
    /\ LP!FinishState(t)
    /\ logits' = FALSE
    /\ UNCHANGED <<flagVars, mFinishState, mModelContext, continueDue, hostVars>>

\* _decode_input and _decode_kv_locked_input: only the last token of a plain
\* input is decoded with logits
DecodeInput(t) ==
    /\ at[t] \in {"input", "kv"}
    /\ LP!FinishState(t)
    /\ logits' = (at[t] = "input")
    /\ UNCHANGED <<flagVars, mFinishState, mModelContext, continueDue, hostVars>>

\* _decode_next: stops at the token count asked for, or finishes; finishing
\* with manual caching replays the response without logits
DecodeNext(t) ==
    /\ at[t] = "decode"
    /\ LP!FinishState(t)
    /\ \/ UNCHANGED <<mFinishState, logits>>
       \/ /\ mFinishState' \in {"FINISHED", "TOKEN_LIMIT_REACHED"}
          /\ logits' \in {logits, FALSE}
    /\ UNCHANGED <<flagVars, mModelContext, continueDue, hostVars>>

FinishSignal(t) ==
    /\ LP!FinishSignal(t)
    /\ continueDue' = (at[t] = "input")
    /\ UNCHANGED <<flagVars, mFinishState, mModelContext, logits, hostVars>>

\* the last line of _decode_input, after set_signal_finished
WriteContinue ==
    /\ continueDue
    /\ continueDue' = FALSE
    /\ mFinishState' = "CONTINUE"
    /\ UNCHANGED <<processorVars, flagVars, mModelContext, logits, hostVars>>

Return(t) ==
    /\ ~continueDue
    /\ \/ todo[t] = {}
       \/ todo[t] = Signals \ {"init", "destroy"} /\ ~mIsRunning
    /\ LP!Return(t)
    /\ UNCHANGED <<flagVars, contextVars, hostVars>>

Exit(t) ==
    /\ LP!Exit(t)
    /\ UNCHANGED <<flagVars, contextVars, hostVars>>

-----------------------------------------------------------------------------
Application ==
    \/ initialize
    \/ \E kv_locked \in BOOLEAN : execute_input(kv_locked)
    \/ next
    \/ set_inference_client
    \/ halt
    \/ resume
    \/ destroy
    \/ Delete
    \/ LeaveCallback

\* what the library does for the owner thread once called
Library ==
    \/ ProcessorStep
    \/ DestroyGoesOn
    \/ DeleteFree
    \/ UpdateStop
    \/ UpdateFinish

UpdateCall ==
    \/ UpdateDestroyed
    \/ UpdateInitialized
    \/ UpdateInput
    \/ UpdateKv
    \/ UpdateDecode

Worker(t) ==
    \/ Enter(t)
    \/ \E s \in Signals : Look(t, s)
    \/ InitializeContext(t)
    \/ DestroyContext(t)
    \/ DecodeInput(t)
    \/ DecodeNext(t)
    \/ FinishSignal(t)
    \/ WriteContinue
    \/ Return(t)
    \/ Exit(t)

Next == Application \/ Library \/ UpdateCall \/ \E t \in Threads : Worker(t)

Spec == Init /\ [][Next]_vars

\* The worker and the library's own steps are scheduled; the program loop
\* leaves its callbacks and keeps calling update().  No other call is assumed.
FairSpec ==
    /\ Spec
    /\ WF_vars(Library)
    /\ WF_vars(LeaveCallback)
    /\ WF_vars(UpdateCall)
    /\ \A t \in Threads : WF_vars(Worker(t))

-----------------------------------------------------------------------------
(* Properties.                                                             *)

InJob(S) == \E t \in Threads : at[t] \in S

\* The worker never decodes on, and never frees, a context that is gone.
ContextNotUsedAfterFree ==
    \A t \in Threads :
        phase[t] = "job" /\ at[t] \in {"input", "kv", "decode", "destroy"}
            => mModelContext = "live"

\* A live context is always accounted for: it belongs to a registered
\* processor, or its on_initialize is still to come.  Otherwise nothing will
\* ever free it and the application is never told of it.
ContextAccountedFor ==
    mModelContext = "live" /\ rest # "free" =>
        mIsRegistered \/ mSignal["init"] \/ mSignalState["init"]

\* on_initialize comes with a context and on_initialize_fail without one.
InitializeReportedTruly ==
    [][ /\ place' = "on_initialize" /\ place # "on_initialize"
              => mModelContext = "live"
        /\ place' = "on_initialize_fail" /\ place # "on_initialize_fail"
              => mModelContext = "null"
      ]_vars

\* The owner overwrites what a job reads, or reads what a job writes, only
\* while no worker is in that job: mTokenizedInput (execute_input),
\* mGeneratedTokenVector (next clears it, update copies it), and the context
\* parameters (initialize), all of which _destroy_context resets as well.
DataNotShared ==
    [][ /\ \A s \in {"input", "kv"} :
              mSignal'[s] /\ ~mSignal[s] => ~InJob({"input", "kv", "destroy"})
        /\ mSignal'["decode"] /\ ~mSignal["decode"] => ~InJob({"decode", "destroy"})
        /\ mSignal'["init"] /\ ~mSignal["init"] => ~InJob({"init", "destroy"})
        /\ place' = "on_write" /\ place # "on_write" => ~InJob({"decode", "destroy"})
      ]_vars

\* A decode samples only from logits that the last job computed.
DecodeHasLogits ==
    \A t \in Threads : phase[t] = "job" /\ at[t] = "decode" => logits

\* A finished generation is not forgotten: FINISHED or TOKEN_LIMIT_REACHED is
\* overwritten only after update() has reported the decode that reached it.
FinishReported ==
    [][/\ mFinishState # "CONTINUE" /\ mFinishState' = "CONTINUE" => ~mSignalState["decode"]
       /\ place' = "on_finish" /\ place # "on_finish" => mFinishState # "CONTINUE"]_vars

\* No job touches the members of an object whose destructor has run.
NoJobAfterDestruct ==
    rest = "destruct" => \A t \in Threads : at[t] = NoSignal

\* The detailed processor is a parallel state machine.
IsLogicalProcessor == LP!Spec

\* The detailed processor is a processor as its model object sees it.
life ==
    [stage |->
        IF rest \in {"free", "destruct"} THEN "deleted"
        ELSE IF mSignal["init"]
             THEN IF mSignalState["init"] THEN "made" ELSE "initializing"
        ELSE IF mSignal["destroy"]
             THEN IF mIsRegistered THEN "destroying"
                  ELSE IF \E t \in Threads : at[t] = "destroy" THEN "freed" ELSE "lost"
        ELSE IF mSignalState["destroy"] THEN "destroyed"
        ELSE IF mSignalState["init"] THEN "initialized"
        ELSE IF mIsRegistered THEN "registered" ELSE "off",
     registered |-> mIsRegistered,
     failed |-> mIsInitializeFailed,
     context |-> mModelContext]

PL == INSTANCE ProcessorLifecycle
IsProcessorLifecycle == PL!Spec

\* initialize comes to an end: initialize_sync returns.
InitializeCompletes == mSignal["init"] ~> ~mSignal["init"]

\* Once start_processor creates a worker for a raised signal, the signal
\* drops; an input or decode may find the processor halted or destroyed.
FreshWorkerServes ==
    \A s \in Signals \ {"lora"} :
        (caller = "start_run" /\ mSignal[s]) ~>
            \/ ~mSignal[s]
            \/ s \notin {"init", "destroy"} /\ ~mIsRunning

\* A signal is high and no worker, present or being created, will see it.
Stranded ==
    /\ caller = "idle"
    /\ \E s \in Signals : mSignal[s]
    /\ \A t \in Threads : ~LP!Live(t)

\* A completion is reported by update(), or dropped with a deleted processor,
\* unless another signal is stranded for ever: update() returns early then.
CompletionConsumed ==
    \/ \A s \in Signals : mSignalState[s] ~> ~mSignalState[s] \/ caller = "deleted"
    \/ <>[]Stranded

\* A raised decode signal means a worker will attend to it: next_sync returns.
DecodeCompletes == mSignal["decode"] ~> ~mSignal["decode"]
=============================================================================
