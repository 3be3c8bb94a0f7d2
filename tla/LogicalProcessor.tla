--------------------------- MODULE LogicalProcessor ---------------------------
(***************************************************************************)
(* The signal-driven parallel state machine every long-running object of   *)
(* the SDK derives from: processor_signal and logical_processor            *)
(* (framework/logical_processing.h) on top of mbase::thread (thread.h).    *)
(*                                                                         *)
(* One thread, the owner, calls set_signal, start_processor, update and    *)
(* the destructor.  start_processor creates a worker thread that runs the  *)
(* subclass's update_t once: update_t looks at each signal at most once,   *)
(* does the job of a signal it finds high, and ends it with                *)
(* set_signal_finished.  Which signals an update_t looks at, and in which  *)
(* order, is the subclass's business and left open here.                   *)
(*                                                                         *)
(* Nothing is atomic in the code but the single read or write of a flag:   *)
(* every action below makes at most one access to a flag the other side    *)
(* can change.                                                             *)
(***************************************************************************)
EXTENDS FiniteSets

CONSTANTS
    Signals,        \* the processor_signal members of the object
    NoSignal,       \* "in no job"
    Threads,        \* identities for the worker threads the OS hands out
    NoThread,       \* a zero mThreadHandle
    SpawnMayFail    \* can pthread_create / CreateThread fail?

ASSUME NoSignalAssumption == NoSignal \notin Signals
ASSUME NoThreadAssumption == NoThread \notin Threads
ASSUME SpawnMayFailAssumption == SpawnMayFail \in BOOLEAN

VARIABLES
    mSignal,             \* [Signals -> BOOLEAN], processor_signal::mSignal
    mSignalState,        \* [Signals -> BOOLEAN], processor_signal::mSignalState
    owed,                \* signals raised whose completion update() has not consumed
    mIsProcessorRunning, \* logical_processor::mIsProcessorRunning
    mThreadHandle,       \* thread::mThreadHandle
    phase,               \* where each worker thread is
    at,                  \* the signal whose job each worker thread is in
    todo,                \* the signals its update_t may still look at
    caller               \* where the owner is inside start/stop/~logical_processor

signalVars == <<mSignal, mSignalState, owed>>
threadVars == <<mThreadHandle, phase, at, todo>>
vars == <<signalVars, mIsProcessorRunning, threadVars, caller>>

Phases  == {"none", "begin", "update_t", "job", "finish", "exit"}
Callers == {"idle", "start", "start_join", "start_run", "stop_join",
            "delete_join", "deleted"}

Live(t) == phase[t] # "none"

TypeOK ==
    /\ mSignal \in [Signals -> BOOLEAN]
    /\ mSignalState \in [Signals -> BOOLEAN]
    /\ owed \in SUBSET Signals
    /\ mIsProcessorRunning \in BOOLEAN
    /\ mThreadHandle \in Threads \cup {NoThread}
    /\ phase \in [Threads -> Phases]
    /\ at \in [Threads -> Signals \cup {NoSignal}]
    /\ todo \in [Threads -> SUBSET Signals]
    /\ caller \in Callers

\* the constructors; thread's zeroes the handle
Constructed(handle) ==
    /\ mSignal = [s \in Signals |-> FALSE]
    /\ mSignalState = [s \in Signals |-> FALSE]
    /\ owed = {}
    /\ mIsProcessorRunning = FALSE
    /\ mThreadHandle = handle
    /\ phase = [t \in Threads |-> "none"]
    /\ at = [t \in Threads |-> NoSignal]
    /\ todo = [t \in Threads |-> {}]
    /\ caller = "idle"

InitUnsetHandle == Constructed("unset")     \* mutant: no initialiser for the handle

Init == Constructed(NoThread)

-----------------------------------------------------------------------------
(* The owner: processor_signal.                                            *)

\* set_signal, on its own (return to "idle") or as in most methods directly
\* before start_processor ("start").
SetSignal(s) ==
    /\ caller = "idle"
    /\ mSignal' = [mSignal EXCEPT ![s] = TRUE]
    /\ owed' = owed \cup {s}
    /\ caller' \in {"idle", "start"}
    /\ UNCHANGED <<mSignalState, mIsProcessorRunning, threadVars>>

\* update() consumes completions with reset_signal_state, and drops whole
\* signals with reset_signal_with_state.  The owner resets only signals whose
\* job no worker is in: it has read them low.
ResetSignals(stateOf, wholly) ==
    /\ caller = "idle"
    /\ \A t \in Threads : at[t] \notin stateOf \cup wholly
    /\ mSignalState' = [s \in Signals |->
                            mSignalState[s] /\ s \notin stateOf \cup wholly]
    /\ mSignal' = [s \in Signals |-> mSignal[s] /\ s \notin wholly]
    /\ owed' = (owed \ wholly) \ {s \in stateOf : ~mSignal[s]}
    /\ UNCHANGED <<mIsProcessorRunning, threadVars, caller>>

-----------------------------------------------------------------------------
(* The owner: start_processor, stop_processor and the destructor.          *)

CallStart ==
    /\ caller = "idle"
    /\ caller' = "start"
    /\ UNCHANGED <<signalVars, mIsProcessorRunning, threadVars>>

\* if(mIsProcessorRunning) return;
StartFindsRunning ==
    /\ caller = "start"
    /\ mIsProcessorRunning
    /\ caller' = "idle"
    /\ UNCHANGED <<signalVars, mIsProcessorRunning, threadVars>>

\* else stop_processor(); its first assignment, then on to join().
StartFindsStopped ==
    /\ caller = "start"
    /\ ~mIsProcessorRunning
    /\ mIsProcessorRunning' = FALSE
    /\ caller' = "start_join"
    /\ UNCHANGED <<signalVars, threadVars>>

JoinWithoutWait == TRUE                                              \* mutant
JoinNeedsHandle == \E t \in Threads : t = mThreadHandle /\ ~Live(t)   \* mutant

\* thread::join returns at once for a zero handle and otherwise waits for the
\* thread to terminate; either way the handle is zero afterwards.
Joined == \A t \in Threads : t = mThreadHandle => ~Live(t)

\* stop_processor() returns; mIsProcessorRunning = true.
StartJoin ==
    /\ caller = "start_join"
    /\ Joined
    /\ mThreadHandle' = NoThread
    /\ mIsProcessorRunning' = TRUE
    /\ caller' = "start_run"
    /\ UNCHANGED <<signalVars, phase, at, todo>>

\* mProcessorThread.run(): _run joins again and creates the thread.
StartRun ==
    /\ caller = "start_run"
    /\ Joined
    /\ \E t \in Threads :
          /\ ~Live(t)
          /\ mThreadHandle' = t
          /\ phase' = [phase EXCEPT ![t] = "begin"]
    /\ caller' = "idle"
    /\ UNCHANGED <<signalVars, mIsProcessorRunning, at, todo>>

\* The creation fails; start_processor ignores what run() returns.  POSIX leaves the handle
\* undefined then; taken here is a creation that is refused before it writes the handle, which
\* the join before it has zeroed.
StartRunFails ==
    /\ SpawnMayFail
    /\ caller = "start_run"
    /\ Joined
    /\ mThreadHandle' = NoThread
    /\ caller' = "idle"
    /\ UNCHANGED <<signalVars, mIsProcessorRunning, phase, at, todo>>

\* stop_processor, called on its own or by ~logical_processor.
CallStop ==
    /\ caller = "idle"
    /\ mIsProcessorRunning' = FALSE
    /\ caller' \in {"stop_join", "delete_join"}
    /\ UNCHANGED <<signalVars, threadVars>>

StopJoin ==
    /\ caller \in {"stop_join", "delete_join"}
    /\ Joined
    /\ mThreadHandle' = NoThread
    /\ caller' = IF caller = "stop_join" THEN "idle" ELSE "deleted"
    /\ UNCHANGED <<signalVars, mIsProcessorRunning, phase, at, todo>>

-----------------------------------------------------------------------------
(* The worker thread: _update_t_static.                                    *)

\* update_t starts and decides which signals this pass may look at.
Enter(t) ==
    /\ phase[t] = "begin"
    /\ phase' = [phase EXCEPT ![t] = "update_t"]
    /\ \E S \in SUBSET Signals : todo' = [todo EXCEPT ![t] = S]
    /\ UNCHANGED <<signalVars, mIsProcessorRunning, mThreadHandle, at, caller>>

\* if(signal.get_signal()) do the job
Look(t, s) ==
    /\ phase[t] = "update_t"
    /\ s \in todo[t]
    /\ todo' = [todo EXCEPT ![t] = @ \ {s}]
    /\ IF mSignal[s]
       THEN /\ phase' = [phase EXCEPT ![t] = "job"]
            /\ at' = [at EXCEPT ![t] = s]
       ELSE UNCHANGED <<phase, at>>
    /\ UNCHANGED <<signalVars, mIsProcessorRunning, mThreadHandle, caller>>

\* mutant of FinishState: mSignal = false is the first write
FinishStateDropsSignal(t) ==
    /\ phase[t] = "job"
    /\ mSignal' = [mSignal EXCEPT ![at[t]] = FALSE]
    /\ phase' = [phase EXCEPT ![t] = "finish"]
    /\ UNCHANGED <<mSignalState, owed, mIsProcessorRunning, mThreadHandle, at, todo, caller>>

\* set_signal_finished, first write: mSignalState = true;
FinishState(t) ==
    /\ phase[t] = "job"
    /\ mSignalState' = [mSignalState EXCEPT ![at[t]] = TRUE]
    /\ phase' = [phase EXCEPT ![t] = "finish"]
    /\ UNCHANGED <<mSignal, owed, mIsProcessorRunning, mThreadHandle, at, todo, caller>>

\* mutant of FinishSignal: mSignal = false is missing
FinishSignalKept(t) ==
    /\ phase[t] = "finish"
    /\ phase' = [phase EXCEPT ![t] = "update_t"]
    /\ at' = [at EXCEPT ![t] = NoSignal]
    /\ UNCHANGED <<signalVars, mIsProcessorRunning, mThreadHandle, todo, caller>>

\* set_signal_finished, second write: mSignal = false;
FinishSignal(t) ==
    /\ phase[t] = "finish"
    /\ mSignal' = [mSignal EXCEPT ![at[t]] = FALSE]
    /\ phase' = [phase EXCEPT ![t] = "update_t"]
    /\ at' = [at EXCEPT ![t] = NoSignal]
    /\ UNCHANGED <<mSignalState, owed, mIsProcessorRunning, mThreadHandle, todo, caller>>

\* update_t returns; mIsProcessorRunning = false;
Return(t) ==
    /\ phase[t] = "update_t"
    /\ mIsProcessorRunning' = FALSE
    /\ phase' = [phase EXCEPT ![t] = "exit"]
    /\ todo' = [todo EXCEPT ![t] = {}]
    /\ UNCHANGED <<signalVars, mThreadHandle, at, caller>>

\* the thread terminates and can be joined
Exit(t) ==
    /\ phase[t] = "exit"
    /\ phase' = [phase EXCEPT ![t] = "none"]
    /\ UNCHANGED <<signalVars, mIsProcessorRunning, mThreadHandle, at, todo, caller>>

-----------------------------------------------------------------------------
OwnerCall ==
    \/ \E s \in Signals : SetSignal(s)
    \/ \E stateOf, wholly \in SUBSET Signals : ResetSignals(stateOf, wholly)
    \/ CallStart
    \/ CallStop

OwnerStep ==
    \/ StartFindsRunning
    \/ StartFindsStopped
    \/ StartJoin
    \/ StartRun
    \/ StartRunFails
    \/ StopJoin

Worker(t) ==
    \/ Enter(t)
    \/ \E s \in Signals : Look(t, s)
    \/ FinishState(t)
    \/ FinishSignal(t)
    \/ Return(t)
    \/ Exit(t)

Next == OwnerCall \/ OwnerStep \/ \E t \in Threads : Worker(t)

Spec == Init /\ [][Next]_vars

\* A call the owner is in goes on, and so does every worker: both are threads
\* the OS schedules.  That the owner makes a call is not assumed.
FairSpec ==
    /\ Spec
    /\ WF_vars(OwnerStep)
    /\ \A t \in Threads : WF_vars(Worker(t))

-----------------------------------------------------------------------------
(* What the class promises.                                                *)

\* A live worker is the one the handle names: no start_processor creates a
\* second worker beside it or forgets it, however its calls interleave with
\* the first worker's exit.
OneJoinableWorker ==
    \A t \in Threads : Live(t) => t = mThreadHandle

\* When ~logical_processor has returned no thread is left that could touch
\* the object.
NoWorkerAfterDelete ==
    caller = "deleted" => \A t \in Threads : ~Live(t)

\* A job's signal is high from before the job starts until after its
\* completion is visible, so an owner that reads the signal low may use what
\* the job wrote, and one that reads it high is kept away.
SignalHeldDuringJob ==
    \A t \in Threads : phase[t] \in {"job", "finish"} => mSignal[at[t]]

\* set_signal_finished writes the state before it drops the signal: an owner
\* that reads a raised signal low always finds the completion to consume.
CompletionNotLost ==
    \A s \in owed : mSignal[s] \/ mSignalState[s]

\* The early return of start_processor ("if it is running, do nothing") finds
\* a worker that has not left update_t.
RunningMeansWorker ==
    caller = "idle" /\ mIsProcessorRunning =>
        \E t \in Threads : phase[t] \in {"begin", "update_t", "job", "finish"}

\* Every call of start_processor, stop_processor and the destructor returns:
\* the join inside never waits for a thread that does not end.
CallsReturn == caller # "idle" ~> caller \in {"idle", "deleted"}
=============================================================================
