------------------------ MODULE LogicalProcessorProofs ------------------------
(* Proofs about the parallel state machine, for any set of signals and any *)
(* supply of threads.                                                      *)
EXTENDS LogicalProcessor, TLAPS

(***************************************************************************)
(* The inductive invariant.  OneJoinableWorker is not inductive alone: at  *)
(* StartRun it needs the handle to be zero, which StartJoin made it.       *)
(* CompletionNotLost needs to know, when the signal is dropped, that the   *)
(* state was written before.                                               *)
(***************************************************************************)
JobInv ==
    \A t \in Threads :
        /\ at[t] # NoSignal <=> phase[t] \in {"job", "finish"}
        /\ phase[t] = "finish" => mSignalState[at[t]]

HandleInv ==
    caller \in {"start_run", "deleted"} => mThreadHandle = NoThread

IInv ==
    /\ TypeOK
    /\ OneJoinableWorker
    /\ HandleInv
    /\ JobInv
    /\ SignalHeldDuringJob
    /\ CompletionNotLost

\* Type correctness: the flags stay Booleans, the handle names a thread or
\* nothing, and a worker is always at one of its phases.
THEOREM TypeCorrect == Spec => []TypeOK
<1>1. Init => TypeOK
  BY NoThreadAssumption DEF Init, Constructed, TypeOK, Phases, Callers
<1>2. TypeOK /\ [Next]_vars => TypeOK'
  <2> SUFFICES ASSUME TypeOK, [Next]_vars
               PROVE  TypeOK'
    OBVIOUS
  <2> USE DEF TypeOK, Phases, Callers, signalVars, threadVars
  <2>1. ASSUME NEW s \in Signals, SetSignal(s)
        PROVE  TypeOK'
    BY <2>1 DEF SetSignal
  <2>2. ASSUME NEW a \in SUBSET Signals, NEW b \in SUBSET Signals, ResetSignals(a, b)
        PROVE  TypeOK'
    BY <2>2 DEF ResetSignals
  <2>3. CASE CallStart \/ CallStop
    BY <2>3 DEF CallStart, CallStop
  <2>4. CASE OwnerStep
    BY <2>4 DEF OwnerStep, StartFindsRunning, StartFindsStopped, StartJoin, StartRun,
                StartRunFails, StopJoin
  <2>5. ASSUME NEW t \in Threads, Enter(t)
        PROVE  TypeOK'
    BY <2>5 DEF Enter
  <2>6. ASSUME NEW t \in Threads, NEW s \in Signals, Look(t, s)
        PROVE  TypeOK'
    BY <2>6 DEF Look
  <2>7. ASSUME NEW t \in Threads, FinishState(t) \/ FinishSignal(t)
        PROVE  TypeOK'
    BY <2>7 DEF FinishState, FinishSignal
  <2>8. ASSUME NEW t \in Threads, Return(t) \/ Exit(t)
        PROVE  TypeOK'
    BY <2>8 DEF Return, Exit
  <2>9. CASE UNCHANGED vars
    BY <2>9 DEF vars
  <2> QED
    BY <2>1, <2>2, <2>3, <2>4, <2>5, <2>6, <2>7, <2>8, <2>9 DEF Next, OwnerCall, Worker
<1> QED
  BY <1>1, <1>2, PTL DEF Spec

-----------------------------------------------------------------------------
(* The steps of the owner preserve the invariant.                          *)

LEMMA OwnerPreserves ==
  ASSUME IInv, OwnerCall \/ OwnerStep, TypeOK'
  PROVE  IInv'
<1> USE DEF IInv, TypeOK, OneJoinableWorker, HandleInv, JobInv, SignalHeldDuringJob,
            CompletionNotLost, Live, signalVars, threadVars
<1>1. ASSUME NEW s \in Signals, SetSignal(s)
      PROVE  IInv'
  BY <1>1 DEF SetSignal
<1>2. ASSUME NEW a \in SUBSET Signals, NEW b \in SUBSET Signals, ResetSignals(a, b)
      PROVE  IInv'
  <2>1. \A s \in Signals :
           /\ mSignal'[s] = (mSignal[s] /\ s \notin b)
           /\ mSignalState'[s] = (mSignalState[s] /\ s \notin a \cup b)
    BY <1>2 DEF ResetSignals
  <2>2. \A t \in Threads : at[t] \notin a \cup b
    BY <1>2 DEF ResetSignals
  <2>3. UNCHANGED <<mThreadHandle, phase, at, todo, caller>>
    BY <1>2 DEF ResetSignals
  <2>4. JobInv'
    <3> SUFFICES ASSUME NEW t \in Threads
                 PROVE  /\ at[t] # NoSignal <=> phase[t] \in {"job", "finish"}
                        /\ phase[t] = "finish" => mSignalState'[at[t]]
      BY <2>3
    <3>1. phase[t] = "finish" => /\ at[t] \in Signals
                                 /\ at[t] \notin a \cup b
                                 /\ mSignalState[at[t]]
      BY <2>2
    <3>2. phase[t] = "finish" => mSignalState'[at[t]]
      BY <2>1, <3>1, Zenon
    <3> QED
      BY <3>2
  <2>5. SignalHeldDuringJob'
    <3> SUFFICES ASSUME NEW t \in Threads, phase[t] \in {"job", "finish"}
                 PROVE  mSignal'[at[t]]
      BY <2>3
    <3>1. at[t] \in Signals /\ at[t] \notin b /\ mSignal[at[t]]
      BY <2>2
    <3> QED
      BY <2>1, <3>1, Zenon
  <2>6. CompletionNotLost'
    <3> SUFFICES ASSUME NEW s \in owed'
                 PROVE  mSignal'[s] \/ mSignalState'[s]
      OBVIOUS
    <3>1. s \in owed /\ s \notin b /\ s \in Signals /\ (s \notin a \/ mSignal[s])
      BY <1>2 DEF ResetSignals
    <3> QED
      BY <2>1, <3>1, Zenon
  <2> QED
    BY <2>3, <2>4, <2>5, <2>6
<1>3. CASE CallStart \/ CallStop
  BY <1>3 DEF CallStart, CallStop
<1>4. CASE StartFindsRunning \/ StartFindsStopped
  BY <1>4 DEF StartFindsRunning, StartFindsStopped
<1>5. CASE StartJoin \/ StopJoin
  \* the join returns: the worker the handle names is gone, so no worker is live
  BY <1>5 DEF StartJoin, StopJoin, Joined
<1>6. CASE StartRun \/ StartRunFails
  BY <1>6, NoThreadAssumption DEF StartRun, StartRunFails
<1> QED
  BY <1>1, <1>2, <1>3, <1>4, <1>5, <1>6 DEF OwnerCall, OwnerStep

-----------------------------------------------------------------------------
(* The steps of a worker preserve the invariant.                           *)

LEMMA WorkerPreserves ==
  ASSUME IInv, NEW t \in Threads, Worker(t), TypeOK'
  PROVE  IInv'
<1> USE NoSignalAssumption
    DEF IInv, TypeOK, OneJoinableWorker, HandleInv, JobInv, SignalHeldDuringJob,
        CompletionNotLost, Live, signalVars, threadVars
<1>1. CASE Enter(t)
  BY <1>1 DEF Enter
<1>2. ASSUME NEW s \in Signals, Look(t, s)
      PROVE  IInv'
  BY <1>2 DEF Look
<1>3. CASE FinishState(t)
  BY <1>3 DEF FinishState
<1>4. CASE FinishSignal(t)
  \* t is the only live worker, so no other job relies on the dropped signal
  <2>1. \A u \in Threads : u # t => phase[u] = "none" /\ at[u] = NoSignal
    BY <1>4 DEF FinishSignal
  <2>2. at[t] \in Signals /\ mSignalState[at[t]]
    BY <1>4 DEF FinishSignal
  <2>3. \A s \in owed : mSignal'[s] \/ mSignalState[s]
    BY <1>4, <2>2 DEF FinishSignal
  <2> QED
    BY <1>4, <2>1, <2>2, <2>3 DEF FinishSignal
<1>5. CASE Return(t)
  BY <1>5 DEF Return
<1>6. CASE Exit(t)
  BY <1>6 DEF Exit
<1> QED
  BY <1>1, <1>2, <1>3, <1>4, <1>5, <1>6 DEF Worker

LEMMA Inductive == Spec => []IInv
<1>1. Init => IInv
  BY DEF Init, Constructed, IInv, TypeOK, Phases, Callers, OneJoinableWorker, HandleInv, JobInv,
         SignalHeldDuringJob, CompletionNotLost, Live
<1>2. IInv /\ TypeOK' /\ [Next]_vars => IInv'
  <2> SUFFICES ASSUME IInv, TypeOK', [Next]_vars
               PROVE  IInv'
    OBVIOUS
  <2>1. CASE OwnerCall \/ OwnerStep
    BY <2>1, OwnerPreserves
  <2>2. ASSUME NEW t \in Threads, Worker(t)
        PROVE  IInv'
    BY <2>2, WorkerPreserves
  <2>3. CASE UNCHANGED vars
    BY <2>3 DEF vars, signalVars, threadVars, IInv, TypeOK, OneJoinableWorker, HandleInv,
                JobInv, SignalHeldDuringJob, CompletionNotLost, Live
  <2> QED
    BY <2>1, <2>2, <2>3 DEF Next
<1> QED
  BY <1>1, <1>2, TypeCorrect, PTL DEF Spec

-----------------------------------------------------------------------------
\* However start_processor, stop_processor and the exit of a worker
\* interleave, a live worker is the one mThreadHandle names: there is at most
\* one, and the next join waits for it.
THEOREM OneWorker == Spec => []OneJoinableWorker
<1>1. IInv => OneJoinableWorker
  BY DEF IInv
<1> QED
  BY <1>1, Inductive, PTL

\* Once the destructor has returned no worker thread is left.
THEOREM DeleteIsQuiet == Spec => []NoWorkerAfterDelete
<1>1. IInv => NoWorkerAfterDelete
  BY NoThreadAssumption DEF IInv, HandleInv, OneJoinableWorker, NoWorkerAfterDelete
<1> QED
  BY <1>1, Inductive, PTL

\* The signal of a job is high for as long as a worker is in the job.
THEOREM SignalGuardsJob == Spec => []SignalHeldDuringJob
<1>1. IInv => SignalHeldDuringJob
  BY DEF IInv
<1> QED
  BY <1>1, Inductive, PTL

\* A raised signal that is low again has left its completion behind.
THEOREM CompletionKept == Spec => []CompletionNotLost
<1>1. IInv => CompletionNotLost
  BY DEF IInv
<1> QED
  BY <1>1, Inductive, PTL

-----------------------------------------------------------------------------
(***************************************************************************)
(* When thread creation cannot fail, the running flag is true only while a *)
(* worker is on its way to writing it false (or about to be created).      *)
(***************************************************************************)
Working(t) == phase[t] \in {"begin", "update_t", "job", "finish"}

RunningInv ==
    mIsProcessorRunning /\ caller # "start_run" => \E t \in Threads : Working(t)

\* Where threads can be created, the early return of start_processor is taken
\* only while a worker has not yet left update_t.
THEOREM EarlyReturnJustified ==
  ASSUME ~SpawnMayFail
  PROVE  Spec => []RunningMeansWorker
<1>1. Init => RunningInv
  BY DEF Init, Constructed, RunningInv
<1>2. TypeOK /\ RunningInv /\ [Next]_vars => RunningInv'
  <2> SUFFICES ASSUME TypeOK, RunningInv, [Next]_vars
               PROVE  RunningInv'
    OBVIOUS
  <2> USE DEF TypeOK, RunningInv, Working, signalVars, threadVars
  <2>1. CASE OwnerCall
    BY <2>1 DEF OwnerCall, SetSignal, ResetSignals, CallStart, CallStop
  <2>2. CASE StartFindsRunning \/ StartFindsStopped \/ StartJoin \/ StopJoin
    BY <2>2 DEF StartFindsRunning, StartFindsStopped, StartJoin, StopJoin
  <2>3. CASE StartRun
    \* the new worker is the witness
    BY <2>3 DEF StartRun
  <2>4. CASE StartRunFails
    BY <2>4 DEF StartRunFails
  <2>5. ASSUME NEW t \in Threads, Enter(t) \/ FinishState(t) \/ FinishSignal(t)
        PROVE  RunningInv'
    BY <2>5 DEF Enter, FinishState, FinishSignal
  <2>6. ASSUME NEW t \in Threads, NEW s \in Signals, Look(t, s)
        PROVE  RunningInv'
    BY <2>6 DEF Look
  <2>7. ASSUME NEW t \in Threads, Return(t) \/ Exit(t)
        PROVE  RunningInv'
    \* Return writes the flag; the thread that exits was not a witness
    BY <2>7 DEF Return, Exit
  <2>8. CASE UNCHANGED vars
    BY <2>8 DEF vars
  <2> QED
    BY <2>1, <2>2, <2>3, <2>4, <2>5, <2>6, <2>7, <2>8 DEF Next, OwnerStep, Worker
<1>3. RunningInv => RunningMeansWorker
  BY DEF RunningInv, RunningMeansWorker, Working
<1> QED
  BY <1>1, <1>2, <1>3, TypeCorrect, PTL DEF Spec
=============================================================================
