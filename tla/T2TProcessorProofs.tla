-------------------------- MODULE T2TProcessorProofs --------------------------
(* Proofs about the text-to-text processor.  It shares the variables of a  *)
(* parallel state machine, every one of its steps is a step of that        *)
(* machine or leaves it alone, and so everything LogicalProcessorProofs    *)
(* establishes holds of it.                                                *)
EXTENDS T2TProcessor, TLAPS

LPP == INSTANCE LogicalProcessorProofs WITH SpawnMayFail <- FALSE

LEMMA LPStep == [Next]_vars => [LP!Next]_(LP!vars)
<1> SUFFICES ASSUME [Next]_vars
             PROVE  LP!Next \/ UNCHANGED processorVars
  BY DEF processorVars, LP!vars, LP!signalVars, LP!threadVars
<1>1. CASE Application
  <2>1. ASSUME NEW s \in Signals, LP!SetSignal(s)
        PROVE  LP!Next
    BY <2>1 DEF LP!Next, LP!OwnerCall
  <2>2. CASE initialize \/ next
    BY <2>1, <2>2 DEF initialize, next, Signals
  <2>3. ASSUME NEW kv_locked \in BOOLEAN, execute_input(kv_locked)
        PROVE  LP!Next
    BY <2>1, <2>3 DEF execute_input, Signals
  <2>4. CASE Delete
    BY <2>4 DEF Delete, LP!Next, LP!OwnerCall
  <2>5. CASE set_inference_client \/ halt \/ resume \/ destroy \/ LeaveCallback
    BY <2>5 DEF set_inference_client, halt, resume, destroy, LeaveCallback
  <2> QED
    BY <1>1, <2>2, <2>3, <2>4, <2>5 DEF Application
<1>2. CASE Library
  BY <1>2 DEF Library, ProcessorStep, DestroyGoesOn, DeleteFree, UpdateStop, UpdateFinish, LP!Next,
              LP!OwnerCall, Signals
<1>3. CASE UpdateCall
  <2>1. ASSUME NEW a \in SUBSET Signals, NEW b \in SUBSET Signals, LP!ResetSignals(a, b)
        PROVE  LP!Next
    BY <2>1 DEF LP!Next, LP!OwnerCall
  <2>2. CASE UpdateDestroyed
    BY <2>1, <2>2 DEF UpdateDestroyed
  <2>3. CASE UpdateInitialized
    BY <2>1, <2>3 DEF UpdateInitialized, Signals
  <2>4. CASE UpdateInput \/ UpdateKv
    BY <2>1, <2>4 DEF UpdateInput, UpdateKv, Signals
  <2>5. CASE UpdateDecode
    BY <2>1, <2>5 DEF UpdateDecode, Signals
  <2> QED
    BY <1>3, <2>2, <2>3, <2>4, <2>5 DEF UpdateCall
<1>4. ASSUME NEW t \in Threads, Worker(t)
      PROVE  LP!Next \/ UNCHANGED processorVars
  <2>1. LP!Worker(t) => LP!Next
    BY DEF LP!Next
  <2>2. CASE Enter(t) \/ Return(t) \/ Exit(t)
    BY <2>1, <2>2 DEF Enter, Return, Exit, LP!Worker
  <2>3. ASSUME NEW s \in Signals, Look(t, s)
        PROVE  LP!Next
    BY <2>1, <2>3 DEF Look, LP!Worker
  <2>4. CASE InitializeContext(t) \/ DestroyContext(t) \/ DecodeInput(t) \/ DecodeNext(t)
    BY <2>1, <2>4 DEF InitializeContext, DestroyContext, DecodeInput, DecodeNext, LP!Worker
  <2>5. CASE FinishSignal(t)
    BY <2>1, <2>5 DEF FinishSignal, LP!Worker
  <2>6. CASE WriteContinue
    BY <2>6 DEF WriteContinue
  <2> QED
    BY <1>4, <2>2, <2>3, <2>4, <2>5, <2>6 DEF Worker
<1>5. CASE UNCHANGED vars
  BY <1>5 DEF vars, processorVars
<1> QED
  BY <1>1, <1>2, <1>3, <1>4, <1>5 DEF Next

\* The processor is a parallel state machine: each of its steps is one of
\* set_signal, start_processor, stop_processor, the resets and the worker, or
\* leaves the machine alone.
THEOREM Implements == Spec => IsLogicalProcessor
<1>1. Init => LP!Init
  BY DEF Init, Constructed
<1> QED
  BY <1>1, LPStep, PTL DEF Spec, IsLogicalProcessor, LP!Spec

\* The machine LogicalProcessorProofs reasons about is the same one.
LEMMA SameMachine == LP!Spec => LPP!Spec
<1>1. LP!Init => LPP!Init
  BY DEF LP!Init, LPP!Init, LP!Constructed, LPP!Constructed
<1>2. [LP!Next]_(LP!vars) => [LPP!Next]_(LPP!vars)
  <2>1. UNCHANGED LP!vars => UNCHANGED LPP!vars
    BY DEF LP!vars, LPP!vars, LP!signalVars, LPP!signalVars, LP!threadVars, LPP!threadVars
  <2>2. LP!OwnerCall => LPP!OwnerCall
    BY Zenon DEF LP!OwnerCall, LPP!OwnerCall, LP!SetSignal, LPP!SetSignal, LP!ResetSignals,
           LPP!ResetSignals, LP!CallStart, LPP!CallStart, LP!CallStop, LPP!CallStop,
           LP!signalVars, LPP!signalVars, LP!threadVars, LPP!threadVars
  <2>3. LP!OwnerStep => LPP!OwnerStep
    BY DEF LP!OwnerStep, LPP!OwnerStep, LP!StartFindsRunning, LPP!StartFindsRunning,
           LP!StartFindsStopped, LPP!StartFindsStopped, LP!StartJoin, LPP!StartJoin,
           LP!StartRun, LPP!StartRun, LP!StartRunFails, LPP!StartRunFails, LP!StopJoin,
           LPP!StopJoin, LP!Joined, LPP!Joined, LP!Live, LPP!Live,
           LP!signalVars, LPP!signalVars, LP!threadVars, LPP!threadVars
  <2>4. ASSUME NEW t \in Threads, LP!Worker(t)
        PROVE  LPP!Worker(t)
    BY <2>4, Zenon DEF LP!Worker, LPP!Worker, LP!Enter, LPP!Enter, LP!Look, LPP!Look,
           LP!FinishState, LPP!FinishState, LP!FinishSignal, LPP!FinishSignal,
           LP!Return, LPP!Return, LP!Exit, LPP!Exit,
           LP!signalVars, LPP!signalVars, LP!threadVars, LPP!threadVars
  <2> QED
    BY <2>1, <2>2, <2>3, <2>4 DEF LP!Next, LPP!Next
<1> QED
  BY <1>1, <1>2, PTL DEF LP!Spec, LPP!Spec

\* So its inductive invariant holds here.
LEMMA MachineInvariant == Spec => []LPP!IInv
<1>1. LPP!Spec => []LPP!IInv
  BY LPP!Inductive, NoSignalAssumption, NoThreadAssumption
<1> QED
  BY <1>1, Implements, SameMachine, PTL DEF IsLogicalProcessor

-----------------------------------------------------------------------------
(***************************************************************************)
(* Where the context lives.  A registered processor has one.  What a pass  *)
(* of update_t still may do depends on what it found at its start: a pass  *)
(* that has destroy ahead runs on a registered processor; past destroy the *)
(* processor is registered or is_running() will say no; past is_running()  *)
(* it is registered again, since only this worker could have ended that.   *)
(***************************************************************************)
RegisteredInv ==
    /\ ~mSignal["lora"]
    /\ mIsRegistered => ~mSignal["init"] /\ ~mSignalState["init"]
    /\ mIsRegistered /\ rest # "destruct" => mModelContext = "live"
    /\ mSignalState["init"] /\ rest # "destruct"
          => mModelContext = "live" \/ mIsInitializeFailed

PassInv ==
    \A t \in Threads :
        /\ phase[t] \notin {"update_t", "job", "finish"} => todo[t] = {}
        /\ "destroy" \in todo[t] => mIsRegistered /\ "lora" \in todo[t]
        /\ "lora" \in todo[t] => mIsRegistered \/ ~mIsRunning
        /\ todo[t] \cap {"kv", "input", "decode"} # {} /\ "lora" \notin todo[t]
              => mIsRegistered
        /\ at[t] \in {"kv", "input", "decode"} => mIsRegistered /\ "lora" \notin todo[t]
        /\ at[t] = "destroy" => "destroy" \notin todo[t] /\ "lora" \in todo[t]
        /\ at[t] = "destroy" /\ phase[t] = "job" => mIsRegistered
        /\ "init" \in todo[t] => todo[t] = {"init"}
        /\ at[t] = "init" => ~mIsRegistered /\ todo[t] = {}

DestructInv ==
    /\ rest = "free" => caller \in {"stop_join", "idle"}
    /\ rest = "free" /\ caller = "idle" => \A t \in Threads : ~LP!Live(t)
    /\ rest = "destruct" => caller \in {"delete_join", "deleted"}
    /\ rest = "destruct" =>
          \/ \A t \in Threads : ~LP!Live(t)
          \/ /\ ~mIsRegistered /\ ~mSignal["init"] /\ ~mSignal["destroy"]
             /\ \A t \in Threads : at[t] = NoSignal

\* Between the two questions of destroy() the processor is registered, or the
\* worker has just ended that.
AskedInv ==
    asked => /\ caller = "idle" /\ rest \in {"none", "finish"}
             /\ mIsRegistered \/ mSignalState["destroy"]
             /\ ~mSignal["init"] /\ ~mSignalState["init"]

ContextInv == RegisteredInv /\ PassInv /\ DestructInv /\ AskedInv

-----------------------------------------------------------------------------
\* The members of the processor keep their types: the model's states are
\* states of the program, and at any time the application runs in at most
\* one callback.
THEOREM TypeCorrect == Spec => []TypeOK
<1> USE DEF TypeOK, Places, Rests, FinishStates
<1>1. Init => TypeOK
  <2>1. Init => LP!TypeOK
    BY NoThreadAssumption
    DEF Init, Constructed, LP!Init, LP!Constructed, LP!TypeOK, LP!Phases, LP!Callers
  <2> QED
    BY <2>1 DEF Init, Constructed
<1>2. LPP!IInv => LP!TypeOK
  BY DEF LPP!IInv, LPP!TypeOK, LP!TypeOK, LPP!Phases, LP!Phases, LPP!Callers, LP!Callers
<1>3. TypeOK /\ LP!TypeOK' /\ [Next]_vars => TypeOK'
  <2> SUFFICES ASSUME TypeOK, LP!TypeOK', [Next]_vars
               PROVE  TypeOK'
    OBVIOUS
  <2> USE DEF flagVars, contextVars, hostVars
  <2>1. CASE Application
    BY <2>1 DEF Application, initialize, execute_input, next, set_inference_client, halt,
                resume, destroy, Delete, LeaveCallback
  <2>2. CASE Library
    BY <2>2 DEF Library, ProcessorStep, DestroyGoesOn, DeleteFree, UpdateStop, UpdateFinish
  <2>3. CASE UpdateCall
    BY <2>3 DEF UpdateCall, UpdateDestroyed, UpdateInitialized, UpdateInput, UpdateKv,
                UpdateDecode, Notify
  <2>4. ASSUME NEW t \in Threads, Worker(t)
        PROVE  TypeOK'
    <3>1. CASE InitializeContext(t) \/ DestroyContext(t) \/ DecodeInput(t) \/ DecodeNext(t)
      BY <3>1 DEF InitializeContext, ContextMade, ContextRefused, DestroyContext,
                  DecodeInput, DecodeNext
    <3>2. CASE FinishSignal(t) \/ WriteContinue
      BY <3>2 DEF FinishSignal, WriteContinue
    <3>3. CASE Enter(t) \/ Return(t) \/ Exit(t) \/ \E s \in Signals : Look(t, s)
      BY <3>3 DEF Enter, Return, Exit, Look
    <3> QED
      BY <2>4, <3>1, <3>2, <3>3 DEF Worker
  <2>5. CASE UNCHANGED vars
    BY <2>5 DEF vars
  <2> QED
    BY <2>1, <2>2, <2>3, <2>4, <2>5 DEF Next
<1> QED
  BY <1>1, <1>2, <1>3, MachineInvariant, PTL DEF Spec

-----------------------------------------------------------------------------
\* While a job runs its signal is high, so the guards of the owner's calls
\* keep them off the data the job works on.
LEMMA JobsHoldTheirSignal ==
  ASSUME LPP!IInv, NEW t \in Threads
  PROVE  /\ at[t] \in Signals \cup {NoSignal}
         /\ at[t] # NoSignal => mSignal[at[t]]
         /\ at[t] # NoSignal <=> phase[t] \in {"job", "finish"}
         /\ LP!Live(t) => mThreadHandle = t
BY DEF LPP!IInv, LPP!TypeOK, LPP!JobInv, LPP!SignalHeldDuringJob, LPP!OneJoinableWorker,
       LPP!Live, LP!Live

LEMMA LowMeansNoJob ==
  ASSUME LPP!IInv, NEW S \in SUBSET Signals, \A s \in S : ~mSignal[s]
  PROVE  ~InJob(S)
BY JobsHoldTheirSignal, NoSignalAssumption DEF InJob

\* Only set_signal raises a signal, and only the one it is called on.
LEMMA RaisedBySetSignal ==
  ASSUME LPP!IInv, NEW s \in Signals, LP!SetSignal(s), NEW x \in Signals,
         mSignal'[x], ~mSignal[x]
  PROVE  x = s
BY DEF LP!SetSignal, LPP!IInv, LPP!TypeOK

LEMMA OthersRaiseNothing ==
  ASSUME LPP!IInv, NEW x \in Signals, mSignal'[x], ~mSignal[x],
         \/ Library /\ ~DestroyGoesOn
         \/ UpdateCall \/ (\E t \in Threads : Worker(t)) \/ UNCHANGED vars
  PROVE  FALSE
<1> USE DEF LPP!IInv, LPP!TypeOK, LP!signalVars, LP!threadVars, processorVars
<1>1. CASE Library /\ ~DestroyGoesOn
  BY <1>1 DEF Library, ProcessorStep, DeleteFree, UpdateStop, UpdateFinish, LP!CallStop,
              LP!OwnerStep, LP!StartFindsRunning, LP!StartFindsStopped, LP!StartJoin,
              LP!StartRun, LP!StartRunFails, LP!StopJoin
<1>2. CASE UpdateCall
  <2>1. ASSUME NEW a, NEW b, LP!ResetSignals(a, b)
        PROVE  FALSE
    BY <2>1, Zenon DEF LP!ResetSignals
  <2> QED
    BY <1>2, <2>1, Zenon DEF UpdateCall, UpdateDestroyed, UpdateInitialized, UpdateInput,
                             UpdateKv, UpdateDecode
<1>3. ASSUME NEW t \in Threads, Worker(t)
      PROVE  FALSE
  <2>1. CASE WriteContinue
    BY <2>1 DEF WriteContinue
  <2>2. CASE FinishSignal(t)
    BY <2>2 DEF FinishSignal, LP!FinishSignal
  <2>3. CASE InitializeContext(t) \/ DestroyContext(t) \/ DecodeInput(t) \/ DecodeNext(t)
    BY <2>3 DEF InitializeContext, DestroyContext, DecodeInput, DecodeNext, LP!FinishState
  <2>4. CASE Enter(t) \/ Return(t) \/ Exit(t) \/ \E s \in Signals : Look(t, s)
    BY <2>4 DEF Enter, Return, Exit, Look, LP!Enter, LP!Return, LP!Exit, LP!Look
  <2> QED
    BY <1>3, <2>1, <2>2, <2>3, <2>4 DEF Worker
<1>4. CASE UNCHANGED vars
  BY <1>4 DEF vars
<1> QED
  BY <1>1, <1>2, <1>3, <1>4

\* execute_input, next, initialize and the on_write of update() never touch
\* the vectors and parameters of a job that is running, whatever calls the
\* application makes and wherever it makes them.
THEOREM NoSharing == Spec => DataNotShared
<1> DEFINE Guarded(x, S) == mSignal'[x] /\ ~mSignal[x] => ~InJob(S)
           Safe == /\ \A s \in {"input", "kv"} : Guarded(s, {"input", "kv", "destroy"})
                   /\ Guarded("decode", {"decode", "destroy"})
                   /\ Guarded("init", {"init", "destroy"})
                   /\ place' = "on_write" /\ place # "on_write"
                         => ~InJob({"decode", "destroy"})
<1>1. LPP!IInv /\ [Next]_vars => Safe
  <2> SUFFICES ASSUME LPP!IInv, [Next]_vars
               PROVE  Safe
    OBVIOUS
  <2>1. ASSUME NEW kv_locked \in BOOLEAN, execute_input(kv_locked)
        PROVE  Safe
    <3>1. ~InJob({"input", "kv", "destroy"})
      BY <2>1, LowMeansNoJob DEF execute_input, is_available, Signals
    <3>2. \A x \in Signals : mSignal'[x] /\ ~mSignal[x] => x \in {"input", "kv"}
      BY <2>1, RaisedBySetSignal DEF execute_input, Signals
    <3> QED
      BY <2>1, <3>1, <3>2 DEF execute_input, hostVars, Signals
  <2>2. CASE next
    <3>1. ~InJob({"decode", "destroy"})
      BY <2>2, LowMeansNoJob DEF next, Ready, Signals
    <3>2. \A x \in Signals : mSignal'[x] /\ ~mSignal[x] => x = "decode"
      BY <2>2, RaisedBySetSignal DEF next, Signals
    <3> QED
      BY <2>2, <3>1, <3>2 DEF next, hostVars, Signals
  <2>3. CASE initialize
    <3>1. ~InJob({"init", "destroy"})
      BY <2>3, LowMeansNoJob DEF initialize, Signals
    <3>2. \A x \in Signals : mSignal'[x] /\ ~mSignal[x] => x = "init"
      BY <2>3, RaisedBySetSignal DEF initialize, Signals
    <3> QED
      BY <2>3, <3>1, <3>2 DEF initialize, hostVars, Signals
  <2>4. CASE DestroyGoesOn
    <3>1. \A x \in Signals : mSignal'[x] /\ ~mSignal[x] => x = "destroy"
      <4>1. CASE mSignal["destroy"]
        BY <2>4, <4>1 DEF DestroyGoesOn, processorVars
      <4>2. CASE ~mSignal["destroy"]
        BY <2>4, <4>2, RaisedBySetSignal DEF DestroyGoesOn, Signals
      <4> QED
        BY <4>1, <4>2
    <3> QED
      BY <2>4, <3>1 DEF DestroyGoesOn, Signals
  <2>5. CASE set_inference_client \/ halt \/ resume \/ destroy \/ Delete \/ LeaveCallback
    BY <2>5 DEF set_inference_client, halt, resume, destroy, Delete, LeaveCallback, processorVars,
                hostVars, LP!CallStop, LP!signalVars
  <2>6. CASE UpdateDecode
    <3>1. ~InJob({"decode", "destroy"})
      BY <2>6, LowMeansNoJob DEF UpdateDecode, Update, is_available, Signals
    <3> QED
      BY <2>6, <3>1, OthersRaiseNothing DEF UpdateCall, Signals
  <2>7. CASE UpdateDestroyed \/ UpdateInitialized \/ UpdateInput \/ UpdateKv
    <3>1. place' = "on_write" => place = "on_write"
      BY <2>7 DEF UpdateDestroyed, UpdateInitialized, UpdateInput, UpdateKv, Notify
    <3> QED
      BY <2>7, <3>1, OthersRaiseNothing DEF UpdateCall, Signals
  <2>8. CASE (Library /\ ~DestroyGoesOn) \/ (\E t \in Threads : Worker(t)) \/ UNCHANGED vars
    <3>1. place' = "on_write" => place = "on_write"
      BY <2>8 DEF Library, ProcessorStep, DestroyGoesOn, DeleteFree, UpdateStop, UpdateFinish, Worker, Enter,
                  Look, InitializeContext, DestroyContext, DecodeInput, DecodeNext,
                  FinishSignal, WriteContinue, Return, Exit, vars, hostVars
    <3> QED
      BY <2>8, <3>1, OthersRaiseNothing DEF Signals
  <2> QED
    BY <2>1, <2>2, <2>3, <2>4, <2>5, <2>6, <2>7, <2>8 DEF Next, Application, Library, UpdateCall
<1>2. LPP!IInv /\ [Next]_vars => [Safe]_vars
  BY <1>1
<1> QED
  BY <1>2, MachineInvariant, PTL DEF Spec, DataNotShared

-----------------------------------------------------------------------------
(* The context invariant.  It needs two restrictions on the application,   *)
(* both of which the code leaves unchecked: resume() is called on a        *)
(* registered processor that is not changing, and a processor is not       *)
(* deleted while it initializes or destroys (LawfulUses).                  *)

\* what the machine's invariant gives about one worker, and about two
LEMMA MachineFacts ==
  ASSUME LPP!IInv
  PROVE  /\ mSignal \in [Signals -> BOOLEAN] /\ mSignalState \in [Signals -> BOOLEAN]
         /\ phase \in [Threads -> LP!Phases] /\ todo \in [Threads -> SUBSET Signals]
         /\ at \in [Threads -> Signals \cup {NoSignal}]
         /\ caller \in LP!Callers
         /\ \A t \in Threads : /\ at[t] # NoSignal => mSignal[at[t]]
                               /\ at[t] # NoSignal <=> phase[t] \in {"job", "finish"}
         /\ \A t, u \in Threads : phase[t] # "none" /\ phase[u] # "none" => t = u
         /\ caller = "start_run" => \A t \in Threads : phase[t] = "none"
BY NoThreadAssumption
   DEF LPP!IInv, LPP!TypeOK, LPP!JobInv, LPP!SignalHeldDuringJob, LPP!OneJoinableWorker,
       LPP!HandleInv, LPP!Live, LP!Phases, LPP!Phases, LP!Callers, LPP!Callers

LEMMA ApplicationKeeps ==
  ASSUME LawfulUses, LPP!IInv, TypeOK, ContextInv, Application
  PROVE  ContextInv'
<1> USE MachineFacts, NoSignalAssumption
    DEF ContextInv, RegisteredInv, PassInv, DestructInv, AskedInv, LP!Live, Signals, Calling,
        flagVars, contextVars, hostVars, processorVars, LP!signalVars, LP!threadVars
<1>1. CASE initialize
  BY <1>1 DEF initialize, LP!SetSignal
<1>2. ASSUME NEW kv_locked \in BOOLEAN, execute_input(kv_locked)
      PROVE  ContextInv'
  BY <1>2 DEF execute_input, LP!SetSignal
<1>3. CASE next
  BY <1>3 DEF next, LP!SetSignal
<1>7. CASE destroy
  BY <1>7 DEF destroy
<1>4. CASE set_inference_client \/ halt \/ LeaveCallback
  BY <1>4 DEF set_inference_client, halt, LeaveCallback
<1>5. CASE resume
  <2>1. mIsRegistered
    BY <1>5 DEF resume, LawfulUses, Ready, TypeOK
  <2> QED
    BY <1>5, <2>1 DEF resume
<1>6. CASE Delete
  <2>1. ~mSignal["init"] /\ ~mSignal["destroy"]
    BY <1>6 DEF Delete, LawfulUses, TypeOK
  <2>2. CASE mModelContext = "live"
    <3>1. /\ rest = "none" /\ rest' = "free" /\ caller' = "stop_join"
          /\ UNCHANGED <<mSignal, mSignalState, mIsRegistered, mIsRunning,
                         mIsInitializeFailed, mModelContext, phase, at, todo, asked>>
            /\ ~asked
      BY <1>6, <2>2 DEF Delete, LP!CallStop
    <3> QED
      BY <3>1
  <2>3. CASE mModelContext # "live"
    \* not registered, so no worker is in a job that needs the context
    <3>1. ~mIsRegistered
      BY <1>6, <2>3 DEF Delete
    <3>2. \A t \in Threads : at[t] = NoSignal
      BY <2>1, <3>1
    <3> QED
      BY ZenonT(60), <1>6, <2>1, <2>3, <3>1, <3>2 DEF Delete, LP!CallStop
  <2> QED
    BY <2>2, <2>3
<1> QED
  BY <1>1, <1>2, <1>3, <1>4, <1>5, <1>6, <1>7 DEF Application

LEMMA LibraryKeeps ==
  ASSUME LPP!IInv, LPP!IInv', TypeOK, ContextInv, Library \/ UpdateCall
  PROVE  ContextInv'
<1> USE MachineFacts, NoSignalAssumption
    DEF ContextInv, RegisteredInv, PassInv, DestructInv, AskedInv, LP!Live, Signals,
        flagVars, contextVars, hostVars, processorVars, LP!signalVars, LP!threadVars
<1>1. CASE ProcessorStep
  <2>1. /\ UNCHANGED <<mSignal, mSignalState, mIsRegistered, mIsRunning,
                       mIsInitializeFailed, mModelContext, at, todo, asked>>
        /\ caller # "idle"
        /\ \/ rest' = rest
           \/ rest = "on_destroy" /\ rest' = "none"
    BY <1>1 DEF ProcessorStep, LP!OwnerStep, LP!StartFindsRunning, LP!StartFindsStopped,
                LP!StartJoin, LP!StartRun, LP!StartRunFails, LP!StopJoin
  <2>2. CASE LP!StartRun
    <3>1. \A t \in Threads : phase[t] = "none" /\ at[t] = NoSignal /\ todo[t] = {}
      BY <2>2 DEF LP!StartRun
    <3>2. caller = "start_run" /\ caller' = "idle"
      BY <2>2 DEF LP!StartRun
    <3> QED
      BY <2>1, <3>1, <3>2
  <2>3. CASE LP!StopJoin \/ LP!StartJoin
    <3>1. /\ \A t \in Threads : phase[t] = "none"
          /\ phase' = phase
      BY <2>3, NoThreadAssumption
      DEF LP!StopJoin, LP!StartJoin, LP!Joined, LPP!IInv, LPP!OneJoinableWorker, LPP!Live
    <3>2. \/ caller = "stop_join" /\ caller' = "idle"
          \/ caller = "delete_join" /\ caller' = "deleted"
          \/ caller = "start_join" /\ caller' = "start_run"
      BY <2>3 DEF LP!StopJoin, LP!StartJoin
    <3> QED
      BY <2>1, <3>1, <3>2
  <2>4. CASE LP!StartFindsRunning \/ LP!StartFindsStopped
    BY <2>1, <2>4 DEF LP!StartFindsRunning, LP!StartFindsStopped
  <2>5. ~LP!StartRunFails
    BY DEF LP!StartRunFails
  <2> QED
    BY <1>1, <2>2, <2>3, <2>4, <2>5 DEF ProcessorStep, LP!OwnerStep
<1>5. CASE DestroyGoesOn
  <2>1. /\ asked /\ ~asked'
        /\ mSignal' = mSignal \/ mSignal' = [mSignal EXCEPT !["destroy"] = TRUE]
        /\ UNCHANGED <<mSignalState, mIsRegistered, mIsRunning, mIsInitializeFailed,
                       mModelContext, rest, phase, at, todo>>
    BY <1>5 DEF DestroyGoesOn, LP!SetSignal
  <2> QED
    BY <2>1
<1>2. CASE DeleteFree
  <2>1. \A t \in Threads : phase[t] = "none"
    BY <1>2 DEF DeleteFree, LP!CallStop
  <2> QED
    BY <1>2, <2>1 DEF DeleteFree, LP!CallStop
<1>3. CASE UpdateStop \/ UpdateFinish
  BY <1>3 DEF UpdateStop, UpdateFinish, LP!CallStop
<1>4. CASE UpdateCall
  <2>1. ASSUME NEW a \in SUBSET Signals, NEW b \in SUBSET Signals, LP!ResetSignals(a, b)
        PROVE  /\ \A s \in Signals : mSignal'[s] => mSignal[s]
               /\ \A s \in Signals : mSignalState'[s] => mSignalState[s]
               /\ \A s \in a \cup b : ~mSignalState'[s]
               /\ UNCHANGED <<phase, at, todo, caller>>
    BY <2>1, Zenon DEF LP!ResetSignals, LP!threadVars
  <2>2. CASE UpdateInitialized
    <3>1. ~mSignal["init"] /\ mSignalState["init"] /\ rest = "none"
      BY <2>2 DEF UpdateInitialized, Update, is_available
    <3>2. \A t \in Threads : at[t] # "init"
      BY <3>1
    <3> QED
      BY <2>1, <2>2, <3>1, <3>2 DEF UpdateInitialized
  <2>3. CASE UpdateDestroyed
    BY <2>1, <2>3 DEF UpdateDestroyed, Update
  <2>4. CASE UpdateInput \/ UpdateKv
    BY <2>1, <2>4 DEF UpdateInput, UpdateKv, Update
  <2>5. CASE UpdateDecode
    BY <2>1, <2>5 DEF UpdateDecode, Update
  <2> QED
    BY <1>4, <2>2, <2>3, <2>4, <2>5 DEF UpdateCall
<1> QED
  BY <1>1, <1>2, <1>3, <1>4, <1>5 DEF Library

LEMMA WorkerKeeps ==
  ASSUME LPP!IInv, TypeOK, ContextInv, NEW t \in Threads, Worker(t)
  PROVE  ContextInv'
<1> USE MachineFacts, NoSignalAssumption
    DEF ContextInv, RegisteredInv, PassInv, DestructInv, AskedInv, LP!Live, Signals, LP!Phases,
        flagVars, contextVars, hostVars, processorVars, LP!signalVars, LP!threadVars
<1>1. CASE Enter(t)
  BY <1>1 DEF Enter, LP!Enter
<1>2. ASSUME NEW s \in Signals, Look(t, s)
      PROVE  ContextInv'
  BY <1>2 DEF Look, LP!Look, Before
<1>3. CASE InitializeContext(t)
  BY <1>3 DEF InitializeContext, ContextMade, ContextRefused, LP!FinishState
<1>4. CASE DestroyContext(t)
  BY <1>4 DEF DestroyContext, LP!FinishState
<1>5. CASE DecodeInput(t) \/ DecodeNext(t)
  <2>1. /\ phase[t] = "job" /\ phase' = [phase EXCEPT ![t] = "finish"]
        /\ at[t] \in {"input", "kv", "decode"}
        /\ mSignalState' = [mSignalState EXCEPT ![at[t]] = TRUE]
        /\ UNCHANGED <<mSignal, mIsRegistered, mIsRunning, mIsInitializeFailed,
                       mModelContext, rest, at, todo, caller, asked>>
    BY <1>5 DEF DecodeInput, DecodeNext, LP!FinishState
  <2> QED
    BY <2>1
<1>6. CASE FinishSignal(t)
  BY <1>6 DEF FinishSignal, LP!FinishSignal
<1>7. CASE WriteContinue
  BY <1>7 DEF WriteContinue
<1>8. CASE Return(t) \/ Exit(t)
  BY <1>8 DEF Return, Exit, LP!Return, LP!Exit
<1> QED
  BY <1>1, <1>2, <1>3, <1>4, <1>5, <1>6, <1>7, <1>8 DEF Worker

LEMMA ContextInductive ==
  ASSUME LawfulUses
  PROVE  Spec => []ContextInv
<1>1. Init => ContextInv
  BY NoSignalAssumption
  DEF Init, Constructed, LP!Init, LP!Constructed, LP!Live, Signals, ContextInv, RegisteredInv,
      PassInv, DestructInv, AskedInv
<1>2. LPP!IInv /\ LPP!IInv' /\ TypeOK /\ ContextInv /\ [Next]_vars => ContextInv'
  <2>1. ASSUME ContextInv, UNCHANGED vars
        PROVE  ContextInv'
    BY <2>1 DEF vars, flagVars, contextVars, hostVars, processorVars, ContextInv,
                RegisteredInv, PassInv, DestructInv, AskedInv, LP!Live
  <2> QED
    BY <2>1, ApplicationKeeps, LibraryKeeps, WorkerKeeps DEF Next
<1> QED
  BY <1>1, <1>2, MachineInvariant, TypeCorrect, PTL DEF Spec

\* No decode, and no second free, ever runs on a context that has been freed
\* or was never made, in whatever order the application initializes, feeds,
\* halts, resumes, destroys and deletes the processor.
THEOREM NoUseAfterFree ==
  ASSUME LawfulUses
  PROVE  Spec => []ContextNotUsedAfterFree
<1>1. LPP!IInv /\ ContextInv => ContextNotUsedAfterFree
  BY MachineFacts, NoSignalAssumption
  DEF ContextInv, RegisteredInv, PassInv, DestructInv, ContextNotUsedAfterFree, LP!Live, Signals
<1> QED
  BY <1>1, ContextInductive, MachineInvariant, PTL

\* When the destructor has gone past the processor's own members, no worker
\* is in a job that uses them.
THEOREM DestructedIsQuiet ==
  ASSUME LawfulUses
  PROVE  Spec => []NoJobAfterDestruct
<1>1. LPP!IInv /\ ContextInv => NoJobAfterDestruct
  BY MachineFacts, NoSignalAssumption DEF ContextInv, DestructInv, NoJobAfterDestruct, LP!Live
<1> QED
  BY <1>1, ContextInductive, MachineInvariant, PTL

-----------------------------------------------------------------------------
(***************************************************************************)
(* The life of the context, as the model object sees it.  Besides the      *)
(* lawful uses it needs that initialize is not called before update() has  *)
(* reported what is pending (PatientUses): its signal would be taken for a *)
(* completion.                                                             *)
(***************************************************************************)
\* Raised and complete at once: only between the writes of set_signal_finished.
Finishing(s) ==
    mSignal[s] /\ mSignalState[s] => \E t \in Threads : at[t] = s /\ phase[t] = "finish"

LifeInv ==
    /\ mIsRegistered => ~mSignalState["destroy"]
    /\ mSignal["init"] => ~mSignal["destroy"] /\ ~mSignalState["destroy"]
    /\ Finishing("init")
    /\ \A t \in Threads : at[t] = "destroy" /\ phase[t] = "finish" => ~mIsRegistered
    /\ \A t \in Threads : phase[t] = "finish" => mSignalState[at[t]]
    /\ rest \in {"free", "destruct"} => ~mSignal["init"] /\ ~mSignal["destroy"]

LifeAt(stage, registered, failed, context) ==
    [stage |-> stage, registered |-> registered, failed |-> failed, context |-> context]

LEMMA LifeMoves ==
  ASSUME NEW r \in BOOLEAN, NEW f \in BOOLEAN, NEW c
  PROVE  /\ LifeAt("destroying", r, f, c) \in PL!DestroyCalled(LifeAt("registered", r, f, c))
         /\ LifeAt("lost", r, f, c) \in PL!DestroyCalledLate(LifeAt("destroyed", r, f, c))
         /\ LifeAt("made", r, f, "live") \in PL!ContextMade(LifeAt("initializing", r, f, c))
         /\ \A d \in {c, "null"} : LifeAt("made", r, TRUE, d)
                                   \in PL!ContextRefused(LifeAt("initializing", r, f, c))
         /\ LifeAt("freed", FALSE, FALSE, "null")
               \in PL!ContextFreed(LifeAt("destroying", r, f, c))
         /\ LifeAt("initialized", r, f, c) \in PL!SignalDropped(LifeAt("made", r, f, c))
         /\ LifeAt("destroyed", r, f, c) \in PL!SignalDropped(LifeAt("freed", r, f, c))
         /\ f => LifeAt("off", r, f, c) \in PL!Updated(LifeAt("initialized", r, f, c))
         /\ ~f => LifeAt("registered", TRUE, f, c) \in PL!Updated(LifeAt("initialized", r, f, c))
<1>1. ASSUME NEW a, NEW b
      PROVE  PL!To(LifeAt(a, r, f, c), b) = LifeAt(b, r, f, c)
  BY DEF LifeAt, PL!To
<1>2. ASSUME NEW a, NEW b
      PROVE  PL!At(LifeAt(a, r, f, c), b) <=> a = b
  BY DEF LifeAt, PL!At
<1>3. LifeAt("initialized", r, f, c).failed = f
  BY DEF LifeAt
<1>4. ASSUME NEW a, NEW x \in BOOLEAN
      PROVE  [LifeAt(a, r, f, c) EXCEPT !.registered = x] = LifeAt(a, x, f, c)
  BY DEF LifeAt
<1>12. ASSUME NEW a, NEW z
       PROVE  [LifeAt(a, r, f, c) EXCEPT !.context = z] = LifeAt(a, r, f, z)
  BY DEF LifeAt
<1>5. LifeAt("destroying", r, f, c) \in PL!DestroyCalled(LifeAt("registered", r, f, c))
  BY <1>1, <1>2 DEF PL!DestroyCalled
<1>13. LifeAt("lost", r, f, c) \in PL!DestroyCalledLate(LifeAt("destroyed", r, f, c))
  <2>1. LifeAt("destroyed", r, f, c).stage = "destroyed"
    BY DEF LifeAt
  <2> QED
    BY <1>1, <2>1 DEF PL!DestroyCalledLate
<1>6. f => LifeAt("off", r, f, c) \in PL!Updated(LifeAt("initialized", r, f, c))
  BY <1>1, <1>2, <1>3 DEF PL!Updated
<1>7. ~f => LifeAt("registered", TRUE, f, c) \in PL!Updated(LifeAt("initialized", r, f, c))
  BY <1>1, <1>2, <1>3, <1>4 DEF PL!Updated
<1>8. LifeAt("made", r, f, "live") \in PL!ContextMade(LifeAt("initializing", r, f, c))
  BY <1>1, <1>2, <1>12 DEF PL!ContextMade
<1>9. ASSUME NEW d \in {c, "null"}
      PROVE  LifeAt("made", r, TRUE, d) \in PL!ContextRefused(LifeAt("initializing", r, f, c))
  <2>1. LifeAt("initializing", r, f, c).context = c
    BY DEF LifeAt
  <2> QED
    BY <1>2, <2>1 DEF PL!ContextRefused, LifeAt
<1>10. LifeAt("freed", FALSE, FALSE, "null") \in PL!ContextFreed(LifeAt("destroying", r, f, c))
  BY <1>2 DEF PL!ContextFreed, LifeAt
<1>11. /\ LifeAt("initialized", r, f, c) \in PL!SignalDropped(LifeAt("made", r, f, c))
       /\ LifeAt("destroyed", r, f, c) \in PL!SignalDropped(LifeAt("freed", r, f, c))
  BY <1>1, <1>2 DEF PL!SignalDropped
<1> QED
  BY <1>5, <1>6, <1>7, <1>8, <1>9, <1>10, <1>11, <1>13

LEMMA ApplicationLives ==
  ASSUME LawfulUses, PatientUses, LPP!IInv, TypeOK, ContextInv, LifeInv, Application
  PROVE  LifeInv' /\ (PL!Next \/ UNCHANGED life)
<1> USE MachineFacts, NoSignalAssumption
    DEF Signals, Calling, flagVars, contextVars, hostVars, processorVars,
        LP!signalVars, LP!threadVars
<1>1. CASE initialize
  <2>1. /\ mSignal' = [mSignal EXCEPT !["init"] = TRUE]
        /\ ~mSignal["init"] /\ ~mSignal["destroy"] /\ ~mIsRegistered
        /\ \A s \in Signals : ~mSignalState[s]
        /\ rest \in {"none", "finish"}
        /\ UNCHANGED <<mSignalState, mIsRegistered, mIsInitializeFailed, mModelContext,
                       rest, phase, at>>
    BY <1>1 DEF initialize, LP!SetSignal, PatientUses, Undelivered, TypeOK
  <2>2. LifeInv'
    BY <2>1 DEF LifeInv, Finishing
  <2>3. life' \in PL!InitializeCalled(life)
    BY <2>1 DEF life, PL!InitializeCalled, PL!At, PL!To
  <2> QED
    BY <2>2, <2>3 DEF PL!Next, PL!Called
<1>3. CASE Delete
  <2>1. /\ ~mSignal["init"] /\ ~mSignal["destroy"]
        /\ rest = "none" /\ rest' \in {"free", "destruct"}
        /\ UNCHANGED <<mSignal, mSignalState, mIsRegistered, mIsInitializeFailed,
                       mModelContext, phase, at>>
    BY <1>3 DEF Delete, LP!CallStop, LawfulUses, TypeOK
  <2>2. LifeInv'
    BY <2>1 DEF LifeInv, Finishing
  <2>3. life' \in PL!Deleted(life)
    BY <2>1 DEF life, PL!Deleted, PL!Settled, PL!To
  <2> QED
    BY <2>2, <2>3 DEF PL!Next, PL!Called
<1>4. ASSUME NEW s \in {"kv", "input", "decode"}, LP!SetSignal(s),
             UNCHANGED <<mIsRegistered, mIsInitializeFailed, mModelContext, rest>>
      PROVE  LifeInv' /\ UNCHANGED life
  <2>1. /\ mSignal' = [mSignal EXCEPT ![s] = TRUE]
        /\ UNCHANGED <<mSignalState, phase, at>>
    BY <1>4 DEF LP!SetSignal
  <2> QED
    BY <1>4, <2>1 DEF LifeInv, Finishing, life
<1>5. ASSUME NEW kv_locked \in BOOLEAN, execute_input(kv_locked)
      PROVE  LifeInv' /\ UNCHANGED life
  BY <1>4, <1>5 DEF execute_input
<1>6. CASE next
  BY <1>4, <1>6 DEF next
<1>7. CASE set_inference_client \/ halt \/ resume \/ destroy \/ LeaveCallback
  <2>1. UNCHANGED <<mSignal, mSignalState, mIsRegistered, mIsInitializeFailed,
                    mModelContext, rest, phase, at>>
    BY <1>7 DEF set_inference_client, halt, resume, destroy, LeaveCallback
  <2> QED
    BY <2>1 DEF LifeInv, Finishing, life
<1> QED
  BY <1>1, <1>3, <1>5, <1>6, <1>7 DEF Application

LEMMA LibraryLives ==
  ASSUME LawfulUses, LPP!IInv, LPP!IInv', TypeOK, ContextInv, LifeInv, Library \/ UpdateCall
  PROVE  LifeInv' /\ (PL!Next \/ UNCHANGED life)
<1> USE MachineFacts, NoSignalAssumption
    DEF Signals, flagVars, contextVars, hostVars, processorVars, LP!signalVars, LP!threadVars
<1>1. CASE ProcessorStep
  <2>1. /\ UNCHANGED <<mSignal, mSignalState, mIsRegistered, mIsInitializeFailed,
                       mModelContext, at>>
        /\ \A t \in Threads : at[t] # NoSignal => phase'[t] = phase[t]
        /\ \A t \in Threads : phase'[t] = "finish" => phase[t] = "finish"
        /\ rest' = rest \/ (rest = "on_destroy" /\ rest' = "none")
    BY <1>1 DEF ProcessorStep, LP!OwnerStep, LP!StartFindsRunning, LP!StartFindsStopped,
                LP!StartJoin, LP!StartRun, LP!StartRunFails, LP!StopJoin, LP!Live
  <2> QED
    BY <2>1 DEF LifeInv, Finishing, life
<1>9. CASE DestroyGoesOn /\ mSignal["destroy"]
  BY <1>9 DEF DestroyGoesOn, LifeInv, Finishing, life
<1>10. CASE DestroyGoesOn /\ ~mSignal["destroy"]
  <2>1. /\ mSignal' = [mSignal EXCEPT !["destroy"] = TRUE]
        /\ ~mSignal["destroy"] /\ ~mSignal["init"] /\ ~mSignalState["init"]
        /\ mIsRegistered \/ mSignalState["destroy"]
        /\ rest \in {"none", "finish"}
        /\ UNCHANGED <<mSignalState, mIsRegistered, mIsInitializeFailed, mModelContext,
                       rest, phase, at>>
    BY <1>10 DEF DestroyGoesOn, LP!SetSignal, ContextInv, AskedInv
  <2>2. LifeInv'
    BY <2>1 DEF LifeInv, Finishing
  <2>3. CASE mIsRegistered
    <3>1. ~mSignalState["destroy"]
      BY <2>3 DEF LifeInv
    <3>2. life = LifeAt("registered", mIsRegistered, mIsInitializeFailed, mModelContext)
      BY <2>1, <2>3, <3>1 DEF life, LifeAt
    <3>3. life' = LifeAt("destroying", mIsRegistered', mIsInitializeFailed', mModelContext')
      BY <2>1, <2>3 DEF life, LifeAt
    <3>4. life' \in PL!DestroyCalled(life)
      BY <2>1, <3>2, <3>3, LifeMoves DEF TypeOK
    <3> QED
      BY <2>2, <3>4 DEF PL!Next, PL!Called
  <2>4. CASE ~mIsRegistered
    \* the worker has done with the earlier destroy
    <3>1. \A t \in Threads : at[t] # "destroy"
      BY <2>1
    <3>2. life = LifeAt("destroyed", mIsRegistered, mIsInitializeFailed, mModelContext)
      BY <2>1, <2>4 DEF life, LifeAt
    <3>3. life' = LifeAt("lost", mIsRegistered', mIsInitializeFailed', mModelContext')
      BY <2>1, <2>4, <3>1 DEF life, LifeAt
    <3>4. life' \in PL!DestroyCalledLate(life)
      BY <2>1, <3>2, <3>3, LifeMoves DEF TypeOK
    <3> QED
      BY <2>2, <3>4 DEF PL!Next, PL!Called
  <2> QED
    BY <2>3, <2>4
<1>2. CASE DeleteFree
  <2>1. /\ rest = "free" /\ rest' = "destruct" /\ mModelContext' = "null"
        /\ UNCHANGED <<mSignal, mSignalState, mIsRegistered, mIsInitializeFailed, phase, at>>
    BY <1>2 DEF DeleteFree, LP!CallStop
  <2>2. LifeInv'
    BY <2>1 DEF LifeInv, Finishing
  <2>3. life' \in PL!Swept(life)
    BY <2>1 DEF life, PL!Swept, PL!At
  <2> QED
    BY <2>2, <2>3 DEF PL!Next, PL!Called
<1>3. CASE UpdateStop \/ UpdateFinish
  BY <1>3 DEF UpdateStop, UpdateFinish, LP!CallStop, LifeInv, Finishing, life
<1>4. CASE UpdateDestroyed
  <2>1. /\ \A s \in Signals : ~mSignal'[s] /\ ~mSignalState'[s]
        /\ UNCHANGED <<phase, at>>
    BY <1>4, Zenon DEF UpdateDestroyed, LP!ResetSignals
  <2>2. /\ ~mSignal["init"] /\ ~mSignal["destroy"] /\ mSignalState["destroy"]
        /\ rest = "none" /\ rest' = "stop"
        /\ \A t \in Threads : phase[t] # "finish"
        /\ UNCHANGED <<mIsRegistered, mIsInitializeFailed, mModelContext>>
    BY <1>4 DEF UpdateDestroyed, Update, is_available, LP!ResetSignals
  <2>3. LifeInv'
    BY <2>1, <2>2 DEF LifeInv, Finishing
  <2>4. life' \in PL!Updated(life)
    BY <2>1, <2>2 DEF life, PL!Updated, PL!At, PL!To, LifeInv
  <2> QED
    BY <2>3, <2>4 DEF PL!Next, PL!Called
<1>5. ASSUME NEW s \in Signals \ {"destroy"}, NEW wholly \in SUBSET {"input"},
             LP!ResetSignals({s}, wholly), Update
      PROVE  /\ UNCHANGED <<phase, at>>
             /\ \A x \in {"init", "destroy"} : mSignal'[x] = mSignal[x]
             /\ mSignalState'["destroy"] = mSignalState["destroy"]
             /\ mSignalState'["init"] = (mSignalState["init"] /\ s # "init")
             /\ \A t \in Threads : at[t] # s /\ at[t] \notin wholly
             /\ \A x \in Signals : x # s /\ x \notin wholly
                                      => mSignalState'[x] = mSignalState[x]
  BY <1>5 DEF LP!ResetSignals
<1>6. ASSUME NEW s \in {"kv", "input", "decode"}, NEW wholly \in SUBSET {"input"},
             LP!ResetSignals({s}, wholly), Update,
             UNCHANGED <<mIsRegistered, mIsInitializeFailed, mModelContext>>,
             rest' \in {"none", "finish"}
      PROVE  LifeInv' /\ UNCHANGED life
  BY <1>5, <1>6 DEF LifeInv, Finishing, life, Update
<1>7. CASE UpdateInput \/ UpdateKv \/ UpdateDecode
  BY <1>6, <1>7 DEF UpdateInput, UpdateKv, UpdateDecode, Update
<1>8. CASE UpdateInitialized
  <2>1. /\ ~mSignal["init"] /\ ~mSignal["destroy"] /\ ~mSignalState["destroy"]
        /\ mSignalState["init"] /\ rest = "none" /\ rest' = "none"
        /\ UNCHANGED <<mIsInitializeFailed, mModelContext>>
        /\ mIsRegistered' = (mIsRegistered \/ ~mIsInitializeFailed)
    BY <1>8 DEF UpdateInitialized, Update, is_available, TypeOK
  <2>2. ~mIsRegistered
    BY <2>1 DEF ContextInv, RegisteredInv
  <2>3. /\ UNCHANGED <<phase, at>>
        /\ ~mSignal'["init"] /\ ~mSignal'["destroy"] /\ ~mSignalState'["destroy"]
        /\ ~mSignalState'["init"]
        /\ \A t \in Threads : at[t] # "init"
        /\ \A x \in Signals : x # "init" => mSignalState'[x] = mSignalState[x]
    <3>1. LP!ResetSignals({"init"}, {}) /\ Update
      BY <1>8 DEF UpdateInitialized
    <3>2. "init" \in Signals \ {"destroy"} /\ {} \in SUBSET {"input"}
      OBVIOUS
    <3> QED
      BY <1>5, <2>1, <3>1, <3>2
  <2>4. LifeInv'
    <3>1. \A t \in Threads : phase'[t] = "finish" => mSignalState'[at'[t]]
      BY <2>3 DEF LifeInv
    <3> QED
      BY <2>1, <2>3, <3>1 DEF LifeInv, Finishing
  <2>5. life' \in PL!Updated(life)
    <3>1. life = LifeAt("initialized", mIsRegistered, mIsInitializeFailed, mModelContext)
      BY <2>1 DEF life, LifeAt
    <3>2. CASE mIsInitializeFailed
      <4>1. life' = LifeAt("off", mIsRegistered', mIsInitializeFailed', mModelContext')
        BY <2>1, <2>2, <2>3, <3>2 DEF life, LifeAt
      <4> QED
        BY <2>1, <2>2, <3>1, <3>2, <4>1, LifeMoves DEF TypeOK
    <3>3. CASE ~mIsInitializeFailed
      <4>1. life' = LifeAt("registered", mIsRegistered', mIsInitializeFailed', mModelContext')
        BY <2>1, <2>2, <2>3, <3>3 DEF life, LifeAt
      <4> QED
        BY <2>1, <2>2, <3>1, <3>3, <4>1, LifeMoves DEF TypeOK
    <3> QED
      BY <3>2, <3>3
  <2> QED
    BY <2>4, <2>5 DEF PL!Next, PL!Called
<1> QED
  BY <1>1, <1>2, <1>3, <1>4, <1>7, <1>8, <1>9, <1>10 DEF Library, UpdateCall

LEMMA WorkerLives ==
  ASSUME LPP!IInv, TypeOK, ContextInv, LifeInv, NEW t \in Threads, Worker(t)
  PROVE  LifeInv' /\ (PL!Next \/ UNCHANGED life)
<1> USE MachineFacts, NoSignalAssumption
    DEF Signals, flagVars, contextVars, hostVars, processorVars, LP!signalVars, LP!threadVars
\* there is only one worker, so none other is finishing
<1>1. ASSUME NEW s \in Signals, at[t] = s, LP!FinishState(t)
      PROVE  /\ phase' = [phase EXCEPT ![t] = "finish"] /\ UNCHANGED <<mSignal, at>>
             /\ mSignalState' = [mSignalState EXCEPT ![s] = TRUE]
             /\ mSignal[s] /\ phase[t] = "job"
             /\ \A u \in Threads : phase[u] # "finish"
  BY <1>1 DEF LP!FinishState
<1>2. CASE InitializeContext(t)
  <2>1. /\ at[t] = "init" /\ LP!FinishState(t)
        /\ UNCHANGED <<mIsRegistered, rest>>
        /\ \/ mModelContext' = "live" /\ mIsInitializeFailed' = mIsInitializeFailed
           \/ mModelContext' \in {mModelContext, "null"} /\ mIsInitializeFailed' = TRUE
    BY <1>2 DEF InitializeContext, ContextMade, ContextRefused
  <2>2. /\ mSignal["init"] /\ ~mSignalState["init"]
        /\ ~mSignal["destroy"] /\ ~mSignalState["destroy"]
        /\ rest \notin {"free", "destruct"}
    BY <1>1, <2>1 DEF LifeInv, Finishing
  <2>3. LifeInv'
    BY <1>1, <2>1, <2>2 DEF LifeInv, Finishing
  <2>4. life = LifeAt("initializing", mIsRegistered, mIsInitializeFailed, mModelContext)
    BY <2>2 DEF life, LifeAt
  <2>5. life' = LifeAt("made", mIsRegistered', mIsInitializeFailed', mModelContext')
    BY <1>1, <2>1, <2>2 DEF life, LifeAt
  <2>6. life' \in PL!ContextMade(life) \cup PL!ContextRefused(life)
    BY <2>1, <2>4, <2>5, LifeMoves DEF TypeOK
  <2> QED
    BY <2>3, <2>6 DEF PL!Next, PL!Worked
<1>3. CASE DestroyContext(t)
  <2>1. /\ at[t] = "destroy" /\ LP!FinishState(t)
        /\ mModelContext' = "null" /\ mIsInitializeFailed' = FALSE /\ mIsRegistered' = FALSE
        /\ rest' = rest
    BY <1>3 DEF DestroyContext
  <2>2. /\ mSignal["destroy"] /\ ~mSignalState["destroy"] /\ ~mSignal["init"]
        /\ rest \notin {"free", "destruct"} /\ mIsRegistered
    BY <1>1, <2>1 DEF LifeInv, ContextInv, PassInv
  <2>3. LifeInv'
    <3>1. /\ ~mIsRegistered' /\ ~mSignal'["init"] /\ rest' \notin {"free", "destruct"}
          /\ mSignal' = mSignal /\ phase'[t] = "finish" /\ at'[t] = "destroy"
      BY <1>1, <2>1, <2>2
    <3>2. \A u \in Threads : phase'[u] = "finish" => mSignalState'[at'[u]]
      BY <1>1, <2>1
    <3> QED
      BY <3>1, <3>2 DEF LifeInv, Finishing
  <2>4. life = LifeAt("destroying", mIsRegistered, mIsInitializeFailed, mModelContext)
    BY <2>2 DEF life, LifeAt
  <2>5. life' = LifeAt("freed", FALSE, FALSE, "null")
    <3>1. life' = LifeAt("freed", mIsRegistered', mIsInitializeFailed', mModelContext')
      BY <1>1, <2>1, <2>2 DEF life, LifeAt
    <3> QED
      BY <2>1, <3>1, Zenon
  <2>6. life' \in PL!ContextFreed(life)
    BY <2>4, <2>5, LifeMoves DEF TypeOK
  <2> QED
    BY <2>3, <2>6 DEF PL!Next, PL!Worked
<1>4. CASE DecodeInput(t) \/ DecodeNext(t)
  <2>1. /\ at[t] \in {"input", "kv", "decode"} /\ LP!FinishState(t)
        /\ UNCHANGED <<mIsRegistered, mIsInitializeFailed, mModelContext, rest>>
    BY <1>4 DEF DecodeInput, DecodeNext
  <2> QED
    BY <1>1, <2>1 DEF LifeInv, Finishing, life
<1>5. CASE FinishSignal(t)
  <2>1. /\ mSignal' = [mSignal EXCEPT ![at[t]] = FALSE]
        /\ phase' = [phase EXCEPT ![t] = "update_t"] /\ phase[t] = "finish"
        /\ at' = [at EXCEPT ![t] = NoSignal]
        /\ at[t] \in Signals /\ mSignal[at[t]] /\ mSignalState[at[t]]
        /\ \A u \in Threads : phase'[u] # "finish"
        /\ UNCHANGED <<mSignalState, mIsRegistered, mIsInitializeFailed, mModelContext, rest>>
    BY <1>5 DEF FinishSignal, LP!FinishSignal, LifeInv
  <2>2. LifeInv'
    BY <2>1 DEF LifeInv, Finishing
  <2>3. CASE at[t] \notin {"init", "destroy"}
    BY <2>1, <2>2, <2>3 DEF life
  <2>4. CASE at[t] = "init"
    <3>1. life = LifeAt("made", mIsRegistered, mIsInitializeFailed, mModelContext)
      BY <2>1, <2>4 DEF life, LifeAt, LifeInv
    <3>2. life' = LifeAt("initialized", mIsRegistered, mIsInitializeFailed, mModelContext)
      BY <2>1, <2>4 DEF life, LifeAt, LifeInv
    <3>3. life' \in PL!SignalDropped(life)
      BY <3>1, <3>2, LifeMoves DEF TypeOK
    <3> QED
      BY <2>2, <3>3 DEF PL!Next, PL!Worked
  <2>5. CASE at[t] = "destroy"
    <3>1. life = LifeAt("freed", mIsRegistered, mIsInitializeFailed, mModelContext)
      BY <2>1, <2>5 DEF life, LifeAt, LifeInv
    <3>2. life' = LifeAt("destroyed", mIsRegistered, mIsInitializeFailed, mModelContext)
      BY <2>1, <2>5 DEF life, LifeAt, LifeInv
    <3>3. life' \in PL!SignalDropped(life)
      BY <3>1, <3>2, LifeMoves DEF TypeOK
    <3> QED
      BY <2>2, <3>3 DEF PL!Next, PL!Worked
  <2> QED
    BY <2>3, <2>4, <2>5
<1>6. CASE Enter(t) \/ Return(t) \/ Exit(t) \/ WriteContinue \/ \E s \in Signals : Look(t, s)
  <2>1. /\ UNCHANGED <<mSignal, mSignalState, mIsRegistered, mIsInitializeFailed,
                       mModelContext, rest>>
        /\ \A u \in Threads : phase'[u] = "finish" <=> phase[u] = "finish"
        /\ \A u \in Threads : phase[u] = "finish" => at'[u] = at[u]
    BY <1>6 DEF Enter, Return, Exit, WriteContinue, Look, LP!Enter, LP!Return, LP!Exit, LP!Look
  \* only a pass that began with the processor registered looks at destroy
  <2>2. ~mIsRegistered => \A u \in Threads : at'[u] = "destroy" <=> at[u] = "destroy"
    <3>1. CASE \E s \in Signals : Look(t, s)
      BY <1>6, <3>1 DEF Look, LP!Look, ContextInv, PassInv
    <3>2. CASE ~\E s \in Signals : Look(t, s)
      BY <1>6, <3>2 DEF Enter, Return, Exit, WriteContinue, LP!Enter, LP!Return, LP!Exit
    <3> QED
      BY <3>1, <3>2
  <2>3. LifeInv'
    BY <2>1 DEF LifeInv, Finishing
  <2>4. UNCHANGED life
    BY <2>1, <2>2 DEF life
  <2> QED
    BY <2>3, <2>4
<1> QED
  BY <1>2, <1>3, <1>4, <1>5, <1>6 DEF Worker

LEMMA LifeStep ==
  ASSUME LawfulUses, PatientUses, LPP!IInv, LPP!IInv', TypeOK, ContextInv, LifeInv, [Next]_vars
  PROVE  LifeInv' /\ [PL!Next]_life
<1>1. CASE UNCHANGED vars
  BY <1>1 DEF vars, flagVars, contextVars, hostVars, processorVars, LifeInv, Finishing, life
<1> QED
  BY <1>1, ApplicationLives, LibraryLives, WorkerLives DEF Next

LEMMA LifeInductive ==
  ASSUME LawfulUses, PatientUses
  PROVE  Spec => []LifeInv
<1>1. Init => LifeInv
  BY NoSignalAssumption
  DEF Init, Constructed, LP!Init, LP!Constructed, LifeInv, Finishing, Signals
<1> QED
  BY <1>1, LifeStep, MachineInvariant, TypeCorrect, ContextInductive, PTL DEF Spec

\* What the model object assumes of a processor holds of it: its context goes
\* through initialize, registration, destroy and deletion in the order of
\* ProcessorLifecycle, whatever the two threads and the callbacks do between.
THEOREM ImplementsLifecycle ==
  ASSUME LawfulUses, PatientUses
  PROVE  Spec => IsProcessorLifecycle
<1>1. Init => PL!Init
  BY DEF Init, Constructed, LP!Init, LP!Constructed, Signals, PL!Init, PL!Constructed, life
<1> QED
  BY <1>1, LifeStep, LifeInductive, MachineInvariant, TypeCorrect, ContextInductive, PTL
  DEF Spec, IsProcessorLifecycle, PL!Spec

-----------------------------------------------------------------------------
(***************************************************************************)
(* Who holds the context.  It is made only by the initialization that was  *)
(* asked for while there was none, so the processor that has one is        *)
(* registered or has its on_initialize still to come.  One more            *)
(* restriction is needed: initialize is not called again after it failed   *)
(* (SingleAttempts), for nothing clears mIsInitializeFailed then and a     *)
(* second attempt that makes a context is reported as a failure.           *)
(***************************************************************************)
HeldInv ==
    /\ ContextAccountedFor
    /\ mSignal["init"] /\ ~mSignalState["init"]
          => mModelContext = "null" /\ ~mIsInitializeFailed
    /\ mIsInitializeFailed \/ mSignalState["destroy"] => mModelContext = "null"

LEMMA HeldStep ==
  ASSUME LawfulUses, PatientUses, SingleAttempts, LPP!IInv, LPP!IInv', TypeOK, ContextInv,
         LifeInv, HeldInv, [Next]_vars
  PROVE  HeldInv'
<1> USE MachineFacts, NoSignalAssumption
    DEF HeldInv, ContextAccountedFor, Signals, flagVars, contextVars, hostVars, processorVars,
        LP!signalVars, LP!threadVars
<1>1. CASE initialize
  <2>1. /\ ~mIsRegistered /\ ~mIsInitializeFailed
        /\ \A s \in Signals : ~mSignalState[s]
        /\ rest \in {"none", "finish"}
    BY <1>1 DEF initialize, Calling, PatientUses, SingleAttempts, Undelivered, TypeOK
  <2>2. mModelContext = "null"
    BY <1>1, <2>1 DEF initialize, TypeOK
  <2> QED
    BY <1>1, <2>1, <2>2 DEF initialize, LP!SetSignal
<1>2. ASSUME NEW s \in Signals \ {"init"}, LP!SetSignal(s),
             UNCHANGED <<mIsRegistered, mIsInitializeFailed, mModelContext, rest>>
      PROVE  HeldInv'
  <2>1. mSignal' = [mSignal EXCEPT ![s] = TRUE] /\ mSignalState' = mSignalState
    BY <1>2 DEF LP!SetSignal
  <2> QED
    BY <1>2, <2>1
<1>3. CASE next
  BY <1>2, <1>3 DEF next
<1>22. CASE DestroyGoesOn
  BY <1>2, <1>22 DEF DestroyGoesOn
<1>4. ASSUME NEW kv_locked \in BOOLEAN, execute_input(kv_locked)
       PROVE  HeldInv'
  BY <1>2, <1>4 DEF execute_input
<1>5. CASE set_inference_client \/ halt \/ resume \/ destroy \/ LeaveCallback
  <2>1. UNCHANGED <<mSignal, mSignalState, mIsRegistered, mIsInitializeFailed, mModelContext, rest>>
    BY <1>5 DEF set_inference_client, halt, resume, destroy, LeaveCallback
  <2> QED
    BY <2>1
<1>6. CASE Delete
  BY <1>6 DEF Delete, LP!CallStop, TypeOK
<1>7. CASE ProcessorStep
  BY <1>7 DEF ProcessorStep, LP!OwnerStep, LP!StartFindsRunning, LP!StartFindsStopped,
              LP!StartJoin, LP!StartRun, LP!StartRunFails, LP!StopJoin
<1>8. CASE DeleteFree
  BY <1>8 DEF DeleteFree, LP!CallStop
<1>9. CASE UpdateStop \/ UpdateFinish
  BY <1>9 DEF UpdateStop, UpdateFinish, LP!CallStop
<1>10. ASSUME NEW a \in SUBSET Signals, NEW b \in SUBSET Signals, LP!ResetSignals(a, b)
      PROVE  /\ \A s \in Signals : mSignal'[s] <=> mSignal[s] /\ s \notin b
             /\ \A s \in Signals : mSignalState'[s] <=> mSignalState[s] /\ s \notin a \cup b
  BY <1>10, Zenon DEF LP!ResetSignals
<1>11. CASE UpdateDestroyed
  BY <1>10, <1>11 DEF UpdateDestroyed
<1>12. CASE UpdateInitialized
  BY <1>10, <1>12 DEF UpdateInitialized, Update, is_available
<1>13. ASSUME NEW s \in {"input", "kv", "decode"}, NEW wholly \in SUBSET {"input"},
              LP!ResetSignals({s}, wholly), rest' # "free" => rest # "free",
              UNCHANGED <<mIsRegistered, mIsInitializeFailed, mModelContext>>
       PROVE  HeldInv'
  BY <1>10, <1>13
<1>14. CASE UpdateInput \/ UpdateKv
  BY <1>13, <1>14 DEF UpdateInput, UpdateKv
<1>15. CASE UpdateDecode
  BY <1>13, <1>15 DEF UpdateDecode, Update
<1>16. ASSUME NEW t \in Threads, InitializeContext(t)
       PROVE  HeldInv'
  <2>1. mSignal["init"] /\ ~mSignalState["init"] /\ ~mSignalState["destroy"]
    BY <1>16 DEF InitializeContext, LP!FinishState, LifeInv, Finishing
  <2> QED
    BY <1>16, <2>1 DEF InitializeContext, ContextMade, ContextRefused, LP!FinishState
<1>17. ASSUME NEW t \in Threads, DestroyContext(t)
       PROVE  HeldInv'
  BY <1>17 DEF DestroyContext, LP!FinishState, ContextInv, RegisteredInv, PassInv
<1>18. ASSUME NEW t \in Threads, DecodeInput(t) \/ DecodeNext(t)
       PROVE  HeldInv'
  <2>1. /\ mSignalState' = [mSignalState EXCEPT ![at[t]] = TRUE]
        /\ at[t] \in {"input", "kv", "decode"}
        /\ UNCHANGED <<mSignal, mIsRegistered, mIsInitializeFailed, mModelContext, rest>>
    BY <1>18 DEF DecodeInput, DecodeNext, LP!FinishState
  <2> QED
    BY <2>1
<1>19. ASSUME NEW t \in Threads, FinishSignal(t)
       PROVE  HeldInv'
  BY <1>19 DEF FinishSignal, LP!FinishSignal, LifeInv
<1>20. ASSUME NEW t \in Threads,
              Enter(t) \/ Return(t) \/ Exit(t) \/ WriteContinue \/ \E s \in Signals : Look(t, s)
       PROVE  HeldInv'
  BY <1>20 DEF Enter, Return, Exit, WriteContinue, Look, LP!Enter, LP!Return, LP!Exit, LP!Look
<1>21. CASE UNCHANGED vars
  BY <1>21 DEF vars
<1> QED
  BY <1>1, <1>3, <1>4, <1>5, <1>6, <1>7, <1>8, <1>9, <1>11, <1>12, <1>14, <1>15, <1>16, <1>17,
     <1>18, <1>19, <1>20, <1>21, <1>22 DEF Next, Application, Library, UpdateCall, Worker

LEMMA HeldInductive ==
  ASSUME LawfulUses, PatientUses, SingleAttempts
  PROVE  Spec => []HeldInv
<1>1. Init => HeldInv
  BY DEF Init, Constructed, LP!Init, LP!Constructed, HeldInv, ContextAccountedFor, Signals
<1> QED
  BY <1>1, HeldStep, LifeInductive, MachineInvariant, TypeCorrect, ContextInductive, PTL DEF Spec

\* A live context always has somebody who will free it: a registered processor, or an
\* on_initialize that update() has still to deliver.
THEOREM NoContextLeaks ==
  ASSUME LawfulUses, PatientUses, SingleAttempts
  PROVE  Spec => []ContextAccountedFor
<1>1. HeldInv => ContextAccountedFor
  BY DEF HeldInv
<1> QED
  BY <1>1, HeldInductive, PTL

\* update() calls on_initialize with a context and on_initialize_fail without one.
THEOREM ReportsAreTrue ==
  ASSUME LawfulUses, PatientUses, SingleAttempts
  PROVE  Spec => InitializeReportedTruly
<1> DEFINE True == /\ place' = "on_initialize" /\ place # "on_initialize"
                         => mModelContext = "live"
                   /\ place' = "on_initialize_fail" /\ place # "on_initialize_fail"
                         => mModelContext = "null"
<1>1. ContextInv /\ HeldInv /\ [Next]_vars => [True]_vars
  <2>1. CASE UpdateInitialized
    BY <2>1 DEF UpdateInitialized, Update, ContextInv, RegisteredInv, HeldInv
  <2>2. CASE Application
    BY <2>2 DEF Application, initialize, execute_input, next, set_inference_client, halt, resume,
                destroy, Delete, LeaveCallback, hostVars
  <2>3. CASE Library
    BY <2>3 DEF Library, ProcessorStep, DestroyGoesOn, DeleteFree, UpdateStop, UpdateFinish, hostVars
  <2>4. CASE UpdateDestroyed \/ UpdateInput \/ UpdateKv \/ UpdateDecode
    BY <2>4 DEF UpdateDestroyed, UpdateInput, UpdateKv, UpdateDecode, Notify
  <2>5. ASSUME NEW t \in Threads, Worker(t)
        PROVE  place' = place
    BY <2>5 DEF Worker, Enter, Look, InitializeContext, DestroyContext, DecodeInput, DecodeNext,
                FinishSignal, WriteContinue, Return, Exit, hostVars
  <2> QED
    BY <2>1, <2>2, <2>3, <2>4, <2>5 DEF Next, UpdateCall
<1> QED
  BY <1>1, HeldInductive, ContextInductive, PTL DEF Spec, InitializeReportedTruly

-----------------------------------------------------------------------------
(***************************************************************************)
(* What a decode samples from.  next() asks for nothing but its own signal *)
(* and the registration; that there are logits rests on when it is called. *)
(* The application calls it from the callback that reports a batch or a    *)
(* token that did not end the response, feeds the processor from neither,  *)
(* and feeds it when update() has reported what is pending (TurnUses).     *)
(* Then the jobs input, kv and decode take turns (TurnInv), the late write *)
(* of CONTINUE falls before the next job (ContinueInv), and logits are     *)
(* there wherever the next decode may be asked for (LogitsInv).            *)
(***************************************************************************)
Jobs == {"input", "kv", "decode"}
Active(s) == mSignal[s] \/ mSignalState[s]

TurnInv ==
    /\ \A s, r \in Jobs : Active(s) /\ Active(r) => s = r
    /\ place \in TurnPlaces => ~Active("input") /\ ~Active("kv")
    /\ mSignal["init"] \/ mSignalState["init"] => \A s \in Jobs : ~mSignalState[s]
    /\ Finishing("decode")
    /\ rest = "finish" =>
          /\ place = "on_write" /\ mFinishState # "CONTINUE"
          /\ mAssignedClient \/ mSignal["destroy"] \/ ~mIsRegistered

ContinueInv ==
    continueDue => /\ ~mSignalState["decode"] /\ rest # "finish"
                   /\ \A t \in Threads : at[t] = NoSignal

Sampleable == logits /\ (mFinishState = "CONTINUE" \/ continueDue)

LogitsInv ==
    /\ \A t \in Threads : at[t] = "input" /\ phase[t] = "finish" => logits
    /\ mIsRegistered =>
          /\ mSignal["decode"] /\ ~mSignalState["decode"] => Sampleable
          /\ mSignalState["input"] /\ ~mSignal["input"] => Sampleable
          /\ place \in TurnPlaces /\ rest # "finish" /\ ~mSignalState["decode"] => Sampleable
          /\ mSignalState["decode"] /\ mFinishState = "CONTINUE" => logits

JobsInv == TurnInv /\ ContinueInv /\ LogitsInv

LEMMA JobsApplication ==
  ASSUME PatientUses, TurnUses, LPP!IInv, TypeOK, ContextInv, LifeInv, JobsInv, Application
  PROVE  JobsInv'
<1> USE MachineFacts, NoSignalAssumption
    DEF JobsInv, TurnInv, ContinueInv, LogitsInv, Sampleable, Active, Finishing, Jobs, TurnPlaces,
        Signals
<1>2. CASE initialize
  <2>1. \A x \in Signals : ~mSignalState[x]
    BY <1>2 DEF initialize, Calling, PatientUses, Undelivered, TypeOK
  <2>2. mSignal' = [mSignal EXCEPT !["init"] = TRUE] /\ UNCHANGED <<mSignalState, phase, at>>
    BY <1>2 DEF initialize, LP!SetSignal, LP!threadVars
  <2>3. /\ \A s \in Jobs : ~mSignalState[s]
        /\ ~mIsRegistered
        /\ UNCHANGED <<mIsRegistered, mAssignedClient, mFinishState, logits, continueDue, place, rest>>
    BY <1>2, <2>1 DEF initialize, flagVars, contextVars, hostVars
  <2> QED
    BY <2>2, <2>3
<1>3. CASE destroy
  <2>1. UNCHANGED <<mSignal, mSignalState, phase, at, mIsRegistered, mAssignedClient, mFinishState,
                    logits, continueDue, place, rest>>
    BY <1>3 DEF destroy, processorVars, flagVars, contextVars, LP!threadVars
  <2> QED
    BY <2>1, Zenon
<1>4. ASSUME NEW kv_locked \in BOOLEAN, execute_input(kv_locked)
      PROVE  JobsInv'
  <2>1. /\ place \notin TurnPlaces
        /\ \A x \in Signals : ~mSignalState[x]
        /\ \A x \in Jobs : ~mSignal[x]
        /\ rest # "finish"
    BY ZenonT(60), <1>4 DEF execute_input, Calling, TurnUses, Undelivered, TypeOK, is_available, Places
  <2>2. \E s \in {"input", "kv"} : mSignal' = [mSignal EXCEPT ![s] = TRUE]
    BY <1>4 DEF execute_input, LP!SetSignal
  <2>3. UNCHANGED <<mSignalState, phase, at, flagVars, contextVars, hostVars>>
    BY <1>4 DEF execute_input, LP!SetSignal, LP!threadVars
  <2> QED
    BY <2>1, <2>2, <2>3 DEF flagVars, contextVars, hostVars
<1>5. CASE next
  <2>1. /\ place \in TurnPlaces /\ rest # "finish"
        /\ mIsRegistered /\ ~mSignalState["decode"] /\ ~mSignal["decode"]
        /\ ~mSignal["init"] /\ ~mSignal["destroy"]
    BY <1>5 DEF next, Calling, TurnUses, TypeOK, Ready
  <2>2. /\ mSignal' = [mSignal EXCEPT !["decode"] = TRUE]
        /\ UNCHANGED <<mSignalState, phase, at, flagVars, contextVars, hostVars>>
    BY <1>5 DEF next, LP!SetSignal, LP!threadVars
  <2> QED
    BY <2>1, <2>2 DEF flagVars, contextVars, hostVars
<1>6. CASE set_inference_client
  <2>1. /\ mIsRegistered /\ ~mSignal["destroy"] /\ ~mAssignedClient
        /\ place' = "on_register" /\ mAssignedClient' = TRUE
        /\ UNCHANGED <<mSignal, mSignalState, phase, at, mIsRegistered, contextVars, rest>>
    BY <1>6 DEF set_inference_client, Ready, processorVars
  <2> QED
    BY <2>1 DEF contextVars
<1>7. CASE halt \/ resume
  <2>1. UNCHANGED <<mSignal, mSignalState, phase, at, mIsRegistered, mAssignedClient, contextVars,
                    hostVars>>
    BY <1>7 DEF halt, resume, processorVars
  <2> QED
    BY <2>1 DEF contextVars, hostVars
<1>8. CASE LeaveCallback
  BY <1>8 DEF LeaveCallback, processorVars, contextVars, flagVars
<1>9. CASE Delete
  <2>1. /\ rest = "none" /\ rest' # "finish"
        /\ UNCHANGED <<mSignal, mSignalState, phase, at, flagVars, contextVars, place>>
    BY <1>9 DEF Delete, LP!CallStop, LP!signalVars, LP!threadVars
  <2> QED
    BY <2>1 DEF flagVars, contextVars
<1> QED
  BY <1>2, <1>3, <1>4, <1>5, <1>6, <1>7, <1>8, <1>9 DEF Application

LEMMA JobsLibrary ==
  ASSUME LPP!IInv, LPP!IInv', TypeOK, ContextInv, LifeInv, JobsInv, Library \/ UpdateCall
  PROVE  JobsInv'
<1> USE MachineFacts, NoSignalAssumption
    DEF JobsInv, TurnInv, ContinueInv, LogitsInv, Sampleable, Active, Finishing, Jobs, TurnPlaces,
        Signals
<1>1. CASE ProcessorStep
  <2>1. /\ UNCHANGED <<mSignal, mSignalState, at, flagVars, contextVars>>
        /\ \A t \in Threads : at[t] # NoSignal => phase'[t] = phase[t]
        /\ \A t \in Threads : phase'[t] = "finish" => phase[t] = "finish"
        /\ \/ UNCHANGED hostVars
           \/ rest = "on_destroy" /\ place' = "on_destroy" /\ rest' = "none"
    BY <1>1 DEF ProcessorStep, LP!OwnerStep, LP!StartFindsRunning, LP!StartFindsStopped,
                LP!StartJoin, LP!StartRun, LP!StartRunFails, LP!StopJoin, LP!Live,
                LP!signalVars, LP!threadVars
  <2> QED
    BY <2>1 DEF flagVars, contextVars, hostVars
<1>11. CASE DestroyGoesOn
  <2>1. /\ mSignal' = mSignal \/ mSignal' = [mSignal EXCEPT !["destroy"] = TRUE]
        /\ mSignal'["destroy"]
        /\ UNCHANGED <<mSignalState, phase, at, mIsRegistered, contextVars, place, rest>>
    BY <1>11 DEF DestroyGoesOn, LP!SetSignal, LP!threadVars, processorVars
  <2> QED
    BY <2>1 DEF contextVars
<1>2. CASE DeleteFree
  BY <1>2 DEF DeleteFree, LP!CallStop, LP!signalVars, LP!threadVars
<1>3. CASE UpdateStop
  BY <1>3 DEF UpdateStop, LP!CallStop, LP!signalVars, LP!threadVars, flagVars, contextVars
<1>4. CASE UpdateFinish
  BY <1>4 DEF UpdateFinish, processorVars, flagVars, contextVars
<1>5. ASSUME NEW a \in SUBSET Signals, NEW b \in SUBSET Signals, LP!ResetSignals(a, b)
      PROVE  /\ \A s \in Signals : mSignal'[s] <=> mSignal[s] /\ s \notin b
             /\ \A s \in Signals : mSignalState'[s] <=> mSignalState[s] /\ s \notin a \cup b
             /\ UNCHANGED <<phase, at>>
             /\ mSignal' \in [Signals -> BOOLEAN] /\ mSignalState' \in [Signals -> BOOLEAN]
  BY <1>5, Zenon DEF LP!ResetSignals, LP!threadVars
<1>6. CASE UpdateDestroyed
  <2>1. /\ \A s \in Signals : ~mSignal'[s] /\ ~mSignalState'[s]
        /\ UNCHANGED <<phase, at>>
    BY <1>5, <1>6 DEF UpdateDestroyed
  <2>2. /\ rest' = "stop" /\ place = "main" /\ place' = "main"
        /\ UNCHANGED <<mIsRegistered, mAssignedClient, contextVars>>
    BY <1>6 DEF UpdateDestroyed, Update, flagVars
  <2> QED
    BY <2>1, <2>2 DEF contextVars
<1>7. CASE UpdateInitialized
  <2>1. /\ ~mSignal["decode"] /\ rest # "finish" /\ mSignalState["init"]
        /\ UNCHANGED <<mAssignedClient, contextVars, rest>>
        /\ place' \notin TurnPlaces
        /\ LP!ResetSignals({"init"}, {})
    BY <1>7 DEF UpdateInitialized, Update, is_available
  <2> QED
    BY <1>5, <2>1 DEF contextVars
<1>8. ASSUME NEW s \in {"input", "kv"}, LP!ResetSignals({s}, {}), Update, mSignalState[s],
             place' \in {"main", "on_batch_processed", "on_kv_processed"},
             place' = "on_batch_processed" => s = "input",
             UNCHANGED <<flagVars, contextVars, rest>>
      PROVE  JobsInv'
  BY <1>5, <1>8 DEF Update, is_available, flagVars, contextVars
<1>9. CASE UpdateInput \/ UpdateKv
  BY <1>8, <1>9 DEF UpdateInput, UpdateKv, Notify
<1>10. CASE UpdateDecode
  <2>1. /\ \A s \in Jobs : ~mSignal[s]
        /\ ~mSignalState["input"] /\ ~mSignalState["kv"] /\ mSignalState["decode"]
        /\ ~mSignalState["init"] /\ ~mSignal["init"]
        /\ UNCHANGED <<flagVars, contextVars>>
        /\ place' \in {"main", "on_write"}
        /\ rest' = IF mFinishState # "CONTINUE" /\ mAssignedClient THEN "finish" ELSE "none"
        /\ place' = "on_write" => mAssignedClient
        /\ rest' = "finish" => place' = "on_write"
    BY <1>10 DEF UpdateDecode, Update, is_available, Notify, isFinish
  <2>2. \E b \in SUBSET {"input"} : LP!ResetSignals({"decode"}, b)
    BY <1>10 DEF UpdateDecode
  <2>3. /\ \A s \in Jobs : ~mSignal'[s] /\ ~mSignalState'[s]
        /\ mSignal'["init"] = mSignal["init"] /\ mSignalState'["init"] = mSignalState["init"]
        /\ mSignal'["destroy"] = mSignal["destroy"]
        /\ UNCHANGED <<phase, at>>
    BY <1>5, <2>1, <2>2
  <2> QED
    BY <2>1, <2>3 DEF flagVars, contextVars
<1> QED
  BY <1>1, <1>2, <1>3, <1>4, <1>6, <1>7, <1>9, <1>10, <1>11 DEF Library, UpdateCall

LEMMA JobsWorker ==
  ASSUME LPP!IInv, TypeOK, ContextInv, LifeInv, JobsInv, NEW t \in Threads, Worker(t)
  PROVE  JobsInv'
<1> USE MachineFacts, NoSignalAssumption
    DEF JobsInv, TurnInv, ContinueInv, LogitsInv, Sampleable, Active, Finishing, Jobs, TurnPlaces,
        Signals, flagVars, contextVars, hostVars, processorVars, LP!signalVars, LP!threadVars
\* there is only one worker, so none other is finishing
<1>1. ASSUME NEW s \in Signals, at[t] = s, LP!FinishState(t)
      PROVE  /\ phase' = [phase EXCEPT ![t] = "finish"] /\ UNCHANGED <<mSignal, at>>
             /\ mSignalState' = [mSignalState EXCEPT ![s] = TRUE]
             /\ mSignal[s] /\ phase[t] = "job" /\ ~continueDue
             /\ \A u \in Threads : u # t => at[u] = NoSignal /\ phase[u] # "finish"
  BY <1>1 DEF LP!FinishState
<1>2. CASE InitializeContext(t)
  <2>1. /\ at[t] = "init" /\ LP!FinishState(t) /\ ~mIsRegistered
        /\ UNCHANGED <<mIsRegistered, mAssignedClient, mFinishState, continueDue, hostVars>>
    BY <1>2 DEF InitializeContext, ContextInv, PassInv
  <2> QED
    BY <1>1, <2>1
<1>3. CASE DestroyContext(t)
  <2>1. /\ at[t] = "destroy" /\ LP!FinishState(t) /\ ~mIsRegistered'
        /\ mFinishState' = "FINISHED" /\ UNCHANGED <<continueDue, hostVars>>
    BY <1>3 DEF DestroyContext
  <2> QED
    BY <1>1, <2>1
<1>4. CASE DecodeInput(t)
  <2>1. /\ at[t] \in {"input", "kv"} /\ LP!FinishState(t)
        /\ logits' = (at[t] = "input")
        /\ UNCHANGED <<flagVars, mFinishState, continueDue, hostVars>>
    BY <1>4 DEF DecodeInput
  <2>2. \A x \in Signals : mSignal'[x] \/ mSignalState'[x] <=> mSignal[x] \/ mSignalState[x]
    BY <1>1, <2>1
  <2>3. ~mSignal["init"] /\ ~mSignalState["init"]
    BY <2>1 DEF ContextInv, RegisteredInv, PassInv
  <2>4. TurnInv'
    <3>1. \A x, y \in Jobs : Active(x)' /\ Active(y)' => x = y
      BY <2>2
    <3>2. place' \in TurnPlaces => ~Active("input")' /\ ~Active("kv")'
      BY <2>1, <2>2
    <3>3. Finishing("decode")'
      BY <1>1, <2>1
    <3> QED
      BY <3>1, <3>2, <3>3, <1>1, <2>1, <2>3
  <2>5. ContinueInv'
    BY <1>1, <2>1
  <2>6. LogitsInv'
    BY <1>1, <2>1
  <2> QED
    BY <2>4, <2>5, <2>6
<1>5. CASE DecodeNext(t)
  <2>1. /\ at[t] = "decode" /\ LP!FinishState(t)
        /\ \/ UNCHANGED <<mFinishState, logits>>
           \/ mFinishState' # "CONTINUE"
        /\ UNCHANGED <<flagVars, continueDue, hostVars>>
    BY <1>5 DEF DecodeNext
  <2>2. ~mSignalState["decode"]
    BY <1>1, <2>1
  <2>3. \A x \in Signals : mSignal'[x] \/ mSignalState'[x] <=> mSignal[x] \/ mSignalState[x]
    BY <1>1, <2>1, <2>2
  <2>4. ~mSignal["init"] /\ ~mSignalState["init"]
    BY <2>1 DEF ContextInv, RegisteredInv, PassInv
  <2>5. TurnInv'
    <3>1. \A x, y \in Jobs : Active(x)' /\ Active(y)' => x = y
      BY <2>3
    <3>2. place' \in TurnPlaces => ~Active("input")' /\ ~Active("kv")'
      BY <2>1, <2>3
    <3>3. Finishing("decode")'
      BY <1>1, <2>1, <2>2
    <3> QED
      BY <3>1, <3>2, <3>3, <1>1, <2>1, <2>2, <2>4
  <2>6. ContinueInv'
    BY <1>1, <2>1, <2>2
  <2>7. LogitsInv'
    BY <1>1, <2>1, <2>2
  <2> QED
    BY <2>5, <2>6, <2>7
<1>6. CASE FinishSignal(t)
  <2>1. /\ mSignal' = [mSignal EXCEPT ![at[t]] = FALSE]
        /\ phase' = [phase EXCEPT ![t] = "update_t"] /\ phase[t] = "finish"
        /\ at' = [at EXCEPT ![t] = NoSignal]
        /\ at[t] \in Signals /\ mSignal[at[t]] /\ mSignalState[at[t]]
        /\ \A u \in Threads : phase'[u] # "finish" /\ at'[u] = NoSignal
        /\ continueDue' = (at[t] = "input")
        /\ UNCHANGED <<mSignalState, flagVars, mFinishState, logits, hostVars>>
    BY <1>6 DEF FinishSignal, LP!FinishSignal, LifeInv
  <2>2. \A x \in Signals : mSignal'[x] \/ mSignalState'[x] <=> mSignal[x] \/ mSignalState[x]
    BY <2>1
  <2>3. TurnInv'
    <3>1. \A x, y \in Jobs : Active(x)' /\ Active(y)' => x = y
      BY <2>2
    <3>2. place' \in TurnPlaces => ~Active("input")' /\ ~Active("kv")'
      BY <2>1, <2>2
    <3>3. Finishing("decode")'
      BY <2>1
    <3> QED
      BY <3>1, <3>2, <3>3, <2>1 DEF LifeInv
  <2>4. ContinueInv'
    BY <2>1
  <2>5. LogitsInv'
    BY <2>1
  <2> QED
    BY <2>3, <2>4, <2>5
<1>7. CASE WriteContinue
  BY <1>7 DEF WriteContinue
<1>8. ASSUME NEW s \in Signals, Look(t, s)
      PROVE  JobsInv'
  BY <1>8 DEF Look, LP!Look
<1>9. CASE Enter(t) \/ Return(t) \/ Exit(t)
  BY <1>9 DEF Enter, Return, Exit, LP!Enter, LP!Return, LP!Exit
<1> QED
  BY <1>2, <1>3, <1>4, <1>5, <1>6, <1>7, <1>8, <1>9 DEF Worker

LEMMA JobsInductive ==
  ASSUME LawfulUses, PatientUses, TurnUses
  PROVE  Spec => []JobsInv
<1>1. Init => JobsInv
  BY NoSignalAssumption
  DEF Init, Constructed, LP!Init, LP!Constructed, JobsInv, TurnInv, ContinueInv, LogitsInv,
      Sampleable, Active, Finishing, Jobs, TurnPlaces, Signals
<1>2. ASSUME JobsInv, UNCHANGED vars
      PROVE  JobsInv'
  BY <1>2 DEF vars, flagVars, contextVars, hostVars, processorVars, JobsInv, TurnInv, ContinueInv,
              LogitsInv, Sampleable, Active, Finishing
<1>3. LPP!IInv /\ LPP!IInv' /\ TypeOK /\ ContextInv /\ LifeInv /\ JobsInv /\ [Next]_vars => JobsInv'
  BY <1>2, JobsApplication, JobsLibrary, JobsWorker DEF Next
<1> QED
  BY <1>1, <1>3, LifeInductive, MachineInvariant, TypeCorrect, ContextInductive, PTL DEF Spec

\* Every decode finds the logits of the last token, for all the inputs, tokens, halts and
\* destructions the two threads go through.
THEOREM DecodesSample ==
  ASSUME LawfulUses, PatientUses, TurnUses
  PROVE  Spec => []DecodeHasLogits
<1>1. LPP!IInv /\ ContextInv /\ JobsInv => DecodeHasLogits
  BY MachineFacts, NoSignalAssumption
  DEF JobsInv, TurnInv, LogitsInv, Sampleable, Finishing, DecodeHasLogits, ContextInv, PassInv,
      Signals
<1> QED
  BY <1>1, JobsInductive, ContextInductive, MachineInvariant, PTL

\* The worker's late write of CONTINUE never erases the end of a response that update() has not
\* reported, and on_finish is called with an end.
THEOREM FinishesAreReported ==
  ASSUME LawfulUses, PatientUses, TurnUses
  PROVE  Spec => FinishReported
<1> DEFINE Kept == /\ mFinishState # "CONTINUE" /\ mFinishState' = "CONTINUE"
                         => ~mSignalState["decode"]
                   /\ place' = "on_finish" /\ place # "on_finish" => mFinishState # "CONTINUE"
<1>1. JobsInv /\ [Next]_vars => [Kept]_vars
  <2> SUFFICES ASSUME JobsInv, Next
               PROVE  Kept
    OBVIOUS
  <2>1. CASE Application
    BY <2>1 DEF Application, initialize, execute_input, next, set_inference_client, halt, resume,
                destroy, Delete, LeaveCallback, hostVars, contextVars
  <2>2. CASE Library
    BY <2>2 DEF Library, ProcessorStep, DestroyGoesOn, DeleteFree, UpdateStop, UpdateFinish, hostVars,
                contextVars,
                JobsInv, TurnInv
  <2>3. CASE UpdateCall
    BY <2>3 DEF UpdateCall, UpdateDestroyed, UpdateInitialized, UpdateInput, UpdateKv, UpdateDecode,
                Notify, contextVars
  <2>4. ASSUME NEW t \in Threads, Worker(t)
        PROVE  Kept
    <3>1. place' = place
      BY <2>4 DEF Worker, Enter, Look, InitializeContext, DestroyContext, DecodeInput, DecodeNext,
                  FinishSignal, WriteContinue, Return, Exit, hostVars
    <3>2. CASE WriteContinue
      BY <3>1, <3>2 DEF WriteContinue, JobsInv, ContinueInv
    <3>3. CASE ~WriteContinue
      <4>1. mFinishState' = "CONTINUE" => mFinishState = "CONTINUE"
        BY <2>4, <3>3 DEF Worker, Enter, Look, InitializeContext, DestroyContext, DecodeInput,
                          DecodeNext, FinishSignal, Return, Exit, contextVars
      <4> QED
        BY <3>1, <4>1
    <3> QED
      BY <3>2, <3>3
  <2> QED
    BY <2>1, <2>2, <2>3, <2>4 DEF Next
<1> QED
  BY <1>1, JobsInductive, PTL DEF Spec, FinishReported
=============================================================================
