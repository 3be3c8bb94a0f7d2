------------------------------- MODULE T2TModel -------------------------------
(***************************************************************************)
(* InfModelTextToText (inference/inf_t2t_model.cpp, inf_model.cpp): a      *)
(* loaded language model and the processors registered into it.            *)
(*                                                                         *)
(* Three kinds of threads meet here: the owner, which calls the methods    *)
(* and update(); the model's own worker, a LogicalProcessor whose          *)
(* variables this module shares; and the workers of the processors, each a *)
(* ProcessorLifecycle.  A method that returns an error without changing    *)
(* anything is a stuttering step and has no action; the _sync variants are *)
(* the plain call and waiting.                                             *)
(*                                                                         *)
(* The registered processors are a list of watchers: nodes that point to a *)
(* processor, which in turn points back to its newest node and nulls the   *)
(* node's pointer when its context goes away.  Nodes are heap memory: one  *)
(* that has left the list is free and may be handed out again.             *)
(***************************************************************************)
EXTENDS SequencesExt

CONSTANTS
    Threads, NoThread, NoSignal,
    Processors, Nobody,
    Nodes, NoNode,          \* the heap's list nodes, a bound on the list
    ContextLength,          \* [Processors -> Nat], in_context_length
    mTotalContextSize,
    Uses                    \* the pairs <<use, place>> the application makes

VARIABLES mSignal, mSignalState, owed, mIsProcessorRunning, mThreadHandle,
          phase, at, todo, caller

VARIABLES
    mIsInitialized, mIsInitFailed, mModel,
    failedDue,              \* _initialize_model has dropped its signal but not
                            \* yet written mIsInitFailed
    mOccupiedContext,
    mRegisteredProcessors,  \* the list, a sequence of nodes
    watcher,                \* what each node holds
    mTargetWatcher,         \* each processor's pointer to a node
    mProcessorListMutex,    \* "free", "owner" or "worker"
    lives,                  \* a ProcessorLifecycle for each processor
    stranded,               \* processors whose raised signal no worker will see
    place,                  \* where the application code runs
    rest, walk, serving,    \* what the owner's call has still to do, on which
                            \* nodes, for which processor
    toDestroy,              \* the nodes _destroy_model has still to visit
    awaited,                \* the processor whose destroy_sync it waits in
    asked                   \* the processor that said is_registered() to a
                            \* destroy() of the owner, of the worker

ASSUME NoThreadAssumption == NoThread \notin Threads
ASSUME NoNodeAssumption == NoNode \notin Nodes
ASSUME NobodyAssumption == Nobody \notin Processors
ASSUME LengthAssumption ==
    mTotalContextSize \in Nat /\ ContextLength \in [Processors -> Nat \ {0}]

Signals == {"init", "destroy", "lora"}
ASSUME NoSignalAssumption == NoSignal \notin Signals

LP == INSTANCE LogicalProcessor WITH SpawnMayFail <- FALSE
PL == INSTANCE ProcessorLifecycle WITH life <- lives   \* for its operators on one life

processorVars == <<mSignal, mSignalState, owed, mIsProcessorRunning, mThreadHandle,
                   phase, at, todo, caller>>
modelVars == <<mIsInitialized, mIsInitFailed, mModel, failedDue>>
listVars == <<mOccupiedContext, mRegisteredProcessors, watcher, mTargetWatcher>>
lifeVars == <<lives, stranded>>
hostVars == <<place, rest, walk, serving>>
destroyVars == <<toDestroy, awaited, asked>>
vars == <<processorVars, modelVars, listVars, mProcessorListMutex, lifeVars, hostVars,
          destroyVars>>

Places == {"main", "on_initialize", "on_initialize_fail", "on_destroy", "on_lora_operate",
           "processor"}     \* "processor": in a callback of a processor
Rests == {"none", "lock register", "lock unregister", "destroy", "lock update", "update",
          "lock destroyed", "destroyed", "unlock", "delete", "lock delete", "deleting",
          "destruct"}

Watchers == [mSubject : Processors \cup {Nobody}, mContextLength : Nat]

TypeOK ==
    /\ LP!TypeOK
    /\ {mIsInitialized, mIsInitFailed, failedDue} \subseteq BOOLEAN
    /\ mModel \in {"null", "live"}
    /\ mOccupiedContext \in 0..mTotalContextSize
    /\ mRegisteredProcessors \in Seq(Nodes)
    /\ watcher \in [Nodes -> Watchers]
    /\ mTargetWatcher \in [Processors -> Nodes \cup {NoNode}]
    /\ mProcessorListMutex \in {"free", "owner", "worker"}
    /\ lives \in [Processors -> PL!Lives]
    /\ stranded \in SUBSET Processors
    /\ place \in Places
    /\ rest \in Rests
    /\ {walk, toDestroy} \subseteq Seq(Nodes)
    /\ serving \in Processors \cup {Nobody}
    /\ awaited \in Processors \cup {Nobody}
    /\ asked \in [{"owner", "worker"} -> Processors \cup {Nobody}]

Init ==
    /\ LP!Init
    /\ mIsInitialized = FALSE
    /\ mIsInitFailed = FALSE
    /\ mModel = "null"
    /\ failedDue = FALSE
    /\ mOccupiedContext = 0
    /\ mRegisteredProcessors = <<>>
    /\ watcher = [n \in Nodes |-> [mSubject |-> Nobody, mContextLength |-> 0]]
    /\ mTargetWatcher = [p \in Processors |-> NoNode]
    /\ mProcessorListMutex = "free"
    /\ lives = [p \in Processors |-> PL!Constructed]
    /\ stranded = {}
    /\ place = "main"
    /\ rest = "none"
    /\ walk = <<>>
    /\ serving = Nobody
    /\ toDestroy = <<>>
    /\ awaited = Nobody
    /\ asked = [who \in {"owner", "worker"} |-> Nobody]

-----------------------------------------------------------------------------
(* The processors.                                                         *)

Stage(p, stages) == lives[p].stage \in stages
Unreported(p) == Stage(p, {"initialized", "destroyed"})
Listed == {mRegisteredProcessors[i] : i \in DOMAIN mRegisteredProcessors}

Live(p, l) == lives' = [lives EXCEPT ![p] = l]

\* start_processor() of a processor does nothing if its last worker, after the
\* last job that was not followed by a stop_processor(), is running still
Start(p) ==
    \/ UNCHANGED stranded
    \/ (lives[p].registered \/ lives[p].failed) /\ stranded' = stranded \cup {p}

\* is_registered(), while there is a processor
Registered(p) == lives[p].registered /\ ~Stage(p, {"deleted"})

\* A processor's destroy(): it asks is_registered() ...
AskRegistered(who, p) ==
    /\ asked[who] = Nobody
    /\ Registered(p)
    /\ asked' = [asked EXCEPT ![who] = p]

\* ... and then signal_destroying(), whatever the worker of an earlier destroy
\* has done in between
RaiseDestroy(who) ==
    /\ asked[who] # Nobody
    /\ LET p == asked[who]
           raised == PL!DestroyCalled(lives[p]) \cup PL!DestroyCalledLate(lives[p])
       IN  \/ /\ \E l \in raised : Live(p, l)
              /\ Start(p)
           \/ raised = {} /\ UNCHANGED lifeVars
    /\ asked' = [asked EXCEPT ![who] = Nobody]

\* stop_processor() of a processor returns when its worker has ended
WorkerEnded(p) ==
    p \in stranded \/ ~Stage(p, {"initializing", "made", "destroying", "freed"})

\* mutant of Released: the node keeps its pointer
KeptWatcher(p) == watcher

\* release_object_watcher(); the pointer to the node is kept
Released(p) ==
    [n \in Nodes |-> IF n = mTargetWatcher[p] THEN [watcher[n] EXCEPT !.mSubject = Nobody]
                     ELSE watcher[n]]

\* InfProcessorTextToText::update(); the watcher is released with the context
\* or with the hope of one.
ProcessorUpdate(p) ==
    /\ \E l \in PL!Updated(lives[p]) :
          /\ Live(p, l)
          /\ watcher' = IF l.stage = "off" THEN Released(p) ELSE watcher
    /\ place' = "processor"
    /\ UNCHANGED stranded

\* The worker of a processor.  No context is made without a loaded model.
ProcessorWork(p) ==
    /\ p \notin stranded
    /\ \E l \in PL!Worked(lives[p]) :
          /\ l.context # lives[p].context /\ l.context = "live" =>
                mIsInitialized /\ mModel = "live"
          /\ Live(p, l)
    /\ UNCHANGED <<processorVars, modelVars, listVars, mProcessorListMutex, stranded,
                   hostVars, destroyVars>>

\* mutants of Awaited: destroy() in the place of destroy_sync(), and a wait for
\* the owner's update()
NotAwaited(p) == Stage(p, {"registered"})
AwaitedUpdate(p) == ~Stage(p, {"off", "deleted"})

\* what destroy_sync waits for: signal_destroying()
Awaited(p) == Stage(p, {"registered", "destroying", "freed", "lost"})

-----------------------------------------------------------------------------
(* The application's calls.                                                *)

\* What an application does that waits for the callback of a step before it
\* makes the next one with the same object.
Orderly ==
    {"initialize_model"} \X {"main", "on_destroy", "on_initialize_fail"}
    \cup {"register"} \X {"main", "on_initialize"}
    \cup {"destroy"} \X {"main", "on_initialize"}
    \cup {"destroy processor", "delete processor"} \X {"main", "processor"}
    \cup {"unregister", "start_lora_operation", "update processor", "delete"} \X {"main"}

\* (The methods that go through the list or lock it are called from the main
\* loop and the model's callbacks only, not from a callback of a processor.)
Calling(use) ==
    /\ caller = "idle"
    /\ asked["owner"] = Nobody
    /\ rest \in {"none", "unlock"} \/ place # "main"
    /\ <<use, place>> \in Uses

\* MBASE_INF_T2T_MODEL_RETURN_UNINITIALIZED
Usable == ~mSignal["destroy"] /\ ~mSignal["init"] /\ mIsInitialized

Registering == \E p \in Processors : Stage(p, {"initializing", "made", "initialized"})

\* initialize_model_ex: the path is a file
initialize_model ==
    /\ Calling("initialize_model")
    /\ ~mIsInitialized
    /\ ~mSignal["init"]
    /\ ~mSignalState["init"]
    /\ mRegisteredProcessors' = <<>>
    /\ LP!SetSignal("init") /\ caller' = "start"
    /\ UNCHANGED <<modelVars, mOccupiedContext, watcher, mTargetWatcher, mProcessorListMutex,
                   lifeVars, hostVars, destroyVars>>

\* mutant of HasRoom: the context is not compared with what is left
RoomForOne(p) == ContextLength[p] <= mTotalContextSize

HasRoom(p) == mOccupiedContext + ContextLength[p] <= mTotalContextSize

\* register_context_process: counts the context and initializes the processor,
\* which does nothing if it is initializing already ...
register(p) ==
    /\ Calling(IF Stage(p, {"initializing"}) THEN "register twice"
               ELSE IF lives[p].failed THEN "register after failure"
               ELSE IF mSignalState["destroy"] THEN "register unloaded"
               ELSE "register")
    /\ Usable
    /\ rest = "none"
    /\ Stage(p, {"off", "initializing"})
    /\ HasRoom(p)
    /\ Listed # Nodes
    /\ mOccupiedContext' = mOccupiedContext + ContextLength[p]
    /\ \/ /\ \E l \in PL!InitializeCalled(lives[p]) : Live(p, l)
          /\ Start(p)
       \/ /\ PL!InitializeCalled(lives[p]) = {}
          /\ UNCHANGED lifeVars
    /\ rest' = "lock register"
    /\ serving' = p
    /\ UNCHANGED <<processorVars, modelVars, mRegisteredProcessors, watcher, mTargetWatcher,
                   mProcessorListMutex, place, walk, destroyVars>>

\* ... and lists it, under the mutex
RegisterListed ==
    LET n == CHOOSE free \in Nodes : free \notin Listed
    IN  /\ rest = "lock register"
        /\ mProcessorListMutex = "free"
        /\ mRegisteredProcessors' = Append(mRegisteredProcessors, n)
        /\ watcher' = [watcher EXCEPT ![n] = [mSubject |-> serving,
                                              mContextLength |-> ContextLength[serving]]]
        /\ mTargetWatcher' = [mTargetWatcher EXCEPT ![serving] = n]
        /\ rest' = "none"
        /\ serving' = Nobody
        /\ UNCHANGED <<processorVars, modelVars, mOccupiedContext, mProcessorListMutex,
                       lifeVars, place, walk, destroyVars>>

unregister(p) ==
    /\ Calling("unregister")
    /\ Usable
    /\ rest = "none"
    /\ Registered(p)
    /\ \E n \in Listed : watcher[n].mSubject = p
    /\ rest' = "lock unregister"
    /\ serving' = p
    /\ UNCHANGED <<processorVars, modelVars, listVars, mProcessorListMutex, lifeVars, place,
                   walk, destroyVars>>

\* It is found and destroyed, and the method returns with the mutex locked.
Unregistered ==
    /\ rest = "lock unregister"
    /\ mProcessorListMutex = "free"
    /\ mProcessorListMutex' = "owner"
    /\ \/ AskRegistered("owner", serving)
       \/ ~Registered(serving) /\ UNCHANGED asked
    /\ rest' = "none"
    /\ serving' = Nobody
    /\ UNCHANGED <<processorVars, modelVars, listVars, lifeVars, place, walk, toDestroy,
                   awaited>>

\* the declarations and start_lora_operation: no start_processor
start_lora_operation ==
    /\ Calling("start_lora_operation")
    /\ Usable
    /\ ~mSignal["lora"]
    /\ ~mSignalState["lora"]
    /\ LP!SetSignal("lora") /\ caller' = "idle"
    /\ UNCHANGED <<modelVars, listVars, mProcessorListMutex, lifeVars, hostVars, destroyVars>>

\* destroy: goes through the processors first
destroy ==
    /\ Calling(IF Registering THEN "destroy while registering" ELSE "destroy")
    /\ mIsInitialized
    /\ ~mSignal["destroy"]
    /\ rest = "none"
    /\ ~mSignalState["destroy"]
    /\ rest' = "destroy"
    /\ walk' = mRegisteredProcessors
    /\ UNCHANGED <<processorVars, modelVars, listVars, mProcessorListMutex, lifeVars, place,
                   serving, destroyVars>>

\* erase(It), the iterator at a node of the list ...
Erased(n) ==
    RemoveAt(mRegisteredProcessors,
             CHOOSE i \in DOMAIN mRegisteredProcessors : mRegisteredProcessors[i] = n)

\* ... and where the walk goes on: at the next node, or, after the last one,
\* again at the one before it
Resumed ==
    LET left == Erased(Head(walk))
    IN  IF Tail(walk) = <<>> /\ left # <<>> THEN <<Last(left)>> ELSE Tail(walk)

\* mutant of DestroyNext: the nodes of the processors are erased as well
DestroyNextErases ==
    /\ rest = "destroy"
    /\ walk # <<>>
    /\ walk' = Resumed
    /\ mRegisteredProcessors' = Erased(Head(walk))
    /\ \A p \in {watcher[Head(walk)].mSubject} \ {Nobody} : WorkerEnded(p)
    /\ lives' = [p \in Processors |->
                    IF p = watcher[Head(walk)].mSubject /\ Stage(p, {"registered"})
                    THEN PL!To(lives[p], "destroying") ELSE lives[p]]
    /\ UNCHANGED <<processorVars, modelVars, mOccupiedContext, watcher, mTargetWatcher,
                   stranded, mProcessorListMutex, place, rest, serving, destroyVars>>

\* A node without a processor is erased, without the mutex; a processor is
\* stopped and told to destroy its context, with no worker left that could
\* come between the two questions of its destroy().
DestroyNext ==
    /\ rest = "destroy"
    /\ walk # <<>>
    /\ LET p == watcher[Head(walk)].mSubject
       IN  IF p = Nobody
           THEN /\ mRegisteredProcessors' = Erased(Head(walk))
                /\ walk' = Resumed
                /\ UNCHANGED lifeVars
           ELSE /\ walk' = Tail(walk)
                /\ WorkerEnded(p)
                /\ IF Stage(p, {"registered"})
                   THEN /\ \E l \in PL!DestroyCalled(lives[p]) : Live(p, l)
                        /\ stranded' = stranded \ {p}
                   ELSE UNCHANGED lifeVars
                /\ UNCHANGED mRegisteredProcessors
    /\ UNCHANGED <<processorVars, modelVars, mOccupiedContext, watcher, mTargetWatcher,
                   mProcessorListMutex, place, rest, serving, destroyVars>>

DestroySignalled ==
    /\ rest = "destroy"
    /\ walk = <<>>
    /\ LP!SetSignal("destroy") /\ caller' = "start"
    /\ rest' = "none"
    /\ UNCHANGED <<modelVars, listVars, mProcessorListMutex, lifeVars, place, walk, serving,
                   destroyVars>>

\* A processor's own destroy, update and destructor, called by the application.
DestroyProcessor(p) ==
    /\ Calling(IF mSignal["destroy"] THEN "destroy processor while unloading"
               ELSE "destroy processor")
    /\ AskRegistered("owner", p)
    /\ UNCHANGED <<processorVars, modelVars, listVars, mProcessorListMutex, lifeVars, hostVars,
                   toDestroy, awaited>>

DestroyGoesOn ==
    /\ RaiseDestroy("owner")
    /\ UNCHANGED <<processorVars, modelVars, listVars, mProcessorListMutex, hostVars, toDestroy,
                   awaited>>

UpdateProcessor(p) ==
    /\ Calling("update processor")
    /\ ProcessorUpdate(p)
    /\ UNCHANGED <<processorVars, modelVars, mOccupiedContext, mRegisteredProcessors,
                   mTargetWatcher, mProcessorListMutex, rest, walk, serving, destroyVars>>

\* Only a processor that has a context releases its watcher.
DeleteProcessor(p) ==
    /\ Calling(IF Unreported(p) THEN "delete unreported processor"
               ELSE IF mSignal["destroy"] THEN "delete processor while unloading"
               ELSE "delete processor")
    /\ \E l \in PL!Deleted(lives[p]) : \E swept \in PL!Swept(l) : Live(p, swept)
    /\ watcher' = IF lives[p].context = "live" THEN Released(p) ELSE watcher
    /\ UNCHANGED <<processorVars, modelVars, mOccupiedContext, mRegisteredProcessors,
                   mTargetWatcher, mProcessorListMutex, stranded, hostVars, destroyVars>>

\* mutant of Delete: nobody waits for the worker
DeleteUnjoined ==
    /\ Calling(IF Registering THEN "delete while registering" ELSE "delete")
    /\ rest = "none"
    /\ mIsProcessorRunning' = FALSE
    /\ caller' = "deleted"
    /\ UNCHANGED <<mSignal, mSignalState, owed, mThreadHandle, phase, at, todo, modelVars,
                   listVars, mProcessorListMutex, lifeVars, hostVars, destroyVars>>

\* ~InfModelTextToText
Delete ==
    /\ Calling(IF Registering THEN "delete while registering" ELSE "delete")
    /\ rest = "none"
    /\ LP!CallStop /\ caller' = "stop_join"
    /\ rest' = "delete"
    /\ UNCHANGED <<modelVars, listVars, mProcessorListMutex, lifeVars, place, walk, serving,
                   destroyVars>>

LeaveCallback ==
    /\ caller = "idle"
    /\ asked["owner"] = Nobody
    /\ place # "main"
    /\ rest \in {"none", "update", "destroyed", "unlock", "deleting"}
    /\ place' = "main"
    /\ IF rest = "unlock"
       THEN mProcessorListMutex' = "free" /\ rest' = "none"
       ELSE UNCHANGED <<mProcessorListMutex, rest>>
    /\ UNCHANGED <<processorVars, modelVars, listVars, lifeVars, walk, serving, destroyVars>>

\* start_processor and stop_processor go on
ProcessorStep ==
    /\ LP!OwnerStep
    /\ UNCHANGED <<modelVars, listVars, mProcessorListMutex, lifeVars, hostVars, destroyVars>>

-----------------------------------------------------------------------------
(* update(), called from the program loop.                                 *)

Update ==
    /\ caller = "idle"
    /\ asked["owner"] = Nobody
    /\ rest = "none"
    /\ place = "main"
    /\ ~mSignal["init"]
    /\ ~mSignal["destroy"]

UpdateDestroyed ==
    /\ Update
    /\ mSignalState["destroy"]
    /\ LP!ResetSignals({}, Signals)
    /\ rest' = "lock destroyed"
    /\ UNCHANGED <<modelVars, listVars, mProcessorListMutex, lifeVars, place, walk, serving,
                   destroyVars>>

UpdateInitialized ==
    /\ Update
    /\ ~mSignalState["destroy"]
    /\ mSignalState["init"]
    /\ LP!ResetSignals({}, {"init", "destroy"})
    /\ IF mIsInitFailed
       THEN place' = "on_initialize_fail" /\ UNCHANGED mIsInitialized
       ELSE place' = "on_initialize" /\ mIsInitialized' = TRUE
    /\ UNCHANGED <<mIsInitFailed, mModel, failedDue, listVars, mProcessorListMutex, lifeVars,
                   rest, walk, serving, destroyVars>>

UpdateLora ==
    /\ Update
    /\ ~mSignalState["destroy"] /\ ~mSignalState["init"]
    /\ mSignalState["lora"]
    /\ LP!ResetSignals({"lora"}, {})
    /\ place' = "on_lora_operate"
    /\ UNCHANGED <<modelVars, listVars, mProcessorListMutex, lifeVars, rest, walk, serving,
                   destroyVars>>

UpdateProcessors ==
    /\ Update
    /\ \A s \in Signals : ~mSignalState[s]
    /\ rest' = "lock update"
    /\ UNCHANGED <<processorVars, modelVars, listVars, mProcessorListMutex, lifeVars, place,
                   walk, serving, destroyVars>>

\* the three lock_guards of the owner
OwnerLocks ==
    /\ caller = "idle"
    /\ mProcessorListMutex = "free"
    /\ mProcessorListMutex' = "owner"
    /\ \E step \in {<<"lock update", "update">>, <<"lock destroyed", "destroyed">>,
                    <<"lock delete", "deleting">>} :
          rest = step[1] /\ rest' = step[2]
    /\ walk' = mRegisteredProcessors
    /\ UNCHANGED <<processorVars, modelVars, listVars, lifeVars, place, serving, destroyVars>>

\* mutant of Uncounted
StillCounted(n) == mOccupiedContext

Uncounted(n) == mOccupiedContext - watcher[n].mContextLength

\* A node without a processor is erased and its context no longer counted,
\* when all is well; after a destroy it is passed over.
WalkFreed ==
    /\ rest \in {"update", "destroyed", "deleting"}
    /\ place = "main"
    /\ walk # <<>>
    /\ watcher[Head(walk)].mSubject = Nobody
    /\ IF rest = "update"
       THEN /\ mRegisteredProcessors' = Erased(Head(walk))
            /\ mOccupiedContext' = Uncounted(Head(walk))
            /\ walk' = Resumed
       ELSE walk' = Tail(walk) /\ UNCHANGED <<mRegisteredProcessors, mOccupiedContext>>
    /\ UNCHANGED <<processorVars, modelVars, watcher, mTargetWatcher, mProcessorListMutex,
                   lifeVars, place, rest, serving, destroyVars>>

\* update() of the next processor; the destructor destroys it before
WalkProcessor ==
    /\ rest \in {"update", "destroyed", "deleting"}
    /\ place = "main"
    /\ walk # <<>>
    /\ LET p == watcher[Head(walk)].mSubject
       IN  /\ p # Nobody
           /\ rest = "deleting" => WorkerEnded(p) /\ ~Awaited(p)
           /\ \/ ProcessorUpdate(p)
              \/ PL!Updated(lives[p]) = {} /\ UNCHANGED <<watcher, lifeVars, place>>
    /\ walk' = Tail(walk)
    /\ UNCHANGED <<processorVars, modelVars, mOccupiedContext, mRegisteredProcessors,
                   mTargetWatcher, mProcessorListMutex, rest, serving, destroyVars>>

UpdateEnds ==
    /\ rest = "update"
    /\ place = "main"
    /\ walk = <<>>
    /\ rest' = "none"
    /\ mProcessorListMutex' = "free"
    /\ UNCHANGED <<processorVars, modelVars, listVars, lifeVars, place, walk, serving,
                   destroyVars>>

\* on_destroy is called with the mutex locked
UpdateDestroyedEnds ==
    /\ rest = "destroyed"
    /\ place = "main"
    /\ walk = <<>>
    /\ mRegisteredProcessors' = <<>>
    /\ mIsInitialized' = FALSE
    /\ place' = "on_destroy"
    /\ rest' = "unlock"
    /\ UNCHANGED <<processorVars, mIsInitFailed, mModel, failedDue, mOccupiedContext, watcher,
                   mTargetWatcher, mProcessorListMutex, lifeVars, walk, serving, destroyVars>>

-----------------------------------------------------------------------------
(* ~InfModelTextToText goes on after its stop_processor().                 *)

DeleteStopped ==
    /\ rest = "delete"
    /\ caller = "idle"
    /\ IF mIsInitialized
       THEN rest' = "lock delete" /\ UNCHANGED processorVars
       ELSE rest' = "destruct" /\ LP!CallStop /\ caller' = "delete_join"
    /\ UNCHANGED <<modelVars, listVars, mProcessorListMutex, lifeVars, place, walk, serving,
                   destroyVars>>

\* stop_processor(), destroy_sync() of a registered processor
DeleteDestroys ==
    /\ rest = "deleting"
    /\ place = "main"
    /\ walk # <<>>
    /\ \E p \in {watcher[Head(walk)].mSubject} \ {Nobody} :
          /\ WorkerEnded(p)
          /\ \E l \in PL!DestroyCalled(lives[p]) : Live(p, l)
          /\ stranded' = stranded \ {p}
    /\ UNCHANGED <<processorVars, modelVars, listVars, mProcessorListMutex, hostVars,
                   destroyVars>>

\* llama_model_free, the members, ~logical_processor
DeleteFrees ==
    /\ rest = "deleting"
    /\ place = "main"
    /\ walk = <<>>
    /\ mModel' = "null"
    /\ mRegisteredProcessors' = <<>>
    /\ mProcessorListMutex' = "free"
    /\ rest' = "destruct"
    /\ LP!CallStop /\ caller' = "delete_join"
    /\ UNCHANGED <<mIsInitialized, mIsInitFailed, failedDue, mOccupiedContext, watcher,
                   mTargetWatcher, lifeVars, place, walk, serving, destroyVars>>

-----------------------------------------------------------------------------
(* update_t, in the model's worker.                                        *)

Enter(t) ==
    /\ LP!Enter(t)
    /\ todo'[t] = IF mIsInitialized THEN {"destroy"} ELSE {"init", "lora"}
    /\ UNCHANGED <<modelVars, listVars, mProcessorListMutex, lifeVars, hostVars, destroyVars>>

Look(t, s) ==
    /\ ~failedDue /\ mProcessorListMutex # "worker"
    /\ s = "lora" => "init" \notin todo[t]
    /\ LP!Look(t, s)
    /\ UNCHANGED <<modelVars, listVars, mProcessorListMutex, lifeVars, hostVars, destroyVars>>

\* _initialize_model: the file is read and llama.cpp loads it ...
InitializeModel(t) ==
    /\ at[t] = "init" /\ phase[t] = "job"
    /\ ~mIsInitialized
    /\ mModel' = "live"
    /\ mIsInitialized' = TRUE
    /\ UNCHANGED <<processorVars, mIsInitFailed, failedDue, listVars, mProcessorListMutex,
                   lifeVars, hostVars, destroyVars>>

\* ... and set_signal_finished begins, or it did not load
InitializeFinished(t) ==
    /\ at[t] = "init"
    /\ LP!FinishState(t)
    /\ mModel' = IF mIsInitialized THEN mModel ELSE "null"
    /\ UNCHANGED <<mIsInitialized, mIsInitFailed, failedDue, listVars, mProcessorListMutex,
                   lifeVars, hostVars, destroyVars>>

\* the lock_guards of _destroy_model and _lora_operate
WorkerLocks(t) ==
    /\ at[t] \in {"destroy", "lora"} /\ phase[t] = "job"
    /\ mProcessorListMutex = "free"
    /\ mProcessorListMutex' = "worker"
    /\ toDestroy' = IF at[t] = "destroy" THEN mRegisteredProcessors ELSE <<>>
    /\ UNCHANGED <<processorVars, modelVars, listVars, lifeVars, hostVars, awaited, asked>>

\* destroy_sync of the next processor: destroy(), in two steps if it finds a
\* context ...
DestroySync(t) ==
    /\ at[t] = "destroy" /\ phase[t] = "job"
    /\ mProcessorListMutex = "worker"
    /\ toDestroy # <<>>
    /\ asked["worker"] = Nobody /\ awaited = Nobody
    /\ LET p == watcher[Head(toDestroy)].mSubject
       IN  IF p # Nobody /\ Registered(p)
           THEN AskRegistered("worker", p) /\ UNCHANGED awaited
           ELSE awaited' = p /\ UNCHANGED asked
    /\ toDestroy' = Tail(toDestroy)
    /\ UNCHANGED <<processorVars, modelVars, listVars, mProcessorListMutex, lifeVars, hostVars>>

DestroySyncGoesOn ==
    /\ RaiseDestroy("worker")
    /\ awaited' = asked["worker"]
    /\ UNCHANGED <<processorVars, modelVars, listVars, mProcessorListMutex, hostVars, toDestroy>>

\* ... and waiting, for ever if the signal was raised too late
DestroySyncReturns ==
    /\ awaited # Nobody
    /\ ~Awaited(awaited)
    /\ awaited' = Nobody
    /\ UNCHANGED <<processorVars, modelVars, listVars, mProcessorListMutex, lifeVars, hostVars,
                   toDestroy, asked>>

\* llama_model_free and the resets
DestroyModel(t) ==
    /\ at[t] = "destroy"
    /\ mProcessorListMutex = "worker"
    /\ toDestroy = <<>> /\ asked["worker"] = Nobody /\ awaited = Nobody
    /\ LP!FinishState(t)
    /\ mModel' = "null"
    /\ mOccupiedContext' = 0
    /\ UNCHANGED <<mIsInitialized, mIsInitFailed, failedDue, mRegisteredProcessors, watcher,
                   mTargetWatcher, mProcessorListMutex, lifeVars, hostVars, destroyVars>>

\* _lora_operate stops the processors and exchanges the adapters
LoraOperate(t) ==
    /\ at[t] = "lora"
    /\ mProcessorListMutex = "worker"
    /\ \A n \in Listed : watcher[n].mSubject # Nobody => WorkerEnded(watcher[n].mSubject)
    /\ LP!FinishState(t)
    /\ UNCHANGED <<modelVars, listVars, mProcessorListMutex, lifeVars, hostVars, destroyVars>>

FinishSignal(t) ==
    /\ LP!FinishSignal(t)
    /\ failedDue' = (at[t] = "init" /\ ~mIsInitialized)
    /\ UNCHANGED <<mIsInitialized, mIsInitFailed, mModel, listVars, mProcessorListMutex,
                   lifeVars, hostVars, destroyVars>>

\* after a failure mIsInitFailed is written last
WriteInitFailed ==
    /\ failedDue
    /\ failedDue' = FALSE
    /\ mIsInitFailed' = TRUE
    /\ UNCHANGED <<processorVars, mIsInitialized, mModel, listVars, mProcessorListMutex,
                   lifeVars, hostVars, destroyVars>>

WorkerUnlocks(t) ==
    /\ phase[t] = "update_t"
    /\ mProcessorListMutex = "worker"
    /\ mProcessorListMutex' = "free"
    /\ UNCHANGED <<processorVars, modelVars, listVars, lifeVars, hostVars, destroyVars>>

Return(t) ==
    /\ ~failedDue /\ mProcessorListMutex # "worker"
    /\ todo[t] = {}
    /\ LP!Return(t)
    /\ UNCHANGED <<modelVars, listVars, mProcessorListMutex, lifeVars, hostVars, destroyVars>>

Exit(t) ==
    /\ LP!Exit(t)
    /\ UNCHANGED <<modelVars, listVars, mProcessorListMutex, lifeVars, hostVars, destroyVars>>

-----------------------------------------------------------------------------
Application ==
    \/ initialize_model
    \/ start_lora_operation
    \/ destroy
    \/ Delete
    \/ LeaveCallback
    \/ \E p \in Processors :
          register(p) \/ unregister(p) \/ DestroyProcessor(p) \/ UpdateProcessor(p)
             \/ DeleteProcessor(p)

\* what the library does for the owner once called; a destroy() it is in comes
\* first
Library ==
    \/ DestroyGoesOn
    \/ /\ asked["owner"] = Nobody
       /\ \/ ProcessorStep
          \/ RegisterListed \/ Unregistered
          \/ DestroyNext \/ DestroySignalled
          \/ OwnerLocks \/ WalkFreed \/ WalkProcessor \/ UpdateEnds \/ UpdateDestroyedEnds
          \/ DeleteStopped \/ DeleteDestroys \/ DeleteFrees

UpdateCall == UpdateDestroyed \/ UpdateInitialized \/ UpdateLora \/ UpdateProcessors

Worker(t) ==
    \/ Enter(t)
    \/ \E s \in Signals : Look(t, s)
    \/ InitializeModel(t) \/ InitializeFinished(t)
    \/ WorkerLocks(t) \/ DestroySync(t) \/ DestroySyncGoesOn \/ DestroySyncReturns
    \/ DestroyModel(t) \/ LoraOperate(t)
    \/ FinishSignal(t) \/ WriteInitFailed \/ WorkerUnlocks(t)
    \/ Return(t)
    \/ Exit(t)

Next ==
    \/ Application \/ Library \/ UpdateCall
    \/ \E t \in Threads : Worker(t)
    \/ \E p \in Processors : ProcessorWork(p)

Spec == Init /\ [][Next]_vars

\* Every thread is scheduled, and the program loop leaves its callbacks and
\* keeps calling update(); a worker that waits for the mutex gets it some time.
FairSpec ==
    /\ Spec
    /\ WF_vars(Library)
    /\ WF_vars(LeaveCallback)
    /\ WF_vars(UpdateCall)
    /\ \A t \in Threads : WF_vars(Worker(t)) /\ SF_vars(WorkerLocks(t))
    /\ \A p \in Processors : WF_vars(ProcessorWork(p))

-----------------------------------------------------------------------------
(* Properties.                                                             *)

\* No inference context outlives the language model it was made from,
\* whatever the model's worker, the processors' workers and the owner do in
\* between: destroy frees the model after the last context.
NoContextOutlivesModel ==
    \A p \in Processors : lives[p].context = "live" => mModel = "live"

\* The nodes the model goes through never point to a processor that was
\* deleted: update(), destroy() and the worker call methods through them.
WatchersValid ==
    \A n \in Listed : watcher[n].mSubject # Nobody =>
        ~Stage(watcher[n].mSubject, {"deleted"})

\* release_object_watcher writes through a pointer nobody clears: whenever a
\* processor does so the node is still in the list, and still its own.
ReleaseIsSafe ==
    [][\A n \in Nodes :
          watcher[n].mSubject # Nobody /\ watcher'[n].mSubject = Nobody =>
              /\ n \in Listed
              /\ lives'[watcher[n].mSubject] # lives[watcher[n].mSubject]]_vars

\* While the model is in use the occupied context is the total of the nodes
\* in the list, of a context being registered and of no other: registering,
\* destroying and deleting processors neither leaks nor gains capacity.
OccupancyAccounted ==
    LET units == UNION {{n} \X (1..watcher[n].mContextLength) : n \in Listed}
        inUse == /\ mIsInitialized /\ ~mSignal["destroy"] /\ ~mSignalState["destroy"]
                 /\ rest \in {"none", "lock register", "lock unregister", "lock update", "update"}
    IN  inUse => mOccupiedContext = Cardinality(units)
                     + (IF rest = "lock register" THEN ContextLength[serving] ELSE 0)

\* Every live context is in the list, through which it is updated, counted and
\* in the end destroyed.
ContextsListed ==
    \A p \in Processors : lives[p].context = "live" =>
        \/ \E n \in Listed : watcher[n].mSubject = p
        \/ rest = "lock register" /\ serving = p

\* The model's list and its occupied context agree with the contexts there are.
ContextsAccounted == TypeOK /\ OccupancyAccounted /\ ContextsListed

\* No context is left when the language model is freed, no processor is reached
\* through the list when it is deleted.
NothingDangles == NoContextOutlivesModel /\ WatchersValid

\* A worker that is created for a destroy destroys the model: it waits for
\* processors whose contexts do go away and for a mutex that becomes free,
\* unless a processor's signal is stranded, unregister left the mutex locked,
\* or the destroy() of a processor straddled the end of an earlier one, whose
\* signal then stays up and is waited for with the list locked.
DestroyAttended ==
    (caller = "start_run" /\ mSignal["destroy"]) ~>
        \/ ~mSignal["destroy"]
        \/ stranded # {}
        \/ \E p \in Processors : Stage(p, {"lost"})
        \/ mProcessorListMutex = "owner" /\ rest = "none"

\* The model is a parallel state machine.
IsLogicalProcessor == LP!Spec
=============================================================================
