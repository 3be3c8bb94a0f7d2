---------------------------- MODULE T2TModelProofs ----------------------------
(***************************************************************************)
(* Proofs about the model object, for any number of processors, threads    *)
(* and list nodes: it shares the variables of a parallel state machine and *)
(* takes only that machine's steps on them, whatever the application does; *)
(* and for an orderly application the list, the count, the contexts and    *)
(* the language model agree.  The last part is about the context of one of *)
(* its processors: outside the logit store, KvCache implements             *)
(* Conversation.                                                           *)
(***************************************************************************)
EXTENDS T2TModel, KvCache, FiniteSetTheorems, TLAPS

LPP == INSTANCE LogicalProcessorProofs WITH SpawnMayFail <- FALSE

\* The processors and the list are no business of the model's own worker.
LEMMA ProcessorStepsAside ==
  ASSUME NEW p \in Processors,
         register(p) \/ unregister(p) \/ DestroyProcessor(p) \/ UpdateProcessor(p)
           \/ DeleteProcessor(p) \/ ProcessorWork(p)
  PROVE  UNCHANGED processorVars
BY DEF register, unregister, DestroyProcessor, UpdateProcessor, DeleteProcessor, ProcessorWork

LEMMA LPStep == [Next]_vars => [LP!Next]_(LP!vars)
<1> SUFFICES ASSUME [Next]_vars
             PROVE  LP!Next \/ UNCHANGED processorVars
  BY DEF processorVars, LP!vars, LP!signalVars, LP!threadVars
<1>1. CASE Application
  <2>1. ASSUME NEW s \in Signals, LP!SetSignal(s)
        PROVE  LP!Next
    BY <2>1 DEF LP!Next, LP!OwnerCall
  <2>2. CASE initialize_model \/ start_lora_operation
    BY <2>1, <2>2 DEF initialize_model, start_lora_operation, Signals
  <2>3. CASE Delete
    BY <2>3 DEF Delete, LP!Next, LP!OwnerCall
  <2>4. CASE destroy \/ LeaveCallback
    BY <2>4 DEF destroy, LeaveCallback
  <2> QED
    BY <1>1, <2>2, <2>3, <2>4, ProcessorStepsAside DEF Application
<1>2. CASE Library
  <2>1. CASE ProcessorStep
    BY <2>1 DEF ProcessorStep, LP!Next
  <2>2. CASE DestroySignalled
    <3>1. LP!SetSignal("destroy") /\ "destroy" \in Signals
      BY <2>2 DEF DestroySignalled, Signals
    <3> QED
      BY <3>1 DEF LP!Next, LP!OwnerCall
  <2>3. CASE DeleteStopped \/ DeleteFrees
    BY <2>3 DEF DeleteStopped, DeleteFrees, LP!Next, LP!OwnerCall
  <2>4. CASE RegisterListed \/ Unregistered \/ DestroyNext \/ OwnerLocks \/ WalkFreed
              \/ WalkProcessor
    BY <2>4 DEF RegisterListed, Unregistered, DestroyNext, OwnerLocks, WalkFreed, WalkProcessor
  <2>5. CASE UpdateEnds \/ UpdateDestroyedEnds \/ DeleteDestroys \/ DestroyGoesOn
    BY <2>5 DEF UpdateEnds, UpdateDestroyedEnds, DeleteDestroys, DestroyGoesOn
  <2> QED
    BY <1>2, <2>1, <2>2, <2>3, <2>4, <2>5 DEF Library
<1>3. CASE UpdateCall
  <2>1. ASSUME NEW a \in SUBSET Signals, NEW b \in SUBSET Signals, LP!ResetSignals(a, b)
        PROVE  LP!Next
    BY <2>1 DEF LP!Next, LP!OwnerCall
  <2>2. CASE UpdateDestroyed
    BY <2>1, <2>2 DEF UpdateDestroyed
  <2>3. CASE UpdateInitialized \/ UpdateLora
    BY <2>1, <2>3 DEF UpdateInitialized, UpdateLora, Signals
  <2>4. CASE UpdateProcessors
    BY <2>4 DEF UpdateProcessors
  <2> QED
    BY <1>3, <2>2, <2>3, <2>4 DEF UpdateCall
<1>4. ASSUME NEW t \in Threads, Worker(t)
      PROVE  LP!Next \/ UNCHANGED processorVars
  <2>1. LP!Worker(t) => LP!Next
    BY DEF LP!Next
  <2>2. CASE Enter(t) \/ Return(t) \/ Exit(t)
    BY <2>1, <2>2 DEF Enter, Return, Exit, LP!Worker
  <2>3. ASSUME NEW s \in Signals, Look(t, s)
        PROVE  LP!Next
    BY <2>1, <2>3 DEF Look, LP!Worker
  <2>4. CASE InitializeFinished(t) \/ DestroyModel(t) \/ LoraOperate(t)
    BY <2>1, <2>4 DEF InitializeFinished, DestroyModel, LoraOperate, LP!Worker
  <2>5. CASE FinishSignal(t)
    BY <2>1, <2>5 DEF FinishSignal, LP!Worker
  <2>6. CASE InitializeModel(t) \/ WorkerLocks(t) \/ DestroySync(t) \/ WriteInitFailed
              \/ WorkerUnlocks(t) \/ DestroySyncGoesOn \/ DestroySyncReturns
    BY <2>6 DEF InitializeModel, WorkerLocks, DestroySync, WriteInitFailed, WorkerUnlocks,
       DestroySyncGoesOn, DestroySyncReturns
  <2> QED
    BY <1>4, <2>2, <2>3, <2>4, <2>5, <2>6 DEF Worker
<1>5. CASE \E p \in Processors : ProcessorWork(p)
  BY <1>5, ProcessorStepsAside
<1>6. CASE UNCHANGED vars
  BY <1>6 DEF vars
<1> QED
  BY <1>1, <1>2, <1>3, <1>4, <1>5, <1>6 DEF Next

\* The model object is a parallel state machine: initialize_model, destroy,
\* update and the destructor use its worker only through set_signal,
\* start_processor, stop_processor and the resets.
THEOREM Implements == Spec => IsLogicalProcessor
<1>1. Init => LP!Init
  BY DEF Init
<1> QED
  BY <1>1, LPStep, PTL DEF Spec, IsLogicalProcessor, LP!Spec

\* The machine LogicalProcessorProofs reasons about is the same one.
LEMMA SameMachine == LP!Spec => LPP!Spec
<1>1. LP!Init => LPP!Init
  BY DEF LP!Init, LPP!Init, LP!Constructed, LPP!Constructed
<1>2. [LP!Next]_(LP!vars) => [LPP!Next]_(LPP!vars)
  <2>1. UNCHANGED LP!vars => UNCHANGED LPP!vars
    BY DEF LP!vars, LPP!vars, LP!signalVars, LPP!signalVars, LP!threadVars, LPP!threadVars
  <2>2. LP!OwnerCall => LPP!OwnerCall
    BY DEF LP!OwnerCall, LPP!OwnerCall, LP!SetSignal, LPP!SetSignal, LP!ResetSignals,
       LPP!ResetSignals, LP!CallStart, LPP!CallStart, LP!CallStop, LPP!CallStop, LP!signalVars,
       LPP!signalVars, LP!threadVars, LPP!threadVars
  <2>3. LP!OwnerStep => LPP!OwnerStep
    BY DEF LP!OwnerStep, LPP!OwnerStep, LP!StartFindsRunning, LPP!StartFindsRunning,
       LP!StartFindsStopped, LPP!StartFindsStopped, LP!StartJoin, LPP!StartJoin, LP!StartRun,
       LPP!StartRun, LP!StartRunFails, LP!StopJoin, LPP!StopJoin, LP!Joined, LPP!Joined, LP!Live,
       LPP!Live, LP!signalVars, LPP!signalVars, LP!threadVars, LPP!threadVars
  <2>4. ASSUME NEW t \in Threads, LP!Worker(t)
        PROVE  LPP!Worker(t)
    BY <2>4 DEF LP!Worker, LPP!Worker, LP!Enter, LPP!Enter, LP!Look, LPP!Look, LP!FinishState,
       LPP!FinishState, LP!FinishSignal, LPP!FinishSignal, LP!Return, LPP!Return, LP!Exit,
       LPP!Exit, LP!signalVars, LPP!signalVars
  <2> QED
    BY <2>1, <2>2, <2>3, <2>4 DEF LP!Next, LPP!Next
<1> QED
  BY <1>1, <1>2, PTL DEF LP!Spec, LPP!Spec

\* So its inductive invariant holds here.
LEMMA MachineInvariant == Spec => []LPP!IInv
<1>1. LPP!Spec => []LPP!IInv
  BY LPP!Inductive, NoSignalAssumption, NoThreadAssumption
<1> QED
  BY <1>1, Implements, SameMachine, PTL DEF IsLogicalProcessor

-----------------------------------------------------------------------------
(* The registered processors, for an orderly application.                  *)

On(p) == ~Stage(p, {"off", "deleted"})
Destroyed(p) == Stage(p, {"off", "destroyed", "deleted"})
Units == UNION {{n} \X (1..watcher[n].mContextLength) : n \in Listed}

\* the owner is about to list a processor it has counted
Listing(p) == rest = "lock register" /\ serving = p

\* A processor is on from register() until it is reported destroyed or failed, and has a
\* context from the job that makes it to the one that frees it.
LifeInv ==
    \A p \in Processors :
        /\ Stage(p, {"off", "initializing", "freed", "destroyed", "lost", "deleted"}) =>
              lives[p].context = "null"
        /\ Registered(p) => Stage(p, {"registered", "destroying"})
        /\ Stage(p, {"registered", "destroying"}) => lives[p].context = "live"
        /\ Stage(p, {"initializing"}) => ~lives[p].failed
        /\ Stage(p, {"made", "initialized"}) => (lives[p].failed <=> lives[p].context = "null")
        /\ lives[p].context = "live" => mModel = "live"
        /\ p \in stranded => Stage(p, {"initializing", "destroying", "lost"})

\* Node and processor point at each other for as long as the processor is on, but for one
\* that was told to destroy its context when update() had already seen it gone; the model's
\* worker waits for that one.
WatcherInv ==
    /\ \A n \in Listed : \A p \in Processors : watcher[n].mSubject = p =>
          On(p) /\ mTargetWatcher[p] = n
    /\ \A p \in Processors : On(p) /\ ~Listing(p) =>
          \/ mTargetWatcher[p] \in Listed /\ watcher[mTargetWatcher[p]].mSubject = p
          \/ Stage(p, {"lost"}) /\ awaited = p

\* A node is in the list once, and the owner's walks go through nodes of the list.
ListInv ==
    /\ IsInjective(mRegisteredProcessors)
    /\ rest \in {"destroy", "update", "destroyed", "deleting"} =>
          IsInjective(walk) /\ Range(walk) \subseteq Listed

\* Between the two parts of register() the new processor stands in no node.
RegisterInv ==
    /\ rest \in {"lock register", "lock unregister"} => serving \in Processors
    /\ rest = "lock register" =>
          /\ mIsInitialized
          /\ Listed # Nodes
          /\ Stage(serving, {"initializing", "made", "initialized"})
          /\ \A n \in Listed : watcher[n].mSubject # serving

Undestroyed == {"lock unregister", "lock update", "update", "lock destroyed", "destroyed"}

\* No processor is being registered once destroy() or the destructor was called, and when the
\* worker says that it is done all of them are.
DestroyInv ==
    /\ mSignal["destroy"] \/ rest \in {"destroy", "delete", "lock delete", "deleting",
         "destruct"} =>
          ~Registering
    /\ mSignalState["destroy"] \/ rest \in {"lock destroyed", "destroyed"} =>
          mOccupiedContext = 0 /\ \A p \in Processors : Destroyed(p)
    /\ ~mIsInitialized =>
          /\ mOccupiedContext = 0 /\ mRegisteredProcessors = <<>>
          /\ \A p \in Processors : ~On(p)
    /\ rest \in {"lock update", "update"} => ~mSignalState["destroy"]
    /\ rest \in Undestroyed => ~mSignal["destroy"]

\* The worker has still to destroy p, through the node n or already in its hands.
Expected(n, p) == n \in Range(toDestroy) \/ p \in {awaited, asked["worker"]}

\* What the worker has not seen in its walk is not destroyed yet, what the owner has not seen not
\* updated.
WalkInv ==
    /\ \A t \in Threads : phase[t] = "job" /\ at[t] = "destroy" /\ mProcessorListMutex = "worker" =>
          \A n \in Listed : \A p \in Processors : watcher[n].mSubject = p /\ Awaited(p) =>
              Expected(n, p)
    /\ rest \in {"destroyed", "deleting"} =>
          \A n \in Listed : watcher[n].mSubject # Nobody => n \in Range(walk)

\* A processor that said it is registered stays one to be destroyed until it is told so; only
\* while the model's worker tells it can update() see that it is destroyed.
InDestroy == {"registered", "destroying", "freed", "destroyed", "lost"}
AskedInv ==
    /\ \A p \in Processors : asked["owner"] = p =>
          /\ Stage(p, InDestroy)
          /\ ~mSignal["destroy"] /\ ~mSignalState["destroy"]
          /\ rest \notin {"lock destroyed", "destroyed"}
    /\ \A p \in Processors : asked["worker"] = p =>
          /\ Stage(p, InDestroy \cup {"off"})
          /\ mSignal["destroy"] /\ ~mSignalState["destroy"] /\ mIsInitialized
          /\ awaited = Nobody

\* The count, also while on_destroy holds the mutex and the model may be loaded again.
CountInv ==
    /\ IsFiniteSet(Units)
    /\ /\ mIsInitialized /\ ~mSignal["destroy"] /\ ~mSignalState["destroy"]
       /\ rest \in {"none", "lock register", "lock unregister", "lock update", "update", "unlock"}
       => mOccupiedContext = Cardinality(Units)
              + (IF rest = "lock register" THEN ContextLength[serving] ELSE 0)

Machine ==
    /\ LP!TypeOK
    /\ \A t \in Threads :
          /\ phase[t] \in {"job", "finish"} => at[t] \in Signals /\ mSignal[at[t]]
          /\ phase[t] = "finish" => mSignalState[at[t]]
          /\ \A u \in Threads : phase[t] = "job" /\ phase[u] = "job" => t = u

IInv ==
    /\ Machine /\ TypeOK /\ LifeInv /\ WatcherInv
    /\ ListInv /\ RegisterInv /\ DestroyInv /\ WalkInv
    /\ AskedInv /\ CountInv

-----------------------------------------------------------------------------
(* Sequences without repetition.                                           *)

LEMMA AppendFacts ==
  ASSUME NEW S, NEW s \in Seq(S), NEW e \in S
  PROVE  /\ Append(s, e) \in Seq(S)
         /\ Range(Append(s, e)) = Range(s) \cup {e}
         /\ IsInjective(s) /\ e \notin Range(s) => IsInjective(Append(s, e))
<1>1. /\ Append(s, e) \in Seq(S) /\ DOMAIN s = 1..Len(s) /\ Len(s) \in Nat
      /\ DOMAIN Append(s, e) = 1..(Len(s) + 1) /\ Append(s, e)[Len(s) + 1] = e
      /\ \A i \in 1..Len(s) : Append(s, e)[i] = s[i]
  OBVIOUS
<1>2. Range(Append(s, e)) = Range(s) \cup {e}
  BY <1>1 DEF Range
<1>3. IsInjective(s) /\ e \notin Range(s) => IsInjective(Append(s, e))
  BY DEF Range, IsInjective
<1> QED
  BY <1>2, <1>3

LEMMA TailFacts ==
  ASSUME NEW S, NEW s \in Seq(S), s # <<>>
  PROVE  /\ Tail(s) \in Seq(S) /\ Head(s) \in S
         /\ Range(s) = {Head(s)} \cup Range(Tail(s))
         /\ IsInjective(s) => IsInjective(Tail(s)) /\ Head(s) \notin Range(Tail(s))
<1>1. /\ Tail(s) \in Seq(S) /\ DOMAIN s = 1..Len(s) /\ Len(s) \in Nat /\ Len(s) > 0
      /\ DOMAIN Tail(s) = 1..(Len(s) - 1) /\ Head(s) = s[1] /\ Head(s) \in S
      /\ \A i \in 1..(Len(s) - 1) : Tail(s)[i] = s[i + 1]
  OBVIOUS
<1>2. \A i \in 1..Len(s) : i = 1 \/ (i - 1 \in 1..(Len(s) - 1) /\ s[i] = Tail(s)[i - 1])
  OBVIOUS
<1>3. Range(s) = {Head(s)} \cup Range(Tail(s))
  <2>1. ASSUME NEW i \in 1..Len(s)
        PROVE  s[i] \in {Head(s)} \cup Range(Tail(s))
    BY <1>1, <1>2 DEF Range
  <2>2. ASSUME NEW i \in 1..(Len(s) - 1)
        PROVE  Tail(s)[i] \in Range(s)
    <3>1. i + 1 \in 1..Len(s)
      OBVIOUS
    <3> QED
      BY DEF Range
  <2>3. Head(s) \in Range(s)
    BY DEF Range
  <2> QED
    BY <2>1 DEF Range
<1>4. IsInjective(s) => IsInjective(Tail(s)) /\ Head(s) \notin Range(Tail(s))
  BY DEF Range, IsInjective
<1> QED
  BY <1>3, <1>4

LEMMA ConcatFacts ==
  ASSUME NEW S, NEW a \in Seq(S), NEW b \in Seq(S)
  PROVE  /\ a \o b \in Seq(S)
         /\ Len(a \o b) = Len(a) + Len(b)
         /\ \A j \in 1..(Len(a) + Len(b)) :
               (a \o b)[j] = IF j <= Len(a) THEN a[j] ELSE b[j - Len(a)]
OBVIOUS

LEMMA RemoveFacts ==
  ASSUME NEW S, NEW s \in Seq(S), NEW i \in DOMAIN s
  PROVE  /\ RemoveAt(s, i) \in Seq(S)
         /\ Range(RemoveAt(s, i)) \subseteq Range(s)
         /\ Range(s) \ {s[i]} \subseteq Range(RemoveAt(s, i))
         /\ IsInjective(s) => IsInjective(RemoveAt(s, i)) /\ s[i] \notin Range(RemoveAt(s, i))
<1> DEFINE r == RemoveAt(s, i)
<1>1. /\ Len(s) \in Nat /\ DOMAIN s = 1..Len(s) /\ i \in 1..Len(s)
  OBVIOUS
<1>2. /\ SubSeq(s, 1, i - 1) \in Seq(S) /\ Len(SubSeq(s, 1, i - 1)) = i - 1
      /\ \A j \in 1..(i - 1) : SubSeq(s, 1, i - 1)[j] = s[j]
      /\ SubSeq(s, i + 1, Len(s)) \in Seq(S) /\ Len(SubSeq(s, i + 1, Len(s))) = Len(s) - i
      /\ \A j \in 1..(Len(s) - i) : SubSeq(s, i + 1, Len(s))[j] = s[i + j]
  OBVIOUS
<1>3. /\ r \in Seq(S) /\ DOMAIN r = 1..(Len(s) - 1)
      /\ \A j \in 1..(Len(s) - 1) : r[j] = IF j < i THEN s[j] ELSE s[j + 1]
  <2>1. /\ r = SubSeq(s, 1, i - 1) \o SubSeq(s, i + 1, Len(s))
        /\ r \in Seq(S) /\ Len(r) = (i - 1) + (Len(s) - i)
        /\ \A j \in 1..((i - 1) + (Len(s) - i)) :
              r[j] = IF j <= i - 1 THEN SubSeq(s, 1, i - 1)[j]
                     ELSE SubSeq(s, i + 1, Len(s))[j - (i - 1)]
    <3> HIDE DEF r
    <3>1. r = SubSeq(s, 1, i - 1) \o SubSeq(s, i + 1, Len(s))
      BY DEF RemoveAt, r
    <3>2. PICK a \in Seq(S), b \in Seq(S) :
             a = SubSeq(s, 1, i - 1) /\ b = SubSeq(s, i + 1, Len(s))
      BY <1>2
    <3>3. /\ a \o b \in Seq(S)
          /\ Len(a \o b) = Len(a) + Len(b)
          /\ \A j \in 1..(Len(a) + Len(b)) :
                (a \o b)[j] = IF j <= Len(a) THEN a[j] ELSE b[j - Len(a)]
      OBVIOUS
    <3>4. r = a \o b /\ Len(a) = i - 1 /\ Len(b) = Len(s) - i
      BY <3>1, <3>2
    <3> QED
      BY <3>2, <3>3, <3>4
  <2> HIDE DEF r
  <2>3. (i - 1) + (Len(s) - i) = Len(s) - 1
    OBVIOUS
  <2>2. ASSUME NEW j \in 1..(Len(s) - 1)
        PROVE  r[j] = IF j < i THEN s[j] ELSE s[j + 1]
    <3>1. r[j] = IF j <= i - 1 THEN SubSeq(s, 1, i - 1)[j]
                 ELSE SubSeq(s, i + 1, Len(s))[j - (i - 1)]
      BY <2>1, <2>3
    <3>2. CASE j < i
      <4>1. j <= i - 1 /\ j \in 1..(i - 1)
        BY <3>2
      <4> QED
        BY <3>1
    <3>3. CASE ~(j < i)
      <4>1. /\ ~(j <= i - 1) /\ j - (i - 1) \in 1..(Len(s) - i)
            /\ i + (j - (i - 1)) = j + 1
        BY <3>3
      <4> QED
        BY <3>1
    <3> QED
      BY <3>2, <3>3
  <2>4. DOMAIN r = 1..Len(r)
    OBVIOUS
  <2> QED
    BY SMTT(30), <2>1, <2>2, <2>4
<1> HIDE DEF r
<1>4. Range(r) \subseteq Range(s)
  <2>1. \A j \in 1..(Len(s) - 1) : j \in 1..Len(s) /\ j + 1 \in 1..Len(s)
    OBVIOUS
  <2> QED
    BY <1>3 DEF Range
<1>5. Range(s) \ {s[i]} \subseteq Range(r)
  <2>1. SUFFICES ASSUME NEW j \in 1..Len(s), j # i
                 PROVE  s[j] \in Range(r)
    BY DEF Range
  <2>2. CASE j < i
    BY <1>3, <2>2 DEF Range
  <2>3. CASE j > i
    <3>1. j - 1 \in 1..(Len(s) - 1) /\ r[j - 1] = s[j]
      BY <1>3, <2>3
    <3> QED
      BY <1>3, <3>1 DEF Range
  <2> QED
    BY <2>1, <2>2, <2>3
<1>6. ASSUME IsInjective(s)
      PROVE  IsInjective(r) /\ s[i] \notin Range(r)
  <2>1. \A a, b \in 1..Len(s) : s[a] = s[b] => a = b
    BY <1>6 DEF IsInjective
  <2>2. ASSUME NEW a \in 1..(Len(s) - 1), NEW b \in 1..(Len(s) - 1), r[a] = r[b]
        PROVE  a = b
    <3>1. /\ a \in 1..Len(s) /\ a + 1 \in 1..Len(s) /\ b \in 1..Len(s) /\ b + 1 \in 1..Len(s)
      OBVIOUS
    <3>2. (IF a < i THEN a ELSE a + 1) = (IF b < i THEN b ELSE b + 1)
      BY <1>3, <2>1, <2>2, <3>1
    <3> QED
      BY <3>2
  <2>3. ASSUME NEW a \in 1..(Len(s) - 1), r[a] = s[i]
        PROVE  FALSE
    <3>1. a \in 1..Len(s) /\ a + 1 \in 1..Len(s)
      OBVIOUS
    <3>2. (IF a < i THEN a ELSE a + 1) = i
      BY <1>1, <1>3, <2>1, <2>3
    <3> QED
      BY <3>2
  <2> QED
    BY <1>3, <2>2, <2>3 DEF IsInjective, Range
<1> QED
  BY <1>3, <1>4, <1>5, <1>6 DEF r

LEMMA ErasedFacts ==
  ASSUME mRegisteredProcessors \in Seq(Nodes), NEW n \in Listed
  PROVE  LET Left == {Erased(n)[i] : i \in DOMAIN Erased(n)}
         IN  /\ Erased(n) \in Seq(Nodes)
             /\ Left \subseteq Listed /\ Listed \ {n} \subseteq Left
             /\ IsInjective(mRegisteredProcessors) => IsInjective(Erased(n)) /\ n \notin Left
<1> DEFINE i == CHOOSE i \in DOMAIN mRegisteredProcessors : mRegisteredProcessors[i] = n
<1>1. i \in DOMAIN mRegisteredProcessors /\ mRegisteredProcessors[i] = n
  BY DEF Listed
<1>2. Erased(n) = RemoveAt(mRegisteredProcessors, i)
  BY DEF Erased
<1> HIDE DEF i
<1>3. LET e == RemoveAt(mRegisteredProcessors, i)
      IN  /\ e \in Seq(Nodes)
          /\ Range(e) \subseteq Range(mRegisteredProcessors)
          /\ Range(mRegisteredProcessors) \ {n} \subseteq Range(e)
          /\ IsInjective(mRegisteredProcessors) => IsInjective(e) /\ n \notin Range(e)
  BY <1>1, RemoveFacts
<1> QED
  BY <1>2, <1>3 DEF Listed, Range

-----------------------------------------------------------------------------
(* One step in the life of a processor.                                    *)

LEMMA LifeSteps ==
  ASSUME NEW l \in PL!Lives
  PROVE  /\ \A k \in PL!InitializeCalled(l) :
               l.stage = "off" /\ k = [l EXCEPT !.stage = "initializing"]
         /\ \A k \in PL!DestroyCalled(l) :
               l.stage = "registered" /\ k = [l EXCEPT !.stage = "destroying"]
         /\ \A k \in PL!DestroyCalledLate(l) :
               l.stage \in {"destroyed", "off"} /\ k = [l EXCEPT !.stage = "lost"]
         /\ \A k \in PL!Updated(l) :
               /\ k.context = l.context /\ k.failed = l.failed
               /\ k.stage = "off" => k.registered = l.registered
               /\ \/ l.stage = "destroyed" /\ k.stage = "off"
                  \/ l.stage = "initialized" /\ l.failed /\ k.stage = "off"
                  \/ l.stage = "initialized" /\ ~l.failed /\ k.stage = "registered"
         /\ \A k \in PL!Deleted(l) : \A j \in PL!Swept(k) :
               /\ l.stage \in {"off", "initialized", "registered", "destroyed"}
               /\ j.stage = "deleted" /\ j.context = "null"
         /\ \A k \in PL!Worked(l) :
               \/ /\ l.stage = "initializing" /\ k.stage = "made"
                  /\ k.registered = l.registered
                  /\ \/ k.context = "live" /\ k.failed = l.failed
                     \/ k.context \in {l.context, "null"} /\ k.failed
               \/ l.stage = "made" /\ k = [l EXCEPT !.stage = "initialized"]
               \/ l.stage = "destroying" /\ k.stage = "freed" /\ k.context = "null" /\ ~k.failed
                  /\ ~k.registered
               \/ l.stage = "freed" /\ k = [l EXCEPT !.stage = "destroyed"]
<1>1. \A k \in PL!InitializeCalled(l) :
        l.stage = "off" /\ k = [l EXCEPT !.stage = "initializing"]
  BY DEF PL!InitializeCalled, PL!At, PL!To
<1>2. \A k \in PL!DestroyCalled(l) :
        l.stage = "registered" /\ k = [l EXCEPT !.stage = "destroying"]
  BY DEF PL!DestroyCalled, PL!At, PL!To
<1>6. \A k \in PL!DestroyCalledLate(l) :
        l.stage \in {"destroyed", "off"} /\ k = [l EXCEPT !.stage = "lost"]
  BY DEF PL!DestroyCalledLate, PL!To
<1>3. \A k \in PL!Updated(l) :
        /\ k.context = l.context /\ k.failed = l.failed
        /\ k.stage = "off" => k.registered = l.registered
        /\ \/ l.stage = "destroyed" /\ k.stage = "off"
           \/ l.stage = "initialized" /\ l.failed /\ k.stage = "off"
           \/ l.stage = "initialized" /\ ~l.failed /\ k.stage = "registered"
  BY DEF PL!Updated, PL!At, PL!To, PL!Lives
<1>4. \A k \in PL!Deleted(l) : \A j \in PL!Swept(k) :
        /\ l.stage \in {"off", "initialized", "registered", "destroyed"}
        /\ j.stage = "deleted" /\ j.context = "null"
  BY DEF PL!Deleted, PL!Swept, PL!Settled, PL!To, PL!Lives
<1>5. ASSUME NEW k \in PL!Worked(l)
      PROVE  \/ /\ l.stage = "initializing" /\ k.stage = "made"
                /\ k.registered = l.registered
                /\ \/ k.context = "live" /\ k.failed = l.failed
                   \/ k.context \in {l.context, "null"} /\ k.failed
             \/ l.stage = "made" /\ k = [l EXCEPT !.stage = "initialized"]
             \/ l.stage = "destroying" /\ k.stage = "freed" /\ k.context = "null" /\ ~k.failed
                /\ ~k.registered
             \/ l.stage = "freed" /\ k = [l EXCEPT !.stage = "destroyed"]
  <2>1. CASE k \in PL!ContextMade(l)
    BY <2>1 DEF PL!ContextMade, PL!At, PL!To, PL!Lives
  <2>2. CASE k \in PL!ContextRefused(l)
    BY <2>2 DEF PL!ContextRefused, PL!At
  <2>3. CASE k \in PL!ContextFreed(l)
    BY <2>3 DEF PL!ContextFreed, PL!At
  <2>4. CASE k \in PL!SignalDropped(l)
    BY <2>4 DEF PL!SignalDropped, PL!At, PL!To
  <2> QED
    BY <2>1, <2>2, <2>3, <2>4 DEF PL!Worked
<1> QED
  BY <1>1, <1>2, <1>3, <1>4, <1>5, <1>6

LEMMA LifeTypes ==
  ASSUME NEW l \in PL!Lives
  PROVE  /\ PL!InitializeCalled(l) \cup PL!DestroyCalled(l) \cup PL!DestroyCalledLate(l)
               \cup PL!Updated(l) \cup PL!Worked(l) \subseteq PL!Lives
         /\ \A k \in PL!Deleted(l) : PL!Swept(k) \subseteq PL!Lives
<1>1. PL!InitializeCalled(l) \cup PL!DestroyCalled(l) \cup PL!DestroyCalledLate(l)
        \cup PL!Updated(l) \subseteq PL!Lives
  BY ZenonT(60) DEF PL!InitializeCalled, PL!DestroyCalled, PL!DestroyCalledLate, PL!Updated, PL!To,
     PL!Lives, PL!Stages
<1>2. PL!Worked(l) \subseteq PL!Lives
  <2>1. PL!ContextMade(l) \subseteq PL!Lives
    BY DEF PL!ContextMade, PL!To, PL!Lives, PL!Stages
  <2>4. [stage |-> "freed", registered |-> FALSE, failed |-> FALSE, context |-> "null"] \in PL!Lives
    BY DEF PL!Lives, PL!Stages
  <2>2. ASSUME PL!At(l, "initializing"), NEW c \in {l.context, "null"}
        PROVE  [stage |-> "made", registered |-> l.registered, failed |-> TRUE, context |-> c]
                 \in PL!Lives
    BY DEF PL!Lives, PL!Stages
  <2>3. PL!SignalDropped(l) \subseteq PL!Lives
    BY DEF PL!SignalDropped, PL!To, PL!Lives, PL!Stages
  <2> QED
    BY <2>1, <2>2, <2>3, <2>4 DEF PL!Worked, PL!ContextRefused, PL!ContextFreed
<1>3. \A k \in PL!Deleted(l) : PL!Swept(k) \subseteq PL!Lives
  BY DEF PL!Deleted, PL!Swept, PL!To, PL!Lives, PL!Stages
<1> QED
  BY <1>1, <1>2, <1>3

-----------------------------------------------------------------------------
(* The steps that leave the processors and the list alone.                 *)

Counted == rest \in {"none", "lock register", "lock unregister", "lock update", "update", "unlock"}
Leaving == rest \in {"destroy", "delete", "lock delete", "deleting", "destruct"}
Destroying(t) == phase[t] = "job" /\ at[t] = "destroy" /\ mProcessorListMutex = "worker"

\* The destroy() calls in progress stay where they are, or one of them goes on.
AskedStepped ==
    \/ UNCHANGED destroyVars
    \/ UNCHANGED <<toDestroy, awaited>> /\ asked' = [asked EXCEPT !["owner"] = Nobody]
    \/ /\ UNCHANGED toDestroy
       /\ asked["worker"] # Nobody /\ awaited' = asked["worker"]
       /\ asked' = [asked EXCEPT !["worker"] = Nobody]

LEMMA AskedFacts ==
  ASSUME IInv, AskedStepped
  PROVE  /\ \A who \in {"owner", "worker"} : asked'[who] \in {asked[who], Nobody}
         /\ \A p \in Processors : awaited = p => awaited' = p
         /\ \A p \in Processors : asked'["worker"] = p => awaited' = awaited
         /\ \A n \in Nodes : \A p \in Processors : Expected(n, p) => Expected(n, p)'
<1>1. /\ asked \in [{"owner", "worker"} -> Processors \cup {Nobody}]
      /\ awaited \in Processors \cup {Nobody}
      /\ \A p \in Processors : asked["worker"] = p => awaited = Nobody
  BY DEF IInv, TypeOK, AskedInv
<1>2. CASE UNCHANGED destroyVars
  BY <1>2 DEF destroyVars, Expected
<1>3. CASE UNCHANGED <<toDestroy, awaited>> /\ asked' = [asked EXCEPT !["owner"] = Nobody]
  BY <1>1, <1>3 DEF Expected
<1>4. CASE /\ UNCHANGED toDestroy
           /\ asked["worker"] # Nobody /\ awaited' = asked["worker"]
           /\ asked' = [asked EXCEPT !["worker"] = Nobody]
  BY <1>1, <1>4, NobodyAssumption DEF Expected
<1> QED
  BY <1>2, <1>3, <1>4 DEF AskedStepped

LEMMA AskedHolds ==
  ASSUME IInv, UNCHANGED <<lives, asked, awaited>>,
         mSignal'["destroy"] = mSignal["destroy"],
         mSignalState'["destroy"] => mSignalState["destroy"],
         mIsInitialized' = mIsInitialized,
         rest' \in {"lock destroyed", "destroyed"} => rest \in {"lock destroyed", "destroyed"}
  PROVE  AskedInv'
BY DEF IInv, AskedInv, Stage

LEMMA ListedNodes == TypeOK => Listed \subseteq Nodes
BY DEF TypeOK, Listed

LEMMA NothingAdded == 0 = 0 + 0
OBVIOUS

LEMMA SameList == UNCHANGED listVars => Units' = Units /\ Listed' = Listed
BY DEF listVars, Units, Listed

LEMMA NoUnits == mRegisteredProcessors = <<>> => Listed = {} /\ Units = {} /\ Cardinality(Units) = 0
BY FS_EmptySet DEF Units, Listed

\* The owner goes on, a signal falls, or rises while nothing is being registered.
LEMMA AsideHolds ==
  ASSUME IInv, Machine', TypeOK', UNCHANGED <<listVars, lifeVars>>,
         mIsInitialized => mIsInitialized',
         \A p \in Processors : lives[p].context = "live" => mModel' = "live",
         mSignal'["destroy"] =>
             \/ mSignal["destroy"]
             \/ ~Registering /\ rest' \notin Undestroyed /\ asked["owner"] = Nobody,
         mSignalState'["destroy"] => mSignalState["destroy"],
         mSignal["destroy"] \/ mSignalState["destroy"] =>
             mSignal'["destroy"] \/ mSignalState'["destroy"] \/ ~Counted',
         mSignal["destroy"] => mSignal'["destroy"] \/ mSignalState["destroy"],
         \/ rest' = rest /\ walk' = walk
         \/ /\ rest # "lock register"
            /\ rest' \notin {"lock register", "destroy", "update", "destroyed", "deleting"}
            /\ Counted' => Counted \/ mSignal'["destroy"]
            /\ Leaving' => Leaving \/ ~Registering
            /\ rest' = "lock destroyed" =>
                  mSignalState["destroy"] /\ ~mSignal["destroy"] /\ asked["owner"] = Nobody
            /\ rest' \in Undestroyed => ~mSignal["destroy"]
            /\ rest' = "lock update" => ~mSignal["destroy"] /\ ~mSignalState["destroy"],
         rest' \in {"lock register", "lock unregister"} =>
             serving' \in Processors /\ (rest' = rest => serving' = serving),
         \A t \in Threads : Destroying(t)' => Destroying(t), AskedStepped
  PROVE  IInv'
<1>1. \A p \in Processors : \A stages : Stage(p, stages)' <=> Stage(p, stages)
  BY DEF Stage, lifeVars
<1>2. UNCHANGED <<Units, Listed>> /\ (mRegisteredProcessors = <<>> => Cardinality(Units) = 0)
  BY SameList, NoUnits
<1>3. LifeInv'
  BY <1>1 DEF IInv, LifeInv, lifeVars, Registered
<1>4. WatcherInv'
  BY <1>1, <1>2, AskedFacts DEF IInv, WatcherInv, listVars, On, Listing, destroyVars
<1>5. ListInv'
  BY <1>2 DEF IInv, ListInv, listVars
<1>6. RegisterInv'
  BY <1>1, <1>2 DEF IInv, RegisterInv, listVars
<1>7. DestroyInv'
  BY <1>1 DEF IInv, DestroyInv, listVars, Registering, Destroyed, On, Leaving, Undestroyed
<1>10. Listed \subseteq Nodes
  BY ListedNodes DEF IInv
<1>8. WalkInv'
  <2>1. ASSUME NEW t \in Threads, Destroying(t)', NEW n \in Listed, NEW p \in Processors,
               watcher[n].mSubject = p, Awaited(p)
        PROVE  Expected(n, p)'
    <3>1. Destroying(t)
      BY <2>1
    <3>2. Expected(n, p)
      BY <2>1, <3>1 DEF IInv, WalkInv, Destroying
    <3> QED
      BY <1>10, <3>2, AskedFacts
  <2>2. \A p \in Processors : Awaited(p)' <=> Awaited(p)
    BY <1>1 DEF Awaited
  <2>3. rest' \in {"destroyed", "deleting"} =>
          \A n \in Listed : watcher[n].mSubject # Nobody => n \in Range(walk')
    BY DEF IInv, WalkInv
  <2> QED
    BY <1>2, <2>1, <2>2, <2>3 DEF WalkInv, Destroying, listVars
<1>11. AskedInv'
  BY <1>1, AskedFacts, NobodyAssumption DEF IInv, AskedInv
<1>9. CountInv'
  <2>1. rest' = "lock register" => rest = "lock register" /\ serving' = serving /\ mIsInitialized
    BY DEF IInv, RegisterInv
  <2>2. ASSUME Counted', mIsInitialized', ~mSignal'["destroy"], ~mSignalState'["destroy"]
        PROVE  mOccupiedContext = Cardinality(Units)
                   + (IF rest' = "lock register" THEN ContextLength[serving'] ELSE 0)
    <3>1. CASE mIsInitialized
      <4>1. Counted /\ ~mSignal["destroy"] /\ ~mSignalState["destroy"]
        BY <2>2 DEF Counted
      <4>2. rest' # "lock register" => rest # "lock register"
        OBVIOUS
      <4> QED
        BY <3>1, <4>1 DEF IInv, CountInv, Counted
    <3>2. CASE ~mIsInitialized
      <4>1. mOccupiedContext = 0 /\ Cardinality(Units) = 0 /\ rest' # "lock register"
        BY <1>2, <2>1, <3>2 DEF IInv, DestroyInv, Undestroyed
      <4>2. (IF rest' = "lock register" THEN ContextLength[serving'] ELSE 0) = 0
        BY <4>1
      <4> QED
        BY <4>1, NothingAdded
    <3> QED
      BY <3>1, <3>2
  <2> QED
    BY <1>2, <2>2 DEF IInv, CountInv, listVars, Counted
<1> QED
  BY <1>3, <1>4, <1>5, <1>6, <1>7, <1>8, <1>9, <1>11 DEF IInv

LEMMA SignalSteps ==
  ASSUME Machine, NEW s \in Signals, LP!SetSignal(s)
  PROVE  /\ mSignal'["destroy"] <=> mSignal["destroy"] \/ s = "destroy"
         /\ UNCHANGED <<mSignalState, phase, at>>
BY DEF Machine, LP!TypeOK, LP!SetSignal, LP!threadVars

LEMMA OwnerSteps ==
  ASSUME Machine, LP!OwnerStep
  PROVE  /\ UNCHANGED <<mSignal, mSignalState, at>>
         /\ \A t \in Threads : phase'[t] = "job" => phase[t] = "job"
<1> USE DEF LP!signalVars, LP!threadVars
<1>1. CASE LP!StartRun
  BY <1>1 DEF LP!StartRun
<1>2. CASE ~LP!StartRun
  BY <1>2 DEF LP!OwnerStep, LP!StartFindsRunning, LP!StartFindsStopped, LP!StartJoin,
     LP!StartRunFails, LP!StopJoin
<1> QED
  BY <1>1, <1>2

\* Only other signals and the threads change.
LEMMA HostHolds ==
  ASSUME IInv, Machine', TypeOK',
         UNCHANGED <<modelVars, listVars, mProcessorListMutex, lifeVars, hostVars, destroyVars>>,
         mSignal'["destroy"] = mSignal["destroy"], UNCHANGED <<mSignalState, at>>,
         \A t \in Threads : phase'[t] = "job" => phase[t] = "job"
  PROVE  IInv'
<1>1. \A p \in Processors : lives[p].context = "live" => mModel = "live"
  BY DEF IInv, LifeInv, Registered
<1>2. rest \in {"lock register", "lock unregister"} => serving \in Processors
  BY DEF IInv, RegisterInv
<1> QED
  BY <1>1, <1>2, AsideHolds DEF modelVars, hostVars, Destroying, AskedStepped

LEMMA ApplicationAside ==
  ASSUME IInv, Machine', Uses \subseteq Orderly,
         start_lora_operation \/ Delete \/ LeaveCallback \/ ProcessorStep \/
           (\E p \in Processors : unregister(p))
  PROVE  IInv'
<1>1. TypeOK'
  BY ZenonT(60) DEF IInv, Machine, TypeOK, start_lora_operation, Delete, LeaveCallback,
     ProcessorStep,
     unregister, modelVars, listVars, lifeVars, hostVars, Places, Rests, destroyVars
<1>2. CASE start_lora_operation
  <2>1. /\ mSignal'["destroy"] = mSignal["destroy"] /\ UNCHANGED <<mSignalState, phase, at>>
        /\ UNCHANGED <<modelVars, listVars, mProcessorListMutex, lifeVars, hostVars, destroyVars>>
    <3>1. LP!SetSignal("lora") /\ "lora" \in Signals /\ Machine
      BY <1>2 DEF IInv, start_lora_operation, Signals
    <3>2. mSignal'["destroy"] \in BOOLEAN /\ mSignal["destroy"] \in BOOLEAN
      BY DEF IInv, Machine, LP!TypeOK, Signals
    <3> QED
      BY <1>2, <3>1, <3>2, SignalSteps DEF start_lora_operation
  <2> QED
    BY <1>1, <2>1, HostHolds
<1>3. CASE Delete
  <2>1. ~Registering
    BY <1>3 DEF Delete, Calling, Orderly
  <2> QED
    BY <1>1, <1>3, <2>1, AsideHolds DEF Delete, LP!CallStop, LP!signalVars, LP!threadVars, IInv,
       modelVars, Destroying, AskedStepped, LifeInv, Counted, Undestroyed
<1>4. CASE LeaveCallback
  BY <1>1, <1>4, AsideHolds DEF LeaveCallback, processorVars, IInv, modelVars, Destroying,
     AskedStepped, LifeInv, Counted, Leaving, Undestroyed
<1>5. CASE ProcessorStep
  <2>1. /\ UNCHANGED <<mSignal, mSignalState, at>>
        /\ UNCHANGED <<modelVars, listVars, mProcessorListMutex, lifeVars, hostVars, destroyVars>>
        /\ \A t \in Threads : phase'[t] = "job" => phase[t] = "job"
    BY <1>5, OwnerSteps DEF IInv, ProcessorStep
  <2> QED
    BY <1>1, <2>1, HostHolds
<1>6. ASSUME NEW p \in Processors, unregister(p)
      PROVE  IInv'
  BY <1>1, <1>6, AsideHolds DEF unregister, Usable, processorVars, IInv, modelVars, Destroying,
     AskedStepped, LifeInv, Counted, Leaving, Undestroyed
<1> QED
  BY <1>2, <1>3, <1>4, <1>5, <1>6

LEMMA UpdateAside ==
  ASSUME IInv, Machine', asked["owner"] = Nobody,
         UpdateCall \/ UpdateEnds \/ DestroySignalled \/ DeleteStopped
  PROVE  IInv'
<1>1. TypeOK'
  BY ZenonT(60) DEF IInv, Machine, TypeOK, UpdateCall, UpdateDestroyed, UpdateInitialized,
     UpdateLora,
     UpdateProcessors, UpdateEnds, DestroySignalled, DeleteStopped, modelVars, listVars, lifeVars,
     Places, Rests, destroyVars
<1>2. CASE UpdateDestroyed
  BY <1>1, <1>2, AsideHolds DEF UpdateDestroyed, Update, LP!ResetSignals, LP!threadVars, IInv,
     modelVars, Destroying, AskedStepped, LifeInv, Counted, Leaving, Signals, Registered
<1>3. CASE UpdateInitialized
  BY <1>1, <1>3, AsideHolds DEF UpdateInitialized, Update, LP!ResetSignals, LP!threadVars, IInv,
     Destroying, AskedStepped, LifeInv, Signals, Registered
<1>4. CASE UpdateLora
  BY <1>1, <1>4, AsideHolds DEF UpdateLora, Update, LP!ResetSignals, LP!threadVars, IInv,
     modelVars, Destroying, AskedStepped, LifeInv, Signals, Registered
<1>5. CASE UpdateProcessors
  BY <1>1, <1>5, AsideHolds DEF UpdateProcessors, Update, processorVars, IInv, modelVars,
     Destroying, AskedStepped, LifeInv, Counted, Leaving, Signals, Registered
<1>6. CASE UpdateEnds
  BY <1>1, <1>6, AsideHolds DEF UpdateEnds, processorVars, IInv, modelVars, Destroying,
     AskedStepped, LifeInv, Counted, Leaving, Undestroyed
<1>7. CASE DestroySignalled
  <2>1. /\ mSignal'["destroy"] /\ UNCHANGED <<mSignalState, phase, at>> /\ ~Registering
        /\ rest = "destroy" /\ rest' = "none" /\ serving' = serving /\ walk' = walk
        /\ UNCHANGED <<modelVars, listVars, mProcessorListMutex, lifeVars, destroyVars>>
        /\ \A p \in Processors : lives[p].context = "live" => mModel = "live"
    BY <1>7, SignalSteps DEF DestroySignalled, IInv, DestroyInv, LifeInv, Signals, Registered,
       Undestroyed
  <2> QED
    BY <1>1, <2>1, AsideHolds DEF modelVars, Destroying, AskedStepped, Undestroyed
<1>8. CASE DeleteStopped
  BY <1>1, <1>8, AsideHolds DEF DeleteStopped, LP!CallStop, LP!signalVars, LP!threadVars,
     processorVars, IInv, modelVars, Destroying, AskedStepped, LifeInv, Counted, Leaving,
     Undestroyed
<1> QED
  BY <1>2, <1>3, <1>4, <1>5, <1>6, <1>7, <1>8 DEF UpdateCall

\* A step of the worker, if it raises no completion of a destroy
WorkStep(t) ==
    /\ UNCHANGED <<listVars, lifeVars, hostVars>>
    /\ mIsInitialized => mIsInitialized'
    /\ mModel' = mModel \/ mModel' = "live" \/ ~mIsInitialized
    /\ mSignal'["destroy"] => mSignal["destroy"]
    /\ mSignal["destroy"] /\ ~mSignal'["destroy"] => mSignalState["destroy"]
    /\ mSignalState'["destroy"] = mSignalState["destroy"]
    /\ \A u \in Threads : u # t => phase'[u] = phase[u] /\ at'[u] = at[u]
    /\ phase'[t] = "job" /\ at'[t] = "destroy" =>
          \/ phase[t] = "job" /\ at[t] = "destroy"
          \/ mProcessorListMutex # "worker"
    /\ UNCHANGED destroyVars
    /\ UNCHANGED mProcessorListMutex \/ mProcessorListMutex' = "free"

LEMMA WorkStepHolds ==
  ASSUME IInv, Machine', TypeOK', NEW t \in Threads, WorkStep(t)
  PROVE  IInv'
<1>1. (\A u \in Threads : Destroying(u)' => Destroying(u)) /\ AskedStepped
  BY DEF WorkStep, Destroying, AskedStepped
<1>2. rest' \in {"lock register", "lock unregister"} => serving' \in Processors
  BY DEF WorkStep, IInv, RegisterInv, hostVars
<1>3. \A p \in Processors : lives[p].context = "live" => mModel' = "live"
  BY DEF WorkStep, IInv, LifeInv, DestroyInv, On, Stage, Registered, Undestroyed
<1> QED
  BY <1>1, <1>2, <1>3, AsideHolds DEF WorkStep, hostVars

LEMMA WorkerAside ==
  ASSUME IInv, Machine', NEW t \in Threads,
         \/ Enter(t) \/ \E s \in Signals : Look(t, s)
         \/ InitializeModel(t) \/ InitializeFinished(t) \/ LoraOperate(t)
         \/ FinishSignal(t) \/ WriteInitFailed \/ WorkerUnlocks(t) \/ Return(t) \/ Exit(t)
  PROVE  IInv'
<1>1. TypeOK'
  BY DEF IInv, Machine, TypeOK, Enter, Look, InitializeModel, InitializeFinished, LoraOperate,
     FinishSignal, WriteInitFailed, WorkerUnlocks, Return, Exit, modelVars, listVars, lifeVars,
     hostVars, destroyVars
<1>2. /\ phase \in [Threads -> LP!Phases] /\ at \in [Threads -> Signals \cup {NoSignal}]
      /\ mSignal \in [Signals -> BOOLEAN] /\ mSignalState \in [Signals -> BOOLEAN]
      /\ \A u \in Threads : /\ phase[u] \in {"job", "finish"} => at[u] \in Signals
                            /\ phase[u] = "finish" => mSignalState[at[u]]
  BY DEF IInv, Machine, LP!TypeOK
<1> USE DEF modelVars, LP!signalVars, LP!threadVars, WorkStep
<1>3. Enter(t) \/ Return(t) \/ Exit(t) => WorkStep(t)
  BY <1>2 DEF Enter, LP!Enter, Return, LP!Return, Exit, LP!Exit
<1>4. \A s \in Signals : Look(t, s) => WorkStep(t)
  BY <1>2 DEF Look, LP!Look
<1>5. InitializeModel(t) => WorkStep(t)
  BY DEF InitializeModel, processorVars
<1>6. InitializeFinished(t) => WorkStep(t)
  BY DEF InitializeFinished, LP!FinishState
<1>7. LoraOperate(t) => WorkStep(t)
  BY DEF LoraOperate, LP!FinishState
<1>8. FinishSignal(t) => WorkStep(t)
  BY <1>2 DEF FinishSignal, LP!FinishSignal
<1>9. WriteInitFailed \/ WorkerUnlocks(t) => WorkStep(t)
  BY DEF WriteInitFailed, WorkerUnlocks, processorVars
<1> HIDE DEF WorkStep
<1> QED
  BY <1>1, <1>3, <1>4, <1>5, <1>6, <1>7, <1>8, <1>9, WorkStepHolds

-----------------------------------------------------------------------------
(* The steps of one processor.                                             *)

\* What holds of a processor's life alone
Sound(l) ==
    /\ l.stage \in {"off", "initializing", "freed", "destroyed", "lost", "deleted"} =>
          l.context = "null"
    /\ l.registered => l.stage \in {"registered", "destroying", "deleted"}
    /\ l.stage \in {"registered", "destroying"} => l.context = "live"
    /\ l.stage = "initializing" => ~l.failed
    /\ l.stage \in {"made", "initialized"} => (l.failed <=> l.context = "null")

\* Nothing but the processors changes; the owner may have gone on in its walk.
ProcessorStepped ==
    /\ UNCHANGED <<mSignal, mSignalState, mIsInitialized, mModel, mOccupiedContext,
                   mRegisteredProcessors, mTargetWatcher>>
    /\ UNCHANGED <<rest, serving>>
    /\ \/ walk' = walk
       \/ rest \in {"destroy", "update"} /\ walk # <<>> /\ walk' = Tail(walk)
       \/ rest \in {"destroyed", "deleting"} /\ walk # <<>> /\ walk' = Tail(walk)
            /\ watcher'[Head(walk)].mSubject = Nobody
    /\ \A t \in Threads : Destroying(t)' => Destroying(t)
    /\ AskedStepped

WalkStepped ==
    walk # <<>> =>
        /\ Head(walk) \in Nodes
        /\ Range(walk) = {Head(walk)} \cup Range(Tail(walk))
        /\ IsInjective(walk) => IsInjective(Tail(walk)) /\ Head(walk) \notin Range(Tail(walk))

LEMMA StepsOn == walk \in Seq(Nodes) => WalkStepped
BY TailFacts DEF WalkStepped

LEMMA SameUnits ==
  ASSUME UNCHANGED mRegisteredProcessors,
         \A n \in Listed : watcher'[n].mContextLength = watcher[n].mContextLength
  PROVE  Units' = Units
BY DEF Units, Listed

\* Its context comes or goes, and it stays in the list.
Turns(p, l) ==
    /\ Live(p, l)
    /\ UNCHANGED watcher
    /\ stranded' \subseteq stranded \cup {p}
    /\ Sound(l)
    /\ l.context = "live" => mModel = "live"
    /\ p \in stranded' => l.stage \in {"initializing", "destroying"}
    /\ On(p) /\ ~Stage(p, {"destroyed", "lost"}) /\ l.stage \notin {"off", "lost", "deleted"}
    /\ l.stage \in {"initializing", "made", "initialized"} =>
          Stage(p, {"initializing", "made", "initialized"})
    /\ l.stage \in {"registered", "destroying", "freed", "destroyed"} =>
          Awaited(p) \/ (Registering /\ ~Listing(p))

LEMMA TurnHolds ==
  ASSUME IInv, Machine', TypeOK', ProcessorStepped, NEW p \in Processors, NEW l \in PL!Lives,
         Turns(p, l)
  PROVE  IInv'
<1> USE DEF Turns
<1>1. /\ lives'[p] = l /\ \A q \in Processors : q # p => lives'[q] = lives[q]
      /\ lives \in [Processors -> PL!Lives]
  BY DEF IInv, TypeOK, Live
<1>2. Listed' = Listed /\ Units' = Units
  BY SameUnits DEF ProcessorStepped, Listed
<1>0. WalkStepped
  BY StepsOn DEF IInv, TypeOK
<1>3. LifeInv'
  BY <1>1 DEF IInv, LifeInv, Stage, Sound, Registered, ProcessorStepped
<1>4. WatcherInv'
  BY <1>1, <1>2, AskedFacts, ZenonT(60)
     DEF IInv, WatcherInv, Stage, On, Listing, ProcessorStepped, Awaited
<1>5. ListInv'
  BY <1>0, <1>2 DEF IInv, ListInv, ProcessorStepped, WalkStepped
<1>6. RegisterInv'
  <2>1. l.stage \in PL!Stages
    BY DEF PL!Lives
  <2>2. Listing(p) => l.stage \in {"initializing", "made", "initialized"}
    BY <2>1 DEF IInv, RegisterInv, Listing, Stage, Awaited, PL!Stages
  <2> QED
    BY <1>1, <1>2, <2>2 DEF IInv, RegisterInv, Stage, ProcessorStepped, Listing
<1>7. DestroyInv'
  BY <1>1 DEF IInv, DestroyInv, Stage, On, Destroyed, Registering, ProcessorStepped, Undestroyed
<1>8. WalkInv'
  <2>1. ASSUME NEW t \in Threads, Destroying(t)'
        PROVE  Destroying(t) /\ ~Registering
    BY <2>1 DEF IInv, Machine, DestroyInv, Destroying, ProcessorStepped, Undestroyed
  <2>2. ASSUME NEW t \in Threads, Destroying(t)', NEW n \in Listed, NEW q \in Processors,
               watcher[n].mSubject = q, Awaited(q)'
        PROVE  Expected(n, q)'
    <3>1. Awaited(q)
      BY <1>1, <2>1, <2>2 DEF Stage, Awaited
    <3>2. Expected(n, q)
      BY <2>1, <2>2, <3>1 DEF IInv, WalkInv, Destroying
    <3>3. AskedStepped /\ n \in Nodes
      BY DEF ProcessorStepped, IInv, TypeOK, Listed
    <3> QED
      BY <3>2, <3>3, AskedFacts
  <2>3. rest' \in {"destroyed", "deleting"} =>
          \A n \in Listed : watcher[n].mSubject # Nobody => n \in Range(walk')
    BY <1>0 DEF IInv, WalkInv, ProcessorStepped, WalkStepped, Expected, destroyVars
  <2> QED
    BY <1>2, <2>2, <2>3 DEF WalkInv, Destroying
<1>10. AskedInv'
  <2>1. \A q \in Processors : Stage(q, InDestroy) => Stage(q, InDestroy)'
    BY <1>1 DEF Stage, InDestroy, PL!Lives, PL!Stages
  <2>2. \A q \in Processors : Stage(q, {"off"}) => Stage(q, {"off"})'
    BY <1>1 DEF Stage, On
  <2> QED
    BY <2>1, <2>2, AskedFacts, NobodyAssumption DEF IInv, AskedInv, ProcessorStepped, Stage
<1>9. CountInv'
  BY <1>2 DEF IInv, CountInv, ProcessorStepped
<1> QED
  BY <1>3, <1>4, <1>5, <1>6, <1>7, <1>8, <1>9, <1>10 DEF IInv

\* It goes, and its node is released.
LEMMA LeaveHolds ==
  ASSUME IInv, Machine', TypeOK', ProcessorStepped, NEW p \in Processors, NEW l \in PL!Lives,
         lives' = [lives EXCEPT ![p] = l], watcher' = Released(p),
         stranded' = stranded, p \notin stranded,
         On(p), ~Stage(p, {"lost"}), ~Listing(p),
         l.stage \in {"off", "deleted"}, l.context = "null", l.stage = "off" => ~l.registered,
         asked["owner"] = Nobody, l.stage = "off" \/ ~mSignal["destroy"]
  PROVE  IInv'
<1>1. /\ lives'[p] = l /\ \A q \in Processors : q # p => lives'[q] = lives[q]
      /\ lives \in [Processors -> PL!Lives]
      /\ mTargetWatcher[p] \in Listed /\ Listed \subseteq Nodes
      /\ watcher[mTargetWatcher[p]].mSubject = p
  BY DEF IInv, TypeOK, WatcherInv, Listed
<1>2. /\ watcher'[mTargetWatcher[p]].mSubject = Nobody
      /\ \A n \in Nodes : n # mTargetWatcher[p] => watcher'[n] = watcher[n]
      /\ \A n \in Nodes : watcher'[n].mContextLength = watcher[n].mContextLength
  BY <1>1 DEF Released
<1>3. Listed' = Listed /\ Units' = Units
  BY ZenonT(60), <1>1, <1>2, SameUnits DEF ProcessorStepped, Listed
<1>0. WalkStepped
  BY StepsOn DEF IInv, TypeOK
<1>4. LifeInv'
  BY <1>1 DEF IInv, LifeInv, Stage, Registered, ProcessorStepped
<1>5. WatcherInv'
  <2>1. \A q \in Processors : q # p /\ On(q) /\ ~Listing(q) =>
          \/ mTargetWatcher[q] # mTargetWatcher[p]
          \/ Stage(q, {"lost"}) /\ awaited = q
    BY DEF IInv, WatcherInv
  <2>2. \A q \in Processors : On(q)' /\ ~Listing(q)' => q # p /\ On(q) /\ ~Listing(q)
    BY <1>1 DEF On, Stage, Listing, ProcessorStepped
  <2>3. \A q \in Processors : On(q)' /\ ~Listing(q)' =>
          \/ mTargetWatcher[q] \in Listed /\ watcher'[mTargetWatcher[q]].mSubject = q
          \/ Stage(q, {"lost"})' /\ awaited' = q
    BY <1>1, <1>2, <2>1, <2>2, AskedFacts DEF IInv, WatcherInv, Stage, ProcessorStepped
  <2>4. ASSUME NEW n \in Listed, NEW q \in Processors, watcher'[n].mSubject = q
        PROVE  On(q)' /\ mTargetWatcher[q] = n
    <3>1. n # mTargetWatcher[p] /\ watcher[n].mSubject = q
      BY <1>1, <1>2, <2>4, NobodyAssumption
    <3>2. On(q) /\ mTargetWatcher[q] = n
      BY <3>1 DEF IInv, WatcherInv
    <3> QED
      BY <3>1, <3>2 DEF On, Stage
  <2> QED
    BY <1>3, <2>3, <2>4 DEF WatcherInv, ProcessorStepped
<1>6. ListInv'
  BY <1>0, <1>3 DEF IInv, ListInv, ProcessorStepped, WalkStepped
<1>7. RegisterInv'
  <2>1. UNCHANGED <<rest, serving, mIsInitialized>>
    BY DEF ProcessorStepped
  <2>2. rest = "lock register" => serving # p
    BY DEF Listing
  <2>3. \A n \in Listed : watcher'[n].mSubject \in {watcher[n].mSubject, Nobody}
    BY <1>1, <1>2
  <2> QED
    BY <1>1, <1>3, <2>1, <2>2, <2>3, NobodyAssumption DEF IInv, RegisterInv, Stage
<1>8. DestroyInv'
  BY <1>1 DEF IInv, DestroyInv, Stage, Destroyed, Registering, ProcessorStepped, Undestroyed
<1>9. WalkInv'
  <2>1. \A n \in Listed : watcher'[n].mSubject # Nobody =>
          n # mTargetWatcher[p] /\ watcher'[n] = watcher[n]
    BY <1>1, <1>2
  <2>2. \A q \in Processors : Awaited(q)' => Awaited(q)
    BY DEF Awaited, Stage
  <2>3. \A t \in Threads : Destroying(t)' =>
          \A n \in Listed : \A q \in Processors : watcher'[n].mSubject = q /\ Awaited(q)' =>
              Expected(n, q)'
    BY <1>1, <2>1, <2>2, AskedFacts, NobodyAssumption DEF IInv, WalkInv, Destroying,
       ProcessorStepped, Expected, destroyVars
  <2>4. rest' \in {"destroyed", "deleting"} =>
          \A n \in Listed : watcher'[n].mSubject # Nobody => n \in Range(walk')
    BY <1>0, <2>1 DEF IInv, WalkInv, ProcessorStepped, WalkStepped, Expected, destroyVars
  <2> QED
    BY <1>3, <2>3, <2>4 DEF WalkInv, Destroying, Expected, destroyVars
<1>11. AskedInv'
  <2>1. \A q \in Processors : q # p /\ Stage(q, InDestroy) => Stage(q, InDestroy)'
    BY <1>1 DEF Stage
  <2>2. \A q \in Processors : Stage(q, {"off"}) => Stage(q, {"off"})'
    BY <1>1 DEF Stage, On
  <2>3. asked["worker"] = p => l.stage = "off"
    BY DEF IInv, AskedInv
  <2> QED
    BY <1>1, <2>1, <2>2, <2>3, AskedFacts, NobodyAssumption
    DEF IInv, AskedInv, ProcessorStepped, Stage
<1>10. CountInv'
  BY <1>3 DEF IInv, CountInv, ProcessorStepped
<1> QED
  BY <1>4, <1>5, <1>6, <1>7, <1>8, <1>9, <1>10, <1>11 DEF IInv

LEMMA ReleasedType ==
  ASSUME watcher \in [Nodes -> Watchers], NEW p
  PROVE  Released(p) \in [Nodes -> Watchers]
BY DEF Released, Watchers

LEMMA DestroyCallHolds ==
  ASSUME IInv, Machine', TypeOK', ProcessorStepped, UNCHANGED watcher, NEW p \in Processors,
         NEW l \in PL!DestroyCalled(lives[p]), Live(p, l),
         stranded' \subseteq stranded \cup {p}
  PROVE  IInv'
<1>1. /\ lives[p] \in PL!Lives /\ l \in PL!Lives
      /\ lives[p].stage = "registered" /\ l = [lives[p] EXCEPT !.stage = "destroying"]
  BY LifeSteps, LifeTypes DEF IInv, TypeOK
<1>2. /\ l.stage = "destroying" /\ l.context = lives[p].context
      /\ lives[p].context = "live" /\ mModel = "live"
  BY <1>1 DEF IInv, LifeInv, Stage, Registered
<1>3. Sound(l) /\ On(p) /\ Awaited(p) /\ ~Stage(p, {"destroyed", "lost"})
  BY <1>1, <1>2 DEF Sound, On, Awaited, Stage
<1>4. /\ p \in stranded' => l.stage \in {"initializing", "destroying"}
      /\ l.stage \notin {"initializing", "made", "initialized", "off", "lost", "deleted"}
  BY <1>2
<1>5. Turns(p, l)
  BY <1>2, <1>3 DEF Turns
<1> QED
  BY <1>1, <1>5, TurnHolds

LEMMA UpdateHolds ==
  ASSUME IInv, Machine', TypeOK', ProcessorStepped, NEW p \in Processors, ~Listing(p),
         asked["owner"] = Nobody, ProcessorUpdate(p)
  PROVE  IInv'
<1>1. PICK l \in PL!Updated(lives[p]) :
         /\ Live(p, l)
         /\ watcher' = IF l.stage = "off" THEN Released(p) ELSE watcher
         /\ UNCHANGED stranded
  BY DEF ProcessorUpdate
<1>2. /\ lives[p] \in PL!Lives /\ l \in PL!Lives
      /\ l.context = lives[p].context /\ l.failed = lives[p].failed
      /\ l.stage = "off" => l.registered = lives[p].registered
      /\ \/ lives[p].stage = "destroyed" /\ l.stage = "off"
         \/ lives[p].stage = "initialized" /\ lives[p].failed /\ l.stage = "off"
         \/ lives[p].stage = "initialized" /\ ~lives[p].failed /\ l.stage = "registered"
  BY LifeSteps, LifeTypes DEF IInv, TypeOK
<1>3. /\ On(p) /\ ~Stage(p, {"lost"}) /\ p \notin stranded
      /\ lives[p].stage \in {"destroyed", "initialized"} => lives[p].registered = FALSE
      /\ lives[p].context \in {"null", "live"}
      /\ lives[p].stage = "destroyed" => lives[p].context = "null"
      /\ lives[p].stage = "initialized" => (lives[p].failed <=> lives[p].context = "null")
      /\ lives[p].context = "live" => mModel = "live"
  BY <1>2 DEF IInv, LifeInv, On, Stage, Registered, PL!Lives
<1>4. CASE l.stage = "off"
  BY <1>1, <1>2, <1>3, <1>4, LeaveHolds DEF Live
<1>5. CASE l.stage = "registered"
  <2>1. Sound(l) /\ Registering /\ ~Stage(p, {"destroyed", "lost"})
    BY <1>2, <1>3, <1>5 DEF Sound, Registering, Stage
  <2> QED
    BY <1>1, <1>2, <1>3, <1>5, <2>1, TurnHolds DEF Turns
<1> QED
  BY <1>2, <1>4, <1>5

LEMMA ProcessorWorkHolds ==
  ASSUME IInv, Machine', NEW p \in Processors, ProcessorWork(p)
  PROVE  IInv'
<1>1. PICK l \in PL!Worked(lives[p]) :
         /\ l.context # lives[p].context /\ l.context = "live" => mModel = "live"
         /\ Live(p, l)
  BY DEF ProcessorWork
<1>2. /\ lives[p] \in PL!Lives /\ l \in PL!Lives
      /\ \/ /\ lives[p].stage = "initializing" /\ l.stage = "made"
            /\ l.registered = lives[p].registered
            /\ \/ l.context = "live" /\ l.failed = lives[p].failed
               \/ l.context \in {lives[p].context, "null"} /\ l.failed
         \/ lives[p].stage = "made" /\ l = [lives[p] EXCEPT !.stage = "initialized"]
         \/ /\ lives[p].stage = "destroying" /\ l.stage = "freed" /\ l.context = "null"
            /\ ~l.failed /\ ~l.registered
         \/ lives[p].stage = "freed" /\ l = [lives[p] EXCEPT !.stage = "destroyed"]
  BY LifeSteps, LifeTypes DEF IInv, TypeOK
<1>3. /\ lives[p].stage \in {"initializing", "freed"} => lives[p].context = "null"
      /\ lives[p].stage = "initializing" => ~lives[p].failed
      /\ lives[p].stage = "made" => (lives[p].failed <=> lives[p].context = "null")
      /\ lives[p].stage \in {"initializing", "made", "freed"} => ~lives[p].registered
      /\ lives[p].context = "live" => mModel = "live"
      /\ p \notin stranded
  BY DEF IInv, LifeInv, Stage, Registered, ProcessorWork
<1>4. /\ l.stage \in {"made", "initialized", "freed", "destroyed"}
      /\ l.stage \in {"made", "initialized"} => lives[p].stage \in {"initializing", "made"}
      /\ l.stage \in {"freed", "destroyed"} => lives[p].stage \in {"destroying", "freed"}
      /\ Sound(l) /\ (l.context = "live" => mModel = "live")
  BY <1>1, <1>2, <1>3 DEF Sound, PL!Lives
<1>5. TypeOK'
  BY <1>1, <1>2 DEF IInv, Machine, TypeOK, ProcessorWork, Live, modelVars, listVars, hostVars,
     destroyVars
<1>6. ProcessorStepped /\ UNCHANGED <<watcher, stranded>>
  BY DEF ProcessorWork, ProcessorStepped, processorVars, modelVars, listVars, hostVars, Destroying,
     AskedStepped
<1>7. /\ On(p) /\ ~Stage(p, {"destroyed", "lost"})
      /\ l.stage \in {"made", "initialized"} => Stage(p, {"initializing", "made", "initialized"})
      /\ l.stage \in {"freed", "destroyed"} => Awaited(p)
  BY <1>4 DEF On, Stage, Awaited
<1>8. /\ stranded' \subseteq stranded \cup {p} /\ p \notin stranded'
      /\ l.stage \notin {"off", "lost", "deleted"}
      /\ l.stage \in {"initializing", "made", "initialized"} =>
            Stage(p, {"initializing", "made", "initialized"})
      /\ l.stage \in {"registered", "destroying", "freed", "destroyed"} => Awaited(p)
  BY <1>3, <1>4, <1>6, <1>7
<1>9. Turns(p, l)
  BY <1>1, <1>4, <1>6, <1>7, <1>8 DEF Turns
<1> QED
  BY <1>2, <1>5, <1>6, <1>9, TurnHolds

\* The owner has asked a processor to be destroyed whether it is registered.
LEMMA AskHolds ==
  ASSUME IInv, Machine', TypeOK', NEW p \in Processors, AskRegistered("owner", p),
         ~mSignal["destroy"],
         UNCHANGED <<mSignal, mSignalState, modelVars, listVars, lifeVars, walk, toDestroy,
         awaited>>,
         \/ UNCHANGED <<rest, serving>>
         \/ rest = "lock unregister" /\ rest' = "none",
         \A t \in Threads : Destroying(t)' => Destroying(t)
  PROVE  IInv'
<1>1. /\ \A q \in Processors : \A stages : Stage(q, stages)' <=> Stage(q, stages)
      /\ UNCHANGED <<Units, Listed>>
  BY SameList DEF Stage, lifeVars
<1>2. /\ asked' = [asked EXCEPT !["owner"] = p]
      /\ asked \in [{"owner", "worker"} -> Processors \cup {Nobody}]
      /\ Stage(p, {"registered", "destroying"})
  BY DEF AskRegistered, IInv, TypeOK, LifeInv, Registered
<1>3. ~Destroyed(p) /\ Stage(p, InDestroy)
  BY <1>2 DEF Destroyed, Stage, InDestroy
<1>4. LifeInv' /\ ListInv' /\ RegisterInv'
  BY <1>1 DEF IInv, LifeInv, ListInv, RegisterInv, Registered, lifeVars, modelVars, listVars
<1>5. WatcherInv'
  BY <1>1 DEF IInv, WatcherInv, listVars, On, Listing, destroyVars
<1>6. DestroyInv'
  BY <1>1 DEF IInv, DestroyInv, listVars, modelVars, Registering, Destroyed, On, Undestroyed
<1>7. WalkInv'
  BY <1>1, <1>2 DEF IInv, WalkInv, listVars, Awaited, Destroying, Expected, destroyVars
<1>8. AskedInv'
  BY <1>1, <1>2, <1>3, NobodyAssumption DEF IInv, AskedInv, DestroyInv, modelVars, Undestroyed
<1>9. CountInv'
  BY <1>1 DEF IInv, CountInv, modelVars, listVars
<1> QED
  BY <1>4, <1>5, <1>6, <1>7, <1>8, <1>9 DEF IInv

LEMMA OwnCallsHold ==
  ASSUME IInv, Machine', Uses \subseteq Orderly, NEW p \in Processors,
         DestroyProcessor(p) \/ UpdateProcessor(p) \/ DeleteProcessor(p)
  PROVE  IInv'
<1>1. lives[p] \in PL!Lives /\ lives \in [Processors -> PL!Lives]
  BY DEF IInv, TypeOK
<1>2. UpdateProcessor(p) \/ DeleteProcessor(p) => ProcessorStepped /\ asked["owner"] = Nobody
  BY DEF UpdateProcessor, DeleteProcessor, Calling, ProcessorStepped, processorVars,
     modelVars, listVars, hostVars, Destroying, AskedStepped
<1>3. CASE DestroyProcessor(p)
  <2>1. TypeOK' /\ ~mSignal["destroy"]
    BY <1>3 DEF IInv, Machine, TypeOK, DestroyProcessor, Calling, Orderly, AskRegistered,
       modelVars, listVars, lifeVars, hostVars, destroyVars
  <2> QED
    BY <1>3, <2>1, AskHolds DEF DestroyProcessor, processorVars, hostVars, Destroying
<1>4. CASE UpdateProcessor(p)
  <2>1. ~Listing(p)
    BY <1>4 DEF UpdateProcessor, Calling, Orderly, Listing
  <2>2. TypeOK'
    <3>1. PICK l \in PL!Updated(lives[p]) : Live(p, l)
      BY <1>4 DEF UpdateProcessor, ProcessorUpdate
    <3>2. l \in PL!Lives
      BY <1>1, LifeTypes
    <3>3. watcher' \in [Nodes -> Watchers]
      BY <1>4, ReleasedType DEF IInv, TypeOK, UpdateProcessor, ProcessorUpdate
    <3> QED
      BY <1>4, <3>1, <3>2, <3>3 DEF IInv, Machine, TypeOK, UpdateProcessor, ProcessorUpdate, Live,
         modelVars, Places, destroyVars
  <2> QED
    BY <1>2, <1>4, <2>1, <2>2, UpdateHolds DEF UpdateProcessor
<1>5. CASE DeleteProcessor(p)
  <2>0. PICK l \in PL!Deleted(lives[p]) : \E swept \in PL!Swept(l) : Live(p, swept)
    BY <1>5 DEF DeleteProcessor
  <2>1. PICK swept \in PL!Swept(l) : Live(p, swept)
    BY <2>0
  <2>2. /\ swept \in PL!Lives /\ swept.stage = "deleted" /\ swept.context = "null"
        /\ lives[p].stage \in {"off", "initialized", "registered", "destroyed"}
    BY <1>1, LifeTypes, LifeSteps
  <2>3. lives[p].stage \in {"off", "registered"}
    BY <1>5, <2>2 DEF DeleteProcessor, Calling, Orderly, Unreported, Stage
  <2>9. ~mSignal["destroy"]
    BY <1>5 DEF DeleteProcessor, Calling, Orderly
  <2>4. watcher' \in [Nodes -> Watchers]
    BY <1>5, ReleasedType DEF IInv, TypeOK, DeleteProcessor
  <2>5. TypeOK'
    BY <1>5, <2>1, <2>2, <2>4 DEF IInv, Machine, TypeOK, DeleteProcessor, Live, modelVars,
       hostVars, destroyVars
  <2>6. p \notin stranded /\ stranded' = stranded /\ ~Listing(p)
    BY <1>5, <2>3 DEF DeleteProcessor, IInv, LifeInv, RegisterInv, Stage, Listing, Registered
  <2>7. CASE lives[p].stage = "registered"
    <3>1. On(p) /\ ~Stage(p, {"lost"}) /\ watcher' = Released(p)
      BY <1>5, <2>7 DEF DeleteProcessor, IInv, LifeInv, Stage, On, Registered
    <3> QED
      BY <1>2, <1>5, <2>1, <2>2, <2>5, <2>6, <2>9, <3>1, LeaveHolds DEF Live
  <2>8. CASE lives[p].stage = "off"
    <3>1. /\ UNCHANGED watcher
          /\ lives'[p] = swept /\ \A q \in Processors : q # p => lives'[q] = lives[q]
      BY <1>1, <1>5, <2>1, <2>8 DEF DeleteProcessor, IInv, LifeInv, Stage, Live, Registered
    <3>2. Units' = Units /\ Listed' = Listed
      BY <1>2, <1>5, <3>1, SameUnits DEF ProcessorStepped, Listed
    <3> USE DEF IInv, ProcessorStepped
    <3>3. LifeInv'
      BY <1>2, <1>5, <2>2, <2>6, <3>1 DEF LifeInv, Stage, Registered
    <3>4. \A q \in Processors : On(q)' <=> On(q)
      BY <2>2, <2>8, <3>1 DEF On, Stage
    <3>5. UNCHANGED <<mSignal, mSignalState, rest, serving, walk>>
      BY <1>5 DEF DeleteProcessor, hostVars, processorVars
    <3>7. WatcherInv'
      <4>1. UNCHANGED <<awaited, mTargetWatcher>>
        BY <1>5 DEF DeleteProcessor, destroyVars
      <4>2. \A q \in Processors : Stage(q, {"lost"})' <=> Stage(q, {"lost"})
        BY <2>2, <2>8, <3>1 DEF Stage
      <4> QED
        BY <3>1, <3>2, <3>4, <3>5, <4>1, <4>2 DEF WatcherInv, Listing
    <3>9. AskedInv'
      BY <1>2, <1>5, <2>9, NobodyAssumption DEF AskedInv, DeleteProcessor, destroyVars,
         processorVars
    <3>8. ListInv' /\ CountInv'
      <4>1. UNCHANGED <<mRegisteredProcessors, mOccupiedContext, mIsInitialized>>
        BY <1>5 DEF DeleteProcessor, modelVars
      <4> QED
        BY <3>2, <3>5, <4>1 DEF ListInv, CountInv
    <3>6. RegisterInv' /\ WalkInv' /\ DestroyInv'
      BY <1>2, <1>5, <2>2, <2>8, <3>1, <3>2, <3>4 DEF RegisterInv, WalkInv, DestroyInv,
         DeleteProcessor, hostVars, processorVars, destroyVars, Stage, Registering, Destroyed,
         Awaited, Expected, Undestroyed
    <3> QED
      BY <2>5, <3>3, <3>6, <3>7, <3>8, <3>9
  <2> QED
    BY <2>3, <2>7, <2>8
<1> QED
  BY <1>3, <1>4, <1>5

LEMMA UnregisteredHolds ==
  ASSUME IInv, Machine', Unregistered
  PROVE  IInv'
<1>1. /\ serving \in Processors /\ rest = "lock unregister" /\ rest' = "none"
      /\ mProcessorListMutex' = "owner" /\ ~mSignal["destroy"]
  BY DEF IInv, RegisterInv, DestroyInv, Undestroyed, Unregistered
<1>2. TypeOK'
  BY <1>1 DEF IInv, Machine, TypeOK, Unregistered, AskRegistered, modelVars, listVars, lifeVars,
     Rests, destroyVars
<1>3. CASE AskRegistered("owner", serving)
  BY <1>1, <1>2, <1>3, AskHolds DEF Unregistered, processorVars, Destroying
<1>4. CASE UNCHANGED asked
  BY <1>2, <1>4, AsideHolds DEF Unregistered, processorVars, IInv, modelVars, Destroying,
     LifeInv, Counted, Leaving, AskedStepped, destroyVars, Undestroyed, Registered
<1> QED
  BY <1>3, <1>4 DEF Unregistered

LEMMA InitializeHolds ==
  ASSUME IInv, Machine', initialize_model
  PROVE  IInv'
<1>1. mRegisteredProcessors' = mRegisteredProcessors
  BY DEF initialize_model, IInv, DestroyInv, Undestroyed
<1>2. TypeOK'
  BY DEF IInv, Machine, TypeOK, initialize_model, modelVars, lifeVars, hostVars, destroyVars
<1>3. /\ mSignal'["destroy"] = mSignal["destroy"] /\ UNCHANGED <<mSignalState, phase, at>>
      /\ UNCHANGED <<modelVars, listVars, mProcessorListMutex, lifeVars, hostVars, destroyVars>>
  <2>1. LP!SetSignal("init") /\ "init" \in Signals /\ Machine
    BY DEF IInv, initialize_model, Signals
  <2>2. mSignal'["destroy"] \in BOOLEAN /\ mSignal["destroy"] \in BOOLEAN
    BY DEF IInv, Machine, LP!TypeOK, Signals
  <2> QED
    BY <1>1, <2>1, <2>2, SignalSteps DEF initialize_model, listVars
<1> QED
  BY <1>2, <1>3, HostHolds

LEMMA RegisterHolds ==
  ASSUME IInv, Machine', Uses \subseteq Orderly, NEW p \in Processors, register(p)
  PROVE  IInv'
<1>1. /\ lives[p] \in PL!Lives /\ lives \in [Processors -> PL!Lives]
      /\ lives[p].stage = "off"
      /\ mIsInitialized /\ ~mSignal["destroy"] /\ ~mSignalState["destroy"] /\ rest = "none"
      /\ asked["owner"] = Nobody
  BY DEF IInv, TypeOK, register, Calling, Orderly, Usable, Stage
<1>2. /\ ~lives[p].failed /\ ~lives[p].registered
      /\ lives[p].context = "null" /\ p \notin stranded
  BY <1>1 DEF IInv, LifeInv, register, Calling, Orderly, Stage, Registered
<1>3. PICK l \in PL!InitializeCalled(lives[p]) : Live(p, l) /\ Start(p)
  BY <1>1 DEF register, PL!InitializeCalled, PL!At
<1>4. /\ l \in PL!Lives /\ l.stage = "initializing" /\ l.context = "null"
      /\ ~l.failed /\ ~l.registered
  <2>1. l = [lives[p] EXCEPT !.stage = "initializing"]
    BY <1>1, LifeSteps
  <2> QED
    BY <1>1, <1>2, <2>1, LifeTypes
<1>5. /\ lives'[p] = l /\ \A q \in Processors : q # p => lives'[q] = lives[q]
      /\ stranded' \subseteq stranded \cup {p}
      /\ UNCHANGED <<mSignal, mSignalState, phase, at, modelVars, mRegisteredProcessors, watcher,
                     mTargetWatcher, mProcessorListMutex, place, walk, destroyVars>>
      /\ rest' = "lock register" /\ serving' = p
      /\ mOccupiedContext' = mOccupiedContext + ContextLength[p]
      /\ Listed # Nodes
  BY <1>1, <1>3 DEF Live, Start, register, processorVars
<1>6. TypeOK'
  <2>1. mOccupiedContext' \in 0..mTotalContextSize
    <3>1. PICK c \in Nat : c = ContextLength[p]
      BY LengthAssumption
    <3>2. PICK o \in Nat, total \in Nat : o = mOccupiedContext /\ total = mTotalContextSize
      BY LengthAssumption DEF IInv, TypeOK
    <3>3. o + c <= total /\ mOccupiedContext' = o + c
      BY <3>1, <3>2 DEF register, HasRoom
    <3> QED
      BY <3>2, <3>3
  <2>2. lives' \in [Processors -> PL!Lives]
    BY <1>1, <1>3, <1>4 DEF Live
  <2> QED
    BY <1>5, <2>1, <2>2 DEF IInv, Machine, TypeOK, modelVars, Rests, destroyVars
<1>7. Listed' = Listed /\ Units' = Units
  BY <1>5, SameUnits DEF Listed
<1>8. \A n \in Listed : watcher[n].mSubject # p
  BY <1>1 DEF IInv, WatcherInv, On, Stage
<1>9. LifeInv'
  BY <1>4, <1>5 DEF IInv, LifeInv, Stage, modelVars, Registered
<1>10. WatcherInv'
  <2>1. \A q \in Processors : q # p =>
          (On(q)' <=> On(q)) /\ (Stage(q, {"lost"})' <=> Stage(q, {"lost"})) /\ ~Listing(q)
    BY <1>1, <1>5 DEF On, Stage, Listing
  <2>2. Listing(p)' /\ UNCHANGED awaited
    BY <1>5 DEF Listing, destroyVars
  <2> QED
    BY <1>5, <1>7, <1>8, <2>1, <2>2 DEF IInv, WatcherInv
<1>11. ListInv'
  BY <1>5 DEF IInv, ListInv
<1>12. RegisterInv'
  BY <1>1, <1>4, <1>5, <1>7, <1>8 DEF RegisterInv, Stage, modelVars
<1>13. DestroyInv'
  BY <1>1, <1>5 DEF DestroyInv, modelVars, Undestroyed
<1>14. WalkInv'
  BY <1>1, <1>5 DEF Machine, WalkInv, Expected, destroyVars
<1>15. CountInv'
  <2>1. mOccupiedContext = Cardinality(Units) + 0
    BY <1>1 DEF IInv, CountInv
  <2>2. PICK k \in Nat : k = Cardinality(Units)
    BY FS_CardinalityType DEF IInv, CountInv
  <2>3. mOccupiedContext = k
    BY <2>1, <2>2
  <2>4. mOccupiedContext' = Cardinality(Units) + ContextLength[p]
    BY <1>5, <2>2, <2>3
  <2> QED
    BY <1>5, <1>7, <2>4 DEF IInv, CountInv
<1>16. AskedInv'
  BY <1>1, <1>5, NobodyAssumption DEF IInv, AskedInv, destroyVars
<1> QED
  BY <1>6, <1>9, <1>10, <1>11, <1>12, <1>13, <1>14, <1>15, <1>16 DEF IInv

\* A walk of the owner begins with the list as it is.
LEMMA WalkStarts ==
  ASSUME IInv, Machine', TypeOK',
         UNCHANGED <<processorVars, modelVars, listVars, lifeVars, destroyVars, serving>>,
         walk' = mRegisteredProcessors,
         \/ rest = "none" /\ rest' = "destroy" /\ ~Registering /\ UNCHANGED mProcessorListMutex
         \/ /\ \/ rest = "lock update" /\ rest' = "update"
               \/ rest = "lock destroyed" /\ rest' = "destroyed"
               \/ rest = "lock delete" /\ rest' = "deleting"
            /\ mProcessorListMutex' = "owner"
  PROVE  IInv'
<1>1. /\ \A p \in Processors : \A stages : Stage(p, stages)' <=> Stage(p, stages)
      /\ UNCHANGED <<Units, Listed>> /\ Range(walk') = Listed
      /\ rest' \in {"destroy", "update", "destroyed", "deleting"}
      /\ \A t \in Threads : Destroying(t)' => Destroying(t)
      /\ UNCHANGED <<mSignal, mSignalState, mIsInitialized, mModel>>
  BY SameList DEF Stage, lifeVars, Listed, Range, Destroying, processorVars, modelVars
<1>2. LifeInv' /\ RegisterInv'
  BY <1>1 DEF IInv, LifeInv, RegisterInv, lifeVars, Registered
<1>3. WatcherInv'
  BY <1>1 DEF IInv, WatcherInv, listVars, On, Listing, destroyVars
<1>4. ListInv'
  BY <1>1 DEF IInv, ListInv, listVars
<1>5. DestroyInv'
  BY <1>1 DEF IInv, DestroyInv, listVars, Registering, Destroyed, On, Undestroyed
<1>6. WalkInv'
  BY <1>1 DEF IInv, WalkInv, listVars, Awaited, Destroying, Expected, destroyVars
<1>7. CountInv'
  BY <1>1 DEF IInv, CountInv, listVars
<1>8. AskedInv'
  BY <1>1, AskedHolds DEF lifeVars, destroyVars
<1> QED
  BY <1>2, <1>3, <1>4, <1>5, <1>6, <1>7, <1>8 DEF IInv

LEMMA OwnerLocksRests ==
  OwnerLocks => \/ rest = "lock update" /\ rest' = "update"
                \/ rest = "lock destroyed" /\ rest' = "destroyed"
                \/ rest = "lock delete" /\ rest' = "deleting"
<1> SUFFICES ASSUME NEW step \in {<<"lock update", "update">>, <<"lock destroyed", "destroyed">>,
                                 <<"lock delete", "deleting">>},
                    rest = step[1], rest' = step[2]
             PROVE  \/ rest = "lock update" /\ rest' = "update"
                    \/ rest = "lock destroyed" /\ rest' = "destroyed"
                    \/ rest = "lock delete" /\ rest' = "deleting"
  BY DEF OwnerLocks
<1>1. CASE step = <<"lock update", "update">>
  BY <1>1
<1>2. CASE step = <<"lock destroyed", "destroyed">>
  BY <1>2
<1>3. CASE step = <<"lock delete", "deleting">>
  BY <1>3
<1> QED
  BY <1>1, <1>2, <1>3

LEMMA WalkStartsHold ==
  ASSUME IInv, Machine', Uses \subseteq Orderly, destroy \/ OwnerLocks
  PROVE  IInv'
<1>0. rest' \in Rests /\ mProcessorListMutex' \in {"free", "owner", "worker"}
  BY OwnerLocksRests DEF IInv, TypeOK, destroy, OwnerLocks, Rests
<1>1. TypeOK'
  BY <1>0 DEF IInv, Machine, TypeOK, destroy, OwnerLocks, modelVars, listVars, lifeVars, destroyVars
<1>2. CASE destroy
  <2>1. ~Registering
    BY <1>2 DEF destroy, Calling, Orderly
  <2> QED
    BY <1>1, <1>2, <2>1, WalkStarts DEF destroy
<1>3. CASE OwnerLocks
  BY <1>1, <1>3, OwnerLocksRests, WalkStarts DEF OwnerLocks
<1> QED
  BY <1>2, <1>3

-----------------------------------------------------------------------------
(* Nodes enter the list and leave it.                                      *)

\* The units of a node, and of the other nodes.
Of(n) == {n} \X (1..watcher[n].mContextLength)
Others(n) == UNION {Of(m) : m \in Listed \ {n}}

LEMMA NodeUnits ==
  ASSUME NEW n, NEW k \in Nat
  PROVE  IsFiniteSet({n} \X (1..k)) /\ Cardinality({n} \X (1..k)) = k
<1>1. IsFiniteSet({n}) /\ Cardinality({n}) = 1
  BY FS_Singleton
<1>2. IsFiniteSet(1..k) /\ Cardinality(1..k) = k
  <2>1. IsFiniteSet(1..k) /\ Cardinality(1..k) = IF 1 > k THEN 0 ELSE k - 1 + 1
    BY FS_Interval
  <2>2. (IF 1 > k THEN 0 ELSE k - 1 + 1) = k
    OBVIOUS
  <2> QED
    BY <2>1
<1>3. /\ IsFiniteSet({n} \X (1..k))
      /\ Cardinality({n} \X (1..k)) = Cardinality({n}) * Cardinality(1..k)
  BY <1>1, <1>2, FS_Product
<1>4. 1 * k = k
  OBVIOUS
<1> QED
  BY <1>1, <1>2, <1>3

LEMMA ApartCardinality ==
  ASSUME NEW A, NEW B, IsFiniteSet(A), IsFiniteSet(B), A \cap B = {}
  PROVE  IsFiniteSet(A \cup B) /\ Cardinality(A \cup B) = Cardinality(A) + Cardinality(B)
<1>1. /\ IsFiniteSet(A \cup B)
      /\ Cardinality(A \cup B) = Cardinality(A) + Cardinality(B) - Cardinality(A \cap B)
  BY FS_Union
<1>2. Cardinality(A \cap B) = 0
  BY FS_EmptySet
<1>3. PICK a \in Nat, b \in Nat : a = Cardinality(A) /\ b = Cardinality(B)
  BY FS_CardinalityType
<1>4. a + b - 0 = a + b
  OBVIOUS
<1> QED
  BY <1>1, <1>2, <1>3

LEMMA UnitsParted ==
  ASSUME NEW n \in Listed
  PROVE  Units = Others(n) \cup Of(n) /\ Others(n) \cap Of(n) = {}
<1>1. \A x : x \in Units <=> \E m \in Listed : x \in Of(m)
  BY DEF Units, Of
<1>2. \A x : x \in Others(n) <=> \E m \in Listed \ {n} : x \in Of(m)
  BY DEF Others
<1>3. ASSUME NEW m \in Listed \ {n}, NEW x \in Of(m)
      PROVE  x \notin Of(n)
  BY DEF Of
<1> QED
  BY <1>1, <1>2, <1>3

LEMMA UnitsLeft ==
  ASSUME IInv, NEW n \in Listed
  PROVE  /\ IsFiniteSet(Others(n))
         /\ Cardinality(Units) = Cardinality(Others(n)) + watcher[n].mContextLength
<1>1. Units = Others(n) \cup Of(n) /\ Others(n) \cap Of(n) = {}
  BY UnitsParted
<1>2. watcher[n].mContextLength \in Nat
  BY DEF IInv, TypeOK, Listed, Watchers
<1>3. IsFiniteSet(Of(n)) /\ Cardinality(Of(n)) = watcher[n].mContextLength
  BY <1>2, NodeUnits DEF Of
<1>4. IsFiniteSet(Others(n))
  <2>1. Others(n) \in SUBSET Units /\ IsFiniteSet(Units)
    BY <1>1 DEF IInv, CountInv
  <2> QED
    BY <2>1, FS_Subset
<1> QED
  BY <1>1, <1>3, <1>4, ApartCardinality

LEMMA RegisterListedHolds ==
  ASSUME IInv, Machine', RegisterListed
  PROVE  IInv'
<1>1. /\ serving \in Processors /\ mIsInitialized
      /\ Stage(serving, {"initializing", "made", "initialized"})
      /\ \A n \in Listed : watcher[n].mSubject # serving
      /\ Listed # Nodes
  BY DEF IInv, RegisterInv, RegisterListed
<1>13. Listed \subseteq Nodes
  BY DEF IInv, TypeOK, Listed
<1>0. ContextLength[serving] \in Nat
  BY <1>1, LengthAssumption
<1>2. PICK n \in Nodes :
         /\ n \notin Listed
         /\ mRegisteredProcessors' = Append(mRegisteredProcessors, n)
         /\ watcher' = [watcher EXCEPT ![n] = [mSubject |-> serving,
                                               mContextLength |-> ContextLength[serving]]]
         /\ mTargetWatcher' = [mTargetWatcher EXCEPT ![serving] = n]
  BY <1>1, <1>13 DEF RegisterListed
<1>3. /\ rest = "lock register" /\ rest' = "none"
      /\ UNCHANGED <<mSignal, mSignalState, phase, at, modelVars, mOccupiedContext,
           mProcessorListMutex,
                     lifeVars, place, walk, destroyVars>>
      /\ serving' = Nobody
  BY DEF RegisterListed, processorVars
<1>4. /\ mRegisteredProcessors \in Seq(Nodes) /\ mRegisteredProcessors' \in Seq(Nodes)
      /\ Listed' = Listed \cup {n}
      /\ IsInjective(mRegisteredProcessors')
  <2>1. mRegisteredProcessors \in Seq(Nodes) /\ Range(mRegisteredProcessors) = Listed
    BY DEF IInv, TypeOK, Range, Listed
  <2>2. Range(mRegisteredProcessors') = Listed'
    BY DEF Range, Listed
  <2> QED
    BY <1>2, <2>1, <2>2, AppendFacts DEF IInv, ListInv
<1>5. /\ watcher'[n] = [mSubject |-> serving, mContextLength |-> ContextLength[serving]]
      /\ \A m \in Nodes : m # n => watcher'[m] = watcher[m]
      /\ mTargetWatcher'[serving] = n
      /\ \A q \in Processors : q # serving => mTargetWatcher'[q] = mTargetWatcher[q]
      /\ watcher' \in [Nodes -> Watchers]
      /\ mTargetWatcher' \in [Processors -> Nodes \cup {NoNode}]
  <2>1. watcher \in [Nodes -> Watchers] /\ mTargetWatcher \in [Processors -> Nodes \cup {NoNode}]
    BY DEF IInv, TypeOK
  <2>2. [mSubject |-> serving, mContextLength |-> ContextLength[serving]] \in Watchers
    BY <1>0, <1>1 DEF Watchers
  <2> QED
    BY <1>1, <1>2, <2>1, <2>2
<1>6. TypeOK'
  BY <1>3, <1>4, <1>5 DEF IInv, Machine, TypeOK, modelVars, lifeVars, Rests, destroyVars
<1>7. LifeInv'
  BY <1>3 DEF IInv, LifeInv, Stage, modelVars, lifeVars, Registered
<1>8. WatcherInv'
  <2>1. \A q \in Processors : On(q)' <=> On(q)
    BY <1>3 DEF On, Stage, lifeVars
  <2>2. ASSUME NEW m \in Listed', NEW q \in Processors, watcher'[m].mSubject = q
        PROVE  On(q) /\ mTargetWatcher'[q] = m
    <3>1. CASE m = n
      BY <1>1, <1>5, <2>2, <3>1 DEF On, Stage
    <3>2. CASE m # n
      BY <1>1, <1>4, <1>5, <1>13, <2>2, <3>2 DEF IInv, WatcherInv
    <3> QED
      BY <3>1, <3>2
  <2>3. ASSUME NEW q \in Processors, On(q), ~(Stage(q, {"lost"}) /\ awaited = q)
        PROVE  mTargetWatcher'[q] \in Listed' /\ watcher'[mTargetWatcher'[q]].mSubject = q
    <3>1. CASE q = serving
      BY <1>4, <1>5, <3>1
    <3>2. CASE q # serving
      <4>1. mTargetWatcher[q] \in Listed /\ watcher[mTargetWatcher[q]].mSubject = q
        BY <2>3, <3>2 DEF IInv, WatcherInv, Listing
      <4>2. mTargetWatcher'[q] = mTargetWatcher[q] /\ mTargetWatcher[q] # n
        BY <1>2, <3>2, <4>1
      <4> QED
        BY <1>4, <1>5, <1>13, <4>1, <4>2
    <3> QED
      BY <3>1, <3>2
  <2> QED
    BY <1>3, <2>1, <2>2, <2>3 DEF WatcherInv, Stage, lifeVars, destroyVars
<1>9. ListInv' /\ RegisterInv'
  BY <1>3, <1>4 DEF ListInv, RegisterInv
<1>10. DestroyInv'
  BY <1>1, <1>3 DEF IInv, DestroyInv, Registering, Stage, Destroyed, modelVars, Undestroyed
<1>11. WalkInv'
  <2>1. Registering
    BY <1>1 DEF Registering
  <2> QED
    BY <1>3, <2>1 DEF IInv, WalkInv, DestroyInv, Machine, Expected, destroyVars, Undestroyed
<1>12. CountInv'
  <2>1. Units' = Units \cup ({n} \X (1..ContextLength[serving]))
    <3>1. Units' = UNION {{m} \X (1..watcher'[m].mContextLength) : m \in Listed'}
      BY DEF Units
    <3>2. \A m \in Listed : watcher'[m] = watcher[m]
      BY <1>2
    <3> QED
      BY <1>4, <1>5, <3>2 DEF Units
  <2>2. Units \cap ({n} \X (1..ContextLength[serving])) = {}
    BY <1>2 DEF Units
  <2>3. IsFiniteSet(Units)
    BY DEF IInv, CountInv
  <2>4. /\ IsFiniteSet(Units')
        /\ Cardinality(Units') = Cardinality(Units) + ContextLength[serving]
    <3>1. /\ IsFiniteSet({n} \X (1..ContextLength[serving]))
          /\ Cardinality({n} \X (1..ContextLength[serving])) = ContextLength[serving]
      BY <1>0, NodeUnits
    <3> QED
      BY <2>1, <2>2, <2>3, <3>1, ApartCardinality
  <2>5. PICK k \in Nat : k = Cardinality(Units')
    BY <2>4, FS_CardinalityType
  <2>6. ASSUME mIsInitialized', ~mSignal'["destroy"], ~mSignalState'["destroy"]
        PROVE  mOccupiedContext' = k
    BY <1>3, <2>4, <2>5, <2>6 DEF IInv, CountInv, modelVars
  <2>7. k + 0 = k
    OBVIOUS
  <2>8. rest' # "lock register"
    BY <1>3
  <2> QED
    BY <2>4, <2>5, <2>6, <2>7, <2>8 DEF CountInv
<1>14. AskedInv'
  BY <1>3, AskedHolds DEF lifeVars, modelVars, destroyVars
<1> QED
  BY <1>6, <1>7, <1>8, <1>9, <1>10, <1>11, <1>12, <1>14 DEF IInv

\* The owner goes on to the next node of its walk.
LEMMA WalkGoesOn ==
  ASSUME IInv, Machine', TypeOK', walk # <<>>, walk' = Tail(walk),
         UNCHANGED <<processorVars, modelVars, listVars, mProcessorListMutex, lifeVars, rest,
                     serving,
                     destroyVars>>,
         rest \in {"destroy", "update"} \/ watcher[Head(walk)].mSubject = Nobody
  PROVE  IInv'
<1>1. /\ \A p \in Processors : \A stages : Stage(p, stages)' <=> Stage(p, stages)
      /\ UNCHANGED <<Units, Listed>>
      /\ \A t \in Threads : Destroying(t)' <=> Destroying(t)
      /\ UNCHANGED <<mSignal, mSignalState, mIsInitialized, mModel>>
  BY SameList DEF Stage, lifeVars, Destroying, processorVars, modelVars
<1>0. WalkStepped
  BY StepsOn DEF TypeOK
<1>2. LifeInv' /\ RegisterInv'
  BY <1>1 DEF IInv, LifeInv, RegisterInv, lifeVars, listVars, Registered
<1>3. WatcherInv'
  BY <1>1 DEF IInv, WatcherInv, listVars, On, Listing, destroyVars
<1>4. ListInv'
  BY <1>0, <1>1 DEF IInv, ListInv, listVars, WalkStepped
<1>5. DestroyInv'
  BY <1>1 DEF IInv, DestroyInv, listVars, Registering, Destroyed, On, Undestroyed
<1>6. WalkInv'
  BY <1>0, <1>1 DEF IInv, WalkInv, listVars, Awaited, Destroying, WalkStepped, Expected, destroyVars
<1>7. CountInv'
  BY <1>1 DEF IInv, CountInv, listVars
<1>8. AskedInv'
  BY <1>1, AskedHolds DEF lifeVars, destroyVars
<1> QED
  BY <1>2, <1>3, <1>4, <1>5, <1>6, <1>7, <1>8 DEF IInv

\* Where the walk goes on behind an erased node.
LEMMA ResumedFacts ==
  ASSUME IInv, rest \in {"destroy", "update"}, walk # <<>>
  PROVE  /\ Resumed \in Seq(Nodes) /\ IsInjective(Resumed)
         /\ Head(walk) \in Listed /\ Range(Resumed) \subseteq Listed \ {Head(walk)}
<1> DEFINE left == Erased(Head(walk))
<1>0. WalkStepped /\ walk \in Seq(Nodes)
  BY StepsOn DEF IInv, TypeOK
<1>1. /\ Head(walk) \in Listed /\ Tail(walk) \in Seq(Nodes) /\ IsInjective(Tail(walk))
      /\ Range(Tail(walk)) \subseteq Listed \ {Head(walk)}
  BY <1>0 DEF WalkStepped, IInv, ListInv
<1>2. /\ left \in Seq(Nodes)
      /\ {left[i] : i \in DOMAIN left} \subseteq Listed \ {Head(walk)}
  BY <1>1, ErasedFacts DEF IInv, TypeOK, ListInv
<1>3. Resumed = IF Tail(walk) = <<>> /\ left # <<>> THEN <<Last(left)>> ELSE Tail(walk)
  BY DEF Resumed
<1> HIDE DEF left
<1>4. CASE left # <<>>
  <2>1. Len(left) \in DOMAIN left /\ left[Len(left)] \in Nodes
    BY <1>2, <1>4
  <2>2. Last(left) \in Nodes /\ Last(left) \in Listed \ {Head(walk)}
    BY <1>2, <2>1 DEF Last
  <2>3. PICK m \in Nodes : m = Last(left)
    BY <2>2
  <2>4. <<m>> \in Seq(Nodes) /\ IsInjective(<<m>>) /\ Range(<<m>>) = {m}
    BY DEF IsInjective, Range
  <2> QED
    BY <1>1, <1>3, <2>2, <2>3, <2>4
<1> QED
  BY <1>1, <1>3, <1>4

\* A node without a processor is erased while the owner walks, and is uncounted where the count
\* matters.
LEMMA ErasingHolds ==
  ASSUME IInv, Machine', TypeOK', rest \in {"destroy", "update"}, walk # <<>>, walk' = Resumed,
         watcher[Head(walk)].mSubject = Nobody,
         mRegisteredProcessors' = Erased(Head(walk)),
         mOccupiedContext' = IF rest = "update" THEN Uncounted(Head(walk)) ELSE mOccupiedContext,
         UNCHANGED <<processorVars, modelVars, watcher, mTargetWatcher, lifeVars, rest, serving,
                     destroyVars, mProcessorListMutex>>
  PROVE  IInv'
<1> DEFINE n == Head(walk)
<1>1. /\ n \in Listed /\ n \notin Range(walk') /\ Range(walk') \subseteq Listed \ {n}
      /\ IsInjective(walk')
  BY ResumedFacts
<1>2. /\ Listed' \subseteq Listed /\ Listed \ {n} \subseteq Listed' /\ n \notin Listed'
      /\ IsInjective(mRegisteredProcessors')
  <2>1. LET Left == {Erased(n)[i] : i \in DOMAIN Erased(n)}
        IN  /\ Left \subseteq Listed /\ Listed \ {n} \subseteq Left
            /\ IsInjective(Erased(n)) /\ n \notin Left
    BY <1>1, ErasedFacts DEF IInv, TypeOK, ListInv
  <2>2. Listed' = {Erased(n)[i] : i \in DOMAIN Erased(n)}
    BY DEF Listed
  <2> QED
    BY <2>1, <2>2
<1>3. Listed' = Listed \ {n}
  BY <1>2
<1> HIDE DEF n
<1>4. /\ \A p \in Processors : \A stages : Stage(p, stages)' <=> Stage(p, stages)
      /\ \A t \in Threads : Destroying(t)' <=> Destroying(t)
      /\ UNCHANGED <<mSignal, mSignalState, mIsInitialized, mModel>>
      /\ mIsInitialized
  <2>1. mIsInitialized
    BY <1>1, NoUnits DEF IInv, DestroyInv, Undestroyed
  <2> QED
    BY <2>1 DEF Stage, lifeVars, Destroying, processorVars, modelVars
<1>5. watcher[n].mSubject = Nobody
  BY DEF n
<1>6. LifeInv' /\ RegisterInv'
  BY <1>4 DEF IInv, LifeInv, RegisterInv, lifeVars, Registered
<1>7. WatcherInv'
  <2>1. \A p \in Processors : (On(p)' <=> On(p)) /\ (Listing(p)' <=> Listing(p))
    BY <1>4 DEF On, Listing
  <2>2. \A m \in Listed' : \A p \in Processors : watcher'[m].mSubject = p =>
          On(p) /\ mTargetWatcher[p] = m
    BY <1>3 DEF IInv, WatcherInv
  <2>3. \A p \in Processors : On(p) /\ ~Listing(p) =>
          \/ mTargetWatcher[p] \in Listed' /\ watcher[mTargetWatcher[p]].mSubject = p
          \/ Stage(p, {"lost"}) /\ awaited = p
    BY <1>3, <1>5, NobodyAssumption DEF IInv, WatcherInv
  <2> QED
    BY <1>4, <2>1, <2>2, <2>3 DEF WatcherInv, destroyVars
<1>8. ListInv'
  BY <1>1, <1>2 DEF ListInv
<1>9. DestroyInv'
  <2>1. rest \notin {"lock destroyed", "destroyed"}
    OBVIOUS
  <2>2. mSignalState["destroy"] => rest # "update"
    BY DEF IInv, DestroyInv, Undestroyed
  <2>3. mSignalState["destroy"] => mOccupiedContext' = 0 /\ \A p \in Processors : Destroyed(p)'
    BY <1>4 DEF IInv, DestroyInv, Destroyed, Undestroyed
  <2>4. Registering' <=> Registering
    BY <1>4 DEF Registering
  <2> QED
    BY <1>4, <2>3, <2>4 DEF IInv, DestroyInv, Undestroyed
<1>10. WalkInv'
  BY <1>3, <1>4 DEF IInv, WalkInv, Awaited, Destroying, Expected, destroyVars
<1>11. CountInv'
  <2>1. PICK c \in Nat : c = watcher[n].mContextLength
    BY <1>1 DEF IInv, TypeOK, Listed, Watchers
  <2>2. Units' = Others(n)
    BY <1>3 DEF Units, Of, Others
  <2>3. IsFiniteSet(Others(n)) /\ Cardinality(Units) = Cardinality(Others(n)) + c
    BY <1>1, <2>1, UnitsLeft
  <2>7. PICK k \in Nat : k = Cardinality(Others(n))
    BY <2>3, FS_CardinalityType
  <2>8. ASSUME rest = "update", ~mSignal["destroy"], ~mSignalState["destroy"]
        PROVE  mOccupiedContext' = k + 0
    <3>1. mOccupiedContext = Cardinality(Units) + 0
      BY <1>4, <2>8 DEF IInv, CountInv
    <3>2. mOccupiedContext = (k + c) + 0
      BY <2>3, <2>7, <3>1
    <3>3. mOccupiedContext' = mOccupiedContext - c
      BY <2>1, <2>8 DEF Uncounted, n
    <3> QED
      BY <3>2, <3>3
  <2> QED
    BY <1>4, <2>2, <2>3, <2>7, <2>8 DEF CountInv
<1>12. AskedInv'
  BY <1>4, AskedHolds DEF lifeVars, destroyVars
<1> QED
  BY <1>6, <1>7, <1>8, <1>9, <1>10, <1>11, <1>12 DEF IInv

LEMMA DestroyNextHolds ==
  ASSUME IInv, Machine', DestroyNext
  PROVE  IInv'
<1> DEFINE n == Head(walk)
           p == watcher[n].mSubject
<1>0. WalkStepped
  BY StepsOn DEF IInv, TypeOK
<1>1. /\ rest = "destroy" /\ walk # <<>> /\ Tail(walk) \in Seq(Nodes)
      /\ UNCHANGED <<processorVars, modelVars, mOccupiedContext, watcher, mTargetWatcher, place,
                     rest, serving, destroyVars, mProcessorListMutex>>
      /\ n \in Nodes /\ n \in Listed
  <2>1. walk # <<>> /\ walk \in Seq(Nodes) /\ rest = "destroy"
    BY DEF DestroyNext, IInv, TypeOK
  <2>2. n \in Listed
    BY <1>0, <2>1 DEF WalkStepped, IInv, ListInv
  <2> QED
    BY <2>1, <2>2 DEF DestroyNext
<1>2. p \in Processors \cup {Nobody} /\ lives \in [Processors -> PL!Lives]
  BY <1>1 DEF IInv, TypeOK, Watchers
<1>3. CASE p = Nobody
  <2>1. mRegisteredProcessors' = Erased(n) /\ walk' = Resumed /\ UNCHANGED lifeVars
    BY <1>3 DEF DestroyNext
  <2>4. walk' \in Seq(Nodes)
    BY <1>1, <2>1, ResumedFacts
  <2>2. mRegisteredProcessors' \in Seq(Nodes)
    BY <1>1, <2>1, ErasedFacts DEF IInv, TypeOK
  <2>3. TypeOK'
    BY <1>1, <2>1, <2>2, <2>4 DEF IInv, Machine, TypeOK, modelVars, lifeVars, destroyVars
  <2> QED
    BY <1>1, <1>3, <2>1, <2>3, ErasingHolds
<1>4. CASE p # Nobody
  <2>1. /\ UNCHANGED mRegisteredProcessors /\ walk' = Tail(walk)
        /\ \/ stranded' = stranded \ {p} /\ \E l \in PL!DestroyCalled(lives[p]) : Live(p, l)
           \/ UNCHANGED lifeVars
    BY <1>4 DEF DestroyNext
  <2>2. CASE stranded' = stranded \ {p} /\ \E l \in PL!DestroyCalled(lives[p]) : Live(p, l)
    <3>1. PICK l \in PL!DestroyCalled(lives[p]) : Live(p, l)
      BY <2>2
    <3>2. l \in PL!Lives
      BY <1>2, <1>4, LifeTypes
    <3>3. lives' \in [Processors -> PL!Lives] /\ stranded' \in SUBSET Processors
      BY <2>2, <3>1, <3>2 DEF Live, IInv, TypeOK
    <3>4. TypeOK'
      BY <1>1, <2>1, <3>3 DEF IInv, Machine, TypeOK, modelVars, destroyVars
    <3>5. ProcessorStepped
      BY <1>1, <2>1 DEF ProcessorStepped, processorVars, modelVars, Destroying, AskedStepped
    <3>6. stranded' \subseteq stranded \cup {p} /\ UNCHANGED watcher /\ p \in Processors
      BY <1>1, <1>2, <1>4, <2>2
    <3> HIDE DEF p, n
    <3> QED
      BY <3>1, <3>4, <3>5, <3>6, DestroyCallHolds
  <2>3. CASE UNCHANGED lifeVars
    <3>1. TypeOK'
      BY <1>1, <2>1, <2>3 DEF IInv, Machine, TypeOK, modelVars, lifeVars, destroyVars
    <3>2. UNCHANGED listVars
      BY <1>1, <2>1 DEF listVars
    <3> QED
      BY <1>1, <2>1, <2>3, <3>1, <3>2, WalkGoesOn
  <2> QED
    BY <2>1, <2>2, <2>3
<1> QED
  BY <1>3, <1>4

LEMMA WalkFreedHolds ==
  ASSUME IInv, Machine', WalkFreed
  PROVE  IInv'
<1> DEFINE n == Head(walk)
<1>0. WalkStepped
  BY StepsOn DEF IInv, TypeOK
<1>1. /\ rest \in {"update", "destroyed", "deleting"} /\ walk # <<>>
      /\ UNCHANGED <<processorVars, modelVars, watcher, mTargetWatcher, lifeVars, place, rest,
                     serving, destroyVars, mProcessorListMutex>>
      /\ watcher[n].mSubject = Nobody
      /\ Tail(walk) \in Seq(Nodes) /\ n \in Nodes /\ n \in Listed
  <2>1. walk # <<>> /\ walk \in Seq(Nodes) /\ rest \in {"update", "destroyed", "deleting"}
    BY DEF WalkFreed, IInv, TypeOK
  <2>2. n \in Listed
    BY <1>0, <2>1 DEF WalkStepped, IInv, ListInv
  <2> QED
    BY <2>1, <2>2 DEF WalkFreed
<1>2. CASE rest = "update"
  <2>1. /\ mRegisteredProcessors' = Erased(n) /\ mOccupiedContext' = Uncounted(n)
        /\ walk' = Resumed
    BY <1>2 DEF WalkFreed
  <2>5. walk' \in Seq(Nodes)
    BY <1>1, <1>2, <2>1, ResumedFacts
  <2>2. mRegisteredProcessors' \in Seq(Nodes)
    BY <1>1, <2>1, ErasedFacts DEF IInv, TypeOK
  <2>3. mOccupiedContext' \in 0..mTotalContextSize
    <3>1. PICK c \in Nat : c = watcher[n].mContextLength
      BY <1>1 DEF IInv, TypeOK, Watchers
    <3>2. PICK k \in Nat : k = Cardinality(Others(n))
      BY <1>1, UnitsLeft, FS_CardinalityType
    <3>3. mIsInitialized
      BY <1>1, NoUnits DEF IInv, DestroyInv, Undestroyed
    <3>4. mOccupiedContext = Cardinality(Units) + 0
      BY <1>2, <3>3 DEF IInv, CountInv, DestroyInv, Undestroyed
    <3>5. mOccupiedContext = (k + c) + 0
      BY <1>1, <3>1, <3>2, <3>4, UnitsLeft
    <3>6. mOccupiedContext' = mOccupiedContext - c
      BY <2>1, <3>1 DEF Uncounted
    <3>7. PICK total \in Nat : total = mTotalContextSize
      BY LengthAssumption
    <3>8. mOccupiedContext \in 0..total
      BY <3>7 DEF IInv, TypeOK
    <3>9. mOccupiedContext' \in 0..total
      BY <3>5, <3>6, <3>8
    <3> QED
      BY <3>7, <3>9
  <2>4. TypeOK'
    BY <1>1, <2>2, <2>3, <2>5 DEF IInv, Machine, TypeOK, modelVars, lifeVars, destroyVars
  <2> QED
    BY <1>1, <1>2, <2>1, <2>4, ErasingHolds
<1>3. CASE rest # "update"
  <2>1. UNCHANGED <<mRegisteredProcessors, mOccupiedContext>> /\ walk' = Tail(walk)
    BY <1>3 DEF WalkFreed
  <2>2. TypeOK'
    BY <1>1, <2>1 DEF IInv, Machine, TypeOK, modelVars, lifeVars, destroyVars
  <2> QED
    BY <1>1, <2>1, <2>2, WalkGoesOn DEF listVars
<1> QED
  BY <1>2, <1>3

LEMMA WalkProcessorHolds ==
  ASSUME IInv, Machine', asked["owner"] = Nobody, WalkProcessor
  PROVE  IInv'
<1> DEFINE n == Head(walk)
           p == watcher[n].mSubject
<1>0. WalkStepped
  BY StepsOn DEF IInv, TypeOK
<1>1. /\ rest \in {"update", "destroyed", "deleting"} /\ walk # <<>> /\ walk' = Tail(walk)
      /\ UNCHANGED <<processorVars, modelVars, mOccupiedContext, mRegisteredProcessors,
           mTargetWatcher,
                     mProcessorListMutex, rest, serving, destroyVars>>
      /\ walk' \in Seq(Nodes) /\ n \in Nodes /\ n \in Listed
      /\ p # Nobody
  <2>1. walk # <<>> /\ walk' = Tail(walk) /\ walk \in Seq(Nodes) /\
          rest \in {"update", "destroyed", "deleting"}
    BY DEF WalkProcessor, IInv, TypeOK
  <2>2. n \in Listed
    BY <1>0, <2>1 DEF WalkStepped, IInv, ListInv
  <2> QED
    BY <2>1, <2>2 DEF WalkProcessor
<1>2. /\ p \in Processors /\ lives \in [Processors -> PL!Lives] /\ lives[p] \in PL!Lives
      /\ On(p) /\ mTargetWatcher[p] = n
  BY ZenonT(60), <1>1 DEF IInv, TypeOK, Watchers, WatcherInv
<1>3. rest \in {"destroyed", "deleting"} => Stage(p, {"destroyed"})
  <2>1. rest = "destroyed" => Stage(p, {"destroyed"})
    BY <1>2 DEF IInv, DestroyInv, Destroyed, On, Stage, Undestroyed
  <2>2. ASSUME rest = "deleting"
        PROVE  Stage(p, {"destroyed"})
    <3>1. WorkerEnded(p) /\ ~Stage(p, {"registered", "destroying", "freed", "lost"})
      BY <2>2 DEF WalkProcessor, Awaited
    <3>2. ~Stage(p, {"initializing", "made", "initialized"})
      BY <1>2, <2>2 DEF IInv, DestroyInv, Registering, Undestroyed
    <3>3. p \in stranded => Stage(p, {"initializing", "destroying", "lost"})
      BY <1>2 DEF IInv, LifeInv
    <3>4. lives[p].stage \in PL!Stages
      BY <1>2 DEF PL!Lives
    <3> QED
      BY <1>2, <3>1, <3>2, <3>3, <3>4 DEF WorkerEnded, On, Stage, PL!Stages
  <2> QED
    BY <2>1, <2>2
<1>4. CASE ProcessorUpdate(p)
  <2>1. PICK l \in PL!Updated(lives[p]) :
           Live(p, l) /\ watcher' = IF l.stage = "off" THEN Released(p) ELSE watcher
    BY <1>4 DEF ProcessorUpdate
  <2>2. l \in PL!Lives /\ (Stage(p, {"destroyed"}) => l.stage = "off")
    BY <1>2, LifeTypes, LifeSteps DEF Stage
  <2>3. watcher' \in [Nodes -> Watchers]
    BY <2>1, ReleasedType DEF IInv, TypeOK
  <2>4. TypeOK'
    BY <1>1, <1>4, <2>1, <2>2, <2>3 DEF IInv, Machine, TypeOK, ProcessorUpdate, Live, modelVars,
       Places, destroyVars
  <2>5. rest \in {"destroyed", "deleting"} => watcher'[n].mSubject = Nobody
    BY <1>1, <1>2, <1>3, <2>1, <2>2 DEF Released
  <2>6. ProcessorStepped
    BY <1>1, <2>5 DEF ProcessorStepped, processorVars, modelVars, Destroying, AskedStepped
  <2>7. ~Listing(p)
    BY <1>1 DEF Listing
  <2> HIDE DEF p, n
  <2> QED
    BY <1>2, <1>4, <2>4, <2>6, <2>7, UpdateHolds
<1>5. CASE PL!Updated(lives[p]) = {} /\ UNCHANGED <<watcher, lifeVars, place>>
  <2>1. rest = "update"
    BY <1>1, <1>3, <1>5 DEF Stage, PL!Updated, PL!At
  <2>2. TypeOK'
    BY <1>1, <1>5 DEF IInv, Machine, TypeOK, modelVars, lifeVars, destroyVars
  <2>3. UNCHANGED listVars
    BY <1>1, <1>5 DEF listVars
  <2> QED
    BY <1>1, <1>5, <2>1, <2>2, <2>3, WalkGoesOn
<1> QED
  BY <1>4, <1>5 DEF WalkProcessor

LEMMA NoneOn ==
  ASSUME IInv, rest \in {"destroyed", "deleting"}, walk = <<>>
  PROVE  \A p \in Processors : On(p) => rest = "deleting" /\ Stage(p, {"lost"}) /\ awaited = p
<1>1. Range(walk) = {}
  BY DEF Range
<1>2. \A p \in Processors : On(p) => Stage(p, {"lost"}) /\ awaited = p
  BY <1>1, NobodyAssumption DEF IInv, WalkInv, WatcherInv, Listing
<1>3. rest = "destroyed" => \A p \in Processors : ~Stage(p, {"lost"})
  BY DEF IInv, DestroyInv, Destroyed, Stage
<1> QED
  BY <1>2, <1>3

LEMMA DeleteDestroysHolds ==
  ASSUME IInv, Machine', DeleteDestroys
  PROVE  IInv'
<1>1. PICK p \in {watcher[Head(walk)].mSubject} \ {Nobody} :
         /\ \E l \in PL!DestroyCalled(lives[p]) : Live(p, l)
         /\ stranded' = stranded \ {p}
  BY DEF DeleteDestroys
<1>2. PICK l \in PL!DestroyCalled(lives[p]) : Live(p, l)
  BY <1>1
<1>3. p \in Processors /\ lives \in [Processors -> PL!Lives]
  <2>1. walk # <<>> /\ walk \in Seq(Nodes)
    BY DEF DeleteDestroys, IInv, TypeOK
  <2>2. Head(walk) \in Nodes
    BY <2>1
  <2> QED
    BY <2>2 DEF IInv, TypeOK, Watchers
<1>4. l \in PL!Lives
  BY <1>3, LifeTypes
<1>5. TypeOK'
  BY <1>2, <1>4 DEF IInv, Machine, TypeOK, DeleteDestroys, Live, modelVars, listVars, hostVars,
     destroyVars
<1>6. ProcessorStepped /\ UNCHANGED watcher /\ stranded' \subseteq stranded \cup {p}
  BY DEF DeleteDestroys, ProcessorStepped, processorVars, modelVars, listVars, hostVars,
     Destroying, AskedStepped
<1> QED
  BY <1>2, <1>3, <1>5, <1>6, DestroyCallHolds

LEMMA UpdateDestroyedEndsHolds ==
  ASSUME IInv, Machine', UpdateDestroyedEnds
  PROVE  IInv'
<1>1. /\ rest = "destroyed" /\ walk = <<>>
      /\ UNCHANGED <<mSignal, mSignalState, phase, at, mModel, mOccupiedContext, watcher,
           mTargetWatcher,
                     mProcessorListMutex, lifeVars, walk, serving, destroyVars>>
      /\ mRegisteredProcessors' = <<>> /\ mIsInitialized' = FALSE /\ rest' = "unlock"
  BY DEF UpdateDestroyedEnds, processorVars
<1>2. \A p \in Processors : ~On(p)
  BY <1>1, NoneOn
<1>3. Listed' = {} /\ IsFiniteSet(Units') /\ Range(<<>>) = {} /\ IsInjective(<<>>)
  <2>1. IsFiniteSet({}) /\ Listed' = {} /\ Units' = {}
    BY <1>1, FS_EmptySet DEF Listed, Units
  <2> QED
    BY <2>1 DEF Range, IsInjective
<1>4. \A p \in Processors : \A stages : Stage(p, stages)' <=> Stage(p, stages)
  BY <1>1 DEF Stage, lifeVars
<1>5. TypeOK'
  BY DEF UpdateDestroyedEnds, IInv, Machine, TypeOK, lifeVars, Rests, Places, destroyVars
<1>6. LifeInv'
  BY <1>1, <1>4 DEF IInv, LifeInv, lifeVars, Registered
<1>7. WatcherInv'
  BY <1>2, <1>3, <1>4 DEF WatcherInv, On
<1>8. ListInv' /\ RegisterInv'
  BY <1>1, <1>3 DEF ListInv, RegisterInv
<1>9. DestroyInv'
  BY <1>1, <1>2, <1>4 DEF IInv, DestroyInv, Registering, Destroyed, On, Undestroyed
<1>10. WalkInv' /\ CountInv'
  BY <1>1, <1>3 DEF WalkInv, CountInv, Expected, destroyVars
<1>11. AskedInv'
  BY <1>1 DEF IInv, AskedInv, DestroyInv, Undestroyed, destroyVars
<1> QED
  BY <1>5, <1>6, <1>7, <1>8, <1>9, <1>10, <1>11 DEF IInv

LEMMA DeleteFreesHolds ==
  ASSUME IInv, Machine', DeleteFrees
  PROVE  IInv'
<1>1. /\ rest = "deleting" /\ walk = <<>>
      /\ UNCHANGED <<mSignal, mSignalState, phase, at, mIsInitialized, mOccupiedContext, watcher,
           mTargetWatcher,
                     lifeVars, walk, serving, destroyVars>>
      /\ mRegisteredProcessors' = <<>> /\ mModel' = "null" /\ rest' = "destruct"
  BY DEF DeleteFrees, LP!CallStop, LP!signalVars, LP!threadVars
<1>2. \A p \in Processors : On(p) => Stage(p, {"lost"}) /\ awaited = p
  BY <1>1, NoneOn
<1>3. Listed' = {} /\ IsFiniteSet(Units') /\ Range(<<>>) = {} /\ IsInjective(<<>>)
  <2>1. IsFiniteSet({}) /\ Listed' = {} /\ Units' = {}
    BY <1>1, FS_EmptySet DEF Listed, Units
  <2> QED
    BY <2>1 DEF Range, IsInjective
<1>4. \A p \in Processors : \A stages : Stage(p, stages)' <=> Stage(p, stages)
  BY <1>1 DEF Stage, lifeVars
<1>5. TypeOK'
  BY DEF DeleteFrees, IInv, Machine, TypeOK, lifeVars, Rests, destroyVars
<1>6. LifeInv'
  <2>1. \A p \in Processors : lives[p].context # "live"
    BY <1>2 DEF IInv, LifeInv, On, Stage, Registered
  <2> QED
    BY <1>1, <1>4, <2>1 DEF IInv, LifeInv, lifeVars, Registered
<1>7. WatcherInv'
  BY <1>1, <1>2, <1>3, <1>4 DEF WatcherInv, On, destroyVars
<1>8. ListInv' /\ RegisterInv'
  BY <1>1, <1>3 DEF ListInv, RegisterInv
<1>9. DestroyInv'
  BY <1>1, <1>4 DEF IInv, DestroyInv, Registering, Destroyed, On, Undestroyed
<1>10. WalkInv' /\ CountInv'
  BY <1>1, <1>3 DEF WalkInv, CountInv, Expected, destroyVars
<1>11. AskedInv'
  BY <1>1, AskedHolds DEF lifeVars, destroyVars
<1> QED
  BY <1>5, <1>6, <1>7, <1>8, <1>9, <1>10, <1>11 DEF IInv

LEMMA WorkerLocksHolds ==
  ASSUME IInv, Machine', NEW t \in Threads, WorkerLocks(t)
  PROVE  IInv'
<1>1. /\ UNCHANGED <<mSignal, mSignalState, phase, at, modelVars, listVars, lifeVars, rest, walk,
                     serving, awaited, asked>>
      /\ phase[t] = "job" /\ at[t] \in {"destroy", "lora"}
      /\ toDestroy' = IF at[t] = "destroy" THEN mRegisteredProcessors ELSE <<>>
      /\ mProcessorListMutex' = "worker"
  BY DEF WorkerLocks, processorVars, hostVars
<1>2. /\ \A p \in Processors : \A stages : Stage(p, stages)' <=> Stage(p, stages)
      /\ UNCHANGED <<Units, Listed>> /\ Range(mRegisteredProcessors) = Listed
  BY <1>1, SameList DEF Stage, lifeVars, Range, Listed
<1>3. TypeOK'
  BY DEF WorkerLocks, IInv, Machine, TypeOK, modelVars, listVars, lifeVars, hostVars, destroyVars
<1>4. LifeInv' /\ RegisterInv'
  BY <1>1, <1>2 DEF IInv, LifeInv, RegisterInv, lifeVars, modelVars, listVars, Registered
<1>5. WatcherInv'
  BY <1>1, <1>2 DEF IInv, WatcherInv, listVars, On, Listing, destroyVars
<1>6. ListInv'
  BY <1>1, <1>2 DEF IInv, ListInv, listVars
<1>7. DestroyInv'
  BY <1>1, <1>2 DEF IInv, DestroyInv, listVars, modelVars, Registering, Destroyed, On, Undestroyed
<1>8. WalkInv'
  <2>1. \A u \in Threads : phase[u] = "job" /\ at[u] = "destroy" =>
          toDestroy' = mRegisteredProcessors
    BY <1>1 DEF Machine
  <2>2. rest' \in {"destroyed", "deleting"} =>
          \A n \in Listed : watcher[n].mSubject # Nobody => n \in Range(walk')
    BY <1>1 DEF IInv, WalkInv, Expected, destroyVars
  <2> QED
    BY <1>1, <1>2, <2>1, <2>2 DEF WalkInv, listVars, Expected, destroyVars
<1>9. CountInv'
  BY <1>1, <1>2 DEF IInv, CountInv, modelVars, listVars
<1>10. AskedInv'
  BY <1>1, AskedHolds DEF lifeVars, modelVars
<1> QED
  BY <1>3, <1>4, <1>5, <1>6, <1>7, <1>8, <1>9, <1>10 DEF IInv

LEMMA DestroySyncHolds ==
  ASSUME IInv, Machine', NEW t \in Threads, DestroySync(t)
  PROVE  IInv'
<1> DEFINE n == Head(toDestroy)
           p == watcher[n].mSubject
<1>1. /\ toDestroy # <<>> /\ toDestroy \in Seq(Nodes) /\ toDestroy' = Tail(toDestroy)
      /\ UNCHANGED <<mSignal, mSignalState, phase, at, modelVars, listVars, mProcessorListMutex,
                     lifeVars, rest, walk, serving>>
      /\ phase[t] = "job" /\ at[t] = "destroy" /\ mProcessorListMutex = "worker"
      /\ asked["worker"] = Nobody /\ awaited = Nobody
      /\ asked \in [{"owner", "worker"} -> Processors \cup {Nobody}]
      /\ mSignal["destroy"]
  BY DEF DestroySync, IInv, Machine, TypeOK, processorVars, hostVars
<1>2. /\ n \in Nodes /\ Tail(toDestroy) \in Seq(Nodes)
      /\ Range(toDestroy) = {n} \cup Range(Tail(toDestroy))
      /\ p \in Processors \cup {Nobody}
  BY <1>1, TailFacts DEF IInv, TypeOK, Watchers
<1>3. \/ /\ p \in Processors /\ Registered(p) /\ UNCHANGED awaited
         /\ asked' = [asked EXCEPT !["worker"] = p]
      \/ UNCHANGED asked /\ awaited' = p
  BY <1>2 DEF DestroySync, AskRegistered
<1>4. /\ asked' \in [{"owner", "worker"} -> Processors \cup {Nobody}]
      /\ awaited' \in Processors \cup {Nobody} /\ asked'["owner"] = asked["owner"]
      /\ p # Nobody => p \in {awaited', asked'["worker"]}
  BY <1>1, <1>2, <1>3
<1> HIDE DEF p
<1>5. /\ \A q \in Processors : \A stages : Stage(q, stages)' <=> Stage(q, stages)
      /\ UNCHANGED <<Units, Listed>>
  BY <1>1, SameList DEF Stage, lifeVars
<1>6. TypeOK'
  BY <1>1, <1>2, <1>4 DEF DestroySync, IInv, Machine, TypeOK, modelVars, listVars, lifeVars,
     hostVars
<1>7. LifeInv' /\ RegisterInv'
  BY <1>1, <1>5 DEF IInv, LifeInv, RegisterInv, lifeVars, modelVars, listVars, Registered
<1>8. WatcherInv'
  BY <1>1, <1>5, NobodyAssumption DEF IInv, WatcherInv, listVars, On, Listing
<1>9. ListInv'
  BY <1>1, <1>5 DEF IInv, ListInv, listVars
<1>10. DestroyInv'
  BY <1>1, <1>5 DEF IInv, DestroyInv, listVars, modelVars, Registering, Destroyed, On, Undestroyed
<1>11. WalkInv'
  <2>1. ASSUME NEW m \in Listed, NEW q \in Processors, watcher[m].mSubject = q, Awaited(q)
        PROVE  Expected(m, q)'
    <3>1. m \in Range(toDestroy)
      BY <1>1, <2>1, NobodyAssumption DEF IInv, WalkInv, Expected
    <3>2. CASE m \in Range(Tail(toDestroy))
      BY <1>1, <3>2 DEF Expected
    <3>3. CASE m = n
      BY <1>4, <2>1, <3>3, NobodyAssumption DEF p, Expected
    <3> QED
      BY <1>2, <3>1, <3>2, <3>3
  <2>2. \A q \in Processors : Awaited(q)' <=> Awaited(q)
    BY <1>5 DEF Awaited
  <2>3. rest' \in {"destroyed", "deleting"} =>
          \A m \in Listed : watcher[m].mSubject # Nobody => m \in Range(walk')
    BY <1>1 DEF IInv, WalkInv
  <2>4. watcher' = watcher
    BY <1>1 DEF listVars
  <2> QED
    BY <1>5, <2>1, <2>2, <2>3, <2>4 DEF WalkInv
<1>12. AskedInv'
  <2>1. \A q \in Processors : asked["owner"] # q
    BY <1>1 DEF IInv, AskedInv
  <2>2. ASSUME NEW q \in Processors, asked'["worker"] = q
        PROVE  /\ Stage(q, InDestroy \cup {"off"})
               /\ ~mSignalState["destroy"] /\ mIsInitialized
               /\ awaited' = Nobody
    <3>1. q = p /\ Registered(q) /\ awaited' = Nobody
      BY <1>1, <1>3, <2>2, NobodyAssumption
    <3>2. Stage(q, {"registered", "destroying"})
      BY <3>1 DEF IInv, LifeInv
    <3>3. On(q) /\ ~Destroyed(q) /\ Stage(q, InDestroy \cup {"off"})
      BY <3>2 DEF On, Destroyed, Stage, InDestroy
    <3> QED
      BY <3>1, <3>3 DEF IInv, DestroyInv
  <2> QED
    BY <1>1, <1>4, <1>5, <2>1, <2>2 DEF AskedInv, modelVars
<1>13. CountInv'
  BY <1>1, <1>5 DEF IInv, CountInv, modelVars, listVars
<1> QED
  BY <1>6, <1>7, <1>8, <1>9, <1>10, <1>11, <1>12, <1>13 DEF IInv

LEMMA DestroySyncReturnsHolds ==
  ASSUME IInv, Machine', DestroySyncReturns
  PROVE  IInv'
<1>1. /\ UNCHANGED <<mSignal, mSignalState, phase, at, modelVars, listVars, mProcessorListMutex,
                     lifeVars, rest, walk, serving, toDestroy, asked>>
      /\ awaited' = Nobody /\ ~Awaited(awaited)
  BY DEF DestroySyncReturns, processorVars, hostVars
<1>2. /\ \A q \in Processors : \A stages : Stage(q, stages)' <=> Stage(q, stages)
      /\ UNCHANGED <<Units, Listed>>
  BY <1>1, SameList DEF Stage, lifeVars
<1>3. TypeOK'
  BY DEF DestroySyncReturns, IInv, Machine, TypeOK, modelVars, listVars, lifeVars, hostVars
<1>4. LifeInv' /\ RegisterInv'
  BY <1>1, <1>2 DEF IInv, LifeInv, RegisterInv, lifeVars, modelVars, listVars, Registered
<1>5. WatcherInv'
  <2>1. \A q \in Processors : awaited = q => ~Stage(q, {"lost"})
    BY <1>1 DEF Awaited, Stage
  <2> QED
    BY <1>1, <1>2, <2>1 DEF IInv, WatcherInv, listVars, On, Listing
<1>6. ListInv'
  BY <1>1, <1>2 DEF IInv, ListInv, listVars
<1>7. DestroyInv'
  BY <1>1, <1>2 DEF IInv, DestroyInv, listVars, modelVars, Registering, Destroyed, On, Undestroyed
<1>8. WalkInv'
  BY <1>1, <1>2 DEF IInv, WalkInv, listVars, Awaited, Expected
<1>9. AskedInv'
  BY <1>1, <1>2 DEF IInv, AskedInv, modelVars
<1>10. CountInv'
  BY <1>1, <1>2 DEF IInv, CountInv, modelVars, listVars
<1> QED
  BY <1>3, <1>4, <1>5, <1>6, <1>7, <1>8, <1>9, <1>10 DEF IInv

\* A destroy() that asked before the end of an earlier one and goes on after it.
LEMMA LateHolds ==
  ASSUME IInv, Machine', TypeOK', NEW who \in {"owner", "worker"}, NEW p \in Processors,
         asked[who] = p, asked' = [asked EXCEPT ![who] = Nobody], UNCHANGED toDestroy,
         awaited' = IF who = "worker" THEN p ELSE awaited,
         UNCHANGED <<processorVars, modelVars, listVars, mProcessorListMutex, hostVars>>,
         NEW l \in PL!DestroyCalledLate(lives[p]), Live(p, l),
         stranded' \subseteq stranded \cup {p}
  PROVE  IInv'
<1>1. /\ lives \in [Processors -> PL!Lives] /\ l = [lives[p] EXCEPT !.stage = "lost"]
      /\ lives[p].stage \in {"destroyed", "off"}
      /\ lives'[p] = l /\ \A q \in Processors : q # p => lives'[q] = lives[q]
      /\ asked \in [{"owner", "worker"} -> Processors \cup {Nobody}]
  BY LifeSteps DEF IInv, TypeOK, Live
<1>2. /\ l.stage = "lost" /\ l.context = "null" /\ ~l.registered
  BY <1>1 DEF IInv, LifeInv, Registered, Stage, PL!Lives
<1>3. /\ UNCHANGED <<mSignal, mSignalState, phase, at, mIsInitialized, mModel, mOccupiedContext,
                     mRegisteredProcessors, watcher, mTargetWatcher, mProcessorListMutex, rest,
                     walk, serving>>
      /\ UNCHANGED <<Units, Listed>>
  BY SameList DEF processorVars, modelVars, listVars, hostVars
<1>4. ~mSignalState["destroy"] /\ rest \notin {"lock destroyed", "destroyed"} /\ mIsInitialized
  <2>1. CASE who = "owner"
    <3>1. On(p)
      BY <2>1 DEF IInv, AskedInv, InDestroy, On, Stage
    <3> QED
      BY <2>1, <3>1 DEF IInv, AskedInv, DestroyInv
  <2>2. CASE who = "worker"
    BY <2>2 DEF IInv, AskedInv, DestroyInv, Undestroyed
  <2> QED
    BY <2>1, <2>2
<1>5. ~Listing(p)
  BY <1>1 DEF IInv, RegisterInv, Listing, Stage
<1>6. who = "owner" => On(p) /\ ~mSignal["destroy"] /\ ~Stage(p, {"off"})
  BY DEF IInv, AskedInv, InDestroy, On, Stage
<1>7. AskedStepped
  BY <1>1, NobodyAssumption DEF AskedStepped
<1>8. LifeInv'
  BY <1>1, <1>2, <1>3, ZenonT(60) DEF IInv, LifeInv, Stage, Registered
<1>9. WatcherInv'
  <2>1. \A q \in Processors : On(q) => On(q)'
    BY <1>1, <1>2 DEF On, Stage
  <2>2. \A q \in Processors : q # p => (On(q)' <=> On(q)) /\ (Stage(q, {"lost"})' <=> Stage(q, {"lost"}))
    BY <1>1 DEF On, Stage
  <2>3. \A q \in Processors : awaited = q => awaited' = q
    BY <1>7, AskedFacts
  <2>4. CASE Stage(p, {"off"})
    <3>1. awaited' = p /\ Stage(p, {"lost"})'
      BY <1>1, <1>2, <1>6, <2>4 DEF Stage
    <3> QED
      BY <1>3, <2>1, <2>2, <2>3, <3>1, ZenonT(60) DEF IInv, WatcherInv, Listing
  <2>5. CASE ~Stage(p, {"off"})
    <3>1. On(p) /\ ~Stage(p, {"lost"})
      BY <1>1, <2>5 DEF On, Stage
    <3> QED
      BY <1>3, <1>5, <2>1, <2>2, <2>3, <3>1 DEF IInv, WatcherInv, Listing
  <2> QED
    BY <2>4, <2>5
<1>10. ListInv'
  BY <1>3 DEF IInv, ListInv
<1>11. RegisterInv'
  BY <1>1, <1>3 DEF IInv, RegisterInv, Stage
<1>12. DestroyInv'
  <2>1. Registering' => Registering
    BY <1>1, <1>2 DEF Registering, Stage
  <2> QED
    BY <1>3, <1>4, <2>1 DEF IInv, DestroyInv
<1>13. WalkInv'
  <2>1. ASSUME NEW t \in Threads, Destroying(t)', NEW m \in Listed, NEW q \in Processors,
               watcher[m].mSubject = q, Awaited(q)'
        PROVE  Expected(m, q)'
    <3>1. CASE q = p
      <4>1. mSignal["destroy"]
        BY <2>1 DEF Machine, Destroying, processorVars
      <4> QED
        BY <1>6, <3>1, <4>1 DEF Expected
    <3>2. CASE q # p
      <4>1. Awaited(q) /\ Destroying(t)
        BY <1>1, <1>3, <2>1, <3>2 DEF Awaited, Stage, Destroying
      <4>2. Expected(m, q)
        BY <2>1, <4>1 DEF IInv, WalkInv, Destroying
      <4> QED
        BY <1>7, <4>2, AskedFacts DEF IInv, TypeOK, Listed
    <3> QED
      BY <3>1, <3>2
  <2> QED
    BY <1>3, <2>1 DEF IInv, WalkInv, Destroying
<1>14. AskedInv'
  <2>1. \A q \in Processors : Stage(q, InDestroy) => Stage(q, InDestroy)'
    BY <1>1, <1>2 DEF Stage, InDestroy
  <2>2. \A q \in Processors : q # p /\ Stage(q, {"off"}) => Stage(q, {"off"})'
    BY <1>1 DEF Stage
  <2>3. \A q \in Processors : asked'["owner"] = q => who = "worker" /\ asked["owner"] = q
    BY <1>1, NobodyAssumption
  <2>4. \A q \in Processors : asked'["worker"] = q => who = "owner" /\ asked["worker"] = q
    BY <1>1, NobodyAssumption
  <2>5. \A q \in Processors : ~(asked["owner"] = q /\ asked["worker"] = p)
    BY DEF IInv, AskedInv
  <2>6. \A q \in Processors : ~(asked["owner"] = p /\ asked["worker"] = q)
    BY DEF IInv, AskedInv
  <2> QED
    BY <2>3, <2>4, <2>5, <2>6 DEF AskedInv
<1>15. CountInv'
  BY <1>3 DEF IInv, CountInv
<1> QED
  BY <1>8, <1>9, <1>10, <1>11, <1>12, <1>13, <1>14, <1>15 DEF IInv

\* The second half of a destroy().
LEMMA RaiseHolds ==
  ASSUME IInv, Machine', DestroyGoesOn \/ DestroySyncGoesOn
  PROVE  IInv'
<1>1. PICK who \in {"owner", "worker"} :
         /\ RaiseDestroy(who)
         /\ awaited' = IF who = "worker" THEN asked[who] ELSE awaited
  BY DEF DestroyGoesOn, DestroySyncGoesOn
<1>2. PICK p \in Processors : asked[who] = p
  BY <1>1 DEF RaiseDestroy, IInv, TypeOK
<1>3. /\ UNCHANGED <<processorVars, modelVars, listVars, mProcessorListMutex, hostVars, toDestroy>>
      /\ asked' = [asked EXCEPT ![who] = Nobody]
      /\ lives \in [Processors -> PL!Lives]
      /\ asked \in [{"owner", "worker"} -> Processors \cup {Nobody}]
  BY <1>1 DEF DestroyGoesOn, DestroySyncGoesOn, RaiseDestroy, IInv, TypeOK
<1>4. AskedStepped
  BY <1>1, <1>2, <1>3, NobodyAssumption DEF AskedStepped
<1>5. /\ asked' \in [{"owner", "worker"} -> Processors \cup {Nobody}]
      /\ awaited' \in Processors \cup {Nobody}
  BY <1>1, <1>2, <1>3 DEF IInv, TypeOK
<1>6. \/ \E l \in PL!DestroyCalled(lives[p]) \cup PL!DestroyCalledLate(lives[p]) :
            Live(p, l) /\ Start(p)
      \/ UNCHANGED lifeVars
  BY <1>1, <1>2 DEF RaiseDestroy
<1>7. ASSUME NEW l \in PL!DestroyCalled(lives[p]) \cup PL!DestroyCalledLate(lives[p]),
             Live(p, l), Start(p)
      PROVE  IInv'
  <2>1. l \in PL!Lives
    BY <1>3, LifeTypes
  <2>2. lives' \in [Processors -> PL!Lives]
    BY <1>3, <1>7, <2>1 DEF Live
  <2>3. stranded' \in SUBSET Processors /\ stranded' \subseteq stranded \cup {p}
    BY <1>7 DEF Start, IInv, TypeOK
  <2>4. TypeOK'
    BY <1>3, <1>5, <2>2, <2>3 DEF IInv, Machine, TypeOK, modelVars, listVars, hostVars
  <2>5. CASE l \in PL!DestroyCalled(lives[p])
    <3>1. ProcessorStepped /\ UNCHANGED watcher
      BY <1>3, <1>4 DEF ProcessorStepped, processorVars, modelVars, listVars, hostVars, Destroying
    <3> QED
      BY <1>7, <2>3, <2>4, <2>5, <3>1, DestroyCallHolds
  <2>6. CASE l \in PL!DestroyCalledLate(lives[p])
    BY <1>1, <1>2, <1>3, <1>7, <2>3, <2>4, <2>6, LateHolds
  <2> QED
    BY <1>7, <2>5, <2>6
<1>8. CASE UNCHANGED lifeVars
  <2>1. TypeOK'
    BY <1>3, <1>5, <1>8 DEF IInv, Machine, TypeOK, modelVars, listVars, lifeVars, hostVars
  <2>2. \A q \in Processors : lives[q].context = "live" => mModel' = "live"
    BY <1>3 DEF IInv, LifeInv, modelVars
  <2>3. rest' \in {"lock register", "lock unregister"} => serving' \in Processors
    BY <1>3 DEF IInv, RegisterInv, hostVars
  <2> QED
    BY <1>3, <1>4, <1>8, <2>1, <2>2, <2>3, AsideHolds
    DEF processorVars, modelVars, hostVars, Destroying
<1> QED
  BY <1>6, <1>7, <1>8

LEMMA DestroyModelHolds ==
  ASSUME IInv, Machine', NEW t \in Threads, DestroyModel(t)
  PROVE  IInv'
<1>1. /\ at[t] = "destroy" /\ phase[t] = "job" /\ mProcessorListMutex = "worker" /\ toDestroy = <<>>
      /\ mSignalState' = [mSignalState EXCEPT !["destroy"] = TRUE]
      /\ phase' = [phase EXCEPT ![t] = "finish"]
      /\ UNCHANGED <<mSignal, at, mIsInitialized, mRegisteredProcessors, watcher, mTargetWatcher,
           lifeVars,
                     rest, walk, serving, destroyVars, mProcessorListMutex>>
      /\ mModel' = "null" /\ mOccupiedContext' = 0
      /\ mSignal["destroy"] /\ asked["worker"] = Nobody /\ awaited = Nobody
  <2>1. at[t] = "destroy" /\ phase[t] = "job"
    BY DEF DestroyModel, LP!FinishState
  <2>2. mSignal["destroy"]
    BY <2>1 DEF IInv, Machine
  <2> QED
    BY <2>2 DEF DestroyModel, LP!FinishState, hostVars
<1>2. ~Registering
  BY <1>1 DEF IInv, DestroyInv, Undestroyed
<1>3. rest \notin {"lock register", "lock update", "update"}
  BY <1>1 DEF IInv, DestroyInv, RegisterInv, Registering, Undestroyed
<1>4. \A p \in Processors : ~Awaited(p)
  <2>1. Range(toDestroy) = {}
    BY <1>1 DEF Range
  <2>2. \A p \in Processors : Awaited(p) => On(p)
    BY DEF Awaited, On, Stage
  <2>3. \A n \in Listed : \A p \in Processors : watcher[n].mSubject = p => ~Awaited(p)
    <3>1. \A n \in Listed : \A p \in Processors : ~Expected(n, p)
      BY <1>1, <2>1, NobodyAssumption DEF Expected
    <3> QED
      BY <1>1, <3>1 DEF IInv, WalkInv
  <2>4. ASSUME NEW p \in Processors, On(p)
        PROVE  mTargetWatcher[p] \in Listed /\ watcher[mTargetWatcher[p]].mSubject = p
    BY <1>1, <1>3, <2>4, NobodyAssumption DEF IInv, WatcherInv, Listing
  <2> QED
    BY <2>2, <2>3, <2>4
<1>5. \A p \in Processors : Destroyed(p) /\ lives[p].context = "null"
  <2>1. \A p \in Processors : lives[p].stage \in PL!Stages
    BY DEF IInv, TypeOK, PL!Lives
  <2> QED
    BY <1>2, <1>4, <2>1 DEF IInv, LifeInv, Destroyed, Registering, Awaited, Stage, PL!Stages,
       Registered
<1>6. /\ \A p \in Processors : \A stages : Stage(p, stages)' <=> Stage(p, stages)
      /\ Listed' = Listed /\ Units' = Units
  BY <1>1 DEF Stage, lifeVars, Listed, Units
<1>7. TypeOK'
  <2>1. 0 \in 0..mTotalContextSize
    BY LengthAssumption
  <2> QED
    BY <2>1 DEF DestroyModel, IInv, Machine, TypeOK, lifeVars, hostVars, destroyVars
<1>8. LifeInv'
  BY <1>1, <1>5, <1>6 DEF IInv, LifeInv, lifeVars, Registered
<1>9. WatcherInv'
  BY <1>1, <1>6 DEF IInv, WatcherInv, On, Listing, destroyVars
<1>10. ListInv' /\ RegisterInv'
  BY <1>1, <1>6 DEF IInv, ListInv, RegisterInv
<1>11. DestroyInv'
  BY <1>1, <1>5, <1>6 DEF IInv, DestroyInv, Registering, Destroyed, On, Undestroyed
<1>12. WalkInv'
  BY <1>1, <1>6 DEF IInv, WalkInv, Awaited, Expected, destroyVars
<1>13. CountInv'
  <2>1. mSignalState'["destroy"]
    BY <1>1 DEF Machine, LP!TypeOK
  <2> QED
    BY <1>6, <2>1 DEF IInv, CountInv
<1>14. AskedInv'
  BY <1>1, NobodyAssumption DEF IInv, AskedInv, destroyVars
<1> QED
  BY <1>7, <1>8, <1>9, <1>10, <1>11, <1>12, <1>13, <1>14 DEF IInv

-----------------------------------------------------------------------------
(* The invariant and what follows from it.                                 *)

LEMMA MachineFacts == LPP!IInv => Machine
<1> SUFFICES ASSUME LPP!IInv
             PROVE  Machine
  OBVIOUS
<1>1. LP!TypeOK
  BY DEF LPP!IInv, LPP!TypeOK, LP!TypeOK, LPP!Phases, LP!Phases, LPP!Callers, LP!Callers
<1>2. \A t \in Threads : phase[t] \in {"job", "finish"} => at[t] \in Signals /\ mSignal[at[t]]
  BY <1>1 DEF LPP!IInv, LPP!JobInv, LPP!SignalHeldDuringJob, LP!TypeOK
<1>3. \A t \in Threads : phase[t] = "finish" => mSignalState[at[t]]
  BY DEF LPP!IInv, LPP!JobInv
<1>4. \A t \in Threads : \A u \in Threads : phase[t] = "job" /\ phase[u] = "job" => t = u
  BY DEF LPP!IInv, LPP!OneJoinableWorker, LPP!Live
<1> QED
  BY <1>1, <1>2, <1>3, <1>4 DEF Machine

LEMMA InitHolds == Init /\ Machine => IInv
<1> SUFFICES ASSUME Init, Machine
             PROVE  IInv
  OBVIOUS
<1>1. /\ mRegisteredProcessors = <<>> /\ mRegisteredProcessors \in Seq(Nodes)
      /\ Listed = {} /\ IsFiniteSet(Units) /\ IsInjective(mRegisteredProcessors)
  <2>1. mRegisteredProcessors = <<>>
    BY DEF Init
  <2>2. Listed = {} /\ Units = {}
    BY <2>1, NoUnits
  <2> QED
    BY <2>1, <2>2, FS_EmptySet DEF IsInjective
<1>2. \A p \in Processors : lives[p] \in PL!Lives /\ lives[p].stage = "off" /\
        lives[p].context = "null" /\ ~lives[p].registered
  BY DEF Init, PL!Constructed, PL!Lives, PL!Stages
<1>3. TypeOK
  <2>1. lives \in [Processors -> PL!Lives]
    BY <1>2 DEF Init
  <2>2. watcher \in [Nodes -> Watchers]
    BY DEF Init, Watchers
  <2>3. 0 \in 0..mTotalContextSize
    BY LengthAssumption
  <2> QED
    BY <1>1, <2>1, <2>2, <2>3 DEF Init, Machine, TypeOK, Places, Rests, destroyVars
<1>4. \A s \in Signals : ~mSignal[s] /\ ~mSignalState[s]
  BY DEF Init, LP!Init, LP!Constructed
<1>5. \A t \in Threads : phase[t] = "none"
  BY DEF Init, LP!Init, LP!Constructed
<1>6. LifeInv
  BY <1>2 DEF Init, LifeInv, Stage, Registered
<1>7. WatcherInv
  BY <1>1, <1>2 DEF WatcherInv, On, Stage
<1>8. ListInv /\ RegisterInv
  BY <1>1 DEF Init, ListInv, RegisterInv
<1>9. DestroyInv
  BY <1>2, <1>4 DEF Init, DestroyInv, Stage, On, Signals, Undestroyed
<1>10. WalkInv
  BY <1>1 DEF WalkInv, Expected, destroyVars
<1>11. CountInv
  BY <1>1 DEF Init, CountInv
<1>12. AskedInv
  BY NobodyAssumption DEF Init, AskedInv
<1> QED
  BY <1>3, <1>6, <1>7, <1>8, <1>9, <1>10, <1>11, <1>12 DEF IInv

LEMMA StutterHolds == IInv /\ UNCHANGED vars => IInv'
<1> SUFFICES ASSUME IInv, UNCHANGED vars
             PROVE  IInv'
  OBVIOUS
<1>1. /\ Machine' /\ TypeOK'
  BY DEF vars, IInv, Machine, TypeOK, LP!TypeOK, processorVars, modelVars, listVars, lifeVars,
     hostVars, destroyVars
<1> QED
  BY <1>1, HostHolds DEF vars, processorVars

LEMMA NextHolds ==
  ASSUME IInv, Machine', Uses \subseteq Orderly, [Next]_vars
  PROVE  IInv'
<1>1. CASE Application
  BY <1>1, ApplicationAside, InitializeHolds, RegisterHolds, WalkStartsHold, OwnCallsHold
     DEF Application
<1>2. CASE Library
  BY <1>2, RaiseHolds, ApplicationAside, UpdateAside, RegisterListedHolds, UnregisteredHolds,
     DestroyNextHolds, WalkStartsHold, WalkFreedHolds, WalkProcessorHolds,
     UpdateDestroyedEndsHolds, DeleteDestroysHolds, DeleteFreesHolds DEF Library
<1>3. CASE UpdateCall
  <2>1. asked["owner"] = Nobody
    BY <1>3 DEF UpdateCall, UpdateDestroyed, UpdateInitialized, UpdateLora, UpdateProcessors,
       Update
  <2> QED
    BY <1>3, <2>1, UpdateAside
<1>4. ASSUME NEW t \in Threads, Worker(t)
      PROVE  IInv'
  BY <1>4, WorkerAside, WorkerLocksHolds, DestroySyncHolds, RaiseHolds, DestroySyncReturnsHolds,
     DestroyModelHolds DEF Worker
<1>5. ASSUME NEW p \in Processors, ProcessorWork(p)
      PROVE  IInv'
  BY <1>5, ProcessorWorkHolds
<1>6. CASE UNCHANGED vars
  BY <1>6, StutterHolds
<1> QED
  BY <1>1, <1>2, <1>3, <1>4, <1>5, <1>6 DEF Next

LEMMA Invariance ==
  ASSUME Uses \subseteq Orderly
  PROVE  Spec => []IInv
<1>1. Init /\ LPP!IInv => IInv
  BY InitHolds, MachineFacts
<1>2. IInv /\ LPP!IInv' /\ [Next]_vars => IInv'
  <2>1. LPP!IInv' => Machine'
    BY MachineFacts, PTL
  <2> QED
    BY <2>1, NextHolds
<1> QED
  BY <1>1, <1>2, MachineInvariant, PTL DEF Spec

\* For an orderly application the occupied context is at any time what the
\* listed nodes hold and the registration in progress has counted, whatever
\* processors and threads do meanwhile, and every live context is listed.
THEOREM ContextsStayAccounted ==
  ASSUME Uses \subseteq Orderly
  PROVE  Spec => []ContextsAccounted
<1>1. IInv => ContextsAccounted
  <2> SUFFICES ASSUME IInv
               PROVE  ContextsAccounted
    OBVIOUS
  <2>1. TypeOK
    BY DEF IInv
  <2>2. OccupancyAccounted
    BY DEF IInv, CountInv, OccupancyAccounted, Units
  <2>3. ContextsListed
    BY DEF IInv, LifeInv, WatcherInv, ContextsListed, On, Stage, Listing, Registered
  <2> QED
    BY <2>1, <2>2, <2>3 DEF ContextsAccounted
<1> QED
  BY <1>1, Invariance, PTL

\* For an orderly application no context is left when destroy or the destructor
\* frees the language model, and the list never leads to a deleted processor.
THEOREM NothingLeftDangling ==
  ASSUME Uses \subseteq Orderly
  PROVE  Spec => []NothingDangles
<1>1. IInv => NothingDangles
  <2> SUFFICES ASSUME IInv
               PROVE  NothingDangles
    OBVIOUS
  <2>1. NoContextOutlivesModel
    BY DEF IInv, LifeInv, NoContextOutlivesModel, Registered
  <2>2. \A n \in Listed : watcher[n].mSubject \in Processors \cup {Nobody}
    BY DEF IInv, TypeOK, Watchers, Listed
  <2>3. WatchersValid
    BY <2>2 DEF IInv, WatcherInv, WatchersValid, On, Stage
  <2> QED
    BY <2>1, <2>3 DEF NothingDangles
<1> QED
  BY <1>1, Invariance, PTL

\* A node that is released is in the list, and the one of the processor that goes.
ReleasedSafely ==
    \A n \in Nodes : watcher[n].mSubject # Nobody /\ watcher'[n].mSubject = Nobody =>
        /\ n \in Listed
        /\ lives'[watcher[n].mSubject] # lives[watcher[n].mSubject]

LEMMA LeaveReleases ==
  ASSUME IInv, NEW p \in Processors, On(p), ~Stage(p, {"lost"}), ~Listing(p),
         watcher' = Released(p), lives'[p] # lives[p]
  PROVE  ReleasedSafely
<1>1. mTargetWatcher[p] \in Listed /\ watcher[mTargetWatcher[p]].mSubject = p
  BY DEF IInv, WatcherInv
<1> QED
  BY <1>1 DEF ReleasedSafely, Released

LEMMA UpdateReleases ==
  ASSUME IInv, NEW p \in Processors, ProcessorUpdate(p), ~Listing(p)
  PROVE  ReleasedSafely
<1>1. PICK l \in PL!Updated(lives[p]) :
         Live(p, l) /\ watcher' = IF l.stage = "off" THEN Released(p) ELSE watcher
  BY DEF ProcessorUpdate
<1>2. lives[p] \in PL!Lives /\ lives'[p] = l
  BY <1>1 DEF IInv, TypeOK, Live
<1>3. On(p) /\ ~Stage(p, {"lost"}) /\ lives'[p] # lives[p]
  BY <1>2, LifeSteps DEF On, Stage
<1>4. CASE l.stage = "off"
  BY <1>1, <1>3, <1>4, LeaveReleases
<1>5. CASE l.stage # "off"
  BY <1>1, <1>5 DEF ReleasedSafely
<1> QED
  BY <1>4, <1>5

LEMMA StepsRelease ==
  ASSUME IInv, Uses \subseteq Orderly, [Next]_vars
  PROVE  ReleasedSafely
<1>1. UNCHANGED watcher => ReleasedSafely
  BY DEF ReleasedSafely
<1>2. ASSUME RegisterListed
      PROVE  ReleasedSafely
  <2>1. PICK n \in Nodes :
           watcher' = [watcher EXCEPT ![n] = [mSubject |-> serving,
                                              mContextLength |-> ContextLength[serving]]]
    <3>1. Listed \subseteq Nodes
      BY DEF IInv, TypeOK, Listed
    <3>2. Listed # Nodes
      BY <1>2 DEF IInv, RegisterInv, RegisterListed
    <3> QED
      BY <1>2, <3>1, <3>2 DEF RegisterListed
  <2>2. serving # Nobody /\ watcher \in [Nodes -> Watchers]
    BY <1>2, NobodyAssumption DEF IInv, TypeOK, RegisterInv, RegisterListed
  <2> QED
    BY <2>1, <2>2 DEF ReleasedSafely
<1>3. ASSUME NEW p \in Processors, UpdateProcessor(p)
      PROVE  ReleasedSafely
  BY <1>3, UpdateReleases DEF UpdateProcessor, Calling, Orderly, Listing
<1>4. ASSUME NEW p \in Processors, DeleteProcessor(p)
      PROVE  ReleasedSafely
  <2>1. CASE lives[p].context = "live"
    <3>0. PICK l \in PL!Deleted(lives[p]) : \E swept \in PL!Swept(l) : Live(p, swept)
      BY <1>4 DEF DeleteProcessor
    <3>1. PICK swept \in PL!Swept(l) : Live(p, swept)
      BY <3>0
    <3>2. lives[p] \in PL!Lives /\ lives'[p] = swept
      BY <3>1 DEF IInv, TypeOK, Live
    <3>3. /\ lives[p].stage \in {"off", "initialized", "registered", "destroyed"}
          /\ swept.stage = "deleted"
      BY <3>2, LifeSteps
    <3>4. lives[p].stage = "registered"
      BY <1>4, <2>1, <3>3 DEF IInv, LifeInv, DeleteProcessor, Calling, Orderly, Unreported,
         Stage, Registered
    <3>5. On(p) /\ ~Stage(p, {"lost"}) /\ ~Listing(p) /\ lives'[p] # lives[p] /\ watcher' = Released(p)
      BY <1>4, <2>1, <3>2, <3>3, <3>4 DEF On, Stage, IInv, RegisterInv, Listing, DeleteProcessor
    <3> QED
      BY <3>5, LeaveReleases
  <2>2. CASE lives[p].context # "live"
    BY <1>1, <1>4, <2>2 DEF DeleteProcessor
  <2> QED
    BY <2>1, <2>2
<1>5. ASSUME WalkProcessor
      PROVE  ReleasedSafely
  <2> DEFINE p == watcher[Head(walk)].mSubject
  <2>1. walk # <<>> /\ walk \in Seq(Nodes) /\ p # Nobody
    BY <1>5 DEF WalkProcessor, IInv, TypeOK
  <2>2. p \in Processors /\ ~Listing(p)
    BY <1>5, TailFacts DEF WalkProcessor, IInv, TypeOK, Watchers, Listing
  <2>3. ProcessorUpdate(p) \/ UNCHANGED watcher
    BY <1>5 DEF WalkProcessor
  <2> HIDE DEF p
  <2> QED
    BY <1>1, <2>2, <2>3, UpdateReleases
<1>6. CASE Application
  <2>1. initialize_model \/ start_lora_operation \/ destroy \/ Delete \/ LeaveCallback =>
          UNCHANGED watcher
    BY DEF initialize_model, start_lora_operation, destroy, Delete, LeaveCallback, listVars
  <2>2. \A p \in Processors : register(p) \/ unregister(p) \/ DestroyProcessor(p) =>
          UNCHANGED watcher
    BY DEF register, unregister, DestroyProcessor, listVars
  <2> QED
    BY <1>1, <1>3, <1>4, <1>6, <2>1, <2>2 DEF Application
<1>7. CASE Library
  <2>1. \/ ProcessorStep \/ Unregistered \/ DestroyNext \/ DestroySignalled \/ OwnerLocks \/
             WalkFreed
        \/ UpdateEnds \/ UpdateDestroyedEnds \/ DeleteStopped \/ DeleteDestroys \/ DeleteFrees
        \/ DestroyGoesOn
        => UNCHANGED watcher
    BY DEF ProcessorStep, Unregistered, DestroyNext, DestroySignalled, OwnerLocks, WalkFreed,
       UpdateEnds, UpdateDestroyedEnds, DeleteStopped, DeleteDestroys, DeleteFrees, DestroyGoesOn,
       listVars
  <2> QED
    BY <1>1, <1>2, <1>5, <1>7, <2>1 DEF Library
<1>8. UpdateCall => UNCHANGED watcher
  BY DEF UpdateCall, UpdateDestroyed, UpdateInitialized, UpdateLora, UpdateProcessors, listVars
<1>9. \A t \in Threads : Worker(t) => UNCHANGED watcher
  BY DEF Worker, Enter, Look, InitializeModel, InitializeFinished, WorkerLocks, DestroySync,
     DestroySyncGoesOn, DestroySyncReturns, DestroyModel, LoraOperate, FinishSignal,
     WriteInitFailed, WorkerUnlocks, Return, Exit, listVars
<1>10. \A p \in Processors : ProcessorWork(p) => UNCHANGED watcher
  BY DEF ProcessorWork, listVars
<1>11. UNCHANGED vars => UNCHANGED watcher
  BY DEF vars, listVars
<1> QED
  BY <1>1, <1>6, <1>7, <1>8, <1>9, <1>10, <1>11 DEF Next

\* Whenever a processor of an orderly application writes through its pointer to
\* a node, the node is still in the list and still that processor's.
THEOREM ReleasesAreSafe ==
  ASSUME Uses \subseteq Orderly
  PROVE  Spec => ReleaseIsSafe
<1>1. IInv /\ [Next]_vars => [ReleasedSafely]_vars
  BY StepsRelease
<1> QED
  BY <1>1, Invariance, PTL DEF Spec, ReleaseIsSafe, ReleasedSafely

-----------------------------------------------------------------------------
(* The KV cache of a processor.                                            *)

\* A KV cell.
Cells == [pos : Nat, token : Tokens]
\* Every cell is at its position, so that the language model sees its token.
InPlace(cs) == \A i \in 1..Len(cs) : cs[i].pos = i - 1
\* The tokens of the cells, in order.
TokensOf(cs) == [i \in 1..Len(cs) |-> cs[i].token]

\* Outside the logit store the cells are in place and begin with the locked ones, and without an input
\* there are no others; while a response is generated there is an input.
CacheInv == mode # "store" =>
    /\ mode \in {"clear", "lock"}
    /\ cells \in Seq(Cells) /\ Len(cells) <= mContextLength /\ InPlace(cells)
    /\ mPromptStartIndex \in Nat /\ mPromptStartIndex <= Len(cells)
    /\ mode = "clear" => mPromptStartIndex = 0
    /\ mLogitStartIndex \in Nat
    /\ mLogitStartIndex = 0 => Len(cells) = mPromptStartIndex
    /\ mFinishState = "CONTINUE" /\ logits => mContextCursor = Len(cells) /\ mLogitStartIndex > 0

\* Cells in place are cut behind the position.
LEMMA CellsCut ==
  ASSUME NEW cs \in Seq(Cells), InPlace(cs), NEW p \in Nat, p <= Len(cs)
  PROVE  SeqRm(cs, p) = SubSeq(cs, 1, p)
<1> DEFINE left == {i \in DOMAIN cs : cs[i].pos < p}
<1>1. Len(cs) \in Nat /\ DOMAIN cs = 1..Len(cs)
  OBVIOUS
<1>2. left = 1..p
  BY <1>1 DEF InPlace
<1>3. \A i \in Nat : Cardinality(1..i) = i
  <2> SUFFICES ASSUME NEW i \in Nat PROVE Cardinality(1..i) = i
    OBVIOUS
  <2>1. 1 \in Int /\ i \in Int
    OBVIOUS
  <2>2. Cardinality(1..i) = IF 1 > i THEN 0 ELSE i - 1 + 1
    BY <2>1, FS_Interval
  <2> QED
    BY <2>2
<1>4. \A n \in 1..p : (CHOOSE i \in left : Cardinality({k \in left : k <= i}) = n) = n
  <2>1. \A i \in left : {k \in left : k <= i} = 1..i
    BY <1>2
  <2>2. ASSUME NEW i \in left PROVE Cardinality({k \in left : k <= i}) = i
    <3>1. {k \in left : k <= i} = 1..i /\ i \in Nat
      BY <1>2, <2>1
    <3> QED
      BY <1>3, <3>1
  <2> HIDE DEF left
  <2> QED
    BY <1>2, <2>2
<1>5. SeqRm(cs, p) = [n \in 1..Cardinality(left) |->
                         cs[CHOOSE i \in left : Cardinality({k \in left : k <= i}) = n]]
  BY DEF SeqRm
<1> HIDE DEF left
<1>6. SeqRm(cs, p) = [n \in 1..p |-> cs[n]]
  BY <1>2, <1>3, <1>4, <1>5
<1>7. SubSeq(cs, 1, p) = [n \in 1..p |-> cs[n]]
  BY <1>1
<1> QED
  BY <1>6, <1>7

\* The beginning of the cells is in place as they are.
LEMMA CellsBegin ==
  ASSUME NEW cs \in Seq(Cells), InPlace(cs), NEW p \in Nat, p <= Len(cs)
  PROVE  /\ SubSeq(cs, 1, p) \in Seq(Cells) /\ Len(SubSeq(cs, 1, p)) = p
         /\ InPlace(SubSeq(cs, 1, p))
         /\ TokensOf(SubSeq(cs, 1, p)) = SubSeq(TokensOf(cs), 1, p)
<1> DEFINE b == SubSeq(cs, 1, p)
<1>1. b \in Seq(Cells) /\ Len(b) = p /\ \A i \in 1..p : b[i] = cs[i]
  OBVIOUS
<1> HIDE DEF b
<1>2. InPlace(b)
  BY <1>1 DEF InPlace
<1>3. TokensOf(b) = [i \in 1..p |-> cs[i].token]
  BY <1>1 DEF TokensOf
<1>4. SubSeq(TokensOf(cs), 1, p) = [i \in 1..p |-> cs[i].token]
  BY DEF TokensOf
<1> QED
  BY <1>1, <1>2, <1>3, <1>4 DEF b

\* Two sequences, one behind the other.
LEMMA Behind ==
  ASSUME NEW S, NEW s \in Seq(S), NEW t \in Seq(S)
  PROVE  /\ s \o t \in Seq(S) /\ Len(s \o t) = Len(s) + Len(t)
         /\ \A i \in 1..Len(s) : (s \o t)[i] = s[i]
         /\ \A i \in 1..Len(t) : (s \o t)[Len(s) + i] = t[i]
OBVIOUS

\* Tokens decoded behind cells in place are in place.
LEMMA CellsDecoded ==
  ASSUME NEW cs \in Seq(Cells), InPlace(cs), NEW ts \in Seq(Tokens),
  Len(cs) + Len(ts) <= mContextLength
  PROVE  /\ Decoded(cs, ts, Len(cs)) \in Seq(Cells) /\ InPlace(Decoded(cs, ts, Len(cs)))
         /\ Len(Decoded(cs, ts, Len(cs))) = Len(cs) + Len(ts)
         /\ TokensOf(Decoded(cs, ts, Len(cs))) = TokensOf(cs) \o ts
<1> DEFINE new == [i \in 1..Len(ts) |-> [pos |-> Len(cs) + i - 1, token |-> ts[i]]]
           d == cs \o new
<1>1. Len(cs) \in Nat /\ Len(ts) \in Nat /\ \A i \in 1..Len(ts) : ts[i] \in Tokens
  OBVIOUS
<1>2. Decoded(cs, ts, Len(cs)) = d
  BY ContextLengthAssumption, <1>1 DEF Decoded
<1>3. new \in Seq(Cells) /\ Len(new) = Len(ts)
      /\ \A i \in 1..Len(ts) : new[i].pos = Len(cs) + i - 1 /\ new[i].token = ts[i]
  <2>1. \A i \in 1..Len(ts) : [pos |-> Len(cs) + i - 1, token |-> ts[i]] \in Cells
    BY <1>1 DEF Cells
  <2> QED
    BY <1>1, <2>1
<1> HIDE DEF new
<1>4. /\ d \in Seq(Cells) /\ Len(d) = Len(cs) + Len(ts)
      /\ \A i \in 1..Len(cs) : d[i] = cs[i]
      /\ \A i \in 1..Len(ts) : d[Len(cs) + i] = new[i]
  <2>1. cs \in Seq(Cells) /\ new \in Seq(Cells)
    BY <1>3
  <2>2. /\ cs \o new \in Seq(Cells) /\ Len(cs \o new) = Len(cs) + Len(new)
        /\ \A i \in 1..Len(cs) : (cs \o new)[i] = cs[i]
        /\ \A i \in 1..Len(new) : (cs \o new)[Len(cs) + i] = new[i]
    BY ONLY <2>1, Behind
  <2> QED
    BY <1>3, <2>2
<1> HIDE DEF d
<1>5. \A i \in 1..Len(d) : i \in 1..Len(cs) \/ (i - Len(cs) \in 1..Len(ts) /\ i = Len(cs) + (i - Len(cs)))
  BY <1>1, <1>4
<1>6. ASSUME NEW i \in 1..Len(d)
      PROVE  d[i].pos = i - 1 /\ d[i].token = IF i <= Len(cs) THEN cs[i].token ELSE ts[i - Len(cs)]
  <2>1. CASE i \in 1..Len(cs)
    BY <1>1, <1>4, <2>1 DEF InPlace
  <2>2. CASE i \notin 1..Len(cs)
    <3>1. i - Len(cs) \in 1..Len(ts) /\ i = Len(cs) + (i - Len(cs)) /\ ~(i <= Len(cs))
      BY <1>1, <1>4, <1>5, <2>2
    <3>2. d[Len(cs) + (i - Len(cs))] = new[i - Len(cs)]
      BY <1>4, <3>1
    <3> QED
      BY <1>1, <1>3, <3>1, <3>2
  <2> QED
    BY <2>1, <2>2
<1>7. InPlace(d)
  BY <1>6 DEF InPlace
<1>8. TokensOf(d) = TokensOf(cs) \o ts
  <2>1. /\ TokensOf(cs) \o ts =
             [i \in 1..(Len(cs) + Len(ts)) |-> IF i <= Len(cs) THEN cs[i].token ELSE ts[i - Len(cs)]]
    BY <1>1 DEF TokensOf
  <2>2. TokensOf(d) = [i \in 1..(Len(cs) + Len(ts)) |-> d[i].token]
    BY <1>4 DEF TokensOf
  <2> QED
    BY <1>4, <1>6, <2>1, <2>2
<1> QED
  BY <1>2, <1>4, <1>7, <1>8

\* As many tokens as cells.
LEMMA TokensIn ==
  ASSUME NEW cs \in Seq(Cells)
  PROVE  TokensOf(cs) \in Seq(Tokens) /\ Len(TokensOf(cs)) = Len(cs)
<1>1. Len(cs) \in Nat /\ \A i \in 1..Len(cs) : cs[i] \in Cells
  OBVIOUS
<1>2. \A i \in 1..Len(cs) : cs[i].token \in Tokens
  BY <1>1 DEF Cells
<1> QED
  BY <1>1, <1>2 DEF TokensOf

\* What the language model sees of cells in place.
LEMMA SeenTokens == InPlace(cells) => Seen = TokensOf(cells)
BY DEF Seen, TokensOf, InPlace

\* An input starts from the locked cells, which in the default mode are none.
LEMMA InputBase ==
  ASSUME CacheInv, mode # "store", NEW v
  PROVE  /\ (IF mode = "clear" THEN <<>> ELSE CachedLogits(v)) = SubSeq(cells, 1, mPromptStartIndex)
         /\ mode = "lock" => CachedLogits(v) = SubSeq(cells, 1, mPromptStartIndex)
<1>1. /\ cells \in Seq(Cells) /\ InPlace(cells) /\ mPromptStartIndex \in Nat
      /\ mPromptStartIndex <= Len(cells) /\ mode \in {"clear", "lock"}
      /\ mode = "clear" => mPromptStartIndex = 0
      /\ mLogitStartIndex = 0 => Len(cells) = mPromptStartIndex
  BY DEF CacheInv
<1>2. SeqRm(cells, mPromptStartIndex) = SubSeq(cells, 1, mPromptStartIndex)
  BY <1>1, CellsCut
<1>3. SubSeq(cells, 1, 0) = <<>> /\ SubSeq(cells, 1, Len(cells)) = cells
  BY <1>1
<1>4. CASE mode = "clear"
  BY <1>1, <1>3, <1>4
<1>5. CASE mode = "lock"
  BY <1>1, <1>2, <1>3, <1>5 DEF CachedLogits
<1> QED
  BY <1>1, <1>4, <1>5

\* An empty cache.
LEMMA CacheStarts == CacheInit => CacheInv
<1> SUFFICES ASSUME CacheInit PROVE CacheInv
  OBVIOUS
<1>1. cells = <<>> /\ cells \in Seq(Cells) /\ Len(cells) = 0 /\ InPlace(cells)
  BY DEF CacheInit, InPlace
<1>2. mContextLength \in Nat
  BY ContextLengthAssumption
<1> QED
  BY <1>1, <1>2 DEF CacheInit, CacheInv

\* An input, of either kind, and what the abstract machine does with it.
LEMMA InputHolds ==
  ASSUME LongPrompts, CacheInv, mode # "store", NEW prompt \in Prompts, _decode_input(prompt)
  PROVE  CacheInv' /\ C!Prompt(prompt)
<1> DEFINE base == SubSeq(cells, 1, mPromptStartIndex)
<1>1. /\ cells \in Seq(Cells) /\ InPlace(cells) /\ mPromptStartIndex \in Nat
      /\ mPromptStartIndex <= Len(cells) /\ mode \in {"clear", "lock"}
      /\ mode = "clear" => mPromptStartIndex = 0
      /\ mContextLength \in Nat /\ Len(cells) \in Nat
  BY ContextLengthAssumption DEF CacheInv
<1>2. prompt \in Seq(Tokens) /\ Len(prompt) \in Nat /\ Len(prompt) > 1
  BY PromptsAssumption DEF LongPrompts
<1>3. /\ base \in Seq(Cells) /\ Len(base) = mPromptStartIndex /\ InPlace(base)
      /\ TokensOf(base) = SubSeq(TokensOf(cells), 1, mPromptStartIndex)
  BY <1>1, CellsBegin
<1>4. (IF mode = "clear" THEN <<>> ELSE CachedLogits(mLogitTokenVector)) = base
  BY InputBase
<1> HIDE DEF base
<1>5. /\ Fits(prompt) /\ cells' = Decoded(base, prompt, Len(base))
      /\ mContextCursor' = Len(cells') /\ mLogitStartIndex' = Len(cells') - 1
      /\ mFinishState' = "CONTINUE" /\ logits' = TRUE /\ UNCHANGED <<mode, mPromptStartIndex>>
  BY <1>4 DEF _decode_input
<1>6. Len(base) + Len(prompt) <= mContextLength
  BY <1>1, <1>2, <1>3, <1>5 DEF Fits, get_cache_token_count
<1>7. /\ cells' \in Seq(Cells) /\ InPlace(cells)' /\ Len(cells') = Len(base) + Len(prompt)
      /\ TokensOf(cells)' = TokensOf(base) \o prompt
  <2>1. /\ Decoded(base, prompt, Len(base)) \in Seq(Cells) /\ InPlace(Decoded(base, prompt, Len(base)))
        /\ Len(Decoded(base, prompt, Len(base))) = Len(base) + Len(prompt)
        /\ TokensOf(Decoded(base, prompt, Len(base))) = TokensOf(base) \o prompt
    BY <1>2, <1>3, <1>6, CellsDecoded
  <2> QED
    BY <1>5, <2>1 DEF InPlace, TokensOf
<1>8. CacheInv'
  BY <1>1, <1>2, <1>3, <1>5, <1>6, <1>7 DEF CacheInv
<1>9. Seen = TokensOf(cells) /\ Seen' = TokensOf(cells)'
  BY <1>1, <1>7, SeenTokens DEF Seen, TokensOf, InPlace
<1>10. TokensOf(base) \in Seq(Tokens) /\ Len(TokensOf(base)) = mPromptStartIndex
  BY <1>1, <1>3, TokensIn
<1>11. SubSeq(Seen', 1, mPromptStartIndex') = SubSeq(Seen, 1, mPromptStartIndex)
  BY <1>2, <1>3, <1>5, <1>7, <1>9, <1>10
<1>12. Seen' = C!Before \o prompt
  <2>1. C!Before = TokensOf(base)
    <3>1. CASE mode = "clear"
      <4>1. TokensOf(base) = <<>>
        BY <1>1, <1>10, <3>1
      <4> QED
        BY <3>1, <4>1 DEF C!Before
    <3>2. CASE mode = "lock"
      BY <1>3, <1>9, <3>2 DEF C!Before
    <3> QED
      BY <1>1, <3>1, <3>2
  <2> QED
    BY <1>7, <1>9, <2>1
<1>13. Len(Seen') <= mContextLength
  BY <1>6, <1>7, <1>9 DEF TokensOf
<1> QED
  BY <1>5, <1>8, <1>11, <1>12, <1>13 DEF C!Prompt

\* A locked prompt.
LEMMA LockHolds ==
  ASSUME CacheInv, mode # "store", NEW prompt \in Prompts, _decode_kv_locked_input(prompt)
  PROVE  CacheInv' /\ C!Lock(prompt)
<1> DEFINE base == SubSeq(cells, 1, mPromptStartIndex)
<1>1. /\ cells \in Seq(Cells) /\ InPlace(cells) /\ mPromptStartIndex \in Nat
      /\ mPromptStartIndex <= Len(cells) /\ mode = "lock" /\ mLogitStartIndex \in Nat
      /\ mContextLength \in Nat /\ Len(cells) \in Nat
  BY ContextLengthAssumption DEF CacheInv, _decode_kv_locked_input
<1>2. prompt \in Seq(Tokens) /\ Len(prompt) \in Nat
  BY PromptsAssumption
<1>3. /\ base \in Seq(Cells) /\ Len(base) = mPromptStartIndex /\ InPlace(base)
      /\ TokensOf(base) = SubSeq(TokensOf(cells), 1, mPromptStartIndex)
  BY <1>1, CellsBegin
<1>4. CachedLogits(mLogitTokenVector) = base
  BY <1>1, InputBase
<1> HIDE DEF base
<1>5. /\ Fits(prompt) /\ cells' = Decoded(base, prompt, Len(base))
      /\ mPromptStartIndex' = Len(cells') /\ logits' = FALSE
      /\ UNCHANGED <<mode, mContextCursor, mLogitStartIndex, mLogitTokenVector, mFinishState>>
  BY <1>4 DEF _decode_kv_locked_input
<1>6. Len(base) + Len(prompt) <= mContextLength
  BY <1>1, <1>2, <1>3, <1>5 DEF Fits, get_cache_token_count
<1>7. /\ cells' \in Seq(Cells) /\ InPlace(cells)' /\ Len(cells') = Len(base) + Len(prompt)
      /\ TokensOf(cells)' = TokensOf(base) \o prompt
  <2>1. /\ Decoded(base, prompt, Len(base)) \in Seq(Cells) /\ InPlace(Decoded(base, prompt, Len(base)))
        /\ Len(Decoded(base, prompt, Len(base))) = Len(base) + Len(prompt)
        /\ TokensOf(Decoded(base, prompt, Len(base))) = TokensOf(base) \o prompt
    BY <1>2, <1>3, <1>6, CellsDecoded
  <2> QED
    BY <1>5, <2>1 DEF InPlace, TokensOf
<1>8. CacheInv'
  BY <1>1, <1>2, <1>3, <1>5, <1>6, <1>7 DEF CacheInv
<1>9. Seen = TokensOf(cells) /\ Seen' = TokensOf(cells)'
  BY <1>1, <1>7, SeenTokens DEF Seen, TokensOf, InPlace
<1>10. SubSeq(Seen', 1, mPromptStartIndex') = Seen'
  <2>1. TokensOf(cells') \in Seq(Tokens) /\ Len(TokensOf(cells')) = Len(cells')
    BY <1>7, TokensIn
  <2>2. Seen' = TokensOf(cells')
    BY <1>9 DEF TokensOf
  <2> QED
    BY <1>5, <2>1, <2>2
<1>11. Seen' = SubSeq(Seen, 1, mPromptStartIndex) \o prompt
  BY <1>3, <1>7, <1>9
<1> QED
  BY <1>1, <1>5, <1>8, <1>10, <1>11 DEF C!Lock

\* A token of the response.
LEMMA TokenHolds ==
  ASSUME CacheInv, mode # "store", NEW token \in Tokens, DecodeToken(token)
  PROVE  CacheInv' /\ C!Answer(token)
<1>1. /\ cells \in Seq(Cells) /\ InPlace(cells) /\ mPromptStartIndex \in Nat
      /\ mPromptStartIndex <= Len(cells) /\ mode \in {"clear", "lock"}
      /\ mode = "clear" => mPromptStartIndex = 0
      /\ mContextLength \in Nat /\ Len(cells) \in Nat /\ Len(cells) <= mContextLength
      /\ mLogitStartIndex \in Nat
      /\ mLogitStartIndex = 0 => Len(cells) = mPromptStartIndex
      /\ mContextCursor = Len(cells) /\ mFinishState = "CONTINUE" /\ logits /\ mLogitStartIndex > 0
  BY ContextLengthAssumption DEF CacheInv, DecodeToken
<1>2. /\ cells' = Decoded(cells, <<token>>, Len(cells)) /\ mContextCursor # mContextLength
      /\ mContextCursor' = mContextCursor + 1
      /\ UNCHANGED <<mode, mLogitStartIndex, mPromptStartIndex, mFinishState, logits>>
  BY <1>1 DEF DecodeToken, ContextFull
<1>3. <<token>> \in Seq(Tokens) /\ Len(<<token>>) = 1 /\ Len(cells) + 1 <= mContextLength
  BY <1>1, <1>2
<1>4. /\ cells' \in Seq(Cells) /\ InPlace(cells)' /\ Len(cells') = Len(cells) + 1
      /\ TokensOf(cells)' = TokensOf(cells) \o <<token>>
  <2>1. /\ Decoded(cells, <<token>>, Len(cells)) \in Seq(Cells)
        /\ InPlace(Decoded(cells, <<token>>, Len(cells)))
        /\ Len(Decoded(cells, <<token>>, Len(cells))) = Len(cells) + 1
        /\ TokensOf(Decoded(cells, <<token>>, Len(cells))) = TokensOf(cells) \o <<token>>
    <3>1. Len(cells) + Len(<<token>>) <= mContextLength
      BY <1>3
    <3> QED
      BY <1>1, <1>3, <3>1, CellsDecoded
  <2> QED
    BY <1>2, <2>1 DEF InPlace, TokensOf
<1>5. CacheInv'
  BY <1>1, <1>2, <1>3, <1>4 DEF CacheInv
<1>6. Seen = TokensOf(cells) /\ Seen' = TokensOf(cells)'
  BY <1>1, <1>4, SeenTokens DEF Seen, TokensOf, InPlace
<1>7. Seen \in Seq(Tokens) /\ Len(Seen) = Len(cells)
  BY <1>1, <1>6, TokensIn
<1>8. Seen' = Seen \o <<token>>
  BY <1>4, <1>6
<1>9. Seen' = Append(Seen, token)
  BY <1>7, <1>8
<1>10. SubSeq(Seen', 1, mPromptStartIndex) = SubSeq(Seen, 1, mPromptStartIndex)
  BY <1>1, <1>7, <1>9
<1> QED
  BY <1>1, <1>2, <1>3, <1>5, <1>7, <1>9, <1>10 DEF C!Answer

\* The end of the response: the locked cells stay, or all of them without a lock.
LEMMA FinishHolds ==
  ASSUME CacheInv, mode # "store", NEW token \in Tokens, FinishGeneration(token)
  PROVE  CacheInv' /\ C!Finish(token)
<1> DEFINE base == SubSeq(cells, 1, mPromptStartIndex)
<1>1. /\ cells \in Seq(Cells) /\ InPlace(cells) /\ mPromptStartIndex \in Nat
      /\ mPromptStartIndex <= Len(cells) /\ mode \in {"clear", "lock"}
      /\ mode = "clear" => mPromptStartIndex = 0
      /\ mContextLength \in Nat /\ Len(cells) \in Nat /\ Len(cells) <= mContextLength
      /\ mLogitStartIndex \in Nat
      /\ mLogitStartIndex = 0 => Len(cells) = mPromptStartIndex
      /\ mFinishState = "CONTINUE" /\ logits
  BY ContextLengthAssumption DEF CacheInv, FinishGeneration
<1>2. /\ base \in Seq(Cells) /\ Len(base) = mPromptStartIndex /\ InPlace(base)
      /\ TokensOf(base) = SubSeq(TokensOf(cells), 1, mPromptStartIndex)
  BY <1>1, CellsBegin
<1>3. CachedLogits(Sampled(token)) = IF mode = "lock" THEN base ELSE cells
  <2>1. CASE mode = "lock"
    BY <2>1, InputBase
  <2>2. CASE mode = "clear"
    BY <2>2 DEF CachedLogits
  <2> QED
    BY <1>1, <2>1, <2>2
<1> HIDE DEF base
<1>4. /\ cells' = IF mode = "lock" THEN base ELSE cells
      /\ UNCHANGED <<mode, mPromptStartIndex, mLogitStartIndex>> /\ logits' = FALSE
  BY <1>3 DEF FinishGeneration
<1>5. /\ cells' \in Seq(Cells) /\ InPlace(cells)' /\ Len(cells') <= mContextLength
      /\ mPromptStartIndex <= Len(cells') /\ Len(cells') <= Len(cells)
  <2>1. CASE mode = "lock"
    <3>1. cells' = base
      BY <1>4, <2>1
    <3>2. Len(base) <= Len(cells) /\ Len(cells) <= mContextLength
      BY <1>1, <1>2
    <3> QED
      BY <1>1, <1>2, <1>4, <3>1, <3>2 DEF InPlace
  <2>2. CASE mode = "clear"
    BY <1>1, <1>4, <2>2 DEF InPlace
  <2> QED
    BY <1>1, <2>1, <2>2
<1>6. CacheInv'
  BY <1>1, <1>4, <1>5 DEF CacheInv
<1>7. Seen = TokensOf(cells) /\ Seen' = TokensOf(cells)'
  BY <1>1, <1>5, SeenTokens DEF Seen, TokensOf, InPlace
<1>8. TokensOf(cells)' = TokensOf(IF mode = "lock" THEN base ELSE cells)
  BY <1>4 DEF TokensOf
<1>9. Seen' = IF mode = "lock" THEN SubSeq(Seen, 1, mPromptStartIndex) ELSE Seen
  BY <1>2, <1>7, <1>8
<1>10. SubSeq(Seen', 1, mPromptStartIndex) = SubSeq(Seen, 1, mPromptStartIndex)
  <2>1. Seen \in Seq(Tokens) /\ Len(Seen) = Len(cells)
    BY <1>1, <1>7, TokensIn
  <2> QED
    BY <1>1, <1>9, <2>1
<1> QED
  BY <1>1, <1>4, <1>6, <1>9, <1>10 DEF C!Finish

\* A change of mode.
LEMMA ModeHolds ==
  ASSUME KeepsMode, CacheInv, NEW m \in {"clear", "store", "lock"}, set_manual_caching(m)
  PROVE  CacheInv' /\ (mode' # "store" => mode # "store" /\ C!SetMode(m))
<1>1. /\ mode' = m
      /\ UNCHANGED <<cells, cursorVars, mLogitTokenVector, mFinishState, logits>>
  BY DEF set_manual_caching
<1>2. mode = "clear" \/ m \in {mode, "store"}
  BY DEF set_manual_caching, KeepsMode
<1>3. Seen' = Seen
  BY <1>1 DEF Seen
<1>4. SUFFICES ASSUME m # "store" PROVE CacheInv' /\ mode # "store" /\ C!SetMode(m)
  BY <1>1 DEF CacheInv
<1>5. mode # "store"
  BY <1>2, <1>4
<1>6. mode = "clear" \/ m = mode
  BY <1>2, <1>4
<1>7. /\ cells \in Seq(Cells) /\ Len(cells) <= mContextLength /\ InPlace(cells)
      /\ mPromptStartIndex \in Nat /\ mPromptStartIndex <= Len(cells)
      /\ mode = "clear" => mPromptStartIndex = 0
      /\ mLogitStartIndex \in Nat
      /\ mLogitStartIndex = 0 => Len(cells) = mPromptStartIndex
      /\ mFinishState = "CONTINUE" /\ logits => mContextCursor = Len(cells) /\ mLogitStartIndex > 0
  BY <1>5 DEF CacheInv
<1>8. InPlace(cells)'
  BY <1>1, <1>7 DEF InPlace
<1>9. CacheInv'
  BY <1>1, <1>4, <1>6, <1>7, <1>8 DEF CacheInv, cursorVars
<1> QED
  BY <1>1, <1>3, <1>5, <1>9 DEF C!SetMode, cursorVars

\* A step, from outside the logit store or into it.
LEMMA CacheHolds ==
  ASSUME KeepsMode, LongPrompts, CacheInv, [CacheNext]_cacheVars
  PROVE  CacheInv' /\ (mode' # "store" => C!Next \/ UNCHANGED C!vars)
<1>1. CASE UNCHANGED cacheVars
  BY <1>1 DEF cacheVars, cursorVars, CacheInv, InPlace, Seen, C!vars
<1>2. ASSUME NEW m \in {"clear", "store", "lock"}, set_manual_caching(m)
      PROVE  CacheInv' /\ (mode' # "store" => C!Next)
  BY <1>2, ModeHolds DEF C!Next, C!Modes
<1>3. ASSUME mode = "store", UNCHANGED mode
      PROVE  CacheInv' /\ (mode' # "store" => C!Next)
  BY <1>3 DEF CacheInv
<1>4. ASSUME NEW prompt \in Prompts, _decode_input(prompt)
      PROVE  CacheInv' /\ (mode' # "store" => C!Next)
  <2>1. CASE mode = "store"
    BY <1>3, <1>4, <2>1 DEF _decode_input
  <2>2. CASE mode # "store"
    BY <1>4, <2>2, InputHolds DEF C!Next
  <2> QED
    BY <2>1, <2>2
<1>5. ASSUME NEW prompt \in Prompts, _decode_kv_locked_input(prompt)
      PROVE  CacheInv' /\ (mode' # "store" => C!Next)
  <2>1. mode # "store"
    BY <1>5 DEF _decode_kv_locked_input
  <2> QED
    BY <1>5, <2>1, LockHolds DEF C!Next
<1>6. ASSUME NEW token \in Tokens, DecodeToken(token)
      PROVE  CacheInv' /\ (mode' # "store" => C!Next)
  <2>1. CASE mode = "store"
    BY <1>3, <1>6, <2>1 DEF DecodeToken
  <2>2. CASE mode # "store"
    BY <1>6, <2>2, TokenHolds DEF C!Next
  <2> QED
    BY <2>1, <2>2
<1>7. ASSUME NEW token \in Tokens, FinishGeneration(token)
      PROVE  CacheInv' /\ (mode' # "store" => C!Next)
  <2>1. CASE mode = "store"
    BY <1>3, <1>7, <2>1 DEF FinishGeneration
  <2>2. CASE mode # "store"
    BY <1>7, <2>2, FinishHolds DEF C!Next
  <2> QED
    BY <2>1, <2>2
<1> QED
  BY <1>1, <1>2, <1>4, <1>5, <1>6, <1>7 DEF CacheNext

\* Whatever the vocabulary, the prompts and the size of the context, the cells of an application that
\* keeps to its mode are the context of the Conversation: each of its steps is one of the Conversation's
\* or none (InfProcessorTextToText::_decode_input, _decode_kv_locked_input, _decode_next,
\* _decode_cached_logits).
THEOREM ConversationKept ==
  ASSUME KeepsMode, LongPrompts
  PROVE  CacheSpec => KeepsConversation
<1>1. CacheInit => CacheInv /\ C!Init
  <2> SUFFICES ASSUME CacheInit PROVE CacheInv /\ C!Init
    OBVIOUS
  <2>1. Seen = <<>>
    BY DEF CacheInit, Seen
  <2>2. SubSeq(Seen, 1, mPromptStartIndex) = <<>>
    BY <2>1 DEF CacheInit
  <2> QED
    BY <2>1, <2>2, CacheStarts DEF CacheInit, C!Init
<1>2. CacheInv /\ [CacheNext]_cacheVars
      => CacheInv' /\ [mode' # "store" => C!Next \/ UNCHANGED C!vars]_cacheVars
  BY CacheHolds
<1> QED
  BY <1>1, <1>2, PTL DEF CacheSpec, KeepsConversation
=============================================================================
