------------------------------- MODULE MaipProofs -------------------------------
(***************************************************************************)
(* Proofs about the MAIP program: its contexts, for any number of          *)
(* sessions, connections, models and processors; and its users and model   *)
(* descriptions, for any number of users, sessions, names, flags and       *)
(* limits and any place where a crash tears a file.                        *)
(***************************************************************************)
EXTENDS MaipContexts, MaipAccounts, FiniteSetTheorems, TLAPS

Changing == {"initializing", "initialized", "init_failed"}
Working == {"ready", "decoding", "decoded"}

\* Of every session there is an entry in each map
Types ==
    /\ TypeOK
    /\ DOMAIN mIndexedProcMap = Sessions /\ DOMAIN mRegisteredProcMap = Sessions

\* A processor has a nominee and, while the program lives, a registered model.  One that is
\* changing has a living nominee unless that session left early; one that works is in its maps.
ProcInv == \A p \in Procs :
    /\ proc[p].state = "unused" <=> proc[p] = Unused
    /\ proc[p].state # "unused" => proc[p].nominee \in Sessions /\ proc[p].host \in Models
    /\ Runs /\ proc[p].state # "unused" => models[proc[p].host] = "registered"
    /\ proc[p].state \in Changing => proc[p].nominee \in mSessionMap \/ used # {}
    /\ Runs /\ proc[p].state \in Working =>
          proc[p].nominee \in mSessionMap /\ p \in Contexts(proc[p].nominee)

\* What a living session has in its maps works for it; an id the counter has not given is there
\* only if it was asked for.
MapInv == \A s \in mSessionMap :
    /\ \A p \in Contexts(s) : /\ proc[p].nominee = s /\ proc[p].state \in Working
                              /\ mRegisteredProcMap[s][p] < mContextCounter[s]
    /\ \A i \in DOMAIN mIndexedProcMap[s] :
          /\ i \notin asked[s] => i < mContextCounter[s]
          /\ mIndexedProcMap[s][i] # Nobody => mIndexedProcMap[s][i] \in Contexts(s)

\* There is an id for every context that is still initializing
CountInv == \A s \in mSessionMap :
    mContextCounter[s] + Cardinality(Initializing(s)) <= MaxContext + 1

IInv == Types /\ ProcInv /\ MapInv /\ CountInv /\ NoFreedUse /\ ContextsFound /\ AnswersReachAsker

-----------------------------------------------------------------------------

LEMMA Counting ==
  ASSUME ConstantsFit, NEW s
  PROVE  IsFiniteSet(Initializing(s)) /\ Cardinality(Initializing(s)) \in Nat
<1>1. Initializing(s) \subseteq Procs
  BY DEF Initializing
<1> QED
  BY <1>1, FS_Subset, FS_CardinalityType DEF ConstantsFit

\* No more contexts are initializing
LEMMA FewerChanging ==
  ASSUME ConstantsFit, Types, CountInv, mSessionMap' \subseteq mSessionMap,
         UNCHANGED mContextCounter,
         \A p \in Procs : proc'[p].state \in Changing =>
                             proc[p].state \in Changing /\ proc[p].nominee = proc'[p].nominee
  PROVE  CountInv'
<1> SUFFICES ASSUME NEW s \in mSessionMap'
             PROVE  mContextCounter[s] + Cardinality(Initializing(s)') <= MaxContext + 1
  BY DEF CountInv
<1>1. Initializing(s)' \subseteq Initializing(s)
  BY DEF Initializing, Changing
<1>2. /\ Cardinality(Initializing(s)') \in Nat
      /\ Cardinality(Initializing(s)') <= Cardinality(Initializing(s))
  BY <1>1, Counting, FS_Subset, FS_CardinalityType
<1>3. mContextCounter[s] + Cardinality(Initializing(s)) <= MaxContext + 1 /\
        mContextCounter[s] \in Nat
  BY DEF CountInv, Types, TypeOK
<1> QED
  BY <1>2, <1>3, Counting DEF ConstantsFit

LEMMA Startings == ConstantsFit /\ Init => IInv
<1> SUFFICES ASSUME ConstantsFit, Init
             PROVE  IInv
  OBVIOUS
<1>1. Types
  BY DEF Types, Init, TypeOK, ConstantsFit, Unused, States, Range
<1>2. ProcInv /\ MapInv /\ CountInv /\ NoFreedUse /\ ContextsFound /\ AnswersReachAsker
  BY DEF Init, ProcInv, MapInv, CountInv, NoFreedUse, ContextsFound, AnswersReachAsker, Unused,
     Changing, Working
<1> QED
  BY <1>1, <1>2 DEF IInv

\* A step of the models that leaves the processors alone
LEMMA ModelsHold ==
  ASSUME ConstantsFit, IInv, NEW m \in Models,
         LoadModel(m) \/ WorkerLoads(m) \/ WorkerFails(m) \/ UpdateLoading(m)
  PROVE  IInv'
<1>1. /\ Runs /\ models[m] # "registered"
      /\ models' \in [Models -> {"absent", "loading", "loaded", "load_ends", "load_failed",
                                "registered"}]
      /\ \A n \in Models : n # m => models'[n] = models[n]
      /\ UNCHANGED <<sessionVars, proc, answerVars, undefinedVars>>
  BY DEF LoadModel, WorkerLoads, WorkerFails, UpdateLoading, IInv, Types, TypeOK
<1>2. ProcInv'
  BY <1>1 DEF IInv, ProcInv, sessionVars, undefinedVars, Contexts
<1>3. /\ Types' /\ MapInv' /\ CountInv' /\ NoFreedUse' /\ ContextsFound' /\ AnswersReachAsker'
  BY <1>1 DEF IInv, Types, TypeOK, MapInv, CountInv, NoFreedUse, ContextsFound, AnswersReachAsker,
     sessionVars, answerVars, undefinedVars, Contexts, Initializing
<1> QED
  BY <1>2, <1>3 DEF IInv

LEMMA UnloadHolds ==
  ASSUME ConstantsFit, IInv, NEW m \in Models, UnloadModel(m)
  PROVE  IInv'
<1> DEFINE living == {p \in Hosted(m) : proc[p].state # "deleted"}
<1>1. /\ Runs /\ models[m] = "registered" /\ models' = [models EXCEPT ![m] = "absent"]
      /\ UNCHANGED <<sessionVars, answerVars>>
  BY DEF UnloadModel
<1>2. CASE living = {}
  <2>1. proc' = [p \in Procs |-> IF proc[p].host = m THEN Unused ELSE proc[p]]
        /\ UNCHANGED undefinedVars
    BY <1>2 DEF UnloadModel
  <2>2. \A p \in Procs : proc[p].host = m => proc[p].state = "deleted" /\ proc'[p] = Unused
    BY <1>2, <2>1 DEF Hosted
  <2>3. \A p \in Procs : proc[p].host # m => proc'[p] = proc[p]
    BY <2>1
  <2> HIDE DEF living
  <2>4. Types'
    BY <1>1, <2>1 DEF IInv, Types, TypeOK, Unused, States, sessionVars, answerVars, undefinedVars
  <2>5. ProcInv'
    BY <1>1, <2>1 DEF IInv, ProcInv, Unused, sessionVars, undefinedVars, Contexts, Changing,
       Working
  <2>6. MapInv'
    BY <1>1, <2>2, <2>3 DEF IInv, MapInv, sessionVars, Contexts, Working, Types, TypeOK
  <2>7. CountInv'
    BY <1>1, <2>2, <2>3, FewerChanging DEF IInv, sessionVars, Changing, Unused
  <2>8. NoFreedUse' /\ ContextsFound'
    BY <1>1, <2>1 DEF IInv, NoFreedUse, ContextsFound, sessionVars, undefinedVars, Contexts
  <2>9. AnswersReachAsker'
    BY <1>1, <2>2, <2>3 DEF IInv, AnswersReachAsker, sessionVars, answerVars, Unused, Types,
       TypeOK, ConstantsFit
  <2> QED
    BY <2>4, <2>5, <2>6, <2>7, <2>8, <2>9 DEF IInv
<1>3. CASE living # {}
  <2>1. /\ used' = used \cup {"unloaded"} /\ fault' # {} /\ fault' \subseteq
             {"peer", "processor", "model"}
        /\ proc' = proc
    BY <1>3 DEF UnloadModel, IInv, Types, TypeOK
  <2> HIDE DEF living
  <2>2. Types'
    BY <1>1, <2>1 DEF IInv, Types, TypeOK, sessionVars, answerVars
  <2>3. ProcInv' /\ NoFreedUse'
    BY <2>1 DEF IInv, ProcInv, NoFreedUse, Runs
  <2>4. MapInv' /\ CountInv' /\ ContextsFound' /\ AnswersReachAsker'
    BY <1>1, <2>1 DEF IInv, MapInv, CountInv, ContextsFound, AnswersReachAsker, sessionVars,
       answerVars, Contexts, Initializing
  <2> QED
    BY <2>2, <2>3, <2>4 DEF IInv
<1> QED
  BY <1>2, <1>3

LEMMA AccessHolds ==
  ASSUME ConstantsFit, IInv, NEW s \in Sessions, NEW conn \in ConnsOf[s], AccessRequest(s, conn)
  PROVE  IInv'
<1> USE DEF AccessRequest, answerVars, undefinedVars
<1>1. conn \in Conns
  BY DEF ConstantsFit
<1>2. /\ mIndexedProcMap'[s] = <<>> /\ mRegisteredProcMap'[s] = <<>> /\ mContextCounter'[s] = 1
      /\ asked'[s] = {}
      /\ \A r \in Sessions : r # s =>
            /\ mIndexedProcMap'[r] = mIndexedProcMap[r] /\
                 mRegisteredProcMap'[r] = mRegisteredProcMap[r]
            /\ mContextCounter'[r] = mContextCounter[r] /\ asked'[r] = asked[r]
            /\ mPeer'[r] = mPeer[r]
  BY DEF IInv, Types, TypeOK
<1>3. Types'
  BY DEF IInv, Types, TypeOK, ConstantsFit, Range
<1>4. ProcInv'
  BY DEF IInv, ProcInv, Contexts
<1>5. MapInv' /\ ContextsFound'
  BY <1>2 DEF IInv, MapInv, ContextsFound, Contexts
<1>6. CountInv'
  <2>1. Initializing(s)' = {} /\ \A r : Initializing(r)' = Initializing(r)
    BY DEF Initializing
  <2>2. Cardinality(Initializing(s)') = 0
    BY <2>1, FS_EmptySet
  <2>3. mContextCounter'[s] + Cardinality(Initializing(s)') <= MaxContext + 1
    BY <1>2, <2>2 DEF ConstantsFit
  <2>4. ASSUME NEW r \in mSessionMap, r # s
        PROVE  mContextCounter'[r] + Cardinality(Initializing(r)') <= MaxContext + 1
    <3>1. r \in Sessions
      BY DEF IInv, Types, TypeOK
    <3> QED
      BY <2>1 DEF IInv, CountInv
  <2> QED
    BY <2>3, <2>4 DEF CountInv
<1>7. NoFreedUse' /\ AnswersReachAsker'
  BY DEF IInv, NoFreedUse, AnswersReachAsker
<1> QED
  BY <1>3, <1>4, <1>5, <1>6, <1>7 DEF IInv

LEMMA DestroySessionHolds ==
  ASSUME ConstantsFit, IInv, NEW s \in Sessions, DestroySession(s)
  PROVE  IInv'
<1> USE DEF DestroySession, Cleanup
<1>1. \A p \in Procs : /\ proc'[p].nominee = proc[p].nominee /\ proc'[p].host = proc[p].host
                       /\ p \in Contexts(s) => proc'[p].state = "deleted"
                       /\ p \notin Contexts(s) => proc'[p] = proc[p]
                       /\ p \in Contexts(s) => proc[p].state \in Working
  BY DEF IInv, MapInv
<1>2. UNCHANGED <<mIndexedProcMap, mRegisteredProcMap, mContextCounter, asked, mPeer, fault,
                  models, deaf>>
      /\ Runs /\ s \in mSessionMap /\ mSessionMap' = mSessionMap \ {s} /\ used \subseteq used'
  OBVIOUS
<1>3. Types'
  BY DEF IInv, Types, TypeOK, States
<1>4. ProcInv'
  <2>1. \A p \in Procs : proc[p].nominee = s /\ proc[p].state \in Changing => used' # {}
    BY DEF Initializing, Changing
  <2> QED
    BY SMTT(30), <1>1, <1>2, <2>1 DEF IInv, ProcInv, Contexts, Working, Changing, Unused
<1>5. MapInv' /\ ContextsFound'
  BY DEF IInv, Types, TypeOK, MapInv, ContextsFound, Contexts
<1>6. CountInv'
  BY FewerChanging DEF IInv, Changing
<1>7. NoFreedUse' /\ AnswersReachAsker'
  BY DEF IInv, NoFreedUse, AnswersReachAsker
<1> QED
  BY <1>3, <1>4, <1>5, <1>6, <1>7 DEF IInv

\* The session of a request for context p has its connection, and every other context of the
\* session that has something due elsewhere is deaf
LEMMA PeerHolds ==
  ASSUME ConstantsFit, IInv, NEW s \in Sessions, NEW conn \in Conns, NEW p \in Procs,
         SetNetworkPeer(s, conn, p), UNCHANGED mSessionMap,
         \A q \in Procs : q # p => proc'[q].nominee = proc[q].nominee,
         \/ awaiting' = [awaiting EXCEPT ![p] = conn] /\ proc'[p].nominee = s
         \/ UNCHANGED <<proc, awaiting>> /\ proc[p].nominee = Nobody
  PROVE  AnswersReachAsker' /\ mPeer' \in [Sessions -> Conns \cup {Nobody}] /\ deaf' \subseteq Procs
<1>1. mPeer' = [mPeer EXCEPT ![s] = conn] /\ mPeer \in [Sessions -> Conns \cup {Nobody}]
  BY DEF SetNetworkPeer, IInv, Types, TypeOK
<1>2. deaf' = (IF conn = mPeer[s] THEN deaf
               ELSE deaf \cup {q \in Procs : proc[q].nominee = s /\ awaiting[q] # Nobody}) \ {p}
  BY DEF SetNetworkPeer
<1>3. deaf' \subseteq Procs
  BY <1>2 DEF IInv, Types, TypeOK
<1>4. ASSUME NEW q \in Procs, awaiting'[q] # Nobody, proc'[q].nominee \in mSessionMap, q \notin deaf'
      PROVE  mPeer'[proc'[q].nominee] = awaiting'[q]
  <2>1. mSessionMap \subseteq Sessions /\ awaiting \in [Procs -> Conns \cup {Nobody}]
        /\ Nobody \notin Sessions
    BY DEF IInv, Types, TypeOK, ConstantsFit
  <2>2. CASE q = p
    BY <1>1, <1>4, <2>1, <2>2
  <2>3. CASE q # p
    <3>1. proc[q].nominee = proc'[q].nominee /\ awaiting'[q] = awaiting[q]
      BY <2>1, <2>3
    <3>2. q \notin deaf /\ (proc[q].nominee = s => conn = mPeer[s])
      BY <1>2, <1>4, <2>3, <3>1
    <3>3. mPeer[proc[q].nominee] = awaiting[q]
      BY <1>4, <3>1, <3>2 DEF IInv, AnswersReachAsker
    <3> QED
      BY <1>1, <1>4, <2>1, <3>1, <3>2, <3>3
  <2> QED
    BY <2>2, <2>3
<1> QED
  BY <1>1, <1>3, <1>4 DEF AnswersReachAsker

LEMMA CreateHolds ==
  ASSUME ConstantsFit, IInv, NEW s \in Sessions, NEW conn \in ConnsOf[s], NEW m \in Models,
         NEW p \in Procs, CreateContext(s, conn, m, p)
  PROVE  IInv'
<1>0. conn \in Conns
  BY DEF ConstantsFit
<1>1. /\ proc[p] = Unused /\ proc[p].state = "unused" /\ proc[p].nominee = Nobody
      /\ Runs /\ s \in mSessionMap /\ models[m] = "registered"
      /\ mContextCounter[s] + Cardinality(Initializing(s)) <= MaxContext
      /\ SetNetworkPeer(s, conn, p)
      /\ UNCHANGED <<models, mSessionMap, mContextCounter, mIndexedProcMap, mRegisteredProcMap,
                     asked, undefinedVars>>
  BY DEF CreateContext, Unused
<1>2. CASE UNCHANGED <<proc, awaiting>>
  <2>1. AnswersReachAsker' /\ mPeer' \in [Sessions -> Conns \cup {Nobody}] /\ deaf' \subseteq Procs
    BY <1>0, <1>1, <1>2, PeerHolds
  <2> QED
    BY <1>1, <1>2, <2>1 DEF IInv, Types, TypeOK, ProcInv, MapInv, CountInv, NoFreedUse, ContextsFound,
       Runs, Contexts, Initializing, undefinedVars
<1>3. CASE /\ proc' = [proc EXCEPT ![p] = [state |-> "initializing", host |-> m, nominee |-> s]]
           /\ awaiting' = [awaiting EXCEPT ![p] = conn]
  <2>1. /\ proc'[p] = [state |-> "initializing", host |-> m, nominee |-> s]
        /\ \A q \in Procs : q # p => proc'[q] = proc[q]
    BY <1>3 DEF IInv, Types, TypeOK
  <2>2. AnswersReachAsker' /\ mPeer' \in [Sessions -> Conns \cup {Nobody}] /\ deaf' \subseteq Procs
    <3>1. proc'[p].nominee = s /\ \A q \in Procs : q # p => proc'[q].nominee = proc[q].nominee
      BY <2>1
    <3>2. awaiting' = [awaiting EXCEPT ![p] = conn]
      BY <1>3
    <3> QED
      BY <1>0, <1>1, <3>1, <3>2, PeerHolds
  <2>3. Types'
    BY <1>0, <1>1, <1>3, <2>2 DEF IInv, Types, TypeOK, States, undefinedVars
  <2>4. ProcInv'
    BY <1>1, <2>1 DEF IInv, ProcInv, Runs, Contexts, Working, Changing, Unused, undefinedVars
  <2>5. MapInv' /\ ContextsFound' /\ NoFreedUse'
    <3>1. \A r \in mSessionMap : p \notin Contexts(r)
      BY <1>1 DEF IInv, MapInv, Working
    <3>2. \A r \in mSessionMap : Contexts(r) \subseteq Procs
      BY DEF IInv, Types, TypeOK, Contexts
    <3>3. MapInv'
      BY <1>1, <2>1, <3>1, <3>2 DEF IInv, MapInv, Contexts
    <3>4. ContextsFound' /\ NoFreedUse'
      BY <1>1 DEF IInv, ContextsFound, Contexts, NoFreedUse, undefinedVars
    <3> QED
      BY <3>3, <3>4
  <2>6. CountInv'
    <3>1. /\ Initializing(s)' = Initializing(s) \cup {p} /\ p \notin Initializing(s)
          /\ \A r \in Sessions : r # s => Initializing(r)' = Initializing(r)
      BY <1>1, <2>1 DEF Initializing
    <3>2. Cardinality(Initializing(s)') = Cardinality(Initializing(s)) + 1
      BY <3>1, Counting, FS_AddElement
    <3>3. mContextCounter[s] + Cardinality(Initializing(s)') <= MaxContext + 1
      BY <1>1, <3>2, Counting DEF IInv, Types, TypeOK, ConstantsFit
    <3> QED
      BY <1>1, <3>1, <3>3 DEF IInv, Types, TypeOK, CountInv
  <2> QED
    BY <2>2, <2>3, <2>4, <2>5, <2>6 DEF IInv
<1> QED
  BY <1>2, <1>3 DEF CreateContext

\* A processor that stays its nominee's, in or out of work
LEMMA WorkerHolds ==
  ASSUME ConstantsFit, IInv, NEW p \in Procs,
         WorkerInitializes(p) \/ WorkerDecodes(p) \/ UpdateDecoded(p)
  PROVE  IInv'
<1>1. \E x \in States :
        /\ proc' = [proc EXCEPT ![p].state = x]
        /\ \/ proc[p].state \in Changing /\ x \in Changing
           \/ proc[p].state \in Working /\ x \in Working
  BY DEF WorkerInitializes, WorkerDecodes, UpdateDecoded, States, Changing, Working
<1>2. Runs /\ UNCHANGED <<models, sessionVars, answerVars, undefinedVars>>
  BY DEF WorkerInitializes, WorkerDecodes, UpdateDecoded
<1>3. \A q \in Procs :
         /\ proc'[q].nominee = proc[q].nominee /\ proc'[q].host = proc[q].host
         /\ proc'[q].state \in Changing <=> proc[q].state \in Changing
         /\ proc'[q].state \in Working <=> proc[q].state \in Working
         /\ proc'[q].state = "unused" <=> proc[q].state = "unused"
         /\ proc'[q].state = "unused" => proc'[q] = proc[q]
  BY <1>1 DEF Changing, Working
<1>4. Types'
  <2> DEFINE R == [state : States, host : Models \cup {Nobody}, nominee : Sessions \cup {Nobody}]
  <2>1. \A x \in States : [proc[p] EXCEPT !.state = x] \in R
    BY DEF IInv, Types, TypeOK
  <2>2. proc \in [Procs -> R]
    BY DEF IInv, Types, TypeOK
  <2> HIDE DEF R
  <2>3. proc' \in [Procs -> R]
    BY <1>1, <2>1, <2>2
  <2> USE DEF R
  <2> QED
    BY <1>2, <2>3 DEF IInv, Types, TypeOK, sessionVars, answerVars, undefinedVars
<1>5. ProcInv'
  BY <1>2, <1>3 DEF IInv, ProcInv, Contexts, sessionVars, undefinedVars, Unused
<1>6. MapInv' /\ ContextsFound' /\ NoFreedUse' /\ AnswersReachAsker'
  BY <1>2, <1>3 DEF IInv, Types, TypeOK, MapInv, ContextsFound, Contexts, NoFreedUse,
     AnswersReachAsker, sessionVars, answerVars, undefinedVars
<1>7. CountInv'
  BY <1>2, <1>3, FewerChanging DEF IInv, sessionVars
<1> QED
  BY <1>4, <1>5, <1>6, <1>7 DEF IInv

LEMMA InitializedHolds ==
  ASSUME ConstantsFit, IInv, NEW p \in Procs, UpdateInitialized(p)
  PROVE  IInv'
<1>0. PICK s \in Sessions : s = proc[p].nominee
  BY DEF UpdateInitialized, IInv, ProcInv
<1>1. /\ Runs /\ proc[p].state = "initialized" /\ models[proc[p].host] = "registered"
      /\ proc' = [proc EXCEPT ![p].state = "ready"]
      /\ awaiting' = [awaiting EXCEPT ![p] = Nobody] /\ deaf' = deaf \ {p}
      /\ UNCHANGED <<models, mSessionMap, mPeer, asked, used>>
  BY DEF UpdateInitialized, Answered
<1>2. /\ proc'[p].nominee = s /\ proc'[p].host = proc[p].host /\ proc'[p].state = "ready"
      /\ \A q \in Procs : q # p => proc'[q] = proc[q] /\ awaiting'[q] = awaiting[q]
      /\ awaiting'[p] = Nobody
      /\ \A r \in mSessionMap : p \notin Contexts(r)
      /\ mSessionMap \subseteq Sessions
  <2>1. \A r \in mSessionMap : p \notin Contexts(r)
    BY <1>1 DEF IInv, MapInv, Working
  <2>2. mSessionMap \subseteq Sessions /\ awaiting \in [Procs -> Conns \cup {Nobody}]
    BY DEF IInv, Types, TypeOK
  <2>3. proc'[p].nominee = s /\ proc'[p].host = proc[p].host /\ proc'[p].state = "ready"
        /\ \A q \in Procs : q # p => proc'[q] = proc[q]
    BY <1>0, <1>1 DEF IInv, Types, TypeOK
  <2> QED
    BY <1>1, <2>1, <2>2, <2>3
<1>3. AnswersReachAsker'
  BY <1>1, <1>2 DEF IInv, AnswersReachAsker
<1>4. CASE s \notin mSessionMap
  <2>1. fault' = {"peer"} /\ UNCHANGED <<mContextCounter, mIndexedProcMap, mRegisteredProcMap>>
    BY <1>0, <1>4 DEF UpdateInitialized
  <2>2. used # {}
    BY <1>0, <1>1, <1>4 DEF IInv, ProcInv, Changing
  <2>3. Types'
    <3> DEFINE R == [state : States, host : Models \cup {Nobody}, nominee : Sessions \cup {Nobody}]
    <3>0. proc \in [Procs -> R] /\ [proc[p] EXCEPT !.state = "ready"] \in R
      <4>1. proc \in [Procs -> R]
        BY DEF IInv, Types, TypeOK
      <4>2. proc[p] \in R /\ "ready" \in States
        BY <4>1 DEF States
      <4> QED
        BY <4>1, <4>2
    <3>1. proc' \in [Procs -> R]
      <4> HIDE DEF R
      <4> QED
        BY <1>1, <3>0
    <3>2. awaiting' \in [Procs -> Conns \cup {Nobody}] /\ deaf' \subseteq Procs
      BY <1>1 DEF IInv, Types, TypeOK
    <3> QED
      BY <1>1, <2>1, <3>1, <3>2 DEF IInv, Types, TypeOK
  <2>4. ProcInv' /\ NoFreedUse'
    BY <1>1, <2>1, <2>2 DEF IInv, ProcInv, NoFreedUse, Runs, Unused
  <2>5. MapInv' /\ ContextsFound'
    BY <1>1, <1>2, <2>1 DEF IInv, MapInv, ContextsFound, Contexts
  <2>6. CountInv'
    BY <1>1, <2>1, FewerChanging DEF IInv, Changing
  <2> QED
    BY <1>3, <2>3, <2>4, <2>5, <2>6 DEF IInv
<1>5. CASE s \in mSessionMap
  <2> DEFINE c == mContextCounter[s]
  <2>1. AddProcessor(s, p) /\ UNCHANGED fault
    BY <1>0, <1>5 DEF UpdateInitialized
  \* one fewer is initializing, so the counter had an id left
  <2>2. /\ Initializing(s)' = Initializing(s) \ {p} /\ p \in Initializing(s)
        /\ \A r \in Sessions : r # s => Initializing(r)' = Initializing(r)
    BY <1>1, <1>2 DEF Initializing
  <2>3. /\ Cardinality(Initializing(s)') = Cardinality(Initializing(s)) - 1
        /\ Cardinality(Initializing(s)') \in Nat
    BY <2>2, Counting, FS_RemoveElement, FS_CardinalityType
  <2>4. c \in Ids /\ c + 1 + Cardinality(Initializing(s)') <= MaxContext + 1
    <3>1. c + Cardinality(Initializing(s)) <= MaxContext + 1 /\ c \in 1..(MaxContext + 1)
      BY <1>5 DEF IInv, CountInv, Types, TypeOK
    <3> QED
      BY <2>3, <3>1, Counting DEF ConstantsFit, Ids
  <2>5. /\ mRegisteredProcMap'[s] = With(mRegisteredProcMap[s], p, c)
        /\ mIndexedProcMap'[s] = IF c \in DOMAIN mIndexedProcMap[s] THEN mIndexedProcMap[s]
                                 ELSE With(mIndexedProcMap[s], c, p)
        /\ mContextCounter'[s] = c + 1
        /\ \A r \in Sessions : r # s =>
              /\ mRegisteredProcMap'[r] = mRegisteredProcMap[r]
              /\ mIndexedProcMap'[r] = mIndexedProcMap[r] /\
                   mContextCounter'[r] = mContextCounter[r]
        /\ DOMAIN mIndexedProcMap' = Sessions /\ DOMAIN mRegisteredProcMap' = Sessions
        /\ mContextCounter' \in [Sessions -> 1..(MaxContext + 1)]
    <3>1. c + 1 \in 1..(MaxContext + 1)
      BY <2>4 DEF Ids, ConstantsFit
    <3> QED
      BY <2>1, <3>1 DEF AddProcessor, IInv, Types, TypeOK
  <2>6. /\ DOMAIN mRegisteredProcMap'[s] = Contexts(s) \cup {p}
        /\ mRegisteredProcMap'[s][p] = c
        /\ \A q \in Contexts(s) : mRegisteredProcMap'[s][q] = mRegisteredProcMap[s][q]
    BY <1>2, <1>5, <2>5 DEF With, Contexts
  <2>7. /\ DOMAIN mIndexedProcMap'[s] = DOMAIN mIndexedProcMap[s] \cup {c}
        /\ \A i \in DOMAIN mIndexedProcMap[s] : mIndexedProcMap'[s][i] = mIndexedProcMap[s][i]
        /\ c \notin DOMAIN mIndexedProcMap[s] => mIndexedProcMap'[s][c] = p
    BY <2>5 DEF With
  <2> HIDE DEF c
  <2>8. Types'
    <3>1. /\ DOMAIN mIndexedProcMap'[s] \subseteq Ids
          /\ \A i \in DOMAIN mIndexedProcMap'[s] : mIndexedProcMap'[s][i] \in Procs \cup {Nobody}
          /\ DOMAIN mRegisteredProcMap'[s] \subseteq Procs
          /\ \A q \in DOMAIN mRegisteredProcMap'[s] : mRegisteredProcMap'[s][q] \in Ids
      BY <2>4, <2>6, <2>7 DEF IInv, Types, TypeOK, Range, Contexts
    <3>2. \A r \in Sessions :
             /\ DOMAIN mIndexedProcMap'[r] \subseteq Ids
             /\ Range(mIndexedProcMap'[r]) \subseteq Procs \cup {Nobody}
             /\ DOMAIN mRegisteredProcMap'[r] \subseteq Procs
             /\ Range(mRegisteredProcMap'[r]) \subseteq Ids
      BY <2>5, <3>1 DEF IInv, Types, TypeOK, Range
    <3>3. /\ proc' \in [Procs -> [state : States, host : Models \cup {Nobody},
                                  nominee : Sessions \cup {Nobody}]]
          /\ awaiting' \in [Procs -> Conns \cup {Nobody}] /\ deaf' \subseteq Procs
      BY <1>1 DEF IInv, Types, TypeOK, States
    <3> QED
      BY <1>1, <2>1, <2>5, <3>2, <3>3 DEF IInv, Types, TypeOK
  <2>9. ProcInv'
    BY <1>1, <1>2, <1>5, <2>5, <2>6 DEF IInv, ProcInv, Contexts, Unused
  <2>10. MapInv'
    <3>1. c \in Nat /\ \A q \in Contexts(s) : mRegisteredProcMap[s][q] \in Nat
      <4>1. Ids \subseteq Nat
        BY DEF Ids
      <4>2. Range(mRegisteredProcMap[s]) \subseteq Ids
        BY DEF IInv, Types, TypeOK
      <4> QED
        BY <2>4, <4>1, <4>2 DEF Range, Contexts
    <3>2. \A q \in DOMAIN mRegisteredProcMap'[s] :
            /\ proc'[q].nominee = s /\ proc'[q].state \in Working
            /\ mRegisteredProcMap'[s][q] < c + 1
      <4>1. proc'[p].nominee = s /\ proc'[p].state \in Working
        BY <1>2 DEF Working
      <4>2. ASSUME NEW q \in Contexts(s)
            PROVE  /\ proc'[q].nominee = s /\ proc'[q].state \in Working
                   /\ mRegisteredProcMap'[s][q] < c + 1
        <5>1. /\ proc[q].nominee = s /\ proc[q].state \in Working
              /\ mRegisteredProcMap[s][q] < c
          BY <1>5 DEF IInv, MapInv, c
        <5>2. q \in Procs /\ q # p
          BY <1>2, <1>5 DEF IInv, Types, TypeOK, Contexts
        <5> QED
          BY <1>2, <2>6, <3>1, <5>1, <5>2
      <4> QED
        BY <2>6, <3>1, <4>1, <4>2
    <3>3. \A i \in DOMAIN mIndexedProcMap'[s] :
            /\ i \notin asked[s] => i < c + 1
            /\ mIndexedProcMap'[s][i] # Nobody =>
                 mIndexedProcMap'[s][i] \in DOMAIN mRegisteredProcMap'[s]
      <4>1. DOMAIN mIndexedProcMap[s] \subseteq Nat
        BY DEF IInv, Types, TypeOK, Ids
      <4> QED
        BY <1>5, <2>6, <2>7, <3>1, <4>1 DEF IInv, MapInv, c
    <3> QED
      BY <1>1, <1>2, <2>5, <3>2, <3>3 DEF IInv, MapInv, Contexts
  <2>11. ContextsFound'
    <3>1. c \in DOMAIN mIndexedProcMap[s] => c \in asked[s]
      BY <1>5, <2>4 DEF IInv, MapInv, c, Ids
    <3>2. \A q \in DOMAIN mRegisteredProcMap'[s] :
             mRegisteredProcMap'[s][q] \notin asked[s] =>
                /\ mRegisteredProcMap'[s][q] \in DOMAIN mIndexedProcMap'[s]
                /\ mIndexedProcMap'[s][mRegisteredProcMap'[s][q]] = q
      BY <1>5, <2>6, <2>7, <3>1 DEF IInv, ContextsFound
    <3> QED
      BY <1>1, <1>2, <2>5, <3>2 DEF IInv, ContextsFound, Contexts
  <2>12. CountInv'
    <3>1. mContextCounter'[s] + Cardinality(Initializing(s)') <= MaxContext + 1
      BY <2>4, <2>5
    <3>2. ASSUME NEW r \in mSessionMap, r # s
          PROVE  mContextCounter'[r] + Cardinality(Initializing(r)') <= MaxContext + 1
      BY <1>2, <2>2, <2>5, <3>2 DEF IInv, CountInv
    <3> QED
      BY <1>1, <3>1, <3>2 DEF CountInv
  <2>13. NoFreedUse'
    BY <1>1, <2>1 DEF IInv, NoFreedUse
  <2> QED
    BY <1>3, <2>8, <2>9, <2>10, <2>11, <2>12, <2>13 DEF IInv
<1> QED
  BY <1>4, <1>5

LEMMA FailedHolds ==
  ASSUME ConstantsFit, IInv, NEW p \in Procs, UpdateInitFailed(p)
  PROVE  IInv'
<1>1. /\ Runs /\ proc[p].state = "init_failed"
      /\ proc' = [proc EXCEPT ![p].state = "deleted"]
      /\ awaiting' = [awaiting EXCEPT ![p] = Nobody] /\ deaf' = deaf \ {p}
      /\ fault' = IF proc[p].nominee \in mSessionMap THEN fault ELSE {"peer"}
      /\ UNCHANGED <<models, sessionVars, used>>
  BY DEF UpdateInitFailed, Answered
<1>2. /\ proc'[p].nominee = proc[p].nominee /\ proc'[p].host = proc[p].host
      /\ proc'[p].state = "deleted"
      /\ \A q \in Procs : q # p => proc'[q] = proc[q] /\ awaiting'[q] = awaiting[q]
      /\ awaiting'[p] = Nobody
      /\ \A r \in mSessionMap : p \notin Contexts(r)
  BY <1>1 DEF IInv, Types, TypeOK, MapInv, Working
<1>3. Types'
  BY SMTT(30), <1>1 DEF IInv, Types, TypeOK, States, sessionVars
<1>4. ProcInv' /\ NoFreedUse'
  BY <1>1 DEF IInv, ProcInv, NoFreedUse, Contexts, Unused, Working, Changing, sessionVars
<1>5. MapInv' /\ ContextsFound'
  BY <1>1, <1>2 DEF IInv, MapInv, ContextsFound, Contexts, sessionVars
<1>6. CountInv'
  BY <1>1, FewerChanging DEF IInv, Changing, sessionVars
<1>7. AnswersReachAsker'
  BY <1>1, <1>2 DEF IInv, AnswersReachAsker, sessionVars
<1> QED
  BY <1>3, <1>4, <1>5, <1>6, <1>7 DEF IInv

LEMMA DeletedHolds ==
  ASSUME ConstantsFit, IInv, NEW p \in Procs, UpdateDeleted(p)
  PROVE  IInv'
<1>1. /\ Runs /\ proc[p].state = "deleted" /\ proc' = [proc EXCEPT ![p] = Unused]
      /\ UNCHANGED <<models, sessionVars, answerVars, undefinedVars>>
  BY DEF UpdateDeleted
<1>2. /\ proc'[p] = Unused /\ \A q \in Procs : q # p => proc'[q] = proc[q]
      /\ \A r \in mSessionMap : p \notin Contexts(r)
      /\ Nobody \notin mSessionMap
  BY <1>1 DEF IInv, Types, TypeOK, MapInv, Working, ConstantsFit
<1>3. Types'
  BY <1>1 DEF IInv, Types, TypeOK, States, Unused, sessionVars, answerVars, undefinedVars
<1>4. ProcInv' /\ NoFreedUse'
  BY <1>1 DEF IInv, ProcInv, NoFreedUse, Contexts, Unused, Working, Changing, sessionVars,
     undefinedVars
<1>5. MapInv' /\ ContextsFound'
  BY <1>1, <1>2 DEF IInv, MapInv, ContextsFound, Contexts, sessionVars
<1>6. CountInv'
  BY <1>1, FewerChanging DEF IInv, Changing, Unused, sessionVars
<1>7. AnswersReachAsker'
  BY <1>1, <1>2 DEF IInv, AnswersReachAsker, Unused, sessionVars, answerVars
<1> QED
  BY <1>3, <1>4, <1>5, <1>6, <1>7 DEF IInv

LEMMA MissingHolds ==
  ASSUME ConstantsFit, IInv, NEW s \in Sessions, NEW i \in Ids, ContextMissing(s, i)
  PROVE  IInv'
<1>1. /\ Runs /\ s \in mSessionMap
      /\ UNCHANGED <<models, mSessionMap, mPeer, mContextCounter, mRegisteredProcMap, proc,
           answerVars,
                     undefinedVars>>
  BY DEF ContextMissing
<1>2. CASE UNCHANGED <<mIndexedProcMap, asked>>
  BY <1>1, <1>2 DEF IInv, Types, TypeOK, ProcInv, MapInv, CountInv, NoFreedUse, ContextsFound,
     AnswersReachAsker, Contexts, Initializing, answerVars, undefinedVars
<1>3. CASE i \notin DOMAIN mIndexedProcMap[s]
  <2>1. /\ mIndexedProcMap' = [mIndexedProcMap EXCEPT ![s] = With(@, i, Nobody)]
        /\ asked' = [asked EXCEPT ![s] = @ \cup {i}]
    BY <1>3 DEF ContextMissing, Lookup
  <2>2. /\ mIndexedProcMap'[s] = With(mIndexedProcMap[s], i, Nobody)
        /\ asked'[s] = asked[s] \cup {i}
        /\ \A r \in Sessions : r # s => mIndexedProcMap'[r] = mIndexedProcMap[r] /\
             asked'[r] = asked[r]
        /\ DOMAIN mIndexedProcMap' = Sessions /\ asked' \in [Sessions -> SUBSET Ids]
    BY <2>1 DEF IInv, Types, TypeOK
  <2>3. /\ DOMAIN mIndexedProcMap'[s] = DOMAIN mIndexedProcMap[s] \cup {i}
        /\ mIndexedProcMap'[s][i] = Nobody
        /\ \A j \in DOMAIN mIndexedProcMap[s] : mIndexedProcMap'[s][j] = mIndexedProcMap[s][j]
    BY <1>3, <2>2 DEF With
  <2>4. Types'
    <3>1. /\ DOMAIN mIndexedProcMap'[s] \subseteq Ids
          /\ \A j \in DOMAIN mIndexedProcMap'[s] : mIndexedProcMap'[s][j] \in Procs \cup {Nobody}
      BY <2>3 DEF IInv, Types, TypeOK, Range
    <3> QED
      BY <1>1, <2>2, <3>1 DEF IInv, Types, TypeOK, answerVars, undefinedVars, Range
  <2>5. MapInv' /\ ContextsFound'
    <3>1. mSessionMap \subseteq Sessions
      BY DEF IInv, Types, TypeOK
    <3>2. MapInv'
      BY <1>1, <2>2, <2>3, <3>1 DEF IInv, MapInv, Contexts
    <3>3. ContextsFound'
      BY <1>1, <2>2, <2>3, <3>1 DEF IInv, ContextsFound, Contexts
    <3> QED
      BY <3>2, <3>3
  <2>6. ProcInv' /\ CountInv' /\ NoFreedUse' /\ AnswersReachAsker'
    BY <1>1 DEF IInv, ProcInv, CountInv, NoFreedUse, AnswersReachAsker, Contexts, Initializing,
       answerVars, undefinedVars
  <2> QED
    BY <2>4, <2>5, <2>6 DEF IInv
<1> QED
  BY <1>2, <1>3 DEF ContextMissing, Lookup

LEMMA DestroyContextHolds ==
  ASSUME ConstantsFit, IInv, NEW s \in Sessions, NEW i \in Ids, DestroyContext(s, i)
  PROVE  IInv'
BY DEF DestroyContext, IInv, Types, TypeOK, ProcInv, MapInv, CountInv, NoFreedUse, ContextsFound,
   AnswersReachAsker, Contexts, Initializing, sessionVars, answerVars

LEMMA ExecHolds ==
  ASSUME ConstantsFit, IInv, NEW s \in Sessions, NEW conn \in ConnsOf[s], NEW i \in Ids,
         ExecNext(s, conn, i)
  PROVE  IInv'
<1> DEFINE p == mIndexedProcMap[s][i]
<1>1. /\ Runs /\ s \in mSessionMap /\ p \in Contexts(s) /\ p \in Procs /\ conn \in Conns
      /\ proc[p].nominee = s /\ proc[p].state \in Working
  BY DEF ExecNext, Found, IInv, Types, TypeOK, MapInv, ConstantsFit, Contexts
<1>2. /\ proc' = [proc EXCEPT ![p].state = IF @ = "ready" THEN "decoding" ELSE @]
      /\ awaiting' = [awaiting EXCEPT ![p] = conn]
      /\ SetNetworkPeer(s, conn, p)
      /\ UNCHANGED <<models, mSessionMap, mContextCounter, mIndexedProcMap, mRegisteredProcMap,
                     asked, undefinedVars>>
  BY DEF ExecNext
<1> HIDE DEF p
<1>3. \A q \in Procs :
         /\ proc'[q].nominee = proc[q].nominee /\ proc'[q].host = proc[q].host
         /\ proc'[q].state \in Changing <=> proc[q].state \in Changing
         /\ proc'[q].state \in Working <=> proc[q].state \in Working
         /\ proc'[q].state = "unused" <=> proc[q].state = "unused"
         /\ proc'[q].state = "unused" => proc'[q] = proc[q]
  BY <1>1, <1>2 DEF Changing, Working
<1>4. AnswersReachAsker' /\ mPeer' \in [Sessions -> Conns \cup {Nobody}] /\ deaf' \subseteq Procs
  BY <1>1, <1>2, <1>3, PeerHolds
<1>5. Types'
  BY <1>1, <1>2, <1>4 DEF IInv, Types, TypeOK, States, undefinedVars
<1>6. ProcInv'
  BY <1>2, <1>3 DEF IInv, ProcInv, Runs, Contexts, undefinedVars, Unused
<1>7. MapInv' /\ ContextsFound' /\ NoFreedUse'
  BY <1>2, <1>3 DEF IInv, Types, TypeOK, MapInv, ContextsFound, Contexts, NoFreedUse,
     undefinedVars
<1>8. CountInv'
  BY <1>2, <1>3, FewerChanging DEF IInv
<1> QED
  BY <1>4, <1>5, <1>6, <1>7, <1>8 DEF IInv

-----------------------------------------------------------------------------

LEMMA NextHolds ==
  ASSUME ConstantsFit, IInv, [Next]_vars
  PROVE  IInv'
<1>1. CASE Die
  <2>1. /\ Init'
    BY <1>1 DEF Die, Init
  <2>2. ConstantsFit'
    OBVIOUS
  <2> QED
    BY <2>1, <2>2, Startings, PTL
<1>2. CASE UNCHANGED vars
  BY <1>2 DEF vars, IInv, Types, TypeOK, ProcInv, MapInv, CountInv, NoFreedUse, ContextsFound,
     AnswersReachAsker, Runs, Contexts, Initializing, sessionVars, answerVars, undefinedVars
<1>3. CASE Update \/ Worker
  BY <1>3, ModelsHold, WorkerHolds, InitializedHolds, FailedHolds, DeletedHolds
     DEF Update, Worker
<1>4. CASE Informatic \/ Execution
  BY <1>4, ModelsHold, UnloadHolds, AccessHolds, DestroySessionHolds, CreateHolds, MissingHolds,
     DestroyContextHolds, ExecHolds DEF Informatic, Execution
<1> QED
  BY <1>1, <1>2, <1>3, <1>4 DEF Next

LEMMA Invariance ==
  ASSUME ConstantsFit
  PROVE  Spec => []IInv
<1>1. Init => IInv
  BY Startings
<1>2. IInv /\ [Next]_vars => IInv'
  BY NextHolds
<1> QED
  BY <1>1, <1>2, PTL DEF Spec

\* For any number of sessions, connections, models and contexts: a context has one living session
\* and a registered model and is found under the id its client was told, what is deleted is touched
\* after the three known uses only, and all that a context sends reaches the connection that last
\* asked it, unless the session took another one for another context since.
THEOREM ContextsStay ==
  ASSUME ConstantsFit
  PROVE  Spec => []ContextsKept
<1>1. IInv => ContextsKept
  <2> SUFFICES ASSUME IInv
               PROVE  ContextsKept
    OBVIOUS
  <2>1. ContextsOwned
    <3> SUFFICES ASSUME NEW p \in Procs, Runs, proc[p].state \in Working
                 PROVE  /\ models[proc[p].host] = "registered"
                        /\ {s \in mSessionMap : p \in Contexts(s)} = {proc[p].nominee}
      BY DEF ContextsOwned, Working
    <3>1. /\ models[proc[p].host] = "registered"
          /\ proc[p].nominee \in mSessionMap /\ p \in Contexts(proc[p].nominee)
      BY DEF IInv, ProcInv, Working
    <3>2. \A s \in mSessionMap : p \in Contexts(s) => s = proc[p].nominee
      BY DEF IInv, MapInv
    <3> QED
      BY <3>1, <3>2
  <2> QED
    BY <2>1 DEF IInv, Types, ContextsKept
<1> QED
  BY <1>1, Invariance, PTL

-----------------------------------------------------------------------------
(* The users and the model descriptions.                                   *)


UserTypes ==
    /\ DOMAIN mUserMap \subseteq Users
    /\ \A u \in DOMAIN mUserMap : mUserMap[u] \in U!UserRecord
    /\ DOMAIN files \subseteq Users
    /\ \A u \in DOMAIN files : files[u] \in [keys : SUBSET {"identity"}, user : U!UserRecord]
    /\ DOMAIN tokens \subseteq Tokens
    /\ \A t \in DOMAIN tokens : tokens[t] \in Users
    /\ DOMAIN mModelDescriptionMap \subseteq Names \cup {U!None}
    /\ \A n \in DOMAIN mModelDescriptionMap : mModelDescriptionMap[n] \in U!DescriptionRecord
    /\ DOMAIN descriptionFiles \subseteq Names
    /\ \A n \in DOMAIN descriptionFiles : descriptionFiles[n] \in U!DescriptionRecord
    /\ adrift \subseteq Names \cup {U!None}
    /\ place \in U!Places
    /\ by \in {"super", "user"}

\* A file is rewritten for a user who exists, or for a description that has its names; a program
\* that is down holds nothing.
PlaceInv ==
    /\ place.at = "user" => place.name \in DOMAIN mUserMap
    /\ place.at = "description" => place.saved.custom \in Names /\ place.saved.original # U!None
    /\ place.at = "down" =>
          /\ DOMAIN mUserMap = {} /\ DOMAIN tokens = {} /\ DOMAIN mModelDescriptionMap = {}
          /\ adrift = {} /\ by = "super"

SessionInv == \A t \in DOMAIN tokens : tokens[t] \in DOMAIN mUserMap

\* A user's file is being rewritten or tells what the program holds.
FileTells(u) ==
    /\ u \in DOMAIN files /\ "identity" \in files[u].keys
    /\ [files[u].user EXCEPT !.flags = mUserMap[u].flags] = mUserMap[u]
    /\ files[u].user.flags \subseteq mUserMap[u].flags
FilesInv == \A u \in DOMAIN mUserMap : (place.at = "user" /\ place.name = u) \/ FileTells(u)

\* So with a description that has its names and was not read from another's torn file: it has a
\* file of its own name.
DescriptionsInv ==
    \A n \in DOMAIN mModelDescriptionMap \ adrift :
        mModelDescriptionMap[n].custom = n /\ mModelDescriptionMap[n].original # U!None =>
            \/ place.at = "description" /\ place.saved.custom = n
            \/ n \in DOMAIN descriptionFiles /\ U!Defaulted(descriptionFiles[n]).custom = n

UsersInv == UserTypes /\ PlaceInv /\ SessionInv /\ FilesInv /\ DescriptionsInv

-----------------------------------------------------------------------------
(* The operators on functions and records.                                 *)

LEMMA EmptyMap == DOMAIN <<>> = {}
OBVIOUS

\* The file of a user tells the whole record.
LEMMA UserFileTells ==
  ASSUME NEW user \in U!UserRecord
  PROVE  U!UserFile(U!UserKeys, user) = [keys |-> {"identity"}, user |-> user]
BY DEF U!UserRecord, U!UserFile, U!UserKeys, U!LoadedUser

LEMMA UserFileType ==
  ASSUME NEW keys, NEW user \in U!UserRecord
  PROVE  U!UserFile(keys, user) \in [keys : SUBSET {"identity"}, user : U!UserRecord]
<1>1. U!LoadedUser(keys, user) \in U!UserRecord
  BY DEF U!UserRecord, U!LoadedUser
<1> QED
  BY <1>1 DEF U!UserFile

LEMMA DefaultedIs ==
  ASSUME NEW d \in U!DescriptionRecord
  PROVE  /\ U!Defaulted(d) \in U!DescriptionRecord
         /\ U!Defaulted(d).original = d.original
         /\ d.custom # U!None => U!Defaulted(d) = d
         /\ d.original # U!None => U!Defaulted(d).custom # U!None
BY DEF U!DescriptionRecord, U!Defaulted

LEMMA LimitsFit ==
  ASSUME NEW m \in LimitValues \cup {0}, NEW n \in LimitValues \cup {0}
  PROVE  U!Least(m, n) \in LimitValues \cup {0}
BY UsersAssumption DEF U!ConstantsFit, U!Least

LEMMA CreatedFits ==
  ASSUME NEW want \in Created
  PROVE  [want EXCEPT !.limits = U!CreatedLimits(@), !.models = {}] \in U!UserRecord
<1>1. want \in U!UserRecord /\ want.limits \in [Limits -> LimitValues \cup {0}]
  BY UsersAssumption DEF U!ConstantsFit, U!UserRecord
<1>2. ASSUME NEW l \in Limits
      PROVE  U!CreatedLimits(want.limits)[l] \in LimitValues \cup {0}
  <2>1. CASE l = "batch_size"
    <3>1. U!CapOf[l] \in Limits
      BY <2>1, UsersAssumption DEF U!ConstantsFit, U!CapOf
    <3> QED
      BY <1>1, <2>1, <3>1, LimitsFit DEF U!CreatedLimits
  <2>2. CASE l = "proc_thread_count"
    <3>1. U!CapOf[l] \in Limits /\ 1 \in LimitValues
      BY <2>2, UsersAssumption DEF U!ConstantsFit, U!CapOf
    <3> QED
      BY <1>1, <2>2, <3>1, LimitsFit DEF U!CreatedLimits
  <2>3. CASE l \notin {"batch_size", "proc_thread_count"}
    BY <1>1, <2>3 DEF U!CreatedLimits
  <2> QED
    BY <2>1, <2>2, <2>3
<1>3. U!CreatedLimits(want.limits) \in [Limits -> LimitValues \cup {0}]
  BY <1>2 DEF U!CreatedLimits
<1> QED
  BY <1>1, <1>3 DEF U!UserRecord

-----------------------------------------------------------------------------
(* The invariant is kept by every step.                                    *)

LEMMA TypesOK == UserTypes => U!TypeOK
BY DEF UserTypes, U!TypeOK, U!Range

LEMMA InitHolds == U!Init => UsersInv
BY EmptyMap DEF U!Init, UsersInv, UserTypes, PlaceInv, SessionInv, FilesInv, DescriptionsInv,
  U!Places,
  U!Main

LEMMA SetUserHolds ==
  ASSUME UsersInv, place = U!Main, by' \in {"super", "user"},
         NEW u \in Users, NEW record \in U!UserRecord, U!SetUser(u, record)
  PROVE  UsersInv'
<1>1. /\ DOMAIN mUserMap' = DOMAIN mUserMap \cup {u}
      /\ mUserMap'[u] = record
      /\ \A v \in DOMAIN mUserMap : v # u => mUserMap'[v] = mUserMap[v]
  <2>1. mUserMap' = U!With(mUserMap, u, record)
    BY DEF U!SetUser
  <2> QED
    BY <2>1 DEF U!With
<1>2. place' = [at |-> "user", name |-> u] /\ place.at = "main"
  BY DEF U!SetUser, U!SaveUser, U!Main
<1>3. UNCHANGED <<files, tokens, mModelDescriptionMap, descriptionFiles, adrift>>
  BY DEF U!SetUser, U!descriptions, U!saved
<1>4. UserTypes'
  BY <1>1, <1>2, <1>3 DEF UsersInv, UserTypes, U!Places
<1>5. PlaceInv'
  BY <1>1, <1>2 DEF PlaceInv
<1>6. SessionInv'
  BY <1>1, <1>3 DEF UsersInv, SessionInv
<1>7. FilesInv'
  BY <1>1, <1>2, <1>3 DEF UsersInv, FilesInv, FileTells
<1>8. DescriptionsInv'
  BY <1>2, <1>3 DEF UsersInv, DescriptionsInv
<1> QED
  BY <1>4, <1>5, <1>6, <1>7, <1>8 DEF UsersInv

\* A request about descriptions changes one entry, to what it saves or to nothing.
LEMMA SavesHolds ==
  ASSUME UsersInv, place = U!Main, by' \in {"super", "user"},
         NEW d \in U!DescriptionRecord, U!Saves(d),
         NEW key \in Names \cup {U!None},
         UNCHANGED <<U!users, tokens, U!saved>>,
         key \in DOMAIN mModelDescriptionMap',
         DOMAIN mModelDescriptionMap' \subseteq DOMAIN mModelDescriptionMap \cup {key},
         \A n \in DOMAIN mModelDescriptionMap' :
            n # key => mModelDescriptionMap'[n] = mModelDescriptionMap[n],
         mModelDescriptionMap'[key] \in {U!Defaulted(d), [custom |-> U!None, original |-> U!None]}
  PROVE  UsersInv'
<1>1. U!Defaulted(d) \in U!DescriptionRecord /\ U!Defaulted(d).original = d.original
      /\ (d.original # U!None => U!Defaulted(d).custom # U!None)
  BY DefaultedIs
<1>2. U!Defaulted(d).custom \in Names \cup {U!None} /\ place.at = "main"
  BY <1>1 DEF U!DescriptionRecord, U!Main
<1>3. \/ d.original = U!None /\ place' = place
      \/ d.original # U!None /\ place' = [at |-> "description", saved |-> U!Defaulted(d)]
  BY DEF U!Saves
<1>4. UNCHANGED <<mUserMap, files, tokens, descriptionFiles, adrift>>
  BY DEF U!users, U!saved
<1>5. mModelDescriptionMap'[key] \in U!DescriptionRecord
  BY <1>1 DEF U!DescriptionRecord
<1>6. place' \in U!Places
  BY <1>1, <1>2, <1>3 DEF U!Places, U!Main
<1>7. UserTypes'
  BY <1>4, <1>5, <1>6 DEF UsersInv, UserTypes
<1>8. PlaceInv'
  BY <1>1, <1>2, <1>3 DEF PlaceInv
<1>9. SessionInv'
  BY <1>4 DEF UsersInv, SessionInv
<1>10. FilesInv'
  BY <1>2, <1>4 DEF UsersInv, FilesInv, FileTells
<1>11. DescriptionsInv'
  <2> SUFFICES ASSUME NEW n \in DOMAIN mModelDescriptionMap' \ adrift,
                      mModelDescriptionMap'[n].custom = n,
                      mModelDescriptionMap'[n].original # U!None
               PROVE  \/ place'.at = "description" /\ place'.saved.custom = n
                      \/ n \in DOMAIN descriptionFiles /\
                           U!Defaulted(descriptionFiles[n]).custom = n
    BY <1>4 DEF DescriptionsInv
  <2>1. CASE n = key
    BY <1>1, <1>3, <2>1
  <2>2. CASE n # key
    BY <1>2, <2>2 DEF UsersInv, DescriptionsInv
  <2> QED
    BY <2>1, <2>2
<1> QED
  BY <1>7, <1>8, <1>9, <1>10, <1>11 DEF UsersInv

LEMMA SessionRequestHolds ==
  ASSUME UsersInv, U!SessionRequest
  PROVE  UsersInv'
<1>1. UNCHANGED <<mUserMap, files, mModelDescriptionMap, descriptionFiles, adrift, place>>
  BY DEF U!SessionRequest, U!AccessRequest, U!DestroySession, U!users, U!descriptions, U!saved
<1>2. /\ DOMAIN tokens' \subseteq Tokens
      /\ \A t \in DOMAIN tokens' : tokens'[t] \in DOMAIN mUserMap
  <2>1. ASSUME NEW t \in Tokens, NEW u \in Users, U!AccessRequest(t, u)
        PROVE  <1>2
    <3>1. tokens' = U!With(tokens, t, u) /\ u \in DOMAIN mUserMap
      BY <2>1 DEF U!AccessRequest
    <3> QED
      BY <3>1 DEF U!With, UsersInv, UserTypes, SessionInv
  <2>2. ASSUME NEW t \in Tokens, U!DestroySession(t)
        PROVE  <1>2
    <3>1. tokens' = U!Without(tokens, {t})
      BY <2>2 DEF U!DestroySession
    <3> QED
      BY <3>1 DEF U!Without, U!Restrict, UsersInv, UserTypes, SessionInv
  <2> QED
    BY <2>1, <2>2 DEF U!SessionRequest
<1>3. by' \in {"super", "user"} /\ place = U!Main
  BY DEF U!SessionRequest, U!AccessRequest, U!DestroySession, U!By
<1>4. UserTypes'
  BY <1>1, <1>2, <1>3 DEF UsersInv, UserTypes
<1>5. PlaceInv'
  BY <1>1, <1>3 DEF UsersInv, PlaceInv, U!Main
<1>6. SessionInv'
  BY <1>1, <1>2 DEF SessionInv
<1>7. FilesInv' /\ DescriptionsInv'
  BY <1>1 DEF UsersInv, FilesInv, FileTells, DescriptionsInv
<1> QED
  BY <1>4, <1>5, <1>6, <1>7 DEF UsersInv

LEMMA CreateUserHolds ==
  ASSUME UsersInv, place = U!Main, by' \in {"super", "user"},
         NEW u \in Users, NEW want \in Created, U!CreateUser(u, want)
  PROVE  UsersInv'
BY CreatedFits, SetUserHolds DEF U!CreateUser

LEMMA DeleteUserHolds ==
  ASSUME UsersInv, NEW c \in Users, NEW u \in Users, U!DeleteUser(c, u)
  PROVE  UsersInv'
<1>1. /\ DOMAIN mUserMap' = DOMAIN mUserMap \ {u}
      /\ \A v \in DOMAIN mUserMap' : mUserMap'[v] = mUserMap[v]
  <2>1. mUserMap' = U!Without(mUserMap, {u})
    BY DEF U!DeleteUser
  <2> QED
    BY <2>1 DEF U!Without, U!Restrict
<1>2. /\ DOMAIN tokens' = DOMAIN tokens \ {t \in DOMAIN tokens : tokens[t] = u}
      /\ \A t \in DOMAIN tokens' : tokens'[t] = tokens[t]
  <2>1. tokens' = U!Without(tokens, {t \in DOMAIN tokens : tokens[t] = u})
    BY DEF U!DeleteUser
  <2> QED
    BY <2>1 DEF U!Without, U!Restrict
<1>3. place = U!Main /\ by' \in {"super", "user"}
      /\ UNCHANGED <<files, mModelDescriptionMap, descriptionFiles, adrift, place>>
  BY DEF U!DeleteUser, U!Asks, U!By, U!descriptions, U!saved
<1>4. UserTypes'
  BY <1>1, <1>2, <1>3 DEF UsersInv, UserTypes
<1>5. PlaceInv'
  BY <1>3 DEF PlaceInv, U!Main
<1>6. SessionInv'
  BY <1>1, <1>2 DEF UsersInv, SessionInv
<1>7. FilesInv'
  BY <1>1, <1>3 DEF UsersInv, FilesInv, FileTells
<1>8. DescriptionsInv'
  BY <1>3 DEF UsersInv, DescriptionsInv
<1> QED
  BY <1>4, <1>5, <1>6, <1>7, <1>8 DEF UsersInv

LEMMA SetAuthorityFlagsHolds ==
  ASSUME UsersInv, NEW c \in Users, NEW u \in Users, NEW flags \in SUBSET Flags,
         U!SetAuthorityFlags(c, u, flags)
  PROVE  UsersInv'
<1>1. u \in DOMAIN mUserMap /\ mUserMap[u] \in U!UserRecord
  BY DEF U!SetAuthorityFlags, UsersInv, UserTypes
<1>2. /\ DOMAIN mUserMap' = DOMAIN mUserMap
      /\ mUserMap'[u] = [mUserMap[u] EXCEPT !.flags = @ \cup flags]
      /\ \A v \in DOMAIN mUserMap : v # u => mUserMap'[v] = mUserMap[v]
  BY <1>1 DEF U!SetAuthorityFlags
<1>3. place = U!Main /\ by' \in {"super", "user"}
      /\ UNCHANGED <<files, tokens, mModelDescriptionMap, descriptionFiles, adrift, place>>
  BY DEF U!SetAuthorityFlags, U!Asks, U!By, U!descriptions, U!saved
<1>4. UserTypes'
  <2>1. mUserMap'[u] \in U!UserRecord
    BY <1>1, <1>2 DEF U!UserRecord
  <2> QED
    BY <1>2, <1>3, <2>1 DEF UsersInv, UserTypes
<1>5. PlaceInv'
  BY <1>3 DEF PlaceInv, U!Main
<1>6. SessionInv' /\ DescriptionsInv'
  BY <1>2, <1>3 DEF UsersInv, SessionInv, DescriptionsInv
<1>7. FilesInv'
  <2> SUFFICES ASSUME NEW v \in DOMAIN mUserMap
               PROVE  FileTells(v)'
    BY <1>2 DEF FilesInv
  <2>1. FileTells(v)
    BY <1>3 DEF UsersInv, FilesInv, U!Main
  <2>2. CASE v # u
    BY <1>2, <1>3, <2>1, <2>2 DEF FileTells
  <2>3. CASE v = u
    BY <1>1, <1>2, <1>3, <2>1, <2>3 DEF FileTells, U!UserRecord, UsersInv, UserTypes
  <2> QED
    BY <2>2, <2>3
<1> QED
  BY <1>4, <1>5, <1>6, <1>7 DEF UsersInv

LEMMA UserRequestHolds ==
  ASSUME UsersInv, U!UserRequest
  PROVE  UsersInv'
<1> SUFFICES ASSUME NEW c \in Users, NEW u \in Users,
                    \/ \E want \in Created : U!CreateNewUser(c, u, want)
                    \/ U!DeleteUser(c, u)
                    \/ \E l \in Limits, v \in LimitValues : U!ModifyLimit(c, u, l, v)
                    \/ U!ModifySystemPrompt(c, u)
                    \/ U!MakeSuperuser(c, u) \/ U!UnmakeSuperuser(c, u)
                    \/ \E named \in SUBSET Names \ {{}} : U!AcceptModels(c, u, named)
                    \/ \E flag \in Flags : U!SetAuthorityFlags(c, u, {flag})
             PROVE  UsersInv'
  BY DEF U!UserRequest
<1>1. \A v \in DOMAIN mUserMap : mUserMap[v] \in U!UserRecord
  BY DEF UsersInv, UserTypes
<1>2. U!Asks(c) => place = U!Main /\ by' \in {"super", "user"} /\ c \in DOMAIN mUserMap
  BY DEF U!Asks, U!By, UsersInv, SessionInv, U!Range
<1>3. ASSUME NEW want \in Created, U!CreateNewUser(c, u, want)
      PROVE  UsersInv'
  BY <1>2, <1>3, CreateUserHolds DEF U!CreateNewUser
<1>4. ASSUME NEW l \in Limits, NEW v \in LimitValues, U!ModifyLimit(c, u, l, v)
      PROVE  UsersInv'
  <2>1. u \in DOMAIN mUserMap /\ mUserMap[u] \in U!UserRecord
    BY <1>1, <1>4 DEF U!ModifyLimit, U!CommonModificationControl
  <2>2. U!Capped(u, l, v) \in LimitValues \cup {0}
    <3>1. l \in DOMAIN U!CapOf => mUserMap[u].limits[U!CapOf[l]] \in LimitValues \cup {0}
      BY <2>1, UsersAssumption DEF U!UserRecord, U!ConstantsFit
    <3> QED
      BY <3>1, LimitsFit DEF U!Capped
  <2>3. [mUserMap[u] EXCEPT !.limits[l] = U!Capped(u, l, v)] \in U!UserRecord
    BY <2>1, <2>2 DEF U!UserRecord
  <2> QED
    BY <1>2, <1>4, <2>3, SetUserHolds DEF U!ModifyLimit
<1>5. CASE U!ModifySystemPrompt(c, u)
  BY <1>1, <1>2, <1>5, SetUserHolds DEF U!ModifySystemPrompt, U!CommonModificationControl
<1>6. CASE U!MakeSuperuser(c, u) \/ U!UnmakeSuperuser(c, u)
  <2>1. ASSUME NEW b \in BOOLEAN, c \in DOMAIN mUserMap
        PROVE  [mUserMap[c] EXCEPT !.super = b] \in U!UserRecord
    BY <1>1, <2>1 DEF U!UserRecord
  <2> QED
    BY <1>2, <1>6, <2>1, SetUserHolds DEF U!MakeSuperuser, U!UnmakeSuperuser
<1>7. ASSUME NEW named \in SUBSET Names, U!AcceptModels(c, u, named)
      PROVE  UsersInv'
  <2>1. u \in DOMAIN mUserMap /\ mUserMap[u] \in U!UserRecord
    BY <1>1, <1>7 DEF U!AcceptModels, U!CommonModificationControl
  <2>2. [mUserMap[u] EXCEPT !.models = @ \cup named] \in U!UserRecord
    BY <2>1 DEF U!UserRecord
  <2> QED
    BY <1>2, <1>7, <2>2, SetUserHolds DEF U!AcceptModels
<1>8. ASSUME NEW flag \in Flags, U!SetAuthorityFlags(c, u, {flag})
      PROVE  UsersInv'
  BY <1>8, SetAuthorityFlagsHolds
<1> QED
  BY <1>3, <1>4, <1>5, <1>6, <1>7, <1>8, DeleteUserHolds

LEMMA DescriptionRequestHolds ==
  ASSUME UsersInv, U!DescriptionRequest
  PROVE  UsersInv'
<1> SUFFICES ASSUME NEW c \in Users, NEW name \in Names \cup {U!None},
                    \/ \E original \in Names : U!CreateModelDescription(c, original, name)
                    \/ \E original \in Names : U!ModifyOriginalName(c, name, original)
                    \/ \E custom \in Names : U!ModifyCustomName(c, name, custom)
                    \/ U!ModifyDescription(c, name)
             PROVE  UsersInv'
  BY DEF U!DescriptionRequest
<1>1. \A n \in DOMAIN mModelDescriptionMap : mModelDescriptionMap[n] \in U!DescriptionRecord
  BY DEF UsersInv, UserTypes
<1>2. ASSUME U!Asks(c)
      PROVE  place = U!Main /\ by' \in {"super", "user"}
  BY <1>2 DEF U!Asks, U!By
<1>3. ASSUME NEW original \in Names, U!CreateModelDescription(c, original, name)
      PROVE  UsersInv'
  <2> DEFINE d == U!Defaulted([custom |-> name, original |-> original])
  <2>1. [custom |-> name, original |-> original] \in U!DescriptionRecord
    BY DEF U!DescriptionRecord
  <2>2. d \in U!DescriptionRecord /\ d.custom # U!None /\ U!Defaulted(d) = d
    BY <2>1, DefaultedIs, UsersAssumption DEF U!ConstantsFit
  <2>3. mModelDescriptionMap' = U!With(mModelDescriptionMap, d.custom, d)
    BY <1>3 DEF U!CreateModelDescription
  <2>4. U!Asks(c) /\ U!Saves(d) /\ UNCHANGED <<U!users, tokens, U!saved>>
    BY <1>3 DEF U!CreateModelDescription
  <2>5. d.custom \in Names \cup {U!None}
    BY <2>2 DEF U!DescriptionRecord
  <2> HIDE DEF d
  <2>6. /\ DOMAIN mModelDescriptionMap' = DOMAIN mModelDescriptionMap \cup {d.custom}
        /\ mModelDescriptionMap'[d.custom] = d
        /\ \A n \in DOMAIN mModelDescriptionMap :
              n # d.custom => mModelDescriptionMap'[n] = mModelDescriptionMap[n]
    BY <2>3 DEF U!With
  <2> QED
    BY <1>2, <2>2, <2>4, <2>5, <2>6, SavesHolds
<1>4. ASSUME name \in DOMAIN mModelDescriptionMap, NEW d \in U!DescriptionRecord,
             mModelDescriptionMap' = [mModelDescriptionMap EXCEPT ![name] = U!Defaulted(d)],
             U!Asks(c), U!Saves(d), UNCHANGED <<U!users, tokens, U!saved>>
      PROVE  UsersInv'
  <2>1. /\ DOMAIN mModelDescriptionMap' = DOMAIN mModelDescriptionMap
        /\ mModelDescriptionMap'[name] = U!Defaulted(d)
        /\ \A n \in DOMAIN mModelDescriptionMap :
              n # name => mModelDescriptionMap'[n] = mModelDescriptionMap[n]
    BY <1>4
  <2> QED
    BY <1>2, <1>4, <2>1, SavesHolds
<1>5. ASSUME NEW original \in Names, U!ModifyOriginalName(c, name, original)
      PROVE  UsersInv'
  <2>1. name \in DOMAIN mModelDescriptionMap /\ U!Asks(c)
    BY <1>5 DEF U!ModifyOriginalName, U!DescriptionControl
  <2>2. [mModelDescriptionMap[name] EXCEPT !.original = original] \in U!DescriptionRecord
    BY <1>1, <2>1 DEF U!DescriptionRecord
  <2> QED
    BY <1>4, <1>5, <2>1, <2>2 DEF U!ModifyOriginalName
<1>6. CASE U!ModifyDescription(c, name)
  <2>1. name \in DOMAIN mModelDescriptionMap /\ U!Asks(c)
    BY <1>6 DEF U!ModifyDescription, U!DescriptionControl
  <2> QED
    BY <1>1, <1>4, <1>6, <2>1 DEF U!ModifyDescription
<1>7. ASSUME NEW custom \in Names, U!ModifyCustomName(c, name, custom)
      PROVE  UsersInv'
  <2> DEFINE d == [mModelDescriptionMap[name] EXCEPT !.custom = custom]
             rest == U!Without(mModelDescriptionMap, {name})
  <2>1. name \in DOMAIN mModelDescriptionMap /\ U!Asks(c) /\ U!Saves(d)
        /\ UNCHANGED <<U!users, tokens, U!saved>>
    BY <1>7 DEF U!ModifyCustomName, U!DescriptionControl
  <2>2. d \in U!DescriptionRecord /\ U!Defaulted(d) = d
    <3>1. d \in U!DescriptionRecord /\ d.custom = custom /\ custom # U!None
      BY <1>1, <2>1, UsersAssumption DEF U!DescriptionRecord, U!ConstantsFit
    <3> QED
      BY <3>1, DefaultedIs
  <2>3. PICK copied \in {d, [custom |-> U!None, original |-> U!None]} :
            mModelDescriptionMap' = U!With(rest, custom, copied)
    BY <1>7 DEF U!ModifyCustomName
  <2> HIDE DEF d
  <2>4. /\ DOMAIN mModelDescriptionMap' = (DOMAIN mModelDescriptionMap \ {name}) \cup {custom}
        /\ mModelDescriptionMap'[custom] = copied
        /\ \A n \in DOMAIN mModelDescriptionMap \ {name} :
              n # custom => mModelDescriptionMap'[n] = mModelDescriptionMap[n]
    <3>1. DOMAIN rest = DOMAIN mModelDescriptionMap \ {name}
          /\ \A n \in DOMAIN rest : rest[n] = mModelDescriptionMap[n]
      BY DEF U!Without, U!Restrict
    <3> HIDE DEF rest
    <3>2. /\ DOMAIN U!With(rest, custom, copied) = DOMAIN rest \cup {custom}
          /\ U!With(rest, custom, copied)[custom] = copied
          /\ \A n \in DOMAIN rest : n # custom => U!With(rest, custom, copied)[n] = rest[n]
      BY DEF U!With
    <3> QED
      BY <2>3, <3>1, <3>2
  <2> QED
    BY <1>2, <2>1, <2>2, <2>4, SavesHolds
<1> QED
  BY <1>3, <1>5, <1>6, <1>7

LEMMA UpdateUserFileHolds ==
  ASSUME UsersInv, U!UpdateUserFile
  PROVE  UsersInv'
<1> DEFINE u == place.name
<1>1. u \in DOMAIN mUserMap /\ mUserMap[u] \in U!UserRecord /\ u \in Users
  BY DEF U!UpdateUserFile, UsersInv, UserTypes, PlaceInv
<1>2. /\ DOMAIN files' = DOMAIN files \cup {u}
      /\ files'[u] = [keys |-> {"identity"}, user |-> mUserMap[u]]
      /\ \A v \in DOMAIN files : v # u => files'[v] = files[v]
  <2>1. files' = U!With(files, u, [keys |-> {"identity"}, user |-> mUserMap[u]])
    BY <1>1, UserFileTells DEF U!UpdateUserFile
  <2> QED
    BY <2>1 DEF U!With
<1>3. place.at = "user" /\ place' = U!Main
      /\ UNCHANGED <<mUserMap, tokens, mModelDescriptionMap, descriptionFiles, adrift, by>>
  BY DEF U!UpdateUserFile, U!descriptions, U!saved
<1>4. UserTypes'
  BY <1>1, <1>2, <1>3 DEF UsersInv, UserTypes, U!Places, U!Main
<1>5. PlaceInv'
  BY <1>3 DEF PlaceInv, U!Main
<1>6. SessionInv' /\ DescriptionsInv'
  BY <1>3 DEF UsersInv, SessionInv, DescriptionsInv
<1>7. FilesInv'
  <2> SUFFICES ASSUME NEW v \in DOMAIN mUserMap
               PROVE  FileTells(v)'
    BY <1>3 DEF FilesInv
  <2>1. CASE v = u
    BY <1>1, <1>2, <1>3, <2>1 DEF FileTells, U!UserRecord
  <2>2. CASE v # u
    <3>1. FileTells(v)
      BY <2>2 DEF UsersInv, FilesInv
    <3> QED
      BY <1>2, <1>3, <2>2, <3>1 DEF FileTells
  <2> QED
    BY <2>1, <2>2
<1> QED
  BY <1>4, <1>5, <1>6, <1>7 DEF UsersInv

LEMMA UpdateDescriptionFileHolds ==
  ASSUME UsersInv, U!UpdateDescriptionFile
  PROVE  UsersInv'
<1> DEFINE d == place.saved
<1>1. d \in U!DescriptionRecord /\ d.custom \in Names /\ d.original # U!None
  BY DEF U!UpdateDescriptionFile, UsersInv, UserTypes, PlaceInv, U!Places
<1>2. U!Defaulted(d).custom = d.custom
  BY <1>1, DefaultedIs, UsersAssumption DEF U!ConstantsFit
<1>3. place.at = "description" /\ place' = U!Main /\ adrift' = adrift \ {d.custom}
      /\ UNCHANGED <<mUserMap, files, tokens, mModelDescriptionMap, by>>
  BY DEF U!UpdateDescriptionFile, U!users
<1>4. /\ DOMAIN descriptionFiles' = DOMAIN descriptionFiles \cup {d.custom}
      /\ descriptionFiles'[d.custom] = d
      /\ \A n \in DOMAIN descriptionFiles :
            n # d.custom => descriptionFiles'[n] = descriptionFiles[n]
  <2>1. descriptionFiles' = U!With(descriptionFiles, d.custom, d)
    BY DEF U!UpdateDescriptionFile
  <2> QED
    BY <2>1 DEF U!With
<1>5. UserTypes'
  BY <1>1, <1>3, <1>4 DEF UsersInv, UserTypes, U!Places, U!Main
<1>6. PlaceInv'
  BY <1>3 DEF PlaceInv, U!Main
<1>7. SessionInv' /\ FilesInv'
  BY <1>3 DEF UsersInv, SessionInv, FilesInv, FileTells
<1>8. DescriptionsInv'
  <2> SUFFICES ASSUME NEW n \in DOMAIN mModelDescriptionMap \ (adrift \ {d.custom}),
                      mModelDescriptionMap[n].custom = n,
                      mModelDescriptionMap[n].original # U!None
               PROVE  n \in DOMAIN descriptionFiles' /\ U!Defaulted(descriptionFiles'[n]).custom = n
    BY <1>3 DEF DescriptionsInv
  <2>1. CASE n = d.custom
    BY <1>2, <1>4, <2>1
  <2>2. CASE n # d.custom
    BY <1>4, <2>2 DEF UsersInv, DescriptionsInv
  <2> QED
    BY <2>1, <2>2
<1> QED
  BY <1>5, <1>6, <1>7, <1>8 DEF UsersInv

LEMMA CrashHolds ==
  ASSUME UsersInv, U!Crash
  PROVE  UsersInv'
<1>1. /\ DOMAIN mUserMap' = {} /\ DOMAIN tokens' = {} /\ DOMAIN mModelDescriptionMap' = {}
      /\ adrift' = {} /\ place' = [at |-> "down"] /\ by' = "super"
  BY EmptyMap DEF U!Crash
<1>2. /\ DOMAIN files' \subseteq Users
      /\ \A u \in DOMAIN files' : files'[u] \in [keys : SUBSET {"identity"}, user : U!UserRecord]
  <2>1. CASE UNCHANGED files
    BY <2>1 DEF UsersInv, UserTypes
  <2>2. CASE place.at = "user" /\ U!CrashTearsUser(place.name)
    <3>1. place.name \in Users /\ mUserMap[place.name] \in U!UserRecord
      BY <2>2 DEF UsersInv, UserTypes, PlaceInv
    <3>2. PICK torn \in TornUsers :
              files' = U!With(files, place.name, U!UserFile(torn, mUserMap[place.name]))
      BY <2>2 DEF U!CrashTearsUser
    <3> QED
      BY <3>1, <3>2, UserFileType DEF U!With, UsersInv, UserTypes
  <2> QED
    BY <2>1, <2>2 DEF U!Crash, U!CrashTearsDescription
<1>3. /\ DOMAIN descriptionFiles' \subseteq Names
      /\ \A n \in DOMAIN descriptionFiles' : descriptionFiles'[n] \in U!DescriptionRecord
  <2>1. CASE UNCHANGED descriptionFiles
    BY <2>1 DEF UsersInv, UserTypes
  <2>2. CASE place.at = "description" /\ U!CrashTearsDescription(place.saved)
    <3>1. place.saved.custom \in Names /\ place.saved \in U!DescriptionRecord
      BY <2>2 DEF UsersInv, UserTypes, PlaceInv, U!Places
    <3>2. PICK torn \in TornDescriptions :
              descriptionFiles' = U!With(descriptionFiles, place.saved.custom,
                  [custom |-> IF "custom" \in torn THEN place.saved.custom ELSE U!None,
                   original |-> IF "original" \in torn THEN place.saved.original ELSE U!None])
      BY <2>2 DEF U!CrashTearsDescription
    <3> QED
      BY <3>1, <3>2 DEF U!With, UsersInv, UserTypes, U!DescriptionRecord
  <2> QED
    BY <2>1, <2>2 DEF U!Crash, U!CrashTearsUser
<1>4. UserTypes'
  BY <1>1, <1>2, <1>3 DEF UserTypes, U!Places
<1>5. PlaceInv' /\ SessionInv' /\ FilesInv' /\ DescriptionsInv'
  BY <1>1 DEF PlaceInv, SessionInv, FilesInv, DescriptionsInv
<1> QED
  BY <1>4, <1>5 DEF UsersInv

LEMMA RestartHolds ==
  ASSUME UsersInv, U!Restart
  PROVE  UsersInv'
<1> DEFINE NameIn(n) == U!Defaulted(descriptionFiles[n]).custom
           Loaded == {NameIn(n) : n \in DOMAIN descriptionFiles}
<1>1. place.at = "down" /\ place' = U!Main /\ by = "super" /\ DOMAIN tokens = {}
      /\ UNCHANGED <<files, tokens, descriptionFiles, by>>
  BY DEF U!Restart, UsersInv, PlaceInv
<1>2. mUserMap' = [u \in {v \in DOMAIN files : "identity" \in files[v].keys} |-> files[u].user]
  BY DEF U!Restart, U!LoadUserStates
<1>3. adrift' = Loaded \ {n \in DOMAIN descriptionFiles : NameIn(n) = n}
  BY DEF U!Restart, U!ReloadModelDescriptions
<1>4. PICK from \in [Loaded -> DOMAIN descriptionFiles] :
          mModelDescriptionMap' = [name \in Loaded |-> U!Defaulted(descriptionFiles[from[name]])]
  BY DEF U!Restart, U!ReloadModelDescriptions
<1>5. \A n \in DOMAIN descriptionFiles :
          /\ U!Defaulted(descriptionFiles[n]) \in U!DescriptionRecord
          /\ NameIn(n) \in Names \cup {U!None}
  BY DefaultedIs DEF UsersInv, UserTypes, U!DescriptionRecord
<1>6. Loaded \subseteq Names \cup {U!None}
  BY <1>5
<1>7. UserTypes'
  <2>1. /\ DOMAIN mUserMap' \subseteq Users
        /\ \A u \in DOMAIN mUserMap' : mUserMap'[u] \in U!UserRecord
    BY <1>2 DEF UsersInv, UserTypes
  <2>2. /\ DOMAIN mModelDescriptionMap' \subseteq Names \cup {U!None}
        /\ \A n \in DOMAIN mModelDescriptionMap' : mModelDescriptionMap'[n] \in U!DescriptionRecord
    BY <1>4, <1>5, <1>6
  <2> QED
    BY <1>1, <1>3, <1>6, <2>1, <2>2 DEF UsersInv, UserTypes, U!Places, U!Main
<1>8. PlaceInv' /\ SessionInv'
  BY <1>1 DEF PlaceInv, SessionInv, U!Main
<1>9. FilesInv'
  BY <1>1, <1>2 DEF FilesInv, FileTells, UsersInv, UserTypes, U!UserRecord
<1>10. DescriptionsInv'
  BY <1>1, <1>3, <1>4 DEF DescriptionsInv
<1> QED
  BY <1>7, <1>8, <1>9, <1>10 DEF UsersInv

LEMMA UsersNextHolds ==
  ASSUME UsersInv, [U!Next]_(U!vars)
  PROVE  UsersInv'
<1>1. ASSUME NEW u \in Users, NEW want \in Created, U!ApplicationCreatesUser(u, want)
      PROVE  UsersInv'
  BY <1>1, CreateUserHolds DEF U!ApplicationCreatesUser
<1>2. CASE UNCHANGED U!vars
  BY <1>2 DEF U!vars, U!users, U!descriptions, U!saved, UsersInv, UserTypes, PlaceInv, SessionInv,
    FilesInv,
              FileTells, DescriptionsInv
<1> QED
  BY <1>1, <1>2, SessionRequestHolds, UserRequestHolds, DescriptionRequestHolds,
     UpdateUserFileHolds, UpdateDescriptionFileHolds, CrashHolds, RestartHolds DEF U!Next, U!Write

LEMMA UsersInvariance ==
  U!Spec => []UsersInv
<1>1. U!Init => UsersInv
  BY InitHolds
<1>2. UsersInv /\ [U!Next]_(U!vars) => UsersInv'
  BY UsersNextHolds
<1> QED
  BY <1>1, <1>2, PTL DEF U!Spec

-----------------------------------------------------------------------------

\* No session of a deleted user is left, and a restart brings back the users and the model
\* descriptions, wherever a crash tears a file (inf_delete_user, update_state_file).
THEOREM UsersStay ==
  U!Spec => []UsersKept
<1>1. UsersInv => UsersKept
  <2> SUFFICES ASSUME UsersInv
               PROVE  UsersKept
    OBVIOUS
  <2>1. U!SessionUsersExist
    BY DEF UsersInv, SessionInv, U!SessionUsersExist, U!Range
  <2>2. U!UsersPersisted
    BY DEF UsersInv, FilesInv, FileTells, U!UsersPersisted
  <2>3. U!DescriptionsPersisted
    BY DEF UsersInv, DescriptionsInv, U!DescriptionsPersisted
  <2> QED
    BY <2>1, <2>2, <2>3, TypesOK DEF UsersInv, UsersKept, U!UsersKept
<1> QED
  BY <1>1, UsersInvariance, PTL

\* Nobody becomes a superuser by what a user asks for who is not one, and who is not a superuser
\* changes no static user and no superuser (inf_create_new_user, inf_modify_user_make_superuser,
\* common_modification_control).
THEOREM RightsStay ==
  U!Spec => RightsKept
<1>1. UsersInv /\ [U!Next]_(U!vars) => [U!RightsGranted /\ U!ProtectedUsersStay]_(U!vars)
  <2> SUFFICES ASSUME UsersInv, U!Next
               PROVE  U!RightsGranted /\ U!ProtectedUsersStay
    OBVIOUS
  <2>1. CASE by' = "super"
    BY <2>1 DEF U!RightsGranted, U!ProtectedUsersStay
  <2>2. CASE UNCHANGED mUserMap
    BY <2>2 DEF U!RightsGranted, U!ProtectedUsersStay
  <2>3. CASE U!UserRequest /\ by' # "super"
    <3> SUFFICES ASSUME NEW c \in Users, NEW u \in Users,
                        \/ \E want \in Created : U!CreateNewUser(c, u, want)
                        \/ U!DeleteUser(c, u)
                        \/ \E l \in Limits, v \in LimitValues : U!ModifyLimit(c, u, l, v)
                        \/ U!ModifySystemPrompt(c, u)
                        \/ U!MakeSuperuser(c, u) \/ U!UnmakeSuperuser(c, u)
                        \/ \E named \in SUBSET Names \ {{}} : U!AcceptModels(c, u, named)
                        \/ \E flag \in Flags : U!SetAuthorityFlags(c, u, {flag})
                 PROVE  U!RightsGranted /\ U!ProtectedUsersStay
      BY <2>3 DEF U!UserRequest
    <3>1. \A v \in DOMAIN mUserMap : mUserMap[v] \in U!UserRecord
      BY DEF UsersInv, UserTypes
    <3>2. U!Asks(c) => ~mUserMap[c].super
      BY <2>3 DEF U!Asks, U!By
    <3>3. ASSUME NEW record, u \in DOMAIN mUserMap => record.super = mUserMap[u].super,
                 u \notin DOMAIN mUserMap => ~record.super,
                 u \in DOMAIN mUserMap => ~mUserMap[u].super /\ ~mUserMap[u].static,
                 U!SetUser(u, record)
          PROVE  U!RightsGranted /\ U!ProtectedUsersStay
      <4>1. /\ DOMAIN mUserMap' = DOMAIN mUserMap \cup {u}
            /\ mUserMap'[u] = record
            /\ \A v \in DOMAIN mUserMap : v # u => mUserMap'[v] = mUserMap[v]
        BY <3>3 DEF U!SetUser, U!With
      <4> QED
        BY <3>3, <4>1 DEF U!RightsGranted, U!ProtectedUsersStay
    <3>4. ASSUME NEW want \in Created, U!CreateNewUser(c, u, want)
          PROVE  U!RightsGranted /\ U!ProtectedUsersStay
      <4> DEFINE record == [want EXCEPT !.limits = U!CreatedLimits(@), !.models = {}]
      <4>1. ~record.super /\ U!SetUser(u, record) /\ u \notin DOMAIN mUserMap
        <5>1. want.super = record.super
          OBVIOUS
        <5> QED
          BY <3>2, <3>4, <5>1 DEF U!CreateNewUser, U!CreateUser
      <4> QED
        BY <3>3, <4>1
    <3>5. CASE U!DeleteUser(c, u)
      <4>1. /\ DOMAIN mUserMap' = DOMAIN mUserMap \ {u}
            /\ \A v \in DOMAIN mUserMap' : mUserMap'[v] = mUserMap[v]
        BY <3>5 DEF U!DeleteUser, U!Without, U!Restrict
      <4> QED
        BY <3>2, <3>5, <4>1 DEF U!DeleteUser, U!RightsGranted, U!ProtectedUsersStay
    <3>6. ASSUME NEW l \in Limits, NEW v \in LimitValues, U!ModifyLimit(c, u, l, v)
          PROVE  U!RightsGranted /\ U!ProtectedUsersStay
      <4>1. u \in DOMAIN mUserMap /\ ~mUserMap[u].super /\ ~mUserMap[u].static
        BY <3>2, <3>6 DEF U!ModifyLimit, U!CommonModificationControl
      <4>2. [mUserMap[u] EXCEPT !.limits[l] = U!Capped(u, l, v)].super = mUserMap[u].super
        BY <3>1, <4>1 DEF U!UserRecord
      <4> QED
        BY <3>3, <3>6, <4>1, <4>2 DEF U!ModifyLimit
    <3>7. CASE U!ModifySystemPrompt(c, u)
      BY <3>2, <3>3, <3>7 DEF U!ModifySystemPrompt, U!CommonModificationControl
    <3>8. CASE U!MakeSuperuser(c, u) \/ U!UnmakeSuperuser(c, u)
      BY <3>2, <3>8 DEF U!MakeSuperuser, U!UnmakeSuperuser
    <3>9. ASSUME NEW named \in SUBSET Names, U!AcceptModels(c, u, named)
           PROVE  U!RightsGranted /\ U!ProtectedUsersStay
      <4>1. u \in DOMAIN mUserMap /\ ~mUserMap[u].super /\ ~mUserMap[u].static
        BY <3>2, <3>9 DEF U!AcceptModels, U!CommonModificationControl
      <4>2. [mUserMap[u] EXCEPT !.models = @ \cup named].super = mUserMap[u].super
        BY <3>1, <4>1 DEF U!UserRecord
      <4> QED
        BY <3>3, <3>9, <4>1, <4>2 DEF U!AcceptModels
    <3>10. ASSUME NEW flag \in Flags, U!SetAuthorityFlags(c, u, {flag})
           PROVE  FALSE
      BY <3>2, <3>10 DEF U!SetAuthorityFlags
    <3> QED
      BY <3>4, <3>5, <3>6, <3>7, <3>8, <3>9, <3>10
  <2> QED
    BY <2>1, <2>2, <2>3 DEF U!Next, U!ApplicationCreatesUser, U!SessionRequest, U!AccessRequest,
       U!DestroySession, U!DescriptionRequest, U!CreateModelDescription, U!ModifyOriginalName,
       U!ModifyCustomName, U!ModifyDescription, U!Write, U!UpdateUserFile, U!UpdateDescriptionFile,
       U!Crash, U!Restart, U!users, UsersInv, PlaceInv
<1> QED
  BY <1>1, UsersInvariance, PTL DEF U!Spec, RightsKept, U!RightsKept
=============================================================================
