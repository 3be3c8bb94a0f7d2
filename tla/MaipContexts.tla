------------------------------ MODULE MaipContexts ------------------------------
(***************************************************************************)
(* The contexts of the MAIP program: models that clients load and unload,  *)
(* sessions (InfMaipPeerTextToText) and the contexts, which are processors *)
(* a session is the client and the owner of (inf_program.cpp,              *)
(* inf_maip_peer_base.cpp, inf_maip_peer_t2t.cpp).                         *)
(*                                                                         *)
(* One thread runs the requests and InfProgram::update(); a worker per     *)
(* model and per context runs the loading, the initialization and the      *)
(* decoding.  A use of an object that was deleted is recorded in `fault`;  *)
(* what follows is undefined, and the model starts the program again.      *)
(***************************************************************************)
EXTENDS Naturals, FiniteSets, Functions

CONSTANTS
    Sessions,       \* session tokens
    Conns,          \* connections the requests arrive on
    ConnsOf,        \* [Sessions -> SUBSET Conns]: where a session's requests arrive
    Models,
    Procs,          \* processor objects
    Room,           \* contexts a model has room for
    MaxContext,     \* bound: contexts one session makes
    Nobody          \* no session, connection or model, or a deleted entry

VARIABLES
    models,                 \* absent, loading, loaded, load_ends, load_failed, registered
    mSessionMap,            \* the sessions alive
    mPeer,                  \* the one connection a session answers to
    mContextCounter,
    mIndexedProcMap, mRegisteredProcMap,    \* per session: id to processor and back
    proc,                   \* the processors: [state, host, nominee]
    awaiting,               \* history: the connection that last asked something of a context
    deaf,                   \* history: contexts whose session took another connection since
    asked,                  \* history: ids asked for before they were given
    used,                   \* history: uses the program does not survive
    fault                   \* history: deleted objects that were touched

sessionVars == <<mSessionMap, mPeer, mContextCounter, mIndexedProcMap, mRegisteredProcMap, asked>>
answerVars == <<awaiting, deaf>>
undefinedVars == <<used, fault>>
vars == <<models, sessionVars, proc, answerVars, undefinedVars>>

\* Nobody is none of the things it stands beside
ConstantsFit ==
    /\ Nobody \notin Sessions \cup Conns \cup Models \cup Procs
    /\ ConnsOf \in [Sessions -> SUBSET Conns]
    /\ IsFiniteSet(Procs) /\ MaxContext \in Nat

Ids == 1..MaxContext
States == {"unused", "initializing", "initialized", "init_failed", "ready", "decoding", "decoded",
           "deleted"}
Unused == [state |-> "unused", host |-> Nobody, nominee |-> Nobody]

TypeOK ==
    /\ models \in [Models -> {"absent", "loading", "loaded", "load_ends", "load_failed",
                              "registered"}]
    /\ mSessionMap \subseteq Sessions
    /\ mPeer \in [Sessions -> Conns \cup {Nobody}]
    /\ mContextCounter \in [Sessions -> 1..(MaxContext + 1)]
    /\ \A s \in Sessions :
          /\ DOMAIN mIndexedProcMap[s] \subseteq Ids
          /\ Range(mIndexedProcMap[s]) \subseteq Procs \cup {Nobody}
          /\ DOMAIN mRegisteredProcMap[s] \subseteq Procs
          /\ Range(mRegisteredProcMap[s]) \subseteq Ids
    /\ proc \in [Procs -> [state : States, host : Models \cup {Nobody}, nominee : Sessions \cup {Nobody}]]
    /\ awaiting \in [Procs -> Conns \cup {Nobody}] /\ deaf \subseteq Procs
    /\ asked \in [Sessions -> SUBSET Ids]
    /\ used \subseteq {"left_early", "destroyed", "unloaded"}
    /\ fault \subseteq {"peer", "processor", "model"}

Init ==
    /\ models = [m \in Models |-> "absent"]
    /\ mSessionMap = {}
    /\ mPeer = [s \in Sessions |-> Nobody]
    /\ mContextCounter = [s \in Sessions |-> 1]
    /\ mIndexedProcMap = [s \in Sessions |-> <<>>]
    /\ mRegisteredProcMap = [s \in Sessions |-> <<>>]
    /\ proc = [p \in Procs |-> Unused]
    /\ awaiting = [p \in Procs |-> Nobody] /\ deaf = {}
    /\ asked = [s \in Sessions |-> {}]
    /\ used = {} /\ fault = {}

With(f, x, v) == [y \in DOMAIN f \cup {x} |-> IF y = x THEN v ELSE f[y]]
Without(f, x) == Restrict(f, DOMAIN f \ {x})
Runs == fault = {}
Hosted(m) == {p \in Procs : proc[p].host = m}
Contexts(s) == DOMAIN mRegisteredProcMap[s]

-----------------------------------------------------------------------------
(* Models.                                                                 *)

LoadModel(m) ==
    /\ Runs
    /\ models[m] = "absent"
    /\ models' = [models EXCEPT ![m] = "loading"]
    /\ UNCHANGED <<sessionVars, proc, answerVars, undefinedVars>>

WorkerLoads(m) ==
    /\ Runs
    /\ models[m] = "loading"
    /\ \E outcome \in {"loaded", "load_ends"} : models' = [models EXCEPT ![m] = outcome]
    /\ UNCHANGED <<sessionVars, proc, answerVars, undefinedVars>>

\* A failure drops the signal before it writes mIsInitFailed
WorkerFails(m) ==
    /\ Runs
    /\ models[m] = "load_ends"
    /\ models' = [models EXCEPT ![m] = "load_failed"]
    /\ UNCHANGED <<sessionVars, proc, answerVars, undefinedVars>>

\* InfMaipModelTextToText::on_initialize and on_initialize_fail, from update(), which takes a
\* failure that is not written yet for a success
UpdateLoading(m) ==
    /\ Runs
    /\ models[m] \in {"loaded", "load_ends", "load_failed"}
    /\ models' = [models EXCEPT ![m] = IF @ = "load_failed" THEN "absent" ELSE "registered"]
    /\ UNCHANGED <<sessionVars, proc, answerVars, undefinedVars>>

\* mutant of UnloadModel: a model with contexts is dropped and they stay
UnloadModelAlone(m) ==
    /\ Runs
    /\ models[m] = "registered"
    /\ models' = [models EXCEPT ![m] = "absent"]
    /\ UNCHANGED <<sessionVars, proc, answerVars, undefinedVars>>

\* The model is deleted: its destructor has each living context destroy itself (see
\* DestroyContext), and lets one that is still initializing finish on a model freed next
UnloadModel(m) ==
    LET living == {p \in Hosted(m) : proc[p].state # "deleted"}
        ready == {p \in living : proc[p].state \in {"ready", "decoding", "decoded"}}
    IN
    /\ Runs
    /\ models[m] = "registered"
    /\ models' = [models EXCEPT ![m] = "absent"]
    /\ IF living = {}
       THEN /\ proc' = [p \in Procs |-> IF proc[p].host = m THEN Unused ELSE proc[p]]
            /\ UNCHANGED undefinedVars
       ELSE /\ used' = used \cup {"unloaded"}
            /\ fault' = fault \cup (IF ready # {} THEN {"processor"} ELSE {"model"})
            /\ UNCHANGED proc
    /\ UNCHANGED <<sessionVars, answerVars>>

-----------------------------------------------------------------------------
(* Sessions.                                                               *)

\* The token is a fresh one: no context left behind has the session as its nominee
AccessRequest(s, conn) ==
    /\ Runs
    /\ s \notin mSessionMap /\ \A p \in Procs : proc[p].nominee # s
    /\ mSessionMap' = mSessionMap \cup {s}
    /\ mPeer' = [mPeer EXCEPT ![s] = conn]
    /\ mContextCounter' = [mContextCounter EXCEPT ![s] = 1]
    /\ mIndexedProcMap' = [mIndexedProcMap EXCEPT ![s] = <<>>]
    /\ mRegisteredProcMap' = [mRegisteredProcMap EXCEPT ![s] = <<>>]
    /\ asked' = [asked EXCEPT ![s] = {}]
    /\ UNCHANGED <<models, proc, answerVars, undefinedVars>>

Initializing(s) == {p \in Procs :
    proc[p].nominee = s /\ proc[p].state \in {"initializing", "initialized", "init_failed"}}

\* mutant of Cleanup: the client is not released first, so that the destructor calls on_unregister
\* and the processor is deleted twice
CleanupWithClient(s) ==
    /\ proc' = [p \in Procs |-> IF p \in Contexts(s) THEN [proc[p] EXCEPT !.state = "deleted"]
                                ELSE proc[p]]
    /\ fault' = IF Contexts(s) # {} THEN {"processor"} ELSE {}

\* mandatory_processor_cleanup: every context of the session loses its client and is deleted
Cleanup(s) ==
    /\ proc' = [p \in Procs |-> IF p \in Contexts(s) THEN [proc[p] EXCEPT !.state = "deleted"]
                                ELSE proc[p]]
    /\ fault' = fault

\* A context that is initializing is in no map yet and keeps its nominee
DestroySession(s) ==
    /\ Runs
    /\ s \in mSessionMap
    /\ Cleanup(s)
    /\ mSessionMap' = mSessionMap \ {s}
    /\ awaiting' = [p \in Procs |-> IF proc[p].nominee = s THEN Nobody ELSE awaiting[p]]
    /\ used' = IF Initializing(s) # {} THEN used \cup {"left_early"} ELSE used
    /\ UNCHANGED <<models, mPeer, mContextCounter, mIndexedProcMap, mRegisteredProcMap, asked, deaf>>

\* mutant of SetNetworkPeer: the session keeps its connection
SetNetworkPeerOnce(s, conn, p) ==
    /\ mPeer' = mPeer
    /\ deaf' = deaf \ {p}

\* set_network_peer, for a request to context p
SetNetworkPeer(s, conn, p) ==
    /\ mPeer' = [mPeer EXCEPT ![s] = conn]
    /\ deaf' = (IF conn = mPeer[s] THEN deaf
                ELSE deaf \cup {q \in Procs : proc[q].nominee = s /\ awaiting[q] # Nobody}) \ {p}

\* inf_create_context by a user the model is accessible to, within the limits.  The model refuses
\* the processor after is_available when its file is one of embeddings.
CreateContext(s, conn, m, p) ==
    /\ Runs
    /\ s \in mSessionMap
    /\ models[m] = "registered"
    /\ Cardinality(Hosted(m)) < Room
    /\ proc[p] = Unused
    /\ mContextCounter[s] + Cardinality(Initializing(s)) <= MaxContext
    /\ \/ /\ proc' = [proc EXCEPT ![p] = [state |-> "initializing", host |-> m, nominee |-> s]]
          /\ awaiting' = [awaiting EXCEPT ![p] = conn]
       \/ UNCHANGED <<proc, awaiting>>
    /\ SetNetworkPeer(s, conn, p)
    /\ UNCHANGED <<models, mSessionMap, mContextCounter, mIndexedProcMap, mRegisteredProcMap, asked,
                   undefinedVars>>

WorkerInitializes(p) ==
    /\ Runs
    /\ proc[p].state = "initializing"
    /\ \E outcome \in {"initialized", "init_failed"} :
          proc' = [proc EXCEPT ![p].state = outcome]
    /\ UNCHANGED <<models, sessionVars, answerVars, undefinedVars>>

\* mutant of AddProcessor: the counter stays
AddProcessorSameId(s, p) ==
    /\ mRegisteredProcMap' = [mRegisteredProcMap EXCEPT ![s] = With(@, p, mContextCounter[s])]
    /\ mIndexedProcMap' = IF mContextCounter[s] \in DOMAIN mIndexedProcMap[s] THEN mIndexedProcMap
                          ELSE [mIndexedProcMap EXCEPT ![s] = With(@, mContextCounter[s], p)]
    /\ UNCHANGED mContextCounter

\* mutant of AddProcessor for the types: ids count from 0
AddProcessorFromZero(s, p) ==
    /\ mRegisteredProcMap' = [mRegisteredProcMap EXCEPT ![s] = With(@, p, mContextCounter[s] - 1)]
    /\ mIndexedProcMap' = [mIndexedProcMap EXCEPT ![s] = With(@, mContextCounter[s] - 1, p)]
    /\ mContextCounter' = [mContextCounter EXCEPT ![s] = @ + 1]

\* add_processor: an entry under this id, even one of a question for it, is not replaced
AddProcessor(s, p) ==
    /\ mRegisteredProcMap' = [mRegisteredProcMap EXCEPT ![s] = With(@, p, mContextCounter[s])]
    /\ mIndexedProcMap' = IF mContextCounter[s] \in DOMAIN mIndexedProcMap[s] THEN mIndexedProcMap
                          ELSE [mIndexedProcMap EXCEPT ![s] = With(@, mContextCounter[s], p)]
    /\ mContextCounter' = [mContextCounter EXCEPT ![s] = @ + 1]

Answered(p) == awaiting' = [awaiting EXCEPT ![p] = Nobody] /\ deaf' = deaf \ {p}

\* on_initialize: set_inference_client(nominee), on_register
UpdateInitialized(p) ==
    LET s == proc[p].nominee IN
    /\ Runs
    /\ proc[p].state = "initialized" /\ models[proc[p].host] = "registered"
    /\ proc' = [proc EXCEPT ![p].state = "ready"]
    /\ Answered(p)
    /\ IF s \in mSessionMap
       THEN AddProcessor(s, p) /\ UNCHANGED fault
       ELSE fault' = {"peer"} /\ UNCHANGED <<mContextCounter, mIndexedProcMap, mRegisteredProcMap>>
    /\ UNCHANGED <<models, mSessionMap, mPeer, asked, used>>

\* mutant of UpdateInitFailed: the failure is left for the client to ask about
UpdateInitFailedSilently(p) == FALSE

\* on_initialize_fail: on_init_fail of the nominee answers and deletes the processor
UpdateInitFailed(p) ==
    /\ Runs
    /\ proc[p].state = "init_failed" /\ models[proc[p].host] = "registered"
    /\ proc' = [proc EXCEPT ![p].state = "deleted"]
    /\ Answered(p)
    /\ fault' = IF proc[p].nominee \in mSessionMap THEN fault ELSE {"peer"}
    /\ UNCHANGED <<models, sessionVars, used>>

\* update() of the model drops a watcher without a subject
UpdateDeleted(p) ==
    /\ Runs
    /\ proc[p].state = "deleted" /\ models[proc[p].host] = "registered"
    /\ proc' = [proc EXCEPT ![p] = Unused]
    /\ UNCHANGED <<models, sessionVars, answerVars, undefinedVars>>

\* get_processor_by_id: operator[] leaves an empty entry behind
Lookup(s, i) ==
    IF i \in DOMAIN mIndexedProcMap[s]
    THEN UNCHANGED <<mIndexedProcMap, asked>>
    ELSE /\ mIndexedProcMap' = [mIndexedProcMap EXCEPT ![s] = With(@, i, Nobody)]
         /\ asked' = [asked EXCEPT ![s] = @ \cup {i}]
Found(s, i) == i \in DOMAIN mIndexedProcMap[s] /\ mIndexedProcMap[s][i] # Nobody

\* inf_destroy_context, exec_*: no such context
ContextMissing(s, i) ==
    /\ Runs
    /\ s \in mSessionMap
    /\ ~Found(s, i)
    /\ Lookup(s, i)
    /\ UNCHANGED <<models, mSessionMap, mPeer, mContextCounter, mRegisteredProcMap, proc, answerVars,
                   undefinedVars>>

\* destroy() releases the client, whose on_unregister deletes the processor, whose destructor
\* still has the client and calls on_unregister again
DestroyContext(s, i) ==
    /\ Runs
    /\ s \in mSessionMap
    /\ Found(s, i)
    /\ used' = used \cup {"destroyed"}
    /\ fault' = {"processor"}
    /\ UNCHANGED <<models, sessionVars, proc, answerVars>>

\* exec_next: whether or not next() accepts, the connection becomes the session's.  (Its two early
\* returns are out of reach: next() never says INPUT_IS_EMPTY, and the program halts no context.)
ExecNext(s, conn, i) ==
    /\ Runs
    /\ s \in mSessionMap
    /\ Found(s, i)
    /\ LET p == mIndexedProcMap[s][i] IN
          /\ proc' = [proc EXCEPT ![p].state = IF @ = "ready" THEN "decoding" ELSE @]
          /\ awaiting' = [awaiting EXCEPT ![p] = conn]
          /\ SetNetworkPeer(s, conn, p)
    /\ UNCHANGED <<models, mSessionMap, mContextCounter, mIndexedProcMap, mRegisteredProcMap, asked,
                   undefinedVars>>

WorkerDecodes(p) ==
    /\ Runs
    /\ proc[p].state = "decoding"
    /\ proc' = [proc EXCEPT ![p].state = "decoded"]
    /\ UNCHANGED <<models, sessionVars, answerVars, undefinedVars>>

\* on_write and, after the last token, on_finish.  on_write asks for the next token before it looks
\* whether this was the last, so that the context decodes on and on_finish is repeated.
UpdateDecoded(p) ==
    /\ Runs
    /\ proc[p].state = "decoded" /\ models[proc[p].host] = "registered"
    /\ proc' = [proc EXCEPT ![p].state = "decoding"]
    /\ UNCHANGED <<models, sessionVars, answerVars, undefinedVars>>

\* Anything may follow a fault; here the program ends and is started again
Die ==
    /\ ~Runs
    /\ models' = [m \in Models |-> "absent"]
    /\ mSessionMap' = {}
    /\ mPeer' = [s \in Sessions |-> Nobody]
    /\ mContextCounter' = [s \in Sessions |-> 1]
    /\ mIndexedProcMap' = [s \in Sessions |-> <<>>]
    /\ mRegisteredProcMap' = [s \in Sessions |-> <<>>]
    /\ proc' = [p \in Procs |-> Unused]
    /\ awaiting' = [p \in Procs |-> Nobody] /\ deaf' = {}
    /\ asked' = [s \in Sessions |-> {}]
    /\ used' = {} /\ fault' = {}

-----------------------------------------------------------------------------

Update ==
    \/ \E m \in Models : UpdateLoading(m)
    \/ \E p \in Procs : UpdateInitialized(p) \/ UpdateInitFailed(p) \/ UpdateDeleted(p)
                        \/ UpdateDecoded(p)
Worker ==
    \/ \E m \in Models : WorkerLoads(m) \/ WorkerFails(m)
    \/ \E p \in Procs : WorkerInitializes(p) \/ WorkerDecodes(p)
Informatic ==
    \/ \E m \in Models : LoadModel(m) \/ UnloadModel(m)
    \/ \E s \in Sessions :
          \/ DestroySession(s)
          \/ \E conn \in ConnsOf[s] :
                \/ AccessRequest(s, conn)
                \/ \E m \in Models, p \in Procs : CreateContext(s, conn, m, p)
          \/ \E i \in Ids : ContextMissing(s, i) \/ DestroyContext(s, i)
Execution == \E s \in Sessions, i \in Ids : \E conn \in ConnsOf[s] : ExecNext(s, conn, i)

Next == Update \/ Worker \/ Informatic \/ Execution \/ Die

Fairness ==
    /\ \A m \in Models : WF_vars(UpdateLoading(m)) /\ WF_vars(WorkerLoads(m))
    /\ \A p \in Procs : /\ WF_vars(WorkerInitializes(p))
                        /\ WF_vars(UpdateInitialized(p)) /\ WF_vars(UpdateInitFailed(p))
Spec == Init /\ [][Next]_vars /\ Fairness

-----------------------------------------------------------------------------

\* A deleted session, context or model is touched only after a client left while a context was
\* initializing, destroyed a ready context, or unloaded a model with contexts
\* (mandatory_processor_cleanup, on_init_fail, on_register).
NoFreedUse == fault # {} => used # {}

\* A session finds each of its contexts under the id it was told, unless that id was asked for
\* before it was given (get_processor_by_id, add_processor).
ContextsFound == \A s \in mSessionMap : \A p \in Contexts(s) :
    LET i == mRegisteredProcMap[s][p] IN
    i \notin asked[s] => i \in DOMAIN mIndexedProcMap[s] /\ mIndexedProcMap[s][i] = p

\* A context belongs to one living session and runs on a registered model (inf_destroy_session,
\* inf_unload_model).
ContextsOwned == \A p \in Procs : Runs /\ proc[p].state \in {"ready", "decoding", "decoded"} =>
    /\ models[proc[p].host] = "registered"
    /\ {s \in mSessionMap : p \in Contexts(s)} = {proc[p].nominee}

\* What a context sends, its answers and the tokens it goes on sending after the last, goes to the
\* connection that last asked something of it, unless a request for another context of the session
\* came on another connection since (set_network_peer): the session has one connection, not one
\* per context.
AnswersReachAsker == \A p \in Procs :
    awaiting[p] # Nobody /\ proc[p].nominee \in mSessionMap /\ p \notin deaf =>
        mPeer[proc[p].nominee] = awaiting[p]

\* All four, and the types: what the requests, update() and the workers leave of the sessions,
\* their maps and the contexts.
ContextsKept == TypeOK /\ NoFreedUse /\ ContextsFound /\ ContextsOwned /\ AnswersReachAsker

\* inf_create_context is answered in the end (on_register, on_init_fail): its context does not
\* stay in initialization while the program lives.
CreationsAnswered == \A p \in Procs :
    proc[p].state = "initializing"
        ~> fault # {} \/ proc[p].state \notin {"initializing", "initialized", "init_failed"}
===============================================================================
