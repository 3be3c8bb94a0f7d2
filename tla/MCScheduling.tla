------------------------------- MODULE MCScheduling -------------------------------
(* Three instances, a behaviour of one of them each: the timers, the thread   *)
(* pool and the embedder processor.                                           *)
EXTENDS Scheduling

\* A timeout, an interval of two passes and at most two calls, an asynchronous timeout
IsTimeout(t) == t # "interval"
IsAsync(t) == t = "async"
TargetOf(t) == IF t = "interval" THEN 2 ELSE 1
TicksOf(t) == IF t = "interval" THEN 2 ELSE 0

VARIABLE part

allVars == <<part, vars, poolVars, embedderVars>>

AllInit ==
    /\ part \in {"timers", "pool", "embedder"}
    /\ Init /\ P!Init /\ B!Init
    /\ part # "pool" => ~windows
InTimers == part = "timers" /\ UNCHANGED <<part, poolVars, embedderVars>>
InPool == part = "pool" /\ UNCHANGED <<part, vars, embedderVars>>
InEmbedder == part = "embedder" /\ UNCHANGED <<part, vars, poolVars>>
AllNext == (InTimers /\ Next) \/ (InPool /\ P!Next) \/ (InEmbedder /\ B!Next)

\* The fairness of every part.  Of each of these disjunctions only those of one part can ever be
\* taken, so that this is the conjunction of the parts' own Fairness; it is stated in few
\* conjuncts because TLC's time doubles with each.
AllFairness ==
    /\ WF_allVars(\/ InTimers /\ (EndPass \/ Visit \/ Returned)
                  \/ InPool /\ P!Caller
                  \/ InEmbedder /\ B!update_t)
    /\ WF_allVars(InEmbedder /\ B!Goes_on)
    /\ SF_allVars(\/ InTimers /\ StartPass /\ delta' > 0
                  \/ InPool /\ P!Thread(0)
                  \/ InEmbedder /\ B!update)
    /\ SF_allVars(InPool /\ P!Thread(1))
AllSpec == AllInit /\ [][AllNext]_allVars /\ AllFairness

\* A timer that stays registered is called, a job the pool took runs (on Windows a thread may
\* suspend itself after it was resumed), a job of the embedder is answered, known races aside.
WorkDone == EveryTimerRuns /\ P!JobsRun /\ B!JobsAnswered
===================================================================================
