-------------------------------- MODULE ThreadPool --------------------------------
(***************************************************************************)
(* mbase::tpool: a fixed number of threads, each with a slot for a handler,  *)
(* and a stack of the slots that are free.  execute_job() takes a slot under *)
(* the mutex and stores the handler in it; the routine of the slot's thread  *)
(* finds it there without the mutex, runs it, and gives the slot back.  On   *)
(* Windows the routine suspends itself between two looks.                    *)
(***************************************************************************)
EXTENDS Naturals, Sequences, SequencesExt

CONSTANTS
    mThreadCount,
    Jobs            \* the handlers given to the pool; each is given once

VARIABLES
    windows,            \* halt() and resume() do something
    mIsRunning,
    tHandler,           \* Slots -> a job or Null
    mFreeThreadIndex,   \* the stack of free slots, its top last
    owner,              \* the holder of mtx: Nobody, "caller" or a slot
    caller,             \* "idle", "stored", "indexed", "closing"
    slot,               \* the slot execute_job took
    routine,            \* Slots -> "look", "run", "empty", "free", "halt", "halted", "over"
    undefined,          \* the caller went through a slot that was emptied
    accepted, dropped,  \* history: the jobs stored in a slot, and those that found none
    ran                 \* history: how often each was run

vars == <<windows, mIsRunning, tHandler, mFreeThreadIndex, owner, caller, slot, routine, undefined, accepted, dropped, ran>>

Null == "null"
Nobody == "nobody"
Slots == 0 .. mThreadCount - 1

\* No job is mistaken for an empty slot.
ConstantsFit == mThreadCount \in Nat /\ Null \notin Jobs

Init ==
    /\ windows \in BOOLEAN /\ mIsRunning = TRUE
    /\ tHandler = [i \in Slots |-> Null]
    /\ mFreeThreadIndex = [n \in 1 .. mThreadCount |-> mThreadCount - n]
    /\ owner = Nobody /\ caller = "idle" /\ slot = 0
    /\ routine = [i \in Slots |-> "look"]
    /\ undefined = FALSE /\ accepted = {} /\ dropped = {} /\ ran = [j \in Jobs |-> 0]

\* execute_job(): a job that finds no free slot is dropped without a word
Drop(j) ==
    /\ caller = "idle" /\ owner = Nobody /\ mFreeThreadIndex = <<>>
    /\ j \notin accepted
    /\ dropped' = dropped \cup {j}
    /\ UNCHANGED <<windows, mIsRunning, tHandler, mFreeThreadIndex, owner, caller, slot, routine, undefined, accepted, ran>>
Store(j) ==
    /\ caller = "idle" /\ owner = Nobody /\ mFreeThreadIndex # <<>>
    /\ j \notin accepted \cup dropped
    /\ slot' = Last(mFreeThreadIndex) /\ mFreeThreadIndex' = Front(mFreeThreadIndex)
    /\ tHandler' = [tHandler EXCEPT ![slot'] = j]
    /\ accepted' = accepted \cup {j}
    /\ owner' = "caller" /\ caller' = "stored"
    /\ UNCHANGED <<windows, mIsRunning, routine, undefined, dropped, ran>>
\* The handler is read from the slot again, which its thread may have emptied
SetThreadIndex ==
    /\ caller = "stored" /\ ~undefined
    /\ IF tHandler[slot] = Null THEN undefined' = TRUE /\ UNCHANGED caller
       ELSE caller' = "indexed" /\ UNCHANGED undefined
    /\ UNCHANGED <<windows, mIsRunning, tHandler, mFreeThreadIndex, owner, slot, routine, accepted, dropped, ran>>
\* resume() of a thread that is not suspended yet is lost
Resumed(r) == IF r = "halted" THEN "look" ELSE r
Resume ==
    /\ caller = "indexed"
    /\ routine' = [routine EXCEPT ![slot] = Resumed(@)]
    /\ owner' = Nobody /\ caller' = "idle"
    /\ UNCHANGED <<windows, mIsRunning, tHandler, mFreeThreadIndex, slot, undefined, accepted, dropped, ran>>

\* ~tpool(): every thread is resumed once and then joined
Close ==
    /\ caller = "idle"
    /\ mIsRunning' = FALSE /\ caller' = "closing"
    /\ routine' = [i \in Slots |-> Resumed(routine[i])]
    /\ UNCHANGED <<windows, tHandler, mFreeThreadIndex, owner, slot, undefined, accepted, dropped, ran>>
------------------------------------------------------------------------------
\* _pool_routine()
Goes(i, from, to) == routine[i] = from /\ routine' = [routine EXCEPT ![i] = to]
Rest == UNCHANGED <<windows, mIsRunning, caller, slot, undefined, accepted, dropped>>

Look(i) ==
    /\ Goes(i, "look", IF ~mIsRunning THEN "over" ELSE IF tHandler[i] # Null THEN "run" ELSE "halt")
    /\ Rest /\ UNCHANGED <<tHandler, mFreeThreadIndex, owner, ran>>
Run(i) ==
    /\ Goes(i, "run", "empty")
    /\ ran' = [ran EXCEPT ![tHandler[i]] = @ + 1]
    /\ Rest /\ UNCHANGED <<tHandler, mFreeThreadIndex, owner>>
\* mutant of Empty: the slot keeps its handler
EmptyNothing(i) ==
    /\ Goes(i, "empty", "free")
    /\ Rest /\ UNCHANGED <<tHandler, mFreeThreadIndex, owner, ran>>
Empty(i) ==
    /\ Goes(i, "empty", "free")
    /\ tHandler' = [tHandler EXCEPT ![i] = Null]
    /\ Rest /\ UNCHANGED <<mFreeThreadIndex, owner, ran>>
\* _update_index()
UpdateIndex(i) ==
    /\ Goes(i, "free", "halt") /\ owner = Nobody
    /\ mFreeThreadIndex' = Append(mFreeThreadIndex, i)
    /\ Rest /\ UNCHANGED <<tHandler, owner, ran>>
\* mutant of Halt: the routine stops after one look
HaltForGood(i) ==
    /\ Goes(i, "halt", "over")
    /\ Rest /\ UNCHANGED <<tHandler, mFreeThreadIndex, owner, ran>>
Halt(i) ==
    /\ Goes(i, "halt", IF windows THEN "halted" ELSE "look")
    /\ Rest /\ UNCHANGED <<tHandler, mFreeThreadIndex, owner, ran>>

Thread(i) == Look(i) \/ Run(i) \/ Empty(i) \/ UpdateIndex(i) \/ Halt(i)
Caller == SetThreadIndex \/ Resume
Next ==
    \/ Caller \/ Close
    \/ \E j \in Jobs : Store(j) \/ Drop(j)
    \/ \E i \in Slots : Thread(i)
Spec == Init /\ [][Next]_vars
\* Threads are scheduled, and execute_job() goes on
Fairness == WF_vars(Caller) /\ \A i \in Slots : SF_vars(Thread(i))
------------------------------------------------------------------------------
\* Types of the pool's state.
TypeOK ==
    /\ tHandler \in [Slots -> Jobs \cup {Null}] /\ ToSet(mFreeThreadIndex) \subseteq Slots
    /\ owner \in {Nobody, "caller"} /\ slot \in Slots \cup {0}
    /\ routine \in [Slots -> {"look", "run", "empty", "free", "halt", "halted", "over"}]

\* A slot on the stack is there once and holds no handler, so that no job is stored over
\* another one, and no job is run twice (execute_job against _update_index).
SlotsOwned ==
    /\ IsInjective(mFreeThreadIndex)
    /\ \A i \in ToSet(mFreeThreadIndex) : tHandler[i] = Null
    /\ \A j \in Jobs : ran[j] <= 1

\* A job a slot has taken is run, unless the pool is destroyed, which does not wait for it,
\* or the caller crashed on the slot its thread had emptied, or, on Windows, resume() came
\* between the look of the thread and its halt(): then the job waits for ever.
JobsRun == \A j \in Jobs :
    j \in accepted ~>
        \/ ran[j] = 1 \/ ~mIsRunning \/ undefined
        \/ windows /\ \E i \in Slots : tHandler[i] = j /\ routine[i] = "halted" /\ caller = "idle"
==================================================================================
