-------------------------------- MODULE TimerLoop --------------------------------
(***************************************************************************)
(* mbase::timer_loop: a list of registered timers that run_timers() walks    *)
(* through, adding the time that has passed to each and calling the handlers *)
(* that are due on the same thread.  A handler may register and unregister   *)
(* timers of the loop, its own included.  A list node is known by the handler *)
(* id its registration gave out.                                             *)
(***************************************************************************)
EXTENDS Naturals, Sequences, SequencesExt

CONSTANTS
    Timers,
    Timeout(_),         \* a timeout, which fires once, or an interval
    Async(_),           \* called through the thread pool
    mTargetTime(_), mTickLimit(_),
    mTimerLimit,
    MaxDelta,           \* bound on the time between two passes
    MaxRegistrations,   \* bound on the handler ids given out
    MaxEdits            \* bound on what one handler does to the loop

ASSUME BoundsAssumption == {mTimerLimit, MaxDelta, MaxRegistrations, MaxEdits} \subseteq Nat

VARIABLES
    timer,          \* Timers -> status, loop, current, ticks, node
    registered,     \* mRegisteredTimers: the nodes, each with its timer
    place,          \* "idle", "walking", "calling"
    it,             \* the node the walk looks at next, Null at the end
    called,         \* the timer whose handler runs
    delta,          \* mDeltaTime of the pass
    edits,          \* what the running handler has done to the loop
    counter,        \* mTimerIdCounter
    undefined,      \* the walk was left at a node that is gone
    given,          \* history: how often a node got the delta in this pass
    back            \* history: how often erase() returned the node before in this pass

vars == <<timer, registered, place, it, called, delta, edits, counter, undefined, given, back>>

Null == 0
None == "none"

Nodes(list) == {list[i].node : i \in DOMAIN list}
At(list, n) == CHOOSE i \in DOMAIN list : list[i].node = n
After(list, n) == IF At(list, n) = Len(list) THEN Null ELSE list[At(list, n) + 1].node
First(list) == IF list = <<>> THEN Null ELSE list[1].node
Without(list, n) == RemoveAt(list, At(list, n))
\* list::erase() returns the node before when it erases the last of several
Erased(list, n) ==
    IF At(list, n) = 1 \/ At(list, n) < Len(list) THEN After(list, n) ELSE list[Len(list) - 1].node

is_registered(t) == timer[t].status = "registered"

Init ==
    /\ timer = [t \in Timers |-> [status |-> "unregistered", mine |-> FALSE, current |-> 0,
                                  ticks |-> 0, node |-> Null]]
    /\ registered = <<>> /\ place = "idle" /\ it = Null /\ called = None
    /\ delta = 0 /\ edits = 0 /\ counter = 0 /\ undefined = FALSE
    /\ given = [n \in 1 .. MaxRegistrations |-> 0] /\ back = 0

\* Methods of the loop are called between two passes and from handlers
Caller ==
    \/ place = "idle" /\ UNCHANGED edits
    \/ place = "calling" /\ edits < MaxEdits /\ edits' = edits + 1
Same == UNCHANGED <<place, it, called, delta, undefined, given, back>>

\* mutant of register_timer: a timer is entered although it is registered
register_again(t) ==
    /\ Caller /\ Same /\ counter < MaxRegistrations /\ Len(registered) <= mTimerLimit
    /\ counter' = counter + 1
    /\ timer' = [timer EXCEPT ![t] = [@ EXCEPT !.status = "registered", !.mine = TRUE, !.node = counter + 1]]
    /\ registered' = Append(registered, [node |-> counter + 1, timer |-> t])

\* mutant of register_timer: the limit is looked at one timer later still
register_past_limit(t) ==
    /\ Caller /\ Same /\ counter < MaxRegistrations
    /\ ~is_registered(t) /\ Len(registered) <= mTimerLimit + 1
    /\ counter' = counter + 1
    /\ timer' = [timer EXCEPT ![t] = [@ EXCEPT !.status = "registered", !.mine = TRUE, !.node = counter + 1]]
    /\ registered' = Append(registered, [node |-> counter + 1, timer |-> t])

\* The size is compared with > : one timer more than the limit fits
register_timer(t) ==
    /\ Caller /\ Same /\ counter < MaxRegistrations
    /\ ~is_registered(t) /\ Len(registered) <= mTimerLimit
    /\ counter' = counter + 1
    /\ timer' = [timer EXCEPT ![t] = [@ EXCEPT !.status = "registered", !.mine = TRUE, !.node = counter + 1]]
    /\ registered' = Append(registered, [node |-> counter + 1, timer |-> t])

\* A timer that fired as a timeout passes is_registered() and is then of a foreign loop
unregister_timer(t) ==
    /\ Caller /\ Same /\ UNCHANGED counter
    /\ is_registered(t) /\ timer[t].mine
    /\ timer' = [timer EXCEPT ![t].status = "unregistered", ![t].mine = FALSE]
    /\ registered' = Without(registered, timer[t].node)

clear_timers ==
    /\ Caller /\ Same /\ UNCHANGED counter
    /\ registered # <<>>
    /\ timer' = [t \in Timers |-> IF timer[t].node \in Nodes(registered)
                                  THEN [timer[t] EXCEPT !.status = "abandoned", !.mine = FALSE] ELSE timer[t]]
    /\ registered' = <<>>

\* set_target_time() and reset_time(); the program calls them between two passes
reset_time(t) ==
    /\ place = "idle" /\ timer[t].current # 0
    /\ timer' = [timer EXCEPT ![t].current = 0]
    /\ UNCHANGED <<registered, counter, edits>> /\ Same
reset_tick_counter(t) ==
    /\ place = "idle" /\ timer[t].ticks # 0
    /\ timer' = [timer EXCEPT ![t].ticks = 0]
    /\ UNCHANGED <<registered, counter, edits>> /\ Same
------------------------------------------------------------------------------
\* run_timers()
StartPass ==
    /\ place = "idle" /\ ~undefined
    /\ delta' \in 0 .. MaxDelta
    /\ it' = First(registered) /\ place' = IF registered = <<>> THEN "idle" ELSE "walking"
    /\ given' = [n \in 1 .. MaxRegistrations |-> 0] /\ back' = 0
    /\ UNCHANGED <<timer, registered, called, edits, counter, undefined>>

EndPass ==
    /\ place = "walking" /\ it = Null
    /\ place' = "idle"
    /\ UNCHANGED <<timer, registered, it, called, delta, edits, counter, undefined, given, back>>

\* mutant of Looked: the iterator goes on only from a timer that is due
LookedStays(t, now) ==
    /\ timer' = [timer EXCEPT ![t].current = now]
    /\ given' = [given EXCEPT ![it] = @ + 1]
    /\ IF now >= mTargetTime(t)
       THEN it' = After(registered, it) /\ place' = "calling" /\ called' = t /\ edits' = 0
       ELSE UNCHANGED <<it, place, called, edits>>
\* mutant of Looked: the time of the pass replaces the time so far
LookedAnew(t, now) ==
    /\ timer' = [timer EXCEPT ![t].current = delta]
    /\ given' = [given EXCEPT ![it] = @ + 1]
    /\ it' = After(registered, it)
    /\ IF delta >= mTargetTime(t)
       THEN place' = "calling" /\ called' = t /\ edits' = 0
       ELSE UNCHANGED <<place, called, edits>>

\* The iterator goes on before the handler is called
Looked(t, now) ==
    /\ timer' = [timer EXCEPT ![t].current = now]
    /\ given' = [given EXCEPT ![it] = @ + 1]
    /\ it' = After(registered, it)
    /\ IF now >= mTargetTime(t)
       THEN place' = "calling" /\ called' = t /\ edits' = 0
       ELSE UNCHANGED <<place, called, edits>>
Visit ==
    /\ place = "walking" /\ it # Null /\ ~undefined
    /\ IF it \notin Nodes(registered)
       THEN undefined' = TRUE /\ UNCHANGED <<timer, it, place, called, edits, given>>
       ELSE LET t == registered[At(registered, it)].timer
            IN  Looked(t, timer[t].current + delta) /\ UNCHANGED undefined
    /\ UNCHANGED <<registered, delta, counter, back>>

\* The handler has returned.  A handler that unregistered its timer and registered it
\* again is treated as one that did nothing, on the node the timer has now.  A pool
\* without threads, which the default constructor makes, never calls an asynchronous
\* handler: the timer goes on as if it had.
Returned ==
    /\ place = "calling" /\ place' = "walking" /\ called' = None
    /\ LET t == called
           leave(status) ==
               /\ timer' = [timer EXCEPT ![t] = [timer[t] EXCEPT !.mine = FALSE, !.status = status,
                                                                !.current = IF Timeout(t) THEN @ ELSE 0,
                                                                !.ticks = IF Timeout(t) THEN @ ELSE @ + 1]]
               /\ registered' = Without(registered, timer[t].node)
               /\ it' = Erased(registered, timer[t].node)
               /\ back' = IF it' # Null /\ it' # After(registered, timer[t].node) THEN back + 1 ELSE back
       IN  IF ~is_registered(t) THEN UNCHANGED <<timer, registered, it, back>>
           ELSE IF Timeout(t) THEN leave("registered")
           ELSE IF mTickLimit(t) # 0 /\ timer[t].ticks + 1 >= mTickLimit(t) THEN leave("unregistered")
           ELSE /\ timer' = [timer EXCEPT ![t].current = 0,
                                          ![t].ticks = IF mTickLimit(t) = 0 THEN 0 ELSE @ + 1]
                /\ UNCHANGED <<registered, it, back>>
    /\ UNCHANGED <<delta, edits, counter, undefined, given>>

\* An asynchronous handler does nothing on this thread
Edit ==
    \/ \E t \in Timers : register_timer(t) \/ unregister_timer(t)
    \/ clear_timers
Next ==
    \/ (place = "calling" => ~Async(called)) /\ Edit
    \/ \E t \in Timers : reset_time(t) \/ reset_tick_counter(t)
    \/ StartPass \/ EndPass \/ Visit \/ Returned
Spec == Init /\ [][Next]_vars

\* run_timer_loop() calls run_timers() over and over, and time passes
Fairness ==
    /\ WF_vars(EndPass \/ Visit \/ Returned)
    /\ SF_vars(StartPass /\ delta' > 0)
------------------------------------------------------------------------------
\* Types of the loop's state.
TypeOK ==
    /\ place \in {"idle", "walking", "calling"} /\ called \in Timers \cup {None}
    /\ it \in 0 .. MaxRegistrations /\ counter \in 0 .. MaxRegistrations
    /\ \A i \in DOMAIN registered : registered[i].timer \in Timers /\ registered[i].node \in 1 .. counter
    /\ Len(registered) <= mTimerLimit + 1

\* A timer is in the list once if its loop id is the loop's and not at all otherwise, and
\* the node it remembers is the one that holds it, also while handlers edit the list.  The
\* status cannot be used for this: a timeout that has fired keeps REGISTERED, so that it
\* can neither be registered nor unregistered again (run_timers, TIMER_TYPE_TIMEOUT).
ListMatches ==
    /\ \A i, k \in DOMAIN registered : registered[i].timer = registered[k].timer => i = k
    /\ \A i \in DOMAIN registered : timer[registered[i].timer].mine
    /\ \A t \in Timers :
          /\ timer[t].mine => /\ is_registered(t)
                              /\ [node |-> timer[t].node, timer |-> t] \in ToSet(registered)
          /\ is_registered(t) /\ ~timer[t].mine => Timeout(t)

\* A timer gets the time of a pass once, and once more for every time the pass erased the
\* last timer of the list, because erase() then returned the one before (run_timers).
DeltaOnce == \A n \in 1 .. MaxRegistrations : given[n] <= 1 + back

\* A timer that stays in the loop is called or leaves it: a handler that registers and
\* unregisters others does not keep it from its turn, unless the walk met a node that is
\* gone (the iterator goes on before the handler is called, and the handler may unregister
\* the timer it stands on), or the program sets timers back again and again.
SetBackForEver == []<><<\E t \in Timers : reset_time(t)>>_vars
EveryTimerRuns == ~SetBackForEver => \A t \in Timers :
    timer[t].mine ~> (called = t \/ ~timer[t].mine \/ undefined)
==================================================================================
