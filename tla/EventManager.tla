------------------------------- MODULE EventManager -------------------------------
(***************************************************************************)
(* mbase::event_manager: for every event a group, the list of its listeners. *)
(* dispatch_event() walks the list and calls them; a listener may add and    *)
(* remove listeners of the same manager while it runs.  EVENT_ONCE is not    *)
(* modelled: nothing sets mEventType, which is private, from EVENT_ON; nor   *)
(* is a blocked group: nothing sets isGroupBlocked.  A call of the manager   *)
(* from on_register, the last thing add_event_listener does, is one made     *)
(* directly after it; that on_unregister calls the manager, from between the *)
(* steps of a removal, is not modelled.  A list node is known by the number  *)
(* of its registration.                                                      *)
(***************************************************************************)
EXTENDS Naturals, Sequences, SequencesExt

CONSTANTS
    Events, Handlers,
    maxListeners,       \* bound on a group; 1024 in the source
    MaxRegistrations,   \* bound on the registrations
    MaxEdits            \* bound on what one listener does to the manager

VARIABLES
    handler,        \* Handlers -> name, registered, node (mEventName, mStatus, mSelfIter)
    group,          \* mEventMap: Events -> the nodes of its list, or NoGroup
    place,          \* "idle", "walking", "calling"
    event,          \* the event dispatched
    it,             \* the node of the walk
    edits, counter,
    undefined,      \* the walk went on from a node that is gone
    calls           \* history: how often a node was called in this dispatch

vars == <<handler, group, place, event, it, edits, counter, undefined, calls>>

Null == 0
NoName == "none"
NoGroup == <<[node |-> Null, handler |-> NoName]>>
Listeners(e) == IF group[e] = NoGroup THEN <<>> ELSE group[e]
Nodes(list) == {list[i].node : i \in DOMAIN list}
At(list, n) == CHOOSE i \in DOMAIN list : list[i].node = n
After(list, n) == IF At(list, n) = Len(list) THEN Null ELSE list[At(list, n) + 1].node
Unregistered(h) == [h EXCEPT !.name = NoName, !.registered = FALSE]

Init ==
    /\ handler = [h \in Handlers |-> [name |-> NoName, registered |-> FALSE, node |-> Null]]
    /\ group = [e \in Events |-> NoGroup]
    /\ place = "idle" /\ event = NoName /\ it = Null
    /\ edits = 0 /\ counter = 0 /\ undefined = FALSE
    /\ calls = [n \in 1 .. MaxRegistrations |-> 0]

Caller ==
    /\ \/ place = "idle" /\ UNCHANGED edits
       \/ place = "calling" /\ edits < MaxEdits /\ edits' = edits + 1
    /\ UNCHANGED <<place, event, it, undefined, calls>>

\* mutant of Placed: a listener is put in front
PlacedFirst(list, entry) == <<entry>> \o list
Placed(list, entry) == Append(list, entry)      \* insert(cend(), ...)

\* mutant of add_event_listener: the status is not looked at
add_anyway(e, h) ==
    /\ Caller /\ counter < MaxRegistrations
    /\ Len(Listeners(e)) < maxListeners
    /\ counter' = counter + 1
    /\ handler' = [handler EXCEPT ![h] = [name |-> e, registered |-> TRUE, node |-> counter + 1]]
    /\ group' = [group EXCEPT ![e] = Placed(Listeners(e), [node |-> counter + 1, handler |-> h])]

\* A new group has no limit to look at
add_event_listener(e, h) ==
    /\ Caller /\ counter < MaxRegistrations
    /\ ~handler[h].registered
    /\ group[e] # NoGroup => Len(group[e]) < maxListeners
    /\ counter' = counter + 1
    /\ handler' = [handler EXCEPT ![h] = [name |-> e, registered |-> TRUE, node |-> counter + 1]]
    /\ group' = [group EXCEPT ![e] = Placed(Listeners(e), [node |-> counter + 1, handler |-> h])]

remove_listener(h) ==
    /\ Caller /\ UNCHANGED counter
    /\ handler[h].registered
    /\ group' = [group EXCEPT ![handler[h].name] = SelectSeq(@, LAMBDA x : x.node # handler[h].node)]
    /\ handler' = [handler EXCEPT ![h] = Unregistered(@)]

\* The group itself goes too; a listener that calls this for the event that is being
\* dispatched takes the list away under the walk
remove_all_listeners(e) ==
    /\ Caller /\ UNCHANGED counter
    /\ group[e] # NoGroup
    /\ handler' = [h \in Handlers |->
                     IF handler[h].registered /\ handler[h].node \in Nodes(group[e])
                     THEN Unregistered(handler[h]) ELSE handler[h]]
    /\ group' = [group EXCEPT ![e] = NoGroup]
------------------------------------------------------------------------------
dispatch_event(e) ==
    /\ place = "idle" /\ ~undefined
    /\ group[e] # NoGroup
    /\ event' = e /\ it' = IF group[e] = <<>> THEN Null ELSE group[e][1].node
    /\ place' = "walking" /\ calls' = [n \in 1 .. MaxRegistrations |-> 0]
    /\ UNCHANGED <<handler, group, edits, counter, undefined>>

Call ==
    /\ place = "walking" /\ it # Null
    /\ place' = "calling" /\ edits' = 0 /\ calls' = [calls EXCEPT ![it] = @ + 1]
    /\ UNCHANGED <<handler, group, event, it, counter, undefined>>

\* It++ on the node just called: gone if its listener removed itself
Returned ==
    /\ place = "calling"
    /\ IF it \in Nodes(Listeners(event))
       THEN it' = After(Listeners(event), it) /\ place' = "walking" /\ UNCHANGED undefined
       ELSE undefined' = TRUE /\ place' = "idle" /\ UNCHANGED it
    /\ UNCHANGED <<handler, group, event, edits, counter, calls>>

Dispatched ==
    /\ place = "walking" /\ it = Null
    /\ place' = "idle"
    /\ UNCHANGED <<handler, group, event, it, edits, counter, undefined, calls>>

Next ==
    \/ \E e \in Events, h \in Handlers : add_event_listener(e, h)
    \/ \E h \in Handlers : remove_listener(h)
    \/ \E e \in Events : remove_all_listeners(e) \/ dispatch_event(e)
    \/ Call \/ Returned \/ Dispatched
Spec == Init /\ [][Next]_vars
------------------------------------------------------------------------------
\* Types of the manager's state.
TypeOK ==
    /\ place \in {"idle", "walking", "calling"} /\ event \in Events \cup {NoName}
    /\ it \in 0 .. counter
    /\ \A e \in Events : Len(Listeners(e)) <= maxListeners

\* A listener is in the list of the event it names, once, at the node it remembers, and
\* in no other: so remove_listener() erases a node of that list, also from a listener.
GroupsMatch == \A h \in Handlers, e \in Events :
    LET mine == SelectSeq(Listeners(e), LAMBDA x : x.handler = h)
    IN  IF handler[h].registered /\ handler[h].name = e
        THEN mine = <<[node |-> handler[h].node, handler |-> h]>> ELSE mine = <<>>

\* However listeners are added and removed by the ones called before, a dispatch that
\* comes to its end has called every listener then registered exactly once, those added
\* on the way included (they are put last, dispatch_event).
EveryListenerCalledOnce ==
    place = "walking" /\ it = Null => \A n \in Nodes(Listeners(event)) : calls[n] = 1
==================================================================================
