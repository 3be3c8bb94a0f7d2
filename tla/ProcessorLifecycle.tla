-------------------------- MODULE ProcessorLifecycle --------------------------
(***************************************************************************)
(* What the other parts of the library rely on in an inference processor:  *)
(* the life of its context, from initialize to destroy and the destructor. *)
(* T2TProcessor implements this machine; T2TModel and its successors use   *)
(* one copy of it for every processor they manage.                         *)
(*                                                                         *)
(* life is a record:                                                       *)
(*   stage       how far the last initialize or destroy has come: off,     *)
(*               initializing (signal raised), made (context made or       *)
(*               refused, signal still up), initialized (waiting for       *)
(*               update), registered, destroying, freed, destroyed,        *)
(*               deleted; lost: a destroy() came so late that its signal   *)
(*               was raised on a processor that has no context any more,   *)
(*               where no worker and no update() ever takes it down        *)
(*   registered  is_registered()                                           *)
(*   failed      mIsInitializeFailed, which only a destroy clears          *)
(*   context     is there a llama context: "null" or "live"                *)
(***************************************************************************)

Stages == {"off", "initializing", "made", "initialized", "registered",
           "destroying", "freed", "destroyed", "lost", "deleted"}

Lives == [stage : Stages, registered : BOOLEAN, failed : BOOLEAN,
          context : {"null", "live"}]

Constructed ==
    [stage |-> "off", registered |-> FALSE, failed |-> FALSE, context |-> "null"]

At(l, stage) == l.stage = stage
To(l, stage) == [l EXCEPT !.stage = stage]

\* The lives one step can lead to.

InitializeCalled(l) == IF At(l, "off") THEN {To(l, "initializing")} ELSE {}

\* The worker makes the context, or fails to: after an earlier life the
\* refusal may leave an old context behind.
ContextMade(l) ==
    IF At(l, "initializing") THEN {[To(l, "made") EXCEPT !.context = "live"]} ELSE {}
ContextRefused(l) ==
    IF At(l, "initializing")
    THEN {[stage |-> "made", registered |-> l.registered, failed |-> TRUE, context |-> c] :
             c \in {l.context, "null"}}
    ELSE {}

DestroyCalled(l) == IF At(l, "registered") THEN {To(l, "destroying")} ELSE {}

\* destroy() asks is_registered() and then signal_destroying(), the worker of an
\* earlier destroy ends between the two
DestroyCalledLate(l) == IF l.stage \in {"destroyed", "off"} THEN {To(l, "lost")} ELSE {}

ContextFreed(l) ==
    IF At(l, "destroying")
    THEN {[stage |-> "freed", registered |-> FALSE, failed |-> FALSE, context |-> "null"]}
    ELSE {}

SignalDropped(l) ==
    CASE At(l, "made")  -> {To(l, "initialized")}
      [] At(l, "freed") -> {To(l, "destroyed")}
      [] OTHER          -> {}

\* update() on the owner's thread
Updated(l) ==
    CASE At(l, "initialized") /\ l.failed  -> {To(l, "off")}
      [] At(l, "initialized") /\ ~l.failed -> {[To(l, "registered") EXCEPT !.registered = TRUE]}
      [] At(l, "destroyed")                -> {To(l, "off")}
      [] OTHER                             -> {}

\* the destructor; it frees what context there is once its worker has ended
Settled(l) == l.stage \in {"off", "initialized", "registered", "destroyed"}
Deleted(l) == IF Settled(l) THEN {To(l, "deleted")} ELSE {}
Swept(l) == IF At(l, "deleted") THEN {[l EXCEPT !.context = "null"]} ELSE {}

\* what the worker thread does by itself
Worked(l) == ContextMade(l) \cup ContextRefused(l) \cup ContextFreed(l) \cup SignalDropped(l)

Called(l) ==
    InitializeCalled(l) \cup DestroyCalled(l) \cup DestroyCalledLate(l) \cup Updated(l)
        \cup Deleted(l) \cup Swept(l)

-----------------------------------------------------------------------------
VARIABLE life

Init == life = Constructed
Next == life' \in Worked(life) \cup Called(life)
Spec == Init /\ [][Next]_life
=============================================================================
