----------------------------- MODULE Conversation -----------------------------
(***************************************************************************)
(* What the caching modes of the text-to-text processor promise: which     *)
(* tokens the language model has in front of it, in order.                 *)
(*                                                                         *)
(*   "clear"  every input starts from nothing                              *)
(*   "store"  an input continues the prompts and responses before it       *)
(*   "lock"   an input continues the locked tokens, and nothing else       *)
(***************************************************************************)
EXTENDS Sequences, Naturals

CONSTANTS
    Tokens,         \* the vocabulary
    Prompts,        \* the sequences of tokens that are put in
    ContextLength   \* how many tokens a context holds

VARIABLES
    mode,
    context,    \* the tokens the language model sees
    locked,     \* the tokens locked in front
    answering   \* a prompt is in and its response not complete

vars == <<mode, context, locked, answering>>

Modes == {"clear", "store", "lock"}

Init ==
    /\ mode = "clear"
    /\ context = <<>>
    /\ locked = <<>>
    /\ answering = FALSE

SetMode(m) ==
    /\ mode' = m
    /\ UNCHANGED <<context, locked, answering>>

\* what an input finds in front of it
Before ==
    CASE mode = "clear" -> <<>>
      [] mode = "store" -> context
      [] mode = "lock"  -> locked

Lock(prompt) ==
    /\ mode = "lock"
    /\ locked' = locked \o prompt
    /\ context' = locked'
    /\ answering' = FALSE
    /\ UNCHANGED mode

Prompt(prompt) ==
    /\ context' = Before \o prompt
    /\ Len(context') <= ContextLength
    /\ answering' = TRUE
    /\ UNCHANGED <<mode, locked>>

Answer(token) ==
    /\ answering
    /\ Len(context) < ContextLength
    /\ context' = Append(context, token)
    /\ UNCHANGED <<mode, locked, answering>>

\* the response ends with this token, or for want of room before it
Finish(token) ==
    /\ answering
    /\ \/ context' = IF mode = "lock" THEN locked ELSE context
       \/ mode = "store" /\ Len(context) < ContextLength /\ context' = Append(context, token)
    /\ answering' = FALSE
    /\ UNCHANGED <<mode, locked>>

Next ==
    \/ \E m \in Modes : SetMode(m)
    \/ \E prompt \in Prompts : Lock(prompt) \/ Prompt(prompt)
    \/ \E token \in Tokens : Answer(token) \/ Finish(token)

Spec == Init /\ [][Next]_vars
=============================================================================
