------------------------------- MODULE KvCache -------------------------------
(***************************************************************************)
(* How InfProcessorTextToText keeps the KV cache of its context in step    *)
(* with the prompts and responses: _decode_input, _decode_kv_locked_input, *)
(* _decode_next and _decode_cached_logits (inference/inf_t2t_processor.cpp)*)
(* with the cursors they leave behind for the next job.                    *)
(*                                                                         *)
(* These run one at a time, in the worker; T2TProcessor says when.  The    *)
(* cache itself is llama.cpp's: cells that hold a position and the token   *)
(* decoded there, oldest first.  Splitting a prompt into batches changes   *)
(* nothing but the number of llama_decode calls and is left out; so are    *)
(* the timings.                                                            *)
(***************************************************************************)
EXTENDS Sequences, Naturals, FiniteSets

CONSTANTS
    Tokens,         \* the vocabulary
    Eog,            \* its end-of-generation tokens
    Misplaced,      \* what the language model sees at a position gone wrong
    Prompts,        \* the inputs of the application
    mContextLength, \* and the number of cells
    Switches        \* the pairs <<from, to>> of set_manual_caching calls

ASSUME EogAssumption == Eog \subseteq Tokens /\ Misplaced \notin Tokens
ASSUME PromptsAssumption == Prompts \subseteq Seq(Tokens) \ {<<>>}
ASSUME ContextLengthAssumption == mContextLength \in Nat \ {0}

VARIABLES
    cells,              \* the KV cells: a sequence of [pos, token]
    mode,               \* mIsManualCaching and mCacheMode
    mContextCursor, mLogitStartIndex, mPromptStartIndex,
    mLogitTokenVector,
    mFinishState,
    logits              \* the context holds logits to sample from

cursorVars == <<mContextCursor, mLogitStartIndex, mPromptStartIndex>>
cacheVars == <<cells, mode, cursorVars, mLogitTokenVector, mFinishState, logits>>

CacheTypeOK ==
    /\ cells \in Seq([pos : Nat, token : Tokens])
    /\ mode \in {"clear", "store", "lock"}
    /\ {mContextCursor, mLogitStartIndex, mPromptStartIndex} \subseteq 0..mContextLength
    /\ mLogitTokenVector \in Seq(Tokens)
    /\ mFinishState \in {"CONTINUE", "FINISHED", "TOKEN_LIMIT_REACHED"}
    /\ logits \in BOOLEAN

CacheInit ==
    /\ cells = <<>>
    /\ mode = "clear"
    /\ mContextCursor = 0
    /\ mLogitStartIndex = 0
    /\ mPromptStartIndex = 0
    /\ mLogitTokenVector = <<>>
    /\ mFinishState = "FINISHED"
    /\ logits = FALSE

-----------------------------------------------------------------------------
(* llama.cpp.                                                              *)

\* llama_kv_self_n_tokens
get_cache_token_count == Len(cells)

\* llama_kv_self_seq_rm(ctx, 0, p0, -1)
SeqRm(cs, p0) ==
    LET left == {i \in DOMAIN cs : cs[i].pos < p0}
    IN  [n \in 1..Cardinality(left) |->
            cs[CHOOSE i \in left : Cardinality({k \in left : k <= i}) = n]]

\* llama_decode of tokens at consecutive positions; without room for all of
\* them it fails, which nothing looks at
Decoded(cs, tokens, pos) ==
    IF Len(cs) + Len(tokens) > mContextLength
    THEN cs
    ELSE cs \o [i \in 1..Len(tokens) |-> [pos |-> pos + i - 1, token |-> tokens[i]]]

-----------------------------------------------------------------------------
\* where _decode_cached_logits cuts in store mode
StoreCut == mLogitStartIndex - 1

\* the cells that _decode_cached_logits leaves, given the logit vector
CachedLogits(vector) ==
    CASE mode = "clear" \/ mLogitStartIndex = 0 -> cells
      [] mode = "lock"  /\ mLogitStartIndex # 0 -> SeqRm(cells, mPromptStartIndex)
      [] mode = "store" /\ mLogitStartIndex # 0 ->
            Decoded(SeqRm(cells, StoreCut), vector, mLogitStartIndex)

set_manual_caching(m) ==
    /\ <<mode, m>> \in Switches
    /\ mode' = m
    /\ UNCHANGED <<cells, cursorVars, mLogitTokenVector, mFinishState, logits>>

\* mutant of Fits: the cached tokens are not counted
FitsAlone(prompt) == Len(prompt) <= mContextLength

\* the length checks of execute_input
Fits(prompt) ==
    Len(prompt) + (IF mode = "clear" THEN 0 ELSE get_cache_token_count) <= mContextLength

_decode_input(prompt) ==
    LET before == IF mode = "clear" THEN <<>> ELSE CachedLogits(mLogitTokenVector)
    IN  /\ Fits(prompt)
        /\ cells' = Decoded(before, prompt, Len(before))
        /\ mContextCursor' = Len(cells')
        /\ mLogitStartIndex' = Len(cells') - 1
        /\ mLogitTokenVector' = IF mode = "clear" THEN <<>> ELSE <<prompt[Len(prompt)]>>
        /\ mFinishState' = "CONTINUE"
        /\ logits' = TRUE
        /\ UNCHANGED <<mode, mPromptStartIndex>>

_decode_kv_locked_input(prompt) ==
    LET before == CachedLogits(mLogitTokenVector)
    IN  /\ mode = "lock"
        /\ Fits(prompt)
        /\ cells' = Decoded(before, prompt, Len(before))
        /\ mPromptStartIndex' = Len(cells')
        /\ logits' = FALSE
        /\ UNCHANGED <<mode, mContextCursor, mLogitStartIndex, mLogitTokenVector, mFinishState>>

-----------------------------------------------------------------------------
(* One round of the loop of _decode_next.  The application asks for it     *)
(* while there are logits to sample from.                                  *)

Sampled(token) ==
    IF mode = "store" THEN Append(mLogitTokenVector, token) ELSE mLogitTokenVector

\* mutant of DecodeToken: the cursor stays where it is
DecodeTokenInPlace(token) ==
    /\ mFinishState = "CONTINUE" /\ logits
    /\ token \notin Eog
    /\ mContextCursor # mContextLength
    /\ cells' = Decoded(cells, <<token>>, mContextCursor)
    /\ mLogitTokenVector' = Sampled(token)
    /\ UNCHANGED <<mode, cursorVars, mFinishState, logits>>

\* mutant of ContextFull: the limit is looked for one token late
ContextFullLate == mContextCursor = mContextLength + 1

ContextFull == mContextCursor = mContextLength

\* the generation goes on
DecodeToken(token) ==
    /\ mFinishState = "CONTINUE" /\ logits
    /\ token \notin Eog
    /\ ~ContextFull
    /\ cells' = Decoded(cells, <<token>>, mContextCursor)
    /\ mContextCursor' = mContextCursor + 1
    /\ mLogitTokenVector' = Sampled(token)
    /\ UNCHANGED <<mode, mLogitStartIndex, mPromptStartIndex, mFinishState, logits>>

\* the end of the generation, or of the room for it
FinishGeneration(token) ==
    /\ mFinishState = "CONTINUE" /\ logits
    /\ token \in Eog \/ ContextFull
    /\ mFinishState' = IF token \in Eog THEN "FINISHED" ELSE "TOKEN_LIMIT_REACHED"
    /\ cells' = CachedLogits(Sampled(token))
    /\ IF mode = "store" /\ mLogitStartIndex # 0
       THEN mLogitStartIndex' = 0 /\ mLogitTokenVector' = <<>>
       ELSE UNCHANGED mLogitStartIndex /\ mLogitTokenVector' = Sampled(token)
    /\ logits' = FALSE
    /\ UNCHANGED <<mode, mContextCursor, mPromptStartIndex>>

CacheNext ==
    \/ \E m \in {"clear", "store", "lock"} : set_manual_caching(m)
    \/ \E prompt \in Prompts : _decode_input(prompt) \/ _decode_kv_locked_input(prompt)
    \/ \E token \in Tokens : DecodeToken(token) \/ FinishGeneration(token)

CacheSpec == CacheInit /\ [][CacheNext]_cacheVars

-----------------------------------------------------------------------------
(* Properties.                                                             *)

\* An application that keeps to the mode it has chosen, the logit store aside, and puts in more than a
\* single token.
KeepsMode == \A s \in Switches : s[1] = "clear" \/ s[2] \in {s[1], "store"}
LongPrompts == \A prompt \in Prompts : Len(prompt) > 1

\* While a response is generated the next position is the first free one, so
\* the token lands behind what the cache holds and not on top of it.
CursorAtEnd ==
    mFinishState = "CONTINUE" /\ logits => mContextCursor = get_cache_token_count

\* The cells, read in order, are the context of the Conversation.
Seen == [i \in 1..Len(cells) |->
            IF cells[i].pos = i - 1 THEN cells[i].token ELSE Misplaced]

C == INSTANCE Conversation WITH
        ContextLength <- mContextLength,
        context <- Seen,
        locked <- SubSeq(Seen, 1, mPromptStartIndex),
        answering <- mFinishState = "CONTINUE" /\ logits

\* Plain inputs and locked prompts put in front of the language model what
\* Conversation promises: an input starts from nothing or from exactly the
\* locked tokens, whatever responses and modes came before.  With the logit
\* store the promise is not kept: StoreCut starts one cell too early.
KeepsConversation ==
    C!Init /\ [][mode' # "store" => C!Next \/ UNCHANGED C!vars]_cacheVars
=============================================================================
