---------------------------- MODULE MCT2TProcessor ----------------------------
(* Instances of T2TProcessor for TLC.                                      *)
EXTENDS T2TProcessor, TLC

CONSTANTS t1, t2

MCThreads == {t1, t2}
MCSymmetry == Permutations(MCThreads)

\* The flow of the documentation's single-prompt and dialogue examples: every
\* call is made from the callback that reports the step before it.
Documented ==
    {<<"initialize", "main">>,
     <<"set_inference_client", "on_initialize">>,
     <<"execute_input", "on_register">>,
     <<"execute_input", "on_kv_processed">>,
     <<"next", "on_batch_processed">>,
     <<"next", "on_write">>,
     <<"execute_input", "on_finish">>,
     <<"destroy", "main">>,
     <<"initialize", "on_destroy">>,
     <<"delete", "on_destroy">>,
     <<"delete", "on_initialize_fail">>}

\* Any call anywhere, in the circumstances the guards of the code handle.
Anywhere ==
    {"initialize", "execute_input", "execute_input before update", "next",
     "next after finish", "set_inference_client", "halt", "resume", "destroy",
     "destroy while running", "delete"} \X Places

\* The proofs' restrictions on the application hold of the runs' uses.
ASSUME UsesAssumption ==
    /\ LawfulUses /\ PatientUses /\ SingleAttempts
    /\ Uses = Documented => TurnUses

\* What was started ends and is reported: initialize_sync returns, a created
\* worker serves the signal it was created for, update() reports completions.
JobsServed == InitializeCompletes /\ FreshWorkerServes /\ CompletionConsumed
=============================================================================
