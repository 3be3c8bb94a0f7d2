-------------------------- MODULE MCLogicalProcessor --------------------------
(* Instances of LogicalProcessor for TLC: two signals and two thread       *)
(* identities are enough for a job to run beside a raise of another signal *)
(* and for a second worker to be created beside a first.                   *)
EXTENDS LogicalProcessor

CONSTANTS t1, t2, input, decode

MCThreads == {t1, t2}
MCSignals == {input, decode}
=============================================================================
