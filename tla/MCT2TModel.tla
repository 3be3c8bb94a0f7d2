------------------------------ MODULE MCT2TModel ------------------------------
(* Instances of T2TModel for TLC.                                          *)
EXTENDS T2TModel

CONSTANTS t1, p1, p2, n1, n2

MCThreads == {t1}
MCProcessors == {p1, p2}
MCOneProcessor == {p1}
MCNodes == {n1, n2}
MCContextLength == [p \in Processors |-> IF p = p1 THEN 2 ELSE 1]
=============================================================================
