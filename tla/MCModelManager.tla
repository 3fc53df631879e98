--------------------------- MODULE MCModelManager ---------------------------
(* ModelManager on three coroutines and two models: one caller can hold the *)
(* lock, a second wait for it and a third generate; two models are what a   *)
(* swap is between.                                                         *)
EXTENDS ModelManager

CONSTANTS c1, c2, c3, m1, m2

MCCallers == {c1, c2, c3}
MCModels == {m1, m2}

NoFailures == {}
=============================================================================
