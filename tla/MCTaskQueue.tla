---------------------------- MODULE MCTaskQueue ----------------------------
(***************************************************************************)
(* Small instances of TaskQueue for TLC: the configurations TaskQueue*.cfg *)
(* give every constant its value.                                          *)
(***************************************************************************)
EXTENDS TaskQueueProperties, TLC

\* Runtimes are interchangeable: no action and no safety property names one.
RuntimeSymmetry == Permutations(Runtimes)
=============================================================================
