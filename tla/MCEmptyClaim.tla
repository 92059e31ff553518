--------------------------- MODULE MCEmptyClaim ---------------------------
(***************************************************************************)
(* Small instances of EmptyClaim for TLC.                                  *)
(***************************************************************************)
EXTENDS EmptyClaim, TLC

\* Tasks are interchangeable, and so are the requests of a runtime.
TaskSymmetry == Permutations(Tasks) \cup Permutations(Slots)
===========================================================================
