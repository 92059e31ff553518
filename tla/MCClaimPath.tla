---------------------------- MODULE MCClaimPath ----------------------------
(***************************************************************************)
(* A small instance of the path of a claim for TLC.                        *)
(***************************************************************************)
EXTENDS ClaimPath

CONSTANT r1

\* Every task is for the same runtime; the pollers of the others compete for
\* the slots.
MCRuntimeOf == [t \in Jobs |-> r1]
=============================================================================
