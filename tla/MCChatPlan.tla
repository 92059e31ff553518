---------------------------- MODULE MCChatPlan ----------------------------
(***************************************************************************)
(* Small instances of ChatPlan for TLC.                                    *)
(***************************************************************************)
EXTENDS ChatPlan, TLC
===========================================================================
