---------------------------- MODULE MCUserHistory ----------------------------
(***************************************************************************)
(* UserHistory for TLC, with the constants of MCUserService.               *)
(***************************************************************************)
EXTENDS UserHistory, MCUserService
==============================================================================
