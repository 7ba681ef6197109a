---------------------------- MODULE MCTokenLedger ----------------------------
(***************************************************************************)
(* TokenLedger for TLC, with the constants of MCRateLimiter.               *)
(***************************************************************************)
EXTENDS TokenLedger, MCRateLimiter
==============================================================================
