----------------------------- MODULE MCIntegration -----------------------------
(***************************************************************************)
(* Two locks, one more than it takes to fetch some and not others.         *)
(***************************************************************************)
EXTENDS Integration

TwoLocks == {"front", "back"}
===============================================================================
