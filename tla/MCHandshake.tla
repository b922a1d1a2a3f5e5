------------------------------ MODULE MCHandshake ------------------------------
(***************************************************************************)
(* One handshake: hostile surroundings for safety and termination, quiet   *)
(* ones for success.                                                       *)
(***************************************************************************)
EXTENDS Handshake

AllFaults   == FaultKinds
DupFaults   == {"dup"}
OneToken    == {"valid"}
EveryToken  == Tokens
===============================================================================
