------------------------------- MODULE MCDevice -------------------------------
(***************************************************************************)
(* Any number of calls, one after the other, on one device object.         *)
(***************************************************************************)
EXTENDS Device

AllFaults     == FaultKinds
\* Everything but what makes a returned position obsolete or undecipherable.
FaithfulBolt  == {"drop", "gatt", "lose", "dup"}
OnlyGarbled   == {"garble"}
OnlyForeign   == {"foreign"}
OneToken      == {"valid"}
EveryToken    == Tokens
===============================================================================
