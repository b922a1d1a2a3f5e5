------------------------------ MODULE MCConfigFlow ------------------------------
(***************************************************************************)
(* Three flows: one may wait as a discovery while two meet over an account, *)
(* whose address is typed in two ways.                                     *)
(***************************************************************************)
EXTENDS ConfigFlow, TLC

CONSTANTS f1, f2, f3

ThreeFlows  == {f1, f2, f3}
OneFlow     == {f1}
SymmetricFlows == Permutations(ThreeFlows)
Addresses   == {"Ann", "ann", "bob"}
LowerCase   == [t \in Addresses |-> IF t = "bob" THEN "bob" ELSE "ann"]
AllSurprises == {"outage", "toggle"}
NoSurprises  == {}
===============================================================================
