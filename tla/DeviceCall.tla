------------------------------- MODULE DeviceCall -------------------------------
(***************************************************************************)
(* What one call of WyzeLockClassic promises, whatever the radio does: a   *)
(* set orders the bolt to its own target and nowhere else, at most         *)
(* Attempts times and never once the call is over; a read orders nothing;  *)
(* a position that is returned is one the bolt has had during the call,    *)
(* and a set returns only after the lock accepted its order.               *)
(***************************************************************************)
EXTENDS Naturals

CONSTANT Attempts

VARIABLES phase, op, target, bolt, throwing, orders, seen, outcome

callVars == <<phase, op, target, bolt, throwing, orders, seen, outcome>>

CallPositions == {"locked", "unlocked"}
CallOps       == {"set", "status", "state"}
Raised        == {"failed", "decode_error", "cancelled"}

CallInit ==
    /\ phase = "idle"
    /\ op = "state"
    /\ target \in CallPositions
    /\ bolt \in CallPositions
    /\ throwing = "none"
    /\ orders = 0
    /\ seen = {bolt}
    /\ outcome = "none"

Begin(o, to) ==
    /\ phase = "idle"
    /\ phase' = "running"
    /\ op' = o
    /\ target' = to
    /\ orders' = 0
    /\ seen' = {bolt}
    /\ outcome' = "none"
    /\ UNCHANGED <<bolt, throwing>>

Order ==
    /\ phase = "running"
    /\ op = "set"
    /\ orders < Attempts
    /\ orders' = orders + 1
    /\ throwing' = target
    /\ UNCHANGED <<phase, op, target, bolt, seen, outcome>>

\* The bolt obeys an order, gives it up, or is turned by somebody else.
Obey ==
    /\ throwing # "none"
    /\ throwing' = "none"
    /\ bolt' \in {bolt, throwing}
    /\ seen' = seen \cup {bolt'}
    /\ UNCHANGED <<phase, op, target, orders, outcome>>

Turn ==
    /\ bolt' \in CallPositions
    /\ seen' = seen \cup {bolt'}
    /\ UNCHANGED <<phase, op, target, throwing, orders, outcome>>

Return ==
    /\ phase = "running"
    /\ phase' = "idle"
    /\ \/ outcome' \in seen /\ (op = "set" => orders >= 1)
       \/ outcome' \in Raised
    /\ UNCHANGED <<op, target, bolt, throwing, orders, seen>>

CallNext ==
    \/ \E o \in CallOps, to \in CallPositions : Begin(o, to)
    \/ Order \/ Obey \/ Turn \/ Return

CallSpec == CallInit /\ [][CallNext]_callVars
===============================================================================
