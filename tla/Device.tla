-------------------------------- MODULE Device --------------------------------
(***************************************************************************)
(* WyzeLockClassic: one call at a time on one device object, each attempt  *)
(* on a connection of its own, interleaved with the lock and the link.     *)
(* The work of a set is the handshake of module Handshake; the work of a   *)
(* read is one to three GATT reads.                                        *)
(***************************************************************************)
EXTENDS Handshake

CONSTANT Attempts       \* _ATTEMPTS

ASSUME AttemptsAssumption == Attempts \in Nat \ {0}

VARIABLES
    op,         \* "set": async_set; "status": async_read_status;
                \* "state": async_get_state
    attempt,    \* the loop variable of _with_client
    outcome     \* how the last call ended, "none" while one runs

callArgs == <<op, argVars>>
dvars    == <<hvars, op, attempt, outcome>>

Ops      == {"set", "status", "state"}
Outcomes == Positions \cup {"none", "failed", "decode_error", "cancelled"}

ReadAwaits == {"read_state", "read_battery", "read_door"}
\* Inside `work`, with a client that has been connected.
WorkAwaits == HandshakeAwaits \cup ReadAwaits
Connected  == WorkAwaits \cup {"disconnect"}
Apart      == {"idle", "connect", "backoff"}

DeviceInit ==
    /\ LockInit("down")
    /\ awaiting = "idle"
    /\ answered = FALSE
    /\ gotResult = FALSE
    /\ gotState = FALSE
    /\ newState = "none"
    /\ tasks = <<>>
    /\ target \in Positions
    /\ token \in AnyToken
    /\ result = "none"
    /\ op = "state"
    /\ attempt = 0
    /\ outcome = "none"

-------------------------------------------------------------------------------
Call(o, to) ==
    /\ awaiting = "idle"
    /\ awaiting' = "connect"
    /\ op' = o
    /\ target' = to
    /\ attempt' = 0
    /\ outcome' = "none"
    /\ orders' = 0
    /\ seen' = {bolt}
    /\ UNCHANGED <<linkVars, bolt, throwing, localVars, token, result>>

CallSet  == \E to \in Positions : Call("set", to)
CallRead == \E o \in {"status", "state"} : Call(o, target)

\* establish_connection yields a client nobody has used yet.
Connect ==
    /\ awaiting = "connect"
    /\ link' = "up"
    /\ awaiting' = IF op = "set" THEN "start_notify_state" ELSE "read_state"
    /\ UNCHANGED <<subs, toLock, toClient, session, wire, boltVars>>
    /\ UNCHANGED <<localVars, result, attempt, outcome, callArgs>>

\* The device is not found, or cannot be connected to.
ConnectError ==
    /\ awaiting = "connect"
    /\ "gatt" \in Faults
    /\ awaiting' = "backoff"
    /\ UNCHANGED <<lockVars, localVars, result, attempt, outcome, callArgs>>

ReadState ==
    /\ awaiting = "read_state"
    /\ link = "up"
    /\ \E raw \in Reports(bolt) :
          IF raw = Malformed \/ op = "state"
          THEN Leave(ReadResult(raw)) /\ UNCHANGED newState
          ELSE Await("read_battery") /\ newState' = DecodeState(raw)
    /\ UNCHANGED <<lockVars, answered, gotResult, gotState, tasks>>
    /\ UNCHANGED <<attempt, outcome, callArgs>>

ReadStateError ==
    /\ awaiting = "read_state"
    /\ GattFails
    /\ Leave("ble_error")
    /\ UNCHANGED <<lockVars, localVars, attempt, outcome, callArgs>>

\* Battery and door are best-effort: a BleakError is passed over.  A value that
\* cannot be decoded raises ValueError, which is not.
ExtraMandatory(proceed) ==  \* A bug: a failed extra fails the read.
    /\ \/ link = "up" /\ proceed
       \/ GattFails /\ Leave("ble_error")
    /\ UNCHANGED <<lockVars, localVars, attempt, outcome, callArgs>>
ReadExtra(proceed) ==
    /\ \/ (link = "up" \/ GattFails) /\ proceed
       \/ link = "up" /\ "garble" \in Faults /\ Leave("decode_error")
    /\ UNCHANGED <<lockVars, localVars, attempt, outcome, callArgs>>

ReadBattery == awaiting = "read_battery" /\ ReadExtra(Await("read_door"))
ReadDoor    == awaiting = "read_door"    /\ ReadExtra(Leave(newState))

-------------------------------------------------------------------------------
Finish(how) ==
    /\ awaiting' = "idle"
    /\ outcome' = how
    /\ result' = "none"

\* The exceptions _with_client retries; any other leaves it.
Retries(how) == how = "ble_error"

\* The finally clause.  What the handshake still had to send fails with the
\* connection it was to be sent on.
Disconnect ==
    /\ awaiting = "disconnect"
    /\ CutLink
    /\ FreshLocals
    /\ IF Retries(result)
       THEN awaiting' = "backoff" /\ result' = "none" /\ UNCHANGED outcome
       ELSE Finish(result)
    /\ UNCHANGED <<boltVars, attempt, callArgs>>

\* Bugs: one attempt too many, and a loop variable that stands still.
OneTooMany  == attempt = Attempts
SameAttempt == attempt
LastAttempt == attempt + 1 = Attempts
NextAttempt == attempt + 1

\* There is a pause after the last attempt too, the longest one: 2.4 seconds
\* for a throw of one or two.
NoLastPause == TRUE     \* A bug: the last attempt fails at once.
MayResume == LastAttempt => MayExpire(FALSE)

BackoffOver ==
    /\ awaiting = "backoff"
    /\ MayResume
    /\ IF LastAttempt
       THEN Finish("failed") /\ UNCHANGED attempt
       ELSE attempt' = NextAttempt /\ awaiting' = "connect" /\ UNCHANGED <<outcome, result>>
    /\ UNCHANGED <<lockVars, localVars, callArgs>>

\* CancelledError is no Exception: only the finally clause sees it.  A
\* disconnect that has been asked for takes effect even if the wait for it is
\* what gets cancelled.
CancelWithoutFinally ==  \* A bug: only an Exception releases the link.
    /\ "cancel" \in Faults
    /\ awaiting \in WorkAwaits
    /\ Finish("cancelled")
    /\ UNCHANGED <<lockVars, localVars, attempt, callArgs>>
CancelWork ==
    /\ "cancel" \in Faults
    /\ awaiting \in Connected
    /\ Leave("cancelled")
    /\ UNCHANGED <<lockVars, localVars, attempt, outcome, callArgs>>

CancelApart ==
    /\ "cancel" \in Faults
    /\ awaiting \in {"connect", "backoff"}
    /\ Finish("cancelled")
    /\ UNCHANGED <<lockVars, localVars, attempt, callArgs>>

CallStep ==
    \/ Connect \/ ConnectError \/ ReadState \/ ReadStateError \/ ReadBattery
    \/ ReadDoor \/ Disconnect \/ BackoffOver
    \/ Coroutine /\ UNCHANGED <<op, attempt, outcome>>

DeviceNext ==
    \/ CallSet \/ CallRead \/ CallStep \/ CancelWork \/ CancelApart
    \/ (Callback \/ RunSendTask \/ Environment) /\ UNCHANGED <<op, attempt, outcome>>

DeviceSpec == DeviceInit /\ [][DeviceNext]_dvars

\* The event loop schedules what is ready, timers expire, and bleak's connect,
\* read and disconnect return or raise.
FairDevice == DeviceSpec /\ WF_dvars(CallStep)

-------------------------------------------------------------------------------
DeviceTypeOK ==
    /\ LockTypeOK
    /\ ClientTypeOK
    /\ awaiting \in Connected \cup Apart
    /\ result \in Results
    /\ op \in Ops
    /\ attempt \in 0 .. Attempts - 1
    /\ outcome \in Outcomes

\* The link is released on every path out of an attempt: between attempts and
\* between calls there is no connection and nothing left to send on one, so the
\* lock, which accepts one central, stays reachable (device.py:95-100).
LinkReleased == awaiting \in Apart => link = "down" /\ tasks = <<>>

\* One connection yields at most one order: however often a challenge is
\* repeated or an attempt fails half-way, the bolt is not ordered more often than
\* there were attempts (device.py:87-101, 185-190).
OneOrderPerAttempt == awaiting # "idle" => orders <= attempt + 1

\* Each call keeps the promise of DeviceCall.
Promise == INSTANCE DeviceCall
               WITH phase <- IF awaiting = "idle" THEN "idle" ELSE "running"
PromiseKept == Promise!CallSpec

(***************************************************************************)
(* Why the first three and PromiseKept hold, as parts of an inductive      *)
(* invariant, beside those of Handshake.                                   *)
(***************************************************************************)
\* Apart from a connection, no local of a handshake is left over.
ApartIsFresh ==
    awaiting \in Apart =>
        /\ link = "down" /\ tasks = <<>> /\ ~answered
        /\ ~gotResult /\ ~gotState /\ newState = "none"

\* A read neither subscribes nor writes, so the lock has nothing to answer.
ReadsAreQuiet ==
    /\ op # "set" =>
          /\ subs = {} /\ toLock = <<>> /\ toClient = <<>>
          /\ tasks = <<>> /\ session = "new" /\ awaiting \notin HandshakeAwaits
    /\ awaiting \in ReadAwaits => op # "set"
    /\ awaiting \in {"read_battery", "read_door"} => newState # "none"

\* Each attempt has one order to give; it is given when the lock's session is
\* "answered", and with the next connection comes the next attempt.
OrdersBounded ==
    /\ awaiting # "idle" => orders <= attempt + 1
    /\ awaiting = "connect" \/ (link = "up" /\ session # "answered")
          => orders <= attempt

AnswersAreMeant ==
    \A f \in ToSet(toLock) : f.magic \in Positions => f.magic = target

SetNeedsOrder == (op = "set" /\ result \in Positions) => orders >= 1

DeviceInv ==
    /\ DeviceTypeOK
    /\ DownIsEmpty /\ EndsAreMarked /\ WireHistory
    /\ ResultEvidence /\ StateEvidence /\ ReturnWasSeen
    /\ ApartIsFresh /\ ReadsAreQuiet /\ OrdersBounded
    /\ AnswersAreMeant /\ SetNeedsOrder

\* Every call returns or raises in the end (device.py:40-47, 87-102).
CallEnds == (awaiting # "idle") ~> (awaiting = "idle")

\* If nobody else turns the bolt, the motor does not jam and timers are long
\* enough, a position that a set returns is where it sent the bolt, and the bolt
\* is there (device.py:207-223): neither after a lost link, a retry or a repeated
\* challenge, nor when an earlier call failed and its throw was still to come.
SetReturnsTarget ==
    (op = "set" /\ outcome \in Positions)
        => outcome = target /\ bolt = target /\ throwing \in {"none", target}

\* Battery and door never cost a status read its state (device.py:125-127).
ExtrasAreBestEffort ==
    (op = "status" /\ newState # "none" /\ awaiting = "disconnect")
        => result \in Positions \cup {"cancelled"}

(***************************************************************************)
(* Why these two hold, as parts of inductive invariants beside DeviceInv.  *)
(***************************************************************************)
\* Nobody and nothing but the orders of the current call moves the bolt, and no
\* call ends before its last throw is over.
Undisturbed == Faults \cap {"jam", "foreign", "slow", "cancel"} = {}

\* A throw that is still to come goes where this call sends the bolt, or where
\* the bolt is already.
ThrowsAreMeant ==
    /\ throwing \in {"none", target, bolt}
    /\ awaiting = "idle" \/ op # "set" => throwing \in {"none", bolt}
    /\ op = "set" /\ orders >= 1 => target \in {throwing, bolt}

\* So there is no news but of the bolt's arrival at its target ...
NewsIsArrival ==
    op = "set" =>
        /\ newState # "none" => newState = target /\ bolt = target
        /\ \A n \in ToSet(toClient) :
              n.kind = "state" /\ n.raw # Malformed
                  => DecodeState(n.raw) = target /\ bolt = target

\* ... and whatever ends an attempt but its retry, the bolt has arrived.
EndIsArrival ==
    /\ result # "cancelled"
    /\ op = "set" =>
          /\ awaiting = "read_fallback" \/ result \notin {"none", "ble_error"}
                => bolt = target
          /\ result \in Positions => result = target
          /\ outcome \in Positions => outcome = target /\ bolt = target

TargetInv == ThrowsAreMeant /\ NewsIsArrival /\ EndIsArrival

\* A status read that has the state is reading the extras or about to return it.
StateIsKept ==
    op = "status" /\ newState # "none" =>
        /\ awaiting \in {"read_battery", "read_door", "disconnect"}
        /\ awaiting = "disconnect" => result \in Positions \cup {"cancelled"}

\* _with_client raises WyzeLockError and nothing else (device.py:83-85).
AlwaysWyzeLockError == outcome # "decode_error"

\* async_set returns the confirmed new state (device.py:152-153): the position
\* the bolt was sent to has not still to come.
ConfirmedNewState ==
    (op = "set" /\ result \in Positions) => throwing \in {"none", result}
===============================================================================
