------------------------------- MODULE Coordinator -------------------------------
(***************************************************************************)
(* One lock's coordinator and entities: polls and commands that run at the *)
(* same time, each a call of device.py, on one event loop, over a lock that *)
(* accepts one central.  What Device does in an attempt is cut down here to *)
(* what calls can do to each other: hold the link, order the bolt, take a  *)
(* sample of it, fail.                                                     *)
(*                                                                         *)
(* Home Assistant's DataUpdateCoordinator is external: at most one poll at *)
(* a time, the next one an interval after whatever was shown last; a poll  *)
(* that raises leaves the data and makes the entities unavailable.         *)
(***************************************************************************)
EXTENDS Naturals

CONSTANTS
    Commands,       \* names of the lock and unlock service calls
    Attempts,       \* _ATTEMPTS of device.py
    MaxMoves,       \* bound on the moves of the bolt
    Others,         \* does somebody else turn the bolt, too?
    Levels,         \* battery percentages
    Doors,          \* where the door may be, by its status; none if it is not calibrated
    NoSample,       \* a call that has not got a sample
    NoData          \* coordinator.data before the first good poll: None

Positions == {"locked", "unlocked"}

\* A sample of the bolt: where it is, and at which of its moves.
Samples  == [bolt : Positions, at : 0 .. MaxMoves]

\* The door's status byte.  The last one says that the detection has not been calibrated;
\* here it also stands for a read that failed, as both make None of the door.
DOOR_OPEN    == 1
DOOR_CLOSED  == 2
DOOR_UNKNOWN == 4
DecodeDoor(status) ==
    IF status = DOOR_OPEN THEN "open" ELSE IF status = DOOR_CLOSED THEN "closed" ELSE "None"

ASSUME CoordinatorAssumption ==
    /\ Commands \cap {"poll", "nobody"} = {}
    /\ Attempts \in Nat \ {0}
    /\ MaxMoves \in Nat
    /\ Others \in BOOLEAN
    /\ Doors \subseteq {DOOR_OPEN, DOOR_CLOSED}

\* Battery and door as they are read, and as read_status returns them.
Readings    == [battery : Levels \cup {"None"}, door : {DOOR_OPEN, DOOR_CLOSED, DOOR_UNKNOWN}]
NothingRead == [battery |-> "None", door |-> DOOR_UNKNOWN]
Decoded(reading) == [battery |-> reading.battery, door |-> DecodeDoor(reading.door)]

Extras   == [battery : Levels \cup {"None"}, door : {"None", "closed", "open"}]
NoExtras == [battery |-> "None", door |-> "None"]

\* LockData, with the time of its sample.
LockData == [sample : Samples, extras : Extras]

ASSUME NothingAssumption == NoSample \notin Samples /\ NoData \notin LockData

VARIABLES
    bolt,       \* where it is
    moves,      \* how often it has turned
    throw,      \* where an accepted order is about to turn it
    link,       \* the call the lock is connected with
    calls,      \* by caller: how far its call is
    polled,     \* has the first poll ended, so that there are entities?
    data,       \* coordinator.data
    success,    \* coordinator.last_update_success
    lastRead    \* history: battery and door as the last good poll read them

\* A call: how far it is, what it is to do and at which attempt, the sample it has got
\* and the readings beside it; and as history the date of what was shown when the link
\* it took the sample on was lost.
CallStates == [at : {"idle", "apart", "linked", "battery", "door", "ordered", "done"},
               target : Positions, tries : 0 .. Attempts - 1, got : Samples \cup {NoSample},
               reading : Readings, shown : 0 .. MaxMoves]

boltVars == <<bolt, moves, throw>>
callVars == <<link, calls>>
shownVars == <<polled, data, success, lastRead>>
cvars    == <<boltVars, callVars, shownVars>>

Callers == Commands \cup {"poll"}
Nobody  == "nobody"
Sample  == [bolt |-> bolt, at |-> moves]

\* The date of what is on show; nothing is as old as the beginning.
DateShown == IF data = NoData THEN 0 ELSE data.sample.at

Idle == [at |-> "idle", target |-> "locked", tries |-> 0, got |-> NoSample,
         reading |-> NothingRead, shown |-> 0]

CoordinatorInit ==
    /\ bolt \in Positions
    /\ moves = 0
    /\ throw = "none"
    /\ link = Nobody
    /\ calls = [c \in Callers |-> Idle]
    /\ polled = FALSE
    /\ data = NoData
    /\ success = TRUE
    /\ lastRead = NothingRead

-------------------------------------------------------------------------------
(***************************************************************************)
(* The bolt, and the notifications of it that reach a command's handshake; *)
(* one may be lost, or come before the subscription.                       *)
(***************************************************************************)
Notified ==
    \/ UNCHANGED calls
    \/ /\ link \in Commands
       /\ calls[link].at \in {"linked", "ordered"}
       /\ calls' = [calls EXCEPT ![link].got = [bolt |-> bolt', at |-> moves']]

\* An order is obeyed, or the motor jams.
Turn ==
    /\ throw # "none"
    /\ bolt' \in {bolt, throw}
    /\ IF bolt' = bolt THEN UNCHANGED <<moves, calls>> ELSE moves' = moves + 1 /\ Notified
    /\ throw' = "none"
    /\ UNCHANGED <<link, shownVars>>

OthersTurn ==
    /\ Others
    /\ throw = "none"
    /\ moves < MaxMoves
    /\ bolt' \in Positions \ {bolt}
    /\ moves' = moves + 1
    /\ Notified
    /\ UNCHANGED <<throw, link, shownVars>>

-------------------------------------------------------------------------------
(***************************************************************************)
(* Calls begin.                                                            *)
(***************************************************************************)
\* A bug: no update_interval is given, so that only setup polls.
NeverDue == ~polled
PollDue  == TRUE

PollStarts ==
    /\ PollDue
    /\ calls["poll"].at = "idle"
    /\ calls' = [calls EXCEPT !["poll"].at = "apart"]
    /\ UNCHANGED <<boltVars, link, shownVars>>

\* async_lock or async_unlock of the entity, with the lock in reach.
CommandStarts(c, target) ==
    /\ polled
    /\ calls[c].at = "idle"
    /\ calls' = [calls EXCEPT ![c].at = "apart", ![c].target = target]
    /\ UNCHANGED <<boltVars, link, shownVars>>

-------------------------------------------------------------------------------
(***************************************************************************)
(* A call's attempts (device.py:87-102).                                   *)
(***************************************************************************)
Connect(c) ==
    /\ calls[c].at = "apart"
    /\ link = Nobody
    /\ link' = c
    /\ calls' = [calls EXCEPT ![c].at = "linked"]
    /\ UNCHANGED <<boltVars, shownVars>>

\* The link is lost, or a disconnect takes effect before its await is over: the lock
\* is free for others, while the call goes on with what it has.
LinkLost ==
    /\ link # Nobody
    /\ link' = Nobody
    /\ calls' = IF calls[link].got = NoSample THEN calls
                ELSE [calls EXCEPT ![link].shown = DateShown]
    /\ UNCHANGED <<boltVars, shownVars>>

\* The poll reads the state ...
ReadState ==
    /\ calls["poll"].at = "linked"
    /\ link = "poll"
    /\ calls' = [calls EXCEPT !["poll"].at = "battery", !["poll"].got = Sample]
    /\ UNCHANGED <<boltVars, link, shownVars>>

\* ... then the battery and the door, where a failure has no consequence, be it that of
\* a link that is gone.
ReadBattery ==
    /\ calls["poll"].at = "battery"
    /\ \E battery \in Levels \cup {"None"} :
          /\ battery # "None" => link = "poll"
          /\ calls' = [calls EXCEPT !["poll"].at = "door", !["poll"].reading.battery = battery]
    /\ UNCHANGED <<boltVars, link, shownVars>>

ReadDoor ==
    /\ calls["poll"].at = "door"
    /\ \E door \in Doors \cup {DOOR_UNKNOWN} :
          /\ door # DOOR_UNKNOWN => link = "poll"
          /\ calls' = [calls EXCEPT !["poll"].at = "done", !["poll"].reading.door = door]
    /\ UNCHANGED <<boltVars, link, shownVars>>

\* The lock accepts the command's answer; the bolt turns by itself, if it is not there.
Order(c) ==
    /\ calls[c].at = "linked"
    /\ link = c
    /\ moves < MaxMoves \/ bolt = calls[c].target
    /\ throw' = calls[c].target
    /\ calls' = [calls EXCEPT ![c].at = "ordered"]
    /\ UNCHANGED <<bolt, moves, link, shownVars>>

\* No notification has come in time: the command reads the state.
FallsBack(c) ==
    /\ calls[c].at = "ordered"
    /\ link = c
    /\ calls[c].got = NoSample
    /\ calls' = [calls EXCEPT ![c].at = "done", ![c].got = Sample]
    /\ UNCHANGED <<boltVars, link, shownVars>>

\* A bug: an attempt too many.
OneTooMany(call) == call.tries = Attempts
LastTry(call)    == call.tries + 1 = Attempts

Release(c) == IF link = c THEN Nobody ELSE link

\* new_state is a local of the attempt.  A bug: it outlives it.
Outlives(got)   == got
ForNextTry(got) == NoSample

\* No connection, the link lost, no answer, no result, no state: the next attempt.  A
\* call that has read the state does not fail any more, a poll not for want of the rest.
AttemptFails(c) ==
    /\ calls[c].at \in {"apart", "linked", "ordered"}
    /\ ~LastTry(calls[c])
    /\ link' = Release(c)
    /\ calls' = [calls EXCEPT ![c].at = "apart", ![c].tries = @ + 1, ![c].got = ForNextTry(@),
                              ![c].shown = 0]
    /\ UNCHANGED <<boltVars, shownVars>>

-------------------------------------------------------------------------------
(***************************************************************************)
(* Calls end, and the coordinator goes on with the result.  The link may   *)
(* be gone long before (LinkLost), and is by now.                          *)
(***************************************************************************)
Ends(c) ==
    /\ calls[c].at # "idle"
    /\ link' = Release(c)
    /\ calls' = [calls EXCEPT ![c] = Idle]

\* A call may fail before its last attempt: the lock is not in reach, or a value
\* cannot be decoded.
PollFails ==
    /\ calls["poll"].at # "done"
    /\ Ends("poll")
    /\ polled' = TRUE
    /\ success' = FALSE
    /\ UNCHANGED <<boltVars, data, lastRead>>

CommandFails(c) ==
    /\ Ends(c)
    /\ UNCHANGED <<boltVars, shownVars>>

PollReturns ==
    /\ calls["poll"].at = "done"
    /\ Ends("poll")
    /\ data' = [sample |-> calls["poll"].got, extras |-> Decoded(calls["poll"].reading)]
    /\ lastRead' = calls["poll"].reading
    /\ polled' = TRUE
    /\ success' = TRUE
    /\ UNCHANGED boltVars

\* A bug: battery and door are not carried over.
Forgotten(prev) == NoExtras
Carried(prev)   == IF prev = NoData THEN NoExtras ELSE prev.extras

\* The result has come, and a position.
CommandReturns(c) ==
    /\ calls[c].at \in {"ordered", "done"}
    /\ calls[c].got # NoSample
    /\ Ends(c)
    /\ data' = [sample |-> calls[c].got, extras |-> Carried(data)]
    /\ success' = TRUE
    /\ UNCHANGED <<boltVars, polled, lastRead>>

\* The entities: lock, battery and door.
Available        == success /\ data # NoData
Shows            == data.sample.bolt
BatteryAvailable == Available /\ data.extras.battery # "None"
BatteryShows     == data.extras.battery
DoorAvailable    == Available /\ data.extras.door # "None"
DoorShows        == data.extras.door

-------------------------------------------------------------------------------
Command(c) ==
    \/ \E target \in Positions : CommandStarts(c, target)
    \/ Connect(c) \/ Order(c) \/ FallsBack(c)
    \/ AttemptFails(c) \/ CommandFails(c) \/ CommandReturns(c)

Poll ==
    \/ PollStarts
    \/ Connect("poll") \/ ReadState \/ ReadBattery \/ ReadDoor
    \/ AttemptFails("poll") \/ PollFails \/ PollReturns

CoordinatorNext ==
    \/ Turn \/ OthersTurn \/ LinkLost
    \/ Poll
    \/ \E c \in Commands : Command(c)

CoordinatorSpec == CoordinatorInit /\ [][CoordinatorNext]_cvars

\* The interval ends; a poll whose link is gone fails its attempt; and a lock that is in
\* reach time and again is polled time and again.
PollNotices == link # "poll" /\ calls["poll"].at = "linked" /\ (AttemptFails("poll") \/ PollFails)

CoordinatorFairness ==
    /\ WF_cvars(Turn) /\ WF_cvars(PollStarts) /\ WF_cvars(PollNotices) /\ WF_cvars(PollReturns)
    /\ SF_cvars(Connect("poll")) /\ SF_cvars(ReadState)
    /\ SF_cvars(ReadBattery) /\ SF_cvars(ReadDoor)

FairCoordinator == CoordinatorSpec /\ CoordinatorFairness

-------------------------------------------------------------------------------
CoordinatorTypeOK ==
    /\ bolt \in Positions /\ moves \in 0 .. MaxMoves
    /\ throw \in Positions \cup {"none"}
    /\ link \in Callers \cup {Nobody}
    /\ calls \in [Callers -> CallStates]
    /\ \A c \in Callers : link = c => calls[c].at \notin {"idle", "apart"}
    /\ polled \in BOOLEAN /\ success \in BOOLEAN
    /\ data \in LockData \cup {NoData} /\ lastRead \in Readings

\* A call that returns takes back nothing that was on show while it had the link: not
\* what polls and commands brought before it connected, at whichever attempt, nor what
\* they brought since, if it has the link still.  Only what came after its link was lost
\* may be newer than its result (device.py:87-101, 128-143, 162-227, coordinator.py:59-77).
NeverOlder ==
    [][data' # data =>
          \E c \in Callers :
             /\ calls[c].at # "idle" /\ calls'[c].at = "idle"
             /\ data' # NoData
             /\ data'.sample.at >= (IF link = c THEN DateShown ELSE calls[c].shown)]_cvars

\* Battery and door show what the last good poll had, and are unavailable only if it
\* had nothing, even if that poll ended while a command was under way
\* (coordinator.py:70-76, sensor.py:44-56, binary_sensor.py:40-54).
ExtrasFromLastPoll ==
    /\ Available => /\ BatteryAvailable <=> lastRead.battery # "None"
                    /\ DoorAvailable <=> lastRead.door \in {DOOR_OPEN, DOOR_CLOSED}
    /\ BatteryAvailable => BatteryShows = lastRead.battery
    /\ DoorAvailable => (DoorShows = "open" <=> lastRead.door = DOOR_OPEN)

\* When the bolt has come to rest and nobody commands it, the lock entity shows where
\* it is in the end, whatever commands and polls failed before (coordinator.py:32-37,
\* const.py:19).
NobodyCommands == \A c \in Commands : calls[c].at = "idle"
CatchesUp == <>[]NobodyCommands => []<>Available /\ <>[](Available => Shows = bolt)
===============================================================================
