---------------------------- MODULE LockPeripheral ----------------------------
(***************************************************************************)
(* The lock and the BLE link to it, as device.py relies on them.  None of  *)
(* this is code of the repository: the firmware's side of the handshake is *)
(* what _handshake waits for, and the link is what bleak offers.           *)
(***************************************************************************)
EXTENDS Protocol, Sequences

CONSTANTS
    Faults,     \* what this environment may do wrong, a subset of FaultKinds
    MaxQueue    \* the lock repeats itself only while fewer are undelivered

(***************************************************************************)
(*   "drop"     the link is lost, or the lock drops an idle connection     *)
(*   "gatt"     a connection attempt or a GATT call fails with BleakError  *)
(*   "lose"     a NUS notification arrives damaged, on_nus discards it     *)
(*   "garble"   a characteristic's value cannot be decrypted               *)
(*   "dup"      the lock repeats a challenge that was not acknowledged     *)
(*   "jam"      the motor gives up without moving the bolt                 *)
(*   "foreign"  somebody turns the bolt by hand or with another client     *)
(*   "slow"     timers may expire although what they wait for is under way *)
(*   "cancel"   the task awaiting the client's call is cancelled           *)
(***************************************************************************)
FaultKinds == {"drop", "gatt", "lose", "garble", "dup", "jam", "foreign", "slow",
               "cancel"}

ASSUME FaultsAssumption == Faults \subseteq FaultKinds
ASSUME QueueAssumption  == MaxQueue \in Nat

VARIABLES
    link,       \* is a central connected?
    subs,       \* characteristics the central is subscribed to
    toLock,     \* frames written and not yet handled by the lock
    toClient,   \* notifications not yet handled by the client
    session,    \* how far the lock is in the handshake
    bolt,       \* where the bolt is
    throwing,   \* where an accepted answer sends it, until it gets there
    wire,       \* history: kinds of the frames written on this connection
    orders,     \* history: answers the lock accepted during this call
    seen        \* history: where the bolt has been during this call

linkVars == <<link, subs, toLock, toClient, session, wire>>
boltVars == <<bolt, throwing, orders, seen>>
lockVars == <<linkVars, boltVars>>

Sessions == {"new", "primed", "challenged", "acked", "answered", "refused"}

LockTypeOK ==
    /\ link \in {"up", "down"}
    /\ subs \subseteq {"state", "nus"}
    /\ toLock \in Seq(ClientFrames)
    /\ toClient \in Seq(Notifications)
    /\ session \in Sessions
    /\ bolt \in Positions
    /\ throwing \in Positions \cup {"none"}
    /\ wire \in Seq(ClientKinds)
    /\ orders \in Nat
    /\ seen \subseteq Positions

LockInit(l) ==
    /\ link = l
    /\ subs = {}
    /\ toLock = <<>>
    /\ toClient = <<>>
    /\ session = "new"
    /\ bolt \in Positions
    /\ throwing = "none"
    /\ wire = <<>>
    /\ orders = 0
    /\ seen = {bolt}

\* What the client reads or is notified of when the bolt is at position b.
StatusByte(b) == IF b = "locked" THEN STATE_LOCKED ELSE STATE_UNLOCKED
Reports(b) == {StatusByte(b)} \cup {r \in {Malformed} : "garble" \in Faults}

\* The notifications ns reach the client's queue if it subscribed to char.
Notify(char, ns) ==
    toClient' = IF char \in subs THEN toClient \o ns ELSE toClient

CutLink ==
    /\ link' = "down"
    /\ subs' = {}
    /\ toLock' = <<>>
    /\ toClient' = <<>>
    /\ session' = "new"
    /\ wire' = <<>>

-------------------------------------------------------------------------------
(***************************************************************************)
(* The lock handles the frame at the head of toLock.                       *)
(***************************************************************************)
Handles(kind) ==
    /\ toLock # <<>>
    /\ Head(toLock).kind = kind
    /\ toLock' = Tail(toLock)
    /\ UNCHANGED <<link, subs, wire>>

\* The first hello primes a connection; the client sends no second one.
LockHello ==
    /\ Handles("hello")
    /\ session' = IF session = "new" THEN "primed" ELSE session
    /\ UNCHANGED <<toClient, boltVars>>

LockRequest ==
    /\ Handles("request")
    /\ session = "primed"
    /\ session' = "challenged"
    /\ Notify("nus", <<Nus("lock_ack"), Nus("challenge")>>)
    /\ UNCHANGED boltVars

LockAck ==
    /\ Handles("ack")
    /\ session = "challenged"
    /\ session' = "acked"
    /\ UNCHANGED <<toClient, boltVars>>

\* The nonce makes the answer good for this connection and for one order.
LockAnswer ==
    /\ Handles("answer")
    /\ session \in {"challenged", "acked"}
    /\ IF Head(toLock).magic \in Positions
       THEN /\ session' = "answered"
            /\ throwing' = Head(toLock).magic
            /\ orders' = orders + 1
            /\ Notify("nus", <<Nus("lock_ack"), Nus("result")>>)
       ELSE /\ session' = "refused"
            /\ UNCHANGED <<throwing, orders, toClient>>
    /\ UNCHANGED <<bolt, seen>>

Retransmit ==
    /\ "dup" \in Faults
    /\ session = "challenged"
    /\ Len(toClient) < MaxQueue
    /\ Notify("nus", <<Nus("challenge")>>)
    /\ UNCHANGED <<link, subs, toLock, session, wire, boltVars>>

-------------------------------------------------------------------------------
(***************************************************************************)
(* The bolt, with or without a connection.                                 *)
(***************************************************************************)
MoveBolt(to) ==
    /\ bolt' = to
    /\ seen' = seen \cup {to}
    /\ \E raw \in Reports(to) :
          Notify("state", IF to = bolt THEN <<>> ELSE <<State(raw)>>)
    /\ UNCHANGED <<link, subs, toLock, session, wire, orders>>

Throw ==
    /\ throwing # "none"
    /\ throwing' = "none"
    /\ MoveBolt(throwing)

Jam ==
    /\ "jam" \in Faults
    /\ throwing # "none"
    /\ throwing' = "none"
    /\ UNCHANGED <<linkVars, bolt, orders, seen>>

ForeignMove ==
    /\ "foreign" \in Faults
    /\ Len(toClient) < MaxQueue
    /\ MoveBolt(IF bolt = "locked" THEN "unlocked" ELSE "locked")
    /\ UNCHANGED throwing

Drop ==
    /\ "drop" \in Faults
    /\ link = "up"
    /\ CutLink
    /\ UNCHANGED boltVars

Firmware == LockHello \/ LockRequest \/ LockAck \/ LockAnswer
Peripheral == Firmware \/ Retransmit \/ Throw \/ Jam \/ ForeignMove \/ Drop
===============================================================================
