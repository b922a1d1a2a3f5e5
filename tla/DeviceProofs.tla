------------------------------ MODULE DeviceProofs ------------------------------
(***************************************************************************)
(* Theorems about Device.  The steps of the handshake are dealt with by    *)
(* the lemmas of HandshakeProofs; here are the steps of the retry loop and *)
(* of the reads, and what the loop adds to the invariant.                  *)
(***************************************************************************)
EXTENDS Device, HandshakeProofs

Steady == UNCHANGED <<op, attempt, outcome>>

\* The actions of Device that are not steps of the handshake.
LoopStep ==
    \/ CallSet \/ CallRead \/ Connect \/ ConnectError \/ ReadState
    \/ ReadStateError \/ ReadBattery \/ ReadDoor \/ Disconnect \/ BackoffOver
    \/ CancelWork \/ CancelApart

LEMMA NextIsOneOf ==
    ASSUME DeviceNext
    PROVE  \/ LoopStep
           \/ Steady /\ (Coroutine \/ Callback \/ RunSendTask \/ Environment)
  BY DEF DeviceNext, CallStep, LoopStep, Steady

LEMMA AwaitsAreDistinct ==
    /\ HandshakeAwaits \subseteq WorkAwaits /\ WorkAwaits \subseteq Connected
    /\ "disconnect" \in Connected /\ "disconnect" \notin WorkAwaits
    /\ Connected \cap Apart = {} /\ HandshakeAwaits \cap ReadAwaits = {}
    /\ ReadAwaits \subseteq WorkAwaits
  BY DEF HandshakeAwaits, GattAwaits, WorkAwaits, ReadAwaits, Connected, Apart

-------------------------------------------------------------------------------
(***************************************************************************)
(* Typing.                                                                 *)
(***************************************************************************)
LEMMA LoopTyped ==
    ASSUME DeviceTypeOK, EndsAreMarked, LoopStep
    PROVE  DeviceTypeOK'
  <1> USE AttemptsAssumption
      DEF LockTypeOK, ClientTypeOK, lockVars, linkVars, boltVars, localVars,
          argVars, callArgs, Leave, Await, Finish
  <1>0. TypeOK /\ DeviceTypeOK
    BY DEF DeviceTypeOK, TypeOK
  <1>1. /\ "idle" \in Apart /\ "connect" \in Apart /\ "backoff" \in Apart
        /\ "disconnect" \in Connected /\ "start_notify_state" \in Connected
        /\ "read_state" \in Connected /\ "read_battery" \in Connected
        /\ "read_door" \in Connected
        /\ "none" \in Results /\ "ble_error" \in Results /\ "cancelled" \in Results
        /\ "decode_error" \in Results /\ Positions \subseteq Results
        /\ "none" \in Outcomes /\ "failed" \in Outcomes /\ "cancelled" \in Outcomes
        /\ "set" \in Ops /\ "status" \in Ops /\ "state" \in Ops
        /\ 0 \in 0 .. Attempts - 1
    BY DEF Apart, Connected, WorkAwaits, HandshakeAwaits, GattAwaits, ReadAwaits,
           Results, Outcomes, Ops
  <1>2. ASSUME NEW o \in Ops, NEW to \in Positions, Call(o, to) PROVE DeviceTypeOK'
    BY <1>0, <1>1, <1>2 DEF Call, DeviceTypeOK
  <1>3. CASE CallSet
    BY <1>1, <1>2, <1>3 DEF CallSet
  <1>4. CASE CallRead
    BY <1>0, <1>1, <1>2, <1>4 DEF CallRead, DeviceTypeOK
  <1>5. CASE Connect
    BY <1>0, <1>1, <1>5 DEF Connect, DeviceTypeOK
  <1>6. CASE ConnectError
    BY <1>0, <1>1, <1>6 DEF ConnectError, DeviceTypeOK
  <1>7. CASE ReadState
    <2>1. PICK raw \in Reports(bolt) :
             IF raw = Malformed \/ op = "state"
             THEN Leave(ReadResult(raw)) /\ UNCHANGED newState
             ELSE Await("read_battery") /\ newState' = DecodeState(raw)
      BY <1>7 DEF ReadState
    <2>2. DecodeState(raw) \in Positions /\ ReadResult(raw) \in Results
      BY <1>1, FramesTyped DEF ReadResult
    <2>3. /\ awaiting' \in Connected /\ result' \in Results
          /\ newState' \in Positions \cup {"none"}
      BY <1>0, <1>1, <2>1, <2>2 DEF DeviceTypeOK
    <2> QED BY <1>0, <1>7, <2>3 DEF ReadState, DeviceTypeOK
  <1>8. CASE ReadStateError
    BY <1>0, <1>1, <1>8 DEF ReadStateError, DeviceTypeOK
  <1>9. CASE ReadBattery
    BY <1>0, <1>1, <1>9 DEF ReadBattery, ReadExtra, DeviceTypeOK
  <1>10. CASE ReadDoor
    BY <1>0, <1>1, <1>10 DEF ReadDoor, ReadExtra, DeviceTypeOK
  <1>11. CASE Disconnect
    <2>1. result # "none"
      BY <1>11 DEF Disconnect, EndsAreMarked
    <2>2. ~Retries(result) => result \in Outcomes
      BY <1>0, <2>1 DEF Retries, DeviceTypeOK, Results, Outcomes
    <2>3. awaiting' \in Apart /\ result' \in Results /\ outcome' \in Outcomes
      BY <1>0, <1>1, <1>11, <2>2 DEF Disconnect, DeviceTypeOK
    <2>4. LockTypeOK' /\ ClientTypeOK'
      <3>1. /\ link' = "down" /\ subs' = {} /\ toLock' = <<>> /\ toClient' = <<>>
            /\ session' = "new" /\ wire' = <<>> /\ tasks' = <<>> /\ newState' = "none"
            /\ answered' = FALSE /\ gotResult' = FALSE /\ gotState' = FALSE
            /\ UNCHANGED <<bolt, throwing, orders, seen, target, token>>
        BY <1>11 DEF Disconnect, CutLink, FreshLocals
      <3>2. LockTypeOK'
        BY <1>0, <3>1 DEF DeviceTypeOK, Sessions
      <3>3. ClientTypeOK'
        <4>1. answered' \in BOOLEAN /\ gotResult' \in BOOLEAN /\ gotState' \in BOOLEAN
          BY <3>1
        <4>2. tasks' \in Seq({"ack", "answer"}) /\ newState' \in Positions \cup {"none"}
          BY <3>1
        <4>3. target' \in Positions /\ token' \in Tokens
          BY <1>0, <3>1 DEF DeviceTypeOK
        <4> QED BY <4>1, <4>2, <4>3
      <3> QED BY <3>2, <3>3
    <2> QED BY <1>0, <1>11, <2>3, <2>4 DEF Disconnect, DeviceTypeOK
  <1>12. CASE BackoffOver
    BY <1>0, <1>1, <1>12 DEF BackoffOver, LastAttempt, NextAttempt, DeviceTypeOK
  <1>13. CASE CancelWork
    BY <1>0, <1>1, <1>13 DEF CancelWork, DeviceTypeOK
  <1>14. CASE CancelApart
    BY <1>0, <1>1, <1>14 DEF CancelApart, DeviceTypeOK
  <1> QED BY <1>3, <1>4, <1>5, <1>6, <1>7, <1>8, <1>9, <1>10, <1>11, <1>12,
             <1>13, <1>14 DEF LoopStep

LEMMA DeviceTyped ==
    ASSUME DeviceTypeOK, EndsAreMarked, [DeviceNext]_dvars
    PROVE  DeviceTypeOK'
  <1>1. TypeOK
    BY DEF DeviceTypeOK, TypeOK
  <1>2. CASE LoopStep
    BY <1>2, LoopTyped
  <1>3. CASE Steady /\ Coroutine
    BY <1>1, <1>3, CoroutineTyped, AwaitsAreDistinct DEF TypeOK, DeviceTypeOK, Steady
  <1>4. CASE Steady /\ Callback
    <2>1. awaiting' = awaiting
      BY <1>4 DEF Callback, OnChallenge, OnResult, OnIgnored, OnState, Notified
    <2> QED BY <1>1, <1>4, <2>1, CallbackTyped DEF TypeOK, DeviceTypeOK, Steady
  <1>5. CASE Steady /\ RunSendTask
    BY <1>1, <1>5, SendTaskTyped DEF TypeOK, DeviceTypeOK, RunSendTask, Steady
  <1>6. CASE Steady /\ Environment
    BY <1>1, <1>6, EnvironmentTyped DEF TypeOK, DeviceTypeOK, Environment, Steady
  <1>7. CASE UNCHANGED dvars
    BY <1>7 DEF dvars, hvars, lockVars, linkVars, boltVars, localVars, argVars,
                DeviceTypeOK, LockTypeOK, ClientTypeOK
  <1> QED BY <1>2, <1>3, <1>4, <1>5, <1>6, <1>7, NextIsOneOf

-------------------------------------------------------------------------------
(***************************************************************************)
(* The other parts of DeviceInv under the steps of the loop.               *)
(***************************************************************************)
LoopParts ==
    /\ DownIsEmpty /\ EndsAreMarked /\ WireHistory
    /\ ResultEvidence /\ StateEvidence /\ ReturnWasSeen
    /\ ApartIsFresh /\ ReadsAreQuiet /\ OrdersBounded
    /\ AnswersAreMeant /\ SetNeedsOrder

\* A step that touches neither the lock nor the locals, only where the call is
\* and which attempt this is.
LEMMA ControlStep ==
    ASSUME DeviceInv, DeviceTypeOK', EndsAreMarked',
           UNCHANGED <<lockVars, localVars, callArgs>>,
           awaiting' \notin HandshakeAwaits,
           awaiting # "idle", awaiting' \in Apart => awaiting \in Apart,
           awaiting' \in ReadAwaits => op # "set",
           awaiting' \in {"read_battery", "read_door"} => newState # "none",
           result' \in Positions => result' \in seen /\ op # "set",
           attempt' >= attempt, awaiting' = "connect" => orders <= attempt'
    PROVE  LoopParts'
  <1> USE DEF lockVars, linkVars, boltVars, localVars, argVars, callArgs
  <1>0. DeviceTypeOK /\ LoopParts
    BY DEF DeviceInv, LoopParts
  <1>1. DownIsEmpty' /\ AnswersAreMeant'
    BY <1>0 DEF LoopParts, DownIsEmpty, AnswersAreMeant
  <1>2. WireHistory'
    BY <1>0 DEF LoopParts, WireHistory, RequestWritten, HandshakeAwaits, GattAwaits
  <1>3. ResultEvidence' /\ StateEvidence'
    BY <1>0 DEF LoopParts, ResultEvidence, StateEvidence, HandshakeAwaits, GattAwaits
  <1>4. ReturnWasSeen' /\ SetNeedsOrder'
    BY DEF ReturnWasSeen, SetNeedsOrder
  <1>5. ApartIsFresh' /\ ReadsAreQuiet'
    BY <1>0 DEF LoopParts, ApartIsFresh, ReadsAreQuiet
  <1>6. OrdersBounded'
    <2>1. orders \in Nat /\ attempt \in Nat /\ attempt' \in Nat
      BY <1>0, AttemptsAssumption DEF DeviceTypeOK, LockTypeOK
    <2>2. orders <= attempt + 1
      BY <1>0 DEF LoopParts, OrdersBounded
    <2>3. link = "up" /\ session # "answered" => orders <= attempt
      BY <1>0 DEF LoopParts, OrdersBounded
    <2>4. orders' = orders /\ link' = link /\ session' = session
      OBVIOUS
    <2>5. orders' <= attempt' + 1
      <3>1. \A m, n, k \in Nat : m <= n + 1 /\ k >= n => m <= k + 1
        OBVIOUS
      <3> QED BY <2>1, <2>2, <2>4, <3>1
    <2>6. link' = "up" /\ session' # "answered" => orders' <= attempt'
      <3>1. \A m, n, k \in Nat : m <= n /\ k >= n => m <= k
        OBVIOUS
      <3> QED BY <2>1, <2>3, <2>4, <3>1
    <2> QED BY <2>4, <2>5, <2>6 DEF OrdersBounded
  <1> QED BY <1>1, <1>2, <1>3, <1>4, <1>5, <1>6 DEF LoopParts

LEMMA CallKeeps ==
    ASSUME DeviceInv, DeviceTypeOK', NEW o, NEW to, Call(o, to)
    PROVE  LoopParts'
  <1> USE DEF linkVars, localVars
  <1>1. /\ link = "down" /\ subs = {} /\ toLock = <<>> /\ toClient = <<>>
        /\ session = "new" /\ wire = <<>> /\ tasks = <<>> /\ ~answered
        /\ ~gotResult /\ ~gotState /\ newState = "none" /\ result = "none"
    BY DEF Call, DeviceInv, ApartIsFresh, DownIsEmpty, EndsAreMarked, Apart
  <1>2. /\ UNCHANGED <<link, subs, toLock, toClient, session, wire, localVars, bolt, result>>
        /\ awaiting' = "connect" /\ orders' = 0 /\ attempt' = 0 /\ seen' = {bolt}
    BY DEF Call
  <1>3. "connect" \notin HandshakeAwaits /\ "connect" \notin ReadAwaits
    BY DEF HandshakeAwaits, GattAwaits, ReadAwaits
  <1>4. DownIsEmpty' /\ EndsAreMarked' /\ AnswersAreMeant'
    BY <1>1, <1>2, ToSetSmall DEF DownIsEmpty, EndsAreMarked, AnswersAreMeant
  <1>5. WireHistory'
    BY <1>1, <1>2, ToSetSmall DEF WireHistory
  <1>6. ResultEvidence' /\ StateEvidence'
    BY <1>1, <1>2, ToSetSmall DEF ResultEvidence, StateEvidence
  <1>7. ReturnWasSeen' /\ SetNeedsOrder'
    BY <1>1, <1>2 DEF ReturnWasSeen, SetNeedsOrder, Positions
  <1>8. ApartIsFresh' /\ ReadsAreQuiet'
    BY <1>1, <1>2, <1>3 DEF ApartIsFresh, ReadsAreQuiet
  <1>9. OrdersBounded'
    BY <1>2 DEF OrdersBounded
  <1> QED BY <1>4, <1>5, <1>6, <1>7, <1>8, <1>9 DEF LoopParts

LEMMA ConnectKeeps ==
    ASSUME DeviceInv, DeviceTypeOK', Connect
    PROVE  LoopParts'
  <1> USE DEF boltVars, localVars, callArgs, argVars
  <1>1. /\ subs = {} /\ toLock = <<>> /\ toClient = <<>>
        /\ session = "new" /\ wire = <<>> /\ tasks = <<>> /\ ~answered
        /\ ~gotResult /\ ~gotState /\ newState = "none" /\ result = "none"
    BY DEF Connect, DeviceInv, ApartIsFresh, DownIsEmpty, EndsAreMarked, Apart
  <1>2. /\ UNCHANGED <<subs, toLock, toClient, session, wire, localVars, bolt,
                       orders, seen, result, op, target, attempt>>
        /\ link' = "up"
        /\ awaiting' = IF op = "set" THEN "start_notify_state" ELSE "read_state"
    BY DEF Connect
  <1>3. DownIsEmpty' /\ EndsAreMarked' /\ AnswersAreMeant'
    BY <1>1, <1>2, ToSetSmall DEF DownIsEmpty, EndsAreMarked, AnswersAreMeant
  <1>4. WireHistory'
    BY <1>1, <1>2, ToSetSmall DEF WireHistory
  <1>5. ResultEvidence' /\ StateEvidence'
    BY <1>1, <1>2, ToSetSmall DEF ResultEvidence, StateEvidence, DeviceInv
  <1>6. ReturnWasSeen' /\ SetNeedsOrder'
    BY <1>1, <1>2 DEF ReturnWasSeen, SetNeedsOrder, Positions
  <1>7. ApartIsFresh' /\ ReadsAreQuiet'
    BY <1>1, <1>2 DEF ApartIsFresh, ReadsAreQuiet, Apart, HandshakeAwaits,
                      GattAwaits, ReadAwaits
  <1>8. OrdersBounded'
    <2>1. orders <= attempt /\ orders <= attempt + 1
      BY DEF DeviceInv, Connect, OrdersBounded
    <2> QED BY <1>2, <2>1 DEF OrdersBounded
  <1> QED BY <1>3, <1>4, <1>5, <1>6, <1>7, <1>8 DEF LoopParts

LEMMA ReadStateKeeps ==
    ASSUME DeviceInv, DeviceTypeOK', ReadState
    PROVE  LoopParts'
  <1> USE DEF lockVars, linkVars, boltVars, callArgs, argVars, Leave, Await
  <1>1. PICK raw \in Reports(bolt) :
           IF raw = Malformed \/ op = "state"
           THEN Leave(ReadResult(raw)) /\ UNCHANGED newState
           ELSE Await("read_battery") /\ newState' = DecodeState(raw)
    BY DEF ReadState
  <1>2. /\ UNCHANGED <<lockVars, answered, gotResult, gotState, tasks, attempt, op, target>>
        /\ awaiting = "read_state"
    BY DEF ReadState
  <1>3. op # "set" /\ result = "none" /\ bolt \in seen /\ bolt \in Positions
    BY <1>2 DEF DeviceInv, ReadsAreQuiet, ReadAwaits, EndsAreMarked, StateEvidence,
                DeviceTypeOK, LockTypeOK
  <1>4. raw # Malformed => DecodeState(raw) = bolt
    BY <1>3, DecodedReport
  <1>5. /\ newState' \in {newState, bolt} /\ newState' \in seen \cup {"none"}
        /\ newState # "none" => newState' # "none"
    BY <1>1, <1>3, <1>4 DEF DeviceInv, StateEvidence, Positions
  <1>6. \/ awaiting' = "disconnect" /\ result' \in {bolt, "decode_error"}
        \/ awaiting' = "read_battery" /\ result' = "none" /\ newState' = bolt
    BY <1>1, <1>3, <1>4 DEF ReadResult
  <1>7. DownIsEmpty' /\ EndsAreMarked' /\ AnswersAreMeant'
    BY <1>2, <1>3, <1>6 DEF DeviceInv, DownIsEmpty, EndsAreMarked, AnswersAreMeant, Positions
  <1>8. WireHistory'
    BY <1>2, <1>6 DEF DeviceInv, WireHistory, RequestWritten
  <1>9. ResultEvidence' /\ StateEvidence'
    BY <1>2, <1>5, <1>6 DEF DeviceInv, ResultEvidence, StateEvidence
  <1>10. ReturnWasSeen' /\ SetNeedsOrder'
    BY <1>2, <1>3, <1>6 DEF ReturnWasSeen, SetNeedsOrder, Positions
  <1>11. ApartIsFresh' /\ ReadsAreQuiet'
    BY <1>2, <1>3, <1>6 DEF DeviceInv, ApartIsFresh, ReadsAreQuiet, Apart,
       HandshakeAwaits, GattAwaits, ReadAwaits, Positions
  <1>12. OrdersBounded'
    BY <1>2, <1>6 DEF DeviceInv, OrdersBounded
  <1> QED BY <1>7, <1>8, <1>9, <1>10, <1>11, <1>12 DEF LoopParts

LEMMA DisconnectKeeps ==
    ASSUME DeviceInv, DeviceTypeOK', Disconnect
    PROVE  LoopParts'
  <1>1. /\ link' = "down" /\ subs' = {} /\ toLock' = <<>> /\ toClient' = <<>>
        /\ session' = "new" /\ wire' = <<>> /\ tasks' = <<>> /\ newState' = "none"
        /\ ~answered' /\ ~gotResult' /\ ~gotState'
        /\ UNCHANGED <<bolt, orders, seen, op, target, attempt>>
    BY DEF Disconnect, CutLink, FreshLocals, boltVars, callArgs, argVars
  <1>2. awaiting = "disconnect" /\ awaiting' \in {"backoff", "idle"} /\ result' = "none"
    BY DEF Disconnect, Finish
  <1>3. DownIsEmpty' /\ EndsAreMarked' /\ AnswersAreMeant'
    BY <1>1, <1>2, ToSetSmall DEF DownIsEmpty, EndsAreMarked, AnswersAreMeant
  <1>4. WireHistory'
    BY <1>1, <1>2 DEF WireHistory
  <1>5. ResultEvidence' /\ StateEvidence'
    BY <1>1, <1>2, ToSetSmall DEF DeviceInv, ResultEvidence, StateEvidence
  <1>6. ReturnWasSeen' /\ SetNeedsOrder'
    BY <1>2 DEF ReturnWasSeen, SetNeedsOrder, Positions
  <1>7. ApartIsFresh' /\ ReadsAreQuiet'
    BY <1>1, <1>2 DEF ApartIsFresh, ReadsAreQuiet, HandshakeAwaits, GattAwaits, ReadAwaits
  <1>8. OrdersBounded'
    BY <1>1, <1>2 DEF DeviceInv, OrdersBounded
  <1> QED BY <1>3, <1>4, <1>5, <1>6, <1>7, <1>8 DEF LoopParts

LEMMA LoopKeeps ==
    ASSUME DeviceInv, LoopStep
    PROVE  DeviceInv'
  <1> USE DEF callArgs
  <1>0. /\ DeviceTypeOK /\ EndsAreMarked /\ ReadsAreQuiet /\ StateEvidence
        /\ orders \in Nat /\ attempt \in Nat
    BY AttemptsAssumption DEF DeviceInv, DeviceTypeOK, LockTypeOK
  <1>1. DeviceTypeOK'
    BY <1>0, LoopTyped
  <1>2. SUFFICES LoopParts'
    BY <1>1 DEF DeviceInv, LoopParts
  <1>3. CASE CallSet \/ CallRead
    BY <1>1, <1>3, CallKeeps DEF CallSet, CallRead
  <1>4. CASE Connect
    BY <1>1, <1>4, ConnectKeeps
  <1>5. CASE ReadState
    BY <1>1, <1>5, ReadStateKeeps
  <1>6. CASE Disconnect
    BY <1>1, <1>6, DisconnectKeeps
  <1>7. CASE ConnectError \/ CancelApart
    <2>1. /\ UNCHANGED <<lockVars, localVars, callArgs, attempt>>
          /\ awaiting \in {"connect", "backoff"} /\ awaiting' \in {"backoff", "idle"}
      BY <1>7 DEF ConnectError, CancelApart, Finish
    <2>2. result' = "none"
      BY <1>0, <1>7 DEF ConnectError, CancelApart, Finish, EndsAreMarked
    <2>3. EndsAreMarked'
      BY <2>1, <2>2 DEF EndsAreMarked
    <2> QED BY <1>0, <1>1, <2>1, <2>2, <2>3, ControlStep
            DEF Apart, HandshakeAwaits, GattAwaits, ReadAwaits, Positions
  <1>8. CASE BackoffOver
    <2>1. /\ UNCHANGED <<lockVars, localVars, callArgs>>
          /\ awaiting = "backoff" /\ awaiting' \in {"connect", "idle"}
          /\ attempt' \in {attempt, attempt + 1}
          /\ awaiting' = "connect" => attempt' = attempt + 1
      BY <1>8 DEF BackoffOver, Finish, NextAttempt
    <2>2. result' = "none"
      BY <1>0, <1>8 DEF BackoffOver, Finish, EndsAreMarked
    <2>3. EndsAreMarked'
      BY <2>1, <2>2 DEF EndsAreMarked
    <2>4. orders <= attempt + 1
      BY <2>1 DEF DeviceInv, OrdersBounded
    <2> QED BY <1>0, <1>1, <2>1, <2>2, <2>3, <2>4, ControlStep
            DEF Apart, HandshakeAwaits, GattAwaits, ReadAwaits, Positions
  <1>9. CASE ReadStateError \/ CancelWork
    <2>1. /\ UNCHANGED <<lockVars, localVars, callArgs, attempt>>
          /\ awaiting \in Connected /\ awaiting' = "disconnect"
          /\ result' \in {"ble_error", "cancelled"}
      BY <1>9, AwaitsAreDistinct DEF ReadStateError, CancelWork, Leave, ReadAwaits
    <2>2. EndsAreMarked'
      BY <2>1 DEF EndsAreMarked
    <2>3. awaiting # "idle"
      BY <2>1, AwaitsAreDistinct DEF Apart
    <2> QED BY <1>0, <1>1, <2>1, <2>2, <2>3, ControlStep
            DEF Apart, HandshakeAwaits, GattAwaits, ReadAwaits, Positions
  <1>10. CASE ReadBattery \/ ReadDoor
    <2>1. /\ UNCHANGED <<lockVars, localVars, callArgs, attempt>>
          /\ awaiting \in {"read_battery", "read_door"}
          /\ \/ awaiting' = "disconnect" /\ result' \in {"decode_error", newState}
             \/ awaiting' = "read_door" /\ result' = result
      BY <1>10 DEF ReadBattery, ReadDoor, ReadExtra, Await, Leave
    <2>2. op # "set" /\ newState # "none" /\ newState \in seen /\ result = "none"
      BY <1>0, <2>1 DEF ReadsAreQuiet, ReadAwaits, StateEvidence, EndsAreMarked
    <2>3. EndsAreMarked'
      BY <2>1, <2>2 DEF EndsAreMarked
    <2> QED BY <1>0, <1>1, <2>1, <2>2, <2>3, ControlStep
            DEF Apart, HandshakeAwaits, GattAwaits, ReadAwaits, Positions
  <1> QED BY <1>3, <1>4, <1>5, <1>6, <1>7, <1>8, <1>9, <1>10 DEF LoopStep

-------------------------------------------------------------------------------
(***************************************************************************)
(* What the lock and the link do to the bolt and to the orders.            *)
(***************************************************************************)
NoOrder ==
    /\ UNCHANGED boltVars
    /\ session = "answered" /\ link' = "up" => session' = "answered"

AcceptsOrder ==
    /\ link = "up" /\ session # "answered" /\ session' = "answered"
    /\ UNCHANGED <<bolt, seen>>
    /\ orders' = orders + 1
    /\ throwing' \in Positions /\ \E f \in ToSet(toLock) : f.magic = throwing'

BoltTurns ==
    /\ UNCHANGED <<orders, session, link>>
    /\ \/ throwing' = throwing
       \/ throwing # "none" /\ throwing' = "none" /\ bolt' \in {bolt, throwing}
    /\ bolt' \in Positions
    /\ seen' = seen \cup {bolt'} \/ UNCHANGED <<bolt, seen>>

StaysQuiet ==
    subs = {} /\ toLock = <<>> /\ toClient = <<>> /\ session = "new"
        => subs' = {} /\ toLock' = <<>> /\ toClient' = <<>> /\ session' = "new"

LEMMA PeripheralBolt ==
    ASSUME TypeOK, DownIsEmpty, Peripheral
    PROVE  (NoOrder \/ AcceptsOrder \/ BoltTurns) /\ StaysQuiet
  <1> USE DEF boltVars, linkVars, StaysQuiet
  <1>1. CASE LockHello \/ LockAck
    <2>1. toLock # <<>> /\ UNCHANGED boltVars
      BY <1>1 DEF LockHello, LockAck, Handles
    <2>2. session = "answered" => session' = "answered"
      BY <1>1 DEF LockHello, LockAck
    <2> QED BY <2>1, <2>2 DEF NoOrder
  <1>2. CASE LockRequest
    BY <1>2 DEF LockRequest, Handles, NoOrder
  <1>3. CASE LockAnswer
    <2>1. toLock # <<>> /\ Head(toLock) \in ToSet(toLock) /\ link' = link
      BY <1>3, HandlesEffect DEF LockAnswer
    <2>2. link = "up" /\ session # "answered"
      BY <1>3, <2>1 DEF LockAnswer, DownIsEmpty, TypeOK, LockTypeOK
    <2>3. CASE Head(toLock).magic \in Positions
      BY <1>3, <2>1, <2>2, <2>3 DEF LockAnswer, AcceptsOrder
    <2>4. CASE Head(toLock).magic \notin Positions
      BY <1>3, <2>1, <2>2, <2>4 DEF LockAnswer, NoOrder
    <2> QED BY <2>3, <2>4
  <1>4. CASE Retransmit
    BY <1>4 DEF Retransmit, NoOrder
  <1>5. CASE Throw
    <2>1. throwing \in Positions /\ MoveBolt(throwing) /\ throwing' = "none"
          /\ throwing # "none"
      BY <1>5 DEF Throw, TypeOK, LockTypeOK
    <2> QED BY <2>1, MoveEffect DEF BoltTurns
  <1>6. CASE Jam
    BY <1>6 DEF Jam, BoltTurns, TypeOK, LockTypeOK
  <1>7. CASE ForeignMove
    <2>1. /\ (IF bolt = "locked" THEN "unlocked" ELSE "locked") \in Positions
          /\ MoveBolt(IF bolt = "locked" THEN "unlocked" ELSE "locked")
          /\ throwing' = throwing
      BY <1>7 DEF ForeignMove, Positions
    <2> QED BY <2>1, MoveEffect DEF BoltTurns
  <1>8. CASE Drop
    BY <1>8 DEF Drop, CutLink, NoOrder
  <1> QED BY <1>1, <1>2, <1>3, <1>4, <1>5, <1>6, <1>7, <1>8 DEF Peripheral, Firmware

-------------------------------------------------------------------------------
(***************************************************************************)
(* DeviceInv under the steps of the handshake and of the environment.      *)
(***************************************************************************)
LEMMA CoroutineKeepsInv ==
    ASSUME DeviceInv, DeviceTypeOK', Steady, Coroutine
    PROVE  DeviceInv'
  <1>1. /\ TypeOK /\ DownIsEmpty /\ EndsAreMarked /\ WireHistory
        /\ ResultEvidence /\ StateEvidence
    BY DEF DeviceInv, DeviceTypeOK, TypeOK
  <1>2. /\ DownIsEmpty' /\ EndsAreMarked'
        /\ UNCHANGED <<localVars, argVars, boltVars>>
    BY <1>1, CoroutineDown
  <1>3. WireHistory'
    BY <1>1, CoroutineWire
  <1>4. /\ ResultEvidence' /\ StateEvidence'
        /\ result' \in Positions => orders >= 1 /\ result' \in seen
    BY <1>1, CoroutineEvidence
  <1>5. awaiting \in HandshakeAwaits /\ link' = link /\ session' = session
    BY DEF Coroutine, StartNotifyState, StartNotifyNus, WriteHello, PrimeSlept,
           WriteRequest, ResultArrives, ResultTimeout, StateArrives,
           StateTimeout, ReadFallback, GattError, HandshakeAwaits, GattAwaits,
           Write, Subscribe, lockVars, linkVars
  <1>6. awaiting' \in HandshakeAwaits \cup {"disconnect"}
    BY <1>1, CoroutineTyped
  <1>7. /\ op = "set" /\ awaiting \notin Apart
        /\ awaiting' \notin Apart /\ awaiting' \notin ReadAwaits
    BY <1>5, <1>6, AwaitsAreDistinct DEF DeviceInv, ReadsAreQuiet
  <1>8. ReturnWasSeen' /\ SetNeedsOrder'
    BY <1>2, <1>4 DEF ReturnWasSeen, SetNeedsOrder, boltVars
  <1>9. ApartIsFresh' /\ ReadsAreQuiet'
    BY <1>7 DEF ApartIsFresh, ReadsAreQuiet, Steady, ReadAwaits
  <1>10. OrdersBounded'
    BY <1>2, <1>5, <1>7 DEF DeviceInv, OrdersBounded, Apart, boltVars, Steady
  <1>11. AnswersAreMeant'
    <2>1. CASE UNCHANGED toLock
      BY <1>2, <2>1 DEF DeviceInv, AnswersAreMeant, argVars
    <2>2. CASE Write(Hello) \/ Write(Request)
      <3>1. /\ Hello \in ClientFrames /\ Hello.magic \notin Positions
            /\ Request \in ClientFrames /\ Request.magic \notin Positions
        BY FramesTyped DEF Hello, Request, Command, Positions
      <3>2. \/ ToSet(toLock') = ToSet(toLock) \cup {Hello}
            \/ ToSet(toLock') = ToSet(toLock) \cup {Request}
        BY <1>1, <2>2, <3>1, WriteEffect
      <3> QED BY <1>2, <3>1, <3>2 DEF DeviceInv, AnswersAreMeant, argVars
    <2>3. UNCHANGED toLock \/ Write(Hello) \/ Write(Request)
      BY DEF Coroutine, StartNotifyState, StartNotifyNus, WriteHello, PrimeSlept,
             WriteRequest, ResultArrives, ResultTimeout, StateArrives,
             StateTimeout, ReadFallback, GattError, Subscribe, lockVars, linkVars
    <2> QED BY <2>1, <2>2, <2>3
  <1> QED BY <1>2, <1>3, <1>4, <1>8, <1>9, <1>10, <1>11 DEF DeviceInv

LEMMA CallbackKeepsInv ==
    ASSUME DeviceInv, DeviceTypeOK', Steady, Callback
    PROVE  DeviceInv'
  <1>1. /\ TypeOK /\ DownIsEmpty /\ EndsAreMarked /\ WireHistory
        /\ ResultEvidence /\ StateEvidence
    BY DEF DeviceInv, DeviceTypeOK, TypeOK
  <1>2. /\ DownIsEmpty' /\ EndsAreMarked' /\ WireHistory'
        /\ ResultEvidence' /\ StateEvidence'
        /\ UNCHANGED <<awaiting, argVars, boltVars, result, link>>
    BY <1>1, CallbackKeeps
  <1>3. PICK kinds : Notified(kinds)
    BY DEF Callback, OnChallenge, OnResult, OnIgnored, OnState
  <1>4. link = "up" /\ toClient # <<>> /\ UNCHANGED <<toLock, session>>
    BY <1>1, <1>3, NotifiedEffect DEF Notified
  <1>5. op = "set" /\ awaiting \notin Apart
    BY <1>4 DEF DeviceInv, ReadsAreQuiet, ApartIsFresh
  <1>6. ApartIsFresh' /\ ReadsAreQuiet'
    BY <1>2, <1>5, AwaitsAreDistinct
       DEF DeviceInv, ApartIsFresh, ReadsAreQuiet, Steady, ReadAwaits
  <1>7. OrdersBounded' /\ AnswersAreMeant'
    BY <1>2, <1>4 DEF DeviceInv, OrdersBounded, AnswersAreMeant, boltVars, argVars, Steady
  <1>8. ReturnWasSeen' /\ SetNeedsOrder'
    BY <1>2 DEF DeviceInv, ReturnWasSeen, SetNeedsOrder, boltVars, Steady
  <1> QED BY <1>2, <1>6, <1>7, <1>8 DEF DeviceInv

LEMMA SendTaskKeepsInv ==
    ASSUME DeviceInv, DeviceTypeOK', Steady, RunSendTask
    PROVE  DeviceInv'
  <1>1. /\ TypeOK /\ DownIsEmpty /\ EndsAreMarked /\ WireHistory
        /\ ResultEvidence /\ StateEvidence
    BY DEF DeviceInv, DeviceTypeOK, TypeOK
  <1>2. /\ DownIsEmpty' /\ EndsAreMarked' /\ WireHistory'
        /\ ResultEvidence' /\ StateEvidence'
        /\ UNCHANGED <<awaiting, argVars, boltVars, result, link>>
    BY <1>1, SendTaskKeeps
  <1>3. tasks # <<>> /\ session' = session
    BY DEF RunSendTask, Write, linkVars
  <1>4. op = "set" /\ awaiting \notin Apart
    BY <1>3 DEF DeviceInv, ReadsAreQuiet, ApartIsFresh
  <1>5. ApartIsFresh' /\ ReadsAreQuiet'
    BY <1>2, <1>4, AwaitsAreDistinct
       DEF DeviceInv, ApartIsFresh, ReadsAreQuiet, Steady, ReadAwaits
  <1>6. OrdersBounded'
    BY <1>2, <1>3 DEF DeviceInv, OrdersBounded, boltVars, Steady
  <1>7. AnswersAreMeant'
    <2>1. TaskFrame(Head(tasks)) \in ClientFrames
      BY FramesTyped DEF TaskFrame, TypeOK, ClientTypeOK, DeviceInv, DeviceTypeOK
    <2>2. TaskFrame(Head(tasks)).magic \in Positions
            => TaskFrame(Head(tasks)).magic = target
      BY DEF TaskFrame, Ack, Command, Answer, AnswerMagic, Positions
    <2>3. CASE Write(TaskFrame(Head(tasks)))
      <3>1. ToSet(toLock') = ToSet(toLock) \cup {TaskFrame(Head(tasks))}
        BY <1>1, <2>1, <2>3, WriteEffect
      <3> QED BY <1>2, <2>2, <3>1 DEF DeviceInv, AnswersAreMeant, argVars
    <2>4. CASE UNCHANGED linkVars
      BY <1>2, <2>4 DEF DeviceInv, AnswersAreMeant, argVars, linkVars
    <2> QED BY <2>3, <2>4 DEF RunSendTask
  <1>8. ReturnWasSeen' /\ SetNeedsOrder'
    BY <1>2 DEF DeviceInv, ReturnWasSeen, SetNeedsOrder, boltVars, Steady
  <1> QED BY <1>2, <1>5, <1>6, <1>7, <1>8 DEF DeviceInv

LEMMA EnvironmentKeepsInv ==
    ASSUME DeviceInv, DeviceTypeOK', Steady, Environment
    PROVE  DeviceInv'
  <1>1. /\ TypeOK /\ DownIsEmpty /\ EndsAreMarked /\ WireHistory
        /\ ResultEvidence /\ StateEvidence
    BY DEF DeviceInv, DeviceTypeOK, TypeOK
  <1>2. Peripheral /\ Untouched
    BY DEF Environment, Untouched
  <1>3. PeripheralKeeps /\ DownIsEmpty'
    BY <1>1, <1>2, PeripheralEffect
  <1>4. WireHistory' /\ ResultEvidence' /\ StateEvidence' /\ seen \subseteq seen'
    BY <1>1, <1>2, PeripheralWire, PeripheralEvidence, PeripheralState
  <1>5. UNCHANGED <<awaiting, localVars, target, result, op, attempt>>
    BY <1>2 DEF Untouched, argVars, Steady
  <1>6. (NoOrder \/ AcceptsOrder \/ BoltTurns) /\ StaysQuiet
    BY <1>1, <1>2, PeripheralBolt
  <1>7. link' = link \/ link' = "down"
    BY <1>3 DEF PeripheralKeeps, CutLink
  <1>8. EndsAreMarked'
    BY <1>1, <1>5 DEF EndsAreMarked
  <1>9. orders \in Nat /\ orders' \in Nat /\ attempt \in Nat /\ orders' >= orders
    BY <1>3, AttemptsAssumption
       DEF PeripheralKeeps, DeviceInv, DeviceTypeOK, LockTypeOK
  <1>10. ReturnWasSeen' /\ SetNeedsOrder'
    BY <1>4, <1>5, <1>9 DEF DeviceInv, ReturnWasSeen, SetNeedsOrder
  <1>11. ApartIsFresh'
    BY <1>5, <1>7 DEF DeviceInv, ApartIsFresh, localVars
  <1>12. ReadsAreQuiet'
    BY <1>5, <1>6 DEF DeviceInv, ReadsAreQuiet, StaysQuiet, localVars
  <1>13. AnswersAreMeant'
    BY <1>3, <1>5 DEF DeviceInv, AnswersAreMeant, PeripheralKeeps
  <1>14. OrdersBounded'
    <2>0. /\ awaiting # "idle" => orders <= attempt + 1
          /\ awaiting = "connect" \/ (link = "up" /\ session # "answered")
                => orders <= attempt
          /\ awaiting = "connect" => link = "down"
      BY DEF DeviceInv, OrdersBounded, ApartIsFresh, Apart
    <2>1. CASE NoOrder
      BY <1>5, <1>7, <2>0, <2>1 DEF NoOrder, OrdersBounded, boltVars
    <2>2. CASE AcceptsOrder
      <3>1. orders' = orders + 1 /\ orders <= attempt /\ session' = "answered"
            /\ awaiting' # "connect"
        BY <1>5, <2>0, <2>2 DEF AcceptsOrder
      <3>2. orders' <= attempt + 1
        BY <1>9, <3>1
      <3> QED BY <1>5, <3>1, <3>2 DEF OrdersBounded
    <2>3. CASE BoltTurns
      BY <1>5, <2>0, <2>3 DEF BoltTurns, OrdersBounded
    <2> QED BY <1>6, <2>1, <2>2, <2>3
  <1> QED BY <1>3, <1>4, <1>8, <1>10, <1>11, <1>12, <1>13, <1>14 DEF DeviceInv

-------------------------------------------------------------------------------
(***************************************************************************)
(* DeviceInv is inductive.                                                 *)
(***************************************************************************)
LEMMA DeviceInvInit ==
    ASSUME DeviceInit PROVE DeviceInv
  <1>1. /\ link = "down" /\ subs = {} /\ toLock = <<>> /\ toClient = <<>>
        /\ session = "new" /\ bolt \in Positions /\ throwing = "none" /\ wire = <<>>
        /\ orders = 0 /\ seen = {bolt}
    BY DEF DeviceInit, LockInit
  <1>2. /\ awaiting = "idle" /\ ~answered /\ ~gotResult /\ ~gotState
        /\ newState = "none" /\ tasks = <<>> /\ result = "none" /\ op = "state"
        /\ attempt = 0
    BY DEF DeviceInit
  <1>3. DeviceTypeOK
    <2>1. LockTypeOK
      BY LockInitTyped DEF DeviceInit
    <2>2. ClientTypeOK
      <3>1. answered \in BOOLEAN /\ gotResult \in BOOLEAN /\ gotState \in BOOLEAN
        BY DEF DeviceInit
      <3>2. tasks \in Seq({"ack", "answer"}) /\ newState \in Positions \cup {"none"}
        BY DEF DeviceInit
      <3>3. target \in Positions /\ token \in Tokens
        BY TokenAssumption DEF DeviceInit
      <3> QED BY <3>1, <3>2, <3>3 DEF ClientTypeOK
    <2>3. /\ awaiting \in Connected \cup Apart /\ result \in Results
          /\ op \in Ops /\ outcome \in Outcomes
      BY DEF DeviceInit, Apart, Results, Ops, Outcomes
    <2>4. attempt \in 0 .. Attempts - 1
      BY AttemptsAssumption DEF DeviceInit
    <2> QED BY <2>1, <2>2, <2>3, <2>4 DEF DeviceTypeOK
  <1>4. DownIsEmpty /\ EndsAreMarked /\ AnswersAreMeant
    BY <1>1, <1>2, ToSetSmall DEF DownIsEmpty, EndsAreMarked, AnswersAreMeant
  <1>5. WireHistory
    BY <1>1, <1>2 DEF WireHistory
  <1>6. ResultEvidence /\ StateEvidence
    BY <1>1, <1>2, ToSetSmall DEF ResultEvidence, StateEvidence
  <1>7. ReturnWasSeen /\ SetNeedsOrder
    BY <1>2 DEF ReturnWasSeen, SetNeedsOrder, Positions
  <1>8. ApartIsFresh /\ ReadsAreQuiet /\ OrdersBounded
    BY <1>1, <1>2 DEF ApartIsFresh, ReadsAreQuiet, OrdersBounded,
                      HandshakeAwaits, GattAwaits, ReadAwaits
  <1> QED BY <1>3, <1>4, <1>5, <1>6, <1>7, <1>8 DEF DeviceInv

LEMMA DeviceInvStep ==
    ASSUME DeviceInv, [DeviceNext]_dvars
    PROVE  DeviceInv'
  <1>1. DeviceTypeOK /\ EndsAreMarked
    BY DEF DeviceInv
  <1>2. DeviceTypeOK'
    BY <1>1, DeviceTyped
  <1>3. CASE LoopStep
    BY <1>3, LoopKeeps
  <1>4. CASE Steady /\ Coroutine
    BY <1>2, <1>4, CoroutineKeepsInv
  <1>5. CASE Steady /\ Callback
    BY <1>2, <1>5, CallbackKeepsInv
  <1>6. CASE Steady /\ RunSendTask
    BY <1>2, <1>6, SendTaskKeepsInv
  <1>7. CASE Steady /\ Environment
    BY <1>2, <1>7, EnvironmentKeepsInv
  <1>8. CASE UNCHANGED dvars
    <2> USE <1>8 DEF dvars, hvars, lockVars, linkVars, boltVars, localVars, argVars
    <2>1. DownIsEmpty' /\ EndsAreMarked' /\ AnswersAreMeant'
      BY DEF DeviceInv, DownIsEmpty, EndsAreMarked, AnswersAreMeant
    <2>2. WireHistory'
      BY DEF DeviceInv, WireHistory, RequestWritten
    <2>3. ResultEvidence' /\ StateEvidence'
      BY DEF DeviceInv, ResultEvidence, StateEvidence
    <2>4. ReturnWasSeen' /\ SetNeedsOrder'
      BY DEF DeviceInv, ReturnWasSeen, SetNeedsOrder
    <2>5. ApartIsFresh' /\ ReadsAreQuiet' /\ OrdersBounded'
      BY DEF DeviceInv, ApartIsFresh, ReadsAreQuiet, OrdersBounded
    <2> QED BY <1>2, <2>1, <2>2, <2>3, <2>4, <2>5 DEF DeviceInv
  <1> QED BY <1>3, <1>4, <1>5, <1>6, <1>7, <1>8, NextIsOneOf

\* Every reachable state of the device satisfies the inductive invariant.
THEOREM DeviceInvariant == DeviceSpec => []DeviceInv
  <1>1. DeviceInit => DeviceInv
    BY DeviceInvInit
  <1>2. DeviceInv /\ [DeviceNext]_dvars => DeviceInv'
    BY DeviceInvStep
  <1> QED BY <1>1, <1>2, PTL DEF DeviceSpec

-------------------------------------------------------------------------------
\* The variables of a device keep their types; above all `attempt` stays below
\* Attempts, the range of _with_client's loop (device.py:87).
THEOREM DeviceTypeCorrect == DeviceSpec => []DeviceTypeOK
  <1>1. DeviceInv => DeviceTypeOK
    BY DEF DeviceInv
  <1> QED BY <1>1, DeviceInvariant, PTL

\* No path out of an attempt, cancellation included, leaves a connection or a
\* send task behind (device.py:95-100).
THEOREM LinkIsReleased == DeviceSpec => []LinkReleased
  <1>1. DeviceInv => LinkReleased
    BY DEF DeviceInv, ApartIsFresh, LinkReleased
  <1> QED BY <1>1, DeviceInvariant, PTL

\* However often the lock repeats its challenge and an attempt fails half-way,
\* each attempt gives the bolt at most one order (device.py:87-101, 185-190).
THEOREM OrdersAreBounded == DeviceSpec => []OneOrderPerAttempt
  <1>1. DeviceInv => OneOrderPerAttempt
    BY DEF DeviceInv, OrdersBounded, OneOrderPerAttempt
  <1> QED BY <1>1, DeviceInvariant, PTL

-------------------------------------------------------------------------------
(***************************************************************************)
(* The device implements DeviceCall: under the refinement mapping every    *)
(* step is one of the abstract actions, or changes nothing they know of.   *)
(***************************************************************************)
Phase == IF awaiting = "idle" THEN "idle" ELSE "running"
Promised == <<Phase, op, target, bolt, throwing, orders, seen, outcome>>

LEMMA BeginsOrReturns ==
    ASSUME DeviceInv, LoopStep
    PROVE  Promise!CallNext \/ UNCHANGED Promised
  <1> USE DEF callArgs, argVars, lockVars, boltVars, Promised, Phase
  <1>0. /\ op \in Ops /\ target \in Positions /\ result \in Results
        /\ (result = "none") = (awaiting # "disconnect")
        /\ result \in Positions => result \in seen
        /\ op = "set" /\ result \in Positions => orders >= 1
    BY DEF DeviceInv, DeviceTypeOK, ClientTypeOK, EndsAreMarked, ReturnWasSeen,
           SetNeedsOrder
  <1>1. ASSUME NEW o \in Ops, NEW to \in Positions, Call(o, to)
        PROVE  Promise!Begin(o, to)
    BY <1>1 DEF Call, Promise!Begin
  <1>2. ASSUME awaiting # "idle", NEW how, Finish(how),
               UNCHANGED <<boltVars, callArgs>>,
               \/ how \in {"failed", "decode_error", "cancelled"}
               \/ how \in seen /\ (op = "set" => orders >= 1)
        PROVE  Promise!CallNext
    <2>1. Promise!Return
      BY <1>2 DEF Finish, Promise!Return, Promise!Raised
    <2> QED BY <2>1 DEF Promise!CallNext
  <1>3. CASE CallSet \/ CallRead
    <2>1. \E o \in Ops, to \in Positions : Call(o, to)
      BY <1>0, <1>3 DEF CallSet, CallRead, Ops
    <2>2. \E o \in Promise!CallOps, to \in Promise!CallPositions : Promise!Begin(o, to)
      BY <1>1, <2>1 DEF Ops, Positions, Promise!CallOps, Promise!CallPositions
    <2> QED BY <2>2 DEF Promise!CallNext
  <1>4. CASE Connect \/ ConnectError
    BY <1>4 DEF Connect, ConnectError
  <1>5. CASE ReadState \/ ReadStateError
    BY <1>5 DEF ReadState, ReadStateError, Leave, Await
  <1>6. CASE ReadBattery \/ ReadDoor
    BY <1>6 DEF ReadBattery, ReadDoor, ReadExtra, Leave, Await
  <1>7. CASE Disconnect
    <2>1. CASE Retries(result)
      BY <1>7, <2>1 DEF Disconnect
    <2>2. CASE ~Retries(result)
      <3>1. \/ result \in {"failed", "decode_error", "cancelled"}
            \/ result \in seen /\ (op = "set" => orders >= 1)
        BY <1>0, <1>7, <2>2 DEF Disconnect, Retries, Results
      <3> QED BY <1>2, <1>7, <2>2, <3>1 DEF Disconnect
    <2> QED BY <2>1, <2>2
  <1>8. CASE BackoffOver
    <2>1. CASE LastAttempt
      BY <1>2, <1>8, <2>1 DEF BackoffOver
    <2>2. CASE ~LastAttempt
      BY <1>8, <2>2 DEF BackoffOver
    <2> QED BY <2>1, <2>2
  <1>9. CASE CancelWork
    BY <1>9 DEF CancelWork, Leave, Connected, WorkAwaits, HandshakeAwaits,
                GattAwaits, ReadAwaits
  <1>10. CASE CancelApart
    BY <1>2, <1>10 DEF CancelApart
  <1> QED BY <1>3, <1>4, <1>5, <1>6, <1>7, <1>8, <1>9, <1>10 DEF LoopStep

\* The loop leaves room for one more order whenever the lock may accept one.
LEMMA OrdersAndTurns ==
    ASSUME DeviceInv, Steady, Environment
    PROVE  Promise!CallNext \/ UNCHANGED Promised
  <1> USE DEF Promised, Phase
  <1>1. /\ TypeOK /\ DownIsEmpty /\ DeviceTypeOK /\ OrdersBounded /\ ApartIsFresh
        /\ ReadsAreQuiet /\ AnswersAreMeant /\ bolt \in seen
    BY DEF DeviceInv, DeviceTypeOK, TypeOK, StateEvidence
  <1>2. NoOrder \/ AcceptsOrder \/ BoltTurns
    BY <1>1, PeripheralBolt DEF Environment
  <1>3. UNCHANGED <<awaiting, op, attempt, outcome, target>>
    BY DEF Environment, Steady, argVars
  <1>4. CASE NoOrder
    BY <1>3, <1>4 DEF NoOrder, boltVars
  <1>5. CASE AcceptsOrder
    <2>1. throwing' = target /\ toLock # <<>>
      BY <1>1, <1>5, ToSetSmall DEF AcceptsOrder, AnswersAreMeant
    <2>2. op = "set" /\ awaiting # "idle"
      BY <1>1, <1>5, <2>1 DEF ReadsAreQuiet, ApartIsFresh, Apart, AcceptsOrder
    <2>3. orders < Attempts
      <3>1. orders <= attempt
        BY <1>1, <1>5 DEF OrdersBounded, AcceptsOrder
      <3>2. orders \in Nat /\ attempt \in 0 .. Attempts - 1
        BY <1>1 DEF DeviceTypeOK, LockTypeOK
      <3> QED BY <3>1, <3>2, AttemptsAssumption
    <2>4. Promise!Order
      BY <1>3, <1>5, <2>1, <2>2, <2>3 DEF AcceptsOrder, Promise!Order
    <2> QED BY <2>4 DEF Promise!CallNext
  <1>6. CASE BoltTurns
    <2>1. seen' = seen \cup {bolt'} \/ UNCHANGED <<bolt, seen>>
      BY <1>6 DEF BoltTurns
    <2>2. seen' = seen \cup {bolt'}
      BY <1>1, <2>1
    <2>3. bolt' \in Promise!CallPositions
      BY <1>6 DEF BoltTurns, Positions, Promise!CallPositions
    <2>4. CASE throwing' = throwing
      <3>1. Promise!Turn
        BY <1>3, <1>6, <2>2, <2>3, <2>4 DEF BoltTurns, Promise!Turn
      <3> QED BY <3>1 DEF Promise!CallNext
    <2>5. CASE throwing # "none" /\ throwing' = "none" /\ bolt' \in {bolt, throwing}
      <3>1. Promise!Obey
        BY <1>3, <1>6, <2>2, <2>5 DEF BoltTurns, Promise!Obey
      <3> QED BY <3>1 DEF Promise!CallNext
    <2> QED BY <1>6, <2>4, <2>5 DEF BoltTurns
  <1> QED BY <1>2, <1>4, <1>5, <1>6

LEMMA PromiseInit ==
    ASSUME DeviceInit PROVE Promise!CallInit
  BY DEF DeviceInit, LockInit, Positions, Promise!CallInit, Promise!CallPositions

LEMMA PromiseStep ==
    ASSUME DeviceInv, [DeviceNext]_dvars
    PROVE  [Promise!CallNext]_(Promise!callVars)
  <1> USE DEF Promised, Phase, Promise!callVars
  <1>1. SUFFICES Promise!CallNext \/ UNCHANGED Promised
    OBVIOUS
  <1>2. CASE LoopStep
    BY <1>2, BeginsOrReturns
  <1>3. CASE Steady /\ Coroutine
    <2>1. /\ TypeOK /\ DownIsEmpty /\ EndsAreMarked /\ StateEvidence
      BY DEF DeviceInv, DeviceTypeOK, TypeOK
    <2>2. UNCHANGED <<argVars, boltVars>>
      BY <1>3, <2>1, CoroutineDown
    <2>3. awaiting # "idle" /\ awaiting' # "idle"
      BY <1>3, <2>1, CoroutineTyped
         DEF Coroutine, StartNotifyState, StartNotifyNus, WriteHello, PrimeSlept,
             WriteRequest, ResultArrives, ResultTimeout, StateArrives, StateTimeout,
             ReadFallback, GattError, GattAwaits, HandshakeAwaits
    <2> QED BY <1>3, <2>2, <2>3 DEF Steady, argVars, boltVars
  <1>4. CASE Steady /\ Callback
    BY <1>4 DEF Steady, Callback, OnChallenge, OnResult, OnIgnored, OnState,
                Notified, argVars, boltVars
  <1>5. CASE Steady /\ RunSendTask
    BY <1>5 DEF Steady, RunSendTask, argVars, boltVars
  <1>6. CASE Steady /\ Environment
    BY <1>6, OrdersAndTurns
  <1>7. CASE UNCHANGED dvars
    BY <1>7 DEF dvars, hvars, lockVars, boltVars, argVars
  <1> QED BY <1>2, <1>3, <1>4, <1>5, <1>6, <1>7, NextIsOneOf

\* Every call keeps the promise of DeviceCall, for any number of attempts and
\* any faults: a set orders its own target only, at most Attempts times and
\* never after it is over, a read orders nothing, a position that is returned was
\* held by the bolt during the call (device.py:77-102, 145-223).
THEOREM DevicePromise == DeviceSpec => PromiseKept
  <1>1. DeviceInit => Promise!CallInit
    BY PromiseInit
  <1>2. DeviceInv /\ [DeviceNext]_dvars => [Promise!CallNext]_(Promise!callVars)
    BY PromiseStep
  <1> QED BY <1>1, <1>2, DeviceInvariant, PTL DEF DeviceSpec, PromiseKept, Promise!CallSpec

-------------------------------------------------------------------------------
(***************************************************************************)
(* An undisturbed bolt: TargetInv is inductive beside DeviceInv.           *)
(***************************************************************************)
NoStateNews == \A n \in ToSet(toClient') : n.kind = "state" => n \in ToSet(toClient)

OnlyOrders == UNCHANGED <<bolt, throwing, orders>> \/ AcceptsOrder

Arrives ==
    /\ throwing # "none" /\ throwing' = "none"
    /\ bolt' = throwing /\ UNCHANGED orders
    /\ bolt' = bolt => NoStateNews
    /\ \A n \in ToSet(toClient') \ ToSet(toClient) : n.kind = "state" => n.raw \in Reports(bolt')

LEMMA UndisturbedPeripheral ==
    ASSUME TypeOK, DownIsEmpty, Undisturbed, Peripheral
    PROVE  (OnlyOrders /\ NoStateNews) \/ Arrives
  <1> USE DEF boltVars, linkVars
  <1>0. /\ Nus("lock_ack") \in Notifications /\ Nus("lock_ack").kind = "lock_ack"
        /\ Nus("challenge") \in Notifications /\ Nus("challenge").kind = "challenge"
        /\ Nus("result") \in Notifications /\ Nus("result").kind = "result"
    BY FramesTyped DEF NusKinds, Nus
  <1>1. CASE LockHello \/ LockAck
    BY <1>1 DEF LockHello, LockAck, OnlyOrders, NoStateNews
  <1>2. CASE LockRequest
    <2>1. Notify("nus", <<Nus("lock_ack"), Nus("challenge")>>) /\ UNCHANGED boltVars
      BY <1>2 DEF LockRequest
    <2>2. ToSet(toClient') \subseteq ToSet(toClient) \cup {Nus("lock_ack"), Nus("challenge")}
      <3>1. <<Nus("lock_ack"), Nus("challenge")>> \in Seq(Notifications)
        BY <1>0
      <3> QED BY <2>1, <3>1, NotifyEffect, ToSetSmall
    <2> QED BY <1>0, <2>1, <2>2 DEF OnlyOrders, NoStateNews
  <1>3. CASE LockAnswer
    <2>1. UNCHANGED <<bolt, throwing, orders>> \/ AcceptsOrder
      BY <1>3, PeripheralBolt DEF Peripheral, Firmware, NoOrder, BoltTurns, LockAnswer
    <2>2. NoStateNews
      <3>1. CASE UNCHANGED toClient
        BY <3>1 DEF NoStateNews
      <3>2. CASE Notify("nus", <<Nus("lock_ack"), Nus("result")>>)
        <4>1. <<Nus("lock_ack"), Nus("result")>> \in Seq(Notifications)
          BY <1>0
        <4>2. ToSet(toClient') \subseteq ToSet(toClient) \cup {Nus("lock_ack"), Nus("result")}
          BY <3>2, <4>1, NotifyEffect, ToSetSmall
        <4> QED BY <1>0, <4>2 DEF NoStateNews
      <3> QED BY <1>3, <3>1, <3>2 DEF LockAnswer
    <2> QED BY <2>1, <2>2 DEF OnlyOrders
  <1>4. CASE Retransmit
    <2>1. Notify("nus", <<Nus("challenge")>>) /\ UNCHANGED boltVars
      BY <1>4 DEF Retransmit
    <2>2. ToSet(toClient') \subseteq ToSet(toClient) \cup {Nus("challenge")}
      <3>1. <<Nus("challenge")>> \in Seq(Notifications)
        BY <1>0
      <3> QED BY <2>1, <3>1, NotifyEffect, ToSetSmall
    <2> QED BY <1>0, <2>1, <2>2 DEF OnlyOrders, NoStateNews
  <1>5. CASE Throw
    <2>1. throwing \in Positions /\ MoveBolt(throwing) /\ throwing' = "none" /\ throwing # "none"
      BY <1>5 DEF Throw, TypeOK, LockTypeOK
    <2>2. bolt' = throwing /\ UNCHANGED orders
      BY <2>1 DEF MoveBolt
    <2>3. ASSUME bolt' = bolt PROVE NoStateNews
      <3>1. Notify("state", <<>>) /\ <<>> \in Seq(Notifications)
        BY <2>1, <2>2, <2>3 DEF MoveBolt
      <3> QED BY <3>1, NotifyEffect, ToSetSmall DEF NoStateNews
    <2>4. \A n \in ToSet(toClient') \ ToSet(toClient) : n.raw \in Reports(bolt')
      BY <2>1, <2>2, MoveEffect
    <2> QED BY <2>1, <2>2, <2>3, <2>4 DEF Arrives
  <1>6. ~Jam /\ ~ForeignMove
    BY DEF Undisturbed, Jam, ForeignMove
  <1>7. CASE Drop
    BY <1>7, ToSetSmall DEF Drop, CutLink, OnlyOrders, NoStateNews
  <1> QED BY <1>1, <1>2, <1>3, <1>4, <1>5, <1>6, <1>7 DEF Peripheral, Firmware

LEMMA TargetEnvironment ==
    ASSUME DeviceInv, TargetInv, Undisturbed, Steady, Environment
    PROVE  TargetInv'
  <1>1. /\ TypeOK /\ DownIsEmpty /\ AnswersAreMeant /\ ApartIsFresh /\ ReadsAreQuiet
        /\ bolt \in Positions /\ target \in Positions
    BY DEF DeviceInv, DeviceTypeOK, TypeOK, LockTypeOK, ClientTypeOK
  <1>2. Peripheral /\ UNCHANGED <<awaiting, newState, target, result, op, outcome>>
    BY DEF Environment, localVars, argVars, Steady
  <1>3. CASE UNCHANGED <<bolt, throwing, orders>> /\ NoStateNews
    BY <1>2, <1>3 DEF TargetInv, ThrowsAreMeant, NewsIsArrival, EndIsArrival, NoStateNews
  <1>4. CASE AcceptsOrder /\ NoStateNews
    <2>1. throwing' = target /\ toLock # <<>> /\ bolt' = bolt
      BY <1>1, <1>4, ToSetSmall DEF AcceptsOrder, AnswersAreMeant
    <2>2. op = "set" /\ awaiting # "idle"
      BY <1>1, <1>4, <2>1 DEF ReadsAreQuiet, ApartIsFresh, Apart, AcceptsOrder
    <2>3. ThrowsAreMeant'
      BY <1>2, <2>1, <2>2 DEF ThrowsAreMeant
    <2>4. NewsIsArrival' /\ EndIsArrival'
      BY <1>2, <1>4, <2>1 DEF TargetInv, NewsIsArrival, EndIsArrival, NoStateNews
    <2> QED BY <2>3, <2>4 DEF TargetInv
  <1>5. CASE Arrives
    <2>1. throwing' = "none" /\ bolt' = throwing /\ throwing \in {target, bolt} /\ orders' = orders
      BY <1>5 DEF Arrives, TargetInv, ThrowsAreMeant
    <2>2. bolt = target => bolt' = target
      BY <2>1
    <2>3. ThrowsAreMeant'
      BY <1>2, <2>1 DEF TargetInv, ThrowsAreMeant
    <2>4. NewsIsArrival'
      <3>1. ASSUME op = "set", NEW n \in ToSet(toClient'), n.kind = "state", n.raw # Malformed
            PROVE  DecodeState(n.raw) = target /\ bolt' = target
        <4>1. CASE n \in ToSet(toClient)
          BY <2>2, <3>1, <4>1 DEF TargetInv, NewsIsArrival
        <4>2. CASE n \notin ToSet(toClient)
          <5>1. bolt' = target
            BY <1>5, <2>1, <3>1, <4>2 DEF Arrives, NoStateNews
          <5>2. n.raw \in Reports(bolt')
            BY <1>5, <3>1, <4>2 DEF Arrives
          <5> QED BY <1>1, <3>1, <5>1, <5>2, DecodedReport
        <4> QED BY <4>1, <4>2
      <3> QED BY <1>2, <2>2, <3>1 DEF TargetInv, NewsIsArrival
    <2>5. EndIsArrival'
      BY <1>2, <2>2 DEF TargetInv, EndIsArrival
    <2> QED BY <2>3, <2>4, <2>5 DEF TargetInv
  <1> QED BY <1>1, <1>2, <1>3, <1>4, <1>5, UndisturbedPeripheral DEF OnlyOrders

LEMMA TargetCoroutine ==
    ASSUME DeviceInv, TargetInv, Undisturbed, Steady, Coroutine
    PROVE  TargetInv'
  <1>1. /\ TypeOK /\ DownIsEmpty /\ EndsAreMarked /\ StateEvidence /\ ResultEvidence
        /\ bolt \in Positions /\ target \in Positions
    BY DEF DeviceInv, DeviceTypeOK, TypeOK, LockTypeOK, ClientTypeOK
  <1>2. UNCHANGED <<bolt, throwing, orders, newState, target, op, outcome>>
    BY <1>1, CoroutineDown DEF localVars, argVars, boltVars, Steady
  <1>3. toClient' = toClient
    BY DEF Coroutine, StartNotifyState, StartNotifyNus, WriteHello, PrimeSlept,
           WriteRequest, ResultArrives, ResultTimeout, StateArrives, StateTimeout,
           ReadFallback, GattError, Write, Subscribe, lockVars, linkVars
  <1>4. /\ awaiting \in HandshakeAwaits /\ op = "set" /\ result = "none"
        /\ awaiting' \in HandshakeAwaits \cup {"disconnect"}
    <2>1. awaiting \in HandshakeAwaits
      BY DEF Coroutine, StartNotifyState, StartNotifyNus, WriteHello, PrimeSlept,
             WriteRequest, ResultArrives, ResultTimeout, StateArrives, StateTimeout,
             ReadFallback, GattError, HandshakeAwaits, GattAwaits
    <2> QED BY <1>1, <2>1, CoroutineTyped
            DEF DeviceInv, ReadsAreQuiet, EndsAreMarked, HandshakeAwaits, GattAwaits
  <1>5. ThrowsAreMeant' /\ NewsIsArrival'
    BY <1>2, <1>3, <1>4
       DEF TargetInv, ThrowsAreMeant, NewsIsArrival, HandshakeAwaits, GattAwaits
  <1>6. SUFFICES /\ result' # "cancelled"
                 /\ awaiting' = "read_fallback" \/ result' \notin {"none", "ble_error"}
                       => bolt = target
                 /\ result' \in Positions => result' = target
    BY <1>2, <1>5 DEF TargetInv, EndIsArrival
  <1>7. newState # "none" => newState = target /\ bolt = target
    BY <1>4 DEF TargetInv, NewsIsArrival
  <1>8. gotState => newState # "none"
    BY <1>1 DEF StateEvidence
  <1> USE DEF Await, Leave, Positions
  <1>9. CASE \/ StartNotifyState \/ StartNotifyNus \/ WriteHello \/ PrimeSlept
             \/ WriteRequest \/ ResultTimeout \/ GattError
    BY <1>4, <1>9 DEF StartNotifyState, StartNotifyNus, WriteHello, PrimeSlept,
                      WriteRequest, ResultTimeout, GattError
  <1>10. CASE ResultArrives \/ StateArrives
    BY <1>1, <1>4, <1>7, <1>8, <1>10 DEF ResultArrives, StateArrives
  <1>11. CASE StateTimeout
    <2>1. throwing = "none"
      BY <1>11 DEF StateTimeout, MayExpire, InProgress, Undisturbed
    <2>2. orders >= 1
      BY <1>1, <1>11 DEF ResultEvidence, StateTimeout
    <2>3. bolt = target
      BY <1>1, <1>4, <2>1, <2>2 DEF TargetInv, ThrowsAreMeant
    <2> QED BY <1>1, <1>4, <1>7, <1>11, <2>3 DEF StateTimeout
  <1>12. CASE ReadFallback
    <2>1. bolt = target
      BY <1>4, <1>12 DEF ReadFallback, TargetInv, EndIsArrival
    <2>2. PICK raw \in Reports(bolt) : Leave(ReadResult(raw))
      BY <1>12 DEF ReadFallback
    <2>3. ReadResult(raw) \in {"decode_error", target}
      BY <1>1, <2>1, DecodedReport DEF ReadResult
    <2> QED BY <1>1, <2>1, <2>2, <2>3
  <1> QED BY <1>9, <1>10, <1>11, <1>12 DEF Coroutine

LEMMA TargetCallback ==
    ASSUME DeviceInv, TargetInv, Steady, Callback \/ RunSendTask
    PROVE  TargetInv'
  <1>1. TypeOK /\ DownIsEmpty
    BY DEF DeviceInv, DeviceTypeOK, TypeOK
  <1>2. UNCHANGED <<bolt, throwing, orders, awaiting, target, result, op, outcome>>
    BY DEF Callback, OnChallenge, OnResult, OnIgnored, OnState, Notified, RunSendTask,
           boltVars, argVars, Steady
  <1>3. ThrowsAreMeant' /\ EndIsArrival'
    BY <1>2 DEF TargetInv, ThrowsAreMeant, EndIsArrival
  <1>4. CASE RunSendTask
    <2>1. UNCHANGED <<newState, toClient>>
      BY <1>4 DEF RunSendTask, Write, linkVars
    <2> QED BY <1>2, <1>3, <2>1 DEF TargetInv, NewsIsArrival
  <1>5. CASE Callback
    <2>1. PICK kinds : Notified(kinds)
      BY <1>5 DEF Callback, OnChallenge, OnResult, OnIgnored, OnState
    <2>2. /\ Head(toClient) \in ToSet(toClient)
          /\ ToSet(toClient') \subseteq ToSet(toClient)
      BY <1>1, <2>1, ToSetTail DEF Notified, TypeOK, LockTypeOK
    <2>3. CASE newState' = newState
      BY <1>2, <1>3, <2>2, <2>3 DEF TargetInv, NewsIsArrival
    <2>4. CASE /\ Head(toClient).kind = "state" /\ Head(toClient).raw # Malformed
               /\ newState' = DecodeState(Head(toClient).raw)
      BY <1>2, <1>3, <2>2, <2>4 DEF TargetInv, NewsIsArrival
    <2> QED BY <1>5, <2>3, <2>4
            DEF Callback, OnChallenge, OnResult, OnIgnored, OnState, Notified, localVars
  <1> QED BY <1>4, <1>5

LEMMA TargetLoop ==
    ASSUME DeviceInv, TargetInv, Undisturbed, LoopStep
    PROVE  TargetInv'
  <1> USE DEF lockVars, linkVars, boltVars, localVars, argVars, callArgs, Positions
  <1>0. /\ EndsAreMarked /\ ReadsAreQuiet /\ ApartIsFresh /\ DownIsEmpty
        /\ bolt \in Positions /\ target \in Positions /\ newState \in Positions \cup {"none"}
        /\ ThrowsAreMeant /\ NewsIsArrival /\ EndIsArrival
    BY DEF DeviceInv, DeviceTypeOK, LockTypeOK, ClientTypeOK, TargetInv
  <1>1. CASE CallSet \/ CallRead
    <2>1. PICK o, to : Call(o, to)
      BY <1>1 DEF CallSet, CallRead
    <2>2. newState = "none" /\ toClient = <<>> /\ result = "none" /\ throwing \in {"none", bolt}
      BY <1>0, <2>1 DEF Call, ApartIsFresh, Apart, DownIsEmpty, EndsAreMarked, ThrowsAreMeant
    <2>3. /\ UNCHANGED <<newState, toClient, result, throwing, bolt>>
          /\ orders' = 0 /\ awaiting' = "connect" /\ outcome' = "none"
      BY <2>1 DEF Call
    <2> QED BY <2>2, <2>3, ToSetSmall DEF TargetInv, ThrowsAreMeant, NewsIsArrival, EndIsArrival
  <1>2. CASE Connect \/ ConnectError
    <2>1. /\ UNCHANGED <<newState, toClient, result, throwing, bolt, orders, op, target, outcome>>
          /\ awaiting = "connect" /\ result = "none"
          /\ awaiting' \in {"start_notify_state", "read_state", "backoff"}
      BY <1>0, <1>2 DEF Connect, ConnectError, EndsAreMarked
    <2> QED BY <1>0, <2>1 DEF TargetInv, ThrowsAreMeant, NewsIsArrival, EndIsArrival
  <1>3. CASE ReadState \/ ReadStateError \/ ReadBattery \/ ReadDoor
    <2>1. op # "set" /\ awaiting # "idle"
      BY <1>0, <1>3 DEF ReadState, ReadStateError, ReadBattery, ReadDoor, ReadsAreQuiet,
                        ReadAwaits
    <2>2. UNCHANGED <<throwing, bolt, orders, op, target>> /\ awaiting' # "idle"
      BY <1>3 DEF ReadState, ReadStateError, ReadBattery, ReadDoor, ReadExtra, Await, Leave
    <2>3. result' # "cancelled"
      BY <1>0, <1>3 DEF ReadState, ReadStateError, ReadBattery, ReadDoor, ReadExtra, Await,
                        Leave, EndIsArrival, ReadResult, DecodeState
    <2> QED BY <1>0, <2>1, <2>2, <2>3
            DEF TargetInv, ThrowsAreMeant, NewsIsArrival, EndIsArrival
  <1>4. CASE Disconnect
    <2>1. /\ UNCHANGED <<throwing, bolt, orders, op, target>>
          /\ toClient' = <<>> /\ newState' = "none"
          /\ result # "none" /\ result' = "none"
          /\ \/ awaiting' = "backoff" /\ UNCHANGED outcome
             \/ awaiting' = "idle" /\ outcome' = result /\ result # "ble_error"
      BY <1>0, <1>4 DEF Disconnect, CutLink, FreshLocals, Retries, Finish, EndsAreMarked
    <2>2. awaiting' = "idle" /\ op = "set" => bolt = target
      BY <1>0, <2>1 DEF EndIsArrival
    <2>3. ThrowsAreMeant'
      BY <1>0, <2>1, <2>2 DEF ThrowsAreMeant
    <2>4. NewsIsArrival' /\ EndIsArrival'
      BY <1>0, <2>1, <2>2, ToSetSmall DEF NewsIsArrival, EndIsArrival
    <2> QED BY <2>3, <2>4 DEF TargetInv
  <1>5. CASE BackoffOver
    <2>1. /\ UNCHANGED <<newState, toClient, throwing, bolt, orders, op, target>>
          /\ result = "none" /\ result' = "none"
          /\ \/ awaiting' = "connect" /\ UNCHANGED outcome
             \/ awaiting' = "idle" /\ outcome' = "failed" /\ throwing = "none"
      BY <1>0, <1>5 DEF BackoffOver, Finish, EndsAreMarked, MayResume, MayExpire,
                        InProgress, Undisturbed
    <2> QED BY <1>0, <1>5, <2>1
            DEF TargetInv, ThrowsAreMeant, NewsIsArrival, EndIsArrival, BackoffOver
  <1>6. ~CancelWork /\ ~CancelApart
    BY DEF CancelWork, CancelApart, Undisturbed
  <1> QED BY <1>1, <1>2, <1>3, <1>4, <1>5, <1>6 DEF LoopStep

LEMMA TargetStep ==
    ASSUME DeviceInv, TargetInv, Undisturbed, [DeviceNext]_dvars
    PROVE  TargetInv'
  <1>1. CASE UNCHANGED dvars
    BY <1>1 DEF dvars, hvars, lockVars, linkVars, boltVars, localVars, argVars,
                TargetInv, ThrowsAreMeant, NewsIsArrival, EndIsArrival
  <1> QED BY <1>1, TargetLoop, TargetCoroutine, TargetCallback, TargetEnvironment, NextIsOneOf

LEMMA TargetInit ==
    ASSUME DeviceInit PROVE TargetInv
  BY ToSetSmall DEF DeviceInit, LockInit, TargetInv, ThrowsAreMeant, NewsIsArrival,
                    EndIsArrival, Positions

\* However many attempts fail and however often the lock repeats itself, a position that a
\* set returns is where it sent the bolt, and the bolt is there, if nobody else turns it, the
\* motor does not jam, timers outlast a throw and no call is cancelled (device.py:87-102,
\* 207-223).
THEOREM SetReturnsItsTarget ==
    ASSUME Undisturbed
    PROVE  DeviceSpec => []SetReturnsTarget
  <1>1. DeviceInit => TargetInv
    BY TargetInit
  <1>2. DeviceInv /\ TargetInv /\ [DeviceNext]_dvars => TargetInv'
    BY Undisturbed, TargetStep
  <1>3. DeviceInv /\ TargetInv => SetReturnsTarget
    BY DEF TargetInv, ThrowsAreMeant, EndIsArrival, SetReturnsTarget
  <1> QED BY <1>1, <1>2, <1>3, DeviceInvariant, PTL DEF DeviceSpec

-------------------------------------------------------------------------------
LEMMA StateIsKeptStep ==
    ASSUME DeviceInv, StateIsKept, "garble" \notin Faults, [DeviceNext]_dvars
    PROVE  StateIsKept'
  <1> USE DEF localVars, argVars, callArgs, Positions
  <1>0. /\ ReadsAreQuiet /\ ApartIsFresh /\ DownIsEmpty /\ TypeOK
        /\ newState \in Positions \cup {"none"}
    BY DEF DeviceInv, DeviceTypeOK, TypeOK, ClientTypeOK
  <1>1. CASE CallSet \/ CallRead \/ Connect \/ ConnectError
    <2>1. newState' = "none"
      BY <1>0, <1>1 DEF CallSet, CallRead, Call, Connect, ConnectError, ApartIsFresh, Apart
    <2> QED BY <2>1 DEF StateIsKept
  <1>2. CASE ReadState
    <2>1. op = "status" => newState = "none"
      BY <1>2 DEF ReadState, StateIsKept
    <2> QED BY <1>2, <2>1 DEF ReadState, StateIsKept, Await, Leave
  <1>3. CASE ReadStateError
    <2>1. op = "status" => newState = "none"
      BY <1>3 DEF ReadStateError, StateIsKept
    <2> QED BY <1>3, <2>1 DEF ReadStateError, StateIsKept
  <1>4. CASE ReadBattery \/ ReadDoor
    BY <1>0, <1>4 DEF ReadBattery, ReadDoor, ReadExtra, StateIsKept, Await, Leave
  <1>5. CASE Disconnect
    <2>1. newState' = "none"
      BY <1>5 DEF Disconnect, FreshLocals
    <2> QED BY <2>1 DEF StateIsKept
  <1>6. CASE BackoffOver \/ CancelApart
    <2>1. newState' = "none"
      BY <1>0, <1>6 DEF BackoffOver, CancelApart, ApartIsFresh, Apart
    <2> QED BY <2>1 DEF StateIsKept
  <1>7. CASE CancelWork
    BY <1>7 DEF CancelWork, StateIsKept, Leave
  <1>8. CASE Steady /\ Coroutine
    <2>1. op' = "set"
      BY <1>0, <1>8 DEF Steady, ReadsAreQuiet, Coroutine, StartNotifyState, StartNotifyNus,
         WriteHello, PrimeSlept, WriteRequest, ResultArrives, ResultTimeout, StateArrives,
         StateTimeout, ReadFallback, GattError, HandshakeAwaits, GattAwaits
    <2> QED BY <2>1 DEF StateIsKept
  <1>9. CASE Steady /\ Callback
    <2>1. op' = "set"
      BY <1>0, <1>9 DEF Steady, ReadsAreQuiet, Callback, OnChallenge, OnResult, OnIgnored,
         OnState, Notified
    <2> QED BY <2>1 DEF StateIsKept
  <1>10. CASE Steady /\ (RunSendTask \/ Environment)
    BY <1>10 DEF Steady, RunSendTask, Environment, StateIsKept
  <1>11. CASE UNCHANGED dvars
    BY <1>11 DEF dvars, hvars, StateIsKept
  <1> QED BY <1>1, <1>2, <1>3, <1>4, <1>5, <1>6, <1>7, <1>8, <1>9, <1>10, <1>11,
             NextIsOneOf DEF LoopStep

\* A status read that has decoded the state returns it, whatever happens to the reads of
\* battery and door, unless it is cancelled or one of them cannot be decrypted
\* (device.py:125-127).
THEOREM ExtrasCostNothing ==
    ASSUME "garble" \notin Faults
    PROVE  DeviceSpec => []ExtrasAreBestEffort
  <1>1. DeviceInit => StateIsKept
    BY DEF DeviceInit, StateIsKept
  <1>2. DeviceInv /\ StateIsKept /\ [DeviceNext]_dvars => StateIsKept'
    BY StateIsKeptStep
  <1>3. StateIsKept => ExtrasAreBestEffort
    BY DEF StateIsKept, ExtrasAreBestEffort
  <1> QED BY <1>1, <1>2, <1>3, DeviceInvariant, PTL DEF DeviceSpec
===============================================================================
