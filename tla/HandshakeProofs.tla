---------------------------- MODULE HandshakeProofs ----------------------------
(***************************************************************************)
(* Lemmas about the steps of Handshake, and theorems about its Spec.       *)
(***************************************************************************)
EXTENDS Handshake, TLAPS

\* What is in a queue after it was shortened or extended.
LEMMA ToSetTail ==
    ASSUME NEW S, NEW s \in Seq(S), s # <<>>
    PROVE  /\ Head(s) \in ToSet(s)
           /\ Head(s) \in S
           /\ Tail(s) \in Seq(S)
           /\ ToSet(Tail(s)) \subseteq ToSet(s)
  BY DEF ToSet

LEMMA ToSetAppend ==
    ASSUME NEW S, NEW s \in Seq(S), NEW e \in S
    PROVE  /\ Append(s, e) \in Seq(S)
           /\ ToSet(Append(s, e)) = ToSet(s) \cup {e}
  <1>1. Append(s, e) \in Seq(S)
    OBVIOUS
  <1>2. ToSet(Append(s, e)) \subseteq ToSet(s) \cup {e}
    BY DEF ToSet
  <1>3. ToSet(s) \cup {e} \subseteq ToSet(Append(s, e))
    <2>1. e \in ToSet(Append(s, e))
      <3>1. Len(s) + 1 \in DOMAIN Append(s, e) /\ Append(s, e)[Len(s) + 1] = e
        OBVIOUS
      <3> QED BY <3>1 DEF ToSet
    <2>2. ASSUME NEW i \in DOMAIN s PROVE s[i] \in ToSet(Append(s, e))
      <3>1. i \in DOMAIN Append(s, e) /\ Append(s, e)[i] = s[i]
        OBVIOUS
      <3> QED BY <3>1 DEF ToSet
    <2> QED BY <2>1, <2>2 DEF ToSet
  <1> QED BY <1>1, <1>2, <1>3

LEMMA ToSetConcat ==
    ASSUME NEW S, NEW s \in Seq(S), NEW t \in Seq(S)
    PROVE  /\ s \o t \in Seq(S)
           /\ ToSet(s \o t) = ToSet(s) \cup ToSet(t)
  <1>1. s \o t \in Seq(S) /\ Len(s \o t) = Len(s) + Len(t)
    OBVIOUS
  <1>2. ToSet(s \o t) \subseteq ToSet(s) \cup ToSet(t)
    <2>1. ASSUME NEW i \in DOMAIN (s \o t)
          PROVE  (s \o t)[i] \in ToSet(s) \cup ToSet(t)
      <3>1. CASE i \in 1 .. Len(s)
        BY <3>1 DEF ToSet
      <3>2. CASE i - Len(s) \in 1 .. Len(t)
        BY <3>2 DEF ToSet
      <3> QED BY <1>1, <2>1, <3>1, <3>2
    <2> QED BY <2>1 DEF ToSet
  <1>3. ToSet(s) \subseteq ToSet(s \o t)
    <2>1. ASSUME NEW i \in DOMAIN s PROVE s[i] \in ToSet(s \o t)
      <3>1. i \in DOMAIN (s \o t) /\ (s \o t)[i] = s[i]
        BY <1>1
      <3> QED BY <3>1 DEF ToSet
    <2> QED BY <2>1 DEF ToSet
  <1>4. ToSet(t) \subseteq ToSet(s \o t)
    <2>1. ASSUME NEW i \in DOMAIN t PROVE t[i] \in ToSet(s \o t)
      <3>1. Len(s) + i \in DOMAIN (s \o t) /\ (s \o t)[Len(s) + i] = t[i]
        BY <1>1
      <3> QED BY <3>1 DEF ToSet
    <2> QED BY <2>1 DEF ToSet
  <1> QED BY <1>1, <1>2, <1>3, <1>4
-------------------------------------------------------------------------------
(***************************************************************************)
(* Typing, step by step, for the variables of the lock and of the client.  *)
(* `awaiting` is typed by the specification that embeds these steps.       *)
(***************************************************************************)
TypeOK == LockTypeOK /\ ClientTypeOK /\ result \in Results

LEMMA FramesTyped ==
    /\ Hello \in ClientFrames /\ Request \in ClientFrames /\ Ack \in ClientFrames
    /\ \A to \in Positions, tok \in Tokens : Answer(tok, to) \in ClientFrames
    /\ \A kind \in NusKinds : Nus(kind) \in Notifications
    /\ \A raw \in StateValues : State(raw) \in Notifications
    /\ \A b \in Positions : Reports(b) \subseteq StateValues
    /\ \A raw : DecodeState(raw) \in Positions
  BY DEF Hello, Request, Ack, Command, Answer, AnswerMagic, ClientFrames,
         ClientKinds, Magics, Positions, Tokens, Nus, NusKinds, State,
         Notifications, StateValues, Reports, StatusByte, DecodeState,
         STATE_LOCKED, STATE_UNLOCKED, Malformed

LEMMA LockInitTyped ==
    ASSUME NEW l \in {"up", "down"}, LockInit(l) PROVE LockTypeOK
  <1>1. link \in {"up", "down"} /\ subs \subseteq {"state", "nus"}
        /\ session \in Sessions
    BY DEF LockInit, Sessions
  <1>2. toLock \in Seq(ClientFrames) /\ toClient \in Seq(Notifications)
        /\ wire \in Seq(ClientKinds)
    BY DEF LockInit
  <1>3. bolt \in Positions /\ throwing \in Positions \cup {"none"}
        /\ orders \in Nat /\ seen \subseteq Positions
    BY DEF LockInit
  <1> QED BY <1>1, <1>2, <1>3 DEF LockTypeOK

LEMMA NotifyTyped ==
    ASSUME TypeOK, NEW char, NEW ns \in Seq(Notifications), Notify(char, ns)
    PROVE  toClient' \in Seq(Notifications)
  BY DEF TypeOK, LockTypeOK, Notify

LEMMA PeripheralTyped ==
    ASSUME TypeOK, Peripheral PROVE LockTypeOK'
  <1> USE DEF TypeOK, LockTypeOK, boltVars, linkVars, Sessions
  <1>1. Nus("lock_ack") \in Notifications /\ Nus("challenge") \in Notifications
        /\ Nus("result") \in Notifications
    BY FramesTyped DEF NusKinds
  <1>2. ASSUME NEW kind, Handles(kind)
        PROVE  /\ toLock' \in Seq(ClientFrames) /\ Head(toLock) \in ClientFrames
               /\ link' = link /\ subs' = subs /\ wire' = wire
    BY <1>2, ToSetTail DEF Handles
  <1>3. CASE LockHello
    BY <1>3, <1>2 DEF LockHello
  <1>4. CASE LockRequest
    <2>1. <<Nus("lock_ack"), Nus("challenge")>> \in Seq(Notifications)
      BY <1>1
    <2>2. toClient' \in Seq(Notifications)
      BY <1>4, <2>1, NotifyTyped DEF LockRequest
    <2> QED BY <1>4, <1>2, <2>2 DEF LockRequest
  <1>5. CASE LockAck
    BY <1>5, <1>2 DEF LockAck
  <1>6. CASE LockAnswer
    <2>1. <<Nus("lock_ack"), Nus("result")>> \in Seq(Notifications)
      BY <1>1
    <2>2. toClient' \in Seq(Notifications)
      BY <1>6, <2>1, NotifyTyped DEF LockAnswer
    <2>3. UNCHANGED <<link, subs, wire, bolt, seen>> /\ toLock' \in Seq(ClientFrames)
      BY <1>6, <1>2 DEF LockAnswer
    <2>4. session' \in Sessions /\ throwing' \in Positions \cup {"none"} /\ orders' \in Nat
      BY <1>6 DEF LockAnswer
    <2> QED BY <2>2, <2>3, <2>4
  <1>7. CASE Retransmit
    <2>1. <<Nus("challenge")>> \in Seq(Notifications)
      BY <1>1
    <2>2. toClient' \in Seq(Notifications)
      BY <1>7, <2>1, NotifyTyped DEF Retransmit
    <2> QED BY <1>7, <2>2 DEF Retransmit
  <1>8. ASSUME NEW to \in Positions, MoveBolt(to)
        PROVE  /\ bolt' \in Positions /\ seen' \subseteq Positions
               /\ toClient' \in Seq(Notifications)
               /\ UNCHANGED <<link, subs, toLock, session, wire, orders>>
    <2>1. PICK raw \in Reports(to) :
              Notify("state", IF to = bolt THEN <<>> ELSE <<State(raw)>>)
      BY <1>8 DEF MoveBolt
    <2>2. (IF to = bolt THEN <<>> ELSE <<State(raw)>>) \in Seq(Notifications)
      BY FramesTyped
    <2>3. toClient' \in Seq(Notifications)
      BY <2>1, <2>2, NotifyTyped
    <2> QED BY <1>8, <2>3 DEF MoveBolt
  <1>9. CASE Throw
    BY <1>9, <1>8 DEF Throw
  <1>10. CASE Jam
    BY <1>10 DEF Jam
  <1>11. CASE ForeignMove
    <2>1. (IF bolt = "locked" THEN "unlocked" ELSE "locked") \in Positions
      BY DEF Positions
    <2> QED BY <1>11, <2>1, <1>8 DEF ForeignMove
  <1>12. CASE Drop
    BY <1>12 DEF Drop, CutLink
  <1> QED BY <1>3, <1>4, <1>5, <1>6, <1>7, <1>9, <1>10, <1>11, <1>12
          DEF Peripheral, Firmware

(***************************************************************************)
(* What a step of the lock or the link can do to what the invariants speak *)
(* of.                                                                     *)
(***************************************************************************)
LEMMA ToSetSmall ==
    /\ ToSet(<<>>) = {}
    /\ \A a : ToSet(<<a>>) = {a}
    /\ \A a, b : ToSet(<<a, b>>) = {a, b}
  BY DEF ToSet

LEMMA HandlesEffect ==
    ASSUME TypeOK, NEW kind, Handles(kind)
    PROVE  /\ toLock # <<>> /\ Head(toLock) \in ToSet(toLock)
           /\ Head(toLock).kind = kind
           /\ ToSet(toLock') \subseteq ToSet(toLock)
           /\ UNCHANGED <<link, subs, wire>>
  BY ToSetTail DEF TypeOK, LockTypeOK, Handles

LEMMA NotifyEffect ==
    ASSUME TypeOK, NEW char, NEW ns \in Seq(Notifications), Notify(char, ns)
    PROVE  /\ ToSet(toClient') \subseteq ToSet(toClient) \cup ToSet(ns)
           /\ subs = {} => toClient' = toClient
  BY ToSetConcat DEF TypeOK, LockTypeOK, Notify

LEMMA MoveEffect ==
    ASSUME TypeOK, NEW to \in Positions, MoveBolt(to)
    PROVE  /\ bolt' = to /\ seen' = seen \cup {to}
           /\ UNCHANGED <<link, subs, toLock, session, wire, orders>>
           /\ subs = {} => toClient' = toClient
           /\ \A n \in ToSet(toClient') \ ToSet(toClient) :
                 n.kind = "state" /\ n.raw \in Reports(to)
  <1>1. PICK raw \in Reports(to) :
            Notify("state", IF to = bolt THEN <<>> ELSE <<State(raw)>>)
    BY DEF MoveBolt
  <1>2. CASE to = bolt
    <2>1. Notify("state", <<>>) /\ <<>> \in Seq(Notifications)
      BY <1>1, <1>2
    <2> QED BY <2>1, NotifyEffect, ToSetSmall DEF MoveBolt
  <1>3. CASE to # bolt
    <2>1. Notify("state", <<State(raw)>>) /\ <<State(raw)>> \in Seq(Notifications)
      BY <1>1, <1>3, FramesTyped
    <2>2. State(raw).kind = "state" /\ State(raw).raw = raw
      BY DEF State
    <2>3. ToSet(toClient') \subseteq ToSet(toClient) \cup {State(raw)}
      BY <2>1, NotifyEffect, ToSetSmall
    <2>4. subs = {} => toClient' = toClient
      BY <2>1, NotifyEffect
    <2> QED BY <2>2, <2>3, <2>4 DEF MoveBolt
  <1> QED BY <1>2, <1>3

\* A notification is never news unless the lock just did what it reports.
IsNews(n) ==
    /\ n.kind = "challenge" => session' \notin {"new", "primed"}
    /\ n.kind = "result" => orders' >= 1
    /\ n.kind = "state" => n.raw \in Reports(bolt')

PeripheralKeeps ==
    /\ ToSet(toLock') \subseteq ToSet(toLock)
    /\ UNCHANGED <<link, wire>> \/ (link = "up" /\ CutLink)
    /\ \/ session' \in {"new", "primed"} \/ session \notin {"new", "primed"}
       \/ \E f \in ToSet(toLock) : f.kind = "request"
    /\ \A n \in ToSet(toClient') \ ToSet(toClient) : IsNews(n)
    /\ UNCHANGED <<bolt, seen>> \/ (seen' = seen \cup {bolt'})
    /\ orders' >= orders

LEMMA PeripheralEffect ==
    ASSUME TypeOK, DownIsEmpty, Peripheral
    PROVE  PeripheralKeeps /\ DownIsEmpty'
  <1> USE DEF PeripheralKeeps, IsNews, boltVars, linkVars
  <1>0. /\ Nus("lock_ack") \in Notifications /\ Nus("lock_ack").kind = "lock_ack"
        /\ Nus("challenge") \in Notifications /\ Nus("challenge").kind = "challenge"
        /\ Nus("result") \in Notifications /\ Nus("result").kind = "result"
        /\ orders \in Nat
    BY FramesTyped DEF NusKinds, Nus, TypeOK, LockTypeOK
  <1>1. CASE LockHello
    <2>1. /\ toLock # <<>> /\ ToSet(toLock') \subseteq ToSet(toLock)
          /\ UNCHANGED <<link, subs, wire>>
      BY <1>1, HandlesEffect DEF LockHello
    <2>2. session' \in {"primed", session} /\ UNCHANGED <<toClient, bolt, seen, orders>>
      BY <1>1 DEF LockHello
    <2>3. DownIsEmpty'
      BY <2>1 DEF DownIsEmpty
    <2>4. orders' >= orders
      BY <1>0, <2>2
    <2>5. \A n \in ToSet(toClient') \ ToSet(toClient) : IsNews(n)
      BY <2>2
    <2> QED BY <2>1, <2>2, <2>3, <2>4, <2>5
  <1>2. CASE LockRequest
    <2>1. /\ <<Nus("lock_ack"), Nus("challenge")>> \in Seq(Notifications)
          /\ ToSet(<<Nus("lock_ack"), Nus("challenge")>>)
                = {Nus("lock_ack"), Nus("challenge")}
      BY <1>0, ToSetSmall
    <2>2. ToSet(toClient') \subseteq ToSet(toClient) \cup {Nus("lock_ack"), Nus("challenge")}
      BY <1>2, <2>1, NotifyEffect DEF LockRequest
    <2>3. /\ toLock # <<>> /\ Head(toLock) \in ToSet(toLock)
          /\ Head(toLock).kind = "request"
          /\ ToSet(toLock') \subseteq ToSet(toLock)
          /\ UNCHANGED <<link, subs, wire>>
      BY <1>2, HandlesEffect DEF LockRequest
    <2>4. session' = "challenged" /\ UNCHANGED <<bolt, orders, seen>>
      BY <1>2 DEF LockRequest
    <2>5. DownIsEmpty'
      BY <2>3 DEF DownIsEmpty
    <2> QED BY <1>0, <2>2, <2>3, <2>4, <2>5
  <1>3. CASE LockAck
    BY <1>0, <1>3, HandlesEffect DEF LockAck, DownIsEmpty
  <1>4. CASE LockAnswer
    <2>1. /\ <<Nus("lock_ack"), Nus("result")>> \in Seq(Notifications)
          /\ ToSet(<<Nus("lock_ack"), Nus("result")>>) = {Nus("lock_ack"), Nus("result")}
      BY <1>0, ToSetSmall
    <2>2. /\ toLock # <<>> /\ ToSet(toLock') \subseteq ToSet(toLock)
          /\ UNCHANGED <<link, subs, wire>>
      BY <1>4, HandlesEffect DEF LockAnswer
    <2>3. session \notin {"new", "primed"} /\ UNCHANGED <<bolt, seen>>
      BY <1>4 DEF LockAnswer
    <2>4. DownIsEmpty'
      BY <2>2 DEF DownIsEmpty
    <2>5. CASE Head(toLock).magic \in Positions
      <3>1. orders' = orders + 1
        BY <1>4, <2>5 DEF LockAnswer
      <3>2. ToSet(toClient') \subseteq ToSet(toClient) \cup {Nus("lock_ack"), Nus("result")}
        BY <1>4, <2>1, <2>5, NotifyEffect DEF LockAnswer
      <3> QED BY <1>0, <2>2, <2>3, <2>4, <3>1, <3>2
    <2>6. CASE Head(toLock).magic \notin Positions
      <3>1. UNCHANGED <<orders, toClient>>
        BY <1>4, <2>6 DEF LockAnswer
      <3> QED BY <1>0, <2>2, <2>3, <2>4, <3>1
    <2> QED BY <2>5, <2>6
  <1>5. CASE Retransmit
    <2>1. /\ <<Nus("challenge")>> \in Seq(Notifications)
          /\ ToSet(<<Nus("challenge")>>) = {Nus("challenge")}
      BY <1>0, ToSetSmall
    <2>2. ToSet(toClient') \subseteq ToSet(toClient) \cup {Nus("challenge")}
      BY <1>5, <2>1, NotifyEffect DEF Retransmit
    <2> QED BY <1>0, <1>5, <2>2 DEF Retransmit, DownIsEmpty
  <1>6. CASE Throw
    <2>1. throwing \in Positions /\ MoveBolt(throwing)
      BY <1>6 DEF Throw, TypeOK, LockTypeOK
    <2> QED BY <1>0, <2>1, MoveEffect DEF DownIsEmpty
  <1>7. CASE Jam
    BY <1>0, <1>7 DEF Jam, DownIsEmpty
  <1>8. CASE ForeignMove
    <2>1. /\ (IF bolt = "locked" THEN "unlocked" ELSE "locked") \in Positions
          /\ MoveBolt(IF bolt = "locked" THEN "unlocked" ELSE "locked")
      BY <1>8 DEF ForeignMove, Positions
    <2> QED BY <1>0, <2>1, MoveEffect DEF DownIsEmpty
  <1>9. CASE Drop
    BY <1>0, <1>9, ToSetSmall DEF Drop, CutLink, DownIsEmpty
  <1> QED BY <1>1, <1>2, <1>3, <1>4, <1>5, <1>6, <1>7, <1>8, <1>9
          DEF Peripheral, Firmware

LEMMA CoroutineTyped ==
    ASSUME TypeOK, Coroutine
    PROVE  TypeOK' /\ awaiting' \in HandshakeAwaits \cup {"disconnect"}
  <1> USE DEF TypeOK, LockTypeOK, ClientTypeOK, lockVars, boltVars, linkVars,
              localVars, argVars, Await, Leave, Results, HandshakeAwaits, GattAwaits
  <1>1. ASSUME NEW frame \in ClientFrames, Write(frame)
        PROVE  /\ toLock' \in Seq(ClientFrames) /\ wire' \in Seq(ClientKinds)
               /\ UNCHANGED <<link, subs, toClient, session>>
    <2>1. frame.kind \in ClientKinds
      BY DEF ClientFrames
    <2> QED BY <1>1, <2>1, ToSetAppend DEF Write
  <1>2. CASE StartNotifyState
    BY <1>2 DEF StartNotifyState, Subscribe
  <1>3. CASE StartNotifyNus
    BY <1>3 DEF StartNotifyNus, Subscribe
  <1>4. CASE WriteHello
    BY <1>4, <1>1, FramesTyped DEF WriteHello
  <1>5. CASE PrimeSlept
    BY <1>5 DEF PrimeSlept
  <1>6. CASE WriteRequest
    BY <1>6, <1>1, FramesTyped DEF WriteRequest
  <1>7. CASE ResultArrives
    BY <1>7 DEF ResultArrives
  <1>8. CASE ResultTimeout
    BY <1>8 DEF ResultTimeout
  <1>9. CASE StateArrives
    BY <1>9 DEF StateArrives
  <1>10. CASE StateTimeout
    BY <1>10 DEF StateTimeout
  <1>11. CASE ReadFallback
    BY <1>11, FramesTyped DEF ReadFallback, ReadResult
  <1>12. CASE GattError
    BY <1>12 DEF GattError
  <1> QED BY <1>2, <1>3, <1>4, <1>5, <1>6, <1>7, <1>8, <1>9, <1>10, <1>11, <1>12
          DEF Coroutine

LEMMA CallbackTyped ==
    ASSUME TypeOK, Callback PROVE TypeOK'
  <1> USE DEF TypeOK, LockTypeOK, ClientTypeOK, boltVars, localVars, argVars
  <1>1. ASSUME NEW kinds, Notified(kinds)
        PROVE  /\ LockTypeOK'
               /\ UNCHANGED <<target, token, result>>
    BY <1>1, ToSetTail DEF Notified
  <1>2. CASE OnChallenge
    <2>1. tasks' \in Seq({"ack", "answer"})
      <3>1. tasks \o <<"ack", "answer">> \in Seq({"ack", "answer"})
        OBVIOUS
      <3> QED BY <1>2, <3>1 DEF OnChallenge
    <2> QED BY <1>2, <1>1, <2>1 DEF OnChallenge
  <1>3. CASE OnResult
    BY <1>3, <1>1 DEF OnResult
  <1>4. CASE OnIgnored
    BY <1>4, <1>1 DEF OnIgnored
  <1>5. CASE OnState
    BY <1>5, <1>1, FramesTyped DEF OnState
  <1> QED BY <1>2, <1>3, <1>4, <1>5 DEF Callback

LEMMA SendTaskTyped ==
    ASSUME TypeOK, RunSendTask PROVE TypeOK'
  <1> USE DEF TypeOK, LockTypeOK, ClientTypeOK, boltVars, linkVars, argVars
  <1>1. tasks' \in Seq({"ack", "answer"})
    BY ToSetTail DEF RunSendTask
  <1>2. TaskFrame(Head(tasks)) \in ClientFrames
    BY FramesTyped DEF TaskFrame
  <1>3. CASE Write(TaskFrame(Head(tasks)))
    <2>1. TaskFrame(Head(tasks)).kind \in ClientKinds
      BY <1>2 DEF ClientFrames
    <2>2. toLock' \in Seq(ClientFrames) /\ wire' \in Seq(ClientKinds)
      BY <1>2, <1>3, <2>1, ToSetAppend DEF Write
    <2> QED BY <1>1, <1>3, <2>2 DEF RunSendTask, Write
  <1>4. CASE UNCHANGED linkVars
    BY <1>1, <1>4 DEF RunSendTask
  <1> QED BY <1>3, <1>4 DEF RunSendTask

LEMMA EnvironmentTyped ==
    ASSUME TypeOK, Environment PROVE TypeOK'
  BY PeripheralTyped DEF TypeOK, ClientTypeOK, Environment, localVars, argVars

-------------------------------------------------------------------------------
(***************************************************************************)
(* The invariants under a step of the lock or the link.                    *)
(***************************************************************************)
Untouched == UNCHANGED <<awaiting, localVars, argVars, result>>

LEMMA PeripheralWire ==
    ASSUME TypeOK, DownIsEmpty, WireHistory, Peripheral, Untouched
    PROVE  WireHistory'
  <1>1. PeripheralKeeps
    BY PeripheralEffect
  <1>2. UNCHANGED <<awaiting, answered, tasks>>
    BY DEF Untouched, localVars
  <1>3. CASE CutLink
    BY <1>2, <1>3 DEF CutLink, WireHistory
  <1>4. CASE UNCHANGED <<link, wire>>
    <2>1. RequestWritten' = RequestWritten
      BY <1>4 DEF RequestWritten
    <2>2. ASSUME link = "up", session' \notin {"new", "primed"} PROVE RequestWritten
      BY <1>1, <2>2 DEF PeripheralKeeps, WireHistory
    <2>3. ASSUME link = "up", NEW n \in ToSet(toClient'), n.kind = "challenge"
          PROVE  RequestWritten
      BY <1>1, <2>2, <2>3 DEF PeripheralKeeps, IsNews, WireHistory
    <2>4. ASSUME link = "up", NEW f \in ToSet(toLock'), f.kind = "request"
          PROVE  RequestWritten
      BY <1>1, <2>4 DEF PeripheralKeeps, WireHistory
    <2> HIDE DEF RequestWritten
    <2> QED BY <1>2, <1>4, <2>1, <2>2, <2>3, <2>4 DEF WireHistory
  <1> QED BY <1>1, <1>3, <1>4 DEF PeripheralKeeps

LEMMA PeripheralEvidence ==
    ASSUME TypeOK, DownIsEmpty, ResultEvidence, Peripheral, Untouched
    PROVE  ResultEvidence'
  <1>1. PeripheralKeeps
    BY PeripheralEffect
  <1>2. UNCHANGED <<awaiting, gotResult>>
    BY DEF Untouched, localVars
  <1>3. orders \in Nat /\ orders' \in Nat
    BY PeripheralTyped DEF TypeOK, LockTypeOK
  <1>4. ASSUME orders >= 1 PROVE orders' >= 1
    BY <1>1, <1>3, <1>4 DEF PeripheralKeeps
  <1>5. ASSUME NEW n \in ToSet(toClient'), n.kind = "result" PROVE orders' >= 1
    BY <1>1, <1>4, <1>5 DEF PeripheralKeeps, IsNews, ResultEvidence
  <1> QED BY <1>2, <1>4, <1>5 DEF ResultEvidence

LEMMA DecodedReport ==
    ASSUME NEW b \in Positions, NEW raw \in Reports(b), raw # Malformed
    PROVE  DecodeState(raw) = b
  BY DEF Reports, StatusByte, DecodeState, Positions, STATE_LOCKED,
         STATE_UNLOCKED, Malformed

LEMMA PeripheralState ==
    ASSUME TypeOK, DownIsEmpty, StateEvidence, Peripheral, Untouched
    PROVE  StateEvidence' /\ seen \subseteq seen'
  <1>1. PeripheralKeeps
    BY PeripheralEffect
  <1>2. UNCHANGED <<newState, gotState>>
    BY DEF Untouched, localVars
  <1>3. seen \subseteq seen' /\ bolt' \in seen'
    BY <1>1 DEF PeripheralKeeps, StateEvidence
  <1>4. ASSUME NEW n \in ToSet(toClient'), n.kind = "state", n.raw # Malformed
        PROVE  DecodeState(n.raw) \in seen'
    <2>1. CASE n \in ToSet(toClient)
      BY <1>3, <1>4, <2>1 DEF StateEvidence
    <2>2. CASE n \notin ToSet(toClient)
      <3>1. n.raw \in Reports(bolt') /\ bolt' \in Positions
        BY <1>1, <1>4, <2>2, PeripheralTyped DEF PeripheralKeeps, IsNews, LockTypeOK
      <3> QED BY <1>3, <1>4, <3>1, DecodedReport
    <2> QED BY <2>1, <2>2
  <1> QED BY <1>2, <1>3, <1>4 DEF StateEvidence

-------------------------------------------------------------------------------
(***************************************************************************)
(* The invariants under a step of the coroutine.                           *)
(***************************************************************************)
LEMMA WriteEffect ==
    ASSUME TypeOK, NEW frame \in ClientFrames, Write(frame)
    PROVE  /\ link = "up" /\ ToSet(toLock') = ToSet(toLock) \cup {frame}
           /\ wire' = Append(wire, frame.kind)
           /\ UNCHANGED <<link, subs, toClient, session>>
  BY ToSetAppend DEF TypeOK, LockTypeOK, Write

LEMMA CoroutineDown ==
    ASSUME TypeOK, DownIsEmpty, EndsAreMarked, StateEvidence, Coroutine
    PROVE  DownIsEmpty' /\ EndsAreMarked' /\ UNCHANGED <<localVars, argVars, boltVars>>
  <1> USE DEF DownIsEmpty, EndsAreMarked, lockVars, linkVars, boltVars, Await, Leave
  <1>0. gotState => newState # "none"
    BY DEF StateEvidence
  <1>1. CASE StartNotifyState
    BY <1>1 DEF StartNotifyState, Subscribe
  <1>2. CASE StartNotifyNus
    BY <1>2 DEF StartNotifyNus, Subscribe
  <1>3. CASE WriteHello
    BY <1>3 DEF WriteHello, Write
  <1>4. CASE PrimeSlept
    BY <1>4 DEF PrimeSlept
  <1>5. CASE WriteRequest
    BY <1>5 DEF WriteRequest, Write
  <1>6. CASE ResultArrives
    BY <1>0, <1>6 DEF ResultArrives
  <1>7. CASE ResultTimeout
    BY <1>7 DEF ResultTimeout
  <1>8. CASE StateArrives
    BY <1>0, <1>8 DEF StateArrives
  <1>9. CASE StateTimeout
    BY <1>9 DEF StateTimeout
  <1>10. CASE ReadFallback
    BY <1>10 DEF ReadFallback, ReadResult, DecodeState
  <1>11. CASE GattError
    BY <1>11 DEF GattError, GattAwaits
  <1> QED BY <1>1, <1>2, <1>3, <1>4, <1>5, <1>6, <1>7, <1>8, <1>9, <1>10, <1>11
          DEF Coroutine
LEMMA CoroutineWire ==
    ASSUME TypeOK, DownIsEmpty, WireHistory, Coroutine
    PROVE  WireHistory'
  <1> USE DEF lockVars, linkVars, boltVars, localVars, Await, Leave
  <1>1. ASSUME UNCHANGED <<link, toLock, toClient, session, wire, answered, tasks>>,
               \/ awaiting' \notin {"start_notify_state", "start_notify_nus",
                                    "write_hello", "sleep_prime", "write_request"}
               \/ /\ awaiting \in {"start_notify_state", "start_notify_nus"}
                  /\ awaiting' \in {"start_notify_nus", "write_hello"}
               \/ awaiting = "sleep_prime" /\ awaiting' = "write_request"
        PROVE  WireHistory'
    BY <1>1 DEF WireHistory, RequestWritten
  <1>2. CASE StartNotifyState
    BY <1>1, <1>2 DEF StartNotifyState, Subscribe
  <1>3. CASE StartNotifyNus
    BY <1>1, <1>3 DEF StartNotifyNus, Subscribe
  <1>4. CASE WriteHello
    <2>1. Hello \in ClientFrames /\ Hello.kind = "hello"
      BY FramesTyped DEF Hello, Command
    <2>2. link = "up" /\ wire = <<>>
      BY <1>4 DEF WriteHello, Write, WireHistory
    <2>3. ~answered /\ tasks = <<>> /\ session \in {"new", "primed"}
      BY <2>2 DEF WireHistory, RequestWritten
    <2>4. wire' = <<"hello">> /\ ToSet(toLock') = ToSet(toLock) \cup {Hello}
      BY <1>4, <2>1, <2>2, WriteEffect DEF WriteHello
    <2>5. UNCHANGED <<link, toClient, session, answered, tasks>> /\ awaiting' = "sleep_prime"
      BY <1>4 DEF WriteHello, Write
    <2>6. \A f \in ToSet(toLock') : f.kind # "request"
      BY <2>1, <2>2, <2>4 DEF WireHistory, RequestWritten
    <2>7. \A n \in ToSet(toClient') : n.kind # "challenge"
      BY <2>2, <2>5 DEF WireHistory, RequestWritten
    <2> QED BY <2>2, <2>3, <2>4, <2>5, <2>6, <2>7 DEF WireHistory
  <1>5. CASE PrimeSlept
    BY <1>1, <1>5 DEF PrimeSlept
  <1>6. CASE WriteRequest
    <2>1. Request \in ClientFrames /\ Request.kind = "request"
      BY FramesTyped DEF Request, Command
    <2>2. link = "up" /\ wire = <<"hello">>
      BY <1>6 DEF WriteRequest, Write, WireHistory
    <2>3. ~answered /\ tasks = <<>>
      BY <2>2 DEF WireHistory, RequestWritten
    <2>4. wire' = <<"hello", "request">>
      BY <1>6, <2>1, <2>2, WriteEffect DEF WriteRequest
    <2>5. UNCHANGED <<link, answered, tasks>> /\ awaiting' = "wait_result"
      BY <1>6 DEF WriteRequest, Write
    <2>6. RequestWritten'
      BY <2>4 DEF RequestWritten
    <2> QED BY <2>2, <2>3, <2>4, <2>5, <2>6 DEF WireHistory
  <1>7. CASE ResultArrives
    BY <1>1, <1>7 DEF ResultArrives
  <1>8. CASE ResultTimeout
    BY <1>1, <1>8 DEF ResultTimeout
  <1>9. CASE StateArrives
    BY <1>1, <1>9 DEF StateArrives
  <1>10. CASE StateTimeout
    BY <1>1, <1>10 DEF StateTimeout
  <1>11. CASE ReadFallback
    BY <1>1, <1>11 DEF ReadFallback
  <1>12. CASE GattError
    BY <1>1, <1>12 DEF GattError
  <1> QED BY <1>2, <1>3, <1>4, <1>5, <1>6, <1>7, <1>8, <1>9, <1>10, <1>11, <1>12
          DEF Coroutine

\* The evidence rests on variables the coroutine only reads; what it returns
\* is what it read there.
LEMMA CoroutineEvidence ==
    ASSUME TypeOK, DownIsEmpty, EndsAreMarked, ResultEvidence, StateEvidence, Coroutine
    PROVE  /\ ResultEvidence' /\ StateEvidence'
           /\ result' \in Positions => orders >= 1 /\ result' \in seen
  <1>1. UNCHANGED <<gotResult, gotState, newState, orders, bolt, seen>>
    BY CoroutineDown DEF localVars, boltVars
  <1>2. awaiting # "disconnect"
    BY DEF Coroutine, StartNotifyState, StartNotifyNus, WriteHello, PrimeSlept,
           WriteRequest, ResultArrives, ResultTimeout, StateArrives,
           StateTimeout, ReadFallback, GattError, GattAwaits
  <1>3. result = "none"
    BY <1>2 DEF EndsAreMarked, TypeOK
  <1>4. toClient' = toClient
    BY DEF Coroutine, StartNotifyState, StartNotifyNus, WriteHello, PrimeSlept,
           WriteRequest, ResultArrives, ResultTimeout, StateArrives,
           StateTimeout, ReadFallback, GattError, Write, Subscribe, lockVars, linkVars
  <1>5. awaiting' \in {"wait_state", "read_fallback"} => orders >= 1
    BY DEF ResultEvidence, Await, Leave, Coroutine, StartNotifyState,
           StartNotifyNus, WriteHello, PrimeSlept, WriteRequest, ResultArrives,
           ResultTimeout, StateArrives, StateTimeout, ReadFallback, GattError
  <1>6. result' \in Positions => orders >= 1 /\ result' \in seen
    <2>1. CASE ResultArrives
      BY <1>3, <2>1 DEF ResultArrives, Await, Leave, ResultEvidence,
                        StateEvidence, Positions
    <2>2. CASE StateArrives
      BY <2>2 DEF StateArrives, Leave, ResultEvidence, StateEvidence
    <2>3. CASE StateTimeout
      BY <1>3, <2>3 DEF StateTimeout, Await, Leave, ResultEvidence,
                        StateEvidence, Positions
    <2>4. CASE ReadFallback
      <3>1. PICK raw \in Reports(bolt) : Leave(ReadResult(raw))
        BY <2>4 DEF ReadFallback
      <3>2. CASE raw = Malformed
        BY <3>1, <3>2 DEF Leave, ReadResult, Positions
      <3>3. CASE raw # Malformed
        <4>1. bolt \in Positions
          BY DEF TypeOK, LockTypeOK
        <4>2. result' = bolt
          BY <3>1, <3>3, <4>1, DecodedReport DEF Leave, ReadResult
        <4> QED BY <2>4, <4>2 DEF ReadFallback, ResultEvidence, StateEvidence
      <3> QED BY <3>2, <3>3
    <2>5. CASE ResultTimeout \/ GattError
      BY <2>5 DEF ResultTimeout, GattError, Leave, Positions
    <2>6. CASE \/ StartNotifyState \/ StartNotifyNus \/ WriteHello
               \/ PrimeSlept \/ WriteRequest
      BY <1>3, <2>6 DEF StartNotifyState, StartNotifyNus, WriteHello, PrimeSlept,
                        WriteRequest, Await, Positions
    <2> QED BY <2>1, <2>2, <2>3, <2>4, <2>5, <2>6 DEF Coroutine
  <1> QED BY <1>1, <1>4, <1>5, <1>6 DEF ResultEvidence, StateEvidence

-------------------------------------------------------------------------------
(***************************************************************************)
(* The invariants under a callback and under a send task.                  *)
(***************************************************************************)
LEMMA NotifiedEffect ==
    ASSUME TypeOK, DownIsEmpty, NEW kinds, Notified(kinds)
    PROVE  /\ link = "up" /\ Head(toClient) \in ToSet(toClient)
           /\ Head(toClient).kind \in kinds
           /\ ToSet(toClient') \subseteq ToSet(toClient)
           /\ UNCHANGED <<link, subs, toLock, session, wire, boltVars, awaiting, argVars, result>>
           /\ DownIsEmpty'
  <1>1. link = "up"
    BY DEF Notified, DownIsEmpty, TypeOK, LockTypeOK
  <1>2. Head(toClient) \in ToSet(toClient) /\ ToSet(toClient') \subseteq ToSet(toClient)
    BY ToSetTail DEF Notified, TypeOK, LockTypeOK
  <1> QED BY <1>1, <1>2 DEF Notified, DownIsEmpty, boltVars, argVars

LEMMA CallbackKeeps ==
    ASSUME TypeOK, DownIsEmpty, EndsAreMarked, WireHistory, ResultEvidence,
           StateEvidence, Callback
    PROVE  /\ DownIsEmpty' /\ EndsAreMarked' /\ WireHistory'
           /\ ResultEvidence' /\ StateEvidence'
           /\ UNCHANGED <<awaiting, argVars, boltVars, result, link>>
  <1> USE DEF boltVars, argVars, localVars
  <1>1. PICK kinds : Notified(kinds)
    BY DEF Callback, OnChallenge, OnResult, OnIgnored, OnState
  <1>2. /\ link = "up" /\ Head(toClient) \in ToSet(toClient)
        /\ ToSet(toClient') \subseteq ToSet(toClient)
        /\ UNCHANGED <<link, subs, toLock, session, wire, boltVars, awaiting, argVars, result>>
        /\ DownIsEmpty'
    BY <1>1, NotifiedEffect
  <1>3. EndsAreMarked'
    BY <1>2 DEF EndsAreMarked
  <1>4. CASE OnChallenge
    <2>1. Head(toClient).kind = "challenge" /\ ~answered
      BY <1>4 DEF OnChallenge, Notified, MayAnswer
    <2>2. wire = <<"hello", "request">> /\ tasks = <<>>
      BY <1>2, <2>1 DEF WireHistory, RequestWritten
    <2>3. tasks' \in {<<>>, <<"ack", "answer">>} /\ answered'
      BY <1>4, <2>2 DEF OnChallenge
    <2>4. UNCHANGED <<gotResult, gotState, newState>>
      BY <1>4 DEF OnChallenge
    <2>5. WireHistory'
      BY <1>2, <2>2, <2>3 DEF WireHistory, RequestWritten
    <2> QED BY <1>2, <1>3, <2>4, <2>5 DEF ResultEvidence, StateEvidence
  <1>5. CASE OnResult
    <2>1. Head(toClient).kind = "result" /\ UNCHANGED <<answered, gotState, newState, tasks>>
      BY <1>5 DEF OnResult, ResultKinds, Notified
    <2>2. orders >= 1
      BY <1>2, <2>1 DEF ResultEvidence
    <2>3. WireHistory'
      BY <1>2, <2>1 DEF WireHistory, RequestWritten
    <2>4. ResultEvidence' /\ StateEvidence'
      BY <1>2, <2>1, <2>2 DEF ResultEvidence, StateEvidence
    <2> QED BY <1>2, <1>3, <2>3, <2>4
  <1>6. CASE OnIgnored
    <2>1. UNCHANGED localVars
      BY <1>6 DEF OnIgnored
    <2> QED BY <1>2, <1>3, <2>1
            DEF WireHistory, RequestWritten, ResultEvidence, StateEvidence
  <1>7. CASE OnState
    <2>1. /\ Head(toClient).kind = "state" /\ UNCHANGED <<answered, gotResult, tasks>>
          /\ \/ UNCHANGED <<newState, gotState>>
             \/ /\ Head(toClient).raw # Malformed
                /\ newState' = DecodeState(Head(toClient).raw)
      BY <1>7 DEF OnState, Notified
    <2>2. newState' \in seen \cup {"none"} /\ (gotState' => newState' # "none")
      BY <1>2, <2>1 DEF StateEvidence, DecodeState
    <2>3. WireHistory'
      BY <1>2, <2>1 DEF WireHistory, RequestWritten
    <2>4. ResultEvidence' /\ StateEvidence'
      BY <1>2, <2>1, <2>2 DEF ResultEvidence, StateEvidence
    <2> QED BY <1>2, <1>3, <2>3, <2>4
  <1> QED BY <1>4, <1>5, <1>6, <1>7 DEF Callback

LEMMA AppendToTwo ==
    ASSUME NEW a, NEW b, NEW c
    PROVE  Append(<<a, b>>, c) = <<a, b, c>>
  <1> DEFINE t == Append(<<a, b>>, c)
  <1>1. t \in Seq({a, b, c}) /\ Len(t) = 3
    OBVIOUS
  <1>2. t[1] = a /\ t[2] = b /\ t[3] = c
    OBVIOUS
  <1>3. \A s \in Seq({a, b, c}) :
            Len(s) = 3 /\ s[1] = a /\ s[2] = b /\ s[3] = c => s = <<a, b, c>>
    OBVIOUS
  <1> QED BY <1>1, <1>2, <1>3

LEMMA AppendToThree ==
    ASSUME NEW a, NEW b, NEW c, NEW d
    PROVE  Append(<<a, b, c>>, d) = <<a, b, c, d>>
  <1> DEFINE t == Append(<<a, b, c>>, d)
  <1>1. t \in Seq({a, b, c, d}) /\ Len(t) = 4
    OBVIOUS
  <1>2. t[1] = a /\ t[2] = b /\ t[3] = c /\ t[4] = d
    OBVIOUS
  <1>3. \A s \in Seq({a, b, c, d}) :
            Len(s) = 4 /\ s[1] = a /\ s[2] = b /\ s[3] = c /\ s[4] = d
                => s = <<a, b, c, d>>
    OBVIOUS
  <1> QED BY <1>1, <1>2, <1>3
LEMMA ExplicitQueues ==
    /\ Head(<<"ack", "answer">>) = "ack" /\ Tail(<<"ack", "answer">>) = <<"answer">>
    /\ Head(<<"answer">>) = "answer" /\ Tail(<<"answer">>) = <<>>
  OBVIOUS

LEMMA SendTaskKeeps ==
    ASSUME TypeOK, DownIsEmpty, EndsAreMarked, WireHistory, ResultEvidence,
           StateEvidence, RunSendTask
    PROVE  /\ DownIsEmpty' /\ EndsAreMarked' /\ WireHistory'
           /\ ResultEvidence' /\ StateEvidence'
           /\ UNCHANGED <<awaiting, argVars, boltVars, result, link>>
  <1> USE DEF boltVars, argVars, linkVars
  <1>1. /\ UNCHANGED <<boltVars, awaiting, argVars, result>>
        /\ UNCHANGED <<answered, gotResult, gotState, newState>>
        /\ UNCHANGED <<link, subs, toClient, session>>
    BY DEF RunSendTask, Write
  <1>2. EndsAreMarked' /\ ResultEvidence' /\ StateEvidence'
    BY <1>1 DEF EndsAreMarked, ResultEvidence, StateEvidence
  <1>3. answered
    BY DEF RunSendTask, WireHistory
  <1>4. \/ tasks = <<"ack", "answer">> /\ tasks' = <<"answer">>
        \/ tasks = <<"answer">> /\ tasks' = <<>>
    <2>1. tasks # <<>> /\ tasks' = Tail(tasks)
      BY DEF RunSendTask
    <2>2. tasks \in {<<"ack", "answer">>, <<"answer">>}
      BY <2>1 DEF WireHistory
    <2>3. Tail(<<"ack", "answer">>) = <<"answer">> /\ Tail(<<"answer">>) = <<>>
      BY ExplicitQueues
    <2> QED BY <2>1, <2>2, <2>3
  <1>5. TaskFrame(Head(tasks)) \in ClientFrames
        /\ TaskFrame(Head(tasks)).kind = Head(tasks)
    BY <1>4, FramesTyped DEF TaskFrame, Ack, Answer, Command, TypeOK, ClientTypeOK
  <1>6. CASE Write(TaskFrame(Head(tasks)))
    <2>1. link = "up" /\ wire' = Append(wire, Head(tasks))
      BY <1>5, <1>6, WriteEffect
    <2>2. RequestWritten
      BY <1>3, <2>1 DEF WireHistory
    <2>3. CASE tasks = <<"ack", "answer">>
      <3>1. wire = <<"hello", "request">>
        BY <2>1, <2>3 DEF WireHistory
      <3>2. wire' = <<"hello", "request", "ack">>
        BY <2>1, <2>3, <3>1, ExplicitQueues, AppendToTwo
      <3>3. RequestWritten' /\ tasks' = <<"answer">> /\ tasks' # <<"ack", "answer">>
        BY <1>4, <2>3, <3>2 DEF RequestWritten
      <3>4. awaiting \notin {"start_notify_state", "start_notify_nus", "write_hello",
                             "sleep_prime", "write_request"}
        BY <2>1, <3>1 DEF WireHistory
      <3>5. WireHistory'
        BY <1>1, <1>3, <2>1, <3>2, <3>3, <3>4 DEF WireHistory
      <3> QED BY <1>1, <1>2, <2>1, <3>5 DEF DownIsEmpty
    <2>4. CASE tasks = <<"answer">>
      <3>1. wire \in {<<"hello", "request">>, <<"hello", "request", "ack">>}
        BY <2>1, <2>4 DEF WireHistory
      <3>2. wire' \in {<<"hello", "request", "answer">>,
                       <<"hello", "request", "ack", "answer">>}
        <4>1. CASE wire = <<"hello", "request">>
          BY <2>1, <2>4, <4>1, ExplicitQueues, AppendToTwo
        <4>2. CASE wire = <<"hello", "request", "ack">>
          BY <2>1, <2>4, <4>2, ExplicitQueues, AppendToThree
        <4> QED BY <3>1, <4>1, <4>2
      <3> QED BY <1>1, <1>2, <1>3, <1>4, <2>1, <2>2, <2>4, <3>1, <3>2
              DEF WireHistory, RequestWritten, DownIsEmpty
    <2> QED BY <1>4, <2>3, <2>4
  <1>7. CASE UNCHANGED linkVars
    BY <1>1, <1>2, <1>3, <1>4, <1>7 DEF WireHistory, RequestWritten, DownIsEmpty
  <1> QED BY <1>6, <1>7 DEF RunSendTask

LEMMA HandshakeInitTyped == HandshakeInit => HandshakeTypeOK
  <1> SUFFICES ASSUME HandshakeInit PROVE HandshakeTypeOK
    OBVIOUS
  <1>1. LockTypeOK
    BY LockInitTyped DEF HandshakeInit
  <1>2. ClientTypeOK
    <2>1. token \in Tokens /\ target \in Positions /\ newState \in Positions \cup {"none"}
      BY TokenAssumption DEF HandshakeInit
    <2>2. answered \in BOOLEAN /\ gotResult \in BOOLEAN /\ gotState \in BOOLEAN
      BY DEF HandshakeInit
    <2>3. tasks \in Seq({"ack", "answer"})
      BY DEF HandshakeInit
    <2> QED BY <2>1, <2>2, <2>3 DEF ClientTypeOK
  <1> QED BY <1>1, <1>2 DEF HandshakeTypeOK, HandshakeInit, HandshakeAwaits, GattAwaits, Results

LEMMA HandshakeTypeStep == HandshakeTypeOK /\ [HandshakeNext]_hvars => HandshakeTypeOK'
  <1> USE DEF HandshakeTypeOK
  <1> SUFFICES ASSUME HandshakeTypeOK, [HandshakeNext]_hvars
               PROVE  HandshakeTypeOK'
    OBVIOUS
  <1>1. TypeOK
    BY DEF TypeOK
  <1>2. CASE Coroutine
    BY <1>1, <1>2, CoroutineTyped DEF TypeOK
  <1>3. CASE Callback
    <2>1. awaiting' = awaiting
      BY <1>3 DEF Callback, OnChallenge, OnResult, OnIgnored, OnState, Notified
    <2> QED BY <1>1, <1>3, <2>1, CallbackTyped DEF TypeOK
  <1>4. CASE RunSendTask
    BY <1>1, <1>4, SendTaskTyped DEF TypeOK, RunSendTask
  <1>5. CASE Environment
    BY <1>1, <1>5, EnvironmentTyped DEF TypeOK, Environment
  <1>6. CASE UNCHANGED hvars
    BY <1>6 DEF hvars, lockVars, linkVars, boltVars, localVars, argVars,
                LockTypeOK, ClientTypeOK
  <1> QED BY <1>2, <1>3, <1>4, <1>5, <1>6 DEF HandshakeNext

\* Every variable of the handshake keeps its type (device.py:162-227).
THEOREM HandshakeTypeCorrect == HandshakeSpec => []HandshakeTypeOK
  BY HandshakeInitTyped, HandshakeTypeStep, PTL DEF HandshakeSpec

(***************************************************************************)
(* The inductive invariant and what follows from it.                       *)
(***************************************************************************)
LEMMA HandshakeInvInit == HandshakeInit => HandshakeInv
  <1> SUFFICES ASSUME HandshakeInit PROVE HandshakeInv
    OBVIOUS
  <1>1. HandshakeTypeOK
    BY HandshakeInitTyped
  <1>2. toLock = <<>> /\ toClient = <<>> /\ wire = <<>> /\ tasks = <<>>
        /\ link = "up" /\ session = "new" /\ awaiting = "start_notify_state"
        /\ ~answered /\ ~gotResult /\ ~gotState /\ newState = "none"
        /\ result = "none" /\ seen = {bolt}
    BY DEF HandshakeInit, LockInit
  <1>3. DownIsEmpty /\ EndsAreMarked
    BY <1>2 DEF DownIsEmpty, EndsAreMarked
  <1>4. WireHistory
    BY <1>2, ToSetSmall DEF WireHistory
  <1>5. ResultEvidence /\ StateEvidence
    BY <1>2, ToSetSmall DEF ResultEvidence, StateEvidence
  <1>6. ReturnNeedsOrder /\ ReturnWasSeen
    BY <1>2 DEF ReturnNeedsOrder, ReturnWasSeen, Positions
  <1> QED BY <1>1, <1>3, <1>4, <1>5, <1>6 DEF HandshakeInv

LEMMA HandshakeInvStep == HandshakeInv /\ [HandshakeNext]_hvars => HandshakeInv'
  <1> SUFFICES ASSUME HandshakeInv, [HandshakeNext]_hvars PROVE HandshakeInv'
    OBVIOUS
  <1>1. /\ TypeOK /\ DownIsEmpty /\ EndsAreMarked /\ WireHistory
        /\ ResultEvidence /\ StateEvidence /\ ReturnNeedsOrder /\ ReturnWasSeen
        /\ HandshakeTypeOK
    BY DEF HandshakeInv, HandshakeTypeOK, TypeOK
  <1>2. HandshakeTypeOK'
    BY <1>1, HandshakeTypeStep
  <1>3. CASE Coroutine
    <2>1. DownIsEmpty' /\ EndsAreMarked' /\ UNCHANGED <<orders, seen>>
      BY <1>1, <1>3, CoroutineDown DEF boltVars
    <2>2. WireHistory'
      BY <1>1, <1>3, CoroutineWire
    <2>3. ResultEvidence' /\ StateEvidence'
          /\ (result' \in Positions => orders >= 1 /\ result' \in seen)
      BY <1>1, <1>3, CoroutineEvidence
    <2> QED BY <1>2, <2>1, <2>2, <2>3 DEF HandshakeInv, ReturnNeedsOrder, ReturnWasSeen
  <1>4. CASE Callback
    BY <1>1, <1>2, <1>4, CallbackKeeps
       DEF HandshakeInv, ReturnNeedsOrder, ReturnWasSeen, boltVars
  <1>5. CASE RunSendTask
    BY <1>1, <1>2, <1>5, SendTaskKeeps
       DEF HandshakeInv, ReturnNeedsOrder, ReturnWasSeen, boltVars
  <1>6. CASE Environment
    <2>1. Peripheral /\ Untouched
      BY <1>6 DEF Environment, Untouched
    <2>2. PeripheralKeeps /\ DownIsEmpty'
      BY <1>1, <2>1, PeripheralEffect
    <2>3. WireHistory' /\ ResultEvidence' /\ StateEvidence' /\ seen \subseteq seen'
      BY <1>1, <2>1, PeripheralWire, PeripheralEvidence, PeripheralState
    <2>4. EndsAreMarked'
      BY <1>1, <2>1 DEF EndsAreMarked, Untouched
    <2>5. ReturnNeedsOrder' /\ ReturnWasSeen'
      <3>1. orders \in Nat /\ orders' \in Nat /\ orders' >= orders /\ result' = result
        BY <1>1, <1>2, <2>1, <2>2
           DEF PeripheralKeeps, Untouched, HandshakeTypeOK, LockTypeOK
      <3> QED BY <1>1, <2>3, <3>1 DEF ReturnNeedsOrder, ReturnWasSeen
    <2> QED BY <1>2, <2>2, <2>3, <2>4, <2>5 DEF HandshakeInv
  <1>7. CASE UNCHANGED hvars
    <2> USE DEF hvars, lockVars, linkVars, boltVars, localVars, argVars
    <2>1. DownIsEmpty' /\ EndsAreMarked' /\ ReturnNeedsOrder' /\ ReturnWasSeen'
      BY <1>1, <1>7 DEF DownIsEmpty, EndsAreMarked, ReturnNeedsOrder, ReturnWasSeen
    <2>2. WireHistory'
      BY <1>1, <1>7 DEF WireHistory, RequestWritten
    <2>3. ResultEvidence' /\ StateEvidence'
      BY <1>1, <1>7 DEF ResultEvidence, StateEvidence
    <2> QED BY <1>2, <2>1, <2>2, <2>3 DEF HandshakeInv
  <1> QED BY <1>3, <1>4, <1>5, <1>6, <1>7 DEF HandshakeNext

LEMMA HandshakeInvariant == HandshakeSpec => []HandshakeInv
  BY HandshakeInvInit, HandshakeInvStep, PTL DEF HandshakeSpec

\* The lock is sent hello, request, ACK and answer in this order and each at
\* most once (device.py:185-190, 205-207).
THEOREM WireIsOrdered == HandshakeSpec => []WireOrder
  <1>1. HandshakeInv => WireOrder
    <2> SUFFICES ASSUME HandshakeInv PROVE WireOrder
      OBVIOUS
    <2>1. wire \in {<<>>, <<"hello">>, <<"hello", "request">>,
                <<"hello", "request", "ack">>, <<"hello", "request", "answer">>,
                <<"hello", "request", "ack", "answer">>}
      BY DEF HandshakeInv, WireHistory
    <2>2. Stage("hello") = 1 /\ Stage("request") = 2 /\ Stage("ack") = 3
          /\ Stage("answer") = 4
      BY DEF Stage
    <2> QED BY <2>1, <2>2 DEF WireOrder
  <1> QED BY <1>1, HandshakeInvariant, PTL

\* A position is returned only after the lock accepted an answer
\* (device.py:191-192, 209-223).
THEOREM ReturnFollowsOrder == HandshakeSpec => []ReturnNeedsOrder
  BY HandshakeInvariant, PTL DEF HandshakeInv

\* A position is returned only if the bolt has been there since the handshake
\* began (device.py:194-199, 221-227).
THEOREM ReturnIsHonest == HandshakeSpec => []ReturnWasSeen
  BY HandshakeInvariant, PTL DEF HandshakeInv
===============================================================================
