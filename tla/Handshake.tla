------------------------------- MODULE Handshake -------------------------------
(***************************************************************************)
(* WyzeLockClassic._handshake: the coroutine, its two notification         *)
(* callbacks and the send tasks they create, interleaved with the lock.    *)
(* An asyncio step runs from one await to the next; `awaiting` is the      *)
(* await at which the coroutine is suspended.  This module's Spec is one   *)
(* handshake on a fresh connection; Device embeds it in the retry loop.    *)
(***************************************************************************)
EXTENDS LockPeripheral, SequencesExt

CONSTANTS AnyToken      \* the credentials the client may hold

ASSUME TokenAssumption == AnyToken \subseteq Tokens

VARIABLES
    awaiting,   \* where the coroutine is suspended
    answered,   \* answered["done"]
    gotResult,  \* the got_result event
    gotState,   \* the got_state event
    newState,   \* new_state["state"], or "none"
    tasks,      \* send tasks created by on_nus and not yet run
    target,     \* the `lock` argument
    token,      \* what self._ble_id and self._ble_token amount to
    result      \* how the coroutine ended, "none" while it runs

localVars == <<answered, gotResult, gotState, newState, tasks>>
argVars   == <<target, token>>
hvars     == <<lockVars, awaiting, localVars, argVars, result>>

GattAwaits == {"start_notify_state", "start_notify_nus", "write_hello",
               "write_request", "read_fallback"}
HandshakeAwaits == GattAwaits \cup {"sleep_prime", "wait_result", "wait_state"}

Results == Positions \cup {"none", "ble_error", "decode_error", "cancelled"}

ClientTypeOK ==
    /\ answered \in BOOLEAN
    /\ gotResult \in BOOLEAN
    /\ gotState \in BOOLEAN
    /\ newState \in Positions \cup {"none"}
    /\ tasks \in Seq({"ack", "answer"})
    /\ target \in Positions
    /\ token \in Tokens

\* A bug: the events outlive the handshake they belong to.
StaleEvents ==
    /\ answered' = FALSE
    /\ newState' = "none"
    /\ tasks' = <<>>
    /\ UNCHANGED <<gotResult, gotState>>
FreshLocals ==
    /\ answered' = FALSE
    /\ gotResult' = FALSE
    /\ gotState' = FALSE
    /\ newState' = "none"
    /\ tasks' = <<>>

-------------------------------------------------------------------------------
(***************************************************************************)
(* How a step of the coroutine ends: in the next await, or by leaving work *)
(* through a value or an exception, after which the link is released.      *)
(***************************************************************************)
Await(place) == awaiting' = place /\ UNCHANGED result
Leave(how)   == awaiting' = "disconnect" /\ result' = how

\* A write without response is done when the stack has taken the frame.
Write(frame) ==
    /\ link = "up"
    /\ toLock' = Append(toLock, frame)
    /\ wire' = Append(wire, frame.kind)
    /\ UNCHANGED <<link, subs, toClient, session>>

Subscribe(char) ==
    /\ link = "up"
    /\ subs' = subs \cup {char}
    /\ UNCHANGED <<link, toLock, toClient, session, wire>>

StartNotifyState ==
    /\ awaiting = "start_notify_state"
    /\ Subscribe("state")
    /\ Await("start_notify_nus")
    /\ UNCHANGED <<boltVars, localVars, argVars>>

StartNotifyNus ==
    /\ awaiting = "start_notify_nus"
    /\ Subscribe("nus")
    /\ Await("write_hello")
    /\ UNCHANGED <<boltVars, localVars, argVars>>

WriteHello ==
    /\ awaiting = "write_hello"
    /\ Write(Hello)
    /\ Await("sleep_prime")
    /\ UNCHANGED <<boltVars, localVars, argVars>>

PrimeSlept ==
    /\ awaiting = "sleep_prime"
    /\ Await("write_request")
    /\ UNCHANGED <<lockVars, localVars, argVars>>

WriteRequest ==
    /\ awaiting = "write_request"
    /\ Write(Request)
    /\ Await("wait_result")
    /\ UNCHANGED <<boltVars, localVars, argVars>>

\* wait_for returns at once if got_state is already set.
ResultArrives ==
    /\ awaiting = "wait_result"
    /\ gotResult
    /\ IF gotState THEN Leave(newState) ELSE Await("wait_state")
    /\ UNCHANGED <<lockVars, localVars, argVars>>

\* A timer of seconds outlives an exchange of milliseconds and a throw of one
\* or two seconds, unless the environment is "slow".  A slow event can even be
\* set and lose the race: wait_for raises although the event is there.
InProgress == toLock # <<>> \/ toClient # <<>> \/ tasks # <<>> \/ throwing # "none"
\* A bug: the waits have no timeout.
NeverExpires(event) == event /\ ~event
MayExpire(event) == "slow" \in Faults \/ (~event /\ ~InProgress)

ResultTimeout ==
    /\ awaiting = "wait_result"
    /\ MayExpire(gotResult)
    /\ Leave("ble_error")
    /\ UNCHANGED <<lockVars, localVars, argVars>>

StateArrives ==
    /\ awaiting = "wait_state"
    /\ gotState
    /\ Leave(newState)
    /\ UNCHANGED <<lockVars, localVars, argVars>>

StateTimeout ==
    /\ awaiting = "wait_state"
    /\ MayExpire(gotState)
    /\ IF newState # "none" THEN Leave(newState) ELSE Await("read_fallback")
    /\ UNCHANGED <<lockVars, localVars, argVars>>

\* A read returns what the lock reports at that moment, or raises ValueError.
ReadResult(raw) == IF raw = Malformed THEN "decode_error" ELSE DecodeState(raw)

ReadFallback ==
    /\ awaiting = "read_fallback"
    /\ link = "up"
    /\ \E raw \in Reports(bolt) : Leave(ReadResult(raw))
    /\ UNCHANGED <<lockVars, localVars, argVars>>

GattFails == link = "down" \/ "gatt" \in Faults

GattError ==
    /\ awaiting \in GattAwaits
    /\ GattFails
    /\ Leave("ble_error")
    /\ UNCHANGED <<lockVars, localVars, argVars>>

-------------------------------------------------------------------------------
(***************************************************************************)
(* The callbacks: bleak runs them between two steps of the coroutine, as   *)
(* long as the link is up, in the order of the notifications.              *)
(***************************************************************************)
Notified(kinds) ==
    /\ toClient # <<>>
    /\ Head(toClient).kind \in kinds
    /\ toClient' = Tail(toClient)
    /\ UNCHANGED <<link, subs, toLock, session, wire, boltVars>>
    /\ UNCHANGED <<awaiting, argVars, result>>

\* A bug: every challenge is answered.
AnswerAlways == TRUE
MayAnswer == ~answered

\* answered["done"] is set before the answer is built, and building it raises
\* with a malformed credential; bleak drops an exception of a callback.
OnChallenge ==
    /\ Notified({"challenge"})
    /\ MayAnswer
    /\ answered' = TRUE
    /\ tasks' = IF token = "malformed" THEN tasks ELSE tasks \o <<"ack", "answer">>
    /\ UNCHANGED <<gotResult, gotState, newState>>

\* A bug: any data frame counts as the result.
AnyDataFrame == {"result", "challenge"}
ResultKinds  == {"result"}

OnResult ==
    /\ Notified(ResultKinds)
    /\ gotResult' = TRUE
    /\ UNCHANGED <<answered, gotState, newState, tasks>>

\* An ACK is no data frame, a repeated challenge was answered already, and a
\* frame that parse_l1 rejects clears the buffer.
OnIgnored ==
    /\ Notified(NusKinds)
    /\ \/ Head(toClient).kind = "lock_ack"
       \/ Head(toClient).kind = "challenge" /\ ~MayAnswer
       \/ "lose" \in Faults
    /\ UNCHANGED localVars

OnState ==
    /\ Notified({"state"})
    /\ IF Head(toClient).raw = Malformed
       THEN UNCHANGED <<newState, gotState>>
       ELSE /\ newState' = DecodeState(Head(toClient).raw)
            /\ gotState' = TRUE
    /\ UNCHANGED <<answered, gotResult, tasks>>

TaskFrame(task) == IF task = "ack" THEN Ack ELSE Answer(token, target)

\* Tasks start in the order of their creation.  Nobody awaits them, so a
\* failed write leaves no trace.
RunSendTask ==
    /\ tasks # <<>>
    /\ tasks' = Tail(tasks)
    /\ \/ Write(TaskFrame(Head(tasks)))
       \/ GattFails /\ UNCHANGED linkVars
    /\ UNCHANGED <<boltVars, awaiting, argVars, result>>
    /\ UNCHANGED <<answered, gotResult, gotState, newState>>

Coroutine ==
    \/ StartNotifyState \/ StartNotifyNus \/ WriteHello \/ PrimeSlept
    \/ WriteRequest \/ ResultArrives \/ ResultTimeout \/ StateArrives
    \/ StateTimeout \/ ReadFallback \/ GattError

Callback == OnChallenge \/ OnResult \/ OnIgnored \/ OnState

Environment == Peripheral /\ UNCHANGED <<awaiting, localVars, argVars, result>>

-------------------------------------------------------------------------------
HandshakeInit ==
    /\ LockInit("up")
    /\ awaiting = "start_notify_state"
    /\ answered = FALSE
    /\ gotResult = FALSE
    /\ gotState = FALSE
    /\ newState = "none"
    /\ tasks = <<>>
    /\ target \in Positions
    /\ token \in AnyToken
    /\ result = "none"

HandshakeNext == Coroutine \/ Callback \/ RunSendTask \/ Environment

HandshakeSpec == HandshakeInit /\ [][HandshakeNext]_hvars

\* The event loop runs what is ready, and timers expire.
LoopFairness ==
    /\ WF_hvars(Coroutine)
    /\ WF_hvars(Callback)
    /\ WF_hvars(RunSendTask)

FairHandshake == HandshakeSpec /\ LoopFairness

\* A lock that works answers what it received and moves its bolt.
LiveHandshake ==
    /\ FairHandshake
    /\ WF_hvars(Firmware /\ UNCHANGED <<awaiting, localVars, argVars, result>>)
    /\ WF_hvars(Throw /\ UNCHANGED <<awaiting, localVars, argVars, result>>)

-------------------------------------------------------------------------------
HandshakeTypeOK ==
    /\ LockTypeOK
    /\ ClientTypeOK
    /\ awaiting \in HandshakeAwaits \cup {"disconnect"}
    /\ result \in Results

\* On one connection the lock is sent hello, request, ACK and answer in this
\* order and each at most once, however often it repeats its challenge and
\* whichever tasks run after the coroutine gave up (device.py:185-190, 205-207).
Stage(kind) == CASE kind = "hello" -> 1 [] kind = "request" -> 2
                 [] kind = "ack" -> 3   [] kind = "answer" -> 4
WireOrder ==
    \A i, j \in DOMAIN wire : i < j => Stage(wire[i]) < Stage(wire[j])

\* A position is returned only if the lock accepted an answer on this
\* connection: neither an ACK nor a challenge nor a state notification of
\* somebody else's move lets the command succeed (device.py:183-192, 209-223).
ReturnNeedsOrder == result \in Positions => orders >= 1

\* A position is returned only if the bolt has been there since the handshake
\* began (device.py:194-199, 221-227).
ReturnWasSeen == result \in Positions => result \in seen

(***************************************************************************)
(* Why they hold, as parts of an inductive invariant.                      *)
(***************************************************************************)
\* A cut link holds nothing.
DownIsEmpty ==
    link = "down" =>
        /\ subs = {} /\ toLock = <<>> /\ toClient = <<>>
        /\ session = "new" /\ wire = <<>>

EndsAreMarked == (result = "none") = (awaiting # "disconnect")

RequestWritten == wire \notin {<<>>, <<"hello">>}

\* The wire never gets beyond its six legal histories, because what may still
\* be written is determined by where the coroutine and the tasks are; a
\* challenge anywhere proves that the request is out.
WireHistory ==
    /\ wire \in {<<>>, <<"hello">>, <<"hello", "request">>,
                <<"hello", "request", "ack">>, <<"hello", "request", "answer">>,
                <<"hello", "request", "ack", "answer">>}
    /\ tasks \in {<<>>, <<"ack", "answer">>, <<"answer">>}
    /\ ~answered => tasks = <<>> /\ wire \in {<<>>, <<"hello">>, <<"hello", "request">>}
    /\ link = "up" =>
          /\ tasks = <<"ack", "answer">> => wire = <<"hello", "request">>
          /\ tasks = <<"answer">> =>
                wire \in {<<"hello", "request">>, <<"hello", "request", "ack">>}
          /\ answered => RequestWritten
          /\ session \notin {"new", "primed"} => RequestWritten
          /\ \A f \in ToSet(toLock) : f.kind = "request" => RequestWritten
          /\ \A n \in ToSet(toClient) : n.kind = "challenge" => RequestWritten
          /\ awaiting \in {"start_notify_state", "start_notify_nus", "write_hello"}
                => wire = <<>>
          /\ awaiting \in {"sleep_prime", "write_request"} => wire = <<"hello">>

\* A result, wherever it is noted, stems from an order.
ResultEvidence ==
    /\ gotResult => orders >= 1
    /\ \A n \in ToSet(toClient) : n.kind = "result" => orders >= 1
    /\ awaiting \in {"wait_state", "read_fallback"} => orders >= 1

\* A state, wherever it is noted, was seen.
StateEvidence ==
    /\ bolt \in seen
    /\ newState \in seen \cup {"none"}
    /\ gotState => newState # "none"
    /\ \A n \in ToSet(toClient) :
          n.kind = "state" /\ n.raw # Malformed => DecodeState(n.raw) \in seen

HandshakeInv ==
    /\ HandshakeTypeOK
    /\ DownIsEmpty
    /\ EndsAreMarked
    /\ WireHistory
    /\ ResultEvidence /\ ReturnNeedsOrder
    /\ StateEvidence /\ ReturnWasSeen

\* The handshake ends on its own, whatever the lock and the link do, because
\* both waits have a timeout (device.py:209-219).
HandshakeEnds == <>(awaiting = "disconnect")

\* With a valid credential and nothing going wrong, it ends with the bolt where
\* it was sent and says so.
HandshakeSucceeds == <>[](result = target /\ bolt = target)
===============================================================================
