----------------------------- MODULE ChallengeProbe -----------------------------
(***************************************************************************)
(* scripts/challenge_probe.py, probe: all notifying characteristics are    *)
(* subscribed to, a challenge is asked for, and what the lock says on each *)
(* of them is put together from notifications and read as frames.  The     *)
(* lock may send a frame on one characteristic amid one on another.        *)
(***************************************************************************)
EXTENDS Probe, Slices, Functions, SequencesExt

CONSTANTS
    Says,           \* by uuid: what the lock may say there
    Reads,          \* what frames among it mean: an entry, and a nonce or nothing
    NUS,            \* the uuid that answers the request
    PartLen,        \* bytes of a notification at most
    MaxSays,        \* bound on what the lock says in a session
    Parsed(_),      \* parse_l1
    EntryOf(_),     \* the entry of a frame,
    Nonce(_)        \* and the nonce if it is a challenge, or nothing

Whole(frame) == ~frame.error /\ frame.complete

\* What has been put together of a value, and the notification it goes on with.
Put(value, n)  == SubSeq(value, 1, n * PartLen)
Part(value, n) == Slice(value, n * PartLen + 1, (n + 1) * PartLen)

\* A frame, which may be damaged, is incomplete until its last notification; of what is no
\* frame each notification is refused.
IsFrame(value) ==
    /\ LET frame == Parsed(value) IN frame.error \/ frame.complete
    /\ \A n \in 1 .. Len(value) : n * PartLen < Len(value) =>
          LET frame == Parsed(Put(value, n)) IN ~frame.error /\ ~frame.complete
IsNoise(value) ==
    \A n \in 0 .. Len(value) : n * PartLen < Len(value) => Parsed(Part(value, n)).error

ASSUME PartAssumption == PartLen \in Nat \ {0} /\ MaxSays \in Nat
ASSUME SaysAssumption ==
    \A uuid \in DOMAIN Says : \A value \in Says[uuid] :
        /\ value \in Seq(Octets) /\ value # <<>>
        /\ IsFrame(value) \/ IsNoise(value)
        /\ value \in DOMAIN Reads <=> IsFrame(value) /\ Whole(Parsed(value))
        /\ value \in DOMAIN Reads =>
              LET frame == Parsed(value)
              IN  Reads[value] = [entry |-> EntryOf(frame), nonce |-> Nonce(frame)]

VARIABLES
    speaking,       \* by uuid: what the lock is saying, and what of it is still to come
    arrived,        \* history: what has wholly arrived, in order
    buffers,        \* the dict `pending`
    frames,         \* the entries
    nonce           \* of the challenge found last

challengeVars == <<speaking, arrived, buffers, frames, nonce>>

\* Errors of a subscription are skipped.
Subscriptions == FlattenSeq([i \in DOMAIN Table |-> CallsOf("notify", Table[i])])
ProbeCalls    == Subscriptions \o <<Call("write", NUS)>>

\* The lock has finitely many characteristics.
NotifyCalls == [call : {"notify"}, uuid : {Table[i].uuid : i \in DOMAIN Table}]
ASSUME SubscriptionsAssumption == Subscriptions \in Seq(NotifyCalls)

ChallengeInit ==
    /\ speaking = [uuid \in DOMAIN Says |-> <<>>]
    /\ arrived = <<>>
    /\ buffers = [uuid \in DOMAIN Says |-> <<>>]
    /\ frames = <<>>
    /\ nonce = <<>>

ProbeConnected ==
    /\ at = "connect"
    /\ at' = "call"
    /\ link' = TRUE
    /\ UNCHANGED <<asked, todo, outcomes, disconnected, lost, result, challengeVars>>

\* The request is the last call, and the only one whose error ends the probe.
ProbeCall ==
    /\ at = "call"
    /\ \E outcome \in {"ok", "error"} :
          /\ Returned(outcome)
          /\ at' = IF Head(todo).call = "notify" THEN "call"
                   ELSE IF outcome = "ok" THEN "listen" ELSE "abort"
    /\ todo' = Tail(todo)
    /\ UNCHANGED <<asked, link, disconnected, lost, result, challengeVars>>

ProbeListened ==
    /\ at = "listen"
    /\ ListeningEnds
    /\ at' = IF disconnected THEN "disconnect" ELSE "stop"
    /\ UNCHANGED <<asked, todo, outcomes, link, disconnected, lost, result, challengeVars>>

ProbeStopped ==
    /\ at = "stop"
    /\ at' = "disconnect"
    /\ UNCHANGED <<asked, todo, outcomes, link, disconnected, lost, result, challengeVars>>

\* The event is looked at after the tool's own disconnect.
ProbeDisconnected ==
    /\ Finally("disconnect")
    /\ result' = <<disconnected'>>
    /\ UNCHANGED challengeVars

-------------------------------------------------------------------------------
\* A call takes effect before it returns.
InEffect(call) == \/ todo # <<>> /\ Head(todo) = call
                  \/ call \in DOMAIN outcomes /\ outcomes[call] = "ok"

\* A bug: one buffer for all.
OneBuffer(uuid) == NUS
BufferOf(uuid)  == uuid

\* _on_notify.
OnNotify(uuid, data) ==
    LET key   == BufferOf(uuid)
        buf   == buffers[key] \o data
        frame == Parsed(buf)
    IN  /\ buffers' = [buffers EXCEPT ![key] = IF Whole(frame) \/ frame.error THEN <<>> ELSE buf]
        /\ frames' = IF Whole(frame) THEN Append(frames, EntryOf(frame)) ELSE frames
        /\ nonce' = IF Whole(frame) /\ Nonce(frame) # <<>> THEN Nonce(frame) ELSE nonce

\* The lock says something new on a characteristic, or goes on with what it is saying there.
Notified(uuid) ==
    /\ link
    /\ InEffect(Call("notify", uuid))
    /\ \E value \in IF speaking[uuid] = <<>> THEN Says[uuid] ELSE {speaking[uuid][1]} :
          LET new  == speaking[uuid] = <<>>
              left == IF new THEN value ELSE speaking[uuid][2]
              rest == From(left, PartLen + 1)
          IN  /\ new => /\ Len(arrived) < MaxSays
                        /\ uuid = NUS => InEffect(Call("write", NUS))
              /\ speaking' = [speaking EXCEPT ![uuid] = IF rest = <<>> THEN <<>> ELSE <<value, rest>>]
              /\ arrived' = IF rest = <<>> THEN Append(arrived, value) ELSE arrived
              /\ OnNotify(uuid, Slice(left, 1, PartLen))
    /\ UNCHANGED probeVars

ChallengeStep ==
    \/ ConnectFails /\ UNCHANGED challengeVars
    \/ ProbeConnected \/ ProbeCall \/ ProbeListened \/ ProbeStopped
    \/ ProbeDisconnected
    \/ Aborted /\ UNCHANGED challengeVars

ChallengeNext ==
    \/ ChallengeStep
    \/ \E uuid \in DOMAIN Says : Notified(uuid)
    \/ (LockDrops \/ Cancelled) /\ UNCHANGED challengeVars

-------------------------------------------------------------------------------
\* Whatever characteristics the lock speaks on at the same time, and whatever it says that
\* is no frame, the frames found are those that have arrived, each as it was built and in
\* order, and the challenge is that of the last one (challenge_probe.py:60-90).
FramesAsSaid ==
    LET said       == {n \in DOMAIN arrived : arrived[n] \in DOMAIN Reads}
        challenges == {n \in said : Reads[arrived[n]].nonce # <<>>}
    IN  /\ \E valueOf \in [DOMAIN frames -> said] :
              /\ Range(valueOf) = said
              /\ \A i, j \in DOMAIN frames : i < j => valueOf[i] < valueOf[j]
              /\ \A i \in DOMAIN frames : frames[i] = Reads[arrived[valueOf[i]]].entry
        /\ \/ challenges = {} /\ nonce = <<>>
           \/ \E n \in challenges : /\ \A m \in challenges : m <= n
                                    /\ nonce = Reads[arrived[n]].nonce
===============================================================================
