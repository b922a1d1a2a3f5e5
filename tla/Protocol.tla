------------------------------- MODULE Protocol -------------------------------
(***************************************************************************)
(* What protocol.py does to the data the handshake depends on.  A frame is *)
(* its kind and, for the answer to a challenge, the magic the lock         *)
(* recovers from it; a state characteristic is its decrypted status byte.  *)
(* AES, the CRC and the byte layout are abstracted away here.              *)
(***************************************************************************)
EXTENDS Naturals

Positions == {"locked", "unlocked"}

STATE_LOCKED   == 1
STATE_UNLOCKED == 2
\* A value AES cannot decrypt (empty, or not whole blocks): no status byte.
Malformed      == 256
StateValues    == {STATE_LOCKED, STATE_UNLOCKED, Malformed}

\* Two wrong decoders: one that keeps the status byte's complement, and one
\* that knows a third state.
DecodeInverted(raw)  == IF raw = STATE_LOCKED THEN "unlocked" ELSE "locked"
DecodeThreeWay(raw)  == IF raw = STATE_LOCKED THEN "locked" ELSE "unknown"
DecodeState(raw) == IF raw = STATE_LOCKED THEN "locked" ELSE "unlocked"

\* The credential a client holds: the lock's own, an outdated one, or one that
\* AES or to_bytes(2) rejects with an exception.
Tokens == {"valid", "rotated", "malformed"}

\* Frames of the client, in the order the handshake sends them.
Command(kind)  == [kind |-> kind, magic |-> "none"]
Hello          == Command("hello")
Request        == Command("request")
Ack            == Command("ack")
\* A wrong builder: the two magics are exchanged.
MagicExchanged(token, target) ==
    IF token = "valid" THEN CHOOSE p \in Positions : p # target ELSE "noise"
AnswerMagic(token, target) == IF token = "valid" THEN target ELSE "noise"
Answer(token, target) == [kind |-> "answer", magic |-> AnswerMagic(token, target)]

ClientKinds    == {"hello", "request", "ack", "answer"}
Magics         == Positions \cup {"noise", "none"}
ClientFrames   == [kind : ClientKinds, magic : Magics]

\* Notifications of the lock: NUS frames and state values.
NusKinds       == {"lock_ack", "challenge", "result"}
Nus(kind)      == [kind |-> kind, raw |-> Malformed]
State(raw)     == [kind |-> "state", raw |-> raw]
Notifications  == [kind : NusKinds \cup {"state"}, raw : StateValues]
===============================================================================
