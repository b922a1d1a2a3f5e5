------------------------------ MODULE MCReassembly ------------------------------
(***************************************************************************)
(* The frames of the handshake at the smallest ATT payload: an ACK of 8    *)
(* bytes, a result of 14 and a challenge of 29, which takes two            *)
(* notifications; and a challenge with an unfortunate nonce.               *)
(***************************************************************************)
EXTENDS Reassembly

FrameKinds  == {"lock_ack", "result", "challenge", "ab_challenge"}
Lengths     == [kind \in FrameKinds |->
                   CASE kind = "lock_ack" -> 0 [] kind = "result" -> 6 [] OTHER -> 21]
AbChallenge == {"ab_challenge"}
===============================================================================
