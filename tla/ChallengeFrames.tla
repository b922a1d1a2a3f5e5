---------------------------- MODULE ChallengeFrames ----------------------------
(***************************************************************************)
(* What scripts/challenge_probe.py makes of a whole frame.                 *)
(***************************************************************************)
EXTENDS Codec

\* The entry of a frame, and the nonce of a challenge.
Entry(frame) ==
    IF frame.flags = L1_FLAG_DATA /\ frame.body # <<>>
    THEN LET l2 == ParseL2(frame.body) IN <<frame.flags, frame.seq, l2.cmd, l2.tlvs>>
    ELSE <<frame.flags, frame.seq>>

NonceOf(frame) ==
    IF frame.flags = L1_FLAG_DATA /\ frame.body # <<>> THEN ExtractChallenge(frame.body) ELSE <<>>
===============================================================================
