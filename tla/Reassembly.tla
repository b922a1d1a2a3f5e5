------------------------------- MODULE Reassembly -------------------------------
(***************************************************************************)
(* L1 reassembly: on_nus collects notifications in rx until parse_l1 finds *)
(* a whole frame at its start, rejects it, or asks for more.  Whole        *)
(* notifications may be lost on the way (a proxy that drops them); those   *)
(* that arrive do so in order.                                             *)
(*                                                                         *)
(* A byte is the frame it was sent in and its place there, which is all    *)
(* that magic, length and CRC tell apart.                                  *)
(***************************************************************************)
EXTENDS Naturals, Sequences, SequencesExt

CONSTANTS
    Kinds,          \* kinds of frames the lock sends
    BodyLength,     \* length of a frame's body, by kind
    Mtu,            \* bytes a notification carries at most
    Lookalikes,     \* those whose second notification happens to start with
                    \* the byte L1_MAGIC ...
    BogusLength,    \* ... and the length such a "header" declares
    MaxFrames,      \* bound on the frames sent
    MaxLosses       \* bound on the notifications lost

L1_HEADER_LEN == 8

ASSUME LengthAssumption == BodyLength \in [Kinds -> Nat] /\ BogusLength \in Nat
ASSUME MtuAssumption    == Mtu \in Nat /\ Mtu >= L1_HEADER_LEN
ASSUME LookAssumption   == Lookalikes \subseteq Kinds
ASSUME BoundsAssumption == MaxFrames \in Nat /\ MaxLosses \in Nat

VARIABLES
    sent,       \* kinds of the frames sent so far; a frame is its index
    air,        \* notifications under way, each a sequence of bytes
    rx,         \* the buffer
    handled,    \* frames passed on to parse_l2, 0 for one that was never sent
    losses,     \* how many notifications were lost
    hurt        \* history: the last frame of which a notification was lost

rvars == <<sent, air, rx, handled, losses, hurt>>

ReassemblyInit ==
    /\ sent = <<>>
    /\ air = <<>>
    /\ rx = <<>>
    /\ handled = <<>>
    /\ losses = 0
    /\ hurt = 0

-------------------------------------------------------------------------------
(***************************************************************************)
(* The lock and the radio.                                                 *)
(***************************************************************************)
FrameLength(kind) == L1_HEADER_LEN + BodyLength[kind]

\* Frame n as the notifications it is sent in: only the last may be short.
Notifications(n, kind) ==
    [j \in 1 .. (FrameLength(kind) + Mtu - 1) \div Mtu |->
        [i \in 1 .. (IF j * Mtu <= FrameLength(kind) THEN Mtu ELSE FrameLength(kind) % Mtu)
            |-> [frame |-> n, at |-> (j - 1) * Mtu + i]]]

SendFrame ==
    /\ Len(sent) < MaxFrames
    /\ \E kind \in Kinds :
          /\ sent' = Append(sent, kind)
          /\ air' = air \o Notifications(Len(sent) + 1, kind)
    /\ UNCHANGED <<rx, handled, losses, hurt>>

Lose ==
    /\ air # <<>>
    /\ losses < MaxLosses
    /\ losses' = losses + 1
    /\ hurt' = Head(air)[1].frame
    /\ air' = Tail(air)
    /\ UNCHANGED <<sent, rx, handled>>

-------------------------------------------------------------------------------
(***************************************************************************)
(* parse_l1                                                                *)
(***************************************************************************)
IsMagic(byte) ==
    \/ byte.at = 1
    \/ byte.at = Mtu + 1 /\ sent[byte.frame] \in Lookalikes

NotAFrame(data) == Len(data) < L1_HEADER_LEN \/ ~IsMagic(data[1])

DeclaredLength(data) ==
    IF data[1].at = 1 THEN BodyLength[sent[data[1].frame]] ELSE BogusLength

\* `complete`; bytes beyond the declared length are cut off.
IsComplete(data) == Len(data) >= L1_HEADER_LEN + DeclaredLength(data)

\* Every byte of header and body is the frame's own, in its place.
Whole(data) ==
    \A i \in 1 .. L1_HEADER_LEN + DeclaredLength(data) :
        data[i] = [frame |-> data[1].frame, at |-> i]

\* A bug: the CRC is not looked at.
CrcUnchecked(data) == TRUE
\* The CRC tells a body from every other that a loss can put in its place.
CrcMatches(data) == Whole(data)

(***************************************************************************)
(* on_nus: what it does with the next notification.                        *)
(***************************************************************************)
Received == rx \o Head(air)

Arrives == air # <<>> /\ air' = Tail(air) /\ UNCHANGED <<sent, losses, hurt>>

\* Bugs: the buffer is kept after a ValueError, or is given up when it is not
\* complete.
KeepOnError(data) == data
GiveUpEarly(data) == <<>>
AfterError(data)  == <<>>
AfterPart(data)   == data

Reject ==
    /\ Arrives
    /\ \/ NotAFrame(Received)
       \/ ~NotAFrame(Received) /\ IsComplete(Received) /\ ~CrcMatches(Received)
    /\ rx' = AfterError(Received)
    /\ UNCHANGED handled

Collect ==
    /\ Arrives
    /\ ~NotAFrame(Received)
    /\ ~IsComplete(Received)
    /\ rx' = AfterPart(Received)
    /\ UNCHANGED handled

PassOn ==
    /\ Arrives
    /\ ~NotAFrame(Received)
    /\ IsComplete(Received)
    /\ CrcMatches(Received)
    /\ rx' = <<>>
    /\ handled' = Append(handled, IF Whole(Received) THEN Received[1].frame ELSE 0)

ReassemblyNext == SendFrame \/ Lose \/ Reject \/ Collect \/ PassOn

ReassemblySpec == ReassemblyInit /\ [][ReassemblyNext]_rvars

-------------------------------------------------------------------------------
\* The buffer holds the beginning of one frame and never a whole one: it is empty
\* or starts with the magic, and is shorter than what its header declares.
ReassemblyTypeOK ==
    /\ sent \in Seq(Kinds) /\ Len(sent) <= MaxFrames
    /\ losses \in 0 .. MaxLosses
    /\ hurt \in 0 .. Len(sent)
    /\ \A i \in DOMAIN handled : handled[i] \in DOMAIN sent
    /\ rx # <<>> => ~NotAFrame(rx) /\ ~IsComplete(rx)

\* Whatever is lost, a frame is passed on at most once, whole, and in order:
\* no frame is made up of parts of two (protocol.py:126-138, device.py:173-182).
Channel == INSTANCE FrameChannel
ChannelKept == Channel!ChannelSpec

\* As long as nothing is lost, every frame is passed on, however many
\* notifications it takes (device.py:180-181).
NothingIgnored ==
    (losses = 0 /\ air = <<>>) => handled = [n \in DOMAIN sent |-> n]

\* Unless a part of a frame looks like the start of one, a lost notification
\* costs, beside its own frame, at most the next two: then the buffer is in step
\* again and a repeated challenge gets through (device.py:177-182).
Ignored ==
    {n \in DOMAIN sent :
        /\ n > hurt
        /\ \A i \in DOMAIN air : air[i][1].frame # n
        /\ \A i \in DOMAIN handled : handled[i] # n}
ResyncsSoon ==
    ToSet(sent) \cap Lookalikes = {} => \A n \in Ignored : n <= hurt + 2

(***************************************************************************)
(* Why they hold, as parts of an inductive invariant.                      *)
(***************************************************************************)
Bytes        == [frame : Nat, at : Nat]
Byte(n, i)   == [frame |-> n, at |-> i]
FrameSize(n) == FrameLength(sent[n])

\* The byte that comes next, if nothing more is lost.
NextByte == IF air = <<>> THEN Byte(Len(sent) + 1, 1) ELSE Head(air)[1]

\* The part of frame n from byte a on: Mtu bytes, or all that are left of m.
PartOf(n, a, m) ==
    [i \in 1 .. (IF a + Mtu <= m + 1 THEN Mtu ELSE m + 1 - a) |-> Byte(n, a + i - 1)]

IsPart(part) ==
    \E n \in DOMAIN sent : \E a \in 1 .. FrameSize(n) : part = PartOf(n, a, FrameSize(n))

\* The byte to follow a part.
Following(part) ==
    LET end == Last(part)
    IN  IF end.at = FrameSize(end.frame) THEN Byte(end.frame + 1, 1) ELSE Byte(end.frame, end.at + 1)

\* What is under way is the end of all that was sent, without a gap.
AirIsGapless ==
    /\ air \in Seq(Seq(Bytes))
    /\ \A k \in DOMAIN air :
          /\ IsPart(air[k])
          /\ Following(air[k]) =
                IF k < Len(air) THEN air[k + 1][1] ELSE Byte(Len(sent) + 1, 1)
    /\ \A n \in NextByte.frame .. Len(sent) : \E k \in DOMAIN air : air[k][1].frame = n

\* The buffer's bytes were sent before those under way; if it starts with the start of a
\* frame, it has that frame's first notification.
BufferIsPast ==
    /\ rx \in Seq(Bytes)
    /\ \A i \in DOMAIN rx :
          /\ rx[i].frame \in DOMAIN sent
          /\ \/ rx[i].frame < NextByte.frame
             \/ rx[i].frame = NextByte.frame /\ rx[i].at < NextByte.at
    /\ rx # <<>> /\ rx[1].at = 1 => Len(rx) >= Mtu

\* So were the frames passed on, and the one in the buffer is not among them.
HandledIsPast ==
    /\ handled \in Seq(DOMAIN sent)
    /\ \A i \in DOMAIN handled :
          /\ handled[i] < NextByte.frame
          /\ rx # <<>> => handled[i] < rx[1].frame

\* The buffer is what has arrived of the frame whose bytes are arriving.
InStep == /\ NextByte.at = Len(rx) + 1
          /\ \A i \in DOMAIN rx : rx[i] = Byte(NextByte.frame, i)

NothingLost ==
    losses = 0 => InStep /\ handled = [n \in 1 .. NextByte.frame - 1 |-> n]

\* The buffer starts with a frame that is not whole any more, and fills up with the
\* frames behind it ...
Lagging ==
    /\ rx # <<>>
    /\ rx[1].frame <= hurt
    /\ NextByte.frame <= hurt + 2
    /\ NextByte.frame > hurt + 1 => NextByte.at = 1
    /\ NextByte.frame > hurt + 1 \/ (NextByte.frame = hurt + 1 /\ NextByte.at > 1)
          => Len(rx) >= Mtu + L1_HEADER_LEN

\* ... or is empty in the middle of a frame, the rest of which will be rejected.
Skipping == rx = <<>> /\ NextByte.at > 1 /\ NextByte.frame <= hurt + 2

InStepSoon ==
    ToSet(sent) \cap Lookalikes = {} =>
        /\ InStep \/ Lagging \/ Skipping
        /\ \A n \in hurt + 3 .. NextByte.frame - 1 : n \in ToSet(handled)

\* No frame is so long that a gap in it takes more than two frames to fill.
FramesAreShort == \A kind \in Kinds : FrameLength(kind) <= Mtu + 2 * L1_HEADER_LEN

ReassemblyInv ==
    /\ ReassemblyTypeOK
    /\ AirIsGapless /\ BufferIsPast /\ HandledIsPast
    /\ hurt <= NextByte.frame
    /\ NothingLost
    /\ FramesAreShort => InStepSoon
===============================================================================
