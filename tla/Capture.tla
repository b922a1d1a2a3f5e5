-------------------------------- MODULE Capture --------------------------------
(***************************************************************************)
(* att_messages of scripts/parse_snoop.py.  L2CAP PDUs are sent in ACL     *)
(* fragments over several connections, both ways at the same time; it puts *)
(* them together again from a capture's records, each of which may have    *)
(* been cut to a snap length.                                              *)
(*                                                                         *)
(* The generators run over a finished file; here they take each record as  *)
(* it is made, which is the same as they never look ahead.                 *)
(***************************************************************************)
EXTENDS Slices, SequencesExt, Functions

CONSTANTS
    Traffic,        \* by stream: the L2CAP PDUs that may be sent on it
    AclSize,        \* bytes of a fragment at most
    SnapLens,       \* bytes of a record that may be kept
    MaxPdus         \* bound on the PDUs of a stream

\* A stream is a connection and a direction.
Streams == DOMAIN Traffic

Words == {n \in Nat : n < 65536}

\* An L2CAP PDU has a length that fits in its header.
IsPdu(pdu) == pdu \in [cid : Words, data : Seq(Octets)] /\ Len(pdu.data) \in Words

L2CAP_HEADER_LEN == 4

\* A full fragment has room for the header; LE's smallest buffer has 27 bytes.
ASSUME AclAssumption     == AclSize \in Nat /\ AclSize >= L2CAP_HEADER_LEN
ASSUME TrafficAssumption == \A s \in Streams : \A pdu \in Traffic[s] : IsPdu(pdu)
ASSUME SnapAssumption    == SnapLens \subseteq Nat /\ MaxPdus \in Nat

VARIABLES
    snap,       \* the capture's snap length
    sent,       \* by stream: the PDUs sent so far
    left,       \* by stream: fragments of the last one that are still to come
    pending,    \* the dict of PDUs in parts, by key
    messages    \* by stream: the messages yielded

captureVars == <<snap, sent, left, pending, messages>>

ATT_CID       == 4
ATT_WRITE_REQ == 18
ATT_WRITE_CMD == 82
ATT_NOTIFY    == 27
ATT_INDICATE  == 29

Little(n) == <<n % 256, n \div 256>>
LittleAt(data, i) == data[i] + 256 * data[i + 1]

CaptureInit ==
    /\ snap \in SnapLens
    /\ sent = [s \in Streams |-> <<>>]
    /\ left = [s \in Streams |-> <<>>]
    /\ pending = [key \in {} |-> 0]
    /\ messages = [s \in Streams |-> <<>>]

-------------------------------------------------------------------------------
\* A PDU as its fragments.
PduBytes(pdu) == Little(Len(pdu.data)) \o Little(pdu.cid) \o pdu.data
Fragments(pdu) ==
    [j \in 1 .. (Len(PduBytes(pdu)) + AclSize - 1) \div AclSize |->
        Slice(PduBytes(pdu), (j - 1) * AclSize + 1, j * AclSize)]

\* Bytes before a packet's payload: its H4 type, handle and length.
ACL_HEADER_LEN == 5

\* A bug: one buffer for both directions.
ByConnection(stream) == [stream EXCEPT !.dir = "rx"]
KeyOf(stream)        == stream

IsMessage(cid, frame) ==
    /\ cid = ATT_CID
    /\ Len(frame) >= 3
    /\ frame[1] \in {ATT_WRITE_REQ, ATT_WRITE_CMD, ATT_NOTIFY, ATT_INDICATE}

Messages == [opcode : Octets, handle : Words, value : Seq(Octets)]
Message(frame) == [opcode |-> frame[1], handle |-> LittleAt(frame, 2), value |-> From(frame, 4)]

Waits(pdu) == Len(pdu.buf) < pdu.need

\* A PDU waits for more, or is complete.
Goes(stream, pdu) ==
    LET key   == KeyOf(stream)
        frame == SubSeq(pdu.buf, 1, pdu.need)
    IN  IF Waits(pdu)
        THEN /\ pending' = [k \in DOMAIN pending \cup {key} |->
                                IF k = key THEN pdu ELSE pending[k]]
             /\ UNCHANGED messages
        ELSE /\ pending' = Restrict(pending, DOMAIN pending \ {key})
             /\ messages' = IF IsMessage(pdu.cid, frame)
                            THEN [messages EXCEPT ![stream] = Append(@, Message(frame))]
                            ELSE messages

\* The body of att_messages' loop for one record, which starts a PDU or does not.
\* A fragment that continues nothing is taken for a start.
Record(stream, first, fragment) ==
    LET key     == KeyOf(stream)
        payload == Slice(fragment, 1, snap - ACL_HEADER_LEN)
    IN  IF ~first /\ key \in DOMAIN pending
        THEN Goes(stream, [pending[key] EXCEPT !.buf = @ \o payload])
        ELSE IF Len(payload) < L2CAP_HEADER_LEN
        THEN UNCHANGED <<pending, messages>>
        ELSE Goes(stream, [cid |-> LittleAt(payload, 3), need |-> LittleAt(payload, 1),
                           buf |-> From(payload, L2CAP_HEADER_LEN + 1)])

Start(stream) ==
    /\ left[stream] = <<>>
    /\ Len(sent[stream]) < MaxPdus
    /\ \E pdu \in Traffic[stream] :
          /\ sent' = [sent EXCEPT ![stream] = Append(@, pdu)]
          /\ left' = [left EXCEPT ![stream] = Tail(Fragments(pdu))]
          /\ Record(stream, TRUE, Head(Fragments(pdu)))
    /\ UNCHANGED snap

Continue(stream) ==
    /\ left[stream] # <<>>
    /\ left' = [left EXCEPT ![stream] = Tail(@)]
    /\ Record(stream, FALSE, Head(left[stream]))
    /\ UNCHANGED <<snap, sent>>

CaptureNext == \E stream \in Streams : Start(stream) \/ Continue(stream)

CaptureSpec == CaptureInit /\ [][CaptureNext]_captureVars

-------------------------------------------------------------------------------
(***************************************************************************)
(* What a capture should give.                                             *)
(***************************************************************************)

\* The PDUs of which every fragment was made, and those of them that are messages and
\* were captured in full.
Ended(stream) == IF left[stream] = <<>> THEN sent[stream] ELSE Front(sent[stream])

Fits(fragment)  == ACL_HEADER_LEN + Len(fragment) <= snap
IsReported(pdu) == /\ IsMessage(pdu.cid, pdu.data)
                   /\ \A j \in DOMAIN Fragments(pdu) : Fits(Fragments(pdu)[j])

\* These messages are those of these PDUs, each once and in their order.
AreTheMessages(msgs, pdus) ==
    LET reported == {n \in DOMAIN pdus : IsReported(pdus[n])}
    IN  \E pduOf \in [DOMAIN msgs -> reported] :
            /\ Range(pduOf) = reported
            /\ \A i, j \in DOMAIN msgs : i < j => pduOf[i] < pduOf[j]
            /\ \A i \in DOMAIN msgs : msgs[i] = Message(pdus[pduOf[i]].data)

\* However the fragments of connections and directions are interleaved, and
\* wherever records are cut, the messages of a stream are those that were captured in
\* full: each once, whole, unmixed and in order (parse_snoop.py:93-129).
MessagesAsSent == \A s \in Streams : AreTheMessages(messages[s], Ended(s))

(***************************************************************************)
(* Why it does, as parts of an inductive invariant.                        *)
(***************************************************************************)
Buffers == [cid : Words, need : Words, buf : Seq(Octets)]
CaptureTypeOK ==
    /\ snap \in SnapLens
    /\ DOMAIN sent = Streams /\ \A s \in Streams : sent[s] \in Seq(Traffic[s])
    /\ DOMAIN left = Streams
    /\ DOMAIN pending \subseteq Streams
    /\ \A s \in DOMAIN pending : pending[s] \in Buffers
    /\ messages \in [Streams -> Seq(Messages)]

\* What is still to come of a stream is the end of its last PDU, but never all of it.
Made(s) == Len(Fragments(Last(sent[s]))) - Len(left[s])
LeftIsRest ==
    \A s \in Streams :
        \/ left[s] = <<>>
        \/ /\ sent[s] # <<>>
           /\ left[s] \in Seq(Seq(Octets))
           /\ Made(s) >= 1
           /\ \A j \in 1 .. Len(left[s]) :
                 left[s][j] = Fragments(Last(sent[s]))[Made(s) + j]

\* What the records of its first k fragments leave in the buffer of a PDU: all their bytes
\* behind the header, or, if one was cut, too few for the rest to make up for.
BytesOf(pdu, k) ==
    IF k * AclSize < Len(PduBytes(pdu)) THEN k * AclSize ELSE Len(PduBytes(pdu))
Gathered(pdu, k, buf) ==
    /\ buf \in Seq(Octets)
    /\ IF \A j \in 1 .. k : Fits(Fragments(pdu)[j])
       THEN buf = SubSeq(pdu.data, 1, BytesOf(pdu, k) - L2CAP_HEADER_LEN)
       ELSE Len(buf) + L2CAP_HEADER_LEN < BytesOf(pdu, k)

\* A PDU with fragments to come is pending, unless the header is cut of every record.
HeaderIsCut == snap < ACL_HEADER_LEN + L2CAP_HEADER_LEN
PendingIsMade ==
    /\ HeaderIsCut => DOMAIN pending = {}
    /\ \A s \in Streams :
          left[s] # <<>> /\ ~HeaderIsCut =>
              /\ s \in DOMAIN pending
              /\ pending[s].cid = Last(sent[s]).cid
              /\ pending[s].need = Len(Last(sent[s]).data)
              /\ Gathered(Last(sent[s]), Made(s), pending[s].buf)

CaptureInv == CaptureTypeOK /\ LeftIsRest /\ PendingIsMade /\ MessagesAsSent
===============================================================================
