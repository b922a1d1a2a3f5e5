--------------------------------- MODULE Codec ---------------------------------
(***************************************************************************)
(* protocol.py byte by byte: L1 frames with their CRC, L2 commands with    *)
(* their TLVs, and the frames the client builds.                           *)
(***************************************************************************)
EXTENDS Slices, SequencesExt, Bitwise

L1_MAGIC         == 171
L1_HEADER_LEN    == 8
L1_FLAG_NONE     == 0
L1_FLAG_LOCK_ACK == 72
L1_FLAG_ACK      == 8
L1_FLAG_DATA     == 64

L2_CMD_REQUEST_CHALLENGE == 145
L2_CMD_CHALLENGE         == 134
L2_CMD_LOCK_UNLOCK       == 4
TAG_CHALLENGE            == 210

\* "loock"
Tail5 == <<108, 111, 111, 99, 107>>
Magic(first) == <<first>> \o [i \in 1 .. 10 |-> 0] \o Tail5

\* n.to_bytes(2, "big") and its inverse.
Big(n) == <<n \div 256, n % 256>>
BigAt(data, i) == 256 * data[i] + data[i + 1]

-------------------------------------------------------------------------------
\* A bug: the polynomial is not reflected.
ShiftedWrong(crc) == IF crc % 2 = 1 THEN (crc \div 2) ^^ 32773 ELSE crc \div 2
Shifted(crc)      == IF crc % 2 = 1 THEN (crc \div 2) ^^ 40961 ELSE crc \div 2

Crc16Arc(data) ==
    LET shifts[crc \in 0 .. 65535, k \in 0 .. 8] ==
            IF k = 0 THEN crc ELSE shifts[Shifted(crc), k - 1]
        after[i \in 0 .. Len(data)] ==
            IF i = 0 THEN 0 ELSE shifts[after[i - 1] ^^ data[i], 8]
    IN  after[Len(data)]

PackL1(body, seq, flags) ==
    <<L1_MAGIC, flags>> \o Big(Len(body)) \o Big(Crc16Arc(body)) \o Big(seq) \o body

\* The frame at the start of data; one with `error` stands for a ValueError.
ParseL1(data) ==
    LET length == BigAt(data, 3)
        body   == From(data, L1_HEADER_LEN + 1)
        frame(b, complete) == [error |-> FALSE, flags |-> data[2], seq |-> BigAt(data, 7),
                               body |-> b, complete |-> complete]
    IN  IF Len(data) < L1_HEADER_LEN \/ data[1] # L1_MAGIC
        THEN [error |-> TRUE]
        ELSE IF Len(body) < length
        THEN frame(body, FALSE)
        ELSE IF Crc16Arc(SubSeq(body, 1, length)) # BigAt(data, 5)
        THEN [error |-> TRUE]
        ELSE frame(SubSeq(body, 1, length), TRUE)

\* tlvs is a sequence of tags with their values.
PackL2(cmd, tlvs) ==
    <<cmd, 0>> \o FlattenSeq([i \in DOMAIN tlvs |->
                                <<tlvs[i].tag>> \o Big(Len(tlvs[i].value)) \o tlvs[i].value])

\* The dictionary that the TLVs from pos on make; a repeated tag has its last value.
\* A bug: the tag is not counted.
NextWithin(body, pos) == pos + 2 + BigAt(body, pos + 1)
NextTlv(body, pos)    == pos + 3 + BigAt(body, pos + 1)

RECURSIVE Tlvs(_, _)
Tlvs(body, pos) ==
    IF pos + 2 > Len(body)
    THEN [tag \in {} |-> <<>>]
    ELSE LET value == Slice(body, pos + 3, pos + 2 + BigAt(body, pos + 1))
             rest  == Tlvs(body, NextTlv(body, pos))
         IN  [tag \in {body[pos]} \cup DOMAIN rest |->
                 IF tag \in DOMAIN rest THEN rest[tag] ELSE value]

\* It has no meaning for a body of fewer than two bytes: an IndexError.
ParseL2(body) == [cmd |-> body[1], flags |-> body[2], tlvs |-> Tlvs(body, 3)]

-------------------------------------------------------------------------------
\* AES-ECB of one block.  Any bijection for each key serves here.
Aes(key, block) == [i \in DOMAIN block |-> (block[i] + key[i]) % 256]

XorBytes(a, b) == [i \in DOMAIN a |-> a[i] ^^ b[i]]

AnswerChallenge(ble_token, challenge, magic) ==
    XorBytes(Aes(From(ble_token, 17), challenge), magic)

BuildChallengeRequest ==
    PackL1(PackL2(L2_CMD_REQUEST_CHALLENGE, <<[tag |-> 10, value |-> <<39>>]>>),
           0, L1_FLAG_NONE)

\* Nothing where the code raises a ValueError.
ExtractChallenge(body) ==
    LET l2 == ParseL2(body)
    IN  IF l2.cmd = L2_CMD_CHALLENGE /\ TAG_CHALLENGE \in DOMAIN l2.tlvs
        THEN l2.tlvs[TAG_CHALLENGE] ELSE <<>>

BuildAck(seq) == PackL1(<<>>, seq, L1_FLAG_ACK)

MAGIC_UNLOCK == Magic(1)
MAGIC_LOCK   == Magic(2)
Trailer == <<173, 0, 1, 0, 244, 0, 1, 1, 247, 0, 1, 1>>

BuildLockUnlock(ble_id, ble_token, challenge, lock) ==
    LET answer == AnswerChallenge(ble_token, challenge,
                                  IF lock THEN MAGIC_LOCK ELSE MAGIC_UNLOCK)
    IN  PackL1(PackL2(L2_CMD_LOCK_UNLOCK, <<[tag |-> 5, value |-> Big(ble_id)],
                                            [tag |-> 4, value |-> answer]>>) \o Trailer,
               2, L1_FLAG_NONE)
===============================================================================
