-------------------------------- MODULE MCTools --------------------------------
(***************************************************************************)
(* A capture of the lock's connection in both directions, with the frames  *)
(* of a handshake among other traffic, and another lock's; a lock with     *)
(* four characteristics; and a cloud with two locks.                       *)
(***************************************************************************)
EXTENDS Tools, Snoop, ChallengeFrames, JsonTrees

LockRx  == [conn |-> 64, dir |-> "rx"]
LockTx  == [conn |-> 64, dir |-> "tx"]
OtherRx == [conn |-> 65, dir |-> "rx"]

Token == [i \in 1 .. 32 |-> 47 + i]
Salt  == [i \in 1 .. 16 |-> (37 * i) % 256]
BleId == 1001

Challenge == PackL1(PackL2(L2_CMD_CHALLENGE, <<[tag |-> TAG_CHALLENGE, value |-> Salt]>>),
                    259, L1_FLAG_DATA)
LockAck   == PackL1(<<>>, 259, L1_FLAG_LOCK_ACK)
\* The client's frames, built from the challenge it got.
Received  == ParseL1(Challenge)
Extracted == ExtractChallenge(Received.body)
AckIt     == BuildAck(Received.seq)
LockIt    == BuildLockUnlock(BleId, Token, Extracted, TRUE)
UnlockIt  == BuildLockUnlock(BleId, Token, Extracted, FALSE)
FirstPart == SubSeq(Challenge, 1, 20)
\* A frame whose last TLV claims nine bytes and has two.
Overlong  == PackL1(<<L2_CMD_CHALLENGE, 0, 16, 0, 1, 7, 17, 0, 9, 1, 2>>, 261, L1_FLAG_DATA)

Pdu(cid, data) == [cid |-> cid, data |-> data]
Att(opcode, handle, value) == Pdu(ATT_CID, <<opcode>> \o Little(handle) \o value)

\* Among them are PDUs that are no messages: of another channel, a read response and
\* a PDU of one byte.
Exchange ==
    LockRx :> {Att(ATT_NOTIFY, 21, Challenge), Att(ATT_NOTIFY, 21, FirstPart),
               Pdu(6, Challenge)}
    @@ LockTx :> {Att(ATT_WRITE_CMD, 19, BuildChallengeRequest),
                  Att(ATT_WRITE_CMD, 19, AckIt), Att(ATT_WRITE_CMD, 19, LockIt),
                  Att(ATT_WRITE_REQ, 19, UnlockIt)}
    @@ OtherRx :> {Att(ATT_INDICATE, 300, Overlong), Att(11, 21, Salt), Pdu(ATT_CID, <<19>>)}

Frame(flags, seq, l2) == <<flags, seq, TRUE, l2>>
Command(cmd, tlvs) == <<cmd, tlvs>>

\* The key is the second half of the token, the cipher that of Codec.
AnswerOf(first) ==
    XorBytes([i \in 1 .. 16 |-> (Salt[i] + 63 + i) % 256],
        <<first, 0, 0, 0, 0, 0, 0, 0, 0, 0, 0>> \o <<108, 111, 111, 99, 107>>)
Order(first) ==
    Frame(0, 2, Command(4, 5 :> <<3, 233>> @@ 4 :> AnswerOf(first)
                             @@ 173 :> <<0>> @@ 244 :> <<1>> @@ 247 :> <<1>>))

FrameMeaning ==
    Challenge :> Frame(64, 259, Command(134, 210 :> Salt))
    @@ FirstPart :> <<64, 259, FALSE, <<>> >>
    @@ BuildChallengeRequest :> Frame(0, 0, Command(145, 10 :> <<39>>))
    @@ Overlong :> Frame(64, 261, Command(134, 16 :> <<7>> @@ 17 :> <<1, 2>>))
    @@ AckIt :> Frame(8, 259, <<>>)
    @@ LockIt :> Order(2)
    @@ UnlockIt :> Order(1)

\* Everything, all but the end of a full fragment, less than an L2CAP header.
Snaps == {65535, 31, 7}

\* A characteristic's value has the handle after its declaration's.
ValueHandles == 17 :> "state" @@ 19 :> "nus_write" @@ 21 :> "nus"
Handles ==
    {{[uuid |-> ValueHandles[h], handle |-> h - d] : h \in DOMAIN ValueHandles} : d \in {0, 1}}

-------------------------------------------------------------------------------
Characteristics ==
    <<[uuid |-> "battery", props |-> {"read"}], [uuid |-> "state", props |-> {"read", "notify"}],
      [uuid |-> "nus_write", props |-> {"write"}], [uuid |-> "nus", props |-> {"notify"}]>>

\* Two challenges in two notifications each, of which the later counts, an acknowledgement
\* in one, and bytes that are no frame.
Second == PackL1(PackL2(L2_CMD_CHALLENGE, <<[tag |-> TAG_CHALLENGE, value |-> Reverse(Salt)]>>),
                 260, L1_FLAG_DATA)

Sayings == "state" :> {Challenge, Salt} @@ "nus" :> {Second, LockAck}

Reading(entry, nonceIn) == [entry |-> entry, nonce |-> nonceIn]
Readings ==
    Challenge :> Reading(<<64, 259, 134, 210 :> Salt>>, Salt)
    @@ Second :> Reading(<<64, 260, 134, 210 :> Reverse(Salt)>>, Reverse(Salt))
    @@ LockAck :> Reading(<<72, 259>>, <<>>)

-------------------------------------------------------------------------------
\* One lock whose mac has the model in it, and one whose mac has no dots.
RawDictA == Dict("mac" :> Value("aa") @@ "params" :> List(<<Value("x"), Value("blob")>>))
RawDictB == Dict("access_token" :> Value("session"))
TwoLocks ==
    <<[mac |-> <<"YD", "LO1", "aa">>, uuid |-> "aa", id |-> "1001", token |-> "token_aa",
       raw_dict |-> Walk(RawDictA, "$", "$")],
      [mac |-> <<"bb">>, uuid |-> "bb", id |-> "1002", token |-> "token_bb",
       raw_dict |-> Walk(RawDictB, "$", "$")]>>

\* An answer with the session's credentials in a dictionary and in a list.
Info ==
    Dict("data" :> List(<<Dict("refresh_token" :> Value("refresh") @@ "pin" :> Value("1"))>>)
         @@ "access_token" :> List(<<Value("session")>>))
Details2 == {Walk(Info, "$", "$")}

\* These, and all that can be built of few leaves, keys and items in two levels.
Above(trees) ==
    {Dict(entries) : entries \in UNION {[keys -> trees] : keys \in SUBSET {"pin", "refresh_token"}}}
    \cup {List(items) : items \in UNION {[1 .. n -> trees] : n \in 0 .. 2}}
Documents ==
    LET values == {Value("refresh")}
        small  == values \cup Above(values)
    IN  {RawDictA, RawDictB, Info} \cup small \cup Above(small)

\* What the expressions find among the keys, with and without an index behind them.
CredentialNames == {"access_token", "access_token[0]", "refresh_token"}
SuspiciousNames == CredentialNames \cup {"token", "uuid", "pin"}
SessionValues   == {"session", "refresh"}
BlobValues      == {"blob", "token_aa"}
===============================================================================
