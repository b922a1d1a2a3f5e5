--------------------------------- MODULE Snoop ---------------------------------
(***************************************************************************)
(* scripts/parse_snoop.py: what it tells of the messages in a capture.     *)
(* describe_frame decodes their values, and main names them after the      *)
(* characteristics in a dump of gatt_dump.py.                              *)
(***************************************************************************)
EXTENDS Capture, Codec

CONSTANTS
    Meaning,        \* what frames among the values mean
    HandleDumps,    \* the characteristics as they may be dumped: sets of uuids with handles
    Uuids           \* by value handle: the lock's characteristics

\* describe_frame, as data: flags, number, whether the frame is complete, and its L2
\* command, if it has a body; nothing for what is no frame.
Described(value) ==
    LET frame == ParseL1(value)
        l2    == ParseL2(frame.body)
    IN  IF frame.error THEN <<>>
        ELSE <<frame.flags, frame.seq, frame.complete,
               IF ~frame.complete \/ frame.body = <<>> THEN <<>>
               ELSE <<l2.cmd, l2.tlvs>> >>

LoadHandleMap(chars) ==
    [handle \in {char.handle : char \in chars} |->
        (CHOOSE char \in chars : char.handle = handle).uuid]

\* A bug: the handle of a declaration is not looked for.
OnlyValues(names, handle) == IF handle \in DOMAIN names THEN names[handle] ELSE "?"

\* The characteristic that main names, if any: a dump has the handle of its declaration, or
\* that of its value, which is the next.
Name(names, handle) ==
    IF handle \in DOMAIN names THEN names[handle]
    ELSE IF handle - 1 \in DOMAIN names THEN names[handle - 1] ELSE "?"

-------------------------------------------------------------------------------
\* The values found last; every value is, once.
Values == {Last(messages[s]).value : s \in {t \in Streams : messages[t] # <<>>}}

\* What was built by pack_l1, pack_l2 and the builders on them is read back by
\* parse_l1 and parse_l2: flags, number, command and every TLV, the trailer's too, and of
\* one that ends beyond the body what there is (protocol.py:98-161, 212-265,
\* parse_snoop.py:140-156).  It is named after the lock's characteristic and not after a
\* neighbour, whichever handles the dump has (parse_snoop.py:32-41, 175-177).
DescribedAsSent ==
    /\ \A value \in Values \cap DOMAIN Meaning : Described(value) = Meaning[value]
    /\ \A s \in Streams, chars \in HandleDumps : \A m \in Range(messages[s]) :
          m.handle \in DOMAIN Uuids => Name(LoadHandleMap(chars), m.handle) = Uuids[m.handle]

\* The CRC of a frame, computed with the reflected polynomial from the lowest bit up, is
\* that of the catalogue: each byte of the body reversed, divided from the highest bit down by
\* x^16 + x^15 + x^2 + 1, and the remainder reversed (protocol.py:88-108).
Reversed(n, width) ==
    FoldLeft(LAMBDA sum, i : 2 * sum + ((n \div 2 ^ (i - 1)) % 2), 0, [i \in 1 .. width |-> i])
Divided(rest) == IF rest >= 32768 THEN ((2 * rest) % 65536) ^^ 32773 ELSE 2 * rest
Remainder(data) ==
    LET steps[rest \in 0 .. 65535, k \in 0 .. 8] ==
            IF k = 0 THEN rest ELSE steps[Divided(rest), k - 1]
        after[i \in 0 .. Len(data)] ==
            IF i = 0 THEN 0 ELSE steps[after[i - 1] ^^ (256 * Reversed(data[i], 8)), 8]
    IN  Reversed(after[Len(data)], 16)

CrcIsRemainder ==
    \A value \in Values \cap DOMAIN Meaning :
        Meaning[value][3] => BigAt(value, 5) = Remainder(From(value, 9))
===============================================================================
