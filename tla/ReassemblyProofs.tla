---------------------------- MODULE ReassemblyProofs ----------------------------
(***************************************************************************)
(* Reassembly for every set of kinds, every ATT payload and any number of  *)
(* losses: ReassemblyInv is inductive, and what the runs check follows.    *)
(***************************************************************************)
EXTENDS Reassembly, TLAPS

\* The bytes in front of others in the order they are sent in.
Before(b, c) == b.frame < c.frame \/ (b.frame = c.frame /\ b.at < c.at)

\* What one notification holds: bytes a to a + len - 1 of frame n; m is the frame's size.
Holds(part, n, a, len, m) ==
    /\ part \in Seq(Bytes) /\ Len(part) = len
    /\ n \in Nat \ {0} /\ m \in Nat /\ m >= L1_HEADER_LEN
    /\ a \in 1 .. m /\ len \in Nat \ {0}
    /\ len = IF a + Mtu <= m + 1 THEN Mtu ELSE m + 1 - a
    /\ \A i \in 1 .. len : part[i] = Byte(n, a + i - 1)

\* What frame n, of m bytes, is sent in: the first part starts it, each starts where the
\* one in front of it ended, and the last ends it.
InParts(parts, n, m) ==
    /\ parts \in Seq(Seq(Bytes)) /\ parts # <<>>
    /\ \A j \in 1 .. Len(parts) : \E a \in 1 .. m, len \in Nat \ {0} :
          /\ Holds(parts[j], n, a, len, m)
          /\ j = 1 => a = 1
          /\ j < Len(parts) => a + len <= m /\ parts[j + 1][1] = Byte(n, a + len)
          /\ j = Len(parts) => a + len = m + 1

-------------------------------------------------------------------------------
(***************************************************************************)
(* Arithmetic.                                                             *)
(***************************************************************************)
\* Division leaves a remainder smaller than the divisor.
LEMMA Division ==
    ASSUME NEW m \in Nat, NEW b \in Nat \ {0}
    PROVE  /\ m \div b \in Nat
           /\ m % b \in 0 .. b - 1
           /\ m = (m \div b) * b + (m % b)
  OBVIOUS

\* A larger factor gives a larger product.
LEMMA Product ==
    ASSUME NEW j \in Nat, NEW k \in Nat, NEW b \in Nat
    PROVE  /\ j * b \in Nat
           /\ (j + 1) * b = j * b + b
           /\ j <= k => j * b <= k * b
  OBVIOUS

\* The last of the multiples of b below m is as far from m as the remainder says.
LEMMA LastMultiple ==
    ASSUME NEW m \in Nat, NEW b \in Nat \ {0}, NEW j \in Nat,
           j * b < m, m < j * b + b
    PROVE  m % b = m - j * b
  <1> DEFINE q == m \div b
  <1>1. q \in Nat /\ m % b \in 0 .. b - 1 /\ m = q * b + (m % b)
    BY Division
  <1> HIDE DEF q
  <1>2. ~(j < q)
    <2>1. j < q => (j + 1) * b <= q * b
      BY <1>1, Product
    <2>2. (j + 1) * b = j * b + b /\ q * b <= m
      BY <1>1, Product
    <2> QED BY <1>1, <2>1, <2>2, Product
  <1>3. ~(q < j)
    <2>1. q < j => (q + 1) * b <= j * b
      BY <1>1, Product
    <2>2. (q + 1) * b = q * b + b /\ m < q * b + b
      BY <1>1, Product
    <2> QED BY <1>1, <2>1, <2>2, Product
  <1>4. j = q
    BY <1>1, <1>2, <1>3
  <1> QED BY <1>1, <1>4, Product

\* Rounded up, the quotient is the number of parts of at most b into which m falls.
LEMMA RoundedUp ==
    ASSUME NEW m \in Nat \ {0}, NEW b \in Nat \ {0}
    PROVE  LET q == (m + b - 1) \div b
           IN  /\ q \in Nat \ {0}
               /\ \A j \in 1 .. q : (j - 1) * b < m
               /\ m <= q * b
  <1> DEFINE q == (m + b - 1) \div b
  <1>0. m + b - 1 \in Nat
    OBVIOUS
  <1>1. /\ q \in Nat
        /\ (m + b - 1) % b \in 0 .. b - 1
        /\ m + b - 1 = q * b + ((m + b - 1) % b)
    BY <1>0, Division
  <1> HIDE DEF q
  <1>2. m + b - 1 <= q * b + b - 1 /\ q * b <= m + b - 1
    BY <1>1, Product
  <1>3. m <= q * b
    BY <1>1, <1>2, Product
  <1>4. q # 0
    BY <1>3
  <1>5. ASSUME NEW j \in 1 .. q PROVE (j - 1) * b < m
    <2>1. j - 1 \in Nat /\ q - 1 \in Nat /\ j - 1 <= q - 1
      BY <1>1, <1>4
    <2>2. (j - 1) * b <= (q - 1) * b /\ (q - 1) * b \in Nat
      BY <2>1, Product
    <2>3. (q - 1 + 1) * b = (q - 1) * b + b /\ q - 1 + 1 = q
      BY <1>1, <2>1, Product
    <2>4. (j - 1) * b \in Nat
      BY <2>1, Product
    <2> QED BY <1>2, <2>2, <2>3, <2>4
  <1> QED BY <1>1, <1>3, <1>4, <1>5 DEF q

-------------------------------------------------------------------------------
(***************************************************************************)
(* Frames and their parts.                                                 *)
(***************************************************************************)
\* A frame has a length, and at least its header.
LEMMA LengthTyped ==
    ASSUME NEW kind \in Kinds
    PROVE  FrameLength(kind) \in Nat /\ FrameLength(kind) >= L1_HEADER_LEN
  BY LengthAssumption DEF FrameLength, L1_HEADER_LEN

\* So have the frames sent.
LEMMA SizeTyped ==
    ASSUME sent \in Seq(Kinds), NEW n \in DOMAIN sent
    PROVE  FrameSize(n) \in Nat /\ FrameSize(n) >= L1_HEADER_LEN
  BY LengthTyped DEF FrameSize

\* What IsPart says, byte by byte.
LEMMA PartHolds ==
    ASSUME sent \in Seq(Kinds), NEW part, IsPart(part)
    PROVE  \E n \in DOMAIN sent : \E a \in 1 .. FrameSize(n), len \in Nat \ {0} :
               Holds(part, n, a, len, FrameSize(n))
  <1>0. PICK n \in DOMAIN sent : \E a \in 1 .. FrameSize(n) : part = PartOf(n, a, FrameSize(n))
    BY DEF IsPart
  <1>1. PICK a \in 1 .. FrameSize(n) : part = PartOf(n, a, FrameSize(n))
    BY <1>0
  <1>2. FrameSize(n) \in Nat /\ FrameSize(n) >= L1_HEADER_LEN /\ n \in Nat \ {0}
    BY SizeTyped
  <1> DEFINE len == IF a + Mtu <= FrameSize(n) + 1 THEN Mtu ELSE FrameSize(n) + 1 - a
  <1>3. len \in Nat \ {0}
    BY <1>2, MtuAssumption DEF L1_HEADER_LEN
  <1>4. part = [i \in 1 .. len |-> Byte(n, a + i - 1)]
    BY <1>1 DEF PartOf
  <1>5. \A i \in 1 .. len : Byte(n, a + i - 1) \in Bytes
    BY <1>2, <1>3 DEF Byte, Bytes
  <1> HIDE DEF len
  <1>6. part \in Seq(Bytes) /\ Len(part) = len
    BY <1>3, <1>4, <1>5
  <1>7. Holds(part, n, a, len, FrameSize(n))
    BY <1>2, <1>3, <1>4, <1>6 DEF Holds, len
  <1> QED BY <1>3, <1>7

\* The converse.
LEMMA HoldsIsPart ==
    ASSUME NEW part, NEW n, NEW a, NEW len, NEW m, Holds(part, n, a, len, m)
    PROVE  part = PartOf(n, a, m)
  <1>1. part = [i \in 1 .. len |-> part[i]]
    BY DEF Holds
  <1>2. part = [i \in 1 .. len |-> Byte(n, a + i - 1)]
    BY <1>1 DEF Holds
  <1> QED BY <1>2 DEF Holds, PartOf

\* The last byte.
LEMMA LastByte ==
    ASSUME NEW part, NEW n, NEW a, NEW len, NEW m, Holds(part, n, a, len, m)
    PROVE  Last(part) = Byte(n, a + len - 1)
  BY DEF Holds, Last

\* The byte to follow is the next of the frame, or the first of the next frame.
LEMMA FollowingByte ==
    ASSUME NEW part, NEW n, NEW a, NEW len, Holds(part, n, a, len, FrameSize(n))
    PROVE  Following(part) = IF a + len = FrameSize(n) + 1 THEN Byte(n + 1, 1)
                             ELSE Byte(n, a + len)
  <1>1. Last(part) = Byte(n, a + len - 1)
    BY LastByte
  <1>2. a \in Nat /\ len \in Nat /\ FrameSize(n) \in Nat
    BY DEF Holds
  <1> QED BY <1>1, <1>2 DEF Following, Byte

\* A function on 1 .. q is a sequence of that length.
LEMMA ListIsSeq ==
    ASSUME NEW S, NEW q \in Nat \ {0}, NEW f, f = [j \in 1 .. q |-> f[j]],
           \A j \in 1 .. q : f[j] \in S
    PROVE  f \in Seq(S) /\ Len(f) = q /\ f # <<>>
  OBVIOUS

\* An element of a sequence is one of the set it is over.
LEMMA ElementOf ==
    ASSUME NEW S, NEW s \in Seq(S), NEW i \in 1 .. Len(s)
    PROVE  s[i] \in S
  OBVIOUS

\* A sequence that has elements has a first one.
LEMMA HeadIsFirst ==
    ASSUME NEW S, NEW s \in Seq(S), Len(s) # 0
    PROVE  s # <<>> /\ Head(s) = s[1] /\ 1 \in DOMAIN s
  OBVIOUS

\* The lock sends a frame in parts.
LEMMA NotificationsHold ==
    ASSUME NEW n \in Nat \ {0}, NEW kind \in Kinds
    PROVE  InParts(Notifications(n, kind), n, FrameLength(kind))
  <1> DEFINE parts == Notifications(n, kind)
             m     == FrameLength(kind)
             q     == (m + Mtu - 1) \div Mtu
             size(j) == IF j * Mtu <= m THEN Mtu ELSE m % Mtu
  <1>1. /\ m \in Nat \ {0} /\ m >= L1_HEADER_LEN
        /\ Mtu \in Nat \ {0} /\ Mtu >= L1_HEADER_LEN
    BY LengthTyped, MtuAssumption DEF L1_HEADER_LEN
  <1> HIDE DEF m
  <1>2. /\ q \in Nat \ {0}
        /\ \A j \in 1 .. q : (j - 1) * Mtu < m
        /\ m <= q * Mtu
    BY <1>1, RoundedUp
  <1>3. parts = [j \in 1 .. q |-> [i \in 1 .. size(j) |-> Byte(n, (j - 1) * Mtu + i)]]
    BY DEF Notifications, Byte, m
  <1> HIDE DEF q, parts
  <1>4. ASSUME NEW j \in 1 .. q
        PROVE  /\ (j - 1) * Mtu \in Nat /\ j * Mtu \in Nat
               /\ j * Mtu = (j - 1) * Mtu + Mtu
               /\ (j - 1) * Mtu < m
               /\ size(j) = IF (j - 1) * Mtu + Mtu <= m THEN Mtu ELSE m - (j - 1) * Mtu
               /\ size(j) \in Nat \ {0}
    <2>1. j - 1 \in Nat /\ j \in Nat /\ j - 1 + 1 = j
      BY <1>2
    <2>2. (j - 1) * Mtu \in Nat /\ j * Mtu \in Nat /\ j * Mtu = (j - 1) * Mtu + Mtu
      BY <1>1, <2>1, Product
    <2>3. (j - 1) * Mtu < m
      BY <1>2
    <2>4. m < (j - 1) * Mtu + Mtu => m % Mtu = m - (j - 1) * Mtu
      BY <1>1, <2>1, <2>3, LastMultiple
    <2>5. size(j) = IF (j - 1) * Mtu + Mtu <= m THEN Mtu ELSE m - (j - 1) * Mtu
      <3>1. CASE j * Mtu <= m
        BY <2>2, <3>1
      <3>2. CASE ~(j * Mtu <= m)
        BY <1>1, <2>2, <2>4, <3>2
      <3> QED BY <3>1, <3>2
    <2>6. size(j) \in Nat \ {0}
      BY <1>1, <2>2, <2>3, <2>5
    <2> QED BY <2>2, <2>3, <2>5, <2>6
  <1> HIDE DEF size
  <1>5. ASSUME NEW j \in 1 .. q
        PROVE  Holds(parts[j], n, (j - 1) * Mtu + 1, size(j), m)
    <2> DEFINE a == (j - 1) * Mtu
    <2>1. parts[j] = [i \in 1 .. size(j) |-> Byte(n, a + i)]
      BY <1>3
    <2>2. /\ a \in Nat /\ a < m /\ size(j) \in Nat \ {0}
          /\ size(j) = IF a + Mtu <= m THEN Mtu ELSE m - a
      BY <1>4
    <2> HIDE DEF a
    <2>3. parts[j] \in Seq(Bytes) /\ Len(parts[j]) = size(j)
      <3>1. \A i \in 1 .. size(j) : Byte(n, a + i) \in Bytes
        BY <2>2 DEF Byte, Bytes
      <3> QED BY <2>1, <2>2, <3>1
    <2>4. \A i \in 1 .. size(j) : parts[j][i] = Byte(n, a + 1 + i - 1)
      BY <2>1, <2>2
    <2>5. /\ a + 1 \in 1 .. m
          /\ size(j) = IF a + 1 + Mtu <= m + 1 THEN Mtu ELSE m + 1 - (a + 1)
      BY <1>1, <2>2
    <2>6. Holds(parts[j], n, a + 1, size(j), m)
      BY <1>1, <2>2, <2>3, <2>4, <2>5 DEF Holds
    <2> QED BY <2>6 DEF a
  <1>6. parts \in Seq(Seq(Bytes)) /\ Len(parts) = q /\ parts # <<>>
    <2>1. \A j \in 1 .. q : parts[j] \in Seq(Bytes)
      BY <1>5 DEF Holds
    <2>2. parts = [j \in 1 .. q |-> parts[j]]
      BY <1>3
    <2> QED BY <1>2, <2>1, <2>2, ListIsSeq
  <1>7. ASSUME NEW j \in 1 .. Len(parts)
        PROVE  \E a \in 1 .. m, len \in Nat \ {0} :
                  /\ Holds(parts[j], n, a, len, m)
                  /\ j = 1 => a = 1
                  /\ j < Len(parts) => a + len <= m /\ parts[j + 1][1] = Byte(n, a + len)
                  /\ j = Len(parts) => a + len = m + 1
    <2>0. j \in 1 .. q
      BY <1>6
    <2> DEFINE a == (j - 1) * Mtu + 1
    <2>1. /\ (j - 1) * Mtu \in Nat /\ (j - 1) * Mtu < m
          /\ size(j) \in Nat \ {0} /\ j * Mtu = (j - 1) * Mtu + Mtu
          /\ size(j) = IF (j - 1) * Mtu + Mtu <= m THEN Mtu ELSE m - (j - 1) * Mtu
      BY <1>4, <2>0
    <2>2. a \in 1 .. m /\ Holds(parts[j], n, a, size(j), m)
      BY <1>1, <1>5, <2>0, <2>1
    <2>3. j = 1 => a = 1
      BY <1>1, Product
    <2>4. ASSUME j < Len(parts)
          PROVE  a + size(j) <= m /\ parts[j + 1][1] = Byte(n, a + size(j))
      <3>1. j + 1 \in 1 .. q /\ j + 1 - 1 = j
        BY <1>2, <1>6, <2>0, <2>4
      <3>2. j * Mtu < m
        BY <1>4, <3>1
      <3>3. size(j) = Mtu /\ a + size(j) = j * Mtu + 1
        BY <1>1, <2>1, <3>2
      <3>4. parts[j + 1][1] = Byte(n, j * Mtu + 1)
        <4>1. Holds(parts[j + 1], n, j * Mtu + 1, size(j + 1), m)
          BY <1>5, <3>1
        <4>2. j * Mtu \in Nat
          BY <1>4, <2>0
        <4>3. 1 \in 1 .. size(j + 1) /\ j * Mtu + 1 + 1 - 1 = j * Mtu + 1
          BY <4>1, <4>2 DEF Holds
        <4> QED BY <4>1, <4>3 DEF Holds
      <3> QED BY <1>1, <2>1, <3>2, <3>3, <3>4
    <2>5. ASSUME j = Len(parts) PROVE a + size(j) = m + 1
      <3>1. m <= j * Mtu
        BY <1>2, <1>6, <2>5
      <3> QED BY <1>1, <2>1, <3>1
    <2> HIDE DEF a
    <2> QED BY <2>1, <2>2, <2>3, <2>4, <2>5
  <1>8. InParts(parts, n, m)
    BY <1>6, <1>7 DEF InParts
  <1> QED BY <1>8 DEF parts, m

-------------------------------------------------------------------------------
(***************************************************************************)
(* What is under way.                                                      *)
(***************************************************************************)
\* The notification that is lost or arrives: bytes a to a + len - 1 of frame n.
Delivers(n, a, len) ==
    /\ n \in DOMAIN sent
    /\ Holds(Head(air), n, a, len, FrameSize(n))
    /\ NextByte = Byte(n, a)
    /\ NextByte' = IF a + len = FrameSize(n) + 1 THEN Byte(n + 1, 1) ELSE Byte(n, a + len)

\* The next byte is one of a frame sent, or the first of the frame to be sent next.
LEMMA NextTyped ==
    ASSUME sent \in Seq(Kinds), AirIsGapless
    PROVE  /\ NextByte.frame \in 1 .. Len(sent) + 1
           /\ NextByte.at \in Nat \ {0}
           /\ air = <<>> => NextByte.frame = Len(sent) + 1 /\ NextByte.at = 1
           /\ air # <<>> => NextByte.frame \in DOMAIN sent
                            /\ NextByte.at <= FrameSize(NextByte.frame)
  <1>1. CASE air = <<>>
    BY <1>1 DEF NextByte, Byte
  <1>2. CASE air # <<>>
    <2>1. 1 \in DOMAIN air /\ Head(air) = air[1]
      BY <1>2 DEF AirIsGapless
    <2>2. PICK n \in DOMAIN sent : \E a \in 1 .. FrameSize(n), len \in Nat \ {0} :
                 Holds(air[1], n, a, len, FrameSize(n))
      BY <2>1, PartHolds DEF AirIsGapless
    <2>3. PICK a \in 1 .. FrameSize(n), len \in Nat \ {0} :
                 Holds(air[1], n, a, len, FrameSize(n))
      BY <2>2
    <2>4. air[1][1] = Byte(n, a) /\ a \in Nat \ {0} /\ a <= FrameSize(n)
      BY <2>3 DEF Holds
    <2> QED BY <1>2, <2>1, <2>4 DEF NextByte, Byte
  <1> QED BY <1>1, <1>2

\* What is left when the first notification is gone.
LEMMA Taken ==
    ASSUME sent \in Seq(Kinds), AirIsGapless, air # <<>>, air' = Tail(air), UNCHANGED sent
    PROVE  /\ AirIsGapless'
           /\ \E n \in DOMAIN sent : \E a \in 1 .. FrameSize(n), len \in Nat \ {0} :
                 Delivers(n, a, len)
  <1>1. /\ air \in Seq(Seq(Bytes)) /\ Len(air) \in Nat \ {0} /\ 1 \in DOMAIN air
        /\ Head(air) = air[1] /\ Len(sent) \in Nat /\ DOMAIN air = 1 .. Len(air)
    BY DEF AirIsGapless
  <1>2. /\ air' \in Seq(Seq(Bytes)) /\ Len(air') = Len(air) - 1
        /\ \A k \in 1 .. Len(air) - 1 : air'[k] = air[k + 1]
        /\ DOMAIN air' = 1 .. Len(air) - 1
    BY <1>1
  <1>3. NextByte = air[1][1]
    BY <1>1 DEF NextByte
  <1>4. NextByte' = Following(air[1])
    <2>1. Following(air[1]) = IF 1 < Len(air) THEN air[2][1] ELSE Byte(Len(sent) + 1, 1)
      <3>1. Following(air[1]) = IF 1 < Len(air) THEN air[1 + 1][1] ELSE Byte(Len(sent) + 1, 1)
        BY <1>1 DEF AirIsGapless
      <3> QED BY <3>1
    <2>2. CASE Len(air) = 1
      <3>1. air' = <<>>
        BY <1>1, <1>2, <2>2
      <3> QED BY <2>1, <2>2, <3>1 DEF NextByte, Byte
    <2>3. CASE Len(air) # 1
      <3>1. air' # <<>> /\ Head(air') = air[2] /\ 1 < Len(air)
        <4>1. Len(air') \in Nat \ {0} /\ 1 \in 1 .. Len(air) - 1 /\ 1 + 1 = 2
          BY <1>1, <1>2, <2>3
        <4>2. air'[1] = air[1 + 1]
          BY <1>2, <4>1
        <4>3. air' # <<>> /\ Head(air') = air'[1]
          BY <1>2, <4>1, HeadIsFirst
        <4> QED BY <1>1, <2>3, <4>1, <4>2, <4>3
      <3> QED BY <2>1, <3>1 DEF NextByte
    <2> QED BY <2>2, <2>3
  <1>5. PICK n \in DOMAIN sent : \E a \in 1 .. FrameSize(n), len \in Nat \ {0} :
               Holds(air[1], n, a, len, FrameSize(n))
    BY <1>1, PartHolds DEF AirIsGapless
  <1>6. PICK a \in 1 .. FrameSize(n), len \in Nat \ {0} :
               Holds(air[1], n, a, len, FrameSize(n))
    BY <1>5
  <1>7. air[1][1] = Byte(n, a) /\ n \in Nat /\ a \in Nat
    BY <1>6 DEF Holds
  <1>8. Delivers(n, a, len)
    BY <1>1, <1>3, <1>4, <1>6, <1>7, FollowingByte DEF Delivers
  <1>9. ASSUME NEW k \in DOMAIN air'
        PROVE  /\ IsPart(air[k])'
               /\ Following(air[k])' =
                     IF k < Len(air') THEN air'[k + 1][1] ELSE Byte(Len(sent') + 1, 1)
    <2>1. k + 1 \in DOMAIN air /\ air'[k] = air[k + 1] /\ k \in Nat
      BY <1>1, <1>2
    <2>2. /\ IsPart(air[k + 1])
          /\ Following(air[k + 1]) =
                IF k + 1 < Len(air) THEN air[k + 1 + 1][1] ELSE Byte(Len(sent) + 1, 1)
      BY <2>1 DEF AirIsGapless
    <2>3. k < Len(air') => air'[k + 1] = air[k + 1 + 1] /\ k + 1 < Len(air)
      BY <1>1, <1>2, <2>1
    <2>4. ~(k < Len(air')) => ~(k + 1 < Len(air))
      BY <1>1, <1>2, <2>1
    <2>5. IsPart(air[k])'
      <3>1. PICK i \in DOMAIN sent : \E b \in 1 .. FrameSize(i) :
                   air[k + 1] = PartOf(i, b, FrameSize(i))
        BY <2>2 DEF IsPart
      <3>2. FrameSize(i)' = FrameSize(i)
        BY DEF FrameSize
      <3> QED BY <2>1, <3>1, <3>2 DEF IsPart
    <2>6. Following(air[k])' = Following(air[k + 1])
      BY <2>1 DEF Following, FrameSize
    <2> QED BY <2>2, <2>3, <2>4, <2>5, <2>6
  <1>10. ASSUME NEW i \in NextByte'.frame .. Len(sent')
         PROVE  \E k \in DOMAIN air' : air'[k][1].frame = i
    <2>0. /\ NextByte.frame = n /\ n \in Nat
          /\ NextByte'.frame \in {n, n + 1}
          /\ air[1][1].frame = n
      BY <1>7, <1>8 DEF Delivers, Byte
    <2>1. i \in NextByte.frame .. Len(sent)
      BY <1>1, <2>0
    <2>2. PICK k \in DOMAIN air : air[k][1].frame = i
      BY <2>1 DEF AirIsGapless
    <2>3. CASE k # 1
      <3>1. k - 1 \in DOMAIN air' /\ air'[k - 1] = air[k]
        BY <1>1, <1>2, <2>3
      <3> QED BY <2>2, <3>1
    <2>4. CASE k = 1
      <3>1. i = n /\ NextByte'.frame = n
        BY <1>1, <2>0, <2>2, <2>4
      <3>2. air' # <<>>
        <4>1. air' = <<>> => NextByte'.frame = Len(sent) + 1
          BY DEF NextByte, Byte
        <4> QED BY <1>1, <3>1, <4>1
      <3>3. 1 \in DOMAIN air' /\ NextByte' = air'[1][1]
        BY <1>1, <1>2, <3>2 DEF NextByte
      <3> QED BY <3>1, <3>3
    <2> QED BY <2>3, <2>4
  <1>11. AirIsGapless'
    BY <1>2, <1>9, <1>10 DEF AirIsGapless
  <1> QED BY <1>8, <1>11

\* What comes behind a sequence, place by place.
LEMMA Joined ==
    ASSUME NEW S, NEW s \in Seq(S), NEW t \in Seq(S), t # <<>>
    PROVE  /\ s \o t \in Seq(S) /\ Len(s \o t) = Len(s) + Len(t)
           /\ Len(s) \in Nat /\ Len(t) \in Nat \ {0}
           /\ DOMAIN s = 1 .. Len(s) /\ DOMAIN t = 1 .. Len(t)
           /\ DOMAIN (s \o t) = 1 .. Len(s) + Len(t)
           /\ \A k \in 1 .. Len(s) : (s \o t)[k] = s[k]
           /\ \A k \in 1 .. Len(t) : (s \o t)[Len(s) + k] = t[k]
           /\ (s \o t)[1] = IF s = <<>> THEN t[1] ELSE s[1]
           /\ s \o t # <<>> /\ Head(s \o t) = (s \o t)[1]
           /\ s # <<>> => Head(s) = s[1]
  OBVIOUS

\* The part a frame starts with is not empty, so that nothing is skipped.
LEMMA Sent ==
    ASSUME sent \in Seq(Kinds), AirIsGapless, SendFrame
    PROVE  /\ sent' \in Seq(Kinds) /\ Len(sent') = Len(sent) + 1
           /\ \A n \in DOMAIN sent : n \in DOMAIN sent' /\ FrameSize(n)' = FrameSize(n)
           /\ AirIsGapless' /\ NextByte' = NextByte
  <1>1. PICK kind \in Kinds :
           /\ sent' = Append(sent, kind)
           /\ air' = air \o Notifications(Len(sent) + 1, kind)
    BY DEF SendFrame
  <1>2. PICK new : new = Len(sent) + 1
    OBVIOUS
  <1>3. PICK parts : parts = Notifications(new, kind)
    OBVIOUS
  <1>4. PICK m : m = FrameLength(kind)
    OBVIOUS
  <1>5. PICK base : base = Len(air)
    OBVIOUS
  <1>6. /\ new \in Nat \ {0} /\ Len(sent) \in Nat
        /\ sent' \in Seq(Kinds) /\ Len(sent') = new
        /\ DOMAIN sent = 1 .. Len(sent) /\ DOMAIN sent' = 1 .. new
        /\ \A n \in DOMAIN sent : sent'[n] = sent[n]
        /\ sent'[new] = kind
    BY <1>1, <1>2
  <1>7. \A n \in DOMAIN sent : n \in DOMAIN sent' /\ FrameSize(n)' = FrameSize(n)
    BY <1>2, <1>6 DEF FrameSize
  <1>8. new \in DOMAIN sent' /\ FrameSize(new)' = m
    BY <1>4, <1>6 DEF FrameSize
  <1>9. /\ parts \in Seq(Seq(Bytes)) /\ parts # <<>>
        /\ \A j \in 1 .. Len(parts) : \E a \in 1 .. m, len \in Nat \ {0} :
              /\ Holds(parts[j], new, a, len, m)
              /\ j = 1 => a = 1
              /\ j < Len(parts) => a + len <= m /\ parts[j + 1][1] = Byte(new, a + len)
              /\ j = Len(parts) => a + len = m + 1
    <2>1. InParts(parts, new, m)
      BY <1>3, <1>4, <1>6, NotificationsHold
    <2> QED BY <2>1 DEF InParts
  <1>10. air \in Seq(Seq(Bytes)) /\ air' = air \o parts
    BY <1>1, <1>2, <1>3 DEF AirIsGapless
  <1>11. /\ base \in Nat /\ Len(parts) \in Nat \ {0}
         /\ DOMAIN air = 1 .. base /\ DOMAIN parts = 1 .. Len(parts)
         /\ air' \in Seq(Seq(Bytes)) /\ Len(air') = base + Len(parts)
         /\ \A k \in 1 .. base : air'[k] = air[k]
         /\ \A j \in 1 .. Len(parts) : air'[base + j] = parts[j]
         /\ DOMAIN air' = 1 .. base + Len(parts)
         /\ air' # <<>> /\ Head(air') = air'[1]
         /\ air'[1] = IF air = <<>> THEN parts[1] ELSE air[1]
         /\ air # <<>> => Head(air) = air[1]
    BY <1>5, <1>9, <1>10, Joined
  <1>12. parts[1][1] = Byte(new, 1)
    <2>1. 1 \in 1 .. Len(parts)
      BY <1>11
    <2>2. PICK a \in 1 .. m, len \in Nat \ {0} :
              Holds(parts[1], new, a, len, m) /\ (1 = 1 => a = 1)
      BY <1>9, <2>1
    <2> QED BY <2>2 DEF Holds
  <1>13. NextByte' = NextByte
    BY <1>2, <1>11, <1>12 DEF NextByte
  <1>14. ASSUME NEW k \in 1 .. base
         PROVE  /\ IsPart(air[k])'
                /\ Following(air[k])' =
                      IF k < Len(air') THEN air'[k + 1][1] ELSE Byte(Len(sent') + 1, 1)
    <2>1. air'[k] = air[k] /\ k \in Nat /\ k < Len(air') /\ k \in DOMAIN air
      BY <1>11
    <2>2. PICK n \in DOMAIN sent : \E a \in 1 .. FrameSize(n), len \in Nat \ {0} :
                 Holds(air[k], n, a, len, FrameSize(n))
      BY <2>1, PartHolds DEF AirIsGapless
    <2>3. PICK a \in 1 .. FrameSize(n), len \in Nat \ {0} :
                 Holds(air[k], n, a, len, FrameSize(n))
      BY <2>2
    <2>4. IsPart(air[k])'
      <3>1. air[k] = PartOf(n, a, FrameSize(n))
        BY <2>3, HoldsIsPart
      <3> QED BY <1>7, <2>1, <3>1 DEF IsPart
    <2>5. Following(air[k])' = Following(air[k])
      <3>1. Last(air[k]) = Byte(n, a + len - 1)
        BY <2>3, LastByte
      <3>2. Last(air[k])' = Last(air[k])
        BY <2>1 DEF Last
      <3> QED BY <1>7, <3>1, <3>2 DEF Following, Byte
    <2>6. air'[k + 1][1] = IF k < base THEN air[k + 1][1] ELSE Byte(Len(sent) + 1, 1)
      <3>1. CASE k < base
        <4>1. k + 1 \in 1 .. base
          BY <1>11, <3>1
        <4> QED BY <1>11, <3>1, <4>1
      <3>2. CASE ~(k < base)
        <4>1. k + 1 = base + 1 /\ 1 \in 1 .. Len(parts)
          BY <1>11, <3>2
        <4>2. air'[base + 1] = parts[1]
          BY <1>11, <4>1
        <4> QED BY <1>2, <1>12, <3>2, <4>1, <4>2
      <3> QED BY <3>1, <3>2
    <2>7. Following(air[k]) = IF k < base THEN air[k + 1][1] ELSE Byte(Len(sent) + 1, 1)
      BY <1>5, <2>1 DEF AirIsGapless
    <2> QED BY <2>1, <2>4, <2>5, <2>6, <2>7
  <1>15. ASSUME NEW j \in 1 .. Len(parts), NEW k, k = base + j
         PROVE  /\ IsPart(air[k])'
                /\ Following(air[k])' =
                      IF k < Len(air') THEN air'[k + 1][1] ELSE Byte(Len(sent') + 1, 1)
    <2>1. air'[k] = parts[j] /\ k \in Nat /\ j \in Nat
      BY <1>11, <1>15
    <2>2. PICK a \in 1 .. m, len \in Nat \ {0} :
              /\ Holds(parts[j], new, a, len, m)
              /\ j = 1 => a = 1
              /\ j < Len(parts) => a + len <= m /\ parts[j + 1][1] = Byte(new, a + len)
              /\ j = Len(parts) => a + len = m + 1
      BY <1>9
    <2>3. IsPart(air[k])'
      <3>1. parts[j] = PartOf(new, a, m)
        BY <2>2, HoldsIsPart
      <3> QED BY <1>8, <2>1, <3>1 DEF IsPart
    <2>4. Following(air[k])' = IF a + len = m + 1 THEN Byte(new + 1, 1) ELSE Byte(new, a + len)
      <3>1. Last(parts[j]) = Byte(new, a + len - 1)
        BY <2>2, LastByte
      <3>2. Last(air[k])' = Last(parts[j])
        BY <2>1 DEF Last
      <3>3. m \in Nat /\ len \in Nat /\ a \in Nat
        BY <2>2 DEF Holds
      <3> QED BY <1>8, <3>1, <3>2, <3>3 DEF Following, Byte
    <2>5. CASE j < Len(parts)
      <3>1. k < Len(air') /\ j + 1 \in 1 .. Len(parts) /\ k + 1 = base + (j + 1)
        BY <1>11, <1>15, <2>1, <2>5
      <3>2. air'[k + 1] = parts[j + 1]
        BY <1>11, <3>1
      <3>3. a + len # m + 1
        BY <2>2, <2>5 DEF Holds
      <3> QED BY <2>2, <2>3, <2>4, <2>5, <3>1, <3>2, <3>3
    <2>6. CASE ~(j < Len(parts))
      <3>0. Len(parts) \in Nat
        BY <1>11
      <3>1. j = Len(parts)
        BY <3>0, <2>6
      <3>2. k = Len(air')
        BY <1>11, <1>15, <3>1
      <3> QED BY <3>2, <2>1, <1>6, <2>2, <2>3, <2>4, <3>1
    <2> QED BY <2>5, <2>6
  <1>16. ASSUME NEW i \in NextByte'.frame .. Len(sent')
         PROVE  \E k \in DOMAIN air' : air'[k][1].frame = i
    <2>1. CASE i = new
      <3>1. base + 1 \in DOMAIN air' /\ 1 \in 1 .. Len(parts)
        BY <1>11
      <3>2. air'[base + 1] = parts[1]
        BY <1>11, <3>1
      <3> QED BY <1>12, <2>1, <3>1, <3>2 DEF Byte
    <2>2. CASE i # new
      <3>1. i \in NextByte.frame .. Len(sent)
        <4>1. NextByte.frame \in Nat
          BY NextTyped
        <4> QED BY <1>2, <1>6, <1>13, <2>2, <4>1
      <3>2. PICK k \in DOMAIN air : air[k][1].frame = i
        BY <3>1 DEF AirIsGapless
      <3>3. k \in DOMAIN air' /\ air'[k] = air[k]
        BY <1>11
      <3> QED BY <3>2, <3>3
    <2> QED BY <2>1, <2>2
  <1>17. AirIsGapless'
    <2>1. ASSUME NEW k \in DOMAIN air'
          PROVE  k \in 1 .. base \/ \E j \in 1 .. Len(parts) : k = base + j
      <3>1. k \in 1 .. base \/ (k - base \in 1 .. Len(parts) /\ k = base + (k - base))
        BY <1>11
      <3> QED BY <3>1
    <2>2. ASSUME NEW k \in DOMAIN air'
          PROVE  /\ IsPart(air[k])'
                 /\ Following(air[k])' =
                       IF k < Len(air') THEN air'[k + 1][1] ELSE Byte(Len(sent') + 1, 1)
      BY <1>14, <1>15, <2>1
    <2> QED BY <1>11, <1>16, <2>2 DEF AirIsGapless
  <1> QED BY <1>2, <1>6, <1>7, <1>13, <1>17

\* How far that takes the next byte.
LEMMA Moves ==
    ASSUME sent \in Seq(Kinds), NEW n, NEW a, NEW len, Delivers(n, a, len)
    PROVE  /\ n \in 1 .. Len(sent) /\ a \in Nat \ {0} /\ len \in Nat \ {0} /\ Len(sent) \in Nat
           /\ FrameSize(n) \in Nat /\ FrameSize(n) >= L1_HEADER_LEN /\ a <= FrameSize(n)
           /\ len = IF a + Mtu <= FrameSize(n) + 1 THEN Mtu ELSE FrameSize(n) + 1 - a
           /\ NextByte.frame = n /\ NextByte.at = a
           /\ \/ /\ a + len <= FrameSize(n)
                 /\ NextByte'.frame = n /\ NextByte'.at = a + len
              \/ /\ a + len = FrameSize(n) + 1
                 /\ NextByte'.frame = n + 1 /\ NextByte'.at = 1
  <1>1. /\ n \in 1 .. Len(sent) /\ a \in Nat \ {0} /\ len \in Nat \ {0} /\ Len(sent) \in Nat
        /\ FrameSize(n) \in Nat /\ FrameSize(n) >= L1_HEADER_LEN /\ a <= FrameSize(n)
        /\ len = IF a + Mtu <= FrameSize(n) + 1 THEN Mtu ELSE FrameSize(n) + 1 - a
    BY DEF Delivers, Holds
  <1>2. NextByte.frame = n /\ NextByte.at = a
    BY DEF Delivers, Byte
  <1>3. CASE a + len = FrameSize(n) + 1
    <2>1. NextByte' = Byte(n + 1, 1)
      BY <1>3 DEF Delivers
    <2> QED BY <1>1, <1>2, <1>3, <2>1 DEF Byte
  <1>4. CASE a + len # FrameSize(n) + 1
    <2>1. NextByte' = Byte(n, a + len)
      BY <1>4 DEF Delivers
    <2>2. a + len <= FrameSize(n)
      BY <1>1, <1>4, MtuAssumption
    <2> QED BY <1>1, <1>2, <2>1, <2>2 DEF Byte
  <1> QED BY <1>3, <1>4

-------------------------------------------------------------------------------
(***************************************************************************)
(* What a step of on_nus finds in the buffer, and what it makes of it.     *)
(***************************************************************************)
Receives == Reject \/ Collect \/ PassOn

\* The buffer with the bytes of a notification behind it.
Takes(n, a, len) ==
    /\ Received \in Seq(Bytes) /\ Len(Received) = Len(rx) + len /\ Len(rx) \in Nat
    /\ \A i \in 1 .. Len(rx) : Received[i] = rx[i]
    /\ \A i \in 1 .. len : Received[Len(rx) + i] = Byte(n, a + i - 1)
    /\ Received[1] = IF rx = <<>> THEN Byte(n, a) ELSE rx[1]

LEMMA BufferTakes ==
    ASSUME sent \in Seq(Kinds), rx \in Seq(Bytes), NEW n, NEW a, NEW len, Delivers(n, a, len)
    PROVE  Takes(n, a, len)
  <1>1. PICK part : part = Head(air)
    OBVIOUS
  <1>2. Holds(part, n, a, len, FrameSize(n))
    BY <1>1 DEF Delivers
  <1>3. /\ part \in Seq(Bytes) /\ part # <<>> /\ Len(part) = len
        /\ \A i \in 1 .. len : part[i] = Byte(n, a + i - 1)
        /\ part[1] = Byte(n, a)
    BY <1>2 DEF Holds
  <1>4. Received = rx \o part
    BY <1>1 DEF Received
  <1>5. /\ Received \in Seq(Bytes) /\ Len(Received) = Len(rx) + len /\ Len(rx) \in Nat
        /\ \A i \in 1 .. Len(rx) : Received[i] = rx[i]
        /\ \A i \in 1 .. len : Received[Len(rx) + i] = part[i]
        /\ Received[1] = IF rx = <<>> THEN part[1] ELSE rx[1]
    <2>1. /\ rx \o part \in Seq(Bytes) /\ Len(rx \o part) = Len(rx) + Len(part)
          /\ Len(rx) \in Nat
          /\ \A i \in 1 .. Len(rx) : (rx \o part)[i] = rx[i]
          /\ \A i \in 1 .. Len(part) : (rx \o part)[Len(rx) + i] = part[i]
          /\ (rx \o part)[1] = IF rx = <<>> THEN part[1] ELSE rx[1]
      BY <1>3, Joined
    <2> QED BY <1>3, <1>4, <2>1
  <1> QED BY <1>3, <1>5 DEF Takes

\* It is given up, kept or passed on.
LEMMA Outcomes ==
    ASSUME Receives
    PROVE  /\ air # <<>> /\ air' = Tail(air) /\ UNCHANGED <<sent, losses, hurt>>
           /\ \/ /\ rx' = <<>> /\ handled' = handled
                 /\ NotAFrame(Received) \/ (IsComplete(Received) /\ ~Whole(Received))
              \/ /\ rx' = Received /\ handled' = handled
                 /\ ~NotAFrame(Received) /\ ~IsComplete(Received)
              \/ /\ rx' = <<>> /\ handled' = Append(handled, Received[1].frame)
                 /\ ~NotAFrame(Received) /\ IsComplete(Received) /\ Whole(Received)
  BY DEF Receives, Reject, Collect, PassOn, Arrives, AfterError, AfterPart, CrcMatches

\* What magic and length say of a buffer that starts with a byte of a frame sent.
LEMMA Header ==
    ASSUME sent \in Seq(Kinds), NEW data, data[1].frame \in DOMAIN sent
    PROVE  /\ DeclaredLength(data) \in Nat
           /\ data[1].at = 1 =>
                 L1_HEADER_LEN + DeclaredLength(data) = FrameSize(data[1].frame)
  BY LengthAssumption DEF DeclaredLength, FrameSize, FrameLength

\* The buffer's bytes, with those that arrived, are in front of the next one.
LEMMA ReceivedIsPast ==
    ASSUME sent \in Seq(Kinds), BufferIsPast,
           NEW n, NEW a, NEW len, Delivers(n, a, len), Takes(n, a, len)
    PROVE  \A i \in 1 .. Len(Received) :
               /\ Received[i].frame \in DOMAIN sent
               /\ Before(Received[i], NextByte')
  <1>0. Len(Received) = Len(rx) + len /\ Len(rx) \in Nat /\ len \in Nat /\ DOMAIN rx = 1 .. Len(rx)
    BY Moves DEF Takes, BufferIsPast
  <1>1. ASSUME NEW i \in 1 .. Len(rx)
        PROVE  Received[i].frame \in DOMAIN sent /\ Before(Received[i], NextByte')
    <2>1. Received[i] = rx[i]
      BY DEF Takes
    <2>2. /\ rx[i].frame \in DOMAIN sent
          /\ \/ rx[i].frame < NextByte.frame
             \/ rx[i].frame = NextByte.frame /\ rx[i].at < NextByte.at
      BY <1>0 DEF BufferIsPast
    <2>3. rx[i].frame \in Nat /\ rx[i].at \in Nat
      <3>1. rx[i] \in Bytes
        BY ElementOf DEF BufferIsPast
      <3> QED BY <3>1 DEF Bytes
    <2> QED BY <2>1, <2>2, <2>3, Moves DEF Before
  <1>2. ASSUME NEW i \in 1 .. len
        PROVE  Received[Len(rx) + i].frame \in DOMAIN sent /\ Before(Received[Len(rx) + i], NextByte')
    <2>1. Received[Len(rx) + i].frame = n /\ Received[Len(rx) + i].at = a + i - 1
      <3>1. Received[Len(rx) + i] = Byte(n, a + i - 1)
        BY DEF Takes
      <3> QED BY <3>1 DEF Byte
    <2>2. n \in DOMAIN sent
      BY DEF Delivers
    <2> QED BY <2>1, <2>2, Moves DEF Before
  <1>3. ASSUME NEW i \in 1 .. Len(Received)
        PROVE  i \in 1 .. Len(rx) \/ \E j \in 1 .. len : i = Len(rx) + j
    <2>1. i \in 1 .. Len(rx) \/ (i - Len(rx) \in 1 .. len /\ i = Len(rx) + (i - Len(rx)))
      BY <1>0
    <2> QED BY <2>1
  <1> QED BY <1>1, <1>2, <1>3

-------------------------------------------------------------------------------
(***************************************************************************)
(* Buffer and frames passed on, whatever was lost.                         *)
(***************************************************************************)
\* A frame is passed on when its last byte is there: what comes next is of a later one.
LEMMA PassedOnIsPast ==
    ASSUME sent \in Seq(Kinds), BufferIsPast,
           NEW n, NEW a, NEW len, Delivers(n, a, len), Takes(n, a, len),
           ~NotAFrame(Received), IsComplete(Received), Whole(Received)
    PROVE  Received[1].frame \in DOMAIN sent /\ Received[1].frame < NextByte'.frame
  <1>1. Len(Received) \in Nat /\ Len(Received) >= L1_HEADER_LEN
    BY DEF Takes, NotAFrame, L1_HEADER_LEN
  <1>2. /\ Received[1].frame \in DOMAIN sent
        /\ Received[1] = [frame |-> Received[1].frame, at |-> 1]
    <2>1. 1 \in 1 .. Len(Received)
      BY <1>1 DEF L1_HEADER_LEN
    <2>2. Received[1].frame \in DOMAIN sent
      BY <2>1, ReceivedIsPast
    <2>3. DeclaredLength(Received) \in Nat
      BY <2>2, Header
    <2>4. 1 \in 1 .. L1_HEADER_LEN + DeclaredLength(Received)
      BY <2>3 DEF L1_HEADER_LEN
    <2> QED BY <2>2, <2>4 DEF Whole
  <1>3. PICK f : f = Received[1].frame
    OBVIOUS
  <1>4. f \in DOMAIN sent /\ L1_HEADER_LEN + DeclaredLength(Received) = FrameSize(f)
    <2>1. Received[1].at = 1
      BY <1>2
    <2> QED BY <1>2, <1>3, <2>1, Header
  <1>5. FrameSize(f) \in Nat /\ FrameSize(f) >= L1_HEADER_LEN
    BY <1>4, SizeTyped
  <1>6. Received[FrameSize(f)] = [frame |-> f, at |-> FrameSize(f)]
    <2>1. FrameSize(f) \in 1 .. L1_HEADER_LEN + DeclaredLength(Received)
      BY <1>4, <1>5 DEF L1_HEADER_LEN
    <2> QED BY <1>3, <2>1 DEF Whole
  <1>7. Before(Received[FrameSize(f)], NextByte')
    <2>1. FrameSize(f) \in 1 .. Len(Received)
      BY <1>1, <1>4, <1>5 DEF IsComplete, L1_HEADER_LEN
    <2> QED BY <2>1, ReceivedIsPast
  <1>8. f < NextByte'.frame \/ (f = NextByte'.frame /\ FrameSize(f) < NextByte'.at)
    BY <1>6, <1>7 DEF Before
  <1>9. /\ n \in Nat /\ a \in Nat /\ len \in Nat /\ f \in Nat
        /\ \/ a + len <= FrameSize(n) /\ NextByte'.frame = n /\ NextByte'.at = a + len
           \/ NextByte'.frame = n + 1 /\ NextByte'.at = 1
    BY <1>4, Moves
  <1>10. ~(f = NextByte'.frame /\ FrameSize(f) < NextByte'.at)
    <2>1. CASE a + len <= FrameSize(n) /\ NextByte'.frame = n /\ NextByte'.at = a + len
      <3>1. f = n => FrameSize(f) = FrameSize(n) /\ FrameSize(n) \in Nat
        BY <1>5
      <3> QED BY <1>9, <2>1, <3>1
    <2>2. CASE NextByte'.frame = n + 1 /\ NextByte'.at = 1
      BY <1>5, <2>2 DEF L1_HEADER_LEN
    <2> QED BY <1>9, <2>1, <2>2
  <1> QED BY <1>3, <1>4, <1>8, <1>10

\* The buffer's part of ReassemblyTypeOK.
LEMMA ReceivesTyped ==
    ASSUME ReassemblyTypeOK, BufferIsPast, HandledIsPast, Receives,
           NEW n, NEW a, NEW len, Delivers(n, a, len), Takes(n, a, len)
    PROVE  ReassemblyTypeOK'
  <1>1. sent \in Seq(Kinds) /\ UNCHANGED <<sent, losses, hurt>>
    BY Outcomes DEF ReassemblyTypeOK
  <1>2. rx' # <<>> => ~NotAFrame(rx)' /\ ~IsComplete(rx)'
    <2>1. CASE rx' = Received /\ ~NotAFrame(Received) /\ ~IsComplete(Received)
      <3>1. NotAFrame(rx)' = NotAFrame(Received)
        BY <1>1, <2>1 DEF NotAFrame, IsMagic
      <3>2. IsComplete(rx)' = IsComplete(Received)
        BY <1>1, <2>1 DEF IsComplete, DeclaredLength
      <3> QED BY <2>1, <3>1, <3>2
    <2> QED BY <2>1, Outcomes
  <1>3. \A i \in DOMAIN handled' : handled'[i] \in DOMAIN sent
    <2>1. CASE handled' = handled
      BY <2>1 DEF ReassemblyTypeOK
    <2>2. CASE /\ handled' = Append(handled, Received[1].frame)
               /\ ~NotAFrame(Received) /\ IsComplete(Received) /\ Whole(Received)
      <3>1. Received[1].frame \in DOMAIN sent
        BY <1>1, <2>2, PassedOnIsPast
      <3>2. handled \in Seq(DOMAIN sent)
        BY DEF HandledIsPast
      <3> QED BY <2>2, <3>1, <3>2
    <2> QED BY <2>1, <2>2, Outcomes
  <1> QED BY <1>1, <1>2, <1>3 DEF ReassemblyTypeOK

LEMMA ReceivesInBuffer ==
    ASSUME sent \in Seq(Kinds), ReassemblyTypeOK, BufferIsPast, Receives,
           NEW n, NEW a, NEW len, Delivers(n, a, len), Takes(n, a, len)
    PROVE  BufferIsPast'
  <1>1. UNCHANGED sent
    BY Outcomes
  <1>2. CASE rx' = <<>>
    BY <1>2 DEF BufferIsPast
  <1>3. CASE rx' = Received /\ ~NotAFrame(Received) /\ ~IsComplete(Received)
    <2>1. Received \in Seq(Bytes) /\ DOMAIN Received = 1 .. Len(Received)
      BY DEF Takes
    <2>2. ASSUME NEW i \in DOMAIN Received
          PROVE  /\ Received[i].frame \in DOMAIN sent
                 /\ \/ Received[i].frame < NextByte'.frame
                    \/ Received[i].frame = NextByte'.frame /\ Received[i].at < NextByte'.at
      BY <2>1, ReceivedIsPast DEF Before
    <2>3. ASSUME Received[1].at = 1 PROVE Len(Received) >= Mtu
      <3>0. /\ Len(Received) = Len(rx) + len /\ Len(rx) \in Nat /\ len \in Nat /\ Mtu \in Nat
            /\ Received[1] = IF rx = <<>> THEN Byte(n, a) ELSE rx[1]
        BY Moves, MtuAssumption DEF Takes
      <3>1. CASE rx # <<>>
        <4>1. Len(rx) >= Mtu
          BY <2>3, <3>0, <3>1 DEF BufferIsPast
        <4> QED BY <3>0, <4>1
      <3>2. CASE rx = <<>>
        <4>1. a = 1 /\ Received[1].frame = n /\ n \in DOMAIN sent
          BY <2>3, <3>0, <3>2 DEF Byte, Delivers
        <4>2. L1_HEADER_LEN + DeclaredLength(Received) = FrameSize(n)
          BY <2>3, <4>1, Header
        <4>3. Len(Received) = len
          BY <3>0, <3>2
        <4>4. ~(len >= FrameSize(n))
          BY <1>3, <4>2, <4>3 DEF IsComplete
        <4> QED BY <3>0, <4>1, <4>3, <4>4, Moves
      <3> QED BY <3>1, <3>2
    <2> QED BY <1>1, <1>3, <2>1, <2>2, <2>3 DEF BufferIsPast
  <1> QED BY <1>2, <1>3, Outcomes

LEMMA NotPassedOnYet ==
    ASSUME sent \in Seq(Kinds), HandledIsPast,
           NEW n, NEW a, NEW len, Delivers(n, a, len), Takes(n, a, len)
    PROVE  \A i \in DOMAIN handled : handled[i] < Received[1].frame
  <1>1. CASE rx = <<>>
    <2>1. Received[1].frame = n
      BY <1>1 DEF Takes, Byte
    <2> QED BY <2>1, Moves DEF HandledIsPast
  <1>2. CASE rx # <<>>
    BY <1>2 DEF Takes, HandledIsPast
  <1> QED BY <1>1, <1>2

LEMMA ReceivesHandled ==
    ASSUME sent \in Seq(Kinds), BufferIsPast, HandledIsPast, Receives,
           NEW n, NEW a, NEW len, Delivers(n, a, len), Takes(n, a, len)
    PROVE  HandledIsPast'
  <1>1. UNCHANGED sent
    BY Outcomes
  <1>2. /\ handled \in Seq(DOMAIN sent) /\ DOMAIN handled = 1 .. Len(handled)
        /\ Len(handled) \in Nat
        /\ \A i \in DOMAIN handled : handled[i] \in Nat
    BY DEF HandledIsPast
  <1>3. \A i \in DOMAIN handled : handled[i] < NextByte'.frame
    <2>1. ASSUME NEW i \in DOMAIN handled PROVE handled[i] < NextByte'.frame
      <3>1. handled[i] < n /\ handled[i] \in Nat
        BY <1>2, Moves DEF HandledIsPast
      <3> QED BY <3>1, Moves
    <2> QED BY <2>1
  <1>4. CASE rx' = <<>> /\ handled' = handled
    BY <1>1, <1>2, <1>3, <1>4 DEF HandledIsPast
  <1>5. CASE rx' = Received /\ handled' = handled
    BY <1>1, <1>2, <1>3, <1>5, NotPassedOnYet DEF HandledIsPast
  <1>6. CASE /\ rx' = <<>> /\ handled' = Append(handled, Received[1].frame)
             /\ ~NotAFrame(Received) /\ IsComplete(Received) /\ Whole(Received)
    <2>1. Received[1].frame \in DOMAIN sent /\ Received[1].frame < NextByte'.frame
      BY <1>6, PassedOnIsPast
    <2>2. handled' \in Seq(DOMAIN sent)
      BY <1>2, <1>6, <2>1
    <2>3. \A i \in DOMAIN handled' : handled'[i] < NextByte'.frame
      <3>1. ASSUME NEW i \in DOMAIN handled' PROVE handled'[i] < NextByte'.frame
        <4>1. /\ i \in DOMAIN handled /\ handled'[i] = handled[i]
              \/ handled'[i] = Received[1].frame
          BY <1>2, <1>6
        <4> QED BY <1>3, <2>1, <4>1
      <3> QED BY <3>1
    <2> QED BY <1>1, <1>6, <2>2, <2>3 DEF HandledIsPast
  <1> QED BY <1>4, <1>5, <1>6, Outcomes

-------------------------------------------------------------------------------
(***************************************************************************)
(* In step, out of step, and back.                                         *)
(***************************************************************************)
\* In step, a frame's parts are kept until the last is there; then it is passed on.
LEMMA InStepReceives ==
    ASSUME sent \in Seq(Kinds), BufferIsPast, InStep, Receives,
           NEW n, NEW a, NEW len, Delivers(n, a, len), Takes(n, a, len)
    PROVE  /\ InStep'
           /\ \/ NextByte'.frame = NextByte.frame /\ handled' = handled
              \/ /\ NextByte'.frame = NextByte.frame + 1
                 /\ handled' = Append(handled, NextByte.frame)
  <1>1. /\ Len(rx) \in Nat /\ a = Len(rx) + 1 /\ Len(Received) = Len(rx) + len
        /\ Received \in Seq(Bytes) /\ DOMAIN rx = 1 .. Len(rx)
        /\ DOMAIN Received = 1 .. Len(Received)
    BY Moves DEF Takes, InStep, BufferIsPast
  <1>2. ASSUME NEW i \in 1 .. Len(Received) PROVE Received[i] = Byte(n, i)
    <2>1. CASE i \in 1 .. Len(rx)
      <3>1. Received[i] = rx[i] /\ rx[i] = Byte(NextByte.frame, i)
        BY <1>1, <2>1 DEF Takes, InStep
      <3> QED BY <3>1, Moves
    <2>2. CASE i \notin 1 .. Len(rx)
      <3>1. i - Len(rx) \in 1 .. len /\ i = Len(rx) + (i - Len(rx)) /\ a + (i - Len(rx)) - 1 = i
        BY <1>1, <2>2, Moves
      <3>2. Received[Len(rx) + (i - Len(rx))] = Byte(n, a + (i - Len(rx)) - 1)
        BY <3>1 DEF Takes
      <3> QED BY <3>1, <3>2
    <2> QED BY <2>1, <2>2
  <1>3. Len(Received) >= L1_HEADER_LEN
    <2>1. CASE rx = <<>>
      <3>1. len >= L1_HEADER_LEN /\ Len(rx) = 0
        BY <1>1, <2>1, Moves, MtuAssumption DEF L1_HEADER_LEN
      <3> QED BY <1>1, <3>1, Moves
    <2>2. CASE rx # <<>>
      <3>1. 1 \in 1 .. Len(rx)
        BY <1>1, <2>2 DEF BufferIsPast
      <3>2. rx[1].at = 1
        BY <1>1, <3>1 DEF InStep, Byte
      <3>3. Len(rx) >= Mtu
        BY <2>2, <3>2 DEF BufferIsPast
      <3> QED BY <1>1, <3>3, Moves, MtuAssumption DEF L1_HEADER_LEN
    <2> QED BY <2>1, <2>2
  <1>4. Received[1].frame = n /\ Received[1].at = 1 /\ n \in DOMAIN sent
    <2>1. 1 \in 1 .. Len(Received)
      BY <1>1, <1>3, Moves DEF L1_HEADER_LEN
    <2>2. Received[1] = Byte(n, 1)
      BY <1>2, <2>1
    <2> QED BY <2>2 DEF Byte, Delivers
  <1>5. ~NotAFrame(Received)
    BY <1>1, <1>3, <1>4, Moves DEF NotAFrame, IsMagic, L1_HEADER_LEN
  <1>6. L1_HEADER_LEN + DeclaredLength(Received) = FrameSize(n)
    BY <1>4, Header
  <1>7. CASE /\ a + len <= FrameSize(n)
             /\ NextByte'.frame = n /\ NextByte'.at = a + len
    <2>1. ~IsComplete(Received)
      BY <1>1, <1>6, <1>7, Moves DEF IsComplete
    <2>2. rx' = Received /\ handled' = handled
      BY <1>5, <2>1, Outcomes
    <2>3. InStep'
      <3>1. NextByte'.at = Len(rx') + 1
        BY <1>1, <1>7, <2>2, Moves
      <3> QED BY <1>1, <1>2, <1>7, <2>2, <3>1 DEF InStep
    <2> QED BY <1>7, <2>2, <2>3, Moves
  <1>8. CASE /\ a + len = FrameSize(n) + 1
             /\ NextByte'.frame = n + 1 /\ NextByte'.at = 1
    <2>1. Len(Received) = FrameSize(n)
      BY <1>1, <1>8, Moves
    <2>2. IsComplete(Received)
      BY <1>6, <2>1, Moves DEF IsComplete
    <2>3. Whole(Received)
      BY <1>2, <1>4, <1>6, <2>1 DEF Whole, Byte
    <2>4. rx' = <<>> /\ handled' = Append(handled, n)
      BY <1>4, <1>5, <2>2, <2>3, Outcomes
    <2>5. InStep'
      BY <1>8, <2>4 DEF InStep
    <2> QED BY <1>8, <2>4, <2>5, Moves
  <1> QED BY <1>7, <1>8, Moves

\* No byte but the first of a frame is taken for a start.
LEMMA NoBogusStart ==
    ASSUME sent \in Seq(Kinds), ToSet(sent) \cap Lookalikes = {},
           NEW byte, byte.frame \in DOMAIN sent, IsMagic(byte)
    PROVE  byte.at = 1
  BY DEF IsMagic, ToSet

\* Out of step, a gap is filled by what starts at the next two frames.
LEMMA LaggingReceives ==
    ASSUME ReassemblyTypeOK, BufferIsPast, FramesAreShort, Lagging, Receives,
           ToSet(sent) \cap Lookalikes = {},
           NEW n, NEW a, NEW len, Delivers(n, a, len), Takes(n, a, len)
    PROVE  (InStep \/ Lagging \/ Skipping)' /\ NextByte'.frame <= hurt + 3
  <1>1. /\ sent \in Seq(Kinds) /\ hurt \in Nat /\ hurt' = hurt
        /\ Mtu \in Nat /\ Mtu >= L1_HEADER_LEN
    BY Outcomes, MtuAssumption DEF ReassemblyTypeOK
  <1>2. PICK f : f = rx[1].frame
    OBVIOUS
  <1>3. rx # <<>> /\ 1 \in DOMAIN rx /\ Len(rx) \in Nat /\ f \in DOMAIN sent
    BY <1>2 DEF Lagging, BufferIsPast
  <1>4. rx[1].at = 1
    BY <1>1, <1>2, <1>3, NoBogusStart DEF ReassemblyTypeOK, NotAFrame
  <1>5. Len(rx) >= Mtu
    BY <1>3, <1>4 DEF BufferIsPast
  <1>6. FrameSize(f) \in Nat /\ FrameSize(f) <= Mtu + 2 * L1_HEADER_LEN
    <2>1. sent[f] \in Kinds
      BY <1>1, <1>3
    <2> QED BY <1>1, <1>3, <2>1, SizeTyped DEF FramesAreShort, FrameSize
  <1>7. /\ Received[1] = rx[1] /\ Len(Received) = Len(rx) + len
        /\ L1_HEADER_LEN + DeclaredLength(Received) = FrameSize(f)
    <2>1. Received[1] = rx[1] /\ Len(Received) = Len(rx) + len
      BY <1>3 DEF Takes
    <2> QED BY <1>1, <1>2, <1>3, <1>4, <2>1, Header
  <1>8. /\ n \in Nat /\ n <= hurt + 2
        /\ n > hurt + 1 => a = 1
        /\ n > hurt + 1 \/ (n = hurt + 1 /\ a > 1) => Len(rx) >= Mtu + L1_HEADER_LEN
    BY <1>1, Moves DEF Lagging
  <1>9. NextByte'.frame \in Nat /\ NextByte'.at \in Nat /\ NextByte'.frame <= hurt + 3
    BY <1>1, <1>8, Moves
  <1>10. CASE rx' = <<>>
    <2>1. CASE NextByte'.at = 1
      BY <1>9, <1>10, <2>1 DEF InStep
    <2>2. CASE NextByte'.at # 1
      <3>1. NextByte'.frame = n /\ NextByte'.at > 1
        BY <1>1, <2>2, Moves
      <3> QED BY <1>1, <1>8, <1>10, <3>1 DEF Skipping
    <2> QED BY <1>9, <2>1, <2>2
  <1>11. CASE rx' = Received /\ ~NotAFrame(Received) /\ ~IsComplete(Received)
    <2>1. Len(Received) < FrameSize(f)
      BY <1>1, <1>3, <1>6, <1>7, <1>11, Moves DEF IsComplete
    <2>2. a = 1 => len >= L1_HEADER_LEN
      BY <1>1, Moves DEF L1_HEADER_LEN
    <2>3. n <= hurt + 1
      <3>1. n = hurt + 2 => Len(Received) >= Mtu + 2 * L1_HEADER_LEN
        BY <1>1, <1>3, <1>7, <1>8, <2>2, Moves DEF L1_HEADER_LEN
      <3> QED BY <1>1, <1>3, <1>6, <1>7, <1>8, <2>1, <3>1, Moves DEF L1_HEADER_LEN
    <2>4. n = hurt + 1 => Len(Received) >= Mtu + L1_HEADER_LEN
      BY <1>1, <1>3, <1>5, <1>7, <1>8, <2>2, Moves DEF L1_HEADER_LEN
    <2>5. /\ NextByte'.frame <= hurt + 2
          /\ NextByte'.frame > hurt + 1 => NextByte'.at = 1 /\ n = hurt + 1
          /\ NextByte'.frame = hurt + 1 /\ NextByte'.at > 1 => n = hurt + 1
      BY <1>1, <1>8, <2>3, Moves
    <2>6. rx' # <<>> /\ rx'[1].frame <= hurt
      <3>1. Len(rx') # 0
        BY <1>1, <1>3, <1>7, <1>11, Moves
      <3>2. rx[1].frame <= hurt
        BY DEF Lagging
      <3> QED BY <1>7, <1>11, <3>1, <3>2
    <2>7. Lagging'
      BY <1>1, <1>11, <2>4, <2>5, <2>6 DEF Lagging
    <2> QED BY <1>9, <2>7
  <1> QED BY <1>10, <1>11, Outcomes

\* The rest of a frame whose start was lost is rejected part by part.
LEMMA SkippingReceives ==
    ASSUME ReassemblyTypeOK, Skipping, Receives, ToSet(sent) \cap Lookalikes = {},
           NEW n, NEW a, NEW len, Delivers(n, a, len), Takes(n, a, len)
    PROVE  (InStep \/ Skipping)' /\ NextByte'.frame <= hurt + 3
  <1>1. sent \in Seq(Kinds) /\ hurt \in Nat /\ hurt' = hurt
    BY Outcomes DEF ReassemblyTypeOK
  <1>2. n \in Nat /\ a \in Nat /\ a > 1 /\ n <= hurt + 2
    BY <1>1, Moves DEF Skipping
  <1>3. Received[1].frame = n /\ Received[1].at = a /\ n \in DOMAIN sent
    BY DEF Takes, Skipping, Byte, Delivers
  <1>4. NotAFrame(Received)
    BY <1>1, <1>2, <1>3, NoBogusStart DEF NotAFrame
  <1>5. rx' = <<>>
    BY <1>4, Outcomes
  <1>6. CASE NextByte'.frame = n /\ NextByte'.at = a + len
    <2>1. NextByte'.at > 1 /\ NextByte'.frame <= hurt' + 2
      BY <1>1, <1>2, <1>6, Moves
    <2> QED BY <1>1, <1>2, <1>5, <1>6, <2>1 DEF Skipping
  <1>7. CASE NextByte'.frame = n + 1 /\ NextByte'.at = 1
    BY <1>1, <1>2, <1>5, <1>7 DEF InStep
  <1> QED BY <1>1, <1>6, <1>7, Moves

-------------------------------------------------------------------------------
(***************************************************************************)
(* ReassemblyInv is inductive.                                             *)
(***************************************************************************)
LEMMA ReassemblyInvInit ==
    ASSUME ReassemblyInit PROVE ReassemblyInv
  <1> USE DEF ReassemblyInit
  <1>1. NextByte.frame = 1 /\ NextByte.at = 1
    BY DEF NextByte, Byte
  <1>2. ReassemblyTypeOK
    BY BoundsAssumption DEF ReassemblyTypeOK
  <1>3. AirIsGapless
    BY <1>1 DEF AirIsGapless
  <1>4. BufferIsPast /\ HandledIsPast
    BY DEF BufferIsPast, HandledIsPast
  <1>5. InStep
    BY <1>1 DEF InStep
  <1>6. NothingLost
    BY <1>1, <1>5 DEF NothingLost
  <1>7. InStepSoon
    BY <1>1, <1>5 DEF InStepSoon
  <1> QED BY <1>1, <1>2, <1>3, <1>4, <1>6, <1>7 DEF ReassemblyInv

\* A frame that is sent comes behind everything there is.
LEMMA SendKeepsInv ==
    ASSUME ReassemblyInv, SendFrame
    PROVE  ReassemblyInv'
  <1>1. sent \in Seq(Kinds) /\ AirIsGapless /\ ReassemblyTypeOK /\ Len(sent) \in Nat
    BY DEF ReassemblyInv, ReassemblyTypeOK
  <1>2. /\ sent' \in Seq(Kinds) /\ Len(sent') = Len(sent) + 1
        /\ \A n \in DOMAIN sent : n \in DOMAIN sent' /\ FrameSize(n)' = FrameSize(n)
        /\ AirIsGapless' /\ NextByte' = NextByte
    BY <1>1, Sent
  <1>3. UNCHANGED <<rx, handled, losses, hurt>> /\ Len(sent) < MaxFrames
    BY DEF SendFrame
  <1>4. \A n \in DOMAIN sent : sent'[n] = sent[n]
    BY <1>1 DEF SendFrame
  <1>5. BufferIsPast /\ HandledIsPast /\ hurt <= NextByte.frame /\ NothingLost
    BY DEF ReassemblyInv
  <1>6. ReassemblyTypeOK'
    <2>1. rx # <<>> => rx[1].frame \in DOMAIN sent
      BY <1>5 DEF BufferIsPast
    <2>2. rx # <<>> => NotAFrame(rx)' = NotAFrame(rx) /\ IsComplete(rx)' = IsComplete(rx)
      BY <1>3, <1>4, <2>1 DEF NotAFrame, IsMagic, IsComplete, DeclaredLength
    <2> QED BY <1>1, <1>2, <1>3, <2>2, BoundsAssumption DEF ReassemblyTypeOK
  <1>7. BufferIsPast'
    BY <1>2, <1>3, <1>5 DEF BufferIsPast
  <1>8. HandledIsPast'
    <2>1. handled \in Seq(DOMAIN sent')
      BY <1>2, <1>5 DEF HandledIsPast
    <2> QED BY <1>2, <1>3, <1>5, <2>1 DEF HandledIsPast
  <1>9. NothingLost'
    BY <1>2, <1>3, <1>5 DEF NothingLost, InStep
  <1>10. ASSUME InStepSoon PROVE InStepSoon'
    <2>1. ToSet(sent) \subseteq ToSet(sent')
      BY <1>2, <1>4 DEF ToSet
    <2>2. InStep' = InStep /\ Lagging' = Lagging /\ Skipping' = Skipping
      BY <1>2, <1>3 DEF InStep, Lagging, Skipping
    <2> QED BY <1>2, <1>3, <1>10, <2>1, <2>2 DEF InStepSoon
  <1> QED
    BY <1>2, <1>3, <1>5, <1>6, <1>7, <1>8, <1>9, <1>10 DEF ReassemblyInv, FramesAreShort

\* A loss leaves the buffer as it is, and behind the stream.
LEMMA LoseKeepsInv ==
    ASSUME ReassemblyInv, Lose
    PROVE  ReassemblyInv'
  <1>1. /\ ReassemblyTypeOK /\ AirIsGapless /\ BufferIsPast /\ HandledIsPast
        /\ hurt <= NextByte.frame /\ sent \in Seq(Kinds)
    BY DEF ReassemblyInv, ReassemblyTypeOK
  <1>2. /\ air # <<>> /\ air' = Tail(air) /\ UNCHANGED <<sent, rx, handled>>
        /\ losses < MaxLosses /\ losses' = losses + 1 /\ hurt' = Head(air)[1].frame
    BY DEF Lose
  <1>3. AirIsGapless'
    BY <1>1, <1>2, Taken
  <1>4. PICK n \in DOMAIN sent : \E a \in 1 .. FrameSize(n), len \in Nat \ {0} : Delivers(n, a, len)
    BY <1>1, <1>2, Taken
  <1>5. PICK a \in 1 .. FrameSize(n), len \in Nat \ {0} : Delivers(n, a, len)
    BY <1>4
  <1>6. hurt' = n /\ n \in 1 .. Len(sent)
    BY <1>1, <1>2, <1>5, Moves DEF NextByte
  <1>7. /\ NextByte.frame = n /\ NextByte.at = a /\ a \in Nat /\ len \in Nat \ {0}
        /\ \/ NextByte'.frame = n /\ NextByte'.at = a + len
           \/ NextByte'.frame = n + 1 /\ NextByte'.at = 1
    BY <1>1, <1>5, Moves
  <1>8. ReassemblyTypeOK'
    <2>1. NotAFrame(rx)' = NotAFrame(rx) /\ IsComplete(rx)' = IsComplete(rx)
      BY <1>2 DEF NotAFrame, IsMagic, IsComplete, DeclaredLength
    <2> QED BY <1>1, <1>2, <1>6, <2>1, BoundsAssumption DEF ReassemblyTypeOK
  <1>9. BufferIsPast'
    <2>1. ASSUME NEW i \in DOMAIN rx
          PROVE  \/ rx[i].frame < NextByte'.frame
                 \/ rx[i].frame = NextByte'.frame /\ rx[i].at < NextByte'.at
      <3>1. rx[i] \in Bytes
        BY <1>1, ElementOf DEF BufferIsPast
      <3>2. rx[i].frame \in Nat /\ rx[i].at \in Nat
        BY <3>1 DEF Bytes
      <3>3. rx[i].frame < n \/ (rx[i].frame = n /\ rx[i].at < a)
        BY <1>1, <1>7 DEF BufferIsPast
      <3>4. n \in Nat /\ a \in Nat /\ len \in Nat \ {0}
        BY <1>6, <1>7
      <3>5. CASE NextByte'.frame = n /\ NextByte'.at = a + len
        BY <3>2, <3>3, <3>4, <3>5
      <3>6. CASE NextByte'.frame = n + 1 /\ NextByte'.at = 1
        BY <3>2, <3>3, <3>4, <3>6
      <3> QED BY <1>7, <3>5, <3>6
    <2> QED BY <1>1, <1>2, <2>1 DEF BufferIsPast
  <1>10. HandledIsPast'
    <2>1. ASSUME NEW i \in DOMAIN handled PROVE handled[i] < NextByte'.frame
      <3>1. handled[i] < n /\ handled[i] \in Nat
        BY <1>1, <1>7 DEF HandledIsPast
      <3>2. n \in Nat /\ (NextByte'.frame = n \/ NextByte'.frame = n + 1)
        BY <1>6, <1>7
      <3> QED BY <3>1, <3>2
    <2> QED BY <1>1, <1>2, <2>1 DEF HandledIsPast
  <1>11. hurt' <= NextByte'.frame
    BY <1>6, <1>7
  <1>12. NothingLost'
    BY <1>1, <1>2 DEF NothingLost, ReassemblyTypeOK
  <1>13. ASSUME InStepSoon PROVE InStepSoon'
    <2>0. /\ DOMAIN rx = 1 .. Len(rx) /\ Len(rx) \in Nat
          /\ hurt \in Nat /\ hurt <= n /\ n \in Nat
      BY <1>1, <1>6, <1>7 DEF BufferIsPast, ReassemblyTypeOK
    <2>1. SUFFICES ASSUME ToSet(sent) \cap Lookalikes = {}
                   PROVE  InStep' \/ Lagging' \/ Skipping'
      <3>1. hurt' + 3 > NextByte'.frame - 1
        BY <1>6, <1>7
      <3> QED BY <1>2, <1>6, <1>7, <3>1 DEF InStepSoon
    <2>2. InStep \/ Lagging \/ Skipping
      BY <1>13, <2>1 DEF InStepSoon
    <2>3. CASE rx = <<>>
      <3>1. CASE NextByte'.at = 1
        BY <1>2, <2>3, <3>1 DEF InStep
      <3>2. CASE NextByte'.at # 1
        BY <1>2, <1>6, <1>7, <2>3, <3>2 DEF Skipping
      <3> QED BY <3>1, <3>2
    <2>4. CASE rx # <<>>
      <3>1. 1 \in DOMAIN rx
        BY <1>1, <2>4 DEF BufferIsPast
      <3>2. rx[1].frame <= n
        <4>1. rx[1].frame \in Nat
          <5>1. rx[1] \in Bytes
            BY <1>1, <3>1, ElementOf DEF BufferIsPast
          <5> QED BY <5>1 DEF Bytes
        <4> QED BY <1>1, <1>7, <3>1, <4>1 DEF BufferIsPast
      <3> QED BY <1>2, <1>6, <1>7, <2>4, <3>2 DEF Lagging
    <2> QED BY <2>3, <2>4
  <1> QED
    BY <1>3, <1>8, <1>9, <1>10, <1>11, <1>12, <1>13 DEF ReassemblyInv, FramesAreShort

\* What arrives is rejected, collected or passed on.
LEMMA ReceivesKeepsInv ==
    ASSUME ReassemblyInv, Receives
    PROVE  ReassemblyInv'
  <1>1. /\ ReassemblyTypeOK /\ AirIsGapless /\ BufferIsPast /\ HandledIsPast
        /\ hurt <= NextByte.frame /\ sent \in Seq(Kinds)
    BY DEF ReassemblyInv, ReassemblyTypeOK
  <1>2. air # <<>> /\ air' = Tail(air) /\ UNCHANGED <<sent, losses, hurt>>
    BY Outcomes
  <1>3. AirIsGapless'
    BY <1>1, <1>2, Taken
  <1>4. PICK n \in DOMAIN sent : \E a \in 1 .. FrameSize(n), len \in Nat \ {0} : Delivers(n, a, len)
    BY <1>1, <1>2, Taken
  <1>5. PICK a \in 1 .. FrameSize(n), len \in Nat \ {0} : Delivers(n, a, len)
    BY <1>4
  <1>6. Takes(n, a, len)
    BY <1>1, <1>5, BufferTakes DEF BufferIsPast
  <1>7. ReassemblyTypeOK' /\ BufferIsPast' /\ HandledIsPast'
    BY <1>1, <1>5, <1>6, ReceivesTyped, ReceivesInBuffer, ReceivesHandled
  <1>8. hurt' <= NextByte'.frame
    <2>1. hurt \in Nat
      BY <1>1 DEF ReassemblyTypeOK
    <2> QED BY <1>1, <1>2, <1>5, <2>1, Moves
  <1>9. ASSUME InStep
        PROVE  /\ InStep'
               /\ \/ NextByte'.frame = n /\ handled' = handled
                  \/ NextByte'.frame = n + 1 /\ handled' = Append(handled, n)
    BY <1>1, <1>5, <1>6, <1>9, InStepReceives, Moves
  <1>10. NextByte.frame = n /\ n \in Nat \ {0}
    BY <1>1, <1>5, Moves
  <1>11. NothingLost'
    <2>1. SUFFICES ASSUME losses = 0
                   PROVE  InStep' /\ handled' = [i \in 1 .. NextByte'.frame - 1 |-> i]
      BY <1>2 DEF NothingLost
    <2>2. InStep /\ handled = [i \in 1 .. n - 1 |-> i]
      BY <1>10, <2>1 DEF ReassemblyInv, NothingLost
    <2>3. CASE NextByte'.frame = n /\ handled' = handled
      BY <1>9, <2>2, <2>3
    <2>4. CASE NextByte'.frame = n + 1 /\ handled' = Append(handled, n)
      <3>1. Append(handled, n) = [i \in 1 .. n |-> i]
        BY <1>10, <2>2
      <3>2. NextByte'.frame - 1 = n
        BY <1>10, <2>4
      <3>3. handled' = [i \in 1 .. NextByte'.frame - 1 |-> i]
        BY <2>4, <3>1, <3>2
      <3> QED BY <1>9, <2>2, <3>3
    <2> QED BY <1>9, <2>2, <2>3, <2>4
  <1>12. ASSUME InStepSoon, FramesAreShort PROVE InStepSoon'
    <2>1. SUFFICES ASSUME ToSet(sent) \cap Lookalikes = {}
                   PROVE  /\ InStep' \/ Lagging' \/ Skipping'
                          /\ \A i \in hurt + 3 .. NextByte'.frame - 1 : i \in ToSet(handled')
      BY <1>2 DEF InStepSoon
    <2>2. /\ InStep \/ Lagging \/ Skipping
          /\ \A i \in hurt + 3 .. n - 1 : i \in ToSet(handled)
      BY <1>10, <1>12, <2>1 DEF InStepSoon
    <2>3. hurt \in Nat
      BY <1>1 DEF ReassemblyTypeOK
    <2>4. CASE InStep
      <3>1. CASE NextByte'.frame = n /\ handled' = handled
        BY <1>9, <2>2, <2>4, <3>1
      <3>2. CASE NextByte'.frame = n + 1 /\ handled' = Append(handled, n)
        <4>1. handled \in Seq(DOMAIN sent) /\ n \in DOMAIN sent
          BY <1>1 DEF HandledIsPast
        <4>2. ToSet(handled') = ToSet(handled) \cup {n}
          BY <3>2, <4>1 DEF ToSet
        <4>3. ASSUME NEW i \in hurt + 3 .. NextByte'.frame - 1 PROVE i \in ToSet(handled')
          <5>1. i = n \/ i \in hurt + 3 .. n - 1
            BY <1>10, <2>3, <3>2
          <5> QED BY <2>2, <4>2, <5>1
        <4> QED BY <1>9, <2>4, <4>3
      <3> QED BY <1>9, <2>4, <3>1, <3>2
    <2>5. CASE Lagging
      <3>1. (InStep \/ Lagging \/ Skipping)' /\ NextByte'.frame <= hurt + 3
        BY <1>1, <1>5, <1>6, <1>12, <2>1, <2>5, LaggingReceives
      <3>2. NextByte'.frame \in Nat
        BY <1>1, <1>5, Moves
      <3> QED BY <2>3, <3>1, <3>2
    <2>6. CASE Skipping
      <3>1. (InStep \/ Skipping)' /\ NextByte'.frame <= hurt + 3
        BY <1>1, <1>5, <1>6, <2>1, <2>6, SkippingReceives
      <3>2. NextByte'.frame \in Nat
        BY <1>1, <1>5, Moves
      <3> QED BY <2>3, <3>1, <3>2
    <2> QED BY <2>2, <2>4, <2>5, <2>6
  <1> QED BY <1>3, <1>7, <1>8, <1>11, <1>12 DEF ReassemblyInv, FramesAreShort

LEMMA ReassemblyInvStep ==
    ASSUME ReassemblyInv, [ReassemblyNext]_rvars
    PROVE  ReassemblyInv'
  <1>1. CASE SendFrame
    BY <1>1, SendKeepsInv
  <1>2. CASE Lose
    BY <1>2, LoseKeepsInv
  <1>3. CASE Reject \/ Collect \/ PassOn
    BY <1>3, ReceivesKeepsInv DEF Receives
  <1>4. CASE UNCHANGED rvars
    <2> USE <1>4 DEF rvars
    <2>1. NextByte' = NextByte /\ AirIsGapless' = AirIsGapless
      BY DEF NextByte, AirIsGapless, IsPart, Following, Last, FrameSize
    <2>2. ReassemblyTypeOK' = ReassemblyTypeOK
      BY DEF ReassemblyTypeOK, NotAFrame, IsMagic, IsComplete, DeclaredLength
    <2>3. BufferIsPast' = BufferIsPast /\ HandledIsPast' = HandledIsPast
      BY <2>1 DEF BufferIsPast, HandledIsPast
    <2>4. InStep' = InStep /\ Lagging' = Lagging /\ Skipping' = Skipping
      BY <2>1 DEF InStep, Lagging, Skipping
    <2>5. NothingLost' = NothingLost /\ InStepSoon' = InStepSoon
      BY <2>1, <2>4 DEF NothingLost, InStepSoon
    <2> QED BY <2>1, <2>2, <2>3, <2>5 DEF ReassemblyInv, FramesAreShort
  <1> QED BY <1>1, <1>2, <1>3, <1>4 DEF ReassemblyNext

\* Every reachable state of the reassembly satisfies the inductive invariant.
THEOREM ReassemblyInvariant == ReassemblySpec => []ReassemblyInv
  <1>1. ReassemblyInit => ReassemblyInv
    BY ReassemblyInvInit
  <1>2. ReassemblyInv /\ [ReassemblyNext]_rvars => ReassemblyInv'
    BY ReassemblyInvStep
  <1> QED BY <1>1, <1>2, PTL DEF ReassemblySpec


-------------------------------------------------------------------------------
(***************************************************************************)
(* What follows from it.                                                   *)
(***************************************************************************)

\* The buffer is empty or starts with the magic, and never holds as much as its header
\* declares: parse_l1 has then answered it or thrown it away (device.py:173-182,
\* protocol.py:126-138).
THEOREM ReassemblyTypeCorrect == ReassemblySpec => []ReassemblyTypeOK
  <1>1. ReassemblyInv => ReassemblyTypeOK
    BY DEF ReassemblyInv
  <1> QED BY <1>1, ReassemblyInvariant, PTL

\* As long as nothing is lost, every frame is passed on, whatever their lengths and the
\* bytes in them, however many notifications they take (device.py:180-181).
THEOREM NothingIsIgnored == ReassemblySpec => []NothingIgnored
  <1>1. ASSUME ReassemblyInv PROVE NothingIgnored
    <2>1. SUFFICES ASSUME losses = 0, air = <<>>
                   PROVE  handled = [n \in DOMAIN sent |-> n]
      BY DEF NothingIgnored
    <2>2. NextByte.frame = Len(sent) + 1 /\ sent \in Seq(Kinds)
      BY <1>1, <2>1 DEF ReassemblyInv, ReassemblyTypeOK, NextByte, Byte
    <2>3. handled = [n \in 1 .. NextByte.frame - 1 |-> n]
      BY <1>1, <2>1 DEF ReassemblyInv, NothingLost
    <2>4. 1 .. NextByte.frame - 1 = DOMAIN sent
      BY <2>2
    <2> QED BY <2>3, <2>4
  <1> QED BY <1>1, ReassemblyInvariant, PTL

\* After a loss the buffer is in step again with the third frame, at the latest, if no part
\* of a frame looks like the start of one and no frame is so long that a gap in it takes more
\* than two others to fill (device.py:177-182, protocol.py:126-138).
THEOREM ResyncsAreSoon ==
    ASSUME FramesAreShort
    PROVE  ReassemblySpec => []ResyncsSoon
  <1>1. ASSUME ReassemblyInv PROVE ResyncsSoon
    <2>1. SUFFICES ASSUME ToSet(sent) \cap Lookalikes = {}, NEW n \in Ignored
                   PROVE  n <= hurt + 2
      BY DEF ResyncsSoon
    <2>2. /\ AirIsGapless
          /\ hurt \in Nat /\ sent \in Seq(Kinds)
          /\ \A i \in hurt + 3 .. NextByte.frame - 1 : i \in ToSet(handled)
      BY <1>1, <2>1, FramesAreShort DEF ReassemblyInv, ReassemblyTypeOK, InStepSoon
    <2>3. n \in DOMAIN sent /\ n \in Nat /\ n <= Len(sent) /\ Len(sent) \in Nat
      BY <2>2 DEF Ignored
    <2>4. n \notin ToSet(handled)
      BY DEF Ignored, ToSet
    <2>5. n \notin NextByte.frame .. Len(sent)
      BY <2>2 DEF AirIsGapless, Ignored
    <2>6. NextByte.frame \in Nat
      BY <2>2, NextTyped
    <2> QED BY <2>2, <2>3, <2>4, <2>5, <2>6
  <1> QED BY <1>1, ReassemblyInvariant, PTL

LEMMA InitIsChannelInit == ReassemblyInit => Channel!ChannelInit
  BY DEF ReassemblyInit, Channel!ChannelInit

\* Sending a frame and passing one on are the steps of the channel; all else is hidden from it.
LEMMA StepIsChannelStep ==
    ASSUME ReassemblyInv, [ReassemblyNext]_rvars
    PROVE  [Channel!Send \/ Channel!Handle]_Channel!channelVars
  <1> USE DEF Channel!channelVars
  <1>1. CASE SendFrame
    BY <1>1 DEF SendFrame, Channel!Send
  <1>2. CASE Lose \/ Reject \/ Collect \/ UNCHANGED rvars
    BY <1>2 DEF Lose, Reject, Collect, Arrives, rvars
  <1>3. CASE PassOn
    <2>1. /\ sent \in Seq(Kinds) /\ AirIsGapless /\ BufferIsPast /\ HandledIsPast
      BY DEF ReassemblyInv, ReassemblyTypeOK
    <2>2. Receives /\ air # <<>> /\ air' = Tail(air) /\ UNCHANGED sent
      BY <1>3 DEF PassOn, Arrives, Receives
    <2>3. PICK n \in DOMAIN sent :
              \E a \in 1 .. FrameSize(n), len \in Nat \ {0} : Delivers(n, a, len)
      BY <2>1, <2>2, Taken
    <2>4. PICK a \in 1 .. FrameSize(n), len \in Nat \ {0} : Delivers(n, a, len)
      BY <2>3
    <2>5. Takes(n, a, len)
      BY <2>1, <2>4, BufferTakes DEF BufferIsPast
    <2>6. /\ ~NotAFrame(Received) /\ IsComplete(Received) /\ Whole(Received)
          /\ handled' = Append(handled, Received[1].frame)
      BY <1>3 DEF PassOn, CrcMatches
    <2>7. Received[1].frame \in DOMAIN sent
      BY <2>1, <2>4, <2>5, <2>6, PassedOnIsPast
    <2>8. \A i \in DOMAIN handled : handled[i] < Received[1].frame
      BY <2>1, <2>4, <2>5, NotPassedOnYet
    <2> QED BY <2>2, <2>6, <2>7, <2>8 DEF Channel!Handle
  <1> QED BY <1>1, <1>2, <1>3 DEF ReassemblyNext

\* Of the frames sent, some are handled, each at most once, whole, and in the order they were
\* sent, whichever notifications are lost (protocol.py:126-138, device.py:173-182).
THEOREM ChannelIsKept == ReassemblySpec => ChannelKept
  <1>1. ReassemblyInit => Channel!ChannelInit
    BY InitIsChannelInit
  <1>2. ReassemblyInv /\ [ReassemblyNext]_rvars
            => [Channel!Send \/ Channel!Handle]_Channel!channelVars
    BY StepIsChannelStep
  <1> QED
    BY <1>1, <1>2, ReassemblyInvariant, PTL DEF ReassemblySpec, ChannelKept, Channel!ChannelSpec
===============================================================================
