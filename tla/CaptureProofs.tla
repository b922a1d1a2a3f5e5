------------------------------ MODULE CaptureProofs ------------------------------
(***************************************************************************)
(* Capture for any traffic on any streams, any fragment size and any snap  *)
(* lengths: CaptureInv is inductive, so MessagesAsSent always holds.       *)
(***************************************************************************)
EXTENDS Capture, TLAPS

\* A part is bytes a + 1 to e of others.
Piece(part, bytes, a, e) ==
    /\ a \in Nat /\ e \in Nat /\ a < e /\ e <= Len(bytes)
    /\ part \in Seq(Octets) /\ Len(part) = e - a
    /\ \A i \in 1 .. e - a : part[i] = bytes[a + i]

-------------------------------------------------------------------------------
(***************************************************************************)
(* Arithmetic.                                                             *)
(***************************************************************************)
\* Division leaves a remainder smaller than the divisor.
LEMMA Division ==
    ASSUME NEW m \in Nat, NEW b \in Nat \ {0}
    PROVE  /\ m \div b \in Nat
           /\ m % b \in 0 .. b - 1
           /\ m = (m \div b) * b + (m % b)
  OBVIOUS

\* A larger factor gives a larger product.
LEMMA Product ==
    ASSUME NEW j \in Nat, NEW k \in Nat, NEW b \in Nat
    PROVE  /\ j * b \in Nat
           /\ (j + 1) * b = j * b + b
           /\ j <= k => j * b <= k * b
  OBVIOUS

\* Rounded up, the quotient is the number of parts of at most b into which m falls.
LEMMA RoundedUp ==
    ASSUME NEW m \in Nat \ {0}, NEW b \in Nat \ {0}
    PROVE  LET q == (m + b - 1) \div b
           IN  q \in Nat \ {0} /\ (q - 1) * b < m /\ m <= q * b
  <1> DEFINE q == (m + b - 1) \div b
  <1>1. m + b - 1 \in Nat
    OBVIOUS
  <1>2. /\ q \in Nat
        /\ (m + b - 1) % b \in 0 .. b - 1
        /\ m + b - 1 = q * b + ((m + b - 1) % b)
    BY <1>1, Division
  <1> HIDE DEF q
  <1>3. q * b \in Nat /\ m + b - 1 <= q * b + b - 1 /\ q * b <= m + b - 1
    BY <1>2, Product
  <1>4. m <= q * b
    BY <1>3
  <1>5. q # 0
    BY <1>4
  <1>6. q - 1 \in Nat /\ q - 1 + 1 = q
    BY <1>2, <1>5
  <1>7. (q - 1) * b \in Nat /\ q * b = (q - 1) * b + b
    BY <1>6, Product
  <1> QED BY <1>2, <1>3, <1>4, <1>5, <1>7 DEF q

\* Two octets hold a number below 65536, the lower one first.
LEMMA LittleTyped ==
    ASSUME NEW n \in Words
    PROVE  /\ Little(n) \in Seq(Octets) /\ Len(Little(n)) = 2
           /\ Little(n)[1] + 256 * Little(n)[2] = n
  <1>1. n \in Nat /\ n < 65536
    BY DEF Words
  <1>2. /\ n % 256 \in Nat /\ n % 256 < 256
        /\ n \div 256 \in Nat /\ n \div 256 < 256
        /\ n = (n \div 256) * 256 + (n % 256)
    BY <1>1
  <1> QED BY <1>2 DEF Little, Octets

-------------------------------------------------------------------------------
(***************************************************************************)
(* Slices.                                                                 *)
(***************************************************************************)
\* Two sequences, one behind the other.
LEMMA Joined ==
    ASSUME NEW S, NEW s \in Seq(S), NEW t \in Seq(S)
    PROVE  /\ s \o t \in Seq(S) /\ Len(s \o t) = Len(s) + Len(t)
           /\ Len(s) \in Nat /\ Len(t) \in Nat
           /\ \A k \in 1 .. Len(s) : (s \o t)[k] = s[k]
           /\ \A k \in 1 .. Len(t) : (s \o t)[Len(s) + k] = t[k]
  OBVIOUS

\* The places of a sequence from a to b.
LEMMA SubSeqProperties ==
    ASSUME NEW S, NEW s \in Seq(S), NEW a \in Nat \ {0}, NEW b \in Int, b <= Len(s)
    PROVE  /\ SubSeq(s, a, b) \in Seq(S)
           /\ Len(SubSeq(s, a, b)) = IF a <= b THEN b - a + 1 ELSE 0
           /\ \A i \in 1 .. b - a + 1 : SubSeq(s, a, b)[i] = s[a + i - 1]
  OBVIOUS

\* Two sequences of the same elements are equal.
LEMMA SameElements ==
    ASSUME NEW S, NEW s \in Seq(S), NEW t \in Seq(S), Len(s) = Len(t),
           \A i \in 1 .. Len(s) : s[i] = t[i]
    PROVE  s = t
  OBVIOUS

\* A slice ends at the end, at the latest.
LEMMA SliceIs ==
    ASSUME NEW S, NEW s \in Seq(S), NEW a \in Nat \ {0}, NEW b \in Int
    PROVE  /\ Slice(s, a, b) \in Seq(S)
           /\ b <= Len(s) /\ a <= b + 1 => Len(Slice(s, a, b)) = b - a + 1
           /\ b >= Len(s) /\ a <= Len(s) + 1 => Len(Slice(s, a, b)) = Len(s) - a + 1
           /\ b < a => Len(Slice(s, a, b)) = 0
           /\ \A i \in 1 .. Len(Slice(s, a, b)) : a + i - 1 <= Len(s) /\ Slice(s, a, b)[i] = s[a + i - 1]
  <1>1. PICK e \in Int : e = (IF b < Len(s) THEN b ELSE Len(s))
    OBVIOUS
  <1>2. Slice(s, a, b) = SubSeq(s, a, e)
    BY <1>1 DEF Slice
  <1>3. e <= Len(s)
    BY <1>1
  <1>4. /\ SubSeq(s, a, e) \in Seq(S)
        /\ Len(SubSeq(s, a, e)) = IF a <= e THEN e - a + 1 ELSE 0
        /\ \A i \in 1 .. e - a + 1 : SubSeq(s, a, e)[i] = s[a + i - 1]
    BY <1>3, SubSeqProperties
  <1>5. Len(s) \in Nat
    OBVIOUS
  <1> HIDE DEF Slice
  <1>6. b <= Len(s) /\ a <= b + 1 => Len(Slice(s, a, b)) = b - a + 1
    BY <1>1, <1>2, <1>4, <1>5
  <1>7. b >= Len(s) /\ a <= Len(s) + 1 => Len(Slice(s, a, b)) = Len(s) - a + 1
    BY <1>1, <1>2, <1>4, <1>5
  <1>8. b < a => Len(Slice(s, a, b)) = 0
    BY <1>1, <1>2, <1>4, <1>5
  <1>9. ASSUME NEW i \in 1 .. Len(Slice(s, a, b))
        PROVE  a + i - 1 <= Len(s) /\ Slice(s, a, b)[i] = s[a + i - 1]
    <2>1. a <= e /\ i \in 1 .. e - a + 1
      BY <1>1, <1>2, <1>4, <1>5
    <2> QED BY <1>1, <1>2, <1>4, <1>5, <2>1
  <1> QED BY <1>2, <1>4, <1>6, <1>7, <1>8, <1>9

\* The rest of a sequence.
LEMMA FromIs ==
    ASSUME NEW S, NEW s \in Seq(S), NEW a \in Nat \ {0}, a <= Len(s) + 1
    PROVE  /\ From(s, a) \in Seq(S)
           /\ Len(From(s, a)) = Len(s) - a + 1
           /\ \A i \in 1 .. Len(s) - a + 1 : From(s, a)[i] = s[a + i - 1]
  <1>1. Len(s) \in Int
    OBVIOUS
  <1>2. /\ SubSeq(s, a, Len(s)) \in Seq(S)
        /\ Len(SubSeq(s, a, Len(s))) = IF a <= Len(s) THEN Len(s) - a + 1 ELSE 0
        /\ \A i \in 1 .. Len(s) - a + 1 : SubSeq(s, a, Len(s))[i] = s[a + i - 1]
    BY <1>1, SubSeqProperties
  <1> QED BY <1>2 DEF From

\* The start of a sequence.
LEMMA StartIs ==
    ASSUME NEW S, NEW s \in Seq(S), NEW m \in 0 .. Len(s)
    PROVE  /\ SubSeq(s, 1, m) \in Seq(S)
           /\ Len(SubSeq(s, 1, m)) = m
           /\ \A i \in 1 .. m : SubSeq(s, 1, m)[i] = s[i]
  <1>1. m \in Int /\ m <= Len(s)
    OBVIOUS
  <1> QED BY <1>1, SubSeqProperties

-------------------------------------------------------------------------------
(***************************************************************************)
(* PDUs and their fragments.                                               *)
(***************************************************************************)
\* The header of a PDU is followed by its data, and says how many bytes that has.
LEMMA PduBytesAre ==
    ASSUME NEW pdu, IsPdu(pdu)
    PROVE  /\ pdu.data \in Seq(Octets) /\ Len(pdu.data) \in Nat
           /\ PduBytes(pdu) \in Seq(Octets)
           /\ Len(PduBytes(pdu)) = Len(pdu.data) + 4
           /\ LittleAt(PduBytes(pdu), 1) = Len(pdu.data)
           /\ LittleAt(PduBytes(pdu), 3) = pdu.cid
           /\ \A i \in 1 .. Len(pdu.data) : PduBytes(pdu)[4 + i] = pdu.data[i]
  <1>1. pdu.data \in Seq(Octets) /\ Len(pdu.data) \in Words /\ pdu.cid \in Words
    BY DEF IsPdu
  <1>2. PICK d \in Seq(Octets) : d = pdu.data
    BY <1>1
  <1>3. PICK l \in Seq(Octets) : l = Little(Len(d))
    BY <1>1, <1>2, LittleTyped
  <1>4. PICK c \in Seq(Octets) : c = Little(pdu.cid)
    BY <1>1, LittleTyped
  <1>5. Len(l) = 2 /\ l[1] + 256 * l[2] = Len(d)
    BY <1>1, <1>2, <1>3, LittleTyped
  <1>6. Len(c) = 2 /\ c[1] + 256 * c[2] = pdu.cid
    BY <1>1, <1>4, LittleTyped
  <1>7. PICK h :
           /\ h = l \o c /\ h \in Seq(Octets) /\ Len(h) = Len(l) + Len(c)
           /\ \A k \in 1 .. Len(l) : h[k] = l[k]
           /\ \A k \in 1 .. Len(c) : h[Len(l) + k] = c[k]
    <2>1. /\ l \o c \in Seq(Octets) /\ Len(l \o c) = Len(l) + Len(c)
          /\ \A k \in 1 .. Len(l) : (l \o c)[k] = l[k]
          /\ \A k \in 1 .. Len(c) : (l \o c)[Len(l) + k] = c[k]
      BY Joined
    <2> QED BY <2>1
  <1>8. Len(h) = 4 /\ h[1] = l[1] /\ h[2] = l[2] /\ h[3] = c[1] /\ h[4] = c[2]
    <2>1. 1 \in 1 .. Len(l) /\ 2 \in 1 .. Len(l) /\ 1 \in 1 .. Len(c) /\ 2 \in 1 .. Len(c)
      BY <1>5, <1>6
    <2>2. Len(h) = 4 /\ h[1] = l[1] /\ h[2] = l[2]
      BY <1>5, <1>6, <1>7, <2>1
    <2>3. h[2 + 1] = c[1] /\ h[2 + 2] = c[2]
      BY <1>5, <1>6, <1>7, <2>1
    <2> QED BY <2>2, <2>3
  <1>9. PICK bytes :
           /\ bytes = h \o d /\ bytes \in Seq(Octets) /\ Len(bytes) = Len(h) + Len(d)
           /\ Len(d) \in Nat
           /\ \A k \in 1 .. Len(h) : bytes[k] = h[k]
           /\ \A k \in 1 .. Len(d) : bytes[Len(h) + k] = d[k]
    <2>1. /\ h \o d \in Seq(Octets) /\ Len(h \o d) = Len(h) + Len(d) /\ Len(d) \in Nat
          /\ \A k \in 1 .. Len(h) : (h \o d)[k] = h[k]
          /\ \A k \in 1 .. Len(d) : (h \o d)[Len(h) + k] = d[k]
      BY <1>7, Joined
    <2> QED BY <2>1
  <1>10. bytes = PduBytes(pdu)
    BY <1>2, <1>3, <1>4, <1>7, <1>9 DEF PduBytes
  <1>11. /\ Len(bytes) = Len(d) + 4
         /\ \A k \in 1 .. Len(d) : bytes[4 + k] = d[k]
         /\ bytes[1] = h[1] /\ bytes[2] = h[2] /\ bytes[3] = h[3] /\ bytes[4] = h[4]
    <2>1. PICK n : n = Len(h)
      OBVIOUS
    <2>2. n = 4 /\ Len(bytes) = n + Len(d) /\ Len(d) \in Nat
      BY <1>8, <1>9, <2>1
    <2>3. \A k \in 1 .. Len(d) : bytes[n + k] = d[k]
      BY <1>9, <2>1
    <2>4. \A k \in 1 .. 4 : bytes[k] = h[k]
      BY <1>9, <2>1, <2>2
    <2> QED BY <2>2, <2>3, <2>4
  <1>12. LittleAt(bytes, 1) = Len(d) /\ LittleAt(bytes, 3) = pdu.cid
    <2>1. LittleAt(bytes, 1) = bytes[1] + 256 * bytes[2]
      BY DEF LittleAt
    <2>2. LittleAt(bytes, 3) = bytes[3] + 256 * bytes[4]
      BY DEF LittleAt
    <2> QED BY <1>5, <1>6, <1>8, <1>11, <2>1, <2>2
  <1> QED BY <1>2, <1>9, <1>10, <1>11, <1>12

\* The fragments of a PDU are its bytes, one after the other; but for the last they are full.
LEMMA FragmentsAre ==
    ASSUME NEW pdu, IsPdu(pdu)
    PROVE  /\ Fragments(pdu) \in Seq(Seq(Octets))
           /\ Len(Fragments(pdu)) \in Nat \ {0}
           /\ \A j \in 1 .. Len(Fragments(pdu)) :
                 /\ j = Len(Fragments(pdu)) => BytesOf(pdu, j) = Len(PduBytes(pdu))
                 /\ j < Len(Fragments(pdu)) =>
                       BytesOf(pdu, j) = j * AclSize /\ BytesOf(pdu, j) < Len(PduBytes(pdu))
           /\ \A j \in 1 .. Len(Fragments(pdu)) :
                 Piece(Fragments(pdu)[j], PduBytes(pdu), (j - 1) * AclSize, BytesOf(pdu, j))
  <1>1. PICK bytes \in Seq(Octets), m \in Nat \ {0} : bytes = PduBytes(pdu) /\ m = Len(bytes)
    BY PduBytesAre
  <1>2. AclSize \in Nat \ {0}
    BY AclAssumption DEF L2CAP_HEADER_LEN
  <1>3. PICK q : q = (m + AclSize - 1) \div AclSize
    OBVIOUS
  <1>4. q \in Nat \ {0} /\ (q - 1) * AclSize < m /\ m <= q * AclSize
    BY <1>1, <1>2, <1>3, RoundedUp
  <1>5. Fragments(pdu) = [j \in 1 .. q |-> Slice(bytes, (j - 1) * AclSize + 1, j * AclSize)]
    BY <1>1, <1>3 DEF Fragments
  <1>6. ASSUME NEW j \in 1 .. q
        PROVE  /\ (j - 1) * AclSize \in Nat /\ j * AclSize \in Nat
               /\ j * AclSize = (j - 1) * AclSize + AclSize
               /\ (j - 1) * AclSize < m
               /\ j < q => j * AclSize < m
    <2>1. j - 1 \in Nat /\ j \in Nat /\ j - 1 + 1 = j /\ q - 1 \in Nat /\ j - 1 <= q - 1
      BY <1>4
    <2>2. (j - 1) * AclSize \in Nat /\ j * AclSize \in Nat /\ j * AclSize = (j - 1) * AclSize + AclSize
      BY <1>2, <2>1, Product
    <2>3. (j - 1) * AclSize <= (q - 1) * AclSize /\ (q - 1) * AclSize \in Nat
      BY <1>2, <2>1, Product
    <2>4. (j - 1) * AclSize < m
      BY <1>4, <2>2, <2>3
    <2>5. ASSUME j < q PROVE j * AclSize < m
      <3>1. j <= q - 1
        BY <1>4, <2>1, <2>5
      <3>2. j * AclSize <= (q - 1) * AclSize
        BY <1>2, <2>1, <3>1, Product
      <3> QED BY <1>4, <2>2, <2>3, <3>2
    <2> QED BY <2>2, <2>4, <2>5
  <1>7. ASSUME NEW j \in 1 .. q
        PROVE  Piece(Slice(bytes, (j - 1) * AclSize + 1, j * AclSize), bytes,
                     (j - 1) * AclSize, BytesOf(pdu, j))
    <2>1. PICK a \in Nat, b \in Nat : a = (j - 1) * AclSize /\ b = j * AclSize
      BY <1>6
    <2>2. b = a + AclSize /\ a < m
      BY <1>6, <2>1
    <2>3. BytesOf(pdu, j) = IF b < m THEN b ELSE m
      BY <1>1, <2>1 DEF BytesOf
    <2>4. PICK e \in Nat : e = BytesOf(pdu, j)
      BY <2>3, <1>1
    <2>5. /\ Slice(bytes, a + 1, b) \in Seq(Octets)
          /\ b <= Len(bytes) => Len(Slice(bytes, a + 1, b)) = b - a
          /\ b >= Len(bytes) => Len(Slice(bytes, a + 1, b)) = m - a
          /\ \A i \in 1 .. Len(Slice(bytes, a + 1, b)) : Slice(bytes, a + 1, b)[i] = bytes[a + i]
      <3>1. /\ a + 1 \in Nat \ {0} /\ b \in Int /\ a + 1 <= b + 1 /\ a + 1 <= Len(bytes) + 1
            /\ b - (a + 1) + 1 = b - a /\ Len(bytes) - (a + 1) + 1 = m - a
        BY <1>1, <1>2, <2>1, <2>2
      <3>2. PICK t : t = Slice(bytes, a + 1, b)
        OBVIOUS
      <3>3. /\ t \in Seq(Octets)
            /\ b <= Len(bytes) => Len(t) = b - (a + 1) + 1
            /\ b >= Len(bytes) => Len(t) = Len(bytes) - (a + 1) + 1
            /\ \A i \in 1 .. Len(t) : t[i] = bytes[a + 1 + i - 1]
        BY <3>1, <3>2, SliceIs
      <3>4. \A i \in 1 .. Len(t) : a + 1 + i - 1 = a + i
        BY <2>1, <3>3
      <3> QED BY <3>1, <3>2, <3>3, <3>4
    <2>6. a < e /\ e <= m
      BY <1>1, <1>2, <2>2, <2>3, <2>4
    <2>7. PICK t : t = Slice(bytes, a + 1, b)
      OBVIOUS
    <2>8. Len(t) = e - a
      <3>1. CASE b < m
        BY <1>1, <2>1, <2>3, <2>4, <2>5, <2>7, <3>1
      <3>2. CASE ~(b < m)
        BY <1>1, <2>1, <2>3, <2>4, <2>5, <2>7, <3>2
      <3> QED BY <3>1, <3>2
    <2>9. Piece(t, bytes, a, e)
      BY <1>1, <2>1, <2>4, <2>5, <2>6, <2>7, <2>8 DEF Piece
    <2> QED BY <2>1, <2>4, <2>7, <2>9
  <1>8. DOMAIN Fragments(pdu) = 1 .. q /\ \A j \in 1 .. q : Fragments(pdu)[j] \in Seq(Octets)
    BY <1>5, <1>7 DEF Piece
  <1>9. Fragments(pdu) \in Seq(Seq(Octets)) /\ Len(Fragments(pdu)) = q
    <2>1. \E n \in Nat : DOMAIN Fragments(pdu) = 1 .. n
      BY <1>4, <1>8
    <2>2. Fragments(pdu) \in [1 .. q -> Seq(Octets)]
      BY <1>5, <1>8
    <2> QED BY <1>4, <2>2
  <1>10. ASSUME NEW j \in 1 .. q
         PROVE  /\ j = q => BytesOf(pdu, j) = m
                /\ j < q => BytesOf(pdu, j) = j * AclSize /\ BytesOf(pdu, j) < m
    <2>1. BytesOf(pdu, j) = IF j * AclSize < m THEN j * AclSize ELSE m
      BY <1>1 DEF BytesOf
    <2>2. j = q => ~(j * AclSize < m)
      BY <1>4, <1>6, <1>1
    <2> QED BY <1>6, <2>1, <2>2
  <1>11. \A j \in 1 .. q : Piece(Fragments(pdu)[j], bytes, (j - 1) * AclSize, BytesOf(pdu, j))
    BY <1>5, <1>7
  <1> QED BY <1>1, <1>4, <1>9, <1>10, <1>11

-------------------------------------------------------------------------------
(***************************************************************************)
(* What the records leave in the buffer.                                   *)
(***************************************************************************)
\* What a record keeps of a fragment: its start, and all of it if it fits.
LEMMA RecordKeeps ==
    ASSUME NEW part \in Seq(Octets), snap \in Nat
    PROVE  LET payload == Slice(part, 1, snap - ACL_HEADER_LEN)
           IN  /\ payload \in Seq(Octets) /\ Len(payload) \in Nat /\ Len(part) \in Nat
               /\ Fits(part) => payload = part
               /\ ~Fits(part) /\ Len(part) >= 1 => Len(payload) < Len(part)
               /\ HeaderIsCut => Len(payload) < 4
               /\ ~HeaderIsCut /\ Len(part) >= 4 => Len(payload) >= 4
               /\ \A i \in 1 .. Len(payload) : payload[i] = part[i]
  <1>1. PICK b \in Int : b = snap - ACL_HEADER_LEN
    BY DEF ACL_HEADER_LEN
  <1>2. PICK payload : payload = Slice(part, 1, b)
    OBVIOUS
  <1>3. Len(part) \in Nat
    OBVIOUS
  <1>4. /\ payload \in Seq(Octets)
        /\ b <= Len(part) /\ 1 <= b + 1 => Len(payload) = b - 1 + 1
        /\ b >= Len(part) /\ 1 <= Len(part) + 1 => Len(payload) = Len(part) - 1 + 1
        /\ b < 1 => Len(payload) = 0
        /\ \A i \in 1 .. Len(payload) : 1 + i - 1 <= Len(part) /\ payload[i] = part[1 + i - 1]
    BY <1>2, SliceIs
  <1>5. Len(payload) \in Nat
    BY <1>4
  <1>6. \A i \in 1 .. Len(payload) : payload[i] = part[i]
    BY <1>4, <1>5
  <1>7. /\ b <= Len(part) /\ 0 <= b => Len(payload) = b
        /\ b >= Len(part) => Len(payload) = Len(part)
        /\ b < 1 => Len(payload) = 0
    BY <1>3, <1>4
  <1>8. Fits(part) <=> b >= Len(part)
    BY <1>1, <1>3 DEF Fits, ACL_HEADER_LEN
  <1>9. HeaderIsCut <=> b < 4
    BY <1>1 DEF HeaderIsCut, ACL_HEADER_LEN, L2CAP_HEADER_LEN
  <1>10. Fits(part) => payload = part
    <2>1. Fits(part) => Len(payload) = Len(part)
      BY <1>7, <1>8
    <2> QED BY <1>4, <1>6, <2>1, SameElements
  <1>11. ~Fits(part) /\ Len(part) >= 1 => Len(payload) < Len(part)
    BY <1>3, <1>5, <1>7, <1>8
  <1>12. HeaderIsCut => Len(payload) < 4
    BY <1>3, <1>5, <1>7, <1>9
  <1>13. ~HeaderIsCut /\ Len(part) >= 4 => Len(payload) >= 4
    BY <1>3, <1>5, <1>7, <1>9
  <1> QED BY <1>1, <1>2, <1>3, <1>4, <1>5, <1>6, <1>10, <1>11, <1>12, <1>13

\* The bytes a fragment holds are those of its PDU: the header, if it is the first, and data.
LEMMA FragmentBytes ==
    ASSUME NEW pdu, IsPdu(pdu), NEW j \in 1 .. Len(Fragments(pdu))
    PROVE  /\ Piece(Fragments(pdu)[j], PduBytes(pdu), (j - 1) * AclSize, BytesOf(pdu, j))
           /\ BytesOf(pdu, j) \in Nat /\ BytesOf(pdu, j) >= 4
           /\ BytesOf(pdu, j) <= Len(pdu.data) + 4
           /\ j < Len(Fragments(pdu)) <=> BytesOf(pdu, j) < Len(pdu.data) + 4
           /\ j > 1 => BytesOf(pdu, j - 1) = (j - 1) * AclSize
  <1>1. /\ Len(Fragments(pdu)) \in Nat \ {0}
        /\ Piece(Fragments(pdu)[j], PduBytes(pdu), (j - 1) * AclSize, BytesOf(pdu, j))
        /\ j = Len(Fragments(pdu)) => BytesOf(pdu, j) = Len(PduBytes(pdu))
        /\ j < Len(Fragments(pdu)) =>
              BytesOf(pdu, j) = j * AclSize /\ BytesOf(pdu, j) < Len(PduBytes(pdu))
    BY FragmentsAre
  <1>2. Len(PduBytes(pdu)) = Len(pdu.data) + 4 /\ Len(pdu.data) \in Nat
    BY PduBytesAre
  <1>3. j \in Nat /\ j <= Len(Fragments(pdu)) /\ j >= 1
    BY <1>1
  <1>4. BytesOf(pdu, j) \in Nat
    BY <1>1 DEF Piece
  <1>5. AclSize \in Nat /\ AclSize >= 4
    BY AclAssumption DEF L2CAP_HEADER_LEN
  <1>6. 1 * AclSize <= j * AclSize /\ 1 * AclSize = AclSize /\ j * AclSize \in Nat
    BY <1>3, <1>5, Product
  <1>7. BytesOf(pdu, j) >= 4
    BY <1>2, <1>5, <1>6 DEF BytesOf
  <1>8. BytesOf(pdu, j) <= Len(pdu.data) + 4
    BY <1>1, <1>2, <1>4 DEF Piece
  <1>9. j < Len(Fragments(pdu)) <=> BytesOf(pdu, j) < Len(pdu.data) + 4
    BY <1>1, <1>2, <1>3, <1>4
  <1>10. j > 1 => BytesOf(pdu, j - 1) = (j - 1) * AclSize
    <2>1. (j - 1) * AclSize < Len(PduBytes(pdu))
      BY <1>1, <1>2, <1>4, <1>8 DEF Piece
    <2> QED BY <2>1 DEF BytesOf
  <1> QED BY <1>1, <1>4, <1>7, <1>8, <1>9, <1>10

\* The record of the first fragment: header and buffer.
LEMMA GatherStart ==
    ASSUME NEW pdu, IsPdu(pdu), snap \in Nat, ~HeaderIsCut
    PROVE  LET payload == Slice(Fragments(pdu)[1], 1, snap - ACL_HEADER_LEN)
           IN  /\ Len(payload) \in Nat /\ Len(payload) >= 4
               /\ LittleAt(payload, 1) = Len(pdu.data)
               /\ LittleAt(payload, 3) = pdu.cid
               /\ Gathered(pdu, 1, From(payload, 5))
  <1>1. 1 \in 1 .. Len(Fragments(pdu))
    BY FragmentsAre
  <1>2. PICK bytes, part, e :
           /\ bytes = PduBytes(pdu) /\ part = Fragments(pdu)[1] /\ e = BytesOf(pdu, 1)
           /\ Piece(part, bytes, (1 - 1) * AclSize, e)
           /\ e \in Nat /\ e >= 4 /\ e <= Len(pdu.data) + 4
    BY <1>1, FragmentBytes
  <1>3. (1 - 1) * AclSize = 0
    BY AclAssumption
  <1>4. /\ part \in Seq(Octets) /\ Len(part) = e
        /\ \A i \in 1 .. e : part[i] = bytes[i]
    BY <1>2, <1>3 DEF Piece
  <1>5. PICK payload : payload = Slice(part, 1, snap - ACL_HEADER_LEN)
    OBVIOUS
  <1>6. /\ payload \in Seq(Octets) /\ Len(payload) \in Nat
        /\ Fits(part) => payload = part
        /\ ~Fits(part) /\ Len(part) >= 1 => Len(payload) < Len(part)
        /\ Len(part) >= 4 => Len(payload) >= 4
        /\ \A i \in 1 .. Len(payload) : payload[i] = part[i]
    BY <1>4, <1>5, RecordKeeps
  <1>7. Len(payload) >= 4 /\ Len(payload) <= e
    BY <1>2, <1>4, <1>6
  <1>8. \A i \in 1 .. Len(payload) : payload[i] = bytes[i]
    BY <1>2, <1>4, <1>6, <1>7
  <1>9. payload[1] = bytes[1] /\ payload[2] = bytes[2] /\ payload[3] = bytes[3] /\ payload[4] = bytes[4]
    BY <1>6, <1>7, <1>8
  <1>10. LittleAt(payload, 1) = Len(pdu.data) /\ LittleAt(payload, 3) = pdu.cid
    <2>1. LittleAt(payload, 1) = LittleAt(bytes, 1) /\ LittleAt(payload, 3) = LittleAt(bytes, 3)
      BY <1>9 DEF LittleAt
    <2> QED BY <1>2, <2>1, PduBytesAre
  <1>11. PICK buf : buf = From(payload, 5)
    OBVIOUS
  <1>12. /\ buf \in Seq(Octets) /\ Len(buf) = Len(payload) - 4
         /\ \A i \in 1 .. Len(payload) - 4 : buf[i] = payload[4 + i]
    <2>1. 5 \in Nat \ {0} /\ 5 <= Len(payload) + 1
      BY <1>6, <1>7
    <2>2. /\ buf \in Seq(Octets) /\ Len(buf) = Len(payload) - 5 + 1
          /\ \A i \in 1 .. Len(payload) - 5 + 1 : buf[i] = payload[5 + i - 1]
      BY <1>6, <1>11, <2>1, FromIs
    <2>3. Len(payload) - 5 + 1 = Len(payload) - 4
      BY <1>6
    <2>4. \A i \in 1 .. Len(payload) - 4 : 5 + i - 1 = 4 + i
      BY <1>6
    <2> QED BY <2>2, <2>3, <2>4
  <1>13. Gathered(pdu, 1, buf)
    <2>1. (\A j \in 1 .. 1 : Fits(Fragments(pdu)[j])) <=> Fits(part)
      BY <1>2
    <2>2. ASSUME Fits(part) PROVE buf = SubSeq(pdu.data, 1, e - 4)
      <3>1. Len(payload) = e /\ Len(buf) = e - 4
        BY <1>4, <1>6, <1>12, <2>2
      <3>2. pdu.data \in Seq(Octets) /\ Len(pdu.data) \in Nat
            /\ \A i \in 1 .. Len(pdu.data) : bytes[4 + i] = pdu.data[i]
        BY <1>2, PduBytesAre
      <3>3. PICK d \in Seq(Octets) : d = pdu.data
        BY <3>2
      <3>4. e - 4 \in 0 .. Len(d)
        BY <1>2, <3>2, <3>3
      <3>5. /\ SubSeq(d, 1, e - 4) \in Seq(Octets) /\ Len(SubSeq(d, 1, e - 4)) = e - 4
            /\ \A i \in 1 .. e - 4 : SubSeq(d, 1, e - 4)[i] = d[i]
        BY <3>4, StartIs
      <3>6. \A i \in 1 .. e - 4 : buf[i] = d[i]
        <4>1. TAKE i \in 1 .. e - 4
        <4>2. i \in 1 .. Len(d) /\ 4 + i \in 1 .. Len(payload) /\ i \in 1 .. Len(payload) - 4
          BY <1>2, <3>1, <3>4
        <4>3. buf[i] = payload[4 + i] /\ payload[4 + i] = bytes[4 + i] /\ bytes[4 + i] = d[i]
          BY <1>8, <1>12, <3>2, <3>3, <4>2
        <4> QED BY <4>3
      <3> QED BY <1>12, <3>1, <3>3, <3>5, <3>6, SameElements
    <2>3. ASSUME ~Fits(part) PROVE Len(buf) + 4 < e
      BY <1>2, <1>4, <1>6, <1>7, <1>12, <2>3
    <2> QED BY <1>2, <1>12, <2>1, <2>2, <2>3 DEF Gathered, L2CAP_HEADER_LEN
  <1> QED BY <1>2, <1>5, <1>6, <1>7, <1>10, <1>11, <1>13

\* The record of a further fragment: more of the buffer.
LEMMA GatherMore ==
    ASSUME NEW pdu, IsPdu(pdu), snap \in Nat,
           NEW k \in Nat \ {0}, k < Len(Fragments(pdu)),
           NEW buf, Gathered(pdu, k, buf)
    PROVE  Gathered(pdu, k + 1,
                    buf \o Slice(Fragments(pdu)[k + 1], 1, snap - ACL_HEADER_LEN))
  <1>1. Len(Fragments(pdu)) \in Nat
    BY FragmentsAre
  <1>2. k \in 1 .. Len(Fragments(pdu)) /\ k + 1 \in 1 .. Len(Fragments(pdu)) /\ k + 1 > 1
    BY <1>1
  <1>3. PICK bytes, part, a, e :
           /\ bytes = PduBytes(pdu) /\ part = Fragments(pdu)[k + 1]
           /\ a = BytesOf(pdu, k) /\ e = BytesOf(pdu, k + 1)
    OBVIOUS
  <1>4. /\ Piece(part, bytes, (k + 1 - 1) * AclSize, e)
        /\ e \in Nat /\ e <= Len(pdu.data) + 4
        /\ BytesOf(pdu, k + 1 - 1) = (k + 1 - 1) * AclSize
    BY <1>2, <1>3, FragmentBytes
  <1>5. a \in Nat /\ a >= 4
    BY <1>2, <1>3, FragmentBytes
  <1>6. k + 1 - 1 = k
    OBVIOUS
  <1>7. Piece(part, bytes, a, e)
    BY <1>3, <1>4, <1>6
  <1>8. /\ a < e /\ part \in Seq(Octets) /\ Len(part) = e - a
        /\ \A i \in 1 .. e - a : part[i] = bytes[a + i]
    BY <1>7 DEF Piece
  <1>9. PICK payload : payload = Slice(part, 1, snap - ACL_HEADER_LEN)
    OBVIOUS
  <1>10. /\ payload \in Seq(Octets) /\ Len(payload) \in Nat
         /\ Fits(part) => payload = part
         /\ ~Fits(part) => Len(payload) < Len(part)
    <2>1. Len(part) >= 1
      BY <1>4, <1>5, <1>8
    <2> QED BY <1>8, <1>9, <2>1, RecordKeeps
  <1>11. PICK fit \in BOOLEAN : fit = \A j \in 1 .. k : Fits(Fragments(pdu)[j])
    OBVIOUS
  <1>12. /\ buf \in Seq(Octets)
         /\ fit => buf = SubSeq(pdu.data, 1, a - 4)
         /\ ~fit => Len(buf) + 4 < a
    BY <1>3, <1>11 DEF Gathered, L2CAP_HEADER_LEN
  <1>13. (\A j \in 1 .. k + 1 : Fits(Fragments(pdu)[j])) <=> fit /\ Fits(part)
    <2>1. \A j : j \in 1 .. k + 1 <=> j \in 1 .. k \/ j = k + 1
      OBVIOUS
    <2> QED BY <1>3, <1>11, <2>1
  <1>14. PICK d \in Seq(Octets) :
            /\ d = pdu.data /\ Len(d) \in Nat /\ e <= Len(d) + 4
            /\ \A i \in 1 .. Len(d) : bytes[4 + i] = d[i]
    BY <1>3, <1>4, PduBytesAre
  <1>15. a - 4 \in 0 .. Len(d) /\ e - 4 \in 0 .. Len(d)
    BY <1>4, <1>5, <1>8, <1>14
  <1>16. /\ SubSeq(d, 1, a - 4) \in Seq(Octets) /\ Len(SubSeq(d, 1, a - 4)) = a - 4
         /\ \A i \in 1 .. a - 4 : SubSeq(d, 1, a - 4)[i] = d[i]
    BY <1>15, StartIs
  <1>17. /\ SubSeq(d, 1, e - 4) \in Seq(Octets) /\ Len(SubSeq(d, 1, e - 4)) = e - 4
         /\ \A i \in 1 .. e - 4 : SubSeq(d, 1, e - 4)[i] = d[i]
    BY <1>15, StartIs
  <1>18. PICK both :
            /\ both = buf \o payload
            /\ both \in Seq(Octets) /\ Len(both) = Len(buf) + Len(payload)
            /\ Len(buf) \in Nat
            /\ \A i \in 1 .. Len(buf) : both[i] = buf[i]
            /\ \A i \in 1 .. Len(payload) : both[Len(buf) + i] = payload[i]
    <2>1. /\ buf \o payload \in Seq(Octets)
          /\ Len(buf \o payload) = Len(buf) + Len(payload)
          /\ Len(buf) \in Nat
          /\ \A i \in 1 .. Len(buf) : (buf \o payload)[i] = buf[i]
          /\ \A i \in 1 .. Len(payload) : (buf \o payload)[Len(buf) + i] = payload[i]
      BY <1>10, <1>12, Joined
    <2> QED BY <2>1
  <1>19. ASSUME fit, Fits(part) PROVE both = SubSeq(d, 1, e - 4)
    <2>1. /\ Len(buf) = a - 4 /\ Len(payload) = e - a /\ Len(both) = e - 4
          /\ payload = part
      <3>1. payload = part /\ buf = SubSeq(d, 1, a - 4)
        BY <1>10, <1>12, <1>14, <1>19
      <3>2. Len(buf) = a - 4
        BY <1>16, <3>1
      <3>3. Len(payload) = e - a
        BY <1>8, <3>1
      <3>4. Len(both) = Len(buf) + Len(payload)
        BY <1>18
      <3> QED BY <1>4, <1>5, <3>1, <3>2, <3>3, <3>4
    <2>2. ASSUME NEW i \in 1 .. e - 4 PROVE both[i] = d[i]
      <3>1. CASE i <= a - 4
        <4>1. i \in 1 .. Len(buf) /\ i \in 1 .. a - 4
          BY <1>5, <2>1, <3>1
        <4> QED BY <1>12, <1>14, <1>16, <1>18, <1>19, <4>1
      <3>2. CASE i > a - 4
        <4>1. PICK n \in 1 .. e - a : i = a - 4 + n
          <5>1. i - (a - 4) \in 1 .. e - a /\ i = a - 4 + (i - (a - 4))
            BY <1>4, <1>5, <3>2
          <5> QED BY <5>1
        <4>2. both[i] = part[n]
          BY <1>18, <2>1, <4>1
        <4>3. part[n] = bytes[a + n] /\ a + n = 4 + i /\ i \in 1 .. Len(d)
          BY <1>4, <1>5, <1>8, <1>14, <1>15, <4>1
        <4> QED BY <1>14, <4>2, <4>3
      <3> QED BY <1>4, <1>5, <3>1, <3>2
    <2> QED BY <1>17, <1>18, <2>1, <2>2, SameElements
  <1>20. ASSUME ~(fit /\ Fits(part)) PROVE Len(both) + 4 < e
    <2>1. CASE ~fit
      <3>1. Len(payload) <= Len(part)
        BY <1>4, <1>5, <1>8, <1>10
      <3> QED BY <1>4, <1>5, <1>8, <1>10, <1>12, <1>18, <2>1, <3>1
    <2>2. CASE fit /\ ~Fits(part)
      <3>1. Len(buf) = a - 4 /\ Len(payload) < e - a
        BY <1>8, <1>10, <1>12, <1>14, <1>16, <2>2
      <3> QED BY <1>4, <1>5, <1>10, <1>18, <3>1
    <2> QED BY <1>20, <2>1, <2>2
  <1>21. Gathered(pdu, k + 1, both)
    BY <1>3, <1>13, <1>14, <1>18, <1>19, <1>20 DEF Gathered, L2CAP_HEADER_LEN
  <1> QED BY <1>3, <1>9, <1>18, <1>21

\* A buffer waits until the last fragment, and then for ever if one was cut.
LEMMA GatherEnds ==
    ASSUME NEW pdu, IsPdu(pdu), snap \in Nat,
           NEW k \in 1 .. Len(Fragments(pdu)),
           NEW buf, Gathered(pdu, k, buf)
    PROVE  /\ buf \in Seq(Octets) /\ Len(buf) \in Nat /\ Len(pdu.data) \in Nat
           /\ k < Len(Fragments(pdu)) => Len(buf) < Len(pdu.data)
           /\ k = Len(Fragments(pdu)) =>
                 IF \A j \in DOMAIN Fragments(pdu) : Fits(Fragments(pdu)[j])
                 THEN buf = pdu.data
                 ELSE Len(buf) < Len(pdu.data)
  <1>1. PICK d \in Seq(Octets) : d = pdu.data /\ Len(d) \in Nat
    BY PduBytesAre
  <1>2. PICK e \in Nat : /\ e = BytesOf(pdu, k)
                         /\ e >= 4 /\ e <= Len(d) + 4
                         /\ k < Len(Fragments(pdu)) <=> e < Len(d) + 4
    BY <1>1, FragmentBytes
  <1>3. /\ buf \in Seq(Octets) /\ Len(buf) \in Nat
        /\ IF \A j \in 1 .. k : Fits(Fragments(pdu)[j])
           THEN buf = SubSeq(d, 1, e - 4)
           ELSE Len(buf) + 4 < e
    BY <1>1, <1>2 DEF Gathered, L2CAP_HEADER_LEN
  <1>4. Len(SubSeq(d, 1, e - 4)) = e - 4 /\ (e - 4 = Len(d) => SubSeq(d, 1, e - 4) = d)
    <2>1. e - 4 \in 0 .. Len(d)
      BY <1>1, <1>2
    <2>2. /\ SubSeq(d, 1, e - 4) \in Seq(Octets) /\ Len(SubSeq(d, 1, e - 4)) = e - 4
          /\ \A i \in 1 .. e - 4 : SubSeq(d, 1, e - 4)[i] = d[i]
      BY <2>1, StartIs
    <2> QED BY <2>2, SameElements
  <1>5. Fragments(pdu) \in Seq(Seq(Octets)) /\ Len(Fragments(pdu)) \in Nat
    BY FragmentsAre
  <1>6. DOMAIN Fragments(pdu) = 1 .. Len(Fragments(pdu))
    BY <1>5
  <1>7. k < Len(Fragments(pdu)) => Len(buf) < Len(d)
    BY <1>1, <1>2, <1>3, <1>4
  <1>8. ASSUME k = Len(Fragments(pdu))
        PROVE  IF \A j \in DOMAIN Fragments(pdu) : Fits(Fragments(pdu)[j])
               THEN buf = d ELSE Len(buf) < Len(d)
    <2>1. e = Len(d) + 4
      BY <1>1, <1>2, <1>5, <1>8
    <2>2. PICK fit \in BOOLEAN : fit = \A j \in 1 .. k : Fits(Fragments(pdu)[j])
      OBVIOUS
    <2>3. (\A j \in DOMAIN Fragments(pdu) : Fits(Fragments(pdu)[j])) <=> fit
      BY <1>6, <1>8, <2>2
    <2>4. e - 4 = Len(d)
      BY <1>1, <2>1
    <2>5. fit => buf = d
      BY <1>3, <1>4, <2>2, <2>4
    <2>6. ~fit => Len(buf) < Len(d)
      <3>1. ~fit => Len(buf) + 4 < e
        BY <1>3, <2>2
      <3> QED BY <1>1, <1>3, <2>1, <3>1
    <2> QED BY <2>3, <2>5, <2>6
  <1> QED BY <1>1, <1>3, <1>7, <1>8

-------------------------------------------------------------------------------
(***************************************************************************)
(* Messages.                                                               *)
(***************************************************************************)
\* What a PDU is reported as.
LEMMA MessageTyped ==
    ASSUME NEW pdu, IsPdu(pdu), IsMessage(pdu.cid, pdu.data)
    PROVE  Message(pdu.data) \in Messages
  <1>1. PICK d \in Seq(Octets) : d = pdu.data
    BY DEF IsPdu
  <1>2. Len(d) \in Nat /\ Len(d) >= 3
    BY <1>1 DEF IsMessage
  <1>3. d[1] \in Octets /\ d[2] \in Octets /\ d[3] \in Octets
    BY <1>2
  <1>4. LittleAt(d, 2) \in Words
    <2>1. d[2] \in Nat /\ d[3] \in Nat /\ d[2] < 256 /\ d[3] < 256
      BY <1>3 DEF Octets
    <2>2. LittleAt(d, 2) = d[2] + 256 * d[3]
      BY DEF LittleAt
    <2> QED BY <2>1, <2>2 DEF Words
  <1>5. From(d, 4) \in Seq(Octets)
    BY <1>2, FromIs
  <1> QED BY <1>1, <1>3, <1>4, <1>5 DEF Message, Messages

\* No PDU has a message.
LEMMA NoMessages == AreTheMessages(<<>>, <<>>)
  <1>1. {n \in DOMAIN <<>> : IsReported(<<>>[n])} = {}
    OBVIOUS
  <1>2. [x \in {} |-> 0] \in [DOMAIN <<>> -> {}] /\ DOMAIN <<>> = {}
    OBVIOUS
  <1>3. Range([x \in {} |-> 0]) = {}
    BY DEF Range
  <1> QED BY <1>1, <1>2, <1>3 DEF AreTheMessages

\* One more PDU has one more message, or none.
LEMMA MessagesGrow ==
    ASSUME NEW S, NEW pdus \in Seq(S), NEW pdu \in S,
           NEW M, NEW msgs \in Seq(M), IsReported(pdu) => Message(pdu.data) \in M,
           AreTheMessages(msgs, pdus)
    PROVE  AreTheMessages(IF IsReported(pdu) THEN Append(msgs, Message(pdu.data)) ELSE msgs,
                          Append(pdus, pdu))
  <1>1. PICK R : R = {n \in DOMAIN pdus : IsReported(pdus[n])}
    OBVIOUS
  <1>2. PICK pduOf \in [DOMAIN msgs -> R] :
           /\ Range(pduOf) = R
           /\ \A i, j \in DOMAIN msgs : i < j => pduOf[i] < pduOf[j]
           /\ \A i \in DOMAIN msgs : msgs[i] = Message(pdus[pduOf[i]].data)
    BY <1>1 DEF AreTheMessages
  <1>3. PICK n \in Nat, m \in Nat : n = Len(pdus) /\ m = Len(msgs)
    OBVIOUS
  <1>4. /\ DOMAIN pdus = 1 .. n /\ DOMAIN msgs = 1 .. m
        /\ DOMAIN Append(pdus, pdu) = 1 .. n + 1
        /\ \A i \in 1 .. n : Append(pdus, pdu)[i] = pdus[i]
        /\ Append(pdus, pdu)[n + 1] = pdu
    BY <1>3
  <1>5. R \subseteq 1 .. n
    BY <1>1, <1>4
  <1>6. PICK R2 : R2 = {i \in DOMAIN Append(pdus, pdu) : IsReported(Append(pdus, pdu)[i])}
    OBVIOUS
  <1>7. R2 = IF IsReported(pdu) THEN R \cup {n + 1} ELSE R
    <2>1. \A i : i \in 1 .. n + 1 <=> i \in 1 .. n \/ i = n + 1
      BY <1>3
    <2>2. \A i : i \in R2 <=> i \in R \/ (i = n + 1 /\ IsReported(pdu))
      BY <1>1, <1>4, <1>6, <2>1
    <2> QED BY <2>2
  <1>8. CASE ~IsReported(pdu)
    <2>1. \A i \in DOMAIN msgs : Append(pdus, pdu)[pduOf[i]] = pdus[pduOf[i]]
      BY <1>2, <1>4, <1>5
    <2>2. PICK longer : longer = Append(pdus, pdu)
      OBVIOUS
    <2>3. R2 = R /\ \A i \in DOMAIN msgs : msgs[i] = Message(longer[pduOf[i]].data)
      BY <1>2, <1>7, <1>8, <2>1, <2>2
    <2>4. R = {i \in DOMAIN longer : IsReported(longer[i])}
      BY <1>6, <2>2, <2>3
    <2>5. AreTheMessages(msgs, longer)
      BY <1>2, <2>3, <2>4 DEF AreTheMessages
    <2> QED BY <1>8, <2>2, <2>5
  <1>9. CASE IsReported(pdu)
    <2>1. PICK more : more = Append(msgs, Message(pdu.data))
      OBVIOUS
    <2>2. /\ DOMAIN more = 1 .. m + 1
          /\ \A i \in 1 .. m : more[i] = msgs[i]
          /\ more[m + 1] = Message(pdu.data)
      BY <1>3, <1>9, <2>1
    <2>3. PICK of : of = [i \in 1 .. m + 1 |-> IF i <= m THEN pduOf[i] ELSE n + 1]
      OBVIOUS
    <2>4. /\ DOMAIN of = 1 .. m + 1 /\ of[m + 1] = n + 1
          /\ \A i \in 1 .. m : of[i] = pduOf[i]
      BY <1>3, <2>3
    <2>5. /\ \A i : i \in 1 .. m + 1 <=> i \in 1 .. m \/ i = m + 1
          /\ \A i \in 1 .. m : pduOf[i] \in R /\ pduOf[i] \in 1 .. n
      <3>1. \A i : i \in 1 .. m + 1 <=> i \in 1 .. m \/ i = m + 1
        BY <1>3
      <3>2. \A i \in 1 .. m : pduOf[i] \in R
        BY <1>2, <1>4
      <3> QED BY <1>5, <3>1, <3>2
    <2>6. of \in [DOMAIN more -> R2]
      BY <1>7, <1>9, <2>2, <2>3, <2>4, <2>5
    <2>7. Range(of) = R2
      <3>1. Range(of) = {of[i] : i \in 1 .. m + 1}
        BY <2>4 DEF Range
      <3>2. Range(pduOf) = {pduOf[i] : i \in 1 .. m}
        BY <1>2, <1>4 DEF Range
      <3>3. \A x : x \in Range(of) <=> x \in Range(pduOf) \/ x = n + 1
        BY <2>4, <2>5, <3>1, <3>2
      <3> QED BY <1>2, <1>7, <1>9, <3>3
    <2>8. ASSUME NEW i \in 1 .. m + 1, NEW j \in 1 .. m + 1, i < j PROVE of[i] < of[j]
      <3>1. i \in 1 .. m
        BY <1>3, <2>8
      <3>2. CASE j \in 1 .. m
        BY <1>2, <1>4, <2>4, <2>8, <3>1, <3>2
      <3>3. CASE j = m + 1
        BY <1>3, <2>4, <2>5, <3>1, <3>3
      <3> QED BY <2>5, <3>2, <3>3
    <2>9. ASSUME NEW i \in 1 .. m + 1
          PROVE  more[i] = Message(Append(pdus, pdu)[of[i]].data)
      <3>1. CASE i \in 1 .. m
        BY <1>2, <1>4, <2>2, <2>4, <2>5, <3>1
      <3>2. CASE i = m + 1
        BY <1>4, <2>2, <2>4, <3>2
      <3> QED BY <2>5, <3>1, <3>2
    <2>10. AreTheMessages(more, Append(pdus, pdu))
      BY <1>6, <2>2, <2>6, <2>7, <2>8, <2>9 DEF AreTheMessages
    <2> QED BY <1>9, <2>1, <2>10
  <1> QED BY <1>8, <1>9

-------------------------------------------------------------------------------
(***************************************************************************)
(* A record.                                                               *)
(***************************************************************************)
\* What the record of a PDU's k-th fragment does.
Arrives(s, pdu, k) ==
    /\ DOMAIN pending' \subseteq Streams
    /\ \A t \in DOMAIN pending' : pending'[t] \in Buffers
    /\ HeaderIsCut => DOMAIN pending' = {}
    /\ \A t \in DOMAIN pending \ {s} : t \in DOMAIN pending' /\ pending'[t] = pending[t]
    /\ k < Len(Fragments(pdu)) =>
          /\ messages' = messages
          /\ ~HeaderIsCut =>
                /\ s \in DOMAIN pending'
                /\ pending'[s].cid = pdu.cid /\ pending'[s].need = Len(pdu.data)
                /\ Gathered(pdu, k, pending'[s].buf)
    /\ k = Len(Fragments(pdu)) =>
          messages' = IF IsReported(pdu)
                      THEN [messages EXCEPT ![s] = Append(@, Message(pdu.data))]
                      ELSE messages

\* A buffer that waits is kept; one that is complete is a message, or none.
LEMMA GoesArrives ==
    ASSUME CaptureTypeOK, snap \in Nat, ~HeaderIsCut, NEW s \in Streams,
           NEW pdu, IsPdu(pdu), NEW k \in 1 .. Len(Fragments(pdu)),
           NEW p \in Buffers, p.cid = pdu.cid, p.need = Len(pdu.data), Gathered(pdu, k, p.buf),
           Goes(s, p)
    PROVE  Arrives(s, pdu, k)
  <1>1. /\ p.buf \in Seq(Octets) /\ Len(p.buf) \in Nat /\ Len(pdu.data) \in Nat
        /\ k < Len(Fragments(pdu)) => Len(p.buf) < Len(pdu.data)
        /\ k = Len(Fragments(pdu)) =>
              IF \A j \in DOMAIN Fragments(pdu) : Fits(Fragments(pdu)[j])
              THEN p.buf = pdu.data
              ELSE Len(p.buf) < Len(pdu.data)
    BY GatherEnds
  <1>2. Waits(p) <=> Len(p.buf) < Len(pdu.data)
    BY DEF Waits
  <1>3. DOMAIN pending \subseteq Streams /\ \A t \in DOMAIN pending : pending[t] \in Buffers
    BY DEF CaptureTypeOK
  <1>4. CASE Waits(p)
    <2>1. /\ pending' = [t \in DOMAIN pending \cup {s} |-> IF t = s THEN p ELSE pending[t]]
          /\ messages' = messages
      BY <1>4 DEF Goes, KeyOf
    <2>2. /\ DOMAIN pending' = DOMAIN pending \cup {s} /\ pending'[s] = p
          /\ \A t \in DOMAIN pending \ {s} : pending'[t] = pending[t]
          /\ \A t \in DOMAIN pending' : t = s \/ t \in DOMAIN pending \ {s}
      BY <2>1
    <2>3. k = Len(Fragments(pdu)) => ~IsReported(pdu)
      BY <1>1, <1>2, <1>4 DEF IsReported
    <2> QED BY <1>3, <2>1, <2>2, <2>3 DEF Arrives
  <1>5. CASE ~Waits(p)
    <2>1. k = Len(Fragments(pdu)) \/ k < Len(Fragments(pdu))
      BY FragmentsAre
    <2>2. /\ k = Len(Fragments(pdu)) /\ p.buf = pdu.data
          /\ \A j \in DOMAIN Fragments(pdu) : Fits(Fragments(pdu)[j])
      BY <1>1, <1>2, <1>5, <2>1
    <2>3. SubSeq(p.buf, 1, p.need) = pdu.data
      <3>1. PICK d \in Seq(Octets) : d = pdu.data
        BY <1>1, <2>2
      <3>2. Len(d) \in 0 .. Len(d)
        BY <3>1
      <3>3. SubSeq(d, 1, Len(d)) = d
        BY <3>2, StartIs, SameElements
      <3> QED BY <2>2, <3>1, <3>3
    <2>4. /\ pending' = Restrict(pending, DOMAIN pending \ {s})
          /\ messages' = IF IsMessage(pdu.cid, pdu.data)
                         THEN [messages EXCEPT ![s] = Append(@, Message(pdu.data))]
                         ELSE messages
      BY <1>5, <2>3 DEF Goes, KeyOf
    <2>5. /\ DOMAIN pending' = DOMAIN pending \ {s}
          /\ \A t \in DOMAIN pending \ {s} : pending'[t] = pending[t]
      BY <2>4 DEF Restrict
    <2>6. IsReported(pdu) <=> IsMessage(pdu.cid, pdu.data)
      BY <2>2 DEF IsReported
    <2>7. ~(k < Len(Fragments(pdu)))
      BY <2>2
    <2> QED BY <1>3, <2>4, <2>5, <2>6, <2>7 DEF Arrives
  <1> QED BY <1>4, <1>5

\* A record of which the header was cut says nothing.
LEMMA NothingArrives ==
    ASSUME snap \in Nat, HeaderIsCut, DOMAIN pending = {}, NEW s \in Streams,
           NEW pdu, IsPdu(pdu), NEW k \in 1 .. Len(Fragments(pdu)), NEW first \in BOOLEAN,
           Record(s, first, Fragments(pdu)[k])
    PROVE  Arrives(s, pdu, k)
  <1>1. Fragments(pdu)[k] \in Seq(Octets)
    BY FragmentsAre DEF Piece
  <1>2. Len(Slice(Fragments(pdu)[k], 1, snap - ACL_HEADER_LEN)) < 4
    BY <1>1, RecordKeeps
  <1>3. UNCHANGED <<pending, messages>>
    BY <1>2 DEF Record, KeyOf, L2CAP_HEADER_LEN
  <1>4. ~IsReported(pdu)
    <2>1. 1 \in 1 .. Len(Fragments(pdu)) /\ Len(Fragments(pdu)) \in Nat
      BY FragmentsAre
    <2>2. /\ Piece(Fragments(pdu)[1], PduBytes(pdu), (1 - 1) * AclSize, BytesOf(pdu, 1))
          /\ BytesOf(pdu, 1) \in Nat /\ BytesOf(pdu, 1) >= 4
      BY <2>1, FragmentBytes
    <2>3. (1 - 1) * AclSize = 0
      BY AclAssumption
    <2>4. Len(Fragments(pdu)[1]) \in Nat /\ Len(Fragments(pdu)[1]) >= 4
      BY <2>2, <2>3 DEF Piece
    <2>5. ~Fits(Fragments(pdu)[1])
      BY <2>4 DEF Fits, HeaderIsCut, ACL_HEADER_LEN, L2CAP_HEADER_LEN
    <2>6. 1 \in DOMAIN Fragments(pdu)
      BY <2>1, FragmentsAre
    <2> QED BY <2>5, <2>6 DEF IsReported
  <1> QED BY <1>3, <1>4 DEF Arrives

\* The first fragment of a PDU.
LEMMA StartArrives ==
    ASSUME CaptureTypeOK, PendingIsMade, snap \in Nat, NEW s \in Streams,
           NEW pdu, IsPdu(pdu), Record(s, TRUE, Fragments(pdu)[1])
    PROVE  Arrives(s, pdu, 1)
  <1>1. 1 \in 1 .. Len(Fragments(pdu))
    BY FragmentsAre
  <1>2. CASE HeaderIsCut
    BY <1>1, <1>2, NothingArrives DEF PendingIsMade
  <1>3. CASE ~HeaderIsCut
    <2>1. PICK payload : payload = Slice(Fragments(pdu)[1], 1, snap - ACL_HEADER_LEN)
      OBVIOUS
    <2>2. /\ Len(payload) \in Nat /\ Len(payload) >= 4
          /\ LittleAt(payload, 1) = Len(pdu.data) /\ LittleAt(payload, 3) = pdu.cid
          /\ Gathered(pdu, 1, From(payload, 5))
      BY <1>3, <2>1, GatherStart
    <2>3. PICK p : p = [cid |-> LittleAt(payload, 3), need |-> LittleAt(payload, 1),
                        buf |-> From(payload, 5)]
      OBVIOUS
    <2>4. Goes(s, p)
      <3>1. L2CAP_HEADER_LEN = 4 /\ L2CAP_HEADER_LEN + 1 = 5
        BY DEF L2CAP_HEADER_LEN
      <3>2. ~(Len(payload) < 4)
        BY <2>2
      <3> QED BY <2>1, <2>3, <3>1, <3>2 DEF Record
    <2>5. p.cid = pdu.cid /\ p.need = Len(pdu.data) /\ Gathered(pdu, 1, p.buf)
      BY <2>2, <2>3
    <2>6. p \in Buffers
      <3>1. pdu.cid \in Words /\ Len(pdu.data) \in Words
        BY DEF IsPdu
      <3>2. From(payload, 5) \in Seq(Octets)
        BY <2>2 DEF Gathered
      <3> QED BY <2>2, <2>3, <3>1, <3>2 DEF Buffers
    <2> QED BY <1>1, <1>3, <2>4, <2>5, <2>6, GoesArrives
  <1> QED BY <1>2, <1>3

\* A further one.
LEMMA ContinueArrives ==
    ASSUME CaptureTypeOK, PendingIsMade, snap \in Nat, NEW s \in Streams, left[s] # <<>>,
           NEW pdu, IsPdu(pdu), pdu = Last(sent[s]),
           NEW k \in Nat \ {0}, k = Made(s), k < Len(Fragments(pdu)),
           Record(s, FALSE, Fragments(pdu)[k + 1])
    PROVE  Arrives(s, pdu, k + 1)
  <1>1. k + 1 \in 1 .. Len(Fragments(pdu))
    BY FragmentsAre
  <1>2. CASE HeaderIsCut
    BY <1>1, <1>2, NothingArrives DEF PendingIsMade
  <1>3. CASE ~HeaderIsCut
    <2>1. PICK payload : payload = Slice(Fragments(pdu)[k + 1], 1, snap - ACL_HEADER_LEN)
      OBVIOUS
    <2>2. /\ s \in DOMAIN pending
          /\ pending[s].cid = pdu.cid /\ pending[s].need = Len(pdu.data)
          /\ Gathered(pdu, k, pending[s].buf)
      BY <1>3 DEF PendingIsMade
    <2>3. PICK p : p = [pending[s] EXCEPT !.buf = @ \o payload]
      OBVIOUS
    <2>4. Goes(s, p)
      BY <2>1, <2>2, <2>3 DEF Record, KeyOf
    <2>5. pending[s] \in Buffers
      BY <2>2 DEF CaptureTypeOK
    <2>6. PICK c, n, buf :
             /\ pending[s] = [cid |-> c, need |-> n, buf |-> buf]
             /\ c = pdu.cid /\ n = Len(pdu.data) /\ c \in Words /\ n \in Words
             /\ Gathered(pdu, k, buf)
      BY <2>2, <2>5 DEF Buffers
    <2>7. p = [cid |-> c, need |-> n, buf |-> buf \o payload]
      <3>1. PICK r, more : r = pending[s] /\ more = buf \o payload
        OBVIOUS
      <3>2. r.buf = buf
        BY <2>6, <3>1
      <3>3. p = [r EXCEPT !.buf = more]
        BY <2>3, <3>1, <3>2, Zenon
      <3>4. [[cid |-> c, need |-> n, buf |-> buf] EXCEPT !.buf = more]
                = [cid |-> c, need |-> n, buf |-> more]
        OBVIOUS
      <3>5. r = [cid |-> c, need |-> n, buf |-> buf]
        BY <2>6, <3>1
      <3>6. p = [cid |-> c, need |-> n, buf |-> more]
        BY <3>3, <3>4, <3>5, Zenon
      <3> QED BY <3>1, <3>6
    <2>8. Gathered(pdu, k + 1, buf \o payload)
      BY <2>1, <2>6, GatherMore
    <2>9. p \in Buffers
      <3>1. buf \o payload \in Seq(Octets)
        BY <2>8 DEF Gathered
      <3> QED BY <2>6, <2>7, <3>1 DEF Buffers
    <2>10. p.cid = pdu.cid /\ p.need = Len(pdu.data) /\ Gathered(pdu, k + 1, p.buf)
      BY <2>6, <2>7, <2>8
    <2> QED BY <1>1, <1>3, <2>4, <2>9, <2>10, GoesArrives
  <1> QED BY <1>2, <1>3

-------------------------------------------------------------------------------
(***************************************************************************)
(* Steps.                                                                  *)
(***************************************************************************)
\* What fits does so for the whole capture.
LEMMA SnapIsKept ==
    ASSUME snap' = snap
    PROVE  /\ HeaderIsCut' <=> HeaderIsCut
           /\ \A pdu : IsReported(pdu)' <=> IsReported(pdu)
           /\ \A pdu, k, buf : Gathered(pdu, k, buf) => Gathered(pdu, k, buf)'
           /\ \A msgs, pdus : AreTheMessages(msgs, pdus) => AreTheMessages(msgs, pdus)'
  <1>1. HeaderIsCut' <=> HeaderIsCut
    BY DEF HeaderIsCut
  <1>2. \A fragment : Fits(fragment)' <=> Fits(fragment)
    BY DEF Fits
  <1>3. ASSUME NEW pdu PROVE IsReported(pdu)' <=> IsReported(pdu)
    BY <1>2 DEF IsReported
  <1>4. ASSUME NEW pdu, NEW k, NEW buf, Gathered(pdu, k, buf) PROVE Gathered(pdu, k, buf)'
    BY <1>2, <1>4 DEF Gathered
  <1>5. ASSUME NEW msgs, NEW pdus, AreTheMessages(msgs, pdus) PROVE AreTheMessages(msgs, pdus)'
    <2>1. PICK R : R = {n \in DOMAIN pdus : IsReported(pdus[n])}
      OBVIOUS
    <2>2. R = {n \in DOMAIN pdus : IsReported(pdus[n])'}
      BY <1>3, <2>1
    <2> QED BY <1>5, <2>1, <2>2 DEF AreTheMessages
  <1> QED BY <1>1, <1>3, <1>4, <1>5

\* A sequence that is not empty is its front and its last element.
LEMMA FrontAndLast ==
    ASSUME NEW S, NEW s \in Seq(S), s # <<>>
    PROVE  /\ Front(s) \in Seq(S) /\ Last(s) \in S
           /\ s = Append(Front(s), Last(s))
  <1>1. PICK n \in Nat : n = Len(s) /\ n >= 1
    OBVIOUS
  <1>2. n - 1 \in 0 .. Len(s)
    BY <1>1
  <1>3. /\ SubSeq(s, 1, n - 1) \in Seq(S) /\ Len(SubSeq(s, 1, n - 1)) = n - 1
        /\ \A i \in 1 .. n - 1 : SubSeq(s, 1, n - 1)[i] = s[i]
    BY <1>2, StartIs
  <1>4. PICK f \in Seq(S) : f = Front(s) /\ Len(f) = n - 1 /\ \A i \in 1 .. n - 1 : f[i] = s[i]
    BY <1>1, <1>3 DEF Front
  <1>5. Last(s) = s[n] /\ s[n] \in S
    BY <1>1 DEF Last
  <1>6. PICK t : t = Append(f, s[n])
    OBVIOUS
  <1>7. /\ t \in Seq(S) /\ Len(t) = n /\ t[n] = s[n]
        /\ \A i \in 1 .. n - 1 : t[i] = f[i]
    BY <1>1, <1>4, <1>5, <1>6
  <1>8. \A i \in 1 .. n : t[i] = s[i]
    <2>1. \A i \in 1 .. n : i \in 1 .. n - 1 \/ i = n
      BY <1>1
    <2> QED BY <1>4, <1>7, <2>1
  <1>9. t = s
    BY <1>1, <1>7, <1>8, SameElements
  <1> QED BY <1>4, <1>5, <1>6, <1>9

\* An element put behind others is the last, and they are the front.
LEMMA AppendedIsLast ==
    ASSUME NEW S, NEW s \in Seq(S), NEW e \in S
    PROVE  /\ Append(s, e) \in Seq(S) /\ Append(s, e) # <<>>
           /\ Last(Append(s, e)) = e
           /\ Front(Append(s, e)) = s
  <1>1. PICK t : t = Append(s, e)
    OBVIOUS
  <1>2. PICK n \in Nat : n = Len(s)
    OBVIOUS
  <1>3. /\ t \in Seq(S) /\ Len(t) = n + 1 /\ t[n + 1] = e /\ t # <<>>
        /\ \A i \in 1 .. n : t[i] = s[i]
    BY <1>1, <1>2
  <1>4. Last(t) = e
    BY <1>3 DEF Last
  <1>5. n \in 0 .. Len(t) /\ Len(t) - 1 = n
    BY <1>3
  <1>6. /\ SubSeq(t, 1, n) \in Seq(S) /\ Len(SubSeq(t, 1, n)) = n
        /\ \A i \in 1 .. n : SubSeq(t, 1, n)[i] = t[i]
    BY <1>3, <1>5, StartIs
  <1>7. SubSeq(t, 1, n) = s
    BY <1>2, <1>3, <1>6, SameElements
  <1>8. Front(t) = s
    BY <1>5, <1>7 DEF Front
  <1> QED BY <1>1, <1>3, <1>4, <1>8

\* A record of fragment k of the last PDU of a stream keeps the invariant.
LEMMA ArrivesKeeps ==
    ASSUME CaptureInv, snap' = snap, NEW s \in Streams,
           NEW pdu \in Traffic[s], NEW k \in 1 .. Len(Fragments(pdu)), Arrives(s, pdu, k),
           NEW before \in Seq(Traffic[s]), before = Ended(s),
           DOMAIN sent' = Streams, sent'[s] = Append(before, pdu),
           DOMAIN left' = Streams,
           left'[s] \in Seq(Seq(Octets)), Len(left'[s]) = Len(Fragments(pdu)) - k,
           \A j \in 1 .. Len(left'[s]) : left'[s][j] = Fragments(pdu)[k + j],
           \A t \in Streams \ {s} : sent'[t] = sent[t] /\ left'[t] = left[t]
    PROVE  CaptureInv'
  <1>1. IsPdu(pdu)
    BY TrafficAssumption
  <1>2. Len(Fragments(pdu)) \in Nat \ {0} /\ k \in Nat \ {0}
    BY <1>1, FragmentsAre
  <1>3. PICK longer : longer = Append(before, pdu)
    OBVIOUS
  <1>4. /\ longer \in Seq(Traffic[s]) /\ longer # <<>>
        /\ Last(longer) = pdu /\ Front(longer) = before /\ longer = sent'[s]
    <2>1. longer = sent'[s]
      BY <1>3
    <2>2. PICK S : S = Traffic[s]
      OBVIOUS
    <2>3. before \in Seq(S) /\ pdu \in S
      BY <2>2
    <2>4. longer \in Seq(S) /\ longer # <<>> /\ Last(longer) = pdu /\ Front(longer) = before
      BY <1>3, <2>3, AppendedIsLast
    <2> QED BY <2>1, <2>2, <2>4
  <1>5. CaptureTypeOK /\ LeftIsRest /\ PendingIsMade /\ MessagesAsSent
    BY DEF CaptureInv
  <1>6. left'[s] = <<>> <=> k = Len(Fragments(pdu))
    BY <1>2
  <1>7. /\ messages \in [Streams -> Seq(Messages)]
        /\ k < Len(Fragments(pdu)) => messages' = messages
        /\ k = Len(Fragments(pdu)) =>
              messages' = IF IsReported(pdu)
                          THEN [messages EXCEPT ![s] = Append(@, Message(pdu.data))]
                          ELSE messages
    BY <1>5 DEF CaptureTypeOK, Arrives
  <1>8. IsReported(pdu) => Message(pdu.data) \in Messages
    BY <1>1, MessageTyped DEF IsReported
  <1>9. k < Len(Fragments(pdu)) \/ k = Len(Fragments(pdu))
    BY <1>2
  <1>10. messages' \in [Streams -> Seq(Messages)]
    <2>1. CASE k < Len(Fragments(pdu))
      BY <1>7, <2>1
    <2>2. CASE k = Len(Fragments(pdu)) /\ IsReported(pdu)
      <3>1. Append(messages[s], Message(pdu.data)) \in Seq(Messages)
        BY <1>7, <1>8, <2>2
      <3> QED BY <1>7, <2>2, <3>1
    <2>3. CASE k = Len(Fragments(pdu)) /\ ~IsReported(pdu)
      BY <1>7, <2>3
    <2> QED BY <1>9, <2>1, <2>2, <2>3
  <1>11. CaptureTypeOK'
    <2>1. \A t \in Streams : sent'[t] \in Seq(Traffic[t])
      BY <1>4, <1>5 DEF CaptureTypeOK
    <2>2. snap' \in SnapLens
      BY <1>5 DEF CaptureTypeOK
    <2>3. DOMAIN pending' \subseteq Streams /\ \A t \in DOMAIN pending' : pending'[t] \in Buffers
      BY DEF Arrives
    <2> QED BY <1>10, <2>1, <2>2, <2>3 DEF CaptureTypeOK
  <1>12. Made(s)' = k
    <2>1. Made(s)' = Len(Fragments(pdu)) - Len(left'[s])
      BY <1>4 DEF Made
    <2> QED BY <1>2, <2>1
  <1>13. \A t \in Streams \ {s} : Made(t)' = Made(t)
    BY DEF Made
  <1>14. LeftIsRest'
    <2>1. ASSUME NEW t \in Streams
          PROVE  \/ left'[t] = <<>>
                 \/ /\ sent'[t] # <<>>
                    /\ left'[t] \in Seq(Seq(Octets))
                    /\ Made(t)' >= 1
                    /\ \A j \in 1 .. Len(left'[t]) :
                          left'[t][j] = Fragments(Last(sent'[t]))[Made(t)' + j]
      <3>1. CASE t = s
        <4>1. PICK rest : rest = left'[s] /\ rest \in Seq(Seq(Octets))
          OBVIOUS
        <4>2. \A j \in 1 .. Len(rest) : rest[j] = Fragments(pdu)[k + j]
          BY <4>1
        <4>3. /\ left'[t] = rest /\ sent'[t] = longer /\ Last(sent'[t]) = pdu
              /\ Made(t)' = k
          BY <1>4, <1>12, <3>1, <4>1
        <4> QED BY <1>2, <1>4, <4>1, <4>2, <4>3
      <3>2. CASE t # s
        <4>1. PICK rest, to : rest = left[t] /\ to = sent[t]
          OBVIOUS
        <4>2. PICK n : n = Made(t)
          OBVIOUS
        <4>3. \/ rest = <<>>
              \/ /\ to # <<>> /\ rest \in Seq(Seq(Octets)) /\ n >= 1
                 /\ \A j \in 1 .. Len(rest) : rest[j] = Fragments(Last(to))[n + j]
          BY <1>5, <4>1, <4>2 DEF LeftIsRest
        <4>4. left'[t] = rest /\ sent'[t] = to /\ Made(t)' = n
          BY <1>13, <3>2, <4>1, <4>2
        <4> QED BY <4>3, <4>4
      <3> QED BY <3>1, <3>2
    <2> QED BY <2>1 DEF LeftIsRest
  <1>15. PendingIsMade'
    <2>1. HeaderIsCut' <=> HeaderIsCut
      BY SnapIsKept
    <2>2. HeaderIsCut => DOMAIN pending' = {}
      BY DEF Arrives
    <2>3. ASSUME NEW t \in Streams, left'[t] # <<>>, ~HeaderIsCut
          PROVE  /\ t \in DOMAIN pending'
                 /\ pending'[t].cid = Last(sent'[t]).cid
                 /\ pending'[t].need = Len(Last(sent'[t]).data)
                 /\ Gathered(Last(sent[t]), Made(t), pending[t].buf)'
      <3>1. CASE t = s
        <4>1. k < Len(Fragments(pdu))
          BY <1>6, <1>9, <2>3, <3>1
        <4>2. PICK b : /\ b = pending'[s] /\ s \in DOMAIN pending'
                       /\ b.cid = pdu.cid /\ b.need = Len(pdu.data)
                       /\ Gathered(pdu, k, b.buf)
          BY <2>3, <4>1 DEF Arrives
        <4>3. Gathered(pdu, k, b.buf)'
          BY <4>2, SnapIsKept
        <4> QED BY <1>4, <1>12, <3>1, <4>2, <4>3 DEF Gathered
      <3>2. CASE t # s
        <4>1. left[t] # <<>> /\ sent'[t] = sent[t]
          BY <2>3, <3>2
        <4>2. /\ t \in DOMAIN pending
              /\ pending[t].cid = Last(sent[t]).cid
              /\ pending[t].need = Len(Last(sent[t]).data)
              /\ Gathered(Last(sent[t]), Made(t), pending[t].buf)
          BY <1>5, <2>3, <4>1 DEF PendingIsMade
        <4>3. t \in DOMAIN pending' /\ pending'[t] = pending[t]
          BY <3>2, <4>2 DEF Arrives
        <4>4. PICK p, n, b : /\ p = Last(sent[t]) /\ n = Made(t) /\ b = pending[t].buf
                             /\ Gathered(p, n, b)
          BY <4>2
        <4>5. Gathered(p, n, b)'
          BY <4>4, SnapIsKept
        <4>6. p = Last(sent'[t]) /\ n = Made(t)' /\ b = pending'[t].buf
          BY <1>13, <3>2, <4>1, <4>3, <4>4
        <4> QED BY <4>1, <4>2, <4>3, <4>5, <4>6 DEF Gathered
      <3> QED BY <3>1, <3>2
    <2> QED BY <2>1, <2>2, <2>3 DEF PendingIsMade
  <1>16. MessagesAsSent'
    <2>1. ASSUME NEW t \in Streams PROVE AreTheMessages(messages[t], Ended(t))'
      <3>1. PICK old, pdus : old = messages[t] /\ pdus = Ended(t) /\ AreTheMessages(old, pdus)
        BY <1>5 DEF MessagesAsSent
      <3>2. CASE t # s
        <4>1. messages'[t] = old
          BY <1>7, <1>9, <3>1, <3>2
        <4>2. Ended(t)' = pdus
          BY <3>1, <3>2 DEF Ended
        <4>3. AreTheMessages(old, pdus)'
          BY <3>1, SnapIsKept
        <4> QED BY <4>1, <4>2, <4>3 DEF AreTheMessages
      <3>3. CASE t = s /\ k < Len(Fragments(pdu))
        <4>1. messages'[t] = old
          BY <1>7, <3>1, <3>3
        <4>2. Ended(t)' = pdus
          <5>1. left'[s] # <<>>
            BY <1>2, <1>6, <3>3
          <5>2. Ended(s)' = Front(sent'[s])
            BY <5>1 DEF Ended
          <5>3. Front(sent'[s]) = before
            BY <1>4
          <5> QED BY <3>1, <3>3, <5>2, <5>3
        <4>3. AreTheMessages(old, pdus)'
          BY <3>1, SnapIsKept
        <4> QED BY <4>1, <4>2, <4>3 DEF AreTheMessages
      <3>4. CASE t = s /\ k = Len(Fragments(pdu))
        <4>1. PICK new : new = IF IsReported(pdu) THEN Append(old, Message(pdu.data)) ELSE old
          OBVIOUS
        <4>2. messages'[t] = new
          BY <1>7, <3>1, <3>4, <4>1
        <4>3. Ended(t)' = longer
          BY <1>4, <1>6, <3>4 DEF Ended
        <4>4. old \in Seq(Messages)
          BY <1>7, <3>1
        <4>5. AreTheMessages(new, longer)
          BY <1>3, <1>8, <3>1, <3>4, <4>1, <4>4, MessagesGrow
        <4>6. AreTheMessages(new, longer)'
          BY <4>5, SnapIsKept
        <4> QED BY <4>2, <4>3, <4>6 DEF AreTheMessages
      <3> QED BY <1>9, <3>2, <3>3, <3>4
    <2> QED BY <2>1 DEF MessagesAsSent
  <1> QED BY <1>11, <1>14, <1>15, <1>16 DEF CaptureInv

\* A sequence without its first element.
LEMMA HeadAndTail ==
    ASSUME NEW S, NEW s \in Seq(S), s # <<>>
    PROVE  /\ Head(s) = s[1] /\ Tail(s) \in Seq(S)
           /\ Len(s) \in Nat \ {0} /\ Len(Tail(s)) = Len(s) - 1
           /\ \A j \in 1 .. Len(Tail(s)) : Tail(s)[j] = s[j + 1]
  OBVIOUS

\* The first record of a PDU keeps the invariant.
LEMMA StartKeeps ==
    ASSUME CaptureInv, NEW s \in Streams, Start(s)
    PROVE  CaptureInv'
  <1>1. CaptureTypeOK /\ PendingIsMade /\ snap \in Nat
    BY SnapAssumption DEF CaptureInv, CaptureTypeOK
  <1>2. PICK pdu \in Traffic[s] :
           /\ sent' = [sent EXCEPT ![s] = Append(@, pdu)]
           /\ left' = [left EXCEPT ![s] = Tail(Fragments(pdu))]
           /\ Record(s, TRUE, Head(Fragments(pdu)))
    BY DEF Start
  <1>3. snap' = snap /\ left[s] = <<>>
    BY DEF Start
  <1>4. IsPdu(pdu)
    BY TrafficAssumption
  <1>5. PICK f : /\ f = Fragments(pdu) /\ f \in Seq(Seq(Octets)) /\ f # <<>>
                 /\ Len(f) \in Nat \ {0}
    <2>1. Fragments(pdu) \in Seq(Seq(Octets)) /\ Len(Fragments(pdu)) \in Nat \ {0}
      BY <1>4, FragmentsAre
    <2> QED BY <2>1
  <1>6. /\ Head(f) = f[1] /\ Tail(f) \in Seq(Seq(Octets))
        /\ Len(Tail(f)) = Len(f) - 1
        /\ \A j \in 1 .. Len(Tail(f)) : Tail(f)[j] = f[j + 1]
    BY <1>5, HeadAndTail
  <1>7. Arrives(s, pdu, 1)
    BY <1>1, <1>2, <1>4, <1>5, <1>6, StartArrives
  <1>8. PICK before : before = sent[s]
    OBVIOUS
  <1>9. before \in Seq(Traffic[s]) /\ before = Ended(s)
    BY <1>1, <1>3, <1>8 DEF CaptureTypeOK, Ended
  <1>10. DOMAIN sent' = Streams /\ DOMAIN left' = Streams /\ sent'[s] = Append(before, pdu)
         /\ left'[s] = Tail(f)
         /\ \A t \in Streams \ {s} : sent'[t] = sent[t] /\ left'[t] = left[t]
    BY <1>1, <1>2, <1>5, <1>8 DEF CaptureTypeOK
  <1>11. left'[s] \in Seq(Seq(Octets)) /\ Len(left'[s]) = Len(Fragments(pdu)) - 1
    BY <1>5, <1>6, <1>10
  <1>12. \A j \in 1 .. Len(left'[s]) : left'[s][j] = Fragments(pdu)[1 + j]
    BY <1>5, <1>6, <1>10
  <1>13. 1 \in 1 .. Len(Fragments(pdu))
    BY <1>5
  <1> QED BY <1>3, <1>7, <1>9, <1>10, <1>11, <1>12, <1>13, ArrivesKeeps

\* So does a record of a later fragment.
LEMMA ContinueKeeps ==
    ASSUME CaptureInv, NEW s \in Streams, Continue(s)
    PROVE  CaptureInv'
  <1>1. CaptureTypeOK /\ PendingIsMade /\ LeftIsRest /\ snap \in Nat
    BY SnapAssumption DEF CaptureInv, CaptureTypeOK
  <1>2. /\ left[s] # <<>> /\ snap' = snap /\ sent' = sent
        /\ left' = [left EXCEPT ![s] = Tail(@)]
        /\ Record(s, FALSE, Head(left[s]))
    BY DEF Continue
  <1>3. PICK rest, to, n : rest = left[s] /\ to = sent[s] /\ n = Made(s)
    OBVIOUS
  <1>4. /\ to # <<>> /\ rest \in Seq(Seq(Octets)) /\ rest # <<>> /\ n >= 1
        /\ \A j \in 1 .. Len(rest) : rest[j] = Fragments(Last(to))[n + j]
    BY <1>1, <1>2, <1>3 DEF LeftIsRest
  <1>5. to \in Seq(Traffic[s])
    BY <1>1, <1>3 DEF CaptureTypeOK
  <1>6. PICK pdu, before : pdu = Last(to) /\ before = Front(to)
    OBVIOUS
  <1>7. pdu \in Traffic[s] /\ before \in Seq(Traffic[s]) /\ to = Append(before, pdu)
    BY <1>4, <1>5, <1>6, FrontAndLast
  <1>8. IsPdu(pdu)
    BY <1>7, TrafficAssumption
  <1>9. PICK f : f = Fragments(pdu) /\ Len(f) \in Nat \ {0}
    BY <1>8, FragmentsAre
  <1>10. /\ Head(rest) = rest[1] /\ Tail(rest) \in Seq(Seq(Octets))
         /\ Len(rest) \in Nat \ {0} /\ Len(Tail(rest)) = Len(rest) - 1
         /\ \A j \in 1 .. Len(Tail(rest)) : Tail(rest)[j] = rest[j + 1]
    BY <1>4, HeadAndTail
  <1>11. n = Len(f) - Len(rest)
    BY <1>3, <1>6, <1>9 DEF Made
  <1>12. n \in Nat \ {0} /\ n < Len(f)
    <2>1. PICK all \in Nat, few \in Nat \ {0} : all = Len(f) /\ few = Len(rest)
      BY <1>9, <1>10
    <2>2. n = all - few
      BY <1>11, <2>1
    <2> QED BY <1>4, <2>1, <2>2
  <1>13. Head(left[s]) = Fragments(pdu)[n + 1]
    BY <1>3, <1>4, <1>6, <1>10
  <1>14. Record(s, FALSE, Fragments(pdu)[n + 1])
    BY <1>2, <1>13
  <1>15. Arrives(s, pdu, n + 1)
    BY <1>1, <1>2, <1>3, <1>6, <1>8, <1>9, <1>12, <1>14, ContinueArrives
  <1>16. before = Ended(s)
    BY <1>2, <1>3, <1>6 DEF Ended
  <1>17. /\ DOMAIN sent' = Streams /\ DOMAIN left' = Streams
         /\ sent'[s] = Append(before, pdu) /\ left'[s] = Tail(rest)
         /\ \A t \in Streams \ {s} : sent'[t] = sent[t] /\ left'[t] = left[t]
    BY <1>1, <1>2, <1>3, <1>7 DEF CaptureTypeOK
  <1>18. left'[s] \in Seq(Seq(Octets)) /\ Len(left'[s]) = Len(Fragments(pdu)) - (n + 1)
    <2>1. PICK all \in Nat, few \in Nat : all = Len(f) /\ few = Len(rest)
      BY <1>9, <1>10
    <2>2. n = all - few /\ n \in Nat
      BY <1>11, <1>12, <2>1
    <2>3. Len(Tail(rest)) = few - 1
      BY <1>10, <2>1
    <2>4. few - 1 = all - (n + 1)
      BY <2>2
    <2>5. left'[s] = Tail(rest) /\ Fragments(pdu) = f
      BY <1>9, <1>17
    <2>6. left'[s] \in Seq(Seq(Octets))
      BY <1>10, <2>5
    <2>7. Len(left'[s]) = Len(Fragments(pdu)) - (n + 1)
      BY <2>1, <2>3, <2>4, <2>5
    <2> QED BY <2>6, <2>7
  <1>19. \A j \in 1 .. Len(left'[s]) : left'[s][j] = Fragments(pdu)[(n + 1) + j]
    <2>1. ASSUME NEW j \in 1 .. Len(Tail(rest))
          PROVE  Tail(rest)[j] = Fragments(pdu)[(n + 1) + j]
      <3>1. j + 1 \in 1 .. Len(rest) /\ n + (j + 1) = (n + 1) + j
        BY <1>10, <1>12
      <3> QED BY <1>4, <1>6, <1>10, <3>1
    <2> QED BY <1>17, <2>1
  <1>20. n + 1 \in 1 .. Len(Fragments(pdu))
    BY <1>9, <1>12
  <1> QED BY <1>2, <1>7, <1>15, <1>16, <1>17, <1>18, <1>19, <1>20, ArrivesKeeps

\* The same state again.
LEMMA CaptureStutters ==
    ASSUME CaptureInv, UNCHANGED captureVars
    PROVE  CaptureInv'
  <1>1. /\ snap' = snap /\ sent' = sent /\ left' = left /\ pending' = pending
        /\ messages' = messages
    BY DEF captureVars
  <1>2. CaptureTypeOK'
    BY <1>1 DEF CaptureInv, CaptureTypeOK
  <1>3. LeftIsRest'
    BY <1>1 DEF CaptureInv, LeftIsRest, Made
  <1>4. PendingIsMade'
    BY <1>1 DEF CaptureInv, PendingIsMade, Made, HeaderIsCut, Gathered, Fits
  <1>5. MessagesAsSent'
    <2>1. ASSUME NEW s \in Streams PROVE AreTheMessages(messages[s], Ended(s))'
      <3>1. PICK msgs, pdus : msgs = messages[s] /\ pdus = Ended(s)
        OBVIOUS
      <3>2. AreTheMessages(msgs, pdus)
        BY <3>1 DEF CaptureInv, MessagesAsSent
      <3>3. AreTheMessages(msgs, pdus)'
        BY <1>1, <3>2, SnapIsKept
      <3>4. messages'[s] = msgs /\ Ended(s)' = pdus
        BY <1>1, <3>1 DEF Ended
      <3> QED BY <3>3, <3>4 DEF AreTheMessages
    <2> QED BY <2>1 DEF MessagesAsSent
  <1> QED BY <1>2, <1>3, <1>4, <1>5 DEF CaptureInv

\* A capture starts with nothing sent.
LEMMA CaptureStarts ==
    CaptureInit => CaptureInv
  <1> SUFFICES ASSUME CaptureInit PROVE CaptureInv
    OBVIOUS
  <1>1. /\ snap \in SnapLens /\ DOMAIN sent = Streams /\ DOMAIN left = Streams
        /\ \A s \in Streams : sent[s] = <<>> /\ left[s] = <<>> /\ messages[s] = <<>>
        /\ DOMAIN pending = {}
    BY DEF CaptureInit
  <1>2. messages \in [Streams -> Seq(Messages)]
    <2>1. <<>> \in Seq(Messages)
      OBVIOUS
    <2> QED BY <2>1 DEF CaptureInit
  <1>3. CaptureTypeOK
    <2>1. ASSUME NEW s \in Streams PROVE sent[s] \in Seq(Traffic[s])
      <3>1. PICK S : S = Traffic[s]
        OBVIOUS
      <3>2. <<>> \in Seq(S)
        OBVIOUS
      <3> QED BY <1>1, <3>1, <3>2
    <2> QED BY <1>1, <1>2, <2>1 DEF CaptureTypeOK
  <1>4. LeftIsRest /\ PendingIsMade
    BY <1>1 DEF LeftIsRest, PendingIsMade
  <1>5. MessagesAsSent
    <2>1. ASSUME NEW s \in Streams PROVE AreTheMessages(messages[s], Ended(s))
      <3>1. messages[s] = <<>> /\ Ended(s) = <<>>
        BY <1>1 DEF Ended
      <3> QED BY <3>1, NoMessages
    <2> QED BY <2>1 DEF MessagesAsSent
  <1> QED BY <1>3, <1>4, <1>5 DEF CaptureInv

-------------------------------------------------------------------------------
(***************************************************************************)
(* The theorems.                                                           *)
(***************************************************************************)
\* CaptureInv is an invariant: whatever records the loop of att_messages meets, the dict
\* of PDUs in parts holds what was made of the PDU in progress (parse_snoop.py:110-129).
THEOREM CaptureInvariant == CaptureSpec => []CaptureInv
  <1>1. CaptureInv /\ [CaptureNext]_captureVars => CaptureInv'
    BY StartKeeps, ContinueKeeps, CaptureStutters DEF CaptureNext
  <1> QED BY CaptureStarts, <1>1, PTL DEF CaptureSpec

\* The messages that parse_snoop.py reads off a stream are those that were sent and
\* captured in full, each once and in order, however the fragments of any number of
\* streams are interleaved and wherever their records are cut (parse_snoop.py:93-129).
THEOREM CaptureAlwaysRight == CaptureSpec => []MessagesAsSent
  <1>1. CaptureInv => MessagesAsSent
    BY DEF CaptureInv
  <1> QED BY CaptureInvariant, <1>1, PTL
===============================================================================
