---------------------------- MODULE CodecProofs ----------------------------
(***************************************************************************)
(* Proofs about module Codec, for every width of an octet that has a value *)
(* for each PDU type, in particular 8 bits, and for every string of octets *)
(* a peer may send.                                                        *)
(***************************************************************************)
EXTENDS Codec, TLAPS

\* The longest PDU is far from where uint32 wraps.
LEMMA Widths ==
  /\ Base \in Nat /\ Base2 \in Nat /\ Base4 \in Nat
  /\ maxPDULength \in Nat /\ maxPDULength + 16 < Base4
<1>1. Base \in Nat /\ Base >= 12
  BY BaseAssumption DEF Aspa
<1>2. Base2 \in Nat /\ Base2 >= 12 * Base
  BY <1>1, SMT DEF Base2
<1>3. Base2 >= 144
  BY <1>1, <1>2
<1>4. Base4 \in Nat /\ Base4 >= 144 * Base2
  BY <1>2, <1>3, SMT DEF Base4
<1> QED
  BY <1>1, <1>2, <1>3, <1>4 DEF maxPDULength

LEMMA ProductNat ==
  ASSUME NEW m \in Nat, NEW n \in Nat
  PROVE  m * n \in Nat
OBVIOUS

\* What is read as an integer is one, whatever the octets.
LEMMA ReadsNat ==
  ASSUME NEW data \in Seq(Octets), NEW i \in Nat
  PROVE  /\ Octet(data, i) \in Octets
         /\ Uint16(data, i) \in Nat
         /\ Uint32(data, i) \in Nat
<1>1. \A j \in Nat : Octet(data, j) \in Octets /\ Octet(data, j) \in Nat
  BY Widths, BaseAssumption DEF Octet, Octets, Aspa
<1>2. ASSUME NEW j \in Nat PROVE Uint16(data, j) \in Nat
  <2>1. Octet(data, j) \in Nat /\ Octet(data, j + 1) \in Nat
    BY <1>1, SMTT(30)
  <2>2. Octet(data, j) * Base \in Nat
    BY <2>1, ProductNat, Widths
  <2> QED
    BY <2>1, <2>2 DEF Uint16
<1>3. Uint32(data, i) \in Nat
  <2>1. Uint16(data, i) \in Nat /\ Uint16(data, i + 2) \in Nat
    BY <1>2, SMTT(30)
  <2>2. Uint16(data, i) * Base2 \in Nat
    BY <2>1, ProductNat, Widths
  <2> QED
    BY <2>1, <2>2 DEF Uint32
<1> QED
  BY <1>1, <1>2, <1>3

\* Sums that stay below the wrap are sums.
LEMMA NoWrap ==
  ASSUME NEW m \in Nat, NEW n \in Nat, m + n < Base4
  PROVE  Add32(m, n) = m + n
BY Widths DEF Add32

InBounds(s, data) == ~(s[1] > s[2] \/ s[2] > Len(data))

\* decipherPDU never slices beyond its data.
LEMMA DecipherInBounds ==
  ASSUME NEW data \in Seq(Octets), Len(data) <= maxPDULength
  PROVE  ~Panics(data)
<1> SUFFICES ASSUME NEW s \in Slices(data) PROVE InBounds(s, data)
  BY DEF Panics, InBounds
<1>0. Len(data) \in Nat
  OBVIOUS
<1>1. Known(data)
  BY DEF Slices
<1>2. CASE s = <<0, FixedPart(Type(data))>>
  BY <1>0, <1>1, <1>2 DEF InBounds, Known, MinLength, FixedPart, SerialNotify, SerialQuery,
       ErrorReport, Aspa, ResetQuery, CacheResponse, CacheReset, Ipv4Prefix, EndOfData,
       RouterKey, Ipv6Prefix
<1>3. ASSUME Type(data) = ErrorReport, PduLenOK(data),
             s \in {<<textAt(data), Add32(textAt(data), 4)>>,
                    <<12, textAt(data)>>, <<Add32(textAt(data), 4), Len(data)>>}
      PROVE  InBounds(s, data)
  <2> DEFINE p == pduLen(data)
  <2>1. p \in Nat /\ p <= Len(data)
    BY <1>3, ReadsNat DEF PduLenOK, pduLen
  <2>2. 16 + p < Base4
    BY <1>0, <2>1, Widths
  <2>3. 16 + p <= Len(data)
    BY <1>3, <2>1, <2>2, NoWrap DEF PduLenOK
  <2>4. textAt(data) = 12 + p
    BY <2>1, <2>2, NoWrap, Widths DEF textAt
  <2>5. Add32(textAt(data), 4) = 16 + p
    BY <2>1, <2>2, <2>4, NoWrap
  <2> HIDE DEF p
  <2> QED
    BY <1>0, <1>3, <2>1, <2>3, <2>4, <2>5 DEF InBounds
<1>4. ASSUME NEW i \in 0 .. (Len(data) - 12) \div 4 - 1, s = <<12 + i * 4, 16 + i * 4>>
      PROVE  InBounds(s, data)
  <2>1. i \in Int /\ 0 <= i /\ i + 1 <= (Len(data) - 12) \div 4
    BY <1>0, <1>4
  <2>2. 4 * ((Len(data) - 12) \div 4) <= Len(data) - 12
    BY <1>0
  <2> QED
    BY <1>0, <1>4, <2>1, <2>2 DEF InBounds
<1> QED
  BY <1>1, <1>2, <1>3, <1>4 DEF Slices
-----------------------------------------------------------------------------
\* Between the two reads, the header is there and its length is in range.
Inv ==
  /\ CodecTypeOK
  /\ NoPanic
  /\ pc = "header" => buf = <<>>
  /\ pc = "payload" => Len(buf) = minPDULength /\ LengthOK(Uint32(buf, 4))

LEMMA InvInit == Init => Inv
<1> SUFFICES ASSUME Init PROVE Inv
  OBVIOUS
<1> QED
  BY Widths DEF Init, Inv, CodecTypeOK, NoPanic

\* io.ReadFull appends n octets to what was read.
LEMMA ReadFullStep ==
  ASSUME CodecTypeOK, NEW n \in Nat, ReadFull(n)
  PROVE  /\ buf' \in Seq(Octets) /\ input' \in Seq(Octets)
         /\ Len(buf') = Len(buf) + n
<1>1. input \in Seq(Octets) /\ buf \in Seq(Octets) /\ n <= Len(input)
  BY DEF CodecTypeOK, ReadFull
<1>2. SubSeq(input, 1, n) \in Seq(Octets) /\ Len(SubSeq(input, 1, n)) = n
  BY <1>1
<1>3. SubSeq(input, n + 1, Len(input)) \in Seq(Octets)
  BY <1>1
<1> QED
  BY <1>1, <1>2, <1>3 DEF ReadFull

LEMMA InvStep == Inv /\ [Next]_vars => Inv'
<1> SUFFICES ASSUME Inv, [Next]_vars PROVE Inv'
  OBVIOUS
<1> USE DEF Inv
<1>1. CASE SendPDU \/ SendFrame
  <2>1. PICK octets, pdu : octets \in Seq(Octets) /\ Send(octets, pdu)
    BY <1>1, SentAssumption, Zenon DEF SendPDU, SendFrame
  <2> QED
    BY <2>1 DEF Send, CodecTypeOK, NoPanic, LengthOK
<1>2. CASE ReadHeader
  <2>1. /\ buf' \in Seq(Octets) /\ input' \in Seq(Octets)
        /\ Len(buf') = Len(buf) + minPDULength
    BY <1>2, ReadFullStep, Zenon DEF ReadHeader, minPDULength
  <2>2. Len(buf') = minPDULength
    BY <1>2, <2>1 DEF ReadHeader, minPDULength
  <2>3. minPDULength <= maxPDULength
    <3>1. Base2 >= 12 * Base /\ Base >= 12 /\ Base \in Nat
      BY BaseAssumption, SMT DEF Base2, Aspa
    <3> QED
      BY <3>1, Widths DEF minPDULength, maxPDULength
  <2> QED
    BY <1>2, <2>1, <2>2, <2>3 DEF ReadHeader, CodecTypeOK, NoPanic, LengthOK
<1>3. CASE ReadPayload
  <2>1. Len(buf) = minPDULength /\ LengthOK(Uint32(buf, 4)) /\ Uint32(buf, 4) \in Nat
    BY <1>3, ReadsNat DEF ReadPayload, CodecTypeOK
  <2>2. PayloadLen(buf) \in Nat /\ Len(buf) + PayloadLen(buf) <= maxPDULength
    BY <2>1, Widths DEF PayloadLen, LengthOK, minPDULength
  <2>3. /\ buf' \in Seq(Octets) /\ input' \in Seq(Octets)
        /\ Len(buf') = Len(buf) + PayloadLen(buf)
    BY <1>3, <2>2, ReadFullStep DEF ReadPayload
  <2> QED
    BY <1>3, <2>2, <2>3 DEF ReadPayload, CodecTypeOK, NoPanic
<1>4. CASE Decipher
  <2>1. ~Panics(buf)
    BY DecipherInBounds DEF CodecTypeOK
  <2>2. <<>> \in Seq(Octets) /\ Len(<<>>) <= maxPDULength
    BY Widths
  <2>3. /\ pc' \in {"header", "error"} /\ (pc' = "header" => buf' = <<>>)
        /\ buf' \in {<<>>, buf} /\ input' = input
    BY <1>4, <2>1 DEF Decipher
  <2> QED
    BY <2>2, <2>3, Zenon DEF CodecTypeOK, NoPanic
<1>5. CASE EndOfFile \/ UNCHANGED vars
  BY <1>5 DEF EndOfFile, vars, CodecTypeOK, NoPanic, LengthOK
<1> QED
  BY <1>1, <1>2, <1>3, <1>4, <1>5 DEF Next

\* GetPDU never panics, whatever octets arrive and however they are cut into PDUs:
\* the limit on the length of a PDU (decode.go:43) keeps the sums of the lengths
\* inside an Error Report from wrapping (decode.go:115-138).
THEOREM NeverPanics == Spec => []NoPanic
<1>1. Inv => NoPanic
  BY DEF Inv
<1> QED
  BY <1>1, InvInit, InvStep, PTL DEF Spec

\* The reader's state has its type, and its buffer is bounded by the longest PDU.
THEOREM CodecTypes == Spec => []CodecTypeOK
<1>1. Inv => CodecTypeOK
  BY DEF Inv
<1> QED
  BY <1>1, InvInit, InvStep, PTL DEF Spec
=============================================================================
