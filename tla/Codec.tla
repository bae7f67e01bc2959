------------------------------- MODULE Codec -------------------------------
(***************************************************************************)
(* PDUs as octets on a TCP connection: the Write methods and functions of  *)
(* internal/protocol/marshal.go, and GetPDU of decode.go at the other end. *)
(* A step of the reader is one io.ReadFull, or the deciphering of what was *)
(* read.  A PDU is a record of the fields its constructor takes (pdu.go).  *)
(*                                                                         *)
(* Octets have Base values and wider integers two or four octets, big      *)
(* endian: with Base = 256 these are uint16 and uint32.  Offsets count     *)
(* from 0, as in the source.                                               *)
(***************************************************************************)
EXTENDS Integers, Sequences, SequencesExt

CONSTANTS
  Base,      \* values of an octet
  PDUs,      \* the PDUs that may be written
  Frames,    \* other strings of octets that a peer may send
  MaxSent    \* bound: PDUs and strings per connection

Octets == 0 .. Base - 1
Base2 == Base * Base
Base4 == Base2 * Base2

U16(n) == <<n \div Base, n % Base>>
U32(n) == U16(n \div Base2) \o U16(n % Base2)

Octet(data, i) == IF i < Len(data) THEN data[i + 1] ELSE 0
Uint16(data, i) == Octet(data, i) * Base + Octet(data, i + 1)
Uint32(data, i) == Uint16(data, i) * Base2 + Uint16(data, i + 2)
Slice(data, from, to) == SubSeq(data, from + 1, to)

\* uint32 arithmetic.
Add32(m, n) == (m + n) % Base4
-----------------------------------------------------------------------------
(* types.go *)

SerialNotify == 0
SerialQuery == 1
ResetQuery == 2
CacheResponse == 3
Ipv4Prefix == 4
Ipv6Prefix == 6
EndOfData == 7
CacheReset == 8
RouterKey == 9
ErrorReport == 10
Aspa == 11

minPDULength == 8
maxPDULength == Base2 - 1

ASSUME BaseAssumption == Base \in Nat /\ Aspa < Base
-----------------------------------------------------------------------------
(* Writing. *)

Header(p, mid, length) == <<p.version, p.type>> \o mid \o U32(length)

\* SerialNotifyPDU.Write and SerialQueryPDU.Write.
SerialWrite(p) == Header(p, U16(p.session), 12) \o U32(p.serial)

\* ResetQueryPDU.Write and cacheResetPDU.Write.
ResetWrite(p) == Header(p, <<0, 0>>, 8)

CacheResponseWrite(p) == Header(p, U16(p.session), 8)

PrefixWrite(p, length) ==
  Header(p, <<0, 0>>, length) \o <<p.flags, p.min, p.max, 0>> \o p.prefix \o U32(p.asn)

EndOfDataWrite(p) ==
  Header(p, U16(p.session), 24)
    \o U32(p.serial) \o U32(p.refresh) \o U32(p.retry) \o U32(p.expire)

RouterKeyWrite(p) ==
  Header(p, U16(p.session), 32 + Len(p.skiInfo)) \o p.ski \o U32(p.asn) \o p.skiInfo

ErrorReportWrite_NoTextLen(p) ==
  Header(p, U16(p.code), 12 + Len(p.pdu) + Len(p.text))
    \o U32(Len(p.pdu)) \o p.pdu \o U32(Len(p.text)) \o p.text

ErrorReportWrite(p) ==
  Header(p, U16(p.code), 12 + Len(p.pdu) + 4 + Len(p.text))
    \o U32(Len(p.pdu)) \o p.pdu \o U32(Len(p.text)) \o p.text

Providers(pasn) == FlattenSeq([i \in 1 .. Len(pasn) |-> U32(pasn[i])])

AspaWrite(p) ==
  Header(p, <<p.flags, 0>>, 12 + Len(p.pasn) * 4) \o U32(p.casn) \o Providers(p.pasn)

\* The Write method of a PDU.
Write(p) ==
  CASE p.type \in {SerialNotify, SerialQuery} -> SerialWrite(p)
    [] p.type \in {ResetQuery, CacheReset} -> ResetWrite(p)
    [] p.type = CacheResponse -> CacheResponseWrite(p)
    [] p.type = Ipv4Prefix -> PrefixWrite(p, 20)
    [] p.type = Ipv6Prefix -> PrefixWrite(p, 32)
    [] p.type = EndOfData -> EndOfDataWrite(p)
    [] p.type = RouterKey -> RouterKeyWrite(p)
    [] p.type = ErrorReport -> ErrorReportWrite(p)
    [] p.type = Aspa -> AspaWrite(p)

\* WriteIpv4Prefix and WriteIpv6Prefix: what a session uses for each entry, with a
\* layout of their own.  The octets that are not assigned are zero.
WritePrefix(p, length) ==
  <<p.version, p.type, 0, 0>> \o U32(length)
    \o <<p.flags, p.min, p.max, 0>> \o p.prefix \o U32(p.asn)

WriteAspa(p) ==
  LET pduLen == 12 + Len(p.pasn) * 4
  IN  <<p.version, Aspa, p.flags, 0>> \o U32(pduLen) \o U32(p.casn) \o Providers(p.pasn)

\* The ways to write p.
Written(p) ==
  {Write(p)} \cup
  CASE p.type = Ipv4Prefix -> {WritePrefix(p, 20)}
    [] p.type = Ipv6Prefix -> {WritePrefix(p, 32)}
    [] p.type = Aspa -> {WriteAspa(p)}
    [] OTHER -> {}

\* The fields of a PDU are in the range of their type.
ASSUME SentAssumption ==
  /\ \A p \in PDUs : Written(p) \subseteq Seq(Octets)
  /\ Frames \subseteq Seq(Octets)
-----------------------------------------------------------------------------
(* Reading: the checks of decipherPDU. *)

Type(data) == Octet(data, 1)

\* The least length that is not "too short".
MinLength(type) ==
  CASE type \in {SerialNotify, SerialQuery, ErrorReport, Aspa} -> 12
    [] type \in {ResetQuery, CacheResponse, CacheReset} -> 8
    [] type = Ipv4Prefix -> 20
    [] type = EndOfData -> 24
    [] type \in {RouterKey, Ipv6Prefix} -> 32

\* How far the decoding of the fixed part then reads.
FixedPart(type) ==
  CASE type \in {SerialNotify, SerialQuery, ErrorReport, Aspa} -> 12
    [] type \in {ResetQuery, CacheResponse, CacheReset} -> 8
    [] type = Ipv4Prefix -> 20
    [] type = EndOfData -> 24
    [] type \in {RouterKey, Ipv6Prefix} -> 32

Known(data) ==
  /\ Len(data) >= minPDULength /\ Uint32(data, 4) = Len(data)
  /\ Type(data) \in {SerialNotify, SerialQuery, ResetQuery, CacheResponse, Ipv4Prefix,
                     Ipv6Prefix, EndOfData, CacheReset, RouterKey, ErrorReport, Aspa}
  /\ Len(data) >= MinLength(Type(data))

\* The two lengths inside an Error Report, and the checks on each.
pduLen(data) == Uint32(data, 8)

PduLenOK_SumOnly(data) == Add32(12 + 4, pduLen(data)) <= Len(data)

PduLenOK(data) ==
  /\ pduLen(data) <= Len(data)
  /\ Add32(12 + 4, pduLen(data)) <= Len(data)

textAt(data) == Add32(12, pduLen(data))
textLen(data) == Uint32(data, textAt(data))

TextLenOK(data) ==
  /\ Add32(16 + pduLen(data), textLen(data)) = Len(data)
  /\ textLen(data) <= Len(data)

AspaLenOK(data) == (Len(data) - 12) % 4 = 0

\* What decipherPDU slices out of the data, in the order of the checks.
Slices(data) ==
  IF ~Known(data) THEN {}
  ELSE {<<0, FixedPart(Type(data))>>} \cup
    CASE Type(data) = ErrorReport ->
           IF ~PduLenOK(data) THEN {}
           ELSE {<<textAt(data), Add32(textAt(data), 4)>>} \cup
             IF ~TextLenOK(data) THEN {}
             ELSE {<<12, textAt(data)>>, <<Add32(textAt(data), 4), Len(data)>>}
      [] Type(data) = Aspa ->
           {<<12 + i * 4, 16 + i * 4>> : i \in 0 .. (Len(data) - 12) \div 4 - 1}
      [] OTHER -> {}

Panics(data) == \E s \in Slices(data) : s[1] > s[2] \/ s[2] > Len(data)

Accepted(data) ==
  /\ Known(data)
  /\ Type(data) = ErrorReport => PduLenOK(data) /\ TextLenOK(data)
  /\ Type(data) = Aspa => AspaLenOK(data)
-----------------------------------------------------------------------------
(* The PDU that decipherPDU makes of accepted data. *)

New(data) == [type |-> Type(data), version |-> Octet(data, 0)]

NewSession(data) == New(data) @@ [session |-> Uint16(data, 2)]

NewSerial(data) == NewSession(data) @@ [serial |-> Uint32(data, 8)]

NewPrefix(data, size) ==
  New(data) @@ [flags |-> Octet(data, 8), min |-> Octet(data, 9), max |-> Octet(data, 10),
                prefix |-> Slice(data, 12, 12 + size), asn |-> Uint32(data, 12 + size)]

NewEndOfData(data) ==
  NewSerial(data) @@ [refresh |-> Uint32(data, 12), retry |-> Uint32(data, 16),
                      expire |-> Uint32(data, 20)]

NewRouterKey(data) ==
  NewSession(data) @@ [ski |-> Slice(data, 8, 28), asn |-> Uint32(data, 28),
                       skiInfo |-> Slice(data, 32, Len(data))]

NewErrorReport(data) ==
  New(data) @@ [code |-> Uint16(data, 2), pdu |-> Slice(data, 12, textAt(data)),
                text |-> Slice(data, textAt(data) + 4, Len(data))]

NewAspa(data) ==
  New(data) @@ [flags |-> Octet(data, 2), casn |-> Uint32(data, 8),
                pasn |-> [i \in 1 .. (Len(data) - 12) \div 4 |-> Uint32(data, 8 + i * 4)]]

Deciphered(data) ==
  CASE Type(data) \in {SerialNotify, SerialQuery} -> NewSerial(data)
    [] Type(data) \in {ResetQuery, CacheReset} -> New(data)
    [] Type(data) = CacheResponse -> NewSession(data)
    [] Type(data) = Ipv4Prefix -> NewPrefix(data, 4)
    [] Type(data) = Ipv6Prefix -> NewPrefix(data, 16)
    [] Type(data) = EndOfData -> NewEndOfData(data)
    [] Type(data) = RouterKey -> NewRouterKey(data)
    [] Type(data) = ErrorReport -> NewErrorReport(data)
    [] Type(data) = Aspa -> NewAspa(data)
-----------------------------------------------------------------------------
VARIABLES
  pc,       \* of GetPDU: "header", "payload", "decipher"; or how it came to an end
  buf,      \* the octets of the PDU that is being read
  input,    \* octets sent and not yet read
  sent,     \* ghost: what was sent: the octets, and the PDU they were written for
  out       \* what GetPDU has returned so far

vars == <<pc, buf, input, sent, out>>

Init == pc = "header" /\ buf = <<>> /\ input = <<>> /\ sent = <<>> /\ out = <<>>

\* writeFull: all of the octets arrive, in order.
Send(octets, pdu) ==
  /\ Len(sent) < MaxSent
  /\ sent' = Append(sent, [octets |-> octets, pdu |-> pdu])
  /\ input' = input \o octets
  /\ UNCHANGED <<pc, buf, out>>

SendPDU == \E p \in PDUs : \E octets \in Written(p) : Send(octets, <<p>>)

SendFrame == \E f \in Frames : Send(f, <<>>)

ReadFull_Once(n) ==
  /\ Len(input) >= n
  /\ \E k \in {n \div 2, n} :
       /\ buf' = buf \o SubSeq(input, 1, k) \o [i \in 1 .. n - k |-> 0]
       /\ input' = SubSeq(input, k + 1, Len(input))

\* io.ReadFull: n octets are read into a buffer of that size, in as many pieces as
\* it takes.
ReadFull(n) ==
  /\ Len(input) >= n
  /\ buf' = buf \o SubSeq(input, 1, n)
  /\ input' = SubSeq(input, n + 1, Len(input))

LengthOK_NoMax(length) == length >= minPDULength

LengthOK(length) == length >= minPDULength /\ length <= maxPDULength

ReadHeader ==
  /\ pc = "header"
  /\ ReadFull(minPDULength)
  /\ pc' = IF LengthOK(Uint32(buf', 4)) THEN "payload" ELSE "error"
  /\ UNCHANGED <<sent, out>>

PayloadLen(data) == Uint32(data, 4) - minPDULength

ReadPayload ==
  /\ pc = "payload"
  /\ ReadFull(PayloadLen(buf))
  /\ pc' = "decipher"
  /\ UNCHANGED <<sent, out>>

Decipher ==
  /\ pc = "decipher"
  /\ IF Panics(buf)
     THEN pc' = "panic" /\ UNCHANGED <<buf, out>>
     ELSE IF Accepted(buf)
     THEN pc' = "header" /\ buf' = <<>> /\ out' = Append(out, Deciphered(buf))
     ELSE pc' = "error" /\ UNCHANGED <<buf, out>>
  /\ UNCHANGED <<input, sent>>

\* The connection ends before there are enough octets.
EndOfFile ==
  /\ \/ pc = "header" /\ Len(input) < minPDULength
     \/ pc = "payload" /\ Len(input) < PayloadLen(buf)
  /\ pc' = "eof"
  /\ UNCHANGED <<buf, input, sent, out>>

Next == SendPDU \/ SendFrame \/ ReadHeader \/ ReadPayload \/ Decipher \/ EndOfFile

Spec == Init /\ [][Next]_vars
-----------------------------------------------------------------------------
(* Properties. *)

\* The reader's state has its type; it never takes more than the longest PDU
\* (decode.go:43).
CodecTypeOK ==
  /\ pc \in {"header", "payload", "decipher", "error", "eof", "panic"}
  /\ buf \in Seq(Octets) /\ input \in Seq(Octets)
  /\ Len(buf) <= maxPDULength

\* No slice of the data goes beyond it, whatever the lengths in the octets say and
\* also when their sum wraps around (decode.go:115-138).
NoPanic == pc # "panic"

Fits(s) == s.pdu # <<>> /\ Len(s.octets) <= maxPDULength

\* PDUs arrive as they were written, by either of the two writers of a prefix or an
\* ASPA, one after the other and none refused, as far as they are no longer than
\* the reader takes (marshal.go, decode.go:43; the writers have no such limit).
RoundTrip ==
  /\ \A i \in 1 .. Len(sent) :
       i <= Len(out) /\ (\A j \in 1 .. i : Fits(sent[j])) => out[i] = sent[i].pdu[1]
  /\ pc = "error" => \E j \in 1 .. Len(sent) : j <= Len(out) + 1 /\ ~Fits(sent[j])

Truthful(s) == Len(s.octets) >= minPDULength /\ Uint32(s.octets, 4) = Len(s.octets)

\* The reader starts each PDU where a PDU starts: nothing is lost or read twice, and
\* nothing of a PDU that is longer than its type needs is taken for the next header
\* (decode.go:36-54).
InStep ==
  (\A i \in 1 .. Len(sent) : Truthful(sent[i])) =>
    buf \o input =
      FlattenSeq([i \in 1 .. Len(sent) - Len(out) |-> sent[Len(out) + i].octets])
=============================================================================
