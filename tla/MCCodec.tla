------------------------------ MODULE MCCodec ------------------------------
(***************************************************************************)
(* The codec for TLC.  The PDUs have small, large and mixed values in      *)
(* every field, and variable parts that are empty, short, as long as a PDU *)
(* may be and one longer.  The frames have every type, known or not, every *)
(* number of payload octets up to one word more than the type needs, and   *)
(* in Error Reports inner lengths at the edges and around the wrap.        *)
(***************************************************************************)
EXTENDS Codec

MaxUint32 == Base4 - 1
Run(n) == [i \in 1 .. n |-> i % Base]
Numbers == {1, MaxUint32 - 1, 3 * Base * Base2 + 5 * Base2 + 7 * Base + 9}
Sessions == {0, Base + 2}

Serials ==
  [type : {SerialNotify, SerialQuery}, version : {1, 2}, session : Sessions, serial : Numbers]

Resets == [type : {ResetQuery, CacheReset}, version : {1, 2}]

Responses == [type : {CacheResponse}, version : {2}, session : Sessions]

PrefixPDUs ==
  {[type |-> t, version |-> 2, flags |-> f, min |-> 3, max |-> 4,
    prefix |-> Run(IF t = Ipv4Prefix THEN 4 ELSE 16), asn |-> n] :
       t \in {Ipv4Prefix, Ipv6Prefix}, f \in {0, 1}, n \in Numbers}

Ends ==
  {[type |-> EndOfData, version |-> 1, session |-> 7, serial |-> n, refresh |-> 2 * Base,
    retry |-> 10, expire |-> Base * Base2] : n \in Numbers}

Keys ==
  {[type |-> RouterKey, version |-> 1, session |-> 0, ski |-> Run(20), asn |-> 5,
    skiInfo |-> Run(n)] : n \in {0, 3, maxPDULength - 32, maxPDULength - 31}}

Reports ==
  {[type |-> ErrorReport, version |-> 2, code |-> 3, pdu |-> Run(m), text |-> Run(n)] :
     m \in {0, 8}, n \in {0, 5, maxPDULength - 24}}

AspaLists == {<<>>, <<1>>, <<MaxUint32, 2 * Base>>, Run(60), Run(61)}

Aspas ==
  {[type |-> Aspa, version |-> 2, flags |-> 1, casn |-> 6, pasn |-> l] : l \in AspaLists}

MCPDUs == Serials \cup Resets \cup Responses \cup PrefixPDUs \cup Ends \cup Keys \cup Reports
            \cup Aspas

Frame(type, length, body) == <<2, type, 0, 0>> \o U32(length) \o body

Plain == {Frame(t, 8 + n, Run(n)) : t \in 0 .. 12, n \in {0, 3, 4, 12, 16, 23, 24, 25, 28}}

Nested ==
  {Frame(ErrorReport, 8 + 4 + Len(rest), U32(n) \o rest) :
     n \in {0, 1, 4, 5, 8, MaxUint32 - 15, MaxUint32 - 11, MaxUint32 - 3, MaxUint32},
     rest \in {<<>>, U32(0), U32(4), U32(MaxUint32 - 3), U32(0) \o U32(MaxUint32),
               U32(0) \o U32(1) \o U32(0)}}

Mislabelled == {Frame(ResetQuery, n, Run(4)) : n \in {0, 7, 8, 14, maxPDULength + 1}}

MCFrames == Plain \cup Nested \cup Mislabelled
=============================================================================
