----------------------------- MODULE MrtFraming -----------------------------
(***************************************************************************)
(* The framing of one MRT record (RFC 6396 section 2) as src/writer.rs     *)
(* writes it: a 12-octet common header, the optional 4-octet microsecond   *)
(* field of the _ET types, the body.  A body is its size and, for          *)
(* TABLE_DUMP_V2, what it says about the peer table; its other octets are  *)
(* left out.                                                               *)
(***************************************************************************)
EXTENDS Integers

CONSTANT U32          \* 2^32, the range of a u32 header field

ASSUME U32Assumption == U32 \in Nat /\ U32 > 4096

HeaderLen == 12       \* Timestamp, Type, Subtype, Length
MicroLen  == 4        \* the Microsecond Timestamp of the _ET types
Computed  == -1       \* declared_length = None
NoPeer    == -1       \* a body that carries, or refers to, no peer table

MrtTypes == {"TABLE_DUMP", "TABLE_DUMP_V2", "BGP4MP", "BGP4MP_ET", "OSPFV2",
             "OSPFV3", "OSPFV3_ET", "ISIS", "ISIS_ET", "UNKNOWN"}

(* table: the Peer Count of a PEER_INDEX_TABLE; top: the highest Peer      *)
(* Index among the entries of a RIB record.                                *)
Contents == [table : Nat \cup {NoPeer}, top : Nat \cup {NoPeer}]

MrtRecord == [type : MrtTypes, us : BOOLEAN, body : Nat, content : Contents,
              declared : Nat \cup {Computed}]

-----------------------------------------------------------------------------
Micros(rec) == IF rec.us THEN MicroLen ELSE 0

(* Slips the checks must see: a Length without the microsecond field, a    *)
(* size without it, a tail that is not cut.                                *)
WireLengthBodyOnly(rec) == IF rec.declared # Computed THEN rec.declared ELSE rec.body % U32
EncodedLenBodyOnly(rec) == HeaderLen + rec.body
TruncateNothing(chunk, keep) == chunk

(* MrtRecord::wire_length: the override, or the body size cast to u32 plus *)
(* the microsecond field, which the Length field counts.                   *)
WireLength(rec) ==
  IF rec.declared # Computed THEN rec.declared
  ELSE ((rec.body % U32) + Micros(rec)) % U32

(* MrtRecord::encoded_len: the size the manifest records.                  *)
EncodedLen(rec) == HeaderLen + Micros(rec) + rec.body

(* MrtRecord::encode_into: the octets appended at position at.  4+2+2+4    *)
(* octets of header, the microseconds, the body.                           *)
Encode(rec, ts, at) ==
  [at |-> at, size |-> 4 + 2 + 2 + 4 + Micros(rec) + rec.body,
   timestamp |-> ts, type |-> rec.type, length |-> WireLength(rec),
   content |-> rec.content]

(* Vec::truncate on an encoded record.                                     *)
Truncate(chunk, keep) ==
  [chunk EXCEPT !.size = IF keep < chunk.size THEN keep ELSE chunk.size]

Chunks == [at : Nat, size : Nat, timestamp : 0 .. U32 - 1, type : MrtTypes,
           length : Nat, content : Contents]
=============================================================================
