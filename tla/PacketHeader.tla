---------------------------- MODULE PacketHeader ----------------------------
(***************************************************************************)
(* The eight bytes in front of every packet, as s3_header_parse8           *)
(* (protocol/request.c) reads them and s3_response_make_magic              *)
(* (protocol/response.c) writes them: a word whose lowest six bytes are    *)
(* the data length, the seventh the header length in units of ALIGNMENT    *)
(* and the eighth the magic.  BYTE is 256 in the code; masks are           *)
(* remainders and shifts are products and quotients of its powers.         *)
(***************************************************************************)
EXTENDS Integers

CONSTANTS BYTE,               \* values of a byte
          ALIGNMENT,          \* bytes of header per unit of its length field
          S3_PROTOCOL_MAGIC   \* the byte that marks a packet

ASSUME PacketHeaderAssumption ==
  /\ BYTE \in Nat \ {0, 1}
  /\ ALIGNMENT \in Nat \ {0}
  /\ S3_PROTOCOL_MAGIC \in 0..(BYTE - 1)

(* The data lengths a response can tell: the mask 0x0000FFFFFFFFFF, which  *)
(* is five bytes and not six.                                              *)
ResponseRange == BYTE * BYTE * BYTE * BYTE * BYTE

(* Those s3_header_parse8 can find: the mask 0x0000FFFFFFFFFFFF.           *)
DataRange == BYTE * ResponseRange

(* s3_header_parse8                                                        *)
Parse8(word) ==
  [magic |-> word \div (BYTE * DataRange),
   header_length |-> ((word \div DataRange) % BYTE) * ALIGNMENT,
   data_length |-> word % DataRange]

(* s3_response_make_magic; its fields do not overlap as long as the header *)
(* length fits in its byte, so or is the sum.                              *)
MakeMagic(header_length, data_length) ==
  S3_PROTOCOL_MAGIC * (BYTE * DataRange)
    + (header_length \div ALIGNMENT) * DataRange
    + (data_length % ResponseRange)

(* The next multiple of ALIGNMENT.                                         *)
Aligned_Not(n) == n   \* mutant: no padding

Aligned(n) == ((n + ALIGNMENT - 1) \div ALIGNMENT) * ALIGNMENT
=============================================================================
