--------------------------- MODULE ResponseWriter ---------------------------
(***************************************************************************)
(* How one response is written: s3_response_write (protocol/response.c)    *)
(* fills one buffer after the other from a writer and hands each to        *)
(* network_write_stream, which tries write until the socket has taken all. *)
(*                                                                         *)
(* The writers are s3_response_writer_update for texts,                    *)
(* s3_action_request_writer for a stored file and                          *)
(* s3_action_dirlist_writer for a listing.  A byte is <<what, i>>, the     *)
(* i-th byte of the magic, the header section or the data.                 *)
(***************************************************************************)
EXTENDS SequencesExt, PacketHeader

CONSTANTS
  NETWORK_WRITE_BUFFER,   \* bytes of the response buffer
  S3_PROTOCOL_MAGIC_LEN,  \* bytes of the word in front
  HeaderBytes,            \* bytes of the serialized response header
  SocketRoom              \* unread bytes the socket holds for the client

ASSUME ResponseWriterAssumption ==
  /\ {S3_PROTOCOL_MAGIC_LEN, HeaderBytes, SocketRoom} \subseteq Nat \ {0}
  /\ NETWORK_WRITE_BUFFER \in Nat
  /\ S3_PROTOCOL_MAGIC_LEN + Aligned(HeaderBytes) < NETWORK_WRITE_BUFFER
  /\ Aligned(HeaderBytes) < ALIGNMENT * BYTE

VARIABLES
  writing,      \* "no", the writer's turn "fill", or the socket's "flush"
  kind, size,   \* the writer, and the bytes it has to send
  memory,       \* writer_buffer.address
  windex,       \* writer_buffer.index
  total,        \* total_write_completed
  data_length,  \* header_info.data_length
  word,         \* the magic that was written
  bytes_written,\* of network_write_stream
  out, unread   \* bytes of this response on the wire; not read by the client

writerVars == <<writing, kind, size, memory, windex, total, data_length, word,
                bytes_written, out, unread>>

Run(what, from, n) == [i \in 1..n |-> <<what, from + i>>]

HeaderLength == Aligned(HeaderBytes)

(* The front of the first buffer: room for the magic, then the headers,    *)
(* zeroes up to the boundary and in the rest (m_calloc).                   *)
FirstBuffer ==
  Run("magic", 0, S3_PROTOCOL_MAGIC_LEN) \o Run("header", 0, HeaderLength)
    \o Run("zero", 0, NETWORK_WRITE_BUFFER - S3_PROTOCOL_MAGIC_LEN - HeaderLength)

NoWord == MakeMagic(0, 0)

WriterInit ==
  /\ writing = "no" /\ kind = "text" /\ size = 0
  /\ memory = FirstBuffer /\ windex = 0 /\ total = 0 /\ data_length = 0
  /\ word = NoWord /\ bytes_written = 0
  /\ out = <<>> /\ unread = 0

(* s3_response_write up to its loop.                                       *)
BeginResponse(k, n) ==
  /\ writing' = "fill" /\ kind' = k /\ size' = n
  /\ memory' = FirstBuffer
  /\ windex' = S3_PROTOCOL_MAGIC_LEN + HeaderLength
  /\ total' = 0 /\ data_length' = 0
  /\ word' = NoWord
  /\ out' = <<>>
  /\ UNCHANGED <<bytes_written, unread>>

(* A listing is released by the first call of its writer; a second call    *)
(* reads through NULL.                                                     *)
ListingGone == kind = "list" /\ total > 0

WriteTodo ==
  LET required == size - total
      avail == NETWORK_WRITE_BUFFER - windex
  IN  IF required > avail THEN avail ELSE required

(* Where the writer takes its bytes from: a text and a file from           *)
(* total_write_completed on, a listing from its start.                     *)
SourceOffset_Start == 0   \* mutant: no fseek

SourceOffset == IF kind = "list" THEN 0 ELSE total

(* One call of the writer; the magic is made after the first one.          *)
Fill ==
  LET n == WriteTodo
  IN  /\ writing = "fill"
      /\ ~ListingGone
      /\ memory' = [i \in 1..NETWORK_WRITE_BUFFER |->
                      IF i \in (windex + 1)..(windex + n)
                      THEN <<"data", SourceOffset + i - windex>> ELSE memory[i]]
      /\ total' = total + n
      /\ windex' = windex + n
      /\ data_length' = size
      /\ word' = IF out = <<>> THEN MakeMagic(HeaderLength, size) ELSE word
      /\ writing' = "flush"
      /\ bytes_written' = 0
      /\ UNCHANGED <<kind, size, out, unread>>

(* network_write_stream: the socket takes what it has room for; a full one *)
(* is tried again at once.                                                 *)
WriteSome ==
  /\ writing = "flush"
  /\ bytes_written < windex
  /\ \E n \in 1..(windex - bytes_written) :
       /\ unread + n <= SocketRoom
       /\ out' = out \o SubSeq(memory, bytes_written + 1, bytes_written + n)
       /\ bytes_written' = bytes_written + n
       /\ unread' = unread + n
  /\ UNCHANGED <<writing, kind, size, memory, windex, total, data_length, word>>

(* The buffer is out: another one, or the response is complete.            *)
MoreToWrite_Header ==   \* mutant: the header counts as data
  total # data_length + HeaderLength

MoreToWrite == total # data_length

NextBuffer ==
  /\ writing = "flush"
  /\ bytes_written = windex
  /\ MoreToWrite
  /\ windex' = 0
  /\ writing' = "fill"
  /\ UNCHANGED <<kind, size, memory, total, data_length, word, bytes_written,
                 out, unread>>

ResponseComplete ==
  writing = "flush" /\ bytes_written = windex /\ ~MoreToWrite

EndResponse ==
  /\ ResponseComplete
  /\ writing' = "no"
  /\ UNCHANGED <<kind, size, memory, windex, total, data_length, word,
                 bytes_written, out, unread>>

(* The client reads.                                                       *)
ClientReads ==
  /\ unread > 0
  /\ unread' = 0
  /\ UNCHANGED <<writing, kind, size, memory, windex, total, data_length, word,
                 bytes_written, out>>
=============================================================================
