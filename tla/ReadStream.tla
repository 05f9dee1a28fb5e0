----------------------------- MODULE ReadStream -----------------------------
(***************************************************************************)
(* How one connection reads: network_read_stream (networking/network.c),   *)
(* one read call at a time, so that bytes may arrive between two reads of  *)
(* one epoll event.                                                        *)
(*                                                                         *)
(* The bytes of the client are numbered in the order they are sent, so a   *)
(* buffer, a file or a digest is the sequence of the numbers of its bytes. *)
(* The connection waits for a part (a magic, a header section, the data of *)
(* an upload, an ACCEPT): length bytes after the base bytes that were read *)
(* before.  Which part follows which is up to module Wire.                 *)
(***************************************************************************)
EXTENDS Integers, Sequences

CONSTANTS
  NETWORK_READ_BUFFER,  \* bytes of the buffer of a connection
  MaxBytes              \* bound: bytes the client sends

ASSUME ReadStreamAssumption ==
  /\ NETWORK_READ_BUFFER \in Nat \ {0}
  /\ MaxBytes \in Nat

VARIABLES
  plain_mode,    \* read, or SSL_read?
  sent,          \* bytes the client has sent
  kernel,        \* the socket's queue: sizes of records, of one run if plain
  ssl,           \* bytes of a record that SSL_read has not handed out
  base,          \* bytes of the parts before this one
  index,         \* data_read.index
  length,        \* data_read.length
  file,          \* temporary_file # NULL
  address,       \* data_read.address, the buffer
  temp, sha,     \* the temporary file, and what sha256_context has hashed
  digest,        \* sha256_hex
  reading,       \* inside network_read_stream?
  buffer_index,  \* its local variable
  torn           \* did this part take two reads of one event into memory?

streamVars == <<plain_mode, sent, kernel, ssl>>
localVars == <<reading, buffer_index>>
partVars == <<base, index, length, file, torn>>
dataVars == <<address, temp, sha, digest>>
readVars == <<streamVars, localVars, partVars, dataVars>>

Least(x, y) == IF x < y THEN x ELSE y

(* The numbers of the n bytes after the first k.                           *)
BytesAfter(k, n) == [i \in 1..n |-> k + i]

ReadInit(magic) ==
  /\ plain_mode \in BOOLEAN
  /\ sent = 0 /\ kernel = <<>> /\ ssl = 0
  /\ base = 0 /\ index = 0 /\ length = magic /\ file = FALSE /\ torn = FALSE
  /\ address = [i \in 1..NETWORK_READ_BUFFER |-> 0]
  /\ temp = <<>> /\ sha = <<>> /\ digest = <<>>
  /\ reading = FALSE /\ buffer_index = 0
-----------------------------------------------------------------------------
(* The client sends n bytes: one record, or more of the plain stream.      *)
Send(n) ==
  /\ sent + n <= MaxBytes
  /\ sent' = sent + n
  /\ kernel' = IF ~plain_mode \/ kernel = <<>> THEN Append(kernel, n)
               ELSE <<Head(kernel) + n>>
  /\ UNCHANGED <<plain_mode, ssl, localVars, partVars, dataVars>>

(* A read longer than the buffer without a temporary file: FATAL.          *)
TooBig == length > NETWORK_READ_BUFFER /\ ~file

(* epoll reports the descriptor: network_read_stream is entered.  Only     *)
(* bytes that are still in the kernel are seen by epoll.                   *)
Enter ==
  /\ ~reading
  /\ kernel # <<>>
  /\ ~TooBig
  /\ reading' = TRUE
  /\ buffer_index' = IF file THEN index ELSE 0
  /\ UNCHANGED <<streamVars, partVars, dataVars>>

(* What one read can take: SSL_read stays within a record.                 *)
Available ==
  IF ssl > 0 THEN ssl ELSE IF kernel = <<>> THEN 0 ELSE Head(kernel)

ReadCount_Asked ==   \* mutant: index grows by read_amount, not by the result
  Least(length - index, NETWORK_READ_BUFFER)

ReadCount ==
  Least(Available, Least(length - index, NETWORK_READ_BUFFER))

Take(n) ==
  IF plain_mode
  THEN /\ kernel' = IF n = Available THEN <<>> ELSE <<Available - n>>
       /\ UNCHANGED ssl
  ELSE /\ ssl' = Available - n
       /\ kernel' = IF ssl > 0 THEN kernel ELSE Tail(kernel)

(* Where a read puts its bytes: address + index - buffer_index.            *)
BufferOffset_Resumed == 0   \* mutant: every event reads to the buffer's start

BufferOffset == index - buffer_index

Filled(n) ==
  [i \in 1..NETWORK_READ_BUFFER |->
     IF i \in (BufferOffset + 1)..(BufferOffset + n)
     THEN base + index + i - BufferOffset ELSE address[i]]

(* What is written to the file and hashed after a read.                    *)
Chunk_FromStart(n) ==   \* mutant: buffer_index is not moved along
  SubSeq(Filled(n), 1, Least(index + n, NETWORK_READ_BUFFER))

Chunk(n) == SubSeq(Filled(n), 1, index + n - buffer_index)

(* One turn of the loop in network_read_stream.                            *)
ReadSome ==
  LET n == ReadCount
  IN  /\ reading
      /\ n > 0
      /\ Take(n)
      /\ address' = Filled(n)
      /\ index' = index + n
      /\ buffer_index' = index + n
      /\ IF file
         THEN /\ temp' = temp \o Chunk(n)
              /\ sha' = (IF buffer_index = 0 THEN <<>> ELSE sha) \o Chunk(n)
              /\ digest' = IF index + n = length THEN sha' ELSE digest
         ELSE UNCHANGED <<temp, sha, digest>>
      /\ torn' = (torn \/ (~file /\ buffer_index > 0))
      /\ UNCHANGED <<plain_mode, sent, base, length, file, reading>>

(* The read would block: back to the loop with the part incomplete.        *)
ReadNothing ==
  /\ reading
  /\ index < length
  /\ Available = 0
  /\ reading' = FALSE
  /\ UNCHANGED <<streamVars, partVars, dataVars, buffer_index>>

(* index = length: the callback of the part runs.                          *)
PartComplete_AfterRead ==   \* mutant: only looked at after a read
  reading /\ index = length /\ buffer_index > 0

PartComplete == reading /\ index = length

(* A callback sets what the connection waits for next.                     *)
Expect(n, isFile) ==
  /\ base' = base + length
  /\ index' = 0
  /\ length' = n /\ file' = isFile
  /\ temp' = <<>>
  /\ torn' = FALSE
-----------------------------------------------------------------------------
ReadTypeOK ==
  /\ {sent, ssl, base, index, length, buffer_index} \subseteq Nat
  /\ kernel \in Seq(Nat)
  /\ {plain_mode, file, reading, torn} \subseteq BOOLEAN
  /\ address \in [1..NETWORK_READ_BUFFER -> Nat]
  /\ {temp, sha, digest} \subseteq Seq(Nat)

(* However an upload is cut into records, reads and events, its temporary  *)
(* file holds its bytes so far, once each and in order, the digest has     *)
(* been fed the same bytes, and the digest of a complete upload is of all  *)
(* of them (network_read_stream, file branch).                             *)
UploadReceived ==
  file => /\ temp = BytesAfter(base, index)
          /\ index > 0 => sha = temp
          /\ index = length => digest = temp

(* A part read into memory is in the buffer from its start on, over as     *)
(* many events as it takes, unless two reads of one event brought it.      *)
MemoryPartReceived ==
  ~file /\ ~torn => SubSeq(address, 1, index) = BytesAfter(base, index)

(* protocol.h: what the callback finds in the buffer is what was received. *)
PartReceived ==
  ~file /\ PartComplete => SubSeq(address, 1, index) = BytesAfter(base, index)
=============================================================================
