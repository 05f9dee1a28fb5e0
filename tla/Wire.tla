-------------------------------- MODULE Wire --------------------------------
(***************************************************************************)
(* One connection of the event loop (protocol/protocol.c), byte by byte:   *)
(* the parts it reads (ReadStream), the callback each part runs, and the   *)
(* responses the callbacks write (ResponseWriter).  The loop has one       *)
(* thread: while a response is written nothing is read.                    *)
(*                                                                         *)
(* What a packet asks for is chosen when its headers are complete: only    *)
(* the lengths of the parts and of the response matter here.  What the     *)
(* callbacks do to files and rows is the subject of module Server.         *)
(***************************************************************************)
EXTENDS ReadStream, ResponseWriter

CONSTANTS
  HeaderLengths,  \* lengths of the header sections clients send
  DataLengths,    \* lengths of their data
  ReplySizes,     \* bytes of data of the responses, by kind
  MaxResponses    \* bound: responses over a run

ASSUME WireAssumption ==
  /\ HeaderLengths \subseteq 0..NETWORK_READ_BUFFER
  /\ S3_PROTOCOL_MAGIC_LEN <= NETWORK_READ_BUFFER
  /\ DataLengths \subseteq Nat \ {0}
  /\ ReplySizes \in [{"text", "file", "list"} -> SUBSET Nat]
  /\ MaxResponses \in Nat

VARIABLES
  callback,   \* network_completed_action, "closed", or "down": no process
  next,       \* what the connection waits for after the response
  responses   \* responses begun so far (bounded by MaxResponses)

vars == <<readVars, writerVars, callback, next, responses>>

Waits(what, n, isFile) == [callback |-> what, length |-> n, file |-> isFile]
NewPacket == Waits("magic", S3_PROTOCOL_MAGIC_LEN, FALSE)
Hungup == Waits("closed", 0, FALSE)

Open == callback \notin {"closed", "down"}
Idle == Open /\ writing = "no"

Init ==
  /\ ReadInit(S3_PROTOCOL_MAGIC_LEN)
  /\ WriterInit
  /\ callback = "magic"
  /\ next = NewPacket
  /\ responses = 0
-----------------------------------------------------------------------------
ClientSends ==
  /\ Open
  /\ \E n \in 1..MaxBytes : Send(n)
  /\ UNCHANGED <<writerVars, callback, next, responses>>

EventRead ==
  /\ Idle
  /\ Enter \/ ReadSome \/ ReadNothing
  /\ UNCHANGED <<writerVars, callback, next, responses>>

(* FATAL in network_read_stream ends the process.                          *)
ReadFatal ==
  /\ Idle
  /\ ~reading /\ kernel # <<>> /\ TooBig
  /\ callback' = "down"
  /\ UNCHANGED <<readVars, writerVars, next, responses>>

(* A callback that only sets the next part.                                *)
Go(w) ==
  /\ Expect(w.length, w.file)
  /\ reading' = FALSE
  /\ callback' = w.callback
  /\ UNCHANGED <<streamVars, buffer_index, address, sha, digest, writerVars,
                 next, responses>>

(* A callback that responds with n bytes of kind k and then waits for w.   *)
Respond(k, w) ==
  /\ responses < MaxResponses
  /\ responses' = responses + 1
  /\ reading' = FALSE
  /\ next' = w
  /\ \E n \in ReplySizes[k] : BeginResponse(k, n)
  /\ UNCHANGED <<streamVars, partVars, dataVars, buffer_index, callback>>

(* s3_connection_magic_read; an invalid magic closes the connection.       *)
MagicRead ==
  /\ Idle /\ callback = "magic" /\ PartComplete
  /\ \/ \E n \in HeaderLengths : Go(Waits("headers", n, FALSE))
     \/ Go(Hungup)

(* s3_connection_headers_read: refused or answered at once, data awaited,  *)
(* a listing, or the question whether a file may be sent.                  *)
HeadersRead ==
  /\ Idle /\ callback = "headers" /\ PartComplete
  /\ \/ Respond("text", NewPacket)
     \/ Respond("text", Hungup)
     \/ \E n \in DataLengths, f \in BOOLEAN : Respond("text", Waits("confirm", n, f))
     \/ Respond("list", NewPacket)
     \/ Respond("text", Waits("upload", S3_PROTOCOL_MAGIC_LEN, FALSE))

(* s3_connection_confirm_upload and post_process.                          *)
DataRead ==
  /\ Idle /\ callback = "confirm" /\ PartComplete
  /\ Respond("text", NewPacket) \/ Respond("text", Hungup)

(* s3_connection_upload: the client accepts the file, or does not.         *)
AcceptRead ==
  /\ Idle /\ callback = "upload" /\ PartComplete
  /\ Respond("file", NewPacket) \/ Respond("text", Hungup)

Write ==
  /\ Open
  /\ Fill \/ WriteSome \/ NextBuffer
  /\ UNCHANGED <<readVars, callback, next, responses>>

(* The NULL pointer of a listing's second buffer ends the process.         *)
WriteFatal ==
  /\ Open /\ writing = "fill" /\ ListingGone
  /\ callback' = "down"
  /\ UNCHANGED <<readVars, writerVars, next, responses>>

Responded ==
  /\ Open
  /\ EndResponse
  /\ Expect(next.length, next.file)
  /\ callback' = next.callback
  /\ UNCHANGED <<streamVars, localVars, address, sha, digest, next, responses>>

ClientReceives ==
  /\ Open
  /\ ClientReads
  /\ UNCHANGED <<readVars, callback, next, responses>>

(* The client closes.  The loop looks for a hang-up before it reads, so    *)
(* what it has sent and the server not read is lost.                       *)
HangUp ==
  /\ Idle /\ ~reading
  /\ callback' = "closed"
  /\ UNCHANGED <<readVars, writerVars, next, responses>>

Next ==
  \/ ClientSends
  \/ EventRead
  \/ ReadFatal
  \/ MagicRead
  \/ HeadersRead
  \/ DataRead
  \/ AcceptRead
  \/ Write
  \/ WriteFatal
  \/ Responded
  \/ ClientReceives
  \/ HangUp

Spec == Init /\ [][Next]_vars

(* The loop goes on with what epoll reports and with a response it has     *)
(* begun; the client reads what it is sent.  Nothing obliges the client to *)
(* send or to hang up.                                                     *)
Fairness ==
  /\ WF_vars(EventRead \/ ReadFatal \/ MagicRead \/ HeadersRead \/ DataRead
             \/ AcceptRead \/ Write \/ WriteFatal \/ Responded)
  /\ WF_vars(ClientReceives)

FairSpec == Spec /\ Fairness
-----------------------------------------------------------------------------
TypeOK ==
  /\ ReadTypeOK
  /\ callback \in {"magic", "headers", "confirm", "upload", "closed", "down"}
  /\ writing \in {"no", "fill", "flush"}

(* What a response consists of.                                            *)
WholeResponse ==
  Run("magic", 0, S3_PROTOCOL_MAGIC_LEN) \o Run("header", 0, HeaderLength)
    \o Run("data", 0, size)

(* At every moment the client has been sent a prefix of the response, so   *)
(* buffers that are used again, short writes and a writer that is called   *)
(* again neither repeat, skip nor reorder bytes; when the connection goes  *)
(* on, all of it has been sent.                                            *)
ResponseInOrder ==
  responses > 0 => /\ IsPrefix(out, WholeResponse)
                   /\ writing = "no" => out = WholeResponse

(* The client finds the end of a response from its first eight bytes: the  *)
(* lengths parsed from them are those of what follows, as long as the data *)
(* is shorter than the 40 bits s3_response_make_magic keeps.               *)
ClientFindsEnd ==
  responses > 0 /\ writing = "no" /\ size < ResponseRange =>
    LET h == Parse8(word)
    IN  Len(out) = S3_PROTOCOL_MAGIC_LEN + h.header_length + h.data_length

(* Only bytes inside the TLS library are left: epoll does not report them. *)
HeldByTLS == kernel = <<>> /\ ssl > 0

(* A part without bytes completes when epoll next reports the connection.  *)
EmptyPart == length = 0 /\ kernel = <<>>

(* A part that has been sent completely is handed to its callback, however *)
(* it was cut into records and whatever the server was writing, unless the *)
(* connection or the process ends, or the rest of it is in a TLS record    *)
(* with the part before.                                                   *)
PartsServed ==
  \A b \in 0..MaxBytes, w \in {"magic", "headers", "confirm", "upload"} :
    (base = b /\ callback = w /\ sent >= base + length)
      ~> (base > b \/ callback # w \/ HeldByTLS \/ EmptyPart
          \/ responses = MaxResponses)

(* A response that was begun is sent to its end, for a client that reads,  *)
(* and the connection waits for its next part, except for a listing of     *)
(* more than one buffer.                                                   *)
ResponsesFinish ==
  (Open /\ writing # "no")
    ~> (writing = "no" \/ (callback = "down" /\ kind = "list" /\ size > total))
=============================================================================
