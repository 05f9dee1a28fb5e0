------------------------------- MODULE MCWire -------------------------------
(* Small instances of Wire: a magic of one byte, buffers of a few bytes,   *)
(* and sizes around every boundary.                                        *)
EXTENDS Wire

(* Data that fits in the first buffer, and in the buffers after it.        *)
FirstRoom == NETWORK_WRITE_BUFFER - S3_PROTOCOL_MAGIC_LEN - HeaderLength
TwoBuffers == FirstRoom + NETWORK_WRITE_BUFFER

MCReplySizes ==
  [k \in {"text", "file", "list"} |->
     CASE k = "text" -> {0, FirstRoom}
       [] k = "file" -> {0, FirstRoom, FirstRoom + 1, TwoBuffers, TwoBuffers + 1}
       [] k = "list" -> {FirstRoom, FirstRoom + 1}]
=============================================================================
