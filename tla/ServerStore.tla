---------------------------- MODULE ServerStore ----------------------------
(* The server as an implementation of FileStore: an upload is pending from *)
(* the DATA_SEND that asks for its data until its last byte is read.       *)
EXTENDS Server

UploadOf(k) ==
  [kind |-> IF k.request.action = "update" THEN "patch"
            ELSE IF k.request.append THEN "extend" ELSE "replace",
   path |-> RealOf[k.request.name],
   at |-> k.request.at,
   trim |-> k.request.trim,
   payload |-> k.request.payload]

Awaits(k) ==
  /\ k.callback = "confirm"
  /\ k.request.action \in {"create", "update"}
  /\ k.index < k.length

PendingOf(k) == IF Awaits(k) THEN UploadOf(k) ELSE [kind |-> "none"]

Pending == [c \in Clients |-> PendingOf(conn[c])]

Store == INSTANCE FileStore
           WITH Writers <- Clients, Paths <- Reals, pending <- Pending

(* The stored files change as FileStore says, through every interleaving   *)
(* of the events of several clients, failed queries, vanished peers and    *)
(* kills: only when the whole upload of one client has been received, to   *)
(* what that upload makes of the file, and torn only by a kill during an   *)
(* append or an update.                                                    *)
StoreSpec == Store!Spec
=============================================================================
