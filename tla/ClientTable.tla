---------------------------- MODULE ClientTable ----------------------------
(***************************************************************************)
(* How the event loop of protocol.c finds the connection of an event: a    *)
(* hash table from the descriptor of a connection's socket to its          *)
(* network_s.  Which descriptors meet in the table depends on which ones   *)
(* the process has open, so the model also keeps the temporary files and   *)
(* the files that file_append opens and never closes.                      *)
(*                                                                         *)
(* A connection is identified by its descriptor (network_s.client).  The   *)
(* callbacks themselves are the subject of module Server, which takes it   *)
(* that every event reaches its own connection.                            *)
(*                                                                         *)
(* hash_compare takes every descriptor for the one it looks for, so an     *)
(* event can be handed to another connection, and an abort can remove the  *)
(* record of another one and leave the freed network_s in the table.  What *)
(* the program does after that is undefined and not followed here.         *)
(***************************************************************************)
EXTENDS Naturals, FiniteSets, FiniteSetsExt

CONSTANTS TABLE_SIZE,   \* buckets of the table at the start (100 in the code)
          FirstFd,      \* the lowest descriptor free when the loop starts
          MaxClients,   \* bound: connections open at once
          MaxAccepts,   \* bound: connections over a run
          MaxAppends,   \* bound: calls of file_append over a run
          BitAnd(_, _)  \* the operator & of C

ASSUME ClientTableAssumption ==
  /\ {TABLE_SIZE, FirstFd} \subseteq Nat \ {0}
  /\ {MaxClients, MaxAccepts, MaxAppends} \subseteq Nat
  /\ FirstFd + 2 * MaxClients + 2 * MaxAppends < 128

(* hash_string of the four bytes of a descriptor: the last one is left     *)
(* out, the second and third are 0.  The mask of a capacity that is no     *)
(* power of two keeps only some of the bits.                               *)
HashHash(fd, modulus) ==
  BitAnd(5381 * 33 * 33 * 33 + fd * 33 * 33, modulus - 1)

KeyLength(fd) == 4

Table == INSTANCE HashTable WITH Hash <- HashHash

VARIABLES table,     \* protocol.client_table
          temporary, \* per open connection, the descriptor of its temporary
                     \* file, 0 if there is none
          leaked,    \* descriptors file_append left open
          accepts,   \* connections so far (bounded by MaxAccepts)
          appends,   \* calls of file_append so far (bounded by MaxAppends)
          met        \* history: have two connections that were open at once
                     \* had one first bucket?  Nothing depends on it.

vars == <<table, temporary, leaked, accepts, appends, met>>

Open == DOMAIN temporary

Used == Open \cup leaked \cup {temporary[fd] : fd \in Open}

(* The kernel gives out the lowest descriptors that are free.              *)
Free == (FirstFd..(FirstFd + Cardinality(Used) + 2)) \ Used

Lowest == Min(Free)

SecondLowest == Min(Free \ {Lowest})

Init ==
  /\ table = Table!Alloc(TABLE_SIZE)
  /\ temporary = [fd \in {} |-> 0]
  /\ leaked = {}
  /\ accepts = 0
  /\ appends = 0
  /\ met = FALSE

Held == {s \in DOMAIN table.memory : table.memory[s].occupied = 1}

Connections == {table.memory[s].value : s \in Held}

(* The connection an event on descriptor fd is handed to.                  *)
Dispatched(fd) == Table!Get(table, fd).value

(* Do two of these descriptors have one first bucket in table t?           *)
Meet(t, fds) ==
  \E x, y \in fds : x # y /\ Table!Slot(t, x, 0) = Table!Slot(t, y, 0)

Accept ==
  /\ accepts < MaxAccepts
  /\ Cardinality(Open) < MaxClients
  /\ accepts' = accepts + 1
  /\ temporary' = [fd \in Open \cup {Lowest} |->
                     IF fd = Lowest THEN 0 ELSE temporary[fd]]
  /\ table' = Table!Add(table, Lowest, Lowest)
  /\ met' = (met \/ Meet(table', Open'))
  /\ UNCHANGED <<leaked, appends>>

(* The headers of an upload: s3_connection_headers_read opens the          *)
(* temporary file of the connection it is called for.                      *)
OpenTemporary(fd) ==
  LET network == Dispatched(fd)
  IN  /\ temporary[network] = 0
      /\ temporary' = [temporary EXCEPT ![network] = Lowest]
      /\ UNCHANGED <<table, leaked, accepts, appends, met>>

(* The end of an upload: s3_connection_reset_new_packet closes the         *)
(* temporary file.                                                         *)
CloseTemporary(fd) ==
  LET network == Dispatched(fd)
  IN  /\ temporary[network] # 0
      /\ temporary' = [temporary EXCEPT ![network] = 0]
      /\ UNCHANGED <<table, leaked, accepts, appends, met>>

(* What file_append leaves open: the temporary file and the stored one,    *)
(* or the temporary file alone when the stored one cannot be opened.       *)
Leaks == {{Lowest}, {Lowest, SecondLowest}}

(* The end of an append or an update.                                      *)
FileAppend(fd) ==
  LET network == Dispatched(fd)
  IN  /\ temporary[network] # 0
      /\ appends < MaxAppends
      /\ appends' = appends + 1
      /\ \E opened \in Leaks : leaked' = leaked \cup opened
      /\ temporary' = [temporary EXCEPT ![network] = 0]
      /\ UNCHANGED <<table, accepts, met>>

(* s3_connection_reset_new_packet and s3_connection_abort.                 *)
Aborted(network) ==
  /\ temporary' = [other \in Open \ {network} |-> temporary[other]]
  /\ table' = Table!Remove(table, network)
  /\ UNCHANGED <<accepts, met>>

(* A hang-up, or a callback that fails.                                    *)
Abort(fd) ==
  /\ Aborted(Dispatched(fd))
  /\ UNCHANGED <<leaked, appends>>

(* An update whose stored file cannot be opened or written: the error      *)
(* closes the connection.                                                  *)
UpdateFails(fd) ==
  LET network == Dispatched(fd)
  IN  /\ temporary[network] # 0
      /\ appends < MaxAppends
      /\ appends' = appends + 1
      /\ \E opened \in Leaks : leaked' = leaked \cup opened
      /\ Aborted(network)

Event(fd) ==
  \/ OpenTemporary(fd)
  \/ CloseTemporary(fd)
  \/ FileAppend(fd)
  \/ Abort(fd)
  \/ UpdateFails(fd)

(* Steps are taken as long as the table leads to no freed connection.      *)
Next ==
  /\ Connections \subseteq Open
  /\ \/ Accept
     \/ \E fd \in Open : Event(fd)

Spec == Init /\ [][Next]_vars
-----------------------------------------------------------------------------
(* Whatever the number of clients, and although lookups and removals take  *)
(* other connections' records for their own: every abort takes exactly one *)
(* record out of the table, and as long as it was the right one each time  *)
(* every event on an open connection is handed to an open connection,      *)
(* never to NULL or to a freed one.                                        *)
EventsAreTaken ==
  /\ Cardinality(Held) = Cardinality(Open)
  /\ Connections \subseteq Open =>
       \A fd \in Open : /\ Table!Get(table, fd).occupied = 1
                        /\ Dispatched(fd) \in Open

(* hash_table_get returns the value that was added for the key: an event   *)
(* is handed to the connection whose descriptor it is about, so no client  *)
(* is served, reset or closed for another one's event.                     *)
EventsReachOwner ==
  \A fd \in Open :
    LET bucket == Table!Get(table, fd)
    IN  bucket.occupied = 1 /\ bucket.value = fd

(* Until two connections that are open at once have had one first bucket,  *)
(* each event reaches its own connection and each abort removes its own    *)
(* record: over any number of connections, in buckets that others used and *)
(* left, and after the table has grown.                                    *)
ServedUntilMet == ~met => EventsReachOwner /\ Connections = Open
=============================================================================
