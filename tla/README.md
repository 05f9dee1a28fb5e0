# A TLA+ development of the s3 server

s3 (`src/`) is a small file server in C: clients connect over TLS, send packets
whose headers name one of eight actions, and store, append to, update, list,
delete and fetch files. This directory models the server's own logic in TLA+,
checks it with TLC on small instances and proves the central invariants with
TLAPS for every instance. Paths below are relative to `src/src/`.

## The system

One thread serves everyone. `s3_connection_accept_loop_async` waits in `epoll`
(level triggered) and handles one event after the other: a new client, a
hang-up, or bytes to read. Each connection (`network_s`) says how many bytes it
waits for and which callback to run when they are there:

    magic_read -> headers_read -> confirm_upload -> upload -> post_process -> magic_read ...

`headers_read` builds a hash table of the headers, checks required attributes
and the user, chooses a temporary file name, makes folders and runs the action's
*preprocess* checks. If data is announced, the client is told to send it
(`DATA_SEND`) and the connection goes back to the loop; the data is received in a
temporary file over as many events as it takes. Only then does *postprocess*
move, append or write it. Between the two, other clients are served: this is
where most of the hard behaviour of the program lies.

| Component | Source | State | Operations | Talks to |
|---|---|---|---|---|
| event loop, connections | `protocol/protocol.c`, `networking/network.h` | `network_s` of each client: callback, index/length, request, response, temporary file, digest | accept, five callbacks, reset, abort, hang-up | everything below |
| client table | `protocol/protocol.c`, `data/hash_table.c` | hash table from descriptor to `network_s` | add on accept, get on event, remove on abort | event loop |
| actions | `protocol/actions/` | `additional_data` of the request | preprocess, writer, postprocess of create, delete, dir, login, notification, request, server, update | file manager, responses |
| request headers | `protocol/request.c`, `constants.c` | header list, header table, action | make_hash_table, attrib_get, attribs_assert, read_action | hash table |
| hash table | `data/hash_table.c` | buckets, count, capacity | add, get, remove, expand | |
| authentication | `protocol/auth.c` | user table | transaction, query, add user | database |
| file manager | `files/filemgmt.c`, `file.c`, `path.c` | counter of temporary names; files, folders, rows | exists, add, rename, remove_meta, mkdirs, append, truncate | database, file system |
| database | `database/sqlite_database.c` | the SQLite file | one query at a time | |
| network | `networking/network.c` | | read_stream, write_stream, accept | sockets, TLS |
| responses | `protocol/response.c` | writer buffer | write, write_header, make_magic, accept_status | network |
| logging, memory debugging, command line, strings, lists | `logging/`, `memdbg/`, `main.c`, `general/`, `data/linked_list.c` | | a FATAL message exits the process | |

What is hard here, and what makes each part correct:

* **Check, then wait, then use.** Existence, position and folders are checked
  when the headers come and used when the data is complete (create, update,
  append, request). Correct: stored data is never lost or torn by another
  client, folders and files stay a tree, the checked file is still there.
* **Kills.** The process can be killed between rename and insert, in the middle
  of a write, or with temporary files on disk; the counter of temporary names
  then starts again. Correct: rows have files, uploads do not mix.
* **Failures.** A query, a rename, a write to a vanished peer fails. Correct: the
  client is told, and nobody else suffers.
* **Answers.** Correct: exactly one final response to each packet, and every
  packet is answered.
* **Hash tables with one string comparison.** Correct: lookups return what was
  added for the key, through collisions, removals and growth.
* **Bytes in pieces.** Packets arrive cut into TLS records, reads and events;
  responses leave over several buffers and short writes. Correct: every part is
  received once and in order, every response is sent once and in order, and a
  part that has been sent is served.
* **Names.** A filename is expanded twice, for its row and for its path, in
  buffers that grow. Correct: both agree, and no byte is written outside.

`PROJECT.json` lists these hazards line by line, with the properties aimed at
each.

## Modules

    FileContent      bytes of a file: truncate, write at an offset, torn writes
    HashTable        hash_table.c
    HeaderTable      the header table of one request        (uses HashTable)
    RequestHeaders   make_hash_table, header by header      (EXTENDS HeaderTable)
    ClientTable      the table of connections and the descriptors  (uses HashTable)
    Server           the server                             (EXTENDS FileContent, HeaderTable)
    FileStore        what the store promises, abstractly    (EXTENDS FileContent)
    ServerStore      Server as an implementation of it      (EXTENDS Server, INSTANCE FileStore)
    ReadStream       network_read_stream, one read at a time
    PacketHeader     the eight bytes in front of a packet
    ResponseWriter   s3_response_write, its writers and network_write_stream
    Wire             one connection, byte by byte           (EXTENDS ReadStream, ResponseWriter)
    Paths            path_validate_and_expand
    ConnectionKey    the keys of the start-up banner
    MemoryDebug      the record of allocations of a DEBUG build  (uses HashTable)
    MCServer, MCRequestHeaders, MCClientTable, MCWire, MCAlgorithms,
    MCMemoryDebug                                            instances for TLC
    ServerProofs, StoreProofs, HeaderProofs, ClientTableProofs, WireProofs,
    PathsProofs, ConnectionKeyProofs, MemoryProofs           theorems

### Server

State: `conn` is the `network_s` of each client (callback, announced length,
request, temporary file number, whether it is open, bytes read, digest, and the
codes sent for the current packet); `temp_file_counter` is filemgmt.c's static
counter; `rows` is the file table (a sequence per name, as nothing keeps names
unique there); `files`, `dirs`, `temps` are the file system; `server` says
whether the process runs, waits for the end of a handshake, spins in a write
loop, or is down.

One step is one event of the loop, all of it, because a callback runs to its end
before the next event. The exception is a new client: `SSL_accept` blocks the
loop until the peer's `Handshake`, or until `HandshakeFails`. `Accept`,
`MagicRead`, `MagicInvalid`, `HeadersRead`, `ReadData`, `ReadTooBig`, `Upload`
and `HangUp` are those events; `Kill` and `Restart` are the environment. Inside `HeadersRead` and `ReadData` the operators
keep the names and the order of the C functions: `AttribsAssert`,
`AuthTransaction`, `SetupEnvironment`, `Preprocess...`, `Postprocess...`. A kill
in the middle of a callback is a disjunct at the place where it makes a
difference: after the rename and before the insert (`MoveUpload`), after part of
a write (`AppendUpload`, `PostprocessUpdate`). What a kill keeps of a temporary
file is any prefix, since stdio buffers are lost; an `exit` flushes them.

Choices of the model worth knowing:

* A name, a path, a user and a secret are model values. Which path a name is
  stored at and which folders are above it are constants (`RealOf`,
  `Ancestors`). Several names may share a path, as `a` and `/a` do in the code.
* The bytes a client means to send (`payload`) are chosen with its headers, so
  that properties can compare what arrived with what was sent. A digest is
  modelled by the bytes it is taken of, and a row by these bytes and how many of
  the digits it was given (`Hex`): 63 of the 64, because `STRING` takes the array
  for a string with a terminator.
* Header values are looked up through the table `make_hash_table` really builds
  (`Lookups`), and a lookup returns the value of the header it ends at: that of
  `updateat` can return the one of `username`, that of `secret` the value of a
  header the protocol does not know. A value is therefore a record of what it is
  when it is read as a name, a folder, a user, a secret or a length (`Values`). An
  integer has no text: the pointer may then be NULL, which `s3_auth_query` answers
  with `SERVER_ERROR_NOAUTH`, or it is compared and fails. Headers that are
  expected to be texts are texts in the runs, and `updateat` and `trim` integers.
* An unknown action makes `s3_attribs_assert` read in front of its table; both
  results are allowed.
* Each database query succeeds or fails as `DbAnswers` allows, the second one of
  a listing too: without a statement its list is NULL and the process ends, and a
  failure on the way gives a shorter listing. `PeersVanish`
  says whether a peer can be gone when a response is written. SIGPIPE is ignored
  by `main`, so such a write fails for ever.
* The size of a row passes through an `int` (`ToInt`), with `INT_RANGE` values.
* Names whose `..` lead above the files folder, that begin with `~`, or that end
  in a slash, are outside the assumption that a name has one path with fixed
  folders above it (`RealOf`): `~/x` and the absolute path of the same file in the
  home directory are one name with two paths. `Paths` says what the code makes of
  them.
* A directory has the size `DIR_SIZE`, which `s3_preprocess_update` compares a
  position with as it does for a file.
* `mkdir` of the folders of one path is one step: a kill between two of them
  leaves fewer folders than a kill after them.

### HashTable

`HashTable` keeps the buckets, tombstones, the count that removal does not lower,
growth by rehashing, and `hash_compare` as it is: it goes on over tombstones and
keys of another length, and stops at free buckets and at *every* key of the same
length. `HeaderTable` gives it the real hash values of the nine attribute names
(modulo 64, computed with the C functions); `ClientTable` computes `hash_string` of a
descriptor, whose mask with a capacity of 100 leaves four classes of small
descriptors: two descriptors four apart have the same first bucket. `ClientTable`
therefore also keeps which descriptors are open: sockets, temporary files, and the
one or two files each `file_append` leaves open. The kernel gives out the lowest
free one.

`Server` takes it that events reach their connection. `ClientTable` says when they
do: until two connections that are open at once have descriptors with one first
bucket (`met`, run `clients`). In a table of 100 that takes five idle clients
(descriptors 6 to 10), three of which two upload (6, 8, 10 with temporary files 7
and 9), or, for two clients, the descriptors an append has left open (run
`after_append`). The code has no limit on clients.

What goes astray then is not only an event. `s3_connection_abort` removes the
record that a lookup of the connection's own descriptor finds, which can be
another one's. Thirteen idle clients on 6 to 18 are an example: 6, 10 and 14 hang
up and leave tombstones in the buckets 99, 0 and 1; a hang-up on 18 probes on to
bucket 2 and is handed to 16, which is closed and freed; its removal starts at
bucket 97 and takes the record of 8. The table then leads to a freed `network_s`.
What the program does from there on is undefined, so `Next` stops in such states;
they are reached, and `EventsAreTaken` still counts their records.

### FileStore and ServerStore

`FileStore` knows only the stored files and the upload each writer has announced.
`Announce` and `Settle` begin and end an upload; when it is settled the file
either stays or becomes what the whole upload makes of it: replaced, extended at
the end it has *now*, or patched at the announced position. `Crash` loses all
pending uploads and may leave one of them partly written, if it extends or
patches a file, never one that replaces it. Uploads without data are settled at
once.

`ServerStore` maps the server to it. `files` is itself; an upload is pending
while its connection waits in `confirm_upload` with data still to come, and its
kind is what the request recorded in preprocess. The mapping hides temporary
files, rows, buffers, codes and the rest of the connection, and `StoreSpec` says
that none of them can make a file change in another way.

### Wire

`Server` receives a header section in one step and sends a response in one step.
`Wire` is one connection without that: bytes are numbered, TLS records or a plain
stream queue in the kernel, and `ReadSome` is one turn of the loop in
`network_read_stream`, so bytes can arrive between two turns. epoll sees only
what is in the kernel; the part of a record that `SSL_read` has not handed out is
kept in `ssl`. Responses are filled and written buffer by buffer into a socket of
limited room, with three kinds of writers: texts, stored files, listings. What a
callback decides is nondeterministic here: the lengths matter, not the files.
There is one thread, so nothing is read while a response is written.

`torn` records that a part was read into memory with two reads of one event. This
is the case in which the code puts the second piece over the first (run
`split_header`); `MemoryPartReceived` shows that it is the only one.

### Paths, ConnectionKey, MemoryDebug

`Paths` runs the two expansions of a filename component by component, first the
files folder, which only one of them has in front, then the filename in both.
Each keeps what the code keeps: the write index, the stack of positions a `..`
returns to, the capacity of the buffer. A leading `~` is the home directory and a
slash in the key, however the name goes on (`~x` is `x` in the home directory), and
an ordinary character behind the folder: the first component of the path is then
the name `Tilde` gives. Its properties compare the result with a
definition that looks at the filename as a whole: a directory stays unless some
later `..` leaves it.

`PacketHeader` treats the eight bytes of a packet as one number; masks and
shifts are remainders and quotients by powers of two.

`ConnectionKey` runs `rle_string` digit by digit, and its property decodes what
was written. The buffer of digits has no terminator, so any characters may follow
from the memory behind it, up to the first zero.

`MemoryDebug` uses `HashTable` with addresses as keys. All keys have length 8, so
a lookup takes the first occupied bucket for its own; counts stay right
nevertheless, because every free takes some record away, until the table grows.
Growth rehashes keys that point to dead stack memory: a nondeterministic choice
of buckets (`Scattered`).

## Runs

Passing runs:

| Run | Properties | Instance | Why it is enough |
|---|---|---|---|
| `files` | TypeOK, TempNamesDistinct, TempHoldsUpload, TreeOK, RowsBacked, PendingFilesExist, PathsPersist | 2 clients, names `a` and `a/b`, 4 packets, 2 bytes, 1 kill | two overlapping uploads, each after an earlier one that left a file or a row, with a kill at any point; the nested names make files and folders compete |
| `uploads` | StoreSpec, NewRowsDescribeFile, AcknowledgedCreateStored, AppendKeepsContent | 1 path, two byte values, 3 packets, vanished peers, 1 kill, ints of 4 values | one packet creates the file, two race on it; content, digest and size tell two uploads apart; a size of 2 does not fit in the int |
| `protocol` | OneFinalAnswer, PendingChangesAuthentic, PacketsAnswered | a request of every action and every kind of wrong headers, with fairness, 3 packets, failing queries, 1 kill | every path through the callbacks, with both clients in the middle of a packet, or one of them in a handshake |
| `lookups` | LoneLookupsExact, LookupsExact, LookupsAnswer | all orders of nine attributes and six others | 14 keys pass the limit of 13, so the table grows; two of the others push `action` into the bucket of `secret`, one has the length of three attributes, the rest have lengths of their own |
| `clients` | EventsAreTaken, ServedUntilMet | 3 clients, 7 accepts, 1 append, a table of 5 buckets | the table grows at the fifth accept; descriptors collide before and after it, with temporary files, tombstones and leaked descriptors in every order, and aborts take wrong records |
| `wire` | TypeOK, UploadReceived, MemoryPartReceived, ResponseInOrder, ClientFindsEnd, PartsServed, ResponsesFinish | read buffer of 2 bytes, 6 bytes sent, write buffer of 4, socket of 2, 2 responses, with fairness | data and responses one byte below, at and above every buffer boundary, files of three buffers, a packet in pieces or in one record with the next |
| `algorithms` | Normalised, StoredUnderKey, WritesInMemory, KeysGiveAddress | names of up to 6 components behind nothing, `/` or `~`, buffer of 4 bytes; addresses of up to 4 bytes of 2 bits, up to 3 characters behind them, runs of at most 3 | the buffer grows several times and is met at every fill level; runs end at the limit, before it and at the end |
| `memory` | LostIsListed | 4 addresses, 5 buckets, 6 records | three addresses share a bucket and the fourth has the next one; the fifth record makes the table grow |

Runs that show a disagreement between the code and what its comments say
(`findings` in `PROJECT.json` quotes them): `create_race`, `vanished_peer`,
`after_append`, `split_header`.

Bounds: `MaxPackets`, `MaxLength`, `MaxKills` of `Server`, `MaxClients`,
`MaxAccepts`, `MaxAppends` of `ClientTable`, `MaxBytes` and `MaxResponses` of
`Wire`, `MaxComponents`, `MaxAddress`, `MaxBehind` and `MaxAdds` are guards of the
actions that count, or bound the inputs. Sizes of the program are smaller in the
instances: `TABLE_SIZE` is 100 in the code and in `after_append`, and 5 in
`clients`, where 5 makes collisions and growth happen with three clients;
`CHARACTERS` is 255 in the code and 3 here, one more than the digits; `DIR_SIZE` is
1 byte. Deadlock is checked except where the system really stops or the
bound ends it: a server that spins in a write with no kill left, a client table
with no accept left, a wire with no byte left, the algorithms and the records.
In the `Server` runs `NETWORK_READ_BUFFER` is 1 byte, so that data of 2 bytes is
over it; `DIRLIST_ROWS` is 1 row.

Fairness of `Server` (`FairSpec`): weak fairness for the end of a handshake, and
strong fairness, per client, for serving it. The first says that a peer ends its
handshake or drops it; without it `SSL_accept` holds up everybody. The second
says that a client goes on with a packet it has begun. It is strong because
accepting another client disables the step for a while; the loop is level
triggered and handles every ready descriptor of a round, so a descriptor that
is ready each time is reached. Nothing obliges a client to connect, to begin a
packet, or to hang up. Under the same fairness the property fails once peers may
vanish (`vanished_peer`).

Fairness of `Wire`: the loop goes on with what epoll reports and with a response
it has begun, and the client reads what it is sent. Nothing obliges the client to
send.

Each property of a passing run has a mutant (`mutants` in `PROJECT.json`): a
plausible bug, defined next to the definition it replaces and named after it,
that TLC finds.

### What the properties leave out

Some exceptions in the properties are behaviours of the code that a reader
should know of. The models contain them.

* An update whose position was checked before another update trimmed the file
  writes behind the end: a hole appears, and the answer is `PACKET_OK`
  (action-update.c:49). `FileStore` allows it.
* A create whose path is a folder is answered `PACKET_OK` although `rename`
  failed and the data is gone: -1 is compared with `FAILED`, which is 1
  (filemgmt.c:204). `AcknowledgedCreateStored` excepts directories.
* `updateat` and `username` share a bucket and a length, so the second of them
  is skipped and both lookups return the first one's value (protocol.c:544).
  `LookupsExact` says so.
* A header the protocol does not know can be taken for an attribute of its length,
  or make one be: two headers in the buckets 5 and 6 push `action` to 7, the bucket
  of `secret`, and a lookup of `secret` then returns the action. `LookupsExact` is
  about lists without such headers; `LoneLookupsExact` and `LookupsAnswer` say what
  is left with them. After the table has grown, an attribute can also be missed.
* A row has 63 of the 64 digits of its digest (action-create.c:34);
  `NewRowsDescribeFile` says so.
* Once two open connections share a first bucket, events and aborts can hit other
  connections (see HashTable); `ServedUntilMet` ends there, and `EventsAreTaken` is
  about the table until an abort has left a freed connection in it.
* An append while the query fails replaces the file (filemgmt.c:168).
  `FileStore` allows it; `AppendKeepsContent` is checked with queries that work.
* A create without data stores the digest of an earlier upload
  (network.h:51); `NewRowsDescribeFile` is about uploads with data.
* Login takes data of any length but has no temporary file, so more than 4K of
  it is accepted and then ends the process (`ReadTooBig`, network.c:300).
* A listing of more than one buffer ends the process (action-dirlist.c:31);
  `ResponsesFinish` excepts it.
* Bytes that TLS has taken from the kernel with an earlier part, and a header
  section without bytes, wait until the client sends more; `PartsServed` excepts
  both.
* A filename that ends in a slash can have its terminator written one byte
  behind its buffer (path.c:115); `WritesInMemory` excepts it. One whose `..`
  lead above its start has a key that ignores them and a path that does not, and
  one that begins with `~` has the home directory in its key only;
  `StoredUnderKey` excepts both.
* The connection keys can go on behind the address with what follows in memory;
  `KeysGiveAddress` says only that they begin with it.
* Data of 2^40 bytes or more does not fit the length in front of a response
  (response.c:138); `ClientFindsEnd` excepts it.

## Proofs

Every theorem holds for all values of the constants that the named `ASSUME`s of
its module, and the hypotheses it states, allow. For the server these are `ZeroAssumption`, `OthersAssumption`
and `ServerAssumption` (a path is not above itself; folders above a folder above
a path are above the path; constants have their types), with arbitrary clients,
names, paths, requests and bounds. They do assume what the module does: one event
at a time, and events that reach their connection.

`ServerProofs`: `IInv` is inductive,

    IInv == TypeOK /\ PhaseOK /\ TempBound /\ TempNamesDistinct /\ TempHoldsUpload

`TempNamesDistinct` is not inductive alone: a new name is fresh only because no
connection has a number above the counter (`TempBound`), and a restart may reset
the counter only because no connection outlives the process (first part of
`PhaseOK`). `TempHoldsUpload` needs the names to be distinct, since a write, an
unlink or a truncating open for one client must not touch the file of another,
and the rest of `PhaseOK`: which callbacks have a temporary file, and that the
index is at most the length. Results: `TypeCorrect`, `TempNamesAreDistinct`,
`TempFilesHoldUploads`.

`StoreProofs`: `StoreInv`, relative to `IInv`, says that files and folders form
a tree, rows are backed, and every waiting connection *relies* only on what is
there: its file (update, request), and the folders of its upload (create,
update). The last part is what makes the tree inductive: when the data of a
create is complete, nobody looks at the folders again. That it stays true rests
on `PathsPersist`, proved first without any invariant. Results:
`PathsNeverVanish`, `TreeStaysTree`, `RowsAreBacked`, `PendingFilesStay`.

Also there: `StoreRefined == Spec => StoreSpec`. Every step of the server is a step of `FileStore` or a stutter under the mapping. `HeadersRead` that ends
in `AwaitData` announces the upload (or stutters, for other actions);
`HeadersRead` of an upload without data settles it at once, which needs bounds on
the position from preprocess; `ReadData` of a chunk that is not the last
stutters; the last chunk settles, and there `TempHoldsUpload` is what makes the
bytes moved or appended the bytes announced; `HangUp` settles without a change;
`Kill`, and an exit or a kill inside a handler, is a `Crash`, in which only
`AppendUpload` and `PostprocessUpdate` tear a file. The proof rests on `IInv` for
types and temporary files and needs nothing about rows, folders or the database,
so it holds with failing queries too.

The lemmas about writes, truncation and directories that both modules use are at
the beginning of `ServerProofs`.

The second half of `ServerProofs`: on top of `IInv`, `ProtocolInv` says for each callback which
responses the current packet has had (`DATA_SEND` exactly in `confirm_upload`,
`DATA_MORE` exactly in `upload`, none while headers are awaited) and what was
checked before a connection came to wait for data: a create or an update is from
an authentic user, and only a create can be an append. `OneFinalAnswer` is not
inductive without the first part, because nothing in a final answer looks at what
was sent before, and `PendingChangesAuthentic` is the second. While the loop hangs
in a write the responses of that connection are open, which is why the first part
excepts it. Results: `PacketsGetOneAnswer`, `ChangesAreAuthentic`, and three about
steps, which use `TempHoldsUpload` to identify the bytes that are moved:
`RowsDescribeTheirFile` (for the 63 digits a row is given),
`AcknowledgedMeansStored`, `AppendsKeepContent`. The last one is proved for `DbAnswers = {TRUE}` and is false without: when the query for
the file fails, `s3_postprocess_create` takes the file for new and renames the
upload over it.

`WireProofs`, from `ReadStreamAssumption`, `PacketHeaderAssumption`,
`ResponseWriterAssumption` and `WireAssumption` (header sections fit in the read
buffer; sizes are natural numbers). `ReadInv` adds to the properties what
relates the two indices of `network_read_stream` (`PartInv`): `index`, which
survives an event, is at most the length, a part kept in memory fits in the
buffer once it is begun, and the local `buffer_index` equals `index`, or is 0 on
a new event for a part in memory. Without the last fact a read could put bytes
anywhere in the buffer. `WriterInv` says that while a response is written the
buffer holds the piece of it that starts at `Begun`, that everything before that
piece and the flushed part of it are out, and that the eight bytes announce this
response's lengths once the first call of the writer has told them. Results:
`WireTypeCorrect`, `UploadsArrive`, `MemoryPartsArrive`, `ResponsesInOrder`,
`EndsAreFound`; the last rests on the arithmetic of `MakeMagic` and `Parse8`, so
it holds for every header of at most one byte of length and every data length of
at most five.

`MemoryProofs`, from `MemoryAssumption`, for any addresses, hash values and
number of buckets. That each allocation in use has *its* record is false, as a
lookup takes another address's record for its own. `RecordInv` says what is true:
as long as the table has not grown, the addresses in use can be paired with
records, each address reaching its own over buckets that are not free (`Paired`).
A removal takes the first record on the way of an address; if that one is paired
with another address, that address gets the record that is left over, which it
reaches as well, because it lies further along the same chain. A removal therefore
never misses. Insertion needs a free bucket: the number of used buckets is at most
the count, which stays under 85 percent. Result: `LostMemoryIsListed`. After
growing only the inequality remains.

`PathsProofs`, from `PathsAssumption`, about `PathSpec`. `PathInv` consists of
`WalkInv` for both expansions (`FitsInv`: the index and all positions a `..` may
return to are within the capacity, as it never shrinks; `StackInv`: one position
per directory, or one more for the start), of a part that says that the path is
the sequence of the directories that stay so far (`KeptInv`) and counts, behind
each of them, names minus `..` as the number of directories that stay there, and
of a part (`BelowInv`) that says that the stored path is the files folder
followed by the key as long as no `..` leads above the start and the name does not
begin with `~`. The second part
needs the counts, because a later `..` removes the last directory that stays and
no other. Results: `PathsStayInMemory`, `KeysAreNormal`,
`FilesAreUnderTheirKey`.

`HeaderProofs`, from `OthersAssumption` alone: any headers the protocol does not
know, with any hash values and lengths, lists of any length, order and repetition,
and any number of expansions. There are two invariants.

* `AttribInv`, for lists of attributes only: every attribute sent has the first
  bucket of its probe occupied, by itself or by its twin (`updateat`, `username`),
  and nothing else is stored (`Kept`). The nine hash values differ in their last
  four bits up to the twins, which every capacity keeps, so copying into the larger
  table displaces nothing; that is an induction over the buckets copied. Result:
  `LookupsAreExact`.
* `HeaderInv`, for all lists: every key in the table was sent and its own probe
  comes to it over occupied buckets (`Sound`); a header alone in its length is
  stored, and before the table grows a lookup of any header sent finds one of its
  length (`Follows`). Probes end because the count, which bounds the occupied
  buckets, stays below the capacity. A header is skipped only if one of its length
  was found, which is what makes the second part inductive. Results:
  `LoneLookupsAreExact`, `LookupsDoAnswer`.

`ClientTableProofs`, from `ClientTableAssumption` and the hypothesis `AndBound`: the
`&` of C with a mask gives at most the mask. `MCClientTable` checks that the `&` of
`Bitwise` does, for operands below 64. Nothing else is assumed about the hash, the
capacity or the number of clients. `ClientInv` says that the table is below its fill
limit, has as many records as there are open connections, no two of one key, and
that connections and records can be *paired*, each connection reaching its record
over buckets that are not free (`Fits`). It is the argument of `MemoryProofs`: a
removal takes the first record on the way of a descriptor, and whoever was paired
with it gets the one left over, which is further along the same chain. Before an
expansion nobody may have lost a record to a freed connection, which the guard of
`Next` says; then each key is an open connection's, and copying pairs them anew.
Result: `EventsFindOpenConnections`. As long as `met` is false, `ClientInv` also
says that every connection is alone in the first bucket of its descriptor (`Own`),
which an expansion keeps because `met` is about the table after it. Result:
`EventsReachOwnersUntilMet`.

`ConnectionKeyProofs`, from `ConnectionKeyAssumption`, about `KeySpec`. `KeyInv`
says that the runs written so far, decoded, followed by as many copies of `last` as
`counter` says, are the digits read (`LoopInv`); that a run is being counted once a
digit was read (`CounterInv`), without which the run a limit ends could be empty or
have no digit; and, after `ShowKeys`, that the runs decode to all the digits.
`RunsAppend`, that a run appended decodes to its digits appended, is proved by
induction over the runs. Result: `KeysLeadToServer`.

Recursive functions (`Expand`, `Runs`) are unfolded in `HeaderProofs`, `ClientTableProofs` and `ConnectionKeyProofs` with
`Induction`, a set-theoretic induction over the natural numbers derived from the
well-foundedness of `<`: it shows first that a function with the recursive equation
exists, then what it computes.

Only model-checked: the liveness properties `PacketsAnswered`, `PartsServed` and
`ResponsesFinish`, as fairness is outside the prover's reach.

## Not modelled

* Option parsing, interactive setup, adding users, certificates and the binding
  of the listener (`main.c`, `network.c` up to line 242): sequential I/O that is
  over before the first client connects.
* Strings and lists (`general/string.c`, `data/linked_list.c`): allocation,
  copying and formatting; the list is only used for the histories of debug
  records, which nothing reads but the listing.
* Logging, except that FATAL exits: output without decisions.
* The conversion of rows to the bytes of a listing, and the serialized headers:
  the ssbs serializer is a submodule that is not part of the sources. SQLite, TLS
  and the kernel appear as what they do to the server.
* A temporary file that cannot be opened, a full disk, and descriptors that run
  out: `file_append` leaks them, but the limit is far beyond what the instances
  reach.
* `download.c`, which nothing calls.

## Plan

Done: all modules above, the refinement of `FileStore`, and a theorem for every
safety property of a passing run. Left:

1. `ClientTable` composed with the connection life cycle of `Server`, so that the
   server's theorems also say what holds when events go astray.
2. A temporary file that cannot be opened, as descriptors run out.
