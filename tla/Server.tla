------------------------------- MODULE Server -------------------------------
(***************************************************************************)
(* The s3 server: one thread that serves every client from an epoll loop   *)
(* (src/src/protocol/protocol.c), the state machine of callbacks each      *)
(* connection goes through (magic, headers, confirm_upload, upload,        *)
(* post_process), the eight actions, authentication, the temporary files   *)
(* uploads are received in, the stored files and the rows of the file      *)
(* table in the database.                                                  *)
(*                                                                         *)
(* One step is the handling of one epoll event: the loop is single         *)
(* threaded, so a callback runs to its end before another connection is    *)
(* served.  Clients interleave between the events of a request.  The       *)
(* process can be killed at any moment, also between the file system and   *)
(* database calls of one callback; what was done so far stays on disk.     *)
(*                                                                         *)
(* Every event reaches the connection of its descriptor here.  Module      *)
(* ClientTable is about when it does: until two connections that are open  *)
(* at once have descriptors with one first bucket in the table.            *)
(***************************************************************************)
EXTENDS Integers, FiniteSets, SequencesExt, FileContent, HeaderTable

CONSTANTS
  Clients,              \* connections the server can hold at once
  Names,                \* expanded file names, the keys of the file table
  NoName,               \* an absent or an empty filename attribute
  Reals,                \* paths below the files/ folder
  RealOf,               \* the path a name is stored at
  Ancestors,            \* the directories above a path, below files/
  Folders, Listed,      \* dirname values and the names LIKE selects for each
  Users, Secrets,       \* usernames and passphrases
  NoText,               \* in place of either: the header is an integer
  Accounts,             \* the user/secret pairs of the auth table
  Requests,             \* the header sections clients send
  NETWORK_READ_BUFFER,  \* bytes an in-memory read can hold
  FILE_BUFFER_LENGTH,   \* limit on a notification's data
  INT_RANGE,            \* values of a C int
  DIRLIST_ROWS,         \* rows that fit in one response buffer
  DIR_SIZE,             \* st_size of a directory
  DbAnswers,            \* can a query fail (a locked database)?
  PeersVanish,          \* can a peer be gone when a response is written?
  MaxLength,            \* bound: bytes a request announces
  MaxPackets,           \* bound: packets over a run
  MaxKills              \* bound: times the process is killed

Actions == {"create", "delete", "dir", "login", "notification", "request",
            "server", "update"}

(* The value of a header, read as each of the things a lookup may want: a  *)
(* lookup can end at another header than the one it is for.  length is     *)
(* value_length, which holds the value itself if it is an integer.         *)
Values ==
  [name : Names \cup {NoName}, folder : Folders, user : Users \cup {NoText},
   secret : Secrets \cup {NoText}, length : Nat]

(* Header sections: the order of the keys, and a value for each.  action   *)
(* is the entry of actions[] the first value matches, "invalid" if none.   *)
RequestRecords ==
  [keys : Seq(Keys), action : Actions \cup {"invalid"},
   value : [Keys -> Values]]

ASSUME ServerAssumption ==
  /\ IsFiniteSet(Clients)
  /\ NoName \notin Names
  /\ RealOf \in [Names -> Reals]
  /\ Ancestors \in [Reals -> SUBSET Reals]
  /\ \A r \in Reals : /\ r \notin Ancestors[r]
                      /\ \A d \in Ancestors[r] : Ancestors[d] \subseteq Ancestors[r]
  /\ Listed \in [Folders -> SUBSET Names]
  /\ NoText \notin Users \cup Secrets
  /\ Accounts \subseteq Users \X Secrets
  /\ Requests \subseteq RequestRecords
  /\ DbAnswers \in {{TRUE}, BOOLEAN}
  /\ PeersVanish \in BOOLEAN
  /\ {NETWORK_READ_BUFFER, FILE_BUFFER_LENGTH, DIRLIST_ROWS, DIR_SIZE,
      MaxLength, MaxPackets, MaxKills} \subseteq Nat
  /\ INT_RANGE \in Nat \ {0}

VARIABLES
  server,             \* "running", "accepting", "spinning" in a write, "down"
  conn,               \* per client, the network_s of its connection
  temp_file_counter,  \* the static counter of filemgmt.c
  rows,               \* the file table: the rows stored under each name
  files,              \* the stored files, by path
  dirs,               \* the directories below files/
  temps,              \* the temporary files, by number
  packets,            \* packets begun so far (bounded by MaxPackets)
  kills               \* kills so far (bounded by MaxKills)

disk == <<rows, files, dirs, temps>>

vars == <<server, conn, temp_file_counter, rows, files, dirs, temps,
          packets, kills>>
-----------------------------------------------------------------------------
(* Response codes.  Those above S3_RESPONSE_ERRORS close the connection.   *)
Warnings == {"MISSING_ATTRIBS", "ATTRIB_VALUE_INVALID", "FILE_EXISTS_ALREADY",
             "FILE_NOT_FOUND", "FILE_UPDATE_OUTOFBOUNDS", "FOLDER_NOT_FOUND",
             "NOTIFY_TOOBIG", "UNEXPECTED_DATA_FROM_CLIENT",
             "MIX_AUTH_ERROR", "SERVER_ERROR_NOAUTH", "FAILED_AUTHENTICATION"}

Errors == {"SETUP_ENVIRONMENT_FAILED", "SERVER_INTERNAL_ERROR",
           "SERVER_FILE_ERROR", "NETWORK_ERROR_WRITE"}

Interim == {"DATA_SEND", "DATA_MORE"}

Final == {"PACKET_OK", "DATA_READY"} \cup Warnings \cup Errors

(* The request as headers_read and preprocess leave it: the action, the    *)
(* file name, the append flag or the update position and trim flag of      *)
(* additional_data, and the user that authenticated.  payload is the data  *)
(* the client means to send after the headers.                             *)
NoRequest == [action |-> "none", name |-> NoName, append |-> FALSE, at |-> 0,
              trim |-> FALSE, authentic |-> FALSE, payload |-> <<>>]

(* network_s: the callback to run when index reaches length, the announced *)
(* data length, the number in the temporary file's name (0: none yet),     *)
(* whether that file is open, the digest of the last upload, and the codes *)
(* sent in answer to the current packet.                                   *)
Between(callback, sha, out) ==
  [callback |-> callback, length |-> 0, request |-> NoRequest, temp |-> 0,
   open |-> FALSE, index |-> 0, sha |-> sha, out |-> out]

Closed == Between("closed", <<>>, <<>>)

Fresh == Between("magic", <<>>, <<>>)

AllClosed == [c \in Clients |-> Closed]

(* What s3_connection_post_process leaves on the wire for a final code:    *)
(* data that was sent is not followed by a PACKET_OK.                      *)
FinalResponse_OkAfterData(code) ==   \* mutant: no test for DATA_READY
  IF code = "DATA_READY" THEN <<code, "PACKET_OK">> ELSE <<code>>

FinalResponse(code) == <<code>>

(* s3_connection_reset_with_response: back to waiting for a packet (the    *)
(* digest buffer is not cleared), or closed after an error.                *)
Answered(k, code) ==
  IF code \in Errors THEN Between("closed", <<>>, k.out \o FinalResponse(code))
  ELSE Between("magic", k.sha, k.out \o FinalResponse(code))
-----------------------------------------------------------------------------
Init ==
  /\ server = "running"
  /\ conn = AllClosed
  /\ temp_file_counter = 0
  /\ rows = [n \in Names |-> <<>>]
  /\ files = NoFiles
  /\ dirs = {}
  /\ temps = NoFiles
  /\ packets = 0
  /\ kills = 0

(* What a kill leaves of the temporary files: stdio buffers are lost.      *)
Flushed(tmp) ==
  {[t \in DOMAIN tmp |-> SubSeq(tmp[t], 1, kept[t])] :
     kept \in {f \in [DOMAIN tmp -> 0..MaxLength] :
                 \A t \in DOMAIN tmp : f[t] <= Len(tmp[t])}}

(* The process is killed while the temporary files are tmp.                *)
Killed(tmp) ==
  /\ kills < MaxKills
  /\ kills' = kills + 1
  /\ server' = "down"
  /\ conn' = AllClosed
  /\ temps' \in Flushed(tmp)

(* The process ends itself: logs_put at FATAL level calls exit, which      *)
(* flushes; the SIGSEGV handler ends in the same call.                     *)
Exits(tmp) ==
  /\ server' = "down"
  /\ conn' = AllClosed
  /\ temps' = tmp
  /\ UNCHANGED kills

(* network_write_stream when the peer is gone: the loop never ends, and    *)
(* what follows the write is not reached.                                  *)
Spins(c, k, tmp) ==
  /\ PeersVanish
  /\ conn' = [conn EXCEPT ![c] = k]
  /\ temps' = tmp
  /\ server' = "spinning"

(* The last write of an event: answer code to the packet of connection c   *)
(* (now k), close and unlink its temporary file (tmp: the temporary files  *)
(* now) and wait for the next packet, or close on an error.                *)
Answer(c, k, tmp, code) ==
  /\ UNCHANGED kills
  /\ \/ /\ conn' = [conn EXCEPT ![c] = Answered(k, code)]
        /\ temps' = Without(tmp, k.temp)
        /\ UNCHANGED server
     \/ Spins(c, k, tmp)

(* An interim response, after which connection c (now k) waits for bytes   *)
(* to run callback on.                                                     *)
Ask(c, k, tmp, code, callback) ==
  /\ UNCHANGED kills
  /\ \/ /\ conn' = [conn EXCEPT ![c] =
                     [k EXCEPT !.callback = callback, !.out = Append(@, code)]]
        /\ temps' = tmp
        /\ UNCHANGED server
     \/ Spins(c, k, tmp)
-----------------------------------------------------------------------------
(* The file manager.                                                       *)

(* filemgmt_file_exists_sqlite3.  ok: the query was answered.              *)
RowExists(n, ok) == ok /\ n \in Names /\ rows[n] # <<>>

(* filemgmt_file_exists: a row under the name, and a path fopen can read   *)
(* (a directory can be opened for reading).                                *)
FileExists(n, ok) == RowExists(n, ok) /\ RealOf[n] \in DOMAIN files \cup dirs

(* s3_preprocess_update compares the position with file_stat's st_size.    *)
InBounds(n, at) ==
  at <= IF RealOf[n] \in DOMAIN files THEN Len(files[RealOf[n]]) ELSE DIR_SIZE

(* filemgmt_mkdirs fails when a directory of the path is a file.           *)
CanMkdirs_Ignored(n) == TRUE   \* mutant: the result of mkdirs is ignored

CanMkdirs(n) == Ancestors[RealOf[n]] \cap DOMAIN files = {}
-----------------------------------------------------------------------------
(* Post processing.  k is the connection whose data is complete, tmp the   *)
(* temporary files at that time.                                           *)

(* s3_postprocess_create, append flag set and the file is there: add the   *)
(* upload at its end.  file_append's result is not looked at, so a         *)
(* directory in the way is not noticed.                                    *)
AppendUpload(c, k, tmp) ==
  LET path == RealOf[k.request.name]
      data == tmp[k.temp]
      end  == Len(files[path])
  IN  /\ UNCHANGED rows
      /\ \/ /\ path \in DOMAIN files
            /\ files' = Put(files, path, WriteAt(files[path], end, data))
            /\ Answer(c, k, tmp, "PACKET_OK")
         \/ /\ path \in DOMAIN files
            /\ \E torn \in TornWrites(files[path], end, data) :
                 files' = Put(files, path, torn)
            /\ Killed(tmp)
         \/ /\ path \notin DOMAIN files
            /\ UNCHANGED files
            /\ Answer(c, k, tmp, "PACKET_OK")

(* The length of a row passes through an int.                              *)
ToInt(n) ==
  IF n % INT_RANGE < INT_RANGE \div 2 THEN n % INT_RANGE
  ELSE (n % INT_RANGE) - INT_RANGE

SHA256_HEXLENGTH == 64

(* The first characters of the hexadecimal digest of some bytes.           *)
Hex(bytes, characters) == [of |-> bytes, characters |-> characters]

(* The row of an upload: STRING(sha256_hex) takes the array for a string   *)
(* with a terminator and leaves its last digit out.                        *)
Record(k) ==
  [size |-> ToInt(k.length), hash |-> Hex(k.sha, SHA256_HEXLENGTH - 1)]

(* Mutant: the row is inserted before the file is moved.                   *)
MoveUpload_InsertFirst(c, k, tmp, ok) ==
  LET name == k.request.name
      path == RealOf[name]
      inserted == [rows EXCEPT ![name] = Append(@, Record(k))]
  IN  \/ /\ rows' = inserted
         /\ files' = IF path \notin dirs THEN Put(files, path, tmp[k.temp])
                     ELSE files
         /\ Answer(c, k, Without(tmp, k.temp), "PACKET_OK")
      \/ /\ rows' = inserted
         /\ UNCHANGED files
         /\ Killed(tmp)

(* Otherwise: rename the temporary file to the path, then insert a row.    *)
(* rename reports failure as -1, which the test for FAILED (1) misses, so  *)
(* with a directory in the way the row is inserted all the same.           *)
MoveUpload(c, k, tmp, ok) ==
  LET name   == k.request.name
      path   == RealOf[name]
      moved  == path \notin dirs
      after  == IF moved THEN Without(tmp, k.temp) ELSE tmp
  IN  /\ files' = IF moved THEN Put(files, path, tmp[k.temp]) ELSE files
      /\ \/ /\ ok
            /\ rows' = [rows EXCEPT ![name] = Append(@, Record(k))]
            /\ Answer(c, k, after, "PACKET_OK")
         \/ /\ ~ok
            /\ UNCHANGED rows
            /\ Answer(c, k, after, "SERVER_FILE_ERROR")
         \/ /\ UNCHANGED rows
            /\ Killed(after)

PostprocessCreate(c, k, tmp) ==
  \E found, stored \in DbAnswers :
    IF k.request.append /\ FileExists(k.request.name, found)
      THEN AppendUpload(c, k, tmp)
      ELSE MoveUpload(c, k, tmp, stored)

(* s3_postprocess_update: truncate if asked to, then write the upload at   *)
(* the position that was checked when the headers came.                    *)
PostprocessUpdate(c, k, tmp) ==
  LET path == RealOf[k.request.name]
      at   == k.request.at
      kept == IF k.request.trim THEN Truncate(files[path], at) ELSE files[path]
      data == tmp[k.temp]
  IN  /\ UNCHANGED rows
      /\ \/ /\ path \in DOMAIN files
            /\ files' = Put(files, path, WriteAt(kept, at, data))
            /\ Answer(c, k, tmp, "PACKET_OK")
         \/ /\ path \in DOMAIN files
            /\ \E torn \in TornWrites(kept, at, data) :
                 files' = Put(files, path, torn)
            /\ Killed(tmp)
         \/ /\ path \notin DOMAIN files
            /\ UNCHANGED files
            /\ Answer(c, k, tmp, "SERVER_INTERNAL_ERROR")

(* s3_postprocess_notification: the text is shown on the desktop.          *)
PostprocessNotification(c, k, tmp) ==
  /\ Answer(c, k, tmp, "PACKET_OK")
  /\ UNCHANGED <<rows, files>>

PostprocessLogin(c, k, tmp) ==
  /\ Answer(c, k, tmp, "PACKET_OK")
  /\ UNCHANGED <<rows, files>>

(* confirm_upload, upload and post_process of the actions that take data.  *)
PostProcess(c, k, tmp) ==
  \/ k.request.action = "create" /\ PostprocessCreate(c, k, tmp)
  \/ k.request.action = "update" /\ PostprocessUpdate(c, k, tmp)
  \/ k.request.action = "notification" /\ PostprocessNotification(c, k, tmp)
  \/ k.request.action = "login" /\ PostprocessLogin(c, k, tmp)
-----------------------------------------------------------------------------
(* Reading the headers.                                                    *)

(* What the header table of each request answers to each lookup.           *)
Lookups ==
  [keys \in {r.keys : r \in Requests} |->
     [attrib \in Attribs |-> Get(MakeHashTable(keys), attrib)]]

(* s3_attrib_get: the header in whose bucket the lookup ends, or Empty.    *)
AttribGet(r, attrib) == Lookups[r.keys][attrib]

(* s3_attrib_contains *)
AttribContains(r, attrib) == AttribGet(r, attrib) \in Keys

(* The value s3_attrib_get returns: that of the header it ends at.         *)
AttribValue(r, attrib) == r.value[AttribGet(r, attrib)]

(* The integer it returns in out_length.                                   *)
AttribNumber(r, attrib) ==
  IF AttribContains(r, attrib) THEN AttribValue(r, attrib).length ELSE 0

(* s3_request_read_action looks only at the first header; without an       *)
(* action there the zeroed request stays a create.  Its error is ignored.  *)
ReadAction(r) ==
  IF r.keys # <<>> /\ r.keys[1] = "action" THEN r.action ELSE "create"

Required ==
  [create |-> {"action", "filename", "username", "secret"},
   delete |-> {"action", "filename", "username", "secret"},
   dir |-> {"action", "dirname", "username", "secret"},
   login |-> {"username", "secret"},
   notification |-> {"action"},
   request |-> {"action", "username", "secret"},
   server |-> {"action"},
   update |-> {"action", "filename", "updateat", "trim", "username",
               "secret"}]

(* s3_attribs_assert.  For an unknown action it reads in front of the      *)
(* table of required attributes: either result is possible.                *)
AttribsAssert(r) ==
  IF ReadAction(r) = "invalid" THEN BOOLEAN
  ELSE {\A a \in Required[ReadAction(r)] : AttribContains(r, a)}

(* The user and the passphrase that lookups of "username" and "secret"     *)
(* return are an account.                                                  *)
Authentic(r) ==
  /\ AttribContains(r, "username")
  /\ AttribContains(r, "secret")
  /\ <<AttribValue(r, "username").user, AttribValue(r, "secret").secret>>
       \in Accounts

(* s3_auth_query.  ok: the query was answered.  For an integer header the  *)
(* pointer to the text may be NULL.                                        *)
AuthQuery_AnyUser(r, ok) == {"SUCCESS"}   \* mutant: the result is ignored

AuthQuery(r, ok) ==
  {IF ok /\ Authentic(r) THEN "SUCCESS" ELSE "FAILED_AUTHENTICATION"} \cup
  {"SERVER_ERROR_NOAUTH" : text \in {NoText} \cap
     {AttribValue(r, "username").user, AttribValue(r, "secret").secret}}

AuthTransaction(r, ok) ==
  LET given == {a \in {"username", "secret"} : AttribContains(r, a)}
  IN  IF given = {} THEN {"SUCCESS"}
      ELSE IF Cardinality(given) = 1 THEN {"MIX_AUTH_ERROR"}
      ELSE AuthQuery(r, ok)

MakesDirs(r) ==
  /\ AttribContains(r, "filename")
  /\ ReadAction(r) \in {"create", "update"}

FileName(r) ==
  IF AttribContains(r, "filename") THEN AttribValue(r, "filename").name
  ELSE NoName

SetupEnvironment(r) ==
  IF AttribContains(r, "filename") /\ FileName(r) = NoName
    THEN "ATTRIB_VALUE_INVALID"
  ELSE IF MakesDirs(r) /\ ~CanMkdirs(FileName(r))
    THEN "SETUP_ENVIRONMENT_FAILED"
  ELSE "SUCCESS"

TempFileRequired(action) == action \in {"create", "update", "notification"}

(* s3_preprocess_update: the length field of whatever bucket the lookup of *)
(* "updateat" stops at, such as the length of the user name.               *)
UpdatePosition_FromOne(r) ==   \* mutant: positions from one
  AttribNumber(r, "updateat") - 1

UpdatePosition(r) == AttribNumber(r, "updateat")

Prepared(r, payload) ==
  [action    |-> ReadAction(r),
   name      |-> FileName(r),
   append    |-> ReadAction(r) = "create" /\ AttribContains(r, "append"),
   at        |-> IF ReadAction(r) = "update" THEN UpdatePosition(r) ELSE 0,
   trim      |-> ReadAction(r) = "update" /\ AttribNumber(r, "trim") # 0,
   authentic |-> Authentic(r),
   payload   |-> payload]

(* The rows the LIKE query selects for the folder of a request.            *)
RowCount(r) ==
  MapThenSumSet(LAMBDA n : Len(rows[n]),
                Listed[AttribValue(r, "dirname").folder])

(* What each action checks when its headers are there: the first check     *)
(* that fails.  ok: the database answered.                                 *)
PreprocessCreate(q, ok) ==
  IF FileExists(q.name, ok) /\ ~q.append THEN "FILE_EXISTS_ALREADY"
  ELSE "SUCCESS"

PreprocessUpdate(q, ok) ==
  IF ~FileExists(q.name, ok) THEN "FILE_NOT_FOUND"
  ELSE IF ~InBounds(q.name, q.at) THEN "FILE_UPDATE_OUTOFBOUNDS"
  ELSE "SUCCESS"

PreprocessRequest(q, length, ok) ==
  IF ~FileExists(q.name, ok) THEN "FILE_NOT_FOUND"
  ELSE IF length # 0 THEN "UNEXPECTED_DATA_FROM_CLIENT"
  ELSE "SUCCESS"

PreprocessDelete(length, ok) ==
  IF length # 0 THEN "UNEXPECTED_DATA_FROM_CLIENT"
  ELSE IF ~ok THEN "SERVER_INTERNAL_ERROR"
  ELSE "SUCCESS"

(* The first of the two queries of a listing, the count.                   *)
PreprocessDirlist(r, length, ok) ==
  IF ~ok \/ RowCount(r) = 0 THEN "FOLDER_NOT_FOUND"
  ELSE IF length # 0 THEN "UNEXPECTED_DATA_FROM_CLIENT"
  ELSE "SUCCESS"

PreprocessNotification(length) ==
  IF length > 0 /\ length < FILE_BUFFER_LENGTH THEN "SUCCESS"
  ELSE "NOTIFY_TOOBIG"

PreprocessServerinfo(length) ==
  IF length # 0 THEN "UNEXPECTED_DATA_FROM_CLIENT" ELSE "SUCCESS"

PreprocessLogin == "SUCCESS"

(* s3_action_preprocess *)
Preprocess(r, q, length, ok) ==
  CASE q.action = "create" -> PreprocessCreate(q, ok)
    [] q.action = "update" -> PreprocessUpdate(q, ok)
    [] q.action = "request" -> PreprocessRequest(q, length, ok)
    [] q.action = "delete" -> PreprocessDelete(length, ok)
    [] q.action = "dir" -> PreprocessDirlist(r, length, ok)
    [] q.action = "notification" -> PreprocessNotification(length)
    [] q.action = "server" -> PreprocessServerinfo(length)
    [] q.action = "login" -> PreprocessLogin
    [] q.action = "invalid" -> "SERVER_INTERNAL_ERROR"
-----------------------------------------------------------------------------
(* The handlers of the event loop.                                         *)

(* A listener event: accept, then SSL_accept on the new socket, which      *)
(* still blocks: nobody is served until the peer ends its handshake.       *)
Accept ==
  /\ server = "running"
  /\ \E c \in Clients : conn[c].callback = "closed"
  /\ server' = "accepting"
  /\ UNCHANGED <<conn, temp_file_counter, disk, packets, kills>>

(* The handshake is done: non-blocking mode, wait for 8 bytes of magic.    *)
Handshake(c) ==
  /\ server = "accepting"
  /\ conn[c].callback = "closed"
  /\ server' = "running"
  /\ conn' = [conn EXCEPT ![c] = Fresh]
  /\ UNCHANGED <<temp_file_counter, disk, packets, kills>>

(* It fails: the socket is closed and the loop goes on.                    *)
HandshakeFails ==
  /\ server = "accepting"
  /\ server' = "running"
  /\ UNCHANGED <<conn, temp_file_counter, disk, packets, kills>>

(* s3_connection_magic_read, a packet announcing length bytes of data.     *)
MagicRead(c) ==
  /\ server = "running"
  /\ conn[c].callback = "magic"
  /\ packets < MaxPackets
  /\ packets' = packets + 1
  /\ \E length \in 0..MaxLength :
       conn' = [conn EXCEPT ![c] =
                  [@ EXCEPT !.callback = "headers", !.length = length,
                            !.out = <<>>]]
  /\ UNCHANGED <<server, temp_file_counter, disk, kills>>

(* s3_connection_magic_read fails on a wrong magic byte: abort.            *)
MagicInvalid(c) ==
  /\ server = "running"
  /\ conn[c].callback = "magic"
  /\ conn' = [conn EXCEPT ![c] = Closed]
  /\ UNCHANGED <<server, temp_file_counter, disk, packets, kills>>

(* s3_connection_headers_read returns before anything is set up: missing   *)
(* attributes or no authentication.                                        *)
Refusals(r) ==
  {code \in Warnings :
     \/ code = "MISSING_ATTRIBS" /\ FALSE \in AttribsAssert(r)
     \/ /\ TRUE \in AttribsAssert(r)
        /\ \E ok \in DbAnswers : code \in AuthTransaction(r, ok)}

RefuseHeaders(c, code) ==
  /\ Answer(c, conn[c], temps, code)
  /\ UNCHANGED <<temp_file_counter, rows, files, dirs>>

(* filemgmt_set_tmp_path: the number in the next temporary file name.      *)
NextTemp_Constant == 1   \* mutant: the counter is not static

NextTemp == temp_file_counter + 1

(* The connection after s3_setup_environment.                              *)
Received(c, r, payload) ==
  [conn[c] EXCEPT !.temp = NextTemp,
                  !.request = Prepared(r, payload)]

Opened(k) == [k EXCEPT !.open = TempFileRequired(k.request.action)]

(* The temporary file is opened for writing, which empties what a process  *)
(* killed earlier left under the same name.                                *)
WithTemp_AppendMode(k) ==   \* mutant: opened with FILE_MODE_APPENDBINARY
  IF TempFileRequired(k.request.action) /\ k.temp \notin DOMAIN temps
  THEN Put(temps, k.temp, <<>>)
  ELSE temps

WithTemp(k) ==
  IF TempFileRequired(k.request.action) THEN Put(temps, k.temp, <<>>)
  ELSE temps

RefuseSetup(c, k, r) ==
  /\ SetupEnvironment(r) # "SUCCESS"
  /\ Answer(c, k, temps, SetupEnvironment(r))
  /\ UNCHANGED <<rows, files, dirs>>

Mkdirs(r) ==
  dirs' = IF MakesDirs(r) THEN dirs \cup Ancestors[RealOf[FileName(r)]]
          ELSE dirs

RefuseRequest(c, k, tmp, code) ==
  /\ code # "SUCCESS"
  /\ Answer(c, k, tmp, code)
  /\ UNCHANGED <<rows, files>>

(* Data is announced: ask for it and wait in confirm_upload.               *)
AwaitData(c, k, tmp) ==
  /\ k.length > 0
  /\ Ask(c, k, tmp, "DATA_SEND", "confirm")
  /\ UNCHANGED <<rows, files>>

(* s3_preprocess_delete: the rows go, the stored file stays.               *)
DeleteFile_Unlink(c, k, tmp) ==   \* mutant: the stored file goes too
  /\ rows' = [rows EXCEPT ![k.request.name] = <<>>]
  /\ files' = Without(files, RealOf[k.request.name])
  /\ Answer(c, k, tmp, "PACKET_OK")

DeleteFile(c, k, tmp) ==
  /\ rows' = [rows EXCEPT ![k.request.name] = <<>>]
  /\ Answer(c, k, tmp, "PACKET_OK")
  /\ UNCHANGED files

(* s3_postprocess_serverinfo: the answer carries the version.              *)
SendServerinfo(c, k, tmp) ==
  /\ Answer(c, k, tmp, "DATA_READY")
  /\ UNCHANGED <<rows, files>>

(* The rows the second query of a listing returns: one that fails on the   *)
(* way returns some of them.                                               *)
Listings(r) == IF FALSE \in DbAnswers THEN 0..RowCount(r) ELSE {RowCount(r)}

(* filemgmt_folder_files and s3_action_dirlist_writer.  Without a prepared *)
(* query the list is NULL, and a listing that needs a second buffer is     *)
(* read through the pointer the first call has set to NULL: both end the   *)
(* process.                                                                *)
SendDirlist(c, k, tmp, r) ==
  /\ \/ /\ \E listed \in Listings(r) : listed <= DIRLIST_ROWS
        /\ Answer(c, k, tmp, "DATA_READY")
     \/ /\ \E listed \in Listings(r) : listed > DIRLIST_ROWS
        /\ Exits(tmp)
     \/ /\ FALSE \in DbAnswers
        /\ Exits(tmp)
  /\ UNCHANGED <<rows, files>>

(* s3_connection_confirm_upload of a request: may the file be sent?        *)
ConfirmUpload(c, k, tmp) ==
  /\ Ask(c, k, tmp, "DATA_MORE", "upload")
  /\ UNCHANGED <<rows, files>>

(* No data: go on with confirm_upload, upload and post_process at once.    *)
CompleteNow(c, k, tmp, r) ==
  /\ k.length = 0
  /\ \/ /\ k.request.action \in {"create", "update", "notification", "login"}
        /\ PostProcess(c, k, tmp)
     \/ k.request.action = "delete" /\ DeleteFile(c, k, tmp)
     \/ k.request.action = "server" /\ SendServerinfo(c, k, tmp)
     \/ k.request.action = "dir" /\ SendDirlist(c, k, tmp, r)
     \/ k.request.action = "request" /\ ConfirmUpload(c, k, tmp)

Process(c, r, k) ==
  /\ SetupEnvironment(r) = "SUCCESS"
  /\ Mkdirs(r)
  /\ \E ok \in DbAnswers :
       LET code == Preprocess(r, k.request, k.length, ok)
       IN  \/ RefuseRequest(c, k, WithTemp(k), code)
           \/ code = "SUCCESS" /\ AwaitData(c, k, WithTemp(k))
           \/ code = "SUCCESS" /\ CompleteNow(c, k, WithTemp(k), r)

(* s3_connection_headers_read *)
HeadersRead(c) ==
  /\ server = "running"
  /\ conn[c].callback = "headers"
  /\ \E r \in Requests :
       \/ \E code \in Refusals(r) : RefuseHeaders(c, code)
       \/ /\ TRUE \in AttribsAssert(r)
          /\ \E ok \in DbAnswers : "SUCCESS" \in AuthTransaction(r, ok)
          /\ temp_file_counter' = NextTemp
          /\ \E payload \in [1..conn[c].length -> Bytes] :
               LET k == Received(c, r, payload)
               IN  RefuseSetup(c, k, r) \/ Process(c, r, Opened(k))
  /\ UNCHANGED packets

(* network_read_stream: the next bytes of the upload go to the temporary   *)
(* file if there is one, and are counted.  The digest is final when the    *)
(* last byte is in.                                                        *)
Read_DigestLost(k, n) == [k EXCEPT !.index = @ + n]   \* mutant: no SHA256_Final

Read(k, n) ==
  [k EXCEPT !.index = @ + n,
            !.sha = IF k.open /\ k.index + n = k.length THEN k.request.payload
                    ELSE @]

Stored_Rewound(k, n) ==   \* mutant: every chunk is written at the start
  IF k.open
  THEN [temps EXCEPT ![k.temp] =
          SubSeq(k.request.payload, k.index + 1, k.index + n)]
  ELSE temps

Stored(k, n) ==
  IF k.open
  THEN [temps EXCEPT ![k.temp] =
          @ \o SubSeq(k.request.payload, k.index + 1, k.index + n)]
  ELSE temps

ReadData(c) ==
  LET k == conn[c]
  IN  /\ server = "running"
      /\ k.callback = "confirm"
      /\ k.open \/ k.length <= NETWORK_READ_BUFFER
      /\ \E n \in 1..(k.length - k.index) :
           \/ /\ k.index + n < k.length
              /\ conn' = [conn EXCEPT ![c] = Read(k, n)]
              /\ temps' = Stored(k, n)
              /\ UNCHANGED <<server, rows, files, kills>>
           \/ /\ k.index + n = k.length
              /\ PostProcess(c, Read(k, n), Stored(k, n))
      /\ UNCHANGED <<temp_file_counter, dirs, packets>>

ReadTooBig_Waits(c) == FALSE   \* mutant: the read returns -1 and is retried

(* network_read_stream refuses an in-memory read longer than its buffer    *)
(* with a FATAL message, which ends the process.                           *)
ReadTooBig(c) ==
  /\ server = "running"
  /\ conn[c].callback = "confirm"
  /\ ~conn[c].open
  /\ conn[c].length > NETWORK_READ_BUFFER
  /\ Exits(temps)
  /\ UNCHANGED <<temp_file_counter, rows, files, dirs, packets>>

(* s3_action_request_writer: the file as it is now.                        *)
SendFile(c) == Answer(c, conn[c], temps, "DATA_READY")

(* s3_response_accept_status: the 8 bytes the client sent are not ACCEPT.  *)
NotAccepted(c) == Answer(c, conn[c], temps, "NETWORK_ERROR_WRITE")

(* s3_connection_upload: the client's answer to DATA_MORE.                 *)
Upload(c) ==
  /\ server = "running"
  /\ conn[c].callback = "upload"
  /\ SendFile(c) \/ NotAccepted(c)
  /\ UNCHANGED <<temp_file_counter, rows, files, dirs, packets>>

(* EPOLLERR, EPOLLHUP or EPOLLRDHUP: reset and abort, unread data is lost. *)
HangUp(c) ==
  /\ server = "running"
  /\ conn[c].callback # "closed"
  /\ conn' = [conn EXCEPT ![c] = Closed]
  /\ temps' = Without(temps, conn[c].temp)
  /\ UNCHANGED <<server, temp_file_counter, rows, files, dirs, packets, kills>>

(* The process is killed between two events, or while it spins.            *)
Kill ==
  /\ server # "down"
  /\ Killed(temps)
  /\ UNCHANGED <<temp_file_counter, rows, files, dirs, packets>>

(* A new process: main, s3_connection_initialize_sync and s3_verify_db.    *)
Restart ==
  /\ server = "down"
  /\ server' = "running"
  /\ temp_file_counter' = 0
  /\ UNCHANGED <<conn, disk, packets, kills>>

ClientStep(c) ==
  \/ Handshake(c)
  \/ MagicRead(c)
  \/ MagicInvalid(c)
  \/ HeadersRead(c)
  \/ ReadData(c)
  \/ ReadTooBig(c)
  \/ Upload(c)
  \/ HangUp(c)

Next ==
  \/ \E c \in Clients : ClientStep(c)
  \/ Accept
  \/ HandshakeFails
  \/ Kill
  \/ Restart

Spec == Init /\ [][Next]_vars

(* A client goes on with the packet it began and ends its handshake, or    *)
(* drops it.  The loop is level triggered and handles all events of a      *)
(* round, so accepting others, however often, does not keep it from a      *)
(* descriptor that is ready each time: strong fairness.  Nothing obliges a *)
(* client to connect, to begin another packet or to hang up.               *)
Fairness ==
  /\ WF_vars(HandshakeFails \/ \E c \in Clients : Handshake(c))
  /\ \A c \in Clients :
       SF_vars(HeadersRead(c) \/ ReadData(c) \/ ReadTooBig(c) \/ Upload(c))

FairSpec == Spec /\ Fairness
-----------------------------------------------------------------------------
(* Types.                                                                  *)
RequestStates ==
  [action : Actions \cup {"none", "invalid"}, name : Names \cup {NoName},
   append : BOOLEAN, at : Nat, trim : BOOLEAN, authentic : BOOLEAN,
   payload : Seq(Bytes)]

Connections ==
  [callback : {"closed", "magic", "headers", "confirm", "upload"},
   length : Nat, request : RequestStates, temp : Nat, open : BOOLEAN,
   index : Nat, sha : Seq(Bytes), out : Seq(Interim \cup Final)]

Records == [size : Int, hash : [of : Seq(Bytes), characters : Nat]]

(* Every variable holds a value of the shape the code gives it: callbacks, *)
(* request, rows, files and temporary files.                               *)
TypeOK ==
  /\ server \in {"running", "accepting", "spinning", "down"}
  /\ conn \in [Clients -> Connections]
  /\ temp_file_counter \in Nat
  /\ rows \in [Names -> Seq(Records)]
  /\ DOMAIN files \subseteq Reals /\ files \in [DOMAIN files -> Content]
  /\ dirs \subseteq Reals
  /\ DOMAIN temps \subseteq Nat /\ temps \in [DOMAIN temps -> Content]
  /\ packets \in Nat
  /\ kills \in Nat
-----------------------------------------------------------------------------
(* Safety.                                                                 *)

(* No two connections are given the same temporary file name, although the *)
(* counter restarts with the process and files of an earlier process may   *)
(* still be there (filemgmt_set_tmp_path).                                 *)
TempNamesDistinct ==
  \A c, d \in Clients :
    c # d /\ conn[c].temp # 0 => conn[c].temp # conn[d].temp

(* The temporary file of an upload in progress exists and holds exactly    *)
(* the bytes received on its own connection so far, whatever other clients *)
(* and earlier processes did.                                              *)
TempHoldsUpload ==
  server # "spinning" =>
    \A c \in Clients :
      conn[c].open =>
        /\ conn[c].temp \in DOMAIN temps
        /\ temps[conn[c].temp] = SubSeq(conn[c].request.payload, 1, conn[c].index)

(* The tree below files/ stays a tree: no path is a file and a directory,  *)
(* and everything above a stored file or a directory is a directory,       *)
(* although mkdirs runs when the headers come and rename when the data is  *)
(* complete.                                                               *)
TreeOK ==
  /\ DOMAIN files \cap dirs = {}
  /\ \A r \in DOMAIN files \cup dirs : Ancestors[r] \subseteq dirs

(* A row of the file table always names a path that exists, also after a   *)
(* kill between rename and insert in s3_postprocess_create.                *)
RowsBacked ==
  \A n \in Names : rows[n] # <<>> => RealOf[n] \in DOMAIN files \cup dirs

(* A request or an update that passed s3_preprocess_request or             *)
(* s3_preprocess_update still finds its file when the client has answered, *)
(* even if others deleted or overwrote it in between: the writer and       *)
(* file_append use the path without looking again.                         *)
PendingFilesExist ==
  \A c \in Clients :
    (\/ conn[c].callback = "upload"
     \/ conn[c].callback = "confirm" /\ conn[c].request.action = "update")
    => RealOf[conn[c].request.name] \in DOMAIN files \cup dirs

(* An upload that will change stored files comes from a user that          *)
(* s3_auth_transaction accepted, for as long as its data is awaited.       *)
PendingChangesAuthentic ==
  \A c \in Clients :
    conn[c].callback = "confirm" /\ conn[c].request.action \in {"create", "update"}
      => conn[c].request.authentic

(* Each packet is answered by one final response, after at most one        *)
(* interim one that says what the connection is waiting for                *)
(* (RESPONSE_RESET_RETURN and s3_connection_post_process).                 *)
OneFinalAnswer ==
  server # "spinning" =>
    \A c \in Clients :
      conn[c].out \in
        CASE conn[c].callback = "headers" -> {<<>>}
          [] conn[c].callback = "confirm" -> {<<"DATA_SEND">>}
          [] conn[c].callback = "upload" -> {<<"DATA_MORE">>}
          [] OTHER -> {<<>>} \cup {<<f>> : f \in Final} \cup
                      {<<i, f>> : i \in Interim, f \in Final}

(* action-create.c: when the data of a create without append is complete,  *)
(* the file does not exist.                                                *)
CreateTargetAbsent ==
  \A c \in Clients :
    conn[c].callback = "confirm" /\ conn[c].request.action = "create"
      /\ ~conn[c].request.append
    => ~FileExists(conn[c].request.name, TRUE)
-----------------------------------------------------------------------------
(* Action properties.                                                      *)

(* Stored paths stay: no step of any request, failure or restart removes a *)
(* stored file or a directory or turns one into the other (a delete only   *)
(* removes rows).                                                          *)
PathsPersist ==
  [][DOMAIN files \subseteq DOMAIN files' /\ dirs \subseteq dirs']_vars

(* A row that is inserted describes the bytes that are then stored under   *)
(* the name: it has their size and all but the last digit of their digest  *)
(* (for an upload that has bytes, at a path that is not a directory; the   *)
(* size as long as it fits in an int).                                     *)
NewRowsDescribeFile ==
  [][\A n \in Names :
       LET new == rows'[n][Len(rows'[n])]
           path == RealOf[n]
       IN  Len(rows'[n]) > Len(rows[n]) /\ path \notin dirs /\ files'[path] # <<>>
           => /\ new.hash = Hex(files'[path], SHA256_HEXLENGTH - 1)
              /\ Len(files'[path]) < INT_RANGE \div 2 =>
                   new.size = Len(files'[path])]_vars

(* The answer PACKET_OK to the data of c's create.                         *)
CreateAcknowledged(c) ==
  /\ conn[c].callback = "confirm"
  /\ conn[c].request.action = "create"
  /\ conn'[c].out = <<"DATA_SEND", "PACKET_OK">>

(* A create that is answered PACKET_OK has stored its data, whatever other *)
(* clients did since it was accepted: the whole upload is at the end of    *)
(* the file, and is all of the file without append.  The exception is a    *)
(* directory at the path: the failed rename is then not noticed.           *)
AcknowledgedCreateStored ==
  [][\A c \in Clients :
       LET path == RealOf[conn[c].request.name]
       IN  CreateAcknowledged(c) /\ path \notin dirs =>
             /\ path \in DOMAIN files'
             /\ IsSuffix(conn[c].request.payload, files'[path])
             /\ ~conn[c].request.append =>
                  files'[path] = conn[c].request.payload]_vars

(* An append to a file that exists keeps every byte of it: the end is      *)
(* taken when the data is complete, not when the headers came.             *)
AppendKeepsContent ==
  [][\A c \in Clients :
       LET path == RealOf[conn[c].request.name]
       IN  /\ conn[c].callback = "confirm" /\ conn[c].request.append
           /\ FileExists(conn[c].request.name, TRUE)
           /\ path \in DOMAIN files
           /\ files'[path] # files[path]
           /\ \A d \in Clients \ {c} : conn'[d] = conn[d]
           => IsPrefix(files[path], files'[path])]_vars
-----------------------------------------------------------------------------
(* Liveness.                                                               *)

(* A packet whose client goes on with it is answered: its connection       *)
(* returns to wait for the next packet or is closed.                       *)
PacketsAnswered ==
  \A c \in Clients :
    (server = "running" /\ conn[c].callback \in {"headers", "confirm", "upload"})
      ~> (conn[c].callback \in {"magic", "closed"})
=============================================================================
