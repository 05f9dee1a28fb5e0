---------------------------- MODULE StoreProofs ----------------------------
(***************************************************************************)
(* Proofs about what Server keeps on disk: paths stay, the folder below    *)
(* files/ stays a tree, every row has a path behind it, and a request that *)
(* waits for its client still finds its file; and Server implements        *)
(* FileStore.  They rest on the invariant of ServerProofs for the requests *)
(* and the temporary files of the connections.                             *)
(***************************************************************************)
EXTENDS ServerStore, ServerProofs

(* TreeOK and RowsBacked of given files and directories.                   *)
Tree(f, ds) ==
  /\ f \cap ds = {}
  /\ \A r \in f \cup ds : Ancestors[r] \subseteq ds

Backed(t, f, ds) ==
  \A n \in Names : t[n] # <<>> => RealOf[n] \in f \cup ds

(* What a connection that waits for its client relies on: its file, and    *)
(* the directories its upload will be moved to.                            *)
ReliesIn(callback, k, f, ds) ==
  /\ (\/ callback = "upload"
      \/ callback = "confirm" /\ k.request.action = "update")
     => RealOf[k.request.name] \in f \cup ds
  /\ callback = "confirm" /\ k.request.action = "create"
     => Ancestors[RealOf[k.request.name]] \subseteq ds

Relies(k, f, ds) == ReliesIn(k.callback, k, f, ds)

StoreInv ==
  /\ Tree(DOMAIN files, dirs)
  /\ Backed(rows, DOMAIN files, dirs)
  /\ \A c \in Clients : Relies(conn[c], DOMAIN files, dirs)

(* The paths there are and the directories stay.                           *)
Grows == DOMAIN files \subseteq DOMAIN files' /\ dirs \subseteq dirs'
-----------------------------------------------------------------------------
(* Paths persist.                                                          *)

(* An upload changes the files at one path at most.                        *)
LEMMA PostProcessPuts ==
  ASSUME NEW c, NEW k, NEW tmp, PostProcess(c, k, tmp)
  PROVE  UNCHANGED files \/ \E x, v : files' = Put(files, x, v)
<1>1. ASSUME AppendUpload(c, k, tmp)
      PROVE  UNCHANGED files \/ \E x, v : files' = Put(files, x, v)
  BY <1>1, Zenon DEF AppendUpload
<1>2. ASSUME NEW ok, MoveUpload(c, k, tmp, ok)
      PROVE  UNCHANGED files \/ \E x, v : files' = Put(files, x, v)
  BY <1>2 DEF MoveUpload
<1>3. ASSUME PostprocessUpdate(c, k, tmp)
      PROVE  UNCHANGED files \/ \E x, v : files' = Put(files, x, v)
  BY <1>3, Zenon DEF PostprocessUpdate
<1> QED
  BY <1>1, <1>2, <1>3 DEF PostProcess, PostprocessCreate,
                          PostprocessNotification, PostprocessLogin

(* The end of an upload removes no path.                                   *)
LEMMA PostProcessGrows ==
  ASSUME NEW c, NEW k, NEW tmp, PostProcess(c, k, tmp)
  PROVE  DOMAIN files \subseteq DOMAIN files'
<1>1. CASE UNCHANGED files
  BY <1>1
<1>2. CASE \E x, v : files' = Put(files, x, v)
  <2>1. PICK x, v : files' = Put(files, x, v)
    BY <1>2
  <2> QED
    BY <2>1 DEF Put
<1> QED
  BY <1>1, <1>2, PostProcessPuts

(* Neither does the handling of the headers.                               *)
LEMMA ProcessGrows ==
  ASSUME NEW c, NEW r, NEW k, Process(c, r, k)
  PROVE  Grows
<1>1. dirs \subseteq dirs'
  BY DEF Process, Mkdirs
<1>2. PICK ok \in DbAnswers :
        \/ UNCHANGED files
        \/ PostProcess(c, k, WithTemp(k))
  BY DEF Process, RefuseRequest, AwaitData, CompleteNow, DeleteFile,
         SendServerinfo, SendDirlist, ConfirmUpload
<1> QED
  BY <1>1, <1>2, PostProcessGrows DEF Grows

(* Nor does any other step.                                                *)
LEMMA NextGrows == [Next]_vars => Grows
<1> SUFFICES ASSUME [Next]_vars PROVE Grows
  OBVIOUS
<1>1. CASE UNCHANGED <<files, dirs>>
  BY <1>1 DEF Grows
<1>2. ASSUME NEW c \in Clients, HeadersRead(c) PROVE Grows
  <2>1. \/ UNCHANGED <<files, dirs>>
        \/ \E r, k : Process(c, r, k)
    BY <1>2 DEF HeadersRead, RefuseHeaders, RefuseSetup
  <2> QED
    BY <1>1, <2>1, ProcessGrows
<1>3. ASSUME NEW c \in Clients, ReadData(c) PROVE Grows
  <2>1. \/ UNCHANGED <<files, dirs>>
        \/ UNCHANGED dirs /\ \E k, tmp : PostProcess(c, k, tmp)
    BY <1>3 DEF ReadData
  <2> QED
    BY <1>1, <2>1, PostProcessGrows DEF Grows
<1>4. ASSUME NEW c \in Clients, ClientStep(c) PROVE Grows
  <2>1. \/ HeadersRead(c) \/ ReadData(c) \/ UNCHANGED <<files, dirs>>
    BY <1>4 DEF ClientStep, Handshake, MagicRead, MagicInvalid, ReadTooBig, Upload,
                HangUp, disk
  <2> QED
    BY <1>1, <1>2, <1>3, <2>1
<1>5. (Kill \/ Restart \/ Accept \/ HandshakeFails \/ UNCHANGED vars)
        => UNCHANGED <<files, dirs>>
  BY DEF Kill, Restart, Accept, HandshakeFails, vars, disk
<1> QED
  BY <1>1, <1>4, <1>5 DEF Next

(* No step removes a stored file or a directory: delete only removes rows, *)
(* and rename, truncate and the writes of file_append keep the path.       *)
THEOREM PathsNeverVanish == Spec => PathsPersist
<1>1. [Next]_vars => [DOMAIN files \subseteq DOMAIN files' /\ dirs \subseteq dirs']_vars
  BY NextGrows DEF Grows
<1> QED
  BY <1>1, PTL DEF Spec, PathsPersist
-----------------------------------------------------------------------------
(* The connections.                                                        *)

(* What a connection relies on stays when paths are only added.            *)
LEMMA ReliesGrows ==
  ASSUME NEW k, NEW f, NEW ds, NEW g, NEW es, Relies(k, f, ds),
         f \subseteq g, ds \subseteq es
  PROVE  Relies(k, g, es)
  BY DEF Relies, ReliesIn

(* A connection that waits for a packet, or is closed, relies on nothing.  *)
LEMMA IdleRelies ==
  ASSUME NEW k, k.callback \in {"closed", "magic", "headers"}, NEW f, NEW ds
  PROVE  Relies(k, f, ds)
  BY DEF Relies, ReliesIn

(* One connection changes, and what the new one relies on is there.        *)
LEMMA ConnectionsRely ==
  ASSUME IInv, StoreInv, Grows, NEW c \in Clients, NEW new,
         conn' = [conn EXCEPT ![c] = new],
         Relies(new, DOMAIN files', dirs')
  PROVE  \A d \in Clients : Relies(conn'[d], DOMAIN files', dirs')
<1> SUFFICES ASSUME NEW d \in Clients
             PROVE  Relies(conn'[d], DOMAIN files', dirs')
  OBVIOUS
<1>1. CASE d = c
  <2>1. conn'[d] = new
    BY <1>1 DEF IInv, TypeOK
  <2> QED
    BY <2>1
<1>2. CASE d # c
  <2>1. conn'[d] = conn[d]
    BY <1>2 DEF IInv, TypeOK
  <2>2. Relies(conn[d], DOMAIN files, dirs)
    BY DEF StoreInv
  <2> QED
    BY <2>1, <2>2, ReliesGrows DEF Grows
<1> QED
  BY <1>1, <1>2

(* The connections of a process that has ended rely on nothing.            *)
LEMMA NobodyRelies ==
  ASSUME conn' = AllClosed
  PROVE  \A d \in Clients : Relies(conn'[d], DOMAIN files', dirs')
<1>1. \A d \in Clients : conn'[d].callback = "closed"
  BY DEF AllClosed, Closed, Between
<1> QED
  BY <1>1, IdleRelies

(* After a final answer the connection relies on nothing.                  *)
LEMMA AnswerRelies ==
  ASSUME IInv, StoreInv, Grows, NEW c \in Clients, NEW k, NEW tmp, NEW code,
         Answer(c, k, tmp, code), Relies(k, DOMAIN files', dirs')
  PROVE  \A d \in Clients : Relies(conn'[d], DOMAIN files', dirs')
<1>1. Answered(k, code).callback \in {"closed", "magic"}
  BY DEF Answered, Between
<1>2. Relies(Answered(k, code), DOMAIN files', dirs')
  BY <1>1, IdleRelies
<1>3. \/ conn' = [conn EXCEPT ![c] = Answered(k, code)]
      \/ conn' = [conn EXCEPT ![c] = k]
  BY DEF Answer, Spins
<1> QED
  BY <1>2, <1>3, ConnectionsRely

(* After an interim answer it relies on what it did before.                *)
LEMMA AskRelies ==
  ASSUME IInv, StoreInv, Grows, NEW c \in Clients, NEW k \in Connections, NEW tmp,
         NEW code, NEW callback, Ask(c, k, tmp, code, callback),
         Relies(k, DOMAIN files', dirs'),
         ReliesIn(callback, k, DOMAIN files', dirs')
  PROVE  \A d \in Clients : Relies(conn'[d], DOMAIN files', dirs')
<1> DEFINE new == [k EXCEPT !.callback = callback, !.out = Append(@, code)]
<1>1. new.callback = callback /\ new.request = k.request
  BY DEF Connections
<1>2. conn' = [conn EXCEPT ![c] = new] \/ conn' = [conn EXCEPT ![c] = k]
  BY DEF Ask, Spins
<1> HIDE DEF new
<1>3. Relies(new, DOMAIN files', dirs')
  BY <1>1 DEF Relies, ReliesIn
<1> QED
  BY <1>2, <1>3, ConnectionsRely

(* Rows stay backed when paths are only added.                             *)
LEMMA BackedGrows ==
  ASSUME StoreInv, Grows, UNCHANGED rows
  PROVE  Backed(rows', DOMAIN files', dirs')
  BY DEF StoreInv, Grows, Backed
-----------------------------------------------------------------------------
(* Post processing.  mkdirs has run: the tree is that of dirs'.            *)

(* An append keeps the store sound: the path was a file before.            *)
LEMMA AppendUploadStore ==
  ASSUME IInv, StoreInv, Grows, NEW c \in Clients, NEW k, NEW tmp,
         AppendUpload(c, k, tmp), Tree(DOMAIN files, dirs'),
         Relies(k, DOMAIN files', dirs')
  PROVE  StoreInv'
<1>1. \/ UNCHANGED files
      \/ \E v : /\ RealOf[k.request.name] \in DOMAIN files
                /\ files' = Put(files, RealOf[k.request.name], v)
  BY Zenon DEF AppendUpload
<1>2. DOMAIN files' = DOMAIN files
  BY <1>1 DEF Put
<1>3. Tree(DOMAIN files', dirs')
  BY <1>2
<1>4. Answer(c, k, tmp, "PACKET_OK") \/ conn' = AllClosed
  BY Zenon DEF AppendUpload, Killed
<1>5. \A d \in Clients : Relies(conn'[d], DOMAIN files', dirs')
  BY <1>4, AnswerRelies, NobodyRelies
<1>6. UNCHANGED rows
  BY Zenon DEF AppendUpload
<1> QED
  BY <1>3, <1>5, <1>6, BackedGrows DEF StoreInv

(* So does a create: the row comes after the file.                         *)
LEMMA MoveUploadStore ==
  ASSUME IInv, StoreInv, Grows, NEW c \in Clients, NEW k, NEW tmp, NEW ok,
         MoveUpload(c, k, tmp, ok), Tree(DOMAIN files, dirs'),
         Relies(k, DOMAIN files', dirs'), k.request.name \in Names,
         Ancestors[RealOf[k.request.name]] \subseteq dirs',
         RealOf[k.request.name] \in dirs' => RealOf[k.request.name] \in dirs
  PROVE  StoreInv'
<1> DEFINE name == k.request.name
           path == RealOf[name]
           after == IF path \notin dirs THEN Without(tmp, k.temp) ELSE tmp
<1>1. files' = IF path \notin dirs THEN Put(files, path, tmp[k.temp]) ELSE files
  BY DEF MoveUpload
<1>2. DOMAIN files' = IF path \notin dirs THEN DOMAIN files \cup {path}
                      ELSE DOMAIN files
  BY <1>1 DEF Put
<1>3. Tree(DOMAIN files', dirs')
  BY <1>2 DEF Tree
<1>4. path \in DOMAIN files' \cup dirs'
  BY <1>2 DEF Grows
<1>5. Backed(rows', DOMAIN files', dirs')
  <2>1. CASE UNCHANGED rows
    BY <2>1, BackedGrows
  <2>2. CASE rows' = [rows EXCEPT ![name] = Append(@, Record(k))]
    <3> SUFFICES ASSUME NEW n \in Names, rows'[n] # <<>>
                 PROVE  RealOf[n] \in DOMAIN files' \cup dirs'
      BY DEF Backed
    <3>1. CASE n = name
      BY <1>4, <3>1
    <3>2. CASE n # name
      <4>1. rows[n] # <<>>
        BY <2>2, <3>2 DEF IInv, TypeOK
      <4> QED
        BY <4>1 DEF StoreInv, Backed, Grows
    <3> QED
      BY <3>1, <3>2
  <2> QED
    BY <2>1, <2>2 DEF MoveUpload
<1>6. \/ \E code : Answer(c, k, after, code)
      \/ conn' = AllClosed
  BY DEF MoveUpload, Killed
<1>7. \A d \in Clients : Relies(conn'[d], DOMAIN files', dirs')
  BY <1>6, AnswerRelies, NobodyRelies
<1> QED
  BY <1>3, <1>5, <1>7 DEF StoreInv

(* So does an update.                                                      *)
LEMMA PostprocessUpdateStore ==
  ASSUME IInv, StoreInv, Grows, NEW c \in Clients, NEW k, NEW tmp,
         PostprocessUpdate(c, k, tmp), Tree(DOMAIN files, dirs'),
         Relies(k, DOMAIN files', dirs')
  PROVE  StoreInv'
<1>1. \/ UNCHANGED files
      \/ \E v : /\ RealOf[k.request.name] \in DOMAIN files
                /\ files' = Put(files, RealOf[k.request.name], v)
  BY Zenon DEF PostprocessUpdate
<1>2. DOMAIN files' = DOMAIN files
  BY <1>1 DEF Put
<1>3. Tree(DOMAIN files', dirs')
  BY <1>2
<1>4. \/ \E code : Answer(c, k, tmp, code)
      \/ conn' = AllClosed
  BY Zenon DEF PostprocessUpdate, Killed
<1>5. \A d \in Clients : Relies(conn'[d], DOMAIN files', dirs')
  BY <1>4, AnswerRelies, NobodyRelies
<1>6. UNCHANGED rows
  BY Zenon DEF PostprocessUpdate
<1> QED
  BY <1>3, <1>5, <1>6, BackedGrows DEF StoreInv

(* So does the end of an upload of any action.                             *)
LEMMA PostProcessStore ==
  ASSUME IInv, StoreInv, Grows, NEW c \in Clients, NEW k, NEW tmp,
         PostProcess(c, k, tmp), Tree(DOMAIN files, dirs'),
         Relies(k, DOMAIN files', dirs'),
         k.request.action = "create" =>
           /\ k.request.name \in Names
           /\ Ancestors[RealOf[k.request.name]] \subseteq dirs'
           /\ RealOf[k.request.name] \in dirs' => RealOf[k.request.name] \in dirs
  PROVE  StoreInv'
<1>1. CASE k.request.action = "create" /\ PostprocessCreate(c, k, tmp)
  <2>1. PICK stored \in DbAnswers :
          AppendUpload(c, k, tmp) \/ MoveUpload(c, k, tmp, stored)
    BY <1>1 DEF PostprocessCreate
  <2> QED
    BY <1>1, <2>1, AppendUploadStore, MoveUploadStore
<1>2. CASE PostprocessUpdate(c, k, tmp)
  BY <1>2, PostprocessUpdateStore
<1>3. CASE Answer(c, k, tmp, "PACKET_OK") /\ UNCHANGED <<rows, files>>
  <2>1. \A d \in Clients : Relies(conn'[d], DOMAIN files', dirs')
    BY <1>3, AnswerRelies
  <2> QED
    BY <1>3, <2>1, BackedGrows DEF StoreInv
<1> QED
  BY <1>1, <1>2, <1>3
     DEF PostProcess, PostprocessNotification, PostprocessLogin
-----------------------------------------------------------------------------
(* The headers.                                                            *)

(* The directories of an accepted create or update are made on top of a    *)
(* tree, and give a tree.                                                  *)
LEMMA MkdirsTree ==
  ASSUME IInv, StoreInv, NEW r \in Requests, Mkdirs(r),
         SetupEnvironment(r) = "SUCCESS"
  PROVE  /\ Tree(DOMAIN files, dirs')
         /\ dirs \subseteq dirs'
         /\ MakesDirs(r) =>
              /\ FileName(r) \in Names
              /\ Ancestors[RealOf[FileName(r)]] \subseteq dirs'
              /\ RealOf[FileName(r)] \in dirs' => RealOf[FileName(r)] \in dirs
<1>1. CASE MakesDirs(r)
  <2> DEFINE path == RealOf[FileName(r)]
  <2>1. FileName(r) \in Names \cup {NoName}
    BY FileNameType
  <2>2. FileName(r) \in Names
    BY <1>1, <2>1 DEF MakesDirs, SetupEnvironment
  <2>3. path \in Reals
    BY <2>2, ServerAssumption
  <2>4. /\ path \notin Ancestors[path]
        /\ \A d \in Ancestors[path] : Ancestors[d] \subseteq Ancestors[path]
    BY <2>3, ServerAssumption
  <2>5. Ancestors[path] \cap DOMAIN files = {}
    BY <1>1 DEF SetupEnvironment, CanMkdirs
  <2>6. dirs' = dirs \cup Ancestors[path]
    BY <1>1 DEF Mkdirs
  <2> HIDE DEF path
  <2>7. Tree(DOMAIN files, dirs')
    BY <2>4, <2>5, <2>6 DEF StoreInv, Tree
  <2> QED
    BY <2>2, <2>4, <2>6, <2>7 DEF path
<1>2. CASE ~MakesDirs(r)
  BY <1>2 DEF Mkdirs, StoreInv
<1> QED
  BY <1>1, <1>2

(* What s3_preprocess_update and s3_preprocess_request have looked up.     *)
LEMMA PreprocessFindsFile ==
  ASSUME NEW r, NEW q, NEW length, NEW ok, q.action \in {"update", "request"},
         Preprocess(r, q, length, ok) = "SUCCESS"
  PROVE  RealOf[q.name] \in DOMAIN files \cup dirs
<1>1. FileExists(q.name, ok)
  BY DEF Preprocess, PreprocessRequest, PreprocessUpdate
<1> QED
  BY <1>1 DEF FileExists

(* The handling of the headers keeps the store sound.                      *)
LEMMA ProcessStore ==
  ASSUME IInv, StoreInv, NEW c \in Clients, NEW r \in Requests,
         TRUE \in AttribsAssert(r), NEW k \in Connections, k.callback = "headers",
         k.request.action = ReadAction(r), k.request.name = FileName(r),
         Process(c, r, k)
  PROVE  StoreInv'
<1> DEFINE tmp == WithTemp(k)
<1>1. SetupEnvironment(r) = "SUCCESS" /\ Mkdirs(r)
  BY DEF Process
<1>2. PICK ok \in DbAnswers :
        \/ RefuseRequest(c, k, tmp, Preprocess(r, k.request, k.length, ok))
        \/ /\ Preprocess(r, k.request, k.length, ok) = "SUCCESS"
           /\ AwaitData(c, k, tmp) \/ CompleteNow(c, k, tmp, r)
  BY DEF Process
<1> DEFINE found == Preprocess(r, k.request, k.length, ok) = "SUCCESS"
<1>3. Grows
  BY ProcessGrows
<1>4. /\ Tree(DOMAIN files, dirs')
      /\ MakesDirs(r) =>
           /\ FileName(r) \in Names
           /\ Ancestors[RealOf[FileName(r)]] \subseteq dirs'
           /\ RealOf[FileName(r)] \in dirs' => RealOf[FileName(r)] \in dirs
  BY <1>1, MkdirsTree
<1>5. k.request.action = "create" => MakesDirs(r) /\ k.request.name = FileName(r)
  <2>1. ASSUME k.request.action = "create" PROVE AttribContains(r, "filename")
    <3>1. \A a \in Required["create"] : AttribContains(r, a)
      BY <2>1 DEF AttribsAssert
    <3> QED
      BY <3>1 DEF Required
  <2> QED
    BY <2>1 DEF MakesDirs
<1>6. Relies(k, DOMAIN files', dirs')
  BY IdleRelies
<1>7. found /\ k.request.action \in {"update", "request"} =>
        RealOf[k.request.name] \in DOMAIN files' \cup dirs'
  BY <1>3, PreprocessFindsFile DEF Grows
<1>8. UNCHANGED files => Tree(DOMAIN files', dirs')
  BY <1>4
<1> HIDE DEF tmp, found
<1>9. CASE RefuseRequest(c, k, tmp, Preprocess(r, k.request, k.length, ok))
  <2>1. PICK code : Answer(c, k, tmp, code)
    BY <1>9 DEF RefuseRequest
  <2>2. \A d \in Clients : Relies(conn'[d], DOMAIN files', dirs')
    BY <1>3, <1>6, <2>1, AnswerRelies
  <2> QED
    BY <1>3, <1>8, <1>9, <2>2, BackedGrows DEF RefuseRequest, StoreInv
<1>10. CASE found /\ AwaitData(c, k, tmp)
  <2>1. Ask(c, k, tmp, "DATA_SEND", "confirm") /\ UNCHANGED <<rows, files>>
    BY <1>10 DEF AwaitData
  <2>2. ReliesIn("confirm", k, DOMAIN files', dirs')
    BY <1>4, <1>5, <1>7, <1>10 DEF ReliesIn
  <2>3. \A d \in Clients : Relies(conn'[d], DOMAIN files', dirs')
    BY <1>3, <1>6, <2>1, <2>2, AskRelies
  <2> QED
    BY <1>3, <1>8, <2>1, <2>3, BackedGrows DEF StoreInv
<1>11. CASE found /\ CompleteNow(c, k, tmp, r)
  <2>1. CASE PostProcess(c, k, tmp)
    BY <1>3, <1>4, <1>5, <1>6, <2>1, PostProcessStore
  <2>2. CASE DeleteFile(c, k, tmp)
    <3>1. \A d \in Clients : Relies(conn'[d], DOMAIN files', dirs')
      BY <1>3, <1>6, <2>2, AnswerRelies DEF DeleteFile
    <3>2. UNCHANGED files
      BY <2>2 DEF DeleteFile
    <3>3. Backed(rows', DOMAIN files', dirs')
      <4>1. rows' = [rows EXCEPT ![k.request.name] = <<>>]
        BY <2>2 DEF DeleteFile
      <4> QED
        BY <1>3, <4>1 DEF IInv, TypeOK, StoreInv, Backed, Grows
    <3> QED
      BY <1>8, <3>1, <3>2, <3>3 DEF StoreInv
  <2>3. CASE Answer(c, k, tmp, "DATA_READY") /\ UNCHANGED <<rows, files>>
    <3>1. \A d \in Clients : Relies(conn'[d], DOMAIN files', dirs')
      BY <1>3, <1>6, <2>3, AnswerRelies
    <3> QED
      BY <1>3, <1>8, <2>3, <3>1, BackedGrows DEF StoreInv
  <2>4. CASE Exits(tmp) /\ UNCHANGED <<rows, files>>
    <3>1. \A d \in Clients : Relies(conn'[d], DOMAIN files', dirs')
      BY <2>4, NobodyRelies DEF Exits
    <3> QED
      BY <1>3, <1>8, <2>4, <3>1, BackedGrows DEF StoreInv
  <2>5. CASE /\ k.request.action = "request"
             /\ Ask(c, k, tmp, "DATA_MORE", "upload") /\ UNCHANGED <<rows, files>>
    <3>1. ReliesIn("upload", k, DOMAIN files', dirs')
      BY <1>7, <1>11, <2>5 DEF ReliesIn
    <3>2. \A d \in Clients : Relies(conn'[d], DOMAIN files', dirs')
      BY <1>3, <1>6, <2>5, <3>1, AskRelies
    <3> QED
      BY <1>3, <1>8, <2>5, <3>2, BackedGrows DEF StoreInv
  <2> QED
    BY <1>11, <2>1, <2>2, <2>3, <2>4, <2>5
       DEF CompleteNow, SendServerinfo, SendDirlist, ConfirmUpload
<1> QED
  BY <1>2, <1>9, <1>10, <1>11 DEF found

(* All of s3_connection_headers_read does.                                 *)
LEMMA HeadersReadStore ==
  ASSUME IInv, StoreInv, Grows, NEW c \in Clients, HeadersRead(c)
  PROVE  StoreInv'
<1>1. server = "running" /\ conn[c].callback = "headers"
  BY DEF HeadersRead
<1>2. PICK r \in Requests :
        \/ \E code \in Warnings : RefuseHeaders(c, code)
        \/ /\ TRUE \in AttribsAssert(r)
           /\ temp_file_counter' = NextTemp
           /\ \E payload \in [1..conn[c].length -> Bytes] :
                \/ RefuseSetup(c, Received(c, r, payload), r)
                \/ Process(c, r, Opened(Received(c, r, payload)))
  BY DEF HeadersRead, Refusals
<1>3. ASSUME NEW k, k.callback = "headers", NEW code, Answer(c, k, temps, code),
             UNCHANGED <<rows, files, dirs>>
      PROVE  StoreInv'
  <2>1. Relies(k, DOMAIN files', dirs')
    BY <1>3, IdleRelies
  <2>2. \A d \in Clients : Relies(conn'[d], DOMAIN files', dirs')
    BY <1>3, <2>1, AnswerRelies
  <2> QED
    BY <1>3, <2>2 DEF StoreInv
<1>4. CASE \E code \in Warnings : RefuseHeaders(c, code)
  BY <1>1, <1>3, <1>4 DEF RefuseHeaders
<1>5. CASE /\ TRUE \in AttribsAssert(r)
           /\ temp_file_counter' = NextTemp
           /\ \E payload \in [1..conn[c].length -> Bytes] :
                \/ RefuseSetup(c, Received(c, r, payload), r)
                \/ Process(c, r, Opened(Received(c, r, payload)))
  <2>1. PICK payload \in [1..conn[c].length -> Bytes] :
          \/ RefuseSetup(c, Received(c, r, payload), r)
          \/ Process(c, r, Opened(Received(c, r, payload)))
    BY <1>5
  <2> DEFINE k == Received(c, r, payload)
             o == Opened(k)
  <2>2. /\ k \in Connections /\ k.temp # 0 /\ ~k.open /\ k.index = 0
        /\ k.request = Prepared(r, payload)
        /\ k.callback = "headers"
        /\ Len(k.request.payload) = k.length
        /\ Ready(c, k, temps, temp_file_counter')
    BY <1>1, <1>5, ReceivedFacts
  <2>3. payload \in Seq(Bytes)
    <3>1. conn[c].length \in Nat
      BY DEF IInv, TypeOK, Connections
    <3> QED
      BY <3>1, FunctionIsSequence
  <2>4. k.request.action = ReadAction(r) /\ k.request.name = FileName(r)
    BY <2>2, <2>3, PreparedType
  <2> HIDE DEF k
  <2>5. o \in Connections /\ o.callback = k.callback /\ o.request = k.request
    BY <1>1, <2>2, OpenedFacts
  <2> HIDE DEF o
  <2>6. CASE RefuseSetup(c, k, r)
    BY <1>3, <2>2, <2>6 DEF RefuseSetup
  <2>7. CASE Process(c, r, o)
    BY <1>5, <2>2, <2>4, <2>5, <2>7, ProcessStore
  <2> QED
    BY <2>1, <2>6, <2>7 DEF k, o
<1> QED
  BY <1>2, <1>4, <1>5

(* The data of an upload keeps the store sound.                            *)
LEMMA ReadDataStore ==
  ASSUME IInv, StoreInv, Grows, NEW c \in Clients, ReadData(c)
  PROVE  StoreInv'
<1>1. /\ server = "running" /\ conn[c].callback = "confirm"
      /\ UNCHANGED <<temp_file_counter, dirs, packets>>
  BY DEF ReadData
<1>2. PICK n \in 1..(conn[c].length - conn[c].index) :
        \/ /\ conn' = [conn EXCEPT ![c] = Read(conn[c], n)]
           /\ UNCHANGED <<rows, files>>
        \/ PostProcess(c, Read(conn[c], n), Stored(conn[c], n))
  BY DEF ReadData
<1> DEFINE k == Read(conn[c], n)
           tmp == Stored(conn[c], n)
<1>3. k.callback = "confirm" /\ k.request = conn[c].request
  BY <1>1, ReadFacts
<1>4. Relies(conn[c], DOMAIN files, dirs) /\ Tree(DOMAIN files, dirs)
  BY DEF StoreInv
<1>5. PhaseIn("confirm", conn[c])
  BY <1>1 DEF IInv, PhaseOK, Phase
<1> HIDE DEF k, tmp
<1>6. Relies(k, DOMAIN files, dirs)
  BY <1>1, <1>3, <1>4 DEF Relies, ReliesIn
<1>7. Relies(k, DOMAIN files', dirs')
  BY <1>6, ReliesGrows DEF Grows
<1>8. CASE conn' = [conn EXCEPT ![c] = k] /\ UNCHANGED <<rows, files>>
  <2>1. \A d \in Clients : Relies(conn'[d], DOMAIN files', dirs')
    BY <1>7, <1>8, ConnectionsRely
  <2> QED
    BY <1>1, <1>8, <2>1 DEF StoreInv
<1>9. CASE PostProcess(c, k, tmp)
  <2>1. k.request.action = "create" =>
          /\ k.request.name \in Names
          /\ Ancestors[RealOf[k.request.name]] \subseteq dirs'
    BY <1>1, <1>3, <1>5, <1>6 DEF PhaseIn, Relies, ReliesIn
  <2>2. Tree(DOMAIN files, dirs')
    BY <1>1, <1>4
  <2> QED
    BY <1>1, <1>7, <1>9, <2>1, <2>2, PostProcessStore
<1> QED
  BY <1>2, <1>8, <1>9 DEF k, tmp
-----------------------------------------------------------------------------
(* The invariant, and what follows from it.                                *)

(* Every step keeps the store sound.                                       *)
LEMMA NextStore == IInv /\ StoreInv /\ [Next]_vars => StoreInv'
<1> SUFFICES ASSUME IInv, StoreInv, [Next]_vars PROVE StoreInv'
  OBVIOUS
<1>1. Grows
  BY NextGrows
<1>2. ASSUME UNCHANGED <<rows, files, dirs>>,
             \A d \in Clients : Relies(conn'[d], DOMAIN files', dirs')
      PROVE  StoreInv'
  BY <1>2 DEF StoreInv
<1>3. ASSUME NEW c \in Clients, ClientStep(c) PROVE StoreInv'
  <2>1. ASSUME Handshake(c) PROVE StoreInv'
    <3>1. Fresh.callback = "magic"
      BY DEF Fresh, Between
    <3>2. Relies(Fresh, DOMAIN files', dirs')
      BY <3>1, IdleRelies
    <3>3. conn' = [conn EXCEPT ![c] = Fresh] /\ UNCHANGED <<rows, files, dirs>>
      BY <2>1 DEF Handshake, disk
    <3> QED
      BY <1>1, <1>2, <3>2, <3>3, ConnectionsRely
  <2>2. ASSUME MagicRead(c) PROVE StoreInv'
    <3>1. PICK length \in 0..MaxLength :
            conn' = [conn EXCEPT ![c] =
                      [conn[c] EXCEPT !.callback = "headers", !.length = length,
                                      !.out = <<>>]]
      BY <2>2 DEF MagicRead, IInv, TypeOK
    <3> DEFINE new == [conn[c] EXCEPT !.callback = "headers", !.length = length,
                                      !.out = <<>>]
    <3>2. new.callback = "headers"
      BY DEF IInv, TypeOK, Connections
    <3>3. conn' = [conn EXCEPT ![c] = new]
      BY <3>1
    <3> HIDE DEF new
    <3>4. Relies(new, DOMAIN files', dirs')
      BY <3>2, IdleRelies
    <3>5. UNCHANGED <<rows, files, dirs>>
      BY <2>2 DEF MagicRead, disk
    <3> QED
      BY <1>1, <1>2, <3>3, <3>4, <3>5, ConnectionsRely
  <2>3. ASSUME MagicInvalid(c) \/ HangUp(c) PROVE StoreInv'
    <3>1. Closed.callback = "closed"
      BY DEF Closed, Between
    <3>2. Relies(Closed, DOMAIN files', dirs')
      BY <3>1, IdleRelies
    <3>3. conn' = [conn EXCEPT ![c] = Closed] /\ UNCHANGED <<rows, files, dirs>>
      BY <2>3 DEF MagicInvalid, HangUp, disk
    <3> QED
      BY <1>1, <1>2, <3>2, <3>3, ConnectionsRely
  <2>4. ASSUME ReadTooBig(c) PROVE StoreInv'
    BY <1>2, <2>4, NobodyRelies DEF ReadTooBig, Exits
  <2>5. ASSUME Upload(c) PROVE StoreInv'
    <3>1. PICK code : Answer(c, conn[c], temps, code)
      BY <2>5 DEF Upload, SendFile, NotAccepted
    <3>2. UNCHANGED <<rows, files, dirs>>
      BY <2>5 DEF Upload, SendFile, NotAccepted
    <3>3. Relies(conn[c], DOMAIN files', dirs')
      BY <3>2 DEF StoreInv
    <3> QED
      BY <1>1, <1>2, <3>1, <3>2, <3>3, AnswerRelies
  <2> QED
    BY <1>1, <1>3, <2>1, <2>2, <2>3, <2>4, <2>5, HeadersReadStore, ReadDataStore
       DEF ClientStep
<1>4. CASE Kill
  BY <1>2, <1>4, NobodyRelies DEF Kill, Killed
<1>5. CASE Restart
  <2>1. conn' = AllClosed /\ UNCHANGED <<rows, files, dirs>>
    BY <1>5 DEF Restart, IInv, PhaseOK, disk
  <2> QED
    BY <1>2, <2>1, NobodyRelies
<1>6. CASE UNCHANGED vars
  BY <1>6 DEF vars, StoreInv
<1>7. CASE Accept \/ HandshakeFails
  BY <1>7 DEF Accept, HandshakeFails, disk, StoreInv
<1> QED
  BY <1>3, <1>4, <1>5, <1>6, <1>7 DEF Next

(* The process starts with an empty store.                                 *)
LEMMA InitStore == Init => StoreInv
<1> SUFFICES ASSUME Init PROVE StoreInv
  OBVIOUS
<1>1. \A c \in Clients : conn[c].callback = "closed"
  BY DEF Init, AllClosed, Closed, Between
<1>2. \A c \in Clients : Relies(conn[c], DOMAIN files, dirs)
  BY <1>1, IdleRelies
<1> QED
  BY <1>2 DEF Init, StoreInv, Tree, Backed, NoFiles

(* The stored files, directories and rows stay sound for every             *)
(* interleaving of clients, kills and restarts, and so does what the       *)
(* waiting connections rely on.                                            *)
THEOREM StoreInvariant == Spec => []StoreInv
<1>1. IInv /\ StoreInv /\ [Next]_vars => StoreInv'
  BY NextStore
<1> QED
  BY <1>1, InitStore, ServerInv, PTL DEF Spec

(* Whatever uploads overlap, the folder below files/ stays a tree: mkdirs  *)
(* runs with the headers, rename with the last byte of the data.           *)
THEOREM TreeStaysTree == Spec => []TreeOK
<1>1. StoreInv => TreeOK
  BY DEF StoreInv, Tree, TreeOK
<1> QED
  BY <1>1, StoreInvariant, PTL

(* A row is inserted only once its file is in place, so no kill leaves a   *)
(* row without a path.                                                     *)
THEOREM RowsAreBacked == Spec => []RowsBacked
<1>1. StoreInv => RowsBacked
  BY DEF StoreInv, Backed, RowsBacked
<1> QED
  BY <1>1, StoreInvariant, PTL

(* The path a waiting request or update was checked for is still there     *)
(* when its client has answered.                                           *)
THEOREM PendingFilesStay == Spec => []PendingFilesExist
<1>1. StoreInv => PendingFilesExist
  BY DEF StoreInv, Relies, ReliesIn, PendingFilesExist
<1> QED
  BY <1>1, StoreInvariant, PTL
-----------------------------------------------------------------------------
(* Steps of the store.                                                     *)

(* The two specifications have the file system calls in common.            *)
LEMMA SameCalls ==
  /\ \A s, n : Store!Truncate(s, n) = Truncate(s, n)
  /\ \A s, at, d : Store!WriteAt(s, at, d) = WriteAt(s, at, d)
  /\ \A f, x, v : Store!Put(f, x, v) = Put(f, x, v)
  BY DEF Store!Truncate, Truncate, Store!WriteAt, WriteAt, Store!Larger, Larger,
         Store!Put, Put

(* What each way to store an upload makes of the files.                    *)
LEMMA StoreWays ==
  ASSUME NEW u, NEW data
  PROVE  /\ Store!Replaces(u) <=> /\ u.kind \in {"replace", "extend"}
                                 /\ files' = Put(files, u.path, u.payload)
         /\ Store!Kept(u) = IF u.trim THEN Truncate(files[u.path], u.at)
                            ELSE files[u.path]
         /\ Store!Extends(u, data) <=>
              /\ u.kind = "extend" /\ u.path \in DOMAIN files
              /\ files' = Put(files, u.path,
                              WriteAt(files[u.path], Len(files[u.path]), data))
         /\ Store!Patches(u, data) <=>
              /\ u.kind = "patch" /\ u.path \in DOMAIN files
              /\ files' = Put(files, u.path, WriteAt(Store!Kept(u), u.at, data))
  BY SameCalls DEF Store!Replaces, Store!Kept, Store!Extends, Store!Patches

(* Connection c becomes new and the others stay, so does what is pending.  *)
LEMMA PendingSet ==
  ASSUME conn \in [Clients -> Connections], NEW c \in Clients, NEW new,
         conn' = [conn EXCEPT ![c] = new]
  PROVE  /\ Pending'[c] = PendingOf(new)
         /\ \A d \in Clients \ {c} : Pending'[d] = Pending[d]
  BY DEF Pending

(* Connection c ends its packet, refuses it or begins one.                 *)
LEMMA SettleStep ==
  ASSUME conn \in [Clients -> Connections], NEW c \in Clients, NEW new,
         conn' = [conn EXCEPT ![c] = new], ~Awaits(new),
         \/ UNCHANGED files
         \/ Awaits(conn[c]) /\ Store!Stores(UploadOf(conn[c]))
         \/ ~Awaits(conn[c]) /\ Store!StoresNothing
  PROVE  Store!Next
<1>1. /\ Pending'[c] = Store!NoUpload
      /\ \A d \in Clients \ {c} : Pending'[d] = Pending[d]
  BY PendingSet DEF PendingOf, Store!NoUpload
<1>2. Awaits(conn[c]) =>
        Pending[c] = UploadOf(conn[c]) /\ Pending[c] # Store!NoUpload
  BY DEF Pending, PendingOf, UploadOf, Store!NoUpload
<1>3. ~Awaits(conn[c]) => Pending[c] = Store!NoUpload
  BY DEF Pending, PendingOf, Store!NoUpload
<1>4. Store!Settle(c)
  <2>1. CASE UNCHANGED files
    BY <1>1, <2>1 DEF Store!Settle, Store!OnlyFor
  <2>2. CASE Awaits(conn[c]) /\ Store!Stores(UploadOf(conn[c]))
    BY <1>1, <1>2, <2>2 DEF Store!Settle, Store!OnlyFor
  <2>3. CASE ~Awaits(conn[c]) /\ Store!StoresNothing
    BY <1>1, <1>3, <2>3 DEF Store!Settle, Store!OnlyFor
  <2> QED
    BY <2>1, <2>2, <2>3
<1> QED
  BY <1>4 DEF Store!Next

(* The process is gone.                                                    *)
LEMMA CrashStep ==
  ASSUME conn' = AllClosed, NEW c \in Clients,
         \/ UNCHANGED files
         \/ /\ Awaits(conn[c])
            /\ \/ Store!Stores(UploadOf(conn[c]))
               \/ Store!Tears(UploadOf(conn[c]))
         \/ Store!StoresNothing
  PROVE  Store!Next
<1>1. \A d \in Clients : Pending'[d] = Store!NoUpload
  BY DEF Pending, PendingOf, Awaits, AllClosed, Closed, Between, Store!NoUpload
<1>2. Awaits(conn[c]) =>
        Pending[c] = UploadOf(conn[c]) /\ Pending[c] # Store!NoUpload
  BY DEF Pending, PendingOf, UploadOf, Store!NoUpload
<1>3. Store!Crash
  <2>1. CASE UNCHANGED files \/ Store!StoresNothing
    BY <1>1, <2>1 DEF Store!Crash
  <2>2. CASE /\ Awaits(conn[c])
             /\ \/ Store!Stores(UploadOf(conn[c]))
                \/ Store!Tears(UploadOf(conn[c]))
    BY <1>1, <1>2, <2>2 DEF Store!Crash
  <2> QED
    BY <2>1, <2>2
<1> QED
  BY <1>3 DEF Store!Next

(* An upload without bytes leaves its file as it is, empties it or cuts it *)
(* off.                                                                    *)
LEMMA EmptyUpload ==
  ASSUME FilesType(files), NEW u, u.path \in Reals, u.payload = <<>>,
         u.kind = "patch" /\ u.trim /\ u.path \in DOMAIN files =>
           u.at \in 0..Len(files[u.path]),
         Store!Stores(u) \/ Store!Tears(u)
  PROVE  UNCHANGED files \/ Store!StoresNothing
<1>1. \/ Store!Replaces(u) \/ Store!Extends(u, <<>>) \/ Store!Patches(u, <<>>)
  <2>1. CASE Store!Stores(u)
    BY <2>1 DEF Store!Stores
  <2>2. CASE Store!Tears(u)
    <3>1. PICK m \in 0..Len(u.payload) :
            \/ Store!Extends(u, SubSeq(u.payload, 1, m))
            \/ Store!Patches(u, SubSeq(u.payload, 1, m))
      BY <2>2 DEF Store!Tears
    <3>2. m = 0 /\ SubSeq(u.payload, 1, m) = <<>>
      OBVIOUS
    <3> QED
      BY <3>1, <3>2
  <2> QED
    BY <2>1, <2>2
<1>2. CASE Store!Replaces(u)
  BY <1>2, StoreWays, SameCalls DEF Store!StoresNothing
<1>3. ASSUME u.path \in DOMAIN files, files' = Put(files, u.path, files[u.path])
      PROVE  UNCHANGED files
  BY <1>3 DEF Put, FilesType
<1>4. CASE Store!Extends(u, <<>>)
  BY <1>3, <1>4, StoreWays DEF WriteAt
<1>5. CASE Store!Patches(u, <<>>)
  <2>1. /\ u.kind = "patch" /\ u.path \in DOMAIN files
        /\ files' = Put(files, u.path, Store!Kept(u))
    BY <1>5, StoreWays DEF WriteAt
  <2>2. CASE u.trim
    BY <2>1, <2>2, StoreWays, SameCalls DEF Store!StoresNothing
  <2>3. CASE ~u.trim
    BY <1>3, <2>1, <2>3, StoreWays
  <2> QED
    BY <2>2, <2>3
<1> QED
  BY <1>1, <1>2, <1>4, <1>5
-----------------------------------------------------------------------------
(* The end of a packet.                                                    *)

(* Connection c ended its packet with what upload u makes of the files, or *)
(* the process ended while it did.                                         *)
Ended(c, u) ==
  \/ \E new : /\ conn' = [conn EXCEPT ![c] = new]
              /\ ~Awaits(new)
              /\ UNCHANGED files \/ Store!Stores(u)
  \/ /\ conn' = AllClosed
     /\ UNCHANGED files \/ Store!Stores(u) \/ Store!Tears(u)

(* A final answer, or one that is never written, ends the packet.          *)
LEMMA AnswerEnds ==
  ASSUME NEW c \in Clients, NEW k, ~Awaits(k), NEW tmp, NEW code,
         Answer(c, k, tmp, code)
  PROVE  \E new : conn' = [conn EXCEPT ![c] = new] /\ ~Awaits(new)
<1>1. ~Awaits(Answered(k, code))
  BY DEF Answered, Between, Awaits
<1> QED
  BY <1>1 DEF Answer, Spins

(* s3_postprocess_create stores the upload that was received.              *)
LEMMA CreateEnds ==
  ASSUME NEW c \in Clients, NEW k, ~Awaits(k), NEW tmp,
         tmp[k.temp] = k.request.payload, k.request.action = "create",
         PostprocessCreate(c, k, tmp)
  PROVE  Ended(c, UploadOf(k))
<1> DEFINE u == UploadOf(k)
           path == RealOf[k.request.name]
<1>1. /\ u.kind = IF k.request.append THEN "extend" ELSE "replace"
      /\ u.path = path /\ u.payload = k.request.payload
  BY DEF UploadOf
<1> HIDE DEF u
<1>2. CASE k.request.append /\ AppendUpload(c, k, tmp)
  <2> DEFINE end == Len(files[path])
  <2>1. CASE /\ path \in DOMAIN files
             /\ files' = Put(files, path, WriteAt(files[path], end, k.request.payload))
             /\ Answer(c, k, tmp, "PACKET_OK")
    <3>1. Store!Extends(u, u.payload)
      BY <1>1, <1>2, <2>1, StoreWays
    <3> QED
      BY <2>1, <3>1, AnswerEnds DEF Ended, Store!Stores, u
  <2>2. CASE /\ path \in DOMAIN files
             /\ \E torn \in TornWrites(files[path], end, k.request.payload) :
                  files' = Put(files, path, torn)
             /\ Killed(tmp)
    <3>1. PICK m \in 0..Len(k.request.payload) :
            files' = Put(files, path, WriteAt(files[path], end,
                                              SubSeq(k.request.payload, 1, m)))
      BY <2>2 DEF TornWrites
    <3>2. Store!Extends(u, SubSeq(u.payload, 1, m))
      BY <1>1, <1>2, <2>2, <3>1, StoreWays
    <3>3. Store!Tears(u)
      BY <1>1, <3>2 DEF Store!Tears
    <3> QED
      BY <2>2, <3>3 DEF Ended, Killed, u
  <2>3. CASE UNCHANGED files /\ Answer(c, k, tmp, "PACKET_OK")
    BY <2>3, AnswerEnds DEF Ended
  <2> QED
    BY <1>2, <2>1, <2>2, <2>3 DEF AppendUpload
<1>3. ASSUME NEW ok, MoveUpload(c, k, tmp, ok) PROVE Ended(c, UploadOf(k))
  <2>1. UNCHANGED files \/ files' = Put(files, path, k.request.payload)
    BY <1>3 DEF MoveUpload
  <2>2. UNCHANGED files \/ Store!Stores(u)
    BY <1>1, <2>1, StoreWays DEF Store!Stores
  <2>3. \/ \E after, code : Answer(c, k, after, code)
        \/ conn' = AllClosed
    BY <1>3 DEF MoveUpload, Killed
  <2> QED
    BY <2>2, <2>3, AnswerEnds DEF Ended, u
<1> QED
  BY <1>2, <1>3 DEF PostprocessCreate

(* s3_postprocess_update writes the upload that was received.              *)
LEMMA UpdateEnds ==
  ASSUME NEW c \in Clients, NEW k, ~Awaits(k), NEW tmp,
         tmp[k.temp] = k.request.payload, k.request.action = "update",
         PostprocessUpdate(c, k, tmp)
  PROVE  Ended(c, UploadOf(k))
<1> DEFINE u == UploadOf(k)
           path == RealOf[k.request.name]
           at == k.request.at
           kept == IF k.request.trim THEN Truncate(files[path], at) ELSE files[path]
<1>1. /\ u.kind = "patch" /\ u.path = path /\ u.payload = k.request.payload
      /\ u.at = at /\ u.trim = k.request.trim
  BY DEF UploadOf
<1> HIDE DEF u
<1>2. Store!Kept(u) = kept
  BY <1>1, StoreWays
<1> HIDE DEF kept
<1>3. CASE /\ path \in DOMAIN files
           /\ files' = Put(files, path, WriteAt(kept, at, k.request.payload))
           /\ Answer(c, k, tmp, "PACKET_OK")
  <2>1. Store!Patches(u, u.payload)
    BY <1>1, <1>2, <1>3, StoreWays
  <2> QED
    BY <1>3, <2>1, AnswerEnds DEF Ended, Store!Stores, u
<1>4. CASE /\ path \in DOMAIN files
           /\ \E torn \in TornWrites(kept, at, k.request.payload) :
                files' = Put(files, path, torn)
           /\ Killed(tmp)
  <2>1. PICK m \in 0..Len(k.request.payload) :
          files' = Put(files, path, WriteAt(kept, at, SubSeq(k.request.payload, 1, m)))
    BY <1>4 DEF TornWrites
  <2>2. Store!Patches(u, SubSeq(u.payload, 1, m))
    BY <1>1, <1>2, <1>4, <2>1, StoreWays
  <2>3. Store!Tears(u)
    BY <1>1, <2>2 DEF Store!Tears
  <2> QED
    BY <1>4, <2>3 DEF Ended, Killed, u
<1>5. CASE UNCHANGED files /\ Answer(c, k, tmp, "SERVER_INTERNAL_ERROR")
  BY <1>5, AnswerEnds DEF Ended
<1> QED
  BY <1>3, <1>4, <1>5 DEF PostprocessUpdate, kept

(* The end of an upload of any action.                                     *)
LEMMA PostProcessEnds ==
  ASSUME NEW c \in Clients, NEW k, ~Awaits(k), NEW tmp,
         k.request.action \in {"create", "update"} =>
           tmp[k.temp] = k.request.payload,
         PostProcess(c, k, tmp)
  PROVE  /\ Ended(c, UploadOf(k))
         /\ k.request.action \notin {"create", "update"} => UNCHANGED files
<1>1. CASE k.request.action = "create" /\ PostprocessCreate(c, k, tmp)
  BY <1>1, CreateEnds
<1>2. CASE k.request.action = "update" /\ PostprocessUpdate(c, k, tmp)
  BY <1>2, UpdateEnds
<1>3. CASE /\ k.request.action \in {"notification", "login"}
           /\ Answer(c, k, tmp, "PACKET_OK") /\ UNCHANGED <<rows, files>>
  BY <1>3, AnswerEnds DEF Ended
<1> QED
  BY <1>1, <1>2, <1>3
     DEF PostProcess, PostprocessNotification, PostprocessLogin
-----------------------------------------------------------------------------
(* The handlers.                                                           *)

(* A packet that was awaited ends.                                         *)
LEMMA AwaitedEnds ==
  ASSUME conn \in [Clients -> Connections], NEW c \in Clients, NEW u,
         Ended(c, u),
         UNCHANGED files \/ (Awaits(conn[c]) /\ u = UploadOf(conn[c]))
  PROVE  Store!Next
<1>1. ASSUME NEW new, conn' = [conn EXCEPT ![c] = new], ~Awaits(new),
             UNCHANGED files \/ Store!Stores(u)
      PROVE  Store!Next
  <2>1. \/ UNCHANGED files
        \/ Awaits(conn[c]) /\ Store!Stores(UploadOf(conn[c]))
    BY <1>1
  <2> QED
    BY <1>1, <2>1, SettleStep
<1>2. CASE /\ conn' = AllClosed
           /\ UNCHANGED files \/ Store!Stores(u) \/ Store!Tears(u)
  BY <1>2, CrashStep
<1> QED
  BY <1>1, <1>2 DEF Ended

(* A packet without data ends in the event that brought its headers.       *)
LEMMA EmptyEnds ==
  ASSUME IInv, NEW c \in Clients, ~Awaits(conn[c]), NEW u, Ended(c, u),
         u.path \in Reals, u.payload = <<>>,
         u.kind = "patch" /\ u.trim /\ u.path \in DOMAIN files =>
           u.at \in 0..Len(files[u.path])
  PROVE  Store!Next
<1>1. conn \in [Clients -> Connections] /\ FilesType(files)
  BY DEF IInv, TypeOK, FilesType
<1>2. ASSUME NEW new, conn' = [conn EXCEPT ![c] = new], ~Awaits(new),
             UNCHANGED files \/ Store!Stores(u)
      PROVE  Store!Next
  <2>1. UNCHANGED files \/ Store!StoresNothing
    BY <1>1, <1>2, EmptyUpload
  <2> QED
    BY <1>1, <1>2, <2>1, SettleStep
<1>3. CASE /\ conn' = AllClosed
           /\ UNCHANGED files \/ Store!Stores(u) \/ Store!Tears(u)
  BY <1>1, <1>3, EmptyUpload, CrashStep
<1> QED
  BY <1>2, <1>3 DEF Ended

(* network_read_stream: a part of an upload is nothing to the store, the   *)
(* last part commits the upload.                                           *)
LEMMA ReadDataStep ==
  ASSUME IInv, NEW c \in Clients, ReadData(c)
  PROVE  Store!Next \/ UNCHANGED <<files, Pending>>
<1>1. /\ server = "running" /\ conn[c].callback = "confirm"
      /\ UNCHANGED temp_file_counter
      /\ conn \in [Clients -> Connections]
  BY DEF ReadData, IInv, TypeOK
<1>2. PICK n \in 1..(conn[c].length - conn[c].index) :
        \/ /\ conn[c].index + n < conn[c].length
           /\ conn' = [conn EXCEPT ![c] = Read(conn[c], n)]
           /\ UNCHANGED files
        \/ /\ conn[c].index + n = conn[c].length
           /\ PostProcess(c, Read(conn[c], n), Stored(conn[c], n))
  BY DEF ReadData
<1> DEFINE k == Read(conn[c], n)
           tmp == Stored(conn[c], n)
<1>3. /\ k \in Connections
      /\ k.open = conn[c].open
      /\ k.callback = "confirm" /\ k.length = conn[c].length
      /\ k.request = conn[c].request /\ k.index = conn[c].index + n
      /\ k.open => tmp[k.temp] = SubSeq(k.request.payload, 1, k.index)
  BY <1>1, ReadFacts
<1>4. PhaseIn("confirm", conn[c])
  BY <1>1 DEF IInv, PhaseOK, Phase
<1>5. UploadOf(k) = UploadOf(conn[c])
  BY <1>3 DEF UploadOf
<1>6. /\ conn[c].index \in Nat /\ conn[c].length \in Nat
      /\ conn[c].request.payload \in Seq(Bytes)
  BY <1>1 DEF Connections, RequestStates
<1>7. Awaits(conn[c]) <=> conn[c].request.action \in {"create", "update"}
  BY <1>1, <1>4 DEF PhaseIn, Awaits
<1> HIDE DEF k, tmp
<1>8. CASE /\ conn[c].index + n < conn[c].length
           /\ conn' = [conn EXCEPT ![c] = k]
           /\ UNCHANGED files
  <2>1. Awaits(k) <=> Awaits(conn[c])
    BY <1>3, <1>7, <1>8 DEF Awaits
  <2>2. PendingOf(k) = PendingOf(conn[c])
    BY <1>5, <2>1 DEF PendingOf
  <2>3. Pending' = Pending
    BY <1>1, <1>8, <2>2 DEF Pending
  <2> QED
    BY <1>8, <2>3
<1>9. CASE conn[c].index + n = conn[c].length /\ PostProcess(c, k, tmp)
  <2>1. ~Awaits(k)
    BY <1>3, <1>6, <1>9 DEF Awaits
  <2>2. k.request.action \in {"create", "update"} => tmp[k.temp] = k.request.payload
    <3>1. SubSeq(k.request.payload, 1, Len(k.request.payload)) = k.request.payload
      BY <1>3, <1>6
    <3> QED
      BY <1>3, <1>4, <1>9, <3>1 DEF PhaseIn, TempFileRequired
  <2>3. /\ Ended(c, UploadOf(k))
        /\ k.request.action \notin {"create", "update"} => UNCHANGED files
    BY <1>9, <2>1, <2>2, PostProcessEnds
  <2> QED
    BY <1>1, <1>3, <1>5, <1>7, <2>3, AwaitedEnds
<1> QED
  BY <1>2, <1>8, <1>9 DEF k, tmp

(* DATA_SEND announces the upload of a create or an update.                *)
LEMMA AwaitDataStep ==
  ASSUME IInv, NEW c \in Clients, ~Awaits(conn[c]), NEW k \in Connections,
         ~Awaits(k), NEW tmp, AwaitData(c, k, tmp),
         k.request.action \in {"create", "update"} => k.request.name \in Names
  PROVE  Store!Next
<1> DEFINE new == [k EXCEPT !.callback = "confirm", !.out = Append(@, "DATA_SEND")]
<1>1. conn \in [Clients -> Connections] /\ UNCHANGED files
  BY DEF IInv, TypeOK, AwaitData
<1>2. CASE conn' = [conn EXCEPT ![c] = k]
  BY <1>1, <1>2, SettleStep
<1>3. CASE conn' = [conn EXCEPT ![c] = new]
  <2>1. new.request = k.request
    BY DEF Connections
  <2> HIDE DEF new
  <2>2. CASE ~Awaits(new)
    BY <1>1, <1>3, <2>2, SettleStep
  <2>3. CASE Awaits(new)
    <3>1. k.request \in RequestStates /\ RealOf[k.request.name] \in Reals
      BY <2>1, <2>3, ServerAssumption DEF Awaits, Connections
    <3>2. UploadOf(new) \in Store!Uploads
      BY <2>1, <3>1 DEF UploadOf, RequestStates, Store!Uploads
    <3>3. /\ Pending'[c] = UploadOf(new)
          /\ \A d \in Clients \ {c} : Pending'[d] = Pending[d]
      BY <1>1, <1>3, <2>3, PendingSet DEF PendingOf
    <3>4. Pending[c] = Store!NoUpload
      BY DEF Pending, PendingOf, Store!NoUpload
    <3>5. Store!Announce(c)
      BY <1>1, <3>2, <3>3, <3>4 DEF Store!Announce, Store!OnlyFor
    <3> QED
      BY <3>5 DEF Store!Next
  <2> QED
    BY <2>2, <2>3
<1> QED
  BY <1>2, <1>3 DEF AwaitData, Ask, Spins

(* s3_action_preprocess lets an update pass only within its file.          *)
LEMMA PreprocessBounds ==
  ASSUME NEW r, NEW q, q.action = "update", NEW length, NEW ok,
         Preprocess(r, q, length, ok) = "SUCCESS"
  PROVE  InBounds(q.name, q.at)
  BY DEF Preprocess, PreprocessUpdate

(* A packet without data: an upload of no bytes, or none.                  *)
LEMMA CompleteNowStep ==
  ASSUME IInv, NEW c \in Clients, ~Awaits(conn[c]), NEW k \in Connections,
         k.callback = "headers", Len(k.request.payload) = 0, NEW tmp, NEW r,
         k.request.action \in {"create", "update"} =>
           tmp[k.temp] = <<>> /\ k.request.name \in Names,
         k.request.action = "update" => InBounds(k.request.name, k.request.at),
         CompleteNow(c, k, tmp, r)
  PROVE  Store!Next
<1>1. conn \in [Clients -> Connections] /\ FilesType(files) /\ ~Awaits(k)
  BY DEF IInv, TypeOK, FilesType, Awaits
<1>2. k.request.payload = <<>> /\ k.request.at \in Nat
  BY DEF Connections, RequestStates
<1>3. CASE PostProcess(c, k, tmp)
  <2>1. /\ Ended(c, UploadOf(k))
        /\ k.request.action \notin {"create", "update"} => UNCHANGED files
    BY <1>1, <1>2, <1>3, PostProcessEnds
  <2>2. CASE k.request.action \notin {"create", "update"}
    BY <1>1, <2>1, <2>2, AwaitedEnds
  <2>3. CASE k.request.action \in {"create", "update"}
    <3> DEFINE u == UploadOf(k)
    <3>1. /\ u.path = RealOf[k.request.name] /\ u.payload = <<>>
          /\ u.at = k.request.at
          /\ u.kind = "patch" => k.request.action = "update"
      BY <1>2 DEF UploadOf
    <3> HIDE DEF u
    <3>2. u.path \in Reals
      BY <2>3, <3>1, ServerAssumption
    <3>3. u.kind = "patch" /\ u.path \in DOMAIN files =>
            u.at \in 0..Len(files[u.path])
      <4>1. u.path \in DOMAIN files => Len(files[u.path]) \in Nat
        BY <1>1 DEF FilesType, Content
      <4> QED
        BY <1>2, <3>1, <4>1 DEF InBounds
    <3> QED
      BY <2>1, <3>1, <3>2, <3>3, EmptyEnds DEF u
  <2> QED
    BY <2>2, <2>3
<1>4. ASSUME NEW code, Answer(c, k, tmp, code), UNCHANGED files PROVE Store!Next
  <2>1. PICK new : conn' = [conn EXCEPT ![c] = new] /\ ~Awaits(new)
    BY <1>1, <1>4, AnswerEnds
  <2> QED
    BY <1>1, <1>4, <2>1, SettleStep
<1>5. CASE Exits(tmp) /\ UNCHANGED files
  BY <1>5, CrashStep DEF Exits
<1>6. CASE Ask(c, k, tmp, "DATA_MORE", "upload") /\ UNCHANGED files
  <2> DEFINE new == [k EXCEPT !.callback = "upload", !.out = Append(@, "DATA_MORE")]
  <2>1. ~Awaits(new)
    BY DEF Awaits, Connections
  <2>2. conn' = [conn EXCEPT ![c] = new] \/ conn' = [conn EXCEPT ![c] = k]
    BY <1>6 DEF Ask, Spins
  <2> HIDE DEF new
  <2> QED
    BY <1>1, <1>6, <2>1, <2>2, SettleStep
<1> QED
  BY <1>3, <1>4, <1>5, <1>6
     DEF CompleteNow, DeleteFile, SendServerinfo, SendDirlist, ConfirmUpload

(* s3_connection_headers_read.                                             *)
LEMMA HeadersReadStep ==
  ASSUME IInv, NEW c \in Clients, HeadersRead(c)
  PROVE  Store!Next
<1>1. /\ server = "running" /\ conn[c].callback = "headers"
      /\ conn \in [Clients -> Connections] /\ ~Awaits(conn[c])
  BY DEF HeadersRead, IInv, TypeOK, Awaits
<1>2. ASSUME NEW k, ~Awaits(k), NEW tmp, NEW code, Answer(c, k, tmp, code),
             UNCHANGED files
      PROVE  Store!Next
  <2>1. PICK new : conn' = [conn EXCEPT ![c] = new] /\ ~Awaits(new)
    BY <1>2, AnswerEnds
  <2> QED
    BY <1>1, <1>2, <2>1, SettleStep
<1>3. PICK r \in Requests :
        \/ \E code \in Warnings : RefuseHeaders(c, code)
        \/ /\ TRUE \in AttribsAssert(r)
           /\ temp_file_counter' = NextTemp
           /\ \E payload \in [1..conn[c].length -> Bytes] :
                \/ RefuseSetup(c, Received(c, r, payload), r)
                \/ Process(c, r, Opened(Received(c, r, payload)))
  BY DEF HeadersRead, Refusals
<1>4. CASE \E code \in Warnings : RefuseHeaders(c, code)
  BY <1>1, <1>2, <1>4 DEF RefuseHeaders
<1>5. CASE /\ TRUE \in AttribsAssert(r)
           /\ temp_file_counter' = NextTemp
           /\ \E payload \in [1..conn[c].length -> Bytes] :
                \/ RefuseSetup(c, Received(c, r, payload), r)
                \/ Process(c, r, Opened(Received(c, r, payload)))
  <2>1. PICK payload \in [1..conn[c].length -> Bytes] :
          \/ RefuseSetup(c, Received(c, r, payload), r)
          \/ Process(c, r, Opened(Received(c, r, payload)))
    BY <1>5
  <2> DEFINE k == Received(c, r, payload)
             o == Opened(k)
             tmp == WithTemp(o)
  <2>2. /\ k \in Connections
        /\ k.temp # 0 /\ ~k.open /\ k.index = 0
        /\ k.request = Prepared(r, payload)
        /\ k.length = conn[c].length /\ k.callback = "headers"
        /\ Len(k.request.payload) = k.length
        /\ Ready(c, k, temps, temp_file_counter')
    BY <1>1, <1>5, ReceivedFacts
  <2>3. payload \in Seq(Bytes)
    <3>1. conn[c].length \in Nat
      BY <1>1 DEF Connections
    <3> QED
      BY <3>1, FunctionIsSequence
  <2>4. k.request.action = ReadAction(r) /\ k.request.name = FileName(r)
    BY <2>2, <2>3, PreparedType
  <2> HIDE DEF k
  <2>5. /\ o \in Connections
        /\ o.temp = k.temp /\ o.index = 0 /\ o.request = k.request
        /\ o.length = k.length /\ o.callback = "headers"
        /\ o.open = TempFileRequired(k.request.action)
        /\ o.open => tmp[o.temp] = SubSeq(o.request.payload, 1, o.index)
    BY <1>1, <2>2, OpenedFacts
  <2> HIDE DEF o, tmp
  <2>6. ~Awaits(k) /\ ~Awaits(o)
    BY <2>2, <2>5 DEF Awaits
  <2>7. CASE RefuseSetup(c, k, r)
    BY <1>2, <2>6, <2>7 DEF RefuseSetup
  <2>8. CASE Process(c, r, o)
    <3>1. o.request.action \in {"create", "update"} => o.request.name \in Names
      BY <1>5, <2>4, <2>5, <2>8, AcceptedName DEF Process
    <3>2. PICK ok \in DbAnswers :
            \/ RefuseRequest(c, o, tmp, Preprocess(r, o.request, o.length, ok))
            \/ /\ Preprocess(r, o.request, o.length, ok) = "SUCCESS"
               /\ AwaitData(c, o, tmp) \/ CompleteNow(c, o, tmp, r)
      BY <2>8 DEF Process, tmp
    <3>3. CASE RefuseRequest(c, o, tmp, Preprocess(r, o.request, o.length, ok))
      BY <1>2, <2>6, <3>3 DEF RefuseRequest
    <3>4. CASE AwaitData(c, o, tmp)
      BY <1>1, <2>5, <2>6, <3>1, <3>4, AwaitDataStep
    <3>5. CASE /\ Preprocess(r, o.request, o.length, ok) = "SUCCESS"
               /\ CompleteNow(c, o, tmp, r)
      <4>1. o.length = 0 /\ Len(o.request.payload) = 0
        BY <2>2, <2>5, <3>5 DEF CompleteNow
      <4>2. o.request.action \in {"create", "update"} => tmp[o.temp] = <<>>
        <5>1. SubSeq(o.request.payload, 1, 0) = <<>>
          BY <2>5 DEF Connections, RequestStates
        <5> QED
          BY <2>5, <5>1 DEF TempFileRequired
      <4>3. o.request.action = "update" => InBounds(o.request.name, o.request.at)
        BY <3>5, PreprocessBounds
      <4> QED
        BY <1>1, <2>5, <3>1, <3>5, <4>1, <4>2, <4>3, CompleteNowStep
    <3> QED
      BY <3>2, <3>3, <3>4, <3>5
  <2> QED
    BY <2>1, <2>7, <2>8 DEF k, o
<1> QED
  BY <1>3, <1>4, <1>5

(* Every step of the server is a step of the store or none.                *)
LEMMA NextStep == IInv /\ [Next]_vars => Store!Next \/ UNCHANGED <<files, Pending>>
<1> SUFFICES ASSUME IInv, [Next]_vars
             PROVE  Store!Next \/ UNCHANGED <<files, Pending>>
  OBVIOUS
<1>1. conn \in [Clients -> Connections]
  BY DEF IInv, TypeOK
<1>2. ASSUME UNCHANGED <<conn, files>> PROVE UNCHANGED <<files, Pending>>
  BY <1>2 DEF Pending
<1>3. ASSUME NEW c \in Clients, Handshake(c) \/ MagicInvalid(c) \/ HangUp(c)
      PROVE  Store!Next
  <2>1. UNCHANGED files
    BY <1>3 DEF Handshake, MagicInvalid, HangUp, disk
  <2>2. conn' = [conn EXCEPT ![c] = Fresh] \/ conn' = [conn EXCEPT ![c] = Closed]
    BY <1>3 DEF Handshake, MagicInvalid, HangUp
  <2>3. ~Awaits(Fresh) /\ ~Awaits(Closed)
    BY DEF Fresh, Closed, Between, Awaits
  <2> QED
    BY <1>1, <2>1, <2>2, <2>3, SettleStep
<1>4. ASSUME NEW c \in Clients, MagicRead(c) PROVE Store!Next
  <2>1. PICK length \in 0..MaxLength :
          conn' = [conn EXCEPT ![c] =
                    [conn[c] EXCEPT !.callback = "headers", !.length = length,
                                    !.out = <<>>]]
    BY <1>1, <1>4 DEF MagicRead
  <2> DEFINE new == [conn[c] EXCEPT !.callback = "headers", !.length = length,
                                    !.out = <<>>]
  <2>2. ~Awaits(new)
    BY <1>1 DEF Awaits, Connections
  <2>3. conn' = [conn EXCEPT ![c] = new] /\ UNCHANGED files
    BY <1>4, <2>1 DEF MagicRead, disk
  <2> HIDE DEF new
  <2> QED
    BY <1>1, <2>2, <2>3, SettleStep
<1>5. ASSUME NEW c \in Clients, Upload(c) PROVE Store!Next
  <2>1. PICK code \in {"DATA_READY", "NETWORK_ERROR_WRITE"} :
          Answer(c, conn[c], temps, code)
    BY <1>5 DEF Upload, SendFile, NotAccepted
  <2>2. ~Awaits(conn[c]) /\ UNCHANGED files
    BY <1>5 DEF Upload, Awaits
  <2>3. PICK new : conn' = [conn EXCEPT ![c] = new] /\ ~Awaits(new)
    BY <2>1, <2>2, AnswerEnds
  <2> QED
    BY <1>1, <2>2, <2>3, SettleStep
<1>6. ASSUME NEW c \in Clients, ReadTooBig(c) PROVE Store!Next
  BY <1>6, CrashStep DEF ReadTooBig, Exits
<1>7. CASE Kill
  <2>1. conn' = AllClosed /\ UNCHANGED files
    BY <1>7 DEF Kill, Killed
  <2>2. \A c \in Clients : Pending'[c] = Store!NoUpload
    BY <2>1 DEF Pending, PendingOf, Awaits, AllClosed, Closed, Between, Store!NoUpload
  <2> QED
    BY <2>1, <2>2 DEF Store!Crash, Store!Next
<1>8. CASE Accept \/ HandshakeFails \/ Restart \/ UNCHANGED vars
  BY <1>2, <1>8 DEF Accept, HandshakeFails, Restart, disk, vars
<1> QED
  BY <1>3, <1>4, <1>5, <1>6, <1>7, <1>8, HeadersReadStep, ReadDataStep
     DEF Next, ClientStep
-----------------------------------------------------------------------------
(* The server keeps the promise of FileStore, for any number of clients,   *)
(* any requests, failed queries, vanished peers and kills: a stored file   *)
(* changes only by a whole upload of one client, and only a kill can leave *)
(* an append or an update partly written.                                  *)
THEOREM StoreRefined == Spec => StoreSpec
<1>1. Init => Store!Init
  BY DEF Init, Store!Init, NoFiles, Store!NoFiles, AllClosed, Closed, Between,
         Pending, PendingOf, Awaits, Store!NoUpload
<1>2. IInv /\ [Next]_vars => [Store!Next]_<<files, Pending>>
  BY NextStep
<1> QED
  BY <1>1, <1>2, ServerInv, PTL DEF Spec, StoreSpec, Store!Spec
=============================================================================
