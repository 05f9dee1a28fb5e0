---------------------------- MODULE ServerProofs ----------------------------
(***************************************************************************)
(* Proofs about Server for every set of clients, names and paths, every    *)
(* set of requests and every bound: types, temporary files, and how the    *)
(* packets are answered.                                                   *)
(***************************************************************************)
EXTENDS Server, FiniteSetTheorems, TLAPS

-----------------------------------------------------------------------------
(* Contents and directories: facts about FileContent, for every set of     *)
(* bytes, every content and every position.                                *)

(* A function on 1..n is a sequence.                                       *)
LEMMA FunctionIsSequence ==
  ASSUME NEW S, NEW n \in Nat, NEW f \in [1..n -> S]
  PROVE  f \in Seq(S) /\ Len(f) = n
  OBVIOUS

(* And a sequence is such a function.                                      *)
LEMMA SequenceIsFunction ==
  ASSUME NEW S, NEW s \in Seq(S)
  PROVE  s \in [1..Len(s) -> S]
  OBVIOUS

(* Two neighbouring pieces of a sequence make one piece.                   *)
LEMMA SubSeqConcat ==
  ASSUME NEW S, NEW s \in Seq(S), NEW i \in Nat, NEW n \in Nat, i + n <= Len(s)
  PROVE  SubSeq(s, 1, i) \o SubSeq(s, i + 1, i + n) = SubSeq(s, 1, i + n)
<1> DEFINE head == SubSeq(s, 1, i)
           tail == SubSeq(s, i + 1, i + n)
           both == SubSeq(s, 1, i + n)
<1>1. /\ head \in Seq(S) /\ Len(head) = i /\ tail \in Seq(S) /\ Len(tail) = n
      /\ both \in Seq(S) /\ Len(both) = i + n
  OBVIOUS
<1>2. head \o tail \in Seq(S) /\ Len(head \o tail) = i + n
  BY <1>1
<1>3. ASSUME NEW j \in 1..(i + n) PROVE (head \o tail)[j] = both[j]
  <2>1. CASE j <= i
    BY <2>1
  <2>2. CASE j > i
    BY <2>2
  <2> QED
    BY <2>1, <2>2
<1> HIDE DEF head, tail, both
<1>4. head \o tail \in [1..(i + n) -> S] /\ both \in [1..(i + n) -> S]
  BY <1>1, <1>2, SequenceIsFunction
<1>5. head \o tail = both
  BY <1>3, <1>4
<1> QED
  BY <1>5 DEF head, tail, both

(* What clients send can be the content of a file.                         *)
LEMMA BytesContent == Seq(Bytes) \subseteq Content
  BY DEF Content

(* Writing data of a client into a content gives a content: every byte of  *)
(* the result is one of the file, one of the data or a zero of the gap     *)
(* (file_append).                                                          *)
LEMMA WriteAtType ==
  ASSUME NEW s \in Content, NEW at \in Nat, NEW d \in Content
  PROVE  WriteAt(s, at, d) \in Content
<1>1. CASE d = <<>>
  BY <1>1 DEF WriteAt
<1>2. CASE d # <<>>
  <2> DEFINE n == Larger(Len(s), at + Len(d))
  <2>1. n \in Nat
    BY DEF Content, Larger
  <2>2. \A i \in 1..n : (IF i \in (at + 1)..(at + Len(d)) THEN d[i - at]
          ELSE IF i <= Len(s) THEN s[i] ELSE Zero) \in Bytes \cup {Zero}
    BY DEF Content
  <2>3. WriteAt(s, at, d) \in [1..n -> Bytes \cup {Zero}]
    BY <1>2, <2>2 DEF WriteAt
  <2> QED
    BY <2>1, <2>3, FunctionIsSequence DEF Content
<1> QED
  BY <1>1, <1>2

(* A truncated or extended content is a content.                           *)
LEMMA TruncateType ==
  ASSUME NEW s \in Content, NEW n \in Nat
  PROVE  Truncate(s, n) \in Content
  BY DEF Truncate, Content

(* What a killed write leaves is a content.                                *)
LEMMA TornWritesType ==
  ASSUME NEW s \in Content, NEW at \in Nat, NEW d \in Content
  PROVE  TornWrites(s, at, d) \subseteq Content
<1>1. \A m \in 0..Len(d) : SubSeq(d, 1, m) \in Content
  BY DEF Content
<1> QED
  BY <1>1, WriteAtType DEF TornWrites

(* Putting a file in a directory keeps the other files.                    *)
LEMMA PutFacts ==
  ASSUME NEW f, NEW x, NEW v
  PROVE  /\ DOMAIN Put(f, x, v) = DOMAIN f \cup {x}
         /\ Put(f, x, v)[x] = v
         /\ \A y \in DOMAIN f \ {x} : Put(f, x, v)[y] = f[y]
  BY DEF Put

(* Removing a file from a directory keeps the other files.                 *)
LEMMA WithoutFacts ==
  ASSUME NEW f, NEW x
  PROVE  /\ DOMAIN Without(f, x) = DOMAIN f \ {x}
         /\ \A y \in DOMAIN f \ {x} : Without(f, x)[y] = f[y]
  BY DEF Without

(* A write within or at the end of a file leaves no hole: without zeros in *)
(* the file and the data there is none in the result.                      *)
LEMMA WriteAtNoHole ==
  ASSUME NEW s \in Seq(Bytes), NEW at \in Nat, at <= Len(s),
         NEW d \in Seq(Bytes)
  PROVE  WriteAt(s, at, d) \in Seq(Bytes)
<1>1. CASE d = <<>>
  BY <1>1 DEF WriteAt
<1>2. CASE d # <<>>
  <2> DEFINE n == Larger(Len(s), at + Len(d))
  <2>1. n \in Nat
    BY DEF Larger
  <2>2. \A i \in 1..n : (IF i \in (at + 1)..(at + Len(d)) THEN d[i - at]
          ELSE IF i <= Len(s) THEN s[i] ELSE Zero) \in Bytes
    BY DEF Larger
  <2> QED
    BY <1>2, <2>1, <2>2 DEF WriteAt
<1> QED
  BY <1>1, <1>2
-----------------------------------------------------------------------------
(* The inductive invariant.                                                *)

TempsType(tmp) == DOMAIN tmp \subseteq Nat /\ tmp \in [DOMAIN tmp -> Content]

(* What a connection holds while it waits in each callback.                *)
PhaseIn(callback, k) ==
  /\ callback \in {"closed", "magic", "headers"} =>
       k.temp = 0 /\ ~k.open /\ k.index = 0
  /\ callback = "confirm" =>
       /\ k.request.action \in {"create", "update", "notification", "login"}
       /\ k.open <=> TempFileRequired(k.request.action)
       /\ k.temp # 0
       /\ Len(k.request.payload) = k.length
       /\ k.index < k.length
       /\ k.request.action \in {"create", "update"} => k.request.name \in Names
  /\ callback = "upload" => ~k.open /\ k.temp # 0 /\ k.request.name \in Names

Phase(k) == PhaseIn(k.callback, k)

PhaseOK ==
  /\ server = "down" => conn = AllClosed
  /\ server # "spinning" => \A c \in Clients : Phase(conn[c])

(* Names given out are numbers the counter has reached.                    *)
TempBound == \A c \in Clients : conn[c].temp <= temp_file_counter

IInv == TypeOK /\ PhaseOK /\ TempBound /\ TempNamesDistinct /\ TempHoldsUpload

(* The part of it that is about the variables Answer, Ask, Killed and      *)
(* Exits set.                                                              *)
LoopInv ==
  /\ server \in {"running", "accepting", "spinning", "down"}
  /\ conn \in [Clients -> Connections]
  /\ TempsType(temps)
  /\ kills \in Nat
  /\ PhaseOK
  /\ TempBound
  /\ TempNamesDistinct
  /\ TempHoldsUpload

(* The connection c in the middle of an event, when it is k and the        *)
(* temporary files are tmp.                                                *)
Ready(c, k, tmp, counter) ==
  /\ k \in Connections
  /\ TempsType(tmp)
  /\ temp_file_counter \in Nat /\ counter \in Nat
  /\ temp_file_counter <= counter
  /\ k.temp <= counter
  /\ \A d \in Clients \ {c} :
       /\ conn[d].temp # 0 => conn[d].temp # k.temp
       /\ conn[d].open =>
            /\ conn[d].temp \in DOMAIN tmp
            /\ tmp[conn[d].temp] =
                 SubSeq(conn[d].request.payload, 1, conn[d].index)
-----------------------------------------------------------------------------
(* What the connections a packet leaves behind look like.                  *)
LEMMA BetweenFacts ==
  ASSUME NEW callback \in {"closed", "magic"}, NEW sha \in Seq(Bytes),
         NEW out \in Seq(Interim \cup Final)
  PROVE  /\ Between(callback, sha, out) \in Connections
         /\ Phase(Between(callback, sha, out))
         /\ Between(callback, sha, out).temp = 0
         /\ ~Between(callback, sha, out).open
  BY DEF Between, NoRequest, Connections, RequestStates, Phase, PhaseIn

(* A closed connection has the shape of one, and so has a new one.         *)
LEMMA ClosedFacts ==
  Closed \in Connections /\ Phase(Closed) /\ Closed.temp = 0 /\ ~Closed.open
<1>1. <<>> \in Seq(Bytes) /\ <<>> \in Seq(Interim \cup Final)
  OBVIOUS
<1> QED
  BY <1>1, BetweenFacts DEF Closed

(* So have all of them when the process is down.                           *)
LEMMA AllClosedFacts ==
  /\ AllClosed \in [Clients -> Connections]
  /\ \A c \in Clients : /\ AllClosed[c].temp = 0
                        /\ ~AllClosed[c].open
                        /\ Phase(AllClosed[c])
  BY ClosedFacts DEF AllClosed

(* A final answer leaves a connection that is closed or waits for a        *)
(* packet.                                                                 *)
LEMMA AnsweredFacts ==
  ASSUME NEW k \in Connections, NEW code \in Final
  PROVE  /\ Answered(k, code) \in Connections
         /\ Phase(Answered(k, code))
         /\ Answered(k, code).temp = 0
         /\ ~Answered(k, code).open
<1>1. k.out \o FinalResponse(code) \in Seq(Interim \cup Final) /\ k.sha \in Seq(Bytes)
  BY DEF Connections, FinalResponse
<1>2. <<>> \in Seq(Bytes)
  OBVIOUS
<1> DEFINE out == k.out \o FinalResponse(code)
<1>3. CASE code \in Errors
  <2>1. Answered(k, code) = Between("closed", <<>>, out)
    BY <1>3 DEF Answered
  <2> QED
    BY <2>1, <1>1, <1>2, BetweenFacts
<1>4. CASE code \notin Errors
  <2>1. Answered(k, code) = Between("magic", k.sha, out)
    BY <1>4 DEF Answered
  <2> QED
    BY <2>1, <1>1, BetweenFacts
<1> QED
  BY <1>3, <1>4

(* Removing a temporary file leaves the others as they are.                *)
LEMMA WithoutType ==
  ASSUME NEW tmp, TempsType(tmp), NEW x
  PROVE  TempsType(Without(tmp, x))
  BY DEF TempsType, Without

(* Giving connection c a new state that has its own temporary file, or     *)
(* none, keeps the temporary file names apart.                             *)
LEMMA ConnectionSet ==
  ASSUME IInv, NEW c \in Clients, NEW k, NEW tmp,
         Ready(c, k, tmp, temp_file_counter'),
         NEW new \in Connections, new.temp \in {0, k.temp},
         conn' = [conn EXCEPT ![c] = new]
  PROVE  /\ conn' \in [Clients -> Connections]
         /\ conn'[c] = new
         /\ \A d \in Clients \ {c} : conn'[d] = conn[d]
         /\ TempBound'
         /\ TempNamesDistinct'
<1> USE DEF IInv
<1>1. conn' \in [Clients -> Connections] /\ conn'[c] = new
  BY DEF TypeOK
<1>2. \A d \in Clients \ {c} : conn'[d] = conn[d]
  BY DEF TypeOK
<1>3. TempBound'
  <2> SUFFICES ASSUME NEW d \in Clients
               PROVE  conn'[d].temp <= temp_file_counter'
    BY DEF TempBound
  <2>1. conn[d].temp \in Nat /\ conn[d].temp <= temp_file_counter
    BY DEF TempBound, TypeOK, Connections
  <2>2. /\ temp_file_counter \in Nat /\ temp_file_counter' \in Nat
        /\ temp_file_counter <= temp_file_counter'
        /\ k.temp <= temp_file_counter'
    BY DEF Ready
  <2>3. CASE d = c
    BY <1>1, <2>2, <2>3
  <2>4. CASE d # c
    BY <1>2, <2>1, <2>2, <2>4
  <2> QED
    BY <2>3, <2>4
<1>4. TempNamesDistinct'
  BY <1>1, <1>2 DEF TempNamesDistinct, Ready
<1> QED
  BY <1>1, <1>2, <1>3, <1>4

(* The end of a packet keeps the invariant: the connection c gives up its  *)
(* temporary file and is new afterwards.                                   *)
LEMMA PacketEndInv ==
  ASSUME IInv, server = "running", NEW c \in Clients, NEW k, NEW tmp,
         Ready(c, k, tmp, temp_file_counter'),
         NEW new \in Connections, Phase(new), new.temp = 0, ~new.open,
         conn' = [conn EXCEPT ![c] = new], temps' = Without(tmp, k.temp),
         UNCHANGED <<server, kills>>
  PROVE  LoopInv'
<1> USE DEF IInv
<1>1. /\ conn' \in [Clients -> Connections]
      /\ conn'[c] = new
      /\ \A d \in Clients \ {c} : conn'[d] = conn[d]
      /\ TempBound' /\ TempNamesDistinct'
  BY ConnectionSet
<1>2. TempsType(temps')
  BY WithoutType DEF Ready
<1>3. PhaseOK'
  BY <1>1 DEF PhaseOK
<1>4. TempHoldsUpload'
  <2> SUFFICES ASSUME NEW d \in Clients, conn'[d].open
               PROVE  /\ conn'[d].temp \in DOMAIN temps'
                      /\ temps'[conn'[d].temp] =
                           SubSeq(conn'[d].request.payload, 1, conn'[d].index)
    BY DEF TempHoldsUpload
  <2>1. d # c /\ conn'[d] = conn[d] /\ conn[d].open
    BY <1>1
  <2>2. conn[d].temp # 0
    BY <2>1 DEF PhaseOK, Phase, PhaseIn, TypeOK, Connections
  <2>3. /\ conn[d].temp # k.temp
        /\ conn[d].temp \in DOMAIN tmp
        /\ tmp[conn[d].temp] =
             SubSeq(conn[d].request.payload, 1, conn[d].index)
    BY <2>1, <2>2 DEF Ready
  <2> QED
    BY <2>1, <2>3 DEF Without
<1> QED
  BY <1>1, <1>2, <1>3, <1>4 DEF LoopInv, TypeOK

(* A write that never ends keeps it: the loop does not go on.              *)
LEMMA SpinningInv ==
  ASSUME IInv, NEW c \in Clients, NEW k, NEW tmp,
         Ready(c, k, tmp, temp_file_counter'),
         conn' = [conn EXCEPT ![c] = k], temps' = tmp, server' = "spinning",
         UNCHANGED kills
  PROVE  LoopInv'
<1>1. PhaseOK' /\ TempHoldsUpload'
  BY DEF PhaseOK, TempHoldsUpload
<1>2. conn' \in [Clients -> Connections] /\ TempBound' /\ TempNamesDistinct'
  BY ConnectionSet DEF Ready
<1>3. TempsType(temps') /\ kills' \in Nat
  BY DEF Ready, IInv, TypeOK
<1> QED
  BY <1>1, <1>2, <1>3 DEF LoopInv

(* A final answer keeps the invariant.                                     *)
LEMMA AnswerInv ==
  ASSUME IInv, server = "running", NEW c \in Clients, NEW k, NEW tmp,
         Ready(c, k, tmp, temp_file_counter'), NEW code \in Final,
         Answer(c, k, tmp, code)
  PROVE  LoopInv'
<1>1. CASE /\ conn' = [conn EXCEPT ![c] = Answered(k, code)]
           /\ temps' = Without(tmp, k.temp)
           /\ UNCHANGED <<server, kills>>
  <2>1. PICK new \in Connections : /\ conn' = [conn EXCEPT ![c] = new]
                                   /\ Phase(new) /\ new.temp = 0 /\ ~new.open
    BY <1>1, AnsweredFacts DEF Ready
  <2> QED
    BY <1>1, <2>1, PacketEndInv
<1>2. CASE /\ conn' = [conn EXCEPT ![c] = k] /\ temps' = tmp
           /\ server' = "spinning" /\ UNCHANGED kills
  BY <1>2, SpinningInv
<1> QED
  BY <1>1, <1>2 DEF Answer, Spins

(* An event after which connection c goes on with its packet, now as new.  *)
LEMMA ContinueInv ==
  ASSUME IInv, server # "spinning", NEW c \in Clients, NEW k, NEW tmp,
         Ready(c, k, tmp, temp_file_counter'),
         NEW new \in Connections, new.temp = k.temp, Phase(new),
         new.open =>
           /\ new.temp \in DOMAIN tmp
           /\ tmp[new.temp] = SubSeq(new.request.payload, 1, new.index),
         conn' = [conn EXCEPT ![c] = new], temps' = tmp,
         server' = "running", UNCHANGED kills
  PROVE  LoopInv'
<1> USE DEF IInv
<1>1. /\ conn' \in [Clients -> Connections]
      /\ conn'[c] = new
      /\ \A d \in Clients \ {c} : conn'[d] = conn[d]
      /\ TempBound' /\ TempNamesDistinct'
  BY ConnectionSet
<1>2. PhaseOK'
  BY <1>1 DEF PhaseOK
<1>3. TempHoldsUpload'
  <2> SUFFICES ASSUME NEW d \in Clients, conn'[d].open
               PROVE  /\ conn'[d].temp \in DOMAIN temps'
                      /\ temps'[conn'[d].temp] =
                           SubSeq(conn'[d].request.payload, 1, conn'[d].index)
    BY DEF TempHoldsUpload
  <2>1. CASE d = c
    BY <1>1, <2>1
  <2>2. CASE d # c
    BY <1>1, <2>2 DEF Ready
  <2> QED
    BY <2>1, <2>2
<1> QED
  BY <1>1, <1>2, <1>3 DEF LoopInv, Ready, TypeOK

(* An interim answer keeps the invariant.                                  *)
LEMMA AskInv ==
  ASSUME IInv, server = "running", NEW c \in Clients, NEW k, NEW tmp,
         Ready(c, k, tmp, temp_file_counter'), NEW code \in Interim,
         NEW callback \in {"confirm", "upload"},
         PhaseIn(callback, k),
         k.open => /\ k.temp \in DOMAIN tmp
                   /\ tmp[k.temp] = SubSeq(k.request.payload, 1, k.index),
         Ask(c, k, tmp, code, callback)
  PROVE  LoopInv'
<1> DEFINE new == [k EXCEPT !.callback = callback, !.out = Append(@, code)]
<1>1. CASE conn' = [conn EXCEPT ![c] = new] /\ UNCHANGED server
  <2>1. k \in Connections
    BY DEF Ready
  <2>2. Append(k.out, code) \in Seq(Interim \cup Final)
    BY <2>1 DEF Connections
  <2>3. new \in Connections
    BY <2>1, <2>2 DEF Connections
  <2>4. /\ new.temp = k.temp /\ new.open = k.open /\ new.request = k.request
        /\ new.index = k.index /\ new.length = k.length
        /\ new.callback = callback
    BY <2>1 DEF Connections
  <2>5. Phase(new)
    BY <2>1, <2>4 DEF Phase, PhaseIn, Connections
  <2>6. temps' = tmp /\ UNCHANGED kills
    BY DEF Ask, Spins
  <2> HIDE DEF new
  <2> QED
    BY <1>1, <2>3, <2>4, <2>5, <2>6, ContinueInv
<1>2. CASE conn' = [conn EXCEPT ![c] = k] /\ server' = "spinning"
  <2>1. temps' = tmp /\ UNCHANGED kills
    BY DEF Ask, Spins
  <2> QED
    BY <1>2, <2>1, SpinningInv
<1> QED
  BY <1>1, <1>2 DEF Ask, Spins

(* No connection outlives the process.                                     *)
LEMMA DownInv ==
  ASSUME server' = "down", conn' = AllClosed, TempsType(temps'), kills' \in Nat,
         temp_file_counter' \in Nat
  PROVE  LoopInv'
<1>1. /\ conn' \in [Clients -> Connections]
      /\ \A c \in Clients : /\ conn'[c].temp = 0
                            /\ ~conn'[c].open
                            /\ Phase(conn'[c])
  BY AllClosedFacts
<1>2. PhaseOK' /\ TempHoldsUpload'
  BY <1>1 DEF PhaseOK, TempHoldsUpload
<1>3. TempBound' /\ TempNamesDistinct'
  BY <1>1 DEF TempBound, TempNamesDistinct
<1> QED
  BY <1>1, <1>2, <1>3 DEF LoopInv

(* A kill keeps the invariant: what is left of the temporary files are     *)
(* prefixes of them.                                                       *)
LEMMA KilledInv ==
  ASSUME kills \in Nat, NEW tmp, TempsType(tmp), temp_file_counter' \in Nat,
         Killed(tmp)
  PROVE  LoopInv'
<1>1. PICK kept \in [DOMAIN tmp -> 0..MaxLength] :
        /\ \A t \in DOMAIN tmp : kept[t] <= Len(tmp[t])
        /\ temps' = [t \in DOMAIN tmp |-> SubSeq(tmp[t], 1, kept[t])]
  BY DEF Killed, Flushed
<1>2. MaxLength \in Nat
  BY ServerAssumption
<1>3. \A t \in DOMAIN tmp : SubSeq(tmp[t], 1, kept[t]) \in Content
  BY <1>1, <1>2 DEF TempsType, Content
<1>4. TempsType(temps')
  BY <1>1, <1>3 DEF TempsType
<1> QED
  BY <1>4, DownInv DEF Killed

(* So does an exit of the server itself.                                   *)
LEMMA ExitsInv ==
  ASSUME kills \in Nat, NEW tmp, TempsType(tmp), temp_file_counter' \in Nat,
         Exits(tmp)
  PROVE  LoopInv'
  BY DownInv DEF Exits
-----------------------------------------------------------------------------
(* The stores an upload ends in.                                           *)
FilesType(f) == DOMAIN f \subseteq Reals /\ f \in [DOMAIN f -> Content]

RowsType(t) == t \in [Names -> Seq(Records)]

(* A stored file put at a path of the folder keeps the type of the store.  *)
LEMMA PutType ==
  ASSUME NEW f, FilesType(f), NEW x \in Reals, NEW v \in Content
  PROVE  FilesType(Put(f, x, v))
  BY DEF FilesType, Put

(* The temporary file of c may go in the middle of an event.               *)
LEMMA ReadyWithout ==
  ASSUME IInv, server = "running", NEW c \in Clients, NEW k, NEW tmp,
         NEW counter, Ready(c, k, tmp, counter)
  PROVE  Ready(c, k, Without(tmp, k.temp), counter)
<1>1. TempsType(Without(tmp, k.temp))
  BY WithoutType DEF Ready
<1>2. ASSUME NEW d \in Clients \ {c}, conn[d].open
      PROVE  /\ conn[d].temp \in DOMAIN Without(tmp, k.temp)
             /\ Without(tmp, k.temp)[conn[d].temp] =
                  SubSeq(conn[d].request.payload, 1, conn[d].index)
  <2>1. conn[d].temp # 0
    BY <1>2 DEF IInv, PhaseOK, Phase, PhaseIn, TypeOK, Connections
  <2>2. /\ conn[d].temp # k.temp
        /\ conn[d].temp \in DOMAIN tmp
        /\ tmp[conn[d].temp] =
             SubSeq(conn[d].request.payload, 1, conn[d].index)
    BY <1>2, <2>1 DEF Ready
  <2> QED
    BY <2>2 DEF Without
<1> QED
  BY <1>1, <1>2 DEF Ready

(* Appending an upload keeps the invariant and the types of the stores.    *)
LEMMA AppendUploadInv ==
  ASSUME IInv, server = "running", NEW c \in Clients, NEW k, NEW tmp,
         Ready(c, k, tmp, temp_file_counter'),
         k.request.name \in Names, k.temp \in DOMAIN tmp,
         AppendUpload(c, k, tmp)
  PROVE  LoopInv' /\ RowsType(rows') /\ FilesType(files')
<1> DEFINE path == RealOf[k.request.name]
           data == tmp[k.temp]
           end == Len(files[path])
<1>1. RowsType(rows')
  BY DEF AppendUpload, IInv, TypeOK, RowsType
<1>2. path \in Reals /\ data \in Content /\ FilesType(files)
  BY ServerAssumption DEF Ready, TempsType, IInv, TypeOK, FilesType
<1>3. path \in DOMAIN files => files[path] \in Content /\ end \in Nat
  BY <1>2 DEF FilesType, Content
<1>4. kills \in Nat /\ TempsType(tmp) /\ temp_file_counter' \in Nat
  BY DEF IInv, TypeOK, Ready
<1>5. "PACKET_OK" \in Final
  BY DEF Final
<1>6. CASE /\ path \in DOMAIN files
           /\ files' = Put(files, path, WriteAt(files[path], end, data))
           /\ Answer(c, k, tmp, "PACKET_OK")
  <2>1. WriteAt(files[path], end, data) \in Content
    BY <1>2, <1>3, <1>6, WriteAtType
  <2>2. FilesType(files')
    BY <1>2, <1>6, <2>1, PutType
  <2> QED
    BY <1>1, <1>5, <1>6, <2>2, AnswerInv
<1>7. CASE /\ path \in DOMAIN files
           /\ \E torn \in TornWrites(files[path], end, data) :
                files' = Put(files, path, torn)
           /\ Killed(tmp)
  <2>1. TornWrites(files[path], end, data) \subseteq Content
    BY <1>2, <1>3, <1>7, TornWritesType
  <2>2. FilesType(files')
    BY <1>2, <1>7, <2>1, PutType
  <2> QED
    BY <1>1, <1>4, <1>7, <2>2, KilledInv
<1>8. CASE UNCHANGED files /\ Answer(c, k, tmp, "PACKET_OK")
  BY <1>1, <1>2, <1>5, <1>8, AnswerInv
<1> QED
  BY <1>6, <1>7, <1>8 DEF AppendUpload

(* So does moving the temporary file to its place and inserting the row.   *)
LEMMA MoveUploadInv ==
  ASSUME IInv, server = "running", NEW c \in Clients, NEW k, NEW tmp,
         Ready(c, k, tmp, temp_file_counter'), NEW ok,
         k.request.name \in Names, k.temp \in DOMAIN tmp,
         MoveUpload(c, k, tmp, ok)
  PROVE  LoopInv' /\ RowsType(rows') /\ FilesType(files')
<1> DEFINE name == k.request.name
           path == RealOf[name]
           moved == path \notin dirs
           after == IF moved THEN Without(tmp, k.temp) ELSE tmp
<1>1. path \in Reals /\ tmp[k.temp] \in Content /\ FilesType(files)
  BY ServerAssumption DEF Ready, TempsType, IInv, TypeOK, FilesType
<1>2. FilesType(files')
  <2>1. files' = IF moved THEN Put(files, path, tmp[k.temp]) ELSE files
    BY DEF MoveUpload
  <2> QED
    BY <1>1, <2>1, PutType
<1>3. Ready(c, k, after, temp_file_counter')
  BY ReadyWithout
<1>4. /\ kills \in Nat /\ TempsType(after) /\ temp_file_counter' \in Nat
      /\ RowsType(rows)
  BY <1>3 DEF IInv, TypeOK, Ready, RowsType
<1>5. "PACKET_OK" \in Final /\ "SERVER_FILE_ERROR" \in Final
  BY DEF Final, Errors
<1>6. Record(k) \in Records
  <2>1. k.length \in Nat /\ k.sha \in Seq(Bytes)
    BY DEF Ready, Connections
  <2>2. INT_RANGE \in Nat \ {0}
    BY Zenon, ServerAssumption
  <2>3. k.length % INT_RANGE \in Int
    BY ONLY <2>1, <2>2
  <2>4. ToInt(k.length) \in Int
    BY ONLY <2>2, <2>3 DEF ToInt
  <2>5. Hex(k.sha, SHA256_HEXLENGTH - 1) \in [of : Seq(Bytes), characters : Nat]
    BY ONLY <2>1 DEF Hex, SHA256_HEXLENGTH
  <2> QED
    BY ONLY <2>4, <2>5 DEF Record, Records
<1>7. RowsType([rows EXCEPT ![name] = Append(@, Record(k))])
  <2>1. Append(rows[name], Record(k)) \in Seq(Records)
    BY <1>4, <1>6 DEF RowsType
  <2> QED
    BY <1>4, <2>1 DEF RowsType
<1> HIDE DEF after
<1>8. CASE /\ rows' = [rows EXCEPT ![name] = Append(@, Record(k))]
           /\ Answer(c, k, after, "PACKET_OK")
  BY <1>2, <1>3, <1>5, <1>7, <1>8, AnswerInv
<1>9. CASE UNCHANGED rows /\ Answer(c, k, after, "SERVER_FILE_ERROR")
  BY <1>2, <1>3, <1>4, <1>5, <1>9, AnswerInv
<1>10. CASE UNCHANGED rows /\ Killed(after)
  BY <1>2, <1>4, <1>10, KilledInv
<1> QED
  BY <1>8, <1>9, <1>10 DEF MoveUpload, after

(* So does an update.                                                      *)
LEMMA PostprocessUpdateInv ==
  ASSUME IInv, server = "running", NEW c \in Clients, NEW k, NEW tmp,
         Ready(c, k, tmp, temp_file_counter'),
         k.request.name \in Names, k.temp \in DOMAIN tmp,
         PostprocessUpdate(c, k, tmp)
  PROVE  LoopInv' /\ RowsType(rows') /\ FilesType(files')
<1> DEFINE path == RealOf[k.request.name]
           at == k.request.at
           kept == IF k.request.trim THEN Truncate(files[path], at) ELSE files[path]
           data == tmp[k.temp]
<1>1. RowsType(rows')
  BY DEF PostprocessUpdate, IInv, TypeOK, RowsType
<1>2. path \in Reals /\ data \in Content /\ FilesType(files) /\ at \in Nat
  <2>1. RealOf \in [Names -> Reals]
    BY Zenon, ServerAssumption
  <2>2. data \in Content
    BY DEF Ready, TempsType
  <2>3. FilesType(files)
    BY DEF IInv, TypeOK, FilesType
  <2>4. at \in Nat
    BY DEF Ready, Connections, RequestStates
  <2> QED
    BY <2>1, <2>2, <2>3, <2>4
<1>3. path \in DOMAIN files => kept \in Content
  BY <1>2, TruncateType DEF FilesType
<1>4. kills \in Nat /\ TempsType(tmp) /\ temp_file_counter' \in Nat
  BY DEF IInv, TypeOK, Ready
<1>5. "PACKET_OK" \in Final /\ "SERVER_INTERNAL_ERROR" \in Final
  BY DEF Final, Errors
<1> HIDE DEF kept, at, data
<1>6. CASE /\ path \in DOMAIN files
           /\ files' = Put(files, path, WriteAt(kept, at, data))
           /\ Answer(c, k, tmp, "PACKET_OK")
  <2>1. WriteAt(kept, at, data) \in Content
    BY <1>2, <1>3, <1>6, WriteAtType
  <2>2. FilesType(files')
    BY <1>2, <1>6, <2>1, PutType
  <2> QED
    BY <1>1, <1>5, <1>6, <2>2, AnswerInv
<1>7. CASE /\ path \in DOMAIN files
           /\ \E torn \in TornWrites(kept, at, data) :
                files' = Put(files, path, torn)
           /\ Killed(tmp)
  <2>1. TornWrites(kept, at, data) \subseteq Content
    BY <1>2, <1>3, <1>7, TornWritesType
  <2>2. FilesType(files')
    BY <1>2, <1>7, <2>1, PutType
  <2> QED
    BY <1>1, <1>4, <1>7, <2>2, KilledInv
<1>8. CASE UNCHANGED files /\ Answer(c, k, tmp, "SERVER_INTERNAL_ERROR")
  BY <1>1, <1>2, <1>5, <1>8, AnswerInv
<1> QED
  BY <1>6, <1>7, <1>8 DEF PostprocessUpdate, kept, at, data

(* The end of an upload of any action keeps the invariant.                 *)
LEMMA PostProcessInv ==
  ASSUME IInv, server = "running", NEW c \in Clients, NEW k, NEW tmp,
         Ready(c, k, tmp, temp_file_counter'),
         k.request.action \in {"create", "update"} =>
           k.request.name \in Names /\ k.temp \in DOMAIN tmp,
         PostProcess(c, k, tmp)
  PROVE  LoopInv' /\ RowsType(rows') /\ FilesType(files')
<1>1. CASE k.request.action = "create" /\ PostprocessCreate(c, k, tmp)
  <2>1. PICK stored \in DbAnswers :
          AppendUpload(c, k, tmp) \/ MoveUpload(c, k, tmp, stored)
    BY <1>1 DEF PostprocessCreate
  <2> QED
    BY <1>1, <2>1, AppendUploadInv, MoveUploadInv
<1>2. CASE k.request.action = "update" /\ PostprocessUpdate(c, k, tmp)
  BY <1>2, PostprocessUpdateInv
<1>3. CASE Answer(c, k, tmp, "PACKET_OK") /\ UNCHANGED <<rows, files>>
  <2>1. "PACKET_OK" \in Final
    BY DEF Final
  <2>2. LoopInv'
    BY <1>3, <2>1, AnswerInv
  <2> QED
    BY <1>3, <2>2 DEF IInv, TypeOK, RowsType, FilesType
<1> QED
  BY <1>1, <1>2, <1>3
     DEF PostProcess, PostprocessNotification, PostprocessLogin
-----------------------------------------------------------------------------
(* The headers.                                                            *)

(* s3_attrib_get returns the value of a header, and a number.              *)
LEMMA ValueType ==
  ASSUME NEW r \in Requests, NEW attrib
  PROVE  /\ AttribContains(r, attrib) => AttribValue(r, attrib) \in Values
         /\ AttribNumber(r, attrib) \in Nat
<1>1. r.value \in [Keys -> Values]
  BY ServerAssumption DEF RequestRecords
<1>2. AttribContains(r, attrib) => AttribValue(r, attrib) \in Values
  BY <1>1 DEF AttribContains, AttribValue
<1>3. AttribNumber(r, attrib) \in Nat
  BY <1>2 DEF AttribNumber, Values
<1> QED
  BY <1>2, <1>3

LEMMA FileNameType ==
  ASSUME NEW r \in Requests
  PROVE  FileName(r) \in Names \cup {NoName}
BY ValueType DEF FileName, Values

(* The request s3_preprocess works on has the type of its fields.          *)
LEMMA PreparedType ==
  ASSUME NEW r \in Requests, NEW payload \in Seq(Bytes)
  PROVE  /\ Prepared(r, payload) \in RequestStates
         /\ Prepared(r, payload).action = ReadAction(r)
         /\ Prepared(r, payload).name = FileName(r)
         /\ Prepared(r, payload).payload = payload
<1>1. r.action \in Actions \cup {"invalid"}
  BY ServerAssumption DEF RequestRecords
<1>2. ReadAction(r) \in Actions \cup {"none", "invalid"}
  BY <1>1 DEF ReadAction, Actions
<1>3. FileName(r) \in Names \cup {NoName}
  BY FileNameType
<1>4. UpdatePosition(r) \in Nat
  BY ValueType DEF UpdatePosition
<1>5. (IF ReadAction(r) = "update" THEN UpdatePosition(r) ELSE 0) \in Nat
  BY <1>4
<1>6. /\ (ReadAction(r) = "create" /\ AttribContains(r, "append")) \in BOOLEAN
      /\ (ReadAction(r) = "update" /\ AttribNumber(r, "trim") # 0) \in BOOLEAN
      /\ Authentic(r) \in BOOLEAN
  BY DEF Authentic
<1> QED
  BY <1>2, <1>3, <1>5, <1>6 DEF Prepared, RequestStates

(* The connection once its headers are accepted: it has the next temporary *)
(* file name, which no other connection has.                               *)
LEMMA ReceivedFacts ==
  ASSUME IInv, server = "running", NEW c \in Clients,
         conn[c].callback = "headers", NEW r \in Requests,
         NEW payload \in [1..conn[c].length -> Bytes],
         temp_file_counter' = NextTemp
  PROVE  LET k == Received(c, r, payload)
         IN  /\ k \in Connections
             /\ k.temp = NextTemp /\ k.temp # 0
             /\ ~k.open /\ k.index = 0
             /\ k.request = Prepared(r, payload)
             /\ k.length = conn[c].length /\ k.callback = "headers"
             /\ Len(k.request.payload) = k.length
             /\ Ready(c, k, temps, temp_file_counter')
<1> DEFINE k == Received(c, r, payload)
<1> USE DEF IInv
<1>1. conn[c] \in Connections /\ temp_file_counter \in Nat
  BY DEF TypeOK
<1>2. conn[c].length \in Nat
  BY <1>1 DEF Connections
<1>3. payload \in Seq(Bytes) /\ Len(payload) = conn[c].length
  BY <1>2, FunctionIsSequence
<1>4. NextTemp \in Nat /\ NextTemp > temp_file_counter
  BY <1>1 DEF NextTemp
<1>5. /\ Prepared(r, payload) \in RequestStates
      /\ Prepared(r, payload).payload = payload
  BY <1>3, PreparedType
<1>6. /\ k \in Connections
      /\ k.temp = NextTemp /\ k.open = conn[c].open /\ k.index = conn[c].index
      /\ k.request = Prepared(r, payload)
      /\ k.length = conn[c].length /\ k.callback = conn[c].callback
  BY <1>1, <1>4, <1>5 DEF Received, Connections
<1>7. ~conn[c].open /\ conn[c].index = 0
  BY DEF PhaseOK, Phase, PhaseIn
<1>8. \A d \in Clients : conn[d].temp \in Nat /\ conn[d].temp <= temp_file_counter
  BY DEF TypeOK, TempBound, Connections
<1> HIDE DEF k
<1>9. \A d \in Clients \ {c} : conn[d].temp # k.temp
  BY <1>1, <1>4, <1>6, <1>8
<1>10. Ready(c, k, temps, temp_file_counter')
  <2>1. TempsType(temps)
    BY DEF TypeOK, TempsType
  <2>2. temp_file_counter <= NextTemp /\ k.temp <= NextTemp
    BY <1>1, <1>4, <1>6
  <2> QED
    BY <1>1, <1>4, <1>6, <1>9, <2>1, <2>2 DEF Ready, TempHoldsUpload
<1> QED
  BY <1>1, <1>3, <1>4, <1>5, <1>6, <1>7, <1>10 DEF k

(* Opening the temporary file of c leaves those of the others alone.       *)
LEMMA OpenedFacts ==
  ASSUME IInv, server = "running", NEW c \in Clients,
         NEW k \in Connections, NEW counter,
         Ready(c, k, temps, counter), k.temp # 0, ~k.open, k.index = 0,
         Len(k.request.payload) = k.length
  PROVE  LET o == Opened(k)
         IN  /\ o \in Connections
             /\ o.temp = k.temp /\ o.index = 0 /\ o.request = k.request
             /\ o.length = k.length /\ o.callback = k.callback
             /\ o.open = TempFileRequired(k.request.action)
             /\ o.open => /\ o.temp \in DOMAIN WithTemp(o)
                          /\ WithTemp(o)[o.temp] =
                               SubSeq(o.request.payload, 1, o.index)
             /\ Ready(c, o, WithTemp(o), counter)
<1> DEFINE o == Opened(k)
           tmp == WithTemp(o)
<1>1. /\ o \in Connections
      /\ o.temp = k.temp /\ o.index = 0 /\ o.request = k.request
      /\ o.length = k.length /\ o.callback = k.callback
      /\ o.open = TempFileRequired(k.request.action)
  <2> DEFINE needed == TempFileRequired(k.request.action)
  <2>1. needed \in BOOLEAN
    BY DEF TempFileRequired
  <2>2. o = [k EXCEPT !.open = needed]
    BY DEF Opened
  <2> HIDE DEF needed, o
  <2>3. /\ o \in Connections
        /\ o.temp = k.temp /\ o.index = 0 /\ o.request = k.request
        /\ o.length = k.length /\ o.callback = k.callback
        /\ o.open = needed
    BY <2>1, <2>2 DEF Connections
  <2> QED
    BY <2>3 DEF needed
<1> HIDE DEF o
<1>2. o.temp \in Nat /\ o.request.payload \in Seq(Bytes)
  BY <1>1 DEF Connections, RequestStates
<1>3. tmp = IF TempFileRequired(o.request.action) THEN Put(temps, o.temp, <<>>)
            ELSE temps
  BY DEF WithTemp
<1>4. TempsType(tmp)
  <2>1. TempsType(temps) /\ <<>> \in Content
    BY DEF Ready, Content
  <2>2. TempsType(Put(temps, o.temp, <<>>))
    BY <1>2, <2>1 DEF TempsType, Put
  <2> QED
    BY <1>3, <2>1, <2>2
<1>5. o.open => /\ o.temp \in DOMAIN tmp
                /\ tmp[o.temp] = SubSeq(o.request.payload, 1, o.index)
  <2>1. SubSeq(o.request.payload, 1, 0) = <<>>
    BY <1>2
  <2> QED
    BY <1>1, <1>3, <2>1 DEF Put
<1>6. ASSUME NEW d \in Clients \ {c}, conn[d].open
      PROVE  /\ conn[d].temp \in DOMAIN tmp
             /\ tmp[conn[d].temp] =
                  SubSeq(conn[d].request.payload, 1, conn[d].index)
  <2>1. conn[d].temp # 0
    BY <1>6 DEF IInv, PhaseOK, Phase, PhaseIn, TypeOK, Connections
  <2>2. /\ conn[d].temp # o.temp
        /\ conn[d].temp \in DOMAIN temps
        /\ temps[conn[d].temp] =
             SubSeq(conn[d].request.payload, 1, conn[d].index)
    BY <1>1, <1>6, <2>1 DEF Ready
  <2>3. CASE TempFileRequired(o.request.action)
    BY <1>3, <2>2, <2>3 DEF Put
  <2>4. CASE ~TempFileRequired(o.request.action)
    BY <1>3, <2>2, <2>4
  <2> QED
    BY <2>3, <2>4
<1> HIDE DEF tmp
<1>7. Ready(c, o, tmp, counter)
  BY <1>1, <1>4, <1>6 DEF Ready
<1> QED
  BY <1>1, <1>5, <1>7 DEF o, tmp

(* An accepted create or update has a file name: s3_attribs_assert wants   *)
(* the attribute and s3_setup_environment a value.                         *)
LEMMA AcceptedName ==
  ASSUME NEW r \in Requests, TRUE \in AttribsAssert(r),
         SetupEnvironment(r) = "SUCCESS", ReadAction(r) \in {"create", "update"}
  PROVE  FileName(r) \in Names
<1>1. FileName(r) \in Names \cup {NoName}
  BY FileNameType
<1>2. \A a \in Required[ReadAction(r)] : AttribContains(r, a)
  BY DEF AttribsAssert
<1>3. "filename" \in Required[ReadAction(r)]
  BY DEF Required
<1>4. AttribContains(r, "filename")
  BY <1>2, <1>3
<1>5. FileName(r) # NoName
  BY <1>4 DEF SetupEnvironment
<1> QED
  BY <1>1, <1>5

(* What an answer SUCCESS of s3_action_preprocess has checked.             *)
LEMMA PreprocessFacts ==
  ASSUME NEW r, NEW q \in RequestStates, q.action # "none",
         NEW length \in Nat, NEW ok
  PROVE  LET code == Preprocess(r, q, length, ok)
         IN  /\ code # "SUCCESS" => code \in Final
             /\ code = "SUCCESS" /\ length > 0 =>
                  q.action \in {"create", "update", "notification", "login"}
             /\ code = "SUCCESS" /\ q.action = "request" => q.name \in Names
<1>1. q.action \in Actions \cup {"invalid"}
  BY DEF RequestStates
<1>2. CASE q.action \in {"create", "delete", "request", "update"}
  BY <1>2 DEF Preprocess, PreprocessCreate, PreprocessDelete,
              PreprocessRequest, PreprocessUpdate, FileExists, RowExists,
              Final, Warnings, Errors
<1>3. CASE q.action \in {"dir", "notification", "server", "login", "invalid"}
  BY <1>3 DEF Preprocess, PreprocessDirlist, PreprocessNotification,
              PreprocessServerinfo, PreprocessLogin, Final, Warnings, Errors
<1> QED
  BY <1>1, <1>2, <1>3 DEF Actions
-----------------------------------------------------------------------------
(* The handlers.                                                           *)

(* The invariant implies its part about the variables of the loop.         *)
LEMMA IInvParts ==
  ASSUME LoopInv', RowsType(rows'), FilesType(files'), dirs' \subseteq Reals,
         temp_file_counter' \in Nat, packets' \in Nat
  PROVE  IInv'
  BY DEF LoopInv, RowsType, FilesType, TempsType, IInv, TypeOK

(* Between two events every connection is ready for one.                   *)
LEMMA ReadyNow ==
  ASSUME IInv, server # "spinning", NEW c \in Clients,
         UNCHANGED temp_file_counter
  PROVE  Ready(c, conn[c], temps, temp_file_counter')
<1>1. /\ conn[c] \in Connections /\ TempsType(temps) /\ temp_file_counter \in Nat
      /\ conn[c].temp <= temp_file_counter
  BY DEF IInv, TypeOK, TempsType, TempBound
<1>2. \A d \in Clients \ {c} : conn[d].temp # 0 => conn[d].temp # conn[c].temp
  BY DEF IInv, TempNamesDistinct
<1>3. temp_file_counter <= temp_file_counter'
  BY <1>1
<1> QED
  BY <1>1, <1>2, <1>3 DEF Ready, IInv, TempHoldsUpload

(* The loop accepts a client, or its handshake fails.                      *)
LEMMA AcceptInv ==
  ASSUME IInv, Accept \/ HandshakeFails
  PROVE  IInv'
<1>1. /\ server \in {"running", "accepting"}
      /\ server' \in {"running", "accepting"}
      /\ UNCHANGED <<conn, temp_file_counter, rows, files, dirs, temps, packets,
                     kills>>
  BY DEF Accept, HandshakeFails, disk
<1>2. TypeOK'
  BY <1>1 DEF IInv, TypeOK
<1>3. PhaseOK' /\ TempHoldsUpload'
  BY <1>1 DEF IInv, PhaseOK, TempHoldsUpload
<1>4. TempBound' /\ TempNamesDistinct'
  BY <1>1 DEF IInv, TempBound, TempNamesDistinct
<1> QED
  BY <1>2, <1>3, <1>4 DEF IInv

(* The handshake is done: a new connection.                                *)
LEMMA HandshakeInv ==
  ASSUME IInv, NEW c \in Clients, Handshake(c)
  PROVE  IInv'
<1>1. /\ Fresh \in Connections /\ Phase(Fresh)
      /\ Fresh.temp = 0 /\ ~Fresh.open
  <2>1. <<>> \in Seq(Bytes) /\ <<>> \in Seq(Interim \cup Final)
    OBVIOUS
  <2> QED
    BY <2>1, BetweenFacts DEF Fresh
<1>2. /\ server = "accepting" /\ conn[c].callback = "closed"
      /\ server' = "running"
      /\ conn' = [conn EXCEPT ![c] = Fresh]
      /\ UNCHANGED <<temp_file_counter, rows, files, dirs, temps, packets, kills>>
  BY DEF Handshake, disk
<1>3. conn[c].temp = 0
  BY <1>2 DEF IInv, PhaseOK, Phase, PhaseIn
<1>4. LoopInv'
  BY <1>1, <1>2, <1>3, ReadyNow, ContinueInv
<1> QED
  BY <1>2, <1>4, IInvParts DEF IInv, TypeOK, RowsType, FilesType

(* s3_connection_magic_read: a packet begins.                              *)
LEMMA MagicReadInv ==
  ASSUME IInv, NEW c \in Clients, MagicRead(c)
  PROVE  IInv'
<1>1. /\ server = "running" /\ conn[c].callback = "magic"
      /\ packets' = packets + 1
      /\ UNCHANGED <<server, temp_file_counter, disk, kills>>
  BY DEF MagicRead
<1>2. conn[c] \in Connections /\ conn[c].temp = 0 /\ ~conn[c].open /\ conn[c].index = 0
  BY <1>1 DEF IInv, TypeOK, PhaseOK, Phase, PhaseIn
<1>3. PICK length \in 0..MaxLength :
        conn' = [conn EXCEPT ![c] =
                  [conn[c] EXCEPT !.callback = "headers", !.length = length,
                                  !.out = <<>>]]
  BY DEF MagicRead, IInv, TypeOK
<1> DEFINE new == [conn[c] EXCEPT !.callback = "headers", !.length = length,
                                  !.out = <<>>]
<1>4. length \in Nat /\ <<>> \in Seq(Interim \cup Final)
  BY ServerAssumption
<1>5. /\ new \in Connections
      /\ new.temp = 0 /\ ~new.open /\ new.index = 0 /\ new.callback = "headers"
  BY <1>2, <1>4 DEF Connections
<1>6. conn' = [conn EXCEPT ![c] = new]
  BY <1>3
<1> HIDE DEF new
<1>7. Phase(new)
  BY <1>5 DEF Phase, PhaseIn
<1>8. LoopInv'
  BY <1>1, <1>2, <1>5, <1>6, <1>7, ReadyNow, ContinueInv DEF disk
<1> QED
  BY <1>1, <1>8, IInvParts DEF IInv, TypeOK, RowsType, FilesType, disk

(* A wrong magic byte closes the connection.                               *)
LEMMA MagicInvalidInv ==
  ASSUME IInv, NEW c \in Clients, MagicInvalid(c)
  PROVE  IInv'
<1>1. /\ server = "running" /\ conn[c].callback = "magic"
      /\ conn' = [conn EXCEPT ![c] = Closed]
      /\ UNCHANGED <<server, temp_file_counter, disk, packets, kills>>
  BY DEF MagicInvalid
<1>2. conn[c].temp = 0
  BY <1>1 DEF IInv, PhaseOK, Phase, PhaseIn
<1>3. LoopInv'
  BY <1>1, <1>2, ClosedFacts, ReadyNow, ContinueInv DEF disk
<1> QED
  BY <1>1, <1>3, IInvParts DEF IInv, TypeOK, RowsType, FilesType, disk

(* A hang-up closes the connection and unlinks its temporary file.         *)
LEMMA HangUpInv ==
  ASSUME IInv, NEW c \in Clients, HangUp(c)
  PROVE  IInv'
<1>1. /\ server = "running"
      /\ conn' = [conn EXCEPT ![c] = Closed]
      /\ temps' = Without(temps, conn[c].temp)
      /\ UNCHANGED <<server, temp_file_counter, rows, files, dirs, packets, kills>>
  BY DEF HangUp
<1>2. LoopInv'
  BY <1>1, ClosedFacts, ReadyNow, PacketEndInv
<1> QED
  BY <1>1, <1>2, IInvParts DEF IInv, TypeOK, RowsType, FilesType

(* s3_connection_upload: the file has been sent.                           *)
LEMMA UploadInv ==
  ASSUME IInv, NEW c \in Clients, Upload(c)
  PROVE  IInv'
<1>1. /\ server = "running"
      /\ UNCHANGED <<temp_file_counter, rows, files, dirs, packets>>
  BY DEF Upload
<1>2. PICK code \in {"DATA_READY", "NETWORK_ERROR_WRITE"} :
        Answer(c, conn[c], temps, code)
  BY DEF Upload, SendFile, NotAccepted
<1>3. code \in Final
  BY DEF Final, Errors
<1>4. LoopInv'
  BY <1>1, <1>2, <1>3, ReadyNow, AnswerInv
<1> QED
  BY <1>1, <1>4, IInvParts DEF IInv, TypeOK, RowsType, FilesType

(* An in-memory read over its limit ends the process.                      *)
LEMMA ReadTooBigInv ==
  ASSUME IInv, NEW c \in Clients, ReadTooBig(c)
  PROVE  IInv'
<1>1. LoopInv'
  BY ExitsInv DEF ReadTooBig, IInv, TypeOK, TempsType
<1> QED
  BY <1>1, IInvParts DEF ReadTooBig, IInv, TypeOK, RowsType, FilesType

(* The process is killed between two events.                               *)
LEMMA KillInv ==
  ASSUME IInv, Kill
  PROVE  IInv'
<1>1. LoopInv'
  BY KilledInv DEF Kill, IInv, TypeOK, TempsType
<1> QED
  BY <1>1, IInvParts DEF Kill, IInv, TypeOK, RowsType, FilesType

(* A restarted process counts from 0 again, but has no connection yet.     *)
LEMMA RestartInv ==
  ASSUME IInv, Restart
  PROVE  IInv'
<1>1. /\ conn' = AllClosed /\ server' = "running" /\ temp_file_counter' = 0
      /\ UNCHANGED <<rows, files, dirs, temps, packets, kills>>
  BY DEF Restart, IInv, PhaseOK, disk
<1>2. TempsType(temps')
  BY <1>1 DEF IInv, TypeOK, TempsType
<1>3. PhaseOK' /\ TempHoldsUpload' /\ TempNamesDistinct'
  BY <1>1, AllClosedFacts DEF PhaseOK, TempHoldsUpload, TempNamesDistinct
<1>4. TempBound'
  BY <1>1, AllClosedFacts DEF TempBound
<1>5. LoopInv'
  BY <1>1, <1>2, <1>3, <1>4, AllClosedFacts DEF LoopInv, IInv, TypeOK
<1> QED
  BY <1>1, <1>5, IInvParts DEF IInv, TypeOK, RowsType, FilesType

(* The bytes a read takes from the socket are the next ones of the upload, *)
(* and they go to the temporary file of their own connection.              *)
LEMMA ReadFacts ==
  ASSUME IInv, server = "running", NEW c \in Clients,
         conn[c].callback = "confirm",
         NEW n \in 1..(conn[c].length - conn[c].index),
         UNCHANGED temp_file_counter
  PROVE  LET k == Read(conn[c], n)
             tmp == Stored(conn[c], n)
         IN  /\ k \in Connections
             /\ k.temp = conn[c].temp /\ k.open = conn[c].open
             /\ k.callback = "confirm" /\ k.length = conn[c].length
             /\ k.request = conn[c].request /\ k.index = conn[c].index + n
             /\ k.open => /\ k.temp \in DOMAIN tmp
                          /\ tmp[k.temp] = SubSeq(k.request.payload, 1, k.index)
             /\ Ready(c, k, tmp, temp_file_counter')
<1> DEFINE old == conn[c]
           k == Read(old, n)
           tmp == Stored(old, n)
           payload == old.request.payload
           sha == IF old.open /\ old.index + n = old.length THEN payload ELSE old.sha
<1>1. /\ old \in Connections /\ old.index \in Nat /\ old.length \in Nat
      /\ old.temp \in Nat /\ payload \in Seq(Bytes) /\ old.sha \in Seq(Bytes)
  BY DEF IInv, TypeOK, Connections, RequestStates
<1>2. Len(payload) = old.length /\ old.temp # 0
  BY DEF IInv, PhaseOK, Phase, PhaseIn
<1>3. n \in Nat /\ old.index + n \in Nat /\ old.index + n <= Len(payload)
  BY <1>1, <1>2
<1>4. sha \in Seq(Bytes)
  BY <1>1
<1>5. k = [old EXCEPT !.index = old.index + n, !.sha = sha]
  BY <1>1 DEF Read, Connections
<1> HIDE DEF sha
<1>6. /\ k \in Connections
      /\ k.temp = old.temp /\ k.open = old.open
      /\ k.callback = old.callback /\ k.length = old.length
      /\ k.request = old.request /\ k.index = old.index + n
  BY <1>1, <1>3, <1>4, <1>5 DEF Connections
<1> HIDE DEF k
<1>7. old.open => /\ old.temp \in DOMAIN temps
                  /\ temps[old.temp] = SubSeq(payload, 1, old.index)
  BY DEF IInv, TempHoldsUpload
<1>8. CASE old.open
  <2> DEFINE piece == SubSeq(payload, old.index + 1, old.index + n)
  <2>1. tmp = [temps EXCEPT ![old.temp] = temps[old.temp] \o piece]
    BY <1>8 DEF Stored
  <2>2. temps[old.temp] \o piece = SubSeq(payload, 1, old.index + n)
    <3>1. SubSeq(payload, 1, old.index) \o piece
            = SubSeq(payload, 1, old.index + n)
      BY <1>1, <1>3, SubSeqConcat
    <3> QED
      BY <1>7, <1>8, <3>1
  <2>3. SubSeq(payload, 1, old.index + n) \in Content
    <3>1. SubSeq(payload, 1, old.index + n) \in Seq(Bytes)
      BY <1>1, <1>3
    <3> QED
      BY <3>1, BytesContent
  <2> HIDE DEF tmp, piece
  <2>4. TempsType(temps)
    BY DEF IInv, TypeOK, TempsType
  <2>5. TempsType(tmp)
    BY <1>7, <1>8, <2>1, <2>2, <2>3, <2>4 DEF TempsType
  <2>6. old.temp \in DOMAIN tmp /\ tmp[old.temp] = SubSeq(payload, 1, old.index + n)
    BY <1>7, <1>8, <2>1, <2>2, <2>4 DEF TempsType
  <2>7. Ready(c, old, temps, temp_file_counter')
    BY ReadyNow
  <2>8. ASSUME NEW d \in Clients \ {c}, conn[d].open
        PROVE  /\ conn[d].temp \in DOMAIN tmp
               /\ tmp[conn[d].temp] =
                    SubSeq(conn[d].request.payload, 1, conn[d].index)
    <3>1. conn[d].temp # 0
      BY <2>8 DEF IInv, PhaseOK, Phase, PhaseIn, TypeOK, Connections
    <3>2. /\ conn[d].temp # old.temp
          /\ conn[d].temp \in DOMAIN temps
          /\ temps[conn[d].temp] =
               SubSeq(conn[d].request.payload, 1, conn[d].index)
      BY <2>7, <2>8, <3>1 DEF Ready
    <3> QED
      BY <2>1, <2>4, <3>2 DEF TempsType
  <2>9. Ready(c, k, tmp, temp_file_counter')
    BY <1>6, <2>5, <2>7, <2>8 DEF Ready
  <2> QED
    BY <1>6, <2>6, <2>9 DEF k, tmp
<1>9. CASE ~old.open
  <2>1. tmp = temps
    BY <1>9 DEF Stored
  <2>2. Ready(c, k, temps, temp_file_counter')
    BY <1>6, ReadyNow DEF Ready
  <2> QED
    BY <1>6, <1>9, <2>1, <2>2 DEF k
<1> QED
  BY <1>8, <1>9

(* network_read_stream, for a part of the data and for the last of it.     *)
LEMMA ReadDataInv ==
  ASSUME IInv, NEW c \in Clients, ReadData(c)
  PROVE  IInv'
<1>1. /\ server = "running" /\ conn[c].callback = "confirm"
      /\ UNCHANGED <<temp_file_counter, dirs, packets>>
  BY DEF ReadData
<1>2. PICK n \in 1..(conn[c].length - conn[c].index) :
        \/ /\ conn[c].index + n < conn[c].length
           /\ conn' = [conn EXCEPT ![c] = Read(conn[c], n)]
           /\ temps' = Stored(conn[c], n)
           /\ UNCHANGED <<server, rows, files, kills>>
        \/ PostProcess(c, Read(conn[c], n), Stored(conn[c], n))
  BY DEF ReadData
<1> DEFINE k == Read(conn[c], n)
           tmp == Stored(conn[c], n)
<1>3. /\ k \in Connections
      /\ k.temp = conn[c].temp /\ k.open = conn[c].open
      /\ k.callback = "confirm" /\ k.length = conn[c].length
      /\ k.request = conn[c].request /\ k.index = conn[c].index + n
      /\ k.open => /\ k.temp \in DOMAIN tmp
                   /\ tmp[k.temp] = SubSeq(k.request.payload, 1, k.index)
      /\ Ready(c, k, tmp, temp_file_counter')
  BY <1>1, ReadFacts
<1>4. PhaseIn("confirm", conn[c])
  BY <1>1 DEF IInv, PhaseOK, Phase
<1> HIDE DEF k, tmp
<1>5. CASE /\ conn[c].index + n < conn[c].length
           /\ conn' = [conn EXCEPT ![c] = k]
           /\ temps' = tmp
           /\ UNCHANGED <<server, rows, files, kills>>
  <2>1. Phase(k)
    BY <1>3, <1>4, <1>5 DEF Phase, PhaseIn
  <2>2. LoopInv'
    BY <1>1, <1>3, <1>5, <2>1, ContinueInv
  <2> QED
    BY <1>1, <1>5, <2>2, IInvParts DEF IInv, TypeOK, RowsType, FilesType
<1>6. CASE PostProcess(c, k, tmp)
  <2>1. k.request.action \in {"create", "update"} =>
          k.request.name \in Names /\ k.temp \in DOMAIN tmp
    BY <1>3, <1>4 DEF PhaseIn, TempFileRequired
  <2>2. LoopInv' /\ RowsType(rows') /\ FilesType(files')
    BY <1>1, <1>3, <1>6, <2>1, PostProcessInv
  <2> QED
    BY <1>1, <2>2, IInvParts DEF IInv, TypeOK
<1> QED
  BY <1>2, <1>5, <1>6 DEF k, tmp

(* A request without data is finished in the event that brought its        *)
(* headers.                                                                *)
LEMMA CompleteNowInv ==
  ASSUME IInv, server = "running", NEW c \in Clients, NEW k, NEW tmp, NEW r,
         Ready(c, k, tmp, temp_file_counter'), k.temp # 0,
         k.open = TempFileRequired(k.request.action),
         k.open => k.temp \in DOMAIN tmp,
         k.request.action \in {"create", "update", "request"} =>
           k.request.name \in Names,
         CompleteNow(c, k, tmp, r)
  PROVE  LoopInv' /\ RowsType(rows') /\ FilesType(files')
<1>1. /\ RowsType(rows) /\ FilesType(files) /\ kills \in Nat
      /\ TempsType(tmp) /\ temp_file_counter' \in Nat
  BY DEF IInv, TypeOK, RowsType, FilesType, Ready
<1>2. "PACKET_OK" \in Final /\ "DATA_READY" \in Final /\ "DATA_MORE" \in Interim
  BY DEF Final, Interim
<1>3. CASE PostProcess(c, k, tmp)
  <2>1. k.request.action \in {"create", "update"} => k.temp \in DOMAIN tmp
    BY DEF TempFileRequired
  <2> QED
    BY <1>3, <2>1, PostProcessInv
<1>4. CASE DeleteFile(c, k, tmp)
  <2>1. RowsType(rows')
    <3>1. rows' = [rows EXCEPT ![k.request.name] = <<>>] /\ <<>> \in Seq(Records)
      BY <1>4 DEF DeleteFile
    <3> QED
      BY <1>1, <3>1 DEF RowsType
  <2> QED
    BY <1>1, <1>2, <1>4, <2>1, AnswerInv DEF DeleteFile
<1>5. CASE Answer(c, k, tmp, "DATA_READY") /\ UNCHANGED <<rows, files>>
  BY <1>1, <1>2, <1>5, AnswerInv
<1>6. CASE Exits(tmp) /\ UNCHANGED <<rows, files>>
  BY <1>1, <1>6, ExitsInv
<1>7. CASE /\ k.request.action = "request"
           /\ Ask(c, k, tmp, "DATA_MORE", "upload") /\ UNCHANGED <<rows, files>>
  <2>1. ~k.open
    BY <1>7 DEF TempFileRequired
  <2>2. PhaseIn("upload", k)
    BY <1>7, <2>1 DEF PhaseIn
  <2>3. LoopInv'
    BY <1>2, <1>7, <2>1, <2>2, AskInv
  <2> QED
    BY <1>1, <1>7, <2>3
<1> QED
  BY <1>3, <1>4, <1>5, <1>6, <1>7
     DEF CompleteNow, SendServerinfo, SendDirlist, ConfirmUpload

(* s3_connection_headers_read once the environment is set up.              *)
LEMMA ProcessInv ==
  ASSUME IInv, server = "running", NEW c \in Clients, NEW r \in Requests,
         TRUE \in AttribsAssert(r), NEW k,
         Ready(c, k, WithTemp(k), temp_file_counter'), k.temp # 0, k.index = 0,
         k.open = TempFileRequired(k.request.action),
         k.open => /\ k.temp \in DOMAIN WithTemp(k)
                   /\ WithTemp(k)[k.temp] = SubSeq(k.request.payload, 1, k.index),
         k.request.action = ReadAction(r), k.request.name = FileName(r),
         Len(k.request.payload) = k.length,
         Process(c, r, k)
  PROVE  /\ LoopInv' /\ RowsType(rows') /\ FilesType(files')
         /\ dirs' \subseteq Reals
<1> DEFINE tmp == WithTemp(k)
<1>1. SetupEnvironment(r) = "SUCCESS" /\ Mkdirs(r)
  BY DEF Process
<1>2. PICK ok \in DbAnswers :
        \/ RefuseRequest(c, k, tmp, Preprocess(r, k.request, k.length, ok))
        \/ /\ Preprocess(r, k.request, k.length, ok) = "SUCCESS"
           /\ AwaitData(c, k, tmp) \/ CompleteNow(c, k, tmp, r)
  BY DEF Process
<1> DEFINE code == Preprocess(r, k.request, k.length, ok)
<1> HIDE DEF tmp
<1>3. k \in Connections /\ k.request \in RequestStates /\ k.length \in Nat
  BY DEF Ready, Connections
<1>4. k.request.action \in {"create", "update"} => k.request.name \in Names
  BY <1>1, AcceptedName
<1>5. k.request.action # "none"
  BY ServerAssumption DEF ReadAction, RequestRecords, Actions
<1>6. /\ code # "SUCCESS" => code \in Final
      /\ code = "SUCCESS" /\ k.length > 0 =>
           k.request.action \in {"create", "update", "notification", "login"}
      /\ code = "SUCCESS" /\ k.request.action = "request" =>
           k.request.name \in Names
  BY <1>3, <1>5, PreprocessFacts
<1> HIDE DEF code
<1>7. dirs' \subseteq Reals
  <2>1. MakesDirs(r) => FileName(r) \in Names
    BY <1>1, FileNameType DEF MakesDirs, SetupEnvironment
  <2>2. MakesDirs(r) => Ancestors[RealOf[FileName(r)]] \subseteq Reals
    BY <2>1, ServerAssumption
  <2> QED
    BY <1>1, <2>2 DEF Mkdirs, IInv, TypeOK
<1>8. RowsType(rows) /\ FilesType(files)
  BY DEF IInv, TypeOK, RowsType, FilesType
<1>9. CASE RefuseRequest(c, k, tmp, code)
  <2>1. LoopInv'
    BY <1>6, <1>9, AnswerInv DEF RefuseRequest, tmp
  <2> QED
    BY <1>7, <1>8, <1>9, <2>1 DEF RefuseRequest
<1>10. CASE code = "SUCCESS" /\ AwaitData(c, k, tmp)
  <2>1. k.length > 0 /\ Ask(c, k, tmp, "DATA_SEND", "confirm") /\ UNCHANGED <<rows, files>>
    BY <1>10 DEF AwaitData
  <2>2. PhaseIn("confirm", k)
    BY <1>4, <1>6, <1>10, <2>1 DEF PhaseIn
  <2>3. "DATA_SEND" \in Interim
    BY DEF Interim
  <2>4. LoopInv'
    BY <2>1, <2>2, <2>3, AskInv DEF tmp
  <2> QED
    BY <1>7, <1>8, <2>1, <2>4
<1>11. CASE code = "SUCCESS" /\ CompleteNow(c, k, tmp, r)
  <2>1. k.request.action \in {"create", "update", "request"} => k.request.name \in Names
    BY <1>4, <1>6, <1>11
  <2>2. LoopInv' /\ RowsType(rows') /\ FilesType(files')
    BY <1>11, <2>1, CompleteNowInv DEF tmp
  <2> QED
    BY <1>7, <2>2
<1> QED
  BY <1>2, <1>9, <1>10, <1>11 DEF code

(* All of s3_connection_headers_read.                                      *)
LEMMA HeadersReadInv ==
  ASSUME IInv, NEW c \in Clients, HeadersRead(c)
  PROVE  IInv'
<1>1. server = "running" /\ conn[c].callback = "headers" /\ UNCHANGED packets
  BY DEF HeadersRead
<1>2. RowsType(rows) /\ FilesType(files) /\ temp_file_counter \in Nat /\ packets \in Nat
      /\ dirs \subseteq Reals
  BY DEF IInv, TypeOK, RowsType, FilesType
<1>3. PICK r \in Requests :
        \/ \E code \in Warnings : RefuseHeaders(c, code)
        \/ /\ TRUE \in AttribsAssert(r)
           /\ temp_file_counter' = NextTemp
           /\ \E payload \in [1..conn[c].length -> Bytes] :
                \/ RefuseSetup(c, Received(c, r, payload), r)
                \/ Process(c, r, Opened(Received(c, r, payload)))
  BY DEF HeadersRead, Refusals
<1>4. CASE \E code \in Warnings : RefuseHeaders(c, code)
  <2>1. PICK code \in Warnings : RefuseHeaders(c, code)
    BY <1>4
  <2>2. /\ Answer(c, conn[c], temps, code)
        /\ UNCHANGED <<temp_file_counter, rows, files, dirs>>
    BY <2>1 DEF RefuseHeaders
  <2>3. code \in Final
    BY DEF Final
  <2>4. LoopInv'
    BY <1>1, <2>2, <2>3, ReadyNow, AnswerInv
  <2> QED
    BY <1>1, <1>2, <2>2, <2>4, IInvParts
<1>5. CASE /\ TRUE \in AttribsAssert(r)
           /\ temp_file_counter' = NextTemp
           /\ \E payload \in [1..conn[c].length -> Bytes] :
                \/ RefuseSetup(c, Received(c, r, payload), r)
                \/ Process(c, r, Opened(Received(c, r, payload)))
  <2>1. PICK payload \in [1..conn[c].length -> Bytes] :
          \/ RefuseSetup(c, Received(c, r, payload), r)
          \/ Process(c, r, Opened(Received(c, r, payload)))
    BY <1>5
  <2> DEFINE k == Received(c, r, payload)
             o == Opened(k)
  <2>2. /\ k \in Connections
        /\ k.temp = NextTemp /\ k.temp # 0
        /\ ~k.open /\ k.index = 0
        /\ k.request = Prepared(r, payload)
        /\ k.length = conn[c].length
        /\ Len(k.request.payload) = k.length
        /\ Ready(c, k, temps, temp_file_counter')
    BY <1>1, <1>5, ReceivedFacts
  <2>3. payload \in Seq(Bytes)
    <3>1. conn[c].length \in Nat
      BY DEF IInv, TypeOK, Connections
    <3> QED
      BY <3>1, FunctionIsSequence
  <2>4. k.request.action = ReadAction(r) /\ k.request.name = FileName(r)
    BY <2>2, <2>3, PreparedType
  <2> HIDE DEF k
  <2>5. /\ o \in Connections
        /\ o.temp = k.temp /\ o.index = 0 /\ o.request = k.request
        /\ o.length = k.length
        /\ o.open = TempFileRequired(k.request.action)
        /\ o.open => /\ o.temp \in DOMAIN WithTemp(o)
                     /\ WithTemp(o)[o.temp] =
                          SubSeq(o.request.payload, 1, o.index)
        /\ Ready(c, o, WithTemp(o), temp_file_counter')
    BY <1>1, <2>2, OpenedFacts
  <2> HIDE DEF o
  <2>6. temp_file_counter' \in Nat
    BY <1>2, <1>5 DEF NextTemp
  <2>7. CASE RefuseSetup(c, k, r)
    <3>1. SetupEnvironment(r) # "SUCCESS" => SetupEnvironment(r) \in Final
      BY DEF SetupEnvironment, Final, Warnings, Errors
    <3>2. LoopInv'
      BY <1>1, <2>2, <2>7, <3>1, AnswerInv DEF RefuseSetup
    <3> QED
      BY <1>1, <1>2, <2>6, <2>7, <3>2, IInvParts DEF RefuseSetup
  <2>8. CASE Process(c, r, o)
    <3>1. LoopInv' /\ RowsType(rows') /\ FilesType(files') /\ dirs' \subseteq Reals
      BY <1>1, <1>5, <2>2, <2>4, <2>5, <2>8, ProcessInv
    <3> QED
      BY <1>1, <1>2, <2>6, <3>1, IInvParts
  <2> QED
    BY <2>1, <2>7, <2>8 DEF k, o
<1> QED
  BY <1>3, <1>4, <1>5
-----------------------------------------------------------------------------
(* The invariant, and what follows from it.                                *)

(* The process starts with the invariant.                                  *)
LEMMA InitInv == Init => IInv
<1> SUFFICES ASSUME Init PROVE IInv
  OBVIOUS
<1>1. TypeOK
  <2>1. conn \in [Clients -> Connections]
    BY AllClosedFacts DEF Init
  <2> QED
    BY <2>1 DEF Init, TypeOK, NoFiles, Content
<1>2. PhaseOK
  BY AllClosedFacts DEF Init, PhaseOK
<1>3. TempBound
  BY AllClosedFacts DEF Init, TempBound
<1>4. TempNamesDistinct /\ TempHoldsUpload
  BY AllClosedFacts DEF Init, TempNamesDistinct, TempHoldsUpload
<1> QED
  BY <1>1, <1>2, <1>3, <1>4 DEF IInv

(* Every step keeps the invariant.                                         *)
LEMMA NextInv == IInv /\ [Next]_vars => IInv'
<1> SUFFICES ASSUME IInv, [Next]_vars PROVE IInv'
  OBVIOUS
<1>1. CASE UNCHANGED vars
  BY <1>1 DEF vars, IInv, TypeOK, PhaseOK, TempBound, TempNamesDistinct,
              TempHoldsUpload
<1>2. ASSUME NEW c \in Clients, ClientStep(c) PROVE IInv'
  BY <1>2, HandshakeInv, MagicReadInv, MagicInvalidInv, HeadersReadInv, ReadDataInv,
     ReadTooBigInv, UploadInv, HangUpInv DEF ClientStep
<1>3. CASE Kill
  BY <1>3, KillInv
<1>4. CASE Restart
  BY <1>4, RestartInv
<1>5. CASE Accept \/ HandshakeFails
  BY <1>5, AcceptInv
<1> QED
  BY <1>1, <1>2, <1>3, <1>4, <1>5 DEF Next

(* The inductive invariant holds throughout: every connection of the loop  *)
(* is in the phase its callback stands for and owns its temporary file.    *)
THEOREM ServerInv == Spec => []IInv
  BY InitInv, NextInv, PTL DEF Spec

(* Every reachable state has the shape the code gives its state.           *)
THEOREM TypeCorrect == Spec => []TypeOK
<1>1. IInv => TypeOK
  BY DEF IInv
<1> QED
  BY <1>1, ServerInv, PTL

(* filemgmt_set_tmp_path gives no two connections the same temporary file  *)
(* name, over any number of clients, packets, kills and restarts.          *)
THEOREM TempNamesAreDistinct == Spec => []TempNamesDistinct
<1>1. IInv => TempNamesDistinct
  BY DEF IInv
<1> QED
  BY <1>1, ServerInv, PTL

(* network_read_stream leaves in the temporary file of an upload exactly   *)
(* the bytes its own client has sent.                                      *)
THEOREM TempFilesHoldUploads == Spec => []TempHoldsUpload
<1>1. IInv => TempHoldsUpload
  BY DEF IInv
<1> QED
  BY <1>1, ServerInv, PTL
-----------------------------------------------------------------------------
(* Answers: every packet gets one final response, only users that were     *)
(* accepted change files, a create that is acknowledged is stored, an      *)
(* append keeps what it appends to, and a new row describes its file.      *)

(* What the headers of an upload in progress have been checked for.        *)
EntitledIn(callback, k) ==
  callback = "confirm" =>
    /\ k.request.action \in {"create", "update"} => k.request.authentic
    /\ k.request.append => k.request.action = "create"

Entitled(k) == EntitledIn(k.callback, k)

(* The responses that have been sent to the packet of connection k.        *)
Responses(callback) ==
  CASE callback = "headers" -> {<<>>}
    [] callback = "confirm" -> {<<"DATA_SEND">>}
    [] callback = "upload" -> {<<"DATA_MORE">>}
    [] OTHER -> {<<>>} \cup {<<f>> : f \in Final} \cup
                {<<i, f>> : i \in Interim, f \in Final}

(* Entitled holds of a connection the loop hangs on too, the responses of  *)
(* that one are open.                                                      *)
ProtocolInv ==
  /\ \A c \in Clients : Entitled(conn[c])
  /\ server # "spinning" =>
       \A c \in Clients : conn[c].out \in Responses(conn[c].callback)

(* A packet that can be given a final answer.                              *)
Unanswered(k) == k.out \in {<<>>} \cup {<<i>> : i \in Interim}
-----------------------------------------------------------------------------
(* The answers.                                                            *)

(* While its packet is in progress a connection has sent an interim        *)
(* response at most.                                                       *)
LEMMA ResponsesFacts ==
  /\ Responses("headers") = {<<>>}
  /\ Responses("confirm") = {<<"DATA_SEND">>}
  /\ Responses("upload") = {<<"DATA_MORE">>}
  /\ \A k : k.out \in Responses("headers") \cup Responses("confirm")
                     \cup Responses("upload") => Unanswered(k)
<1>1. /\ Responses("headers") = {<<>>}
      /\ Responses("confirm") = {<<"DATA_SEND">>}
      /\ Responses("upload") = {<<"DATA_MORE">>}
  BY DEF Responses
<1> QED
  BY <1>1 DEF Unanswered, Interim

(* One connection changes, and keeps its part of the invariant.            *)
LEMMA ConnectionProtocol ==
  ASSUME IInv, ProtocolInv, server # "spinning", NEW c \in Clients, NEW new,
         conn' = [conn EXCEPT ![c] = new], Entitled(new),
         server' # "spinning" => new.out \in Responses(new.callback)
  PROVE  ProtocolInv'
<1>1. conn'[c] = new /\ \A d \in Clients \ {c} : conn'[d] = conn[d]
  BY DEF IInv, TypeOK
<1> QED
  BY <1>1 DEF ProtocolInv

(* No packet outlives the process.                                         *)
LEMMA DownProtocol ==
  ASSUME conn' = AllClosed
  PROVE  ProtocolInv'
<1>1. \A c \in Clients : conn'[c].callback = "closed" /\ conn'[c].out = <<>>
  BY DEF AllClosed, Closed, Between
<1>2. \A c \in Clients : Entitled(conn'[c])
  BY <1>1 DEF Entitled, EntitledIn
<1> QED
  BY <1>1, <1>2 DEF ProtocolInv, Responses

(* Neither side of a packet that has ended is owed anything.               *)
LEMMA IdleProtocol ==
  ASSUME NEW callback \in {"closed", "magic"}, NEW sha, NEW out,
         out \in Responses(callback)
  PROVE  /\ Entitled(Between(callback, sha, out))
         /\ Between(callback, sha, out).out \in
              Responses(Between(callback, sha, out).callback)
  BY DEF Between, Entitled, EntitledIn

(* Two one-element sequences in a row.                                     *)
LEMMA PairConcat ==
  ASSUME NEW i, NEW f
  PROVE  <<i>> \o <<f>> = <<i, f>>
<1> DEFINE both == <<i>> \o <<f>>
           S == {i, f}
<1>1. <<i>> \in Seq(S) /\ <<f>> \in Seq(S) /\ <<i, f>> \in Seq(S)
  OBVIOUS
<1>2. both \in Seq(S) /\ Len(both) = 2 /\ both[1] = i /\ both[2] = f
  BY <1>1
<1> HIDE DEF both, S
<1>3. both \in [1..2 -> S] /\ <<i, f>> \in [1..2 -> S]
  BY <1>1, <1>2, SequenceIsFunction
<1>4. \A j \in 1..2 : both[j] = <<i, f>>[j]
  BY <1>2
<1>5. both = <<i, f>>
  BY <1>3, <1>4
<1> QED
  BY <1>5 DEF both

(* A final answer is the only one of its packet.                           *)
LEMMA AnswerProtocol ==
  ASSUME IInv, ProtocolInv, server = "running", NEW c \in Clients, NEW k,
         NEW tmp, NEW code \in Final, Entitled(k), Unanswered(k),
         Answer(c, k, tmp, code)
  PROVE  ProtocolInv'
<1> DEFINE all == k.out \o FinalResponse(code)
<1>1. all \in Responses("closed") /\ all \in Responses("magic")
  <2>1. CASE k.out = <<>>
    <3>1. all = <<code>>
      BY <2>1 DEF FinalResponse
    <3> QED
      BY <3>1 DEF Responses
  <2>2. CASE k.out \in {<<i>> : i \in Interim}
    <3>1. PICK i \in Interim : k.out = <<i>>
      BY <2>2
    <3>2. all = <<i, code>>
      BY <3>1, PairConcat DEF FinalResponse
    <3> QED
      BY <3>2 DEF Responses
  <2> QED
    BY <2>1, <2>2 DEF Unanswered
<1>2. \/ Answered(k, code) = Between("closed", <<>>, all)
      \/ Answered(k, code) = Between("magic", k.sha, all)
  BY DEF Answered
<1> HIDE DEF all
<1>3. /\ Entitled(Answered(k, code))
      /\ Answered(k, code).out \in Responses(Answered(k, code).callback)
  BY <1>1, <1>2, IdleProtocol
<1>4. \/ conn' = [conn EXCEPT ![c] = Answered(k, code)]
      \/ conn' = [conn EXCEPT ![c] = k] /\ server' = "spinning"
  BY DEF Answer, Spins
<1> QED
  BY <1>3, <1>4, ConnectionProtocol

(* An interim answer says what the connection waits for.                   *)
LEMMA AskProtocol ==
  ASSUME IInv, ProtocolInv, server = "running", NEW c \in Clients,
         NEW k \in Connections, NEW tmp, NEW code, NEW callback,
         <<code, callback>> \in {<<"DATA_SEND", "confirm">>, <<"DATA_MORE", "upload">>},
         Entitled(k), EntitledIn(callback, k), k.out = <<>>,
         Ask(c, k, tmp, code, callback)
  PROVE  ProtocolInv'
<1> DEFINE new == [k EXCEPT !.callback = callback, !.out = Append(@, code)]
<1>1. /\ new.callback = callback /\ new.request = k.request
      /\ new.out = <<code>>
  BY DEF Connections
<1>2. \/ conn' = [conn EXCEPT ![c] = new]
      \/ conn' = [conn EXCEPT ![c] = k] /\ server' = "spinning"
  BY DEF Ask, Spins
<1> HIDE DEF new
<1>3. Entitled(new) /\ new.out \in Responses(new.callback)
  BY <1>1 DEF Entitled, EntitledIn, Responses
<1> QED
  BY <1>2, <1>3, ConnectionProtocol

(* The end of an upload answers it, or ends the process.                   *)
LEMMA PostProcessAnswers ==
  ASSUME NEW c, NEW k, NEW tmp, PostProcess(c, k, tmp)
  PROVE  \/ conn' = AllClosed
         \/ \E after, code : code \in Final /\ Answer(c, k, after, code)
<1>1. /\ "PACKET_OK" \in Final /\ "SERVER_FILE_ERROR" \in Final
      /\ "SERVER_INTERNAL_ERROR" \in Final
  BY DEF Final, Errors
<1>2. AppendUpload(c, k, tmp) =>
        conn' = AllClosed \/ Answer(c, k, tmp, "PACKET_OK")
  BY Zenon DEF AppendUpload, Killed
<1>3. ASSUME NEW ok, MoveUpload(c, k, tmp, ok)
      PROVE  \/ conn' = AllClosed
             \/ \E after : \/ Answer(c, k, after, "PACKET_OK")
                           \/ Answer(c, k, after, "SERVER_FILE_ERROR")
  BY <1>3 DEF MoveUpload, Killed
<1>4. PostprocessUpdate(c, k, tmp) =>
        \/ conn' = AllClosed
        \/ Answer(c, k, tmp, "PACKET_OK")
        \/ Answer(c, k, tmp, "SERVER_INTERNAL_ERROR")
  BY Zenon DEF PostprocessUpdate, Killed
<1> QED
  BY <1>1, <1>2, <1>3, <1>4
     DEF PostProcess, PostprocessCreate, PostprocessNotification, PostprocessLogin
-----------------------------------------------------------------------------
(* The handlers.                                                           *)

(* s3_attribs_assert wants a user and a secret of a create and an update,  *)
(* and s3_auth_transaction then an account.                                *)
LEMMA AcceptedAuthentic ==
  ASSUME NEW r \in Requests, TRUE \in AttribsAssert(r), NEW ok,
         "SUCCESS" \in AuthTransaction(r, ok),
         ReadAction(r) \in {"create", "update"}
  PROVE  Authentic(r)
<1> DEFINE given == {a \in {"username", "secret"} : AttribContains(r, a)}
<1>1. \A a \in Required[ReadAction(r)] : AttribContains(r, a)
  BY DEF AttribsAssert
<1>2. {"username", "secret"} \subseteq Required[ReadAction(r)]
  BY DEF Required
<1>3. given = {"username", "secret"}
  BY <1>1, <1>2
<1>4. Cardinality(given) # 1
  <2>1. IsFiniteSet({"username"}) /\ Cardinality({"username"}) = 1
    BY FS_Singleton
  <2>2. Cardinality({"username"} \cup {"secret"}) = 2
    BY <2>1, FS_AddElement
  <2>3. given = {"username"} \cup {"secret"}
    BY <1>3
  <2> QED
    BY <2>2, <2>3
<1>5. AuthTransaction(r, ok) = IF given = {} THEN {"SUCCESS"}
        ELSE IF Cardinality(given) = 1 THEN {"MIX_AUTH_ERROR"}
        ELSE AuthQuery(r, ok)
  BY DEF AuthTransaction
<1>6. "SUCCESS" \in AuthQuery(r, ok) => Authentic(r)
  BY DEF AuthQuery
<1> HIDE DEF given
<1> QED
  BY <1>3, <1>4, <1>5, <1>6

(* The connection as s3_setup_environment leaves it.                       *)
LEMMA ReceivedProtocol ==
  ASSUME IInv, ProtocolInv, server = "running", NEW c \in Clients,
         conn[c].callback = "headers", NEW r \in Requests,
         TRUE \in AttribsAssert(r), NEW ok, "SUCCESS" \in AuthTransaction(r, ok),
         NEW payload \in [1..conn[c].length -> Bytes],
         NEW k, k = Received(c, r, payload) \/ k = Opened(Received(c, r, payload))
  PROVE  /\ k.out = <<>> /\ k.callback = "headers"
         /\ EntitledIn("confirm", k)
<1>1. conn[c] \in Connections /\ conn[c].out \in Responses("headers")
  BY DEF IInv, TypeOK, ProtocolInv
<1> DEFINE q == Prepared(r, payload)
           old == Received(c, r, payload)
<1>2. /\ q.action = ReadAction(r)
      /\ q.append => ReadAction(r) = "create"
      /\ q.authentic = Authentic(r)
  BY DEF Prepared
<1>3. /\ k.out = conn[c].out /\ k.callback = conn[c].callback
      /\ k.request = q
  <2> HIDE DEF q
  <2>1. old = [conn[c] EXCEPT !.temp = NextTemp, !.request = q]
    BY DEF Received, q
  <2>2. /\ old.out = conn[c].out /\ old.callback = conn[c].callback
        /\ old.request = q
    BY <1>1, <2>1 DEF Connections
  <2> HIDE DEF old
  <2>3. Opened(old) = [old EXCEPT !.open = TempFileRequired(old.request.action)]
    BY DEF Opened
  <2>4. /\ Opened(old).out = old.out /\ Opened(old).callback = old.callback
        /\ Opened(old).request = old.request
    BY <1>1, <2>1, <2>3 DEF Connections
  <2> QED
    BY <2>2, <2>4 DEF old
<1> HIDE DEF q
<1>4. k.out = <<>> /\ k.callback = "headers"
  BY <1>1, <1>3, ResponsesFacts
<1>5. q.action \in {"create", "update"} => q.authentic
  BY <1>2, AcceptedAuthentic
<1> QED
  BY <1>2, <1>3, <1>4, <1>5 DEF EntitledIn

(* A request without data is answered in the event of its headers, or its  *)
(* client is asked whether the file may be sent.                           *)
LEMMA CompleteNowProtocol ==
  ASSUME IInv, ProtocolInv, server = "running", NEW c \in Clients,
         NEW k \in Connections, NEW tmp, NEW r,
         k.out = <<>>, k.callback = "headers", CompleteNow(c, k, tmp, r)
  PROVE  ProtocolInv'
<1>1. Entitled(k) /\ EntitledIn("upload", k) /\ Unanswered(k)
  BY DEF Entitled, EntitledIn, Unanswered
<1>2. "PACKET_OK" \in Final /\ "DATA_READY" \in Final
  BY DEF Final
<1>3. CASE PostProcess(c, k, tmp)
  BY <1>1, <1>3, PostProcessAnswers, AnswerProtocol, DownProtocol
<1>4. CASE DeleteFile(c, k, tmp)
  BY <1>1, <1>2, <1>4, AnswerProtocol DEF DeleteFile
<1>5. CASE SendServerinfo(c, k, tmp)
  BY <1>1, <1>2, <1>5, AnswerProtocol DEF SendServerinfo
<1>6. CASE SendDirlist(c, k, tmp, r)
  BY <1>1, <1>2, <1>6, AnswerProtocol, DownProtocol DEF SendDirlist, Exits
<1>7. CASE ConfirmUpload(c, k, tmp)
  BY <1>1, <1>7, AskProtocol DEF ConfirmUpload
<1> QED
  BY <1>3, <1>4, <1>5, <1>6, <1>7 DEF CompleteNow

(* s3_connection_headers_read once the environment is set up.              *)
LEMMA ProcessProtocol ==
  ASSUME IInv, ProtocolInv, server = "running", NEW c \in Clients,
         NEW r \in Requests, NEW k \in Connections,
         k.request.action = ReadAction(r),
         k.out = <<>>, k.callback = "headers", EntitledIn("confirm", k),
         Process(c, r, k)
  PROVE  ProtocolInv'
<1> DEFINE tmp == WithTemp(k)
<1>1. PICK ok \in DbAnswers :
        \/ RefuseRequest(c, k, tmp, Preprocess(r, k.request, k.length, ok))
        \/ AwaitData(c, k, tmp)
        \/ CompleteNow(c, k, tmp, r)
  BY DEF Process
<1> DEFINE code == Preprocess(r, k.request, k.length, ok)
<1>2. code # "SUCCESS" => code \in Final
  <2>1. k.request \in RequestStates /\ k.length \in Nat
    BY DEF Connections
  <2>2. k.request.action # "none"
    BY ServerAssumption DEF ReadAction, RequestRecords, Actions
  <2> QED
    BY <2>1, <2>2, PreprocessFacts
<1> HIDE DEF tmp, code
<1>3. Entitled(k) /\ Unanswered(k)
  BY DEF Entitled, EntitledIn, Unanswered
<1>4. CASE RefuseRequest(c, k, tmp, code)
  BY <1>2, <1>3, <1>4, AnswerProtocol DEF RefuseRequest
<1>5. CASE AwaitData(c, k, tmp)
  BY <1>3, <1>5, AskProtocol DEF AwaitData
<1>6. CASE CompleteNow(c, k, tmp, r)
  BY <1>6, CompleteNowProtocol
<1> QED
  BY <1>1, <1>4, <1>5, <1>6 DEF code

(* All of s3_connection_headers_read.                                      *)
LEMMA HeadersReadProtocol ==
  ASSUME IInv, ProtocolInv, NEW c \in Clients, HeadersRead(c)
  PROVE  ProtocolInv'
<1>1. server = "running" /\ conn[c].callback = "headers"
  BY DEF HeadersRead
<1>2. PICK r \in Requests :
        \/ \E code \in Warnings : RefuseHeaders(c, code)
        \/ /\ TRUE \in AttribsAssert(r)
           /\ \E ok \in DbAnswers : "SUCCESS" \in AuthTransaction(r, ok)
           /\ temp_file_counter' = NextTemp
           /\ \E payload \in [1..conn[c].length -> Bytes] :
                \/ RefuseSetup(c, Received(c, r, payload), r)
                \/ Process(c, r, Opened(Received(c, r, payload)))
  BY DEF HeadersRead, Refusals
<1>3. CASE \E code \in Warnings : RefuseHeaders(c, code)
  <2>1. PICK code \in Warnings : Answer(c, conn[c], temps, code)
    BY <1>3 DEF RefuseHeaders
  <2>2. code \in Final
    BY DEF Final
  <2>3. Entitled(conn[c]) /\ Unanswered(conn[c])
    BY <1>1, ResponsesFacts DEF ProtocolInv
  <2> QED
    BY <1>1, <2>1, <2>2, <2>3, AnswerProtocol
<1>4. CASE /\ TRUE \in AttribsAssert(r)
           /\ \E ok \in DbAnswers : "SUCCESS" \in AuthTransaction(r, ok)
           /\ temp_file_counter' = NextTemp
           /\ \E payload \in [1..conn[c].length -> Bytes] :
                \/ RefuseSetup(c, Received(c, r, payload), r)
                \/ Process(c, r, Opened(Received(c, r, payload)))
  <2>1. PICK ok \in DbAnswers : "SUCCESS" \in AuthTransaction(r, ok)
    BY <1>4
  <2>2. PICK payload \in [1..conn[c].length -> Bytes] :
          \/ RefuseSetup(c, Received(c, r, payload), r)
          \/ Process(c, r, Opened(Received(c, r, payload)))
    BY <1>4
  <2> DEFINE k == Received(c, r, payload)
             o == Opened(k)
  <2>3. /\ k \in Connections /\ k.temp # 0 /\ ~k.open /\ k.index = 0
        /\ k.request = Prepared(r, payload)
        /\ Len(k.request.payload) = k.length
        /\ Ready(c, k, temps, temp_file_counter')
    BY <1>1, <1>4, ReceivedFacts
  <2>4. k.out = <<>> /\ k.callback = "headers"
    BY <1>1, <1>4, <2>1, ReceivedProtocol
  <2>5. o.out = <<>> /\ o.callback = "headers" /\ EntitledIn("confirm", o)
    BY <1>1, <1>4, <2>1, ReceivedProtocol
  <2> HIDE DEF k
  <2>6. k.request.action = ReadAction(r)
    BY <2>3 DEF Prepared
  <2>7. o \in Connections /\ o.request = k.request
    BY <1>1, <2>3, OpenedFacts
  <2> HIDE DEF o
  <2>8. CASE RefuseSetup(c, k, r)
    <3>1. SetupEnvironment(r) # "SUCCESS" => SetupEnvironment(r) \in Final
      BY DEF SetupEnvironment, Final, Warnings, Errors
    <3>2. Entitled(k) /\ Unanswered(k)
      BY <2>4 DEF Entitled, EntitledIn, Unanswered
    <3> QED
      BY <1>1, <2>8, <3>1, <3>2, AnswerProtocol DEF RefuseSetup
  <2>9. CASE Process(c, r, o)
    BY <1>1, <2>5, <2>6, <2>7, <2>9, ProcessProtocol
  <2> QED
    BY <2>2, <2>8, <2>9 DEF k, o
<1> QED
  BY <1>2, <1>3, <1>4

(* network_read_stream: the packet stays the one it was, until its last    *)
(* byte is read and it is answered.                                        *)
LEMMA ReadDataProtocol ==
  ASSUME IInv, ProtocolInv, NEW c \in Clients, ReadData(c)
  PROVE  ProtocolInv'
<1>1. /\ server = "running" /\ conn[c].callback = "confirm"
      /\ conn[c] \in Connections
  BY DEF ReadData, IInv, TypeOK
<1>2. PICK n \in 1..(conn[c].length - conn[c].index) :
        \/ conn' = [conn EXCEPT ![c] = Read(conn[c], n)]
        \/ PostProcess(c, Read(conn[c], n), Stored(conn[c], n))
  BY DEF ReadData
<1> DEFINE k == Read(conn[c], n)
           tmp == Stored(conn[c], n)
<1>3. /\ k.callback = conn[c].callback /\ k.request = conn[c].request
      /\ k.out = conn[c].out
  BY <1>1 DEF Read, Connections
<1> HIDE DEF k, tmp
<1>4. conn[c].out \in Responses("confirm") /\ Entitled(conn[c])
  BY <1>1 DEF ProtocolInv
<1>5. Entitled(k) /\ k.out \in Responses(k.callback) /\ Unanswered(k)
  BY <1>1, <1>3, <1>4
     DEF Entitled, EntitledIn, Responses, Unanswered, Interim
<1>6. CASE conn' = [conn EXCEPT ![c] = k]
  BY <1>1, <1>5, <1>6, ConnectionProtocol
<1>7. CASE PostProcess(c, k, tmp)
  BY <1>1, <1>5, <1>7, PostProcessAnswers, AnswerProtocol, DownProtocol
<1> QED
  BY <1>2, <1>6, <1>7 DEF k, tmp

(* The client's answer to DATA_MORE.                                       *)
LEMMA UploadProtocol ==
  ASSUME IInv, ProtocolInv, NEW c \in Clients, Upload(c)
  PROVE  ProtocolInv'
<1>1. server = "running" /\ conn[c].callback = "upload"
  BY DEF Upload
<1>2. Entitled(conn[c]) /\ Unanswered(conn[c])
  BY <1>1, ResponsesFacts DEF ProtocolInv
<1>3. "DATA_READY" \in Final /\ "NETWORK_ERROR_WRITE" \in Final
  BY DEF Final, Errors
<1> QED
  BY <1>1, <1>2, <1>3, AnswerProtocol DEF Upload, SendFile, NotAccepted

(* A packet begins, or its connection is opened or closed.                 *)
LEMMA BeginEndProtocol ==
  ASSUME IInv, ProtocolInv, NEW c \in Clients,
         Handshake(c) \/ MagicRead(c) \/ MagicInvalid(c) \/ HangUp(c)
  PROVE  ProtocolInv'
<1>1. server # "spinning" /\ conn[c] \in Connections
  BY DEF Handshake, MagicRead, MagicInvalid, HangUp, IInv, TypeOK
<1>2. <<>> \in Responses("magic") /\ <<>> \in Responses("closed")
  BY DEF Responses
<1>3. CASE conn' = [conn EXCEPT ![c] = Fresh] \/ conn' = [conn EXCEPT ![c] = Closed]
  <2>1. Entitled(Fresh) /\ Fresh.out \in Responses(Fresh.callback)
    BY <1>2, IdleProtocol DEF Fresh
  <2>2. Entitled(Closed) /\ Closed.out \in Responses(Closed.callback)
    BY <1>2, IdleProtocol DEF Closed
  <2> QED
    BY <1>1, <1>3, <2>1, <2>2, ConnectionProtocol
<1>4. CASE MagicRead(c)
  <2>1. PICK length \in 0..MaxLength :
          conn' = [conn EXCEPT ![c] =
                     [@ EXCEPT !.callback = "headers", !.length = length,
                               !.out = <<>>]]
    BY <1>4 DEF MagicRead
  <2> DEFINE new == [conn[c] EXCEPT !.callback = "headers", !.length = length,
                                    !.out = <<>>]
  <2>2. new.callback = "headers" /\ new.out = <<>>
    BY <1>1 DEF Connections
  <2>3. conn' = [conn EXCEPT ![c] = new]
    BY <2>1
  <2> HIDE DEF new
  <2>4. Entitled(new) /\ new.out \in Responses(new.callback)
    BY <2>2 DEF Entitled, EntitledIn, Responses
  <2> QED
    BY <1>1, <2>3, <2>4, ConnectionProtocol
<1> QED
  BY <1>3, <1>4 DEF Handshake, MagicInvalid, HangUp

(* The server starts without packets.                                      *)
LEMMA InitProtocol == Init => ProtocolInv
  BY DEF Init, ProtocolInv, AllClosed, Closed, Between, Entitled, EntitledIn,
         Responses

(* Every step keeps the invariant.                                         *)
LEMMA NextProtocol == IInv /\ ProtocolInv /\ [Next]_vars => ProtocolInv'
<1> SUFFICES ASSUME IInv, ProtocolInv, [Next]_vars PROVE ProtocolInv'
  OBVIOUS
<1>1. CASE UNCHANGED <<server, conn>>
  BY <1>1 DEF ProtocolInv
<1>2. ASSUME NEW c \in Clients, ClientStep(c) PROVE ProtocolInv'
  BY <1>2, HeadersReadProtocol, ReadDataProtocol, UploadProtocol, BeginEndProtocol,
     DownProtocol DEF ClientStep, ReadTooBig, Exits
<1>3. CASE Kill
  BY <1>3, DownProtocol DEF Kill, Killed
<1>4. CASE Accept \/ HandshakeFails \/ Restart
  <2>1. UNCHANGED conn /\ server # "spinning"
    BY <1>4 DEF Accept, HandshakeFails, Restart
  <2> QED
    BY <2>1 DEF ProtocolInv
<1> QED
  BY <1>1, <1>2, <1>3, <1>4 DEF Next, vars

(* The two invariants together hold throughout.                            *)
THEOREM ServerProtocol == Spec => [](IInv /\ ProtocolInv)
  BY InitInv, NextInv, InitProtocol, NextProtocol, PTL DEF Spec

(* Every packet is answered by exactly one final response, after at most   *)
(* one interim one that says what its connection waits for: no path        *)
(* through RESPONSE_RESET_RETURN and s3_connection_post_process answers    *)
(* twice, for any number of clients, packets and kills.                    *)
THEOREM PacketsGetOneAnswer == Spec => []OneFinalAnswer
<1>1. ProtocolInv => OneFinalAnswer
  BY DEF ProtocolInv, OneFinalAnswer, Responses
<1> QED
  BY <1>1, ServerProtocol, PTL

(* An upload that will change stored files comes from an account that      *)
(* s3_auth_query found, whatever headers clients send and in whatever      *)
(* order, and although hash_compare confuses some of them.                 *)
THEOREM ChangesAreAuthentic == Spec => []PendingChangesAuthentic
<1>1. ProtocolInv => PendingChangesAuthentic
  BY DEF ProtocolInv, Entitled, EntitledIn, PendingChangesAuthentic
<1> QED
  BY <1>1, ServerProtocol, PTL
-----------------------------------------------------------------------------
(* Contents.                                                               *)

(* A sequence whose elements begin another one is a prefix of it.          *)
LEMMA PrefixByElements ==
  ASSUME NEW S, NEW s \in Seq(S), NEW t \in Seq(S), Len(s) <= Len(t),
         \A i \in 1..Len(s) : s[i] = t[i]
  PROVE  IsPrefix(s, t)
<1> DEFINE n == Len(s)
           left == SubSeq(s, 1, n)
           right == SubSeq(t, 1, n)
<1>1. /\ n \in Nat /\ left \in Seq(S) /\ right \in Seq(S)
      /\ Len(left) = n /\ Len(right) = n
      /\ \A i \in 1..n : left[i] = s[i] /\ right[i] = t[i]
  OBVIOUS
<1> HIDE DEF left, right
<1>2. left \in [1..n -> S] /\ right \in [1..n -> S]
  BY <1>1, SequenceIsFunction
<1>3. left = right
  BY <1>1, <1>2
<1> QED
  BY <1>3 DEF IsPrefix, left, right

(* A sequence whose elements end another one is a suffix of it.            *)
LEMMA SuffixByElements ==
  ASSUME NEW S, NEW s \in Seq(S), NEW t \in Seq(S), Len(s) <= Len(t),
         \A i \in 1..Len(s) : s[i] = t[Len(t) - Len(s) + i]
  PROVE  IsSuffix(s, t)
<1>1. ASSUME NEW u \in Seq(S)
      PROVE  /\ Reverse(u) \in Seq(S) /\ Len(Reverse(u)) = Len(u)
             /\ \A i \in 1..Len(u) : Reverse(u)[i] = u[(Len(u) - i) + 1]
  <2>1. Len(u) \in Nat /\ \A i \in 1..Len(u) : u[(Len(u) - i) + 1] \in S
    OBVIOUS
  <2>2. Reverse(u) \in [1..Len(u) -> S]
    BY <2>1 DEF Reverse
  <2> QED
    BY <2>1, <2>2, FunctionIsSequence DEF Reverse
<1>2. ASSUME NEW i \in 1..Len(s) PROVE Reverse(s)[i] = Reverse(t)[i]
  <2>1. Len(s) \in Nat /\ Len(t) \in Nat
    OBVIOUS
  <2> DEFINE j == (Len(s) - i) + 1
  <2>2. j \in 1..Len(s) /\ Len(t) - Len(s) + j = (Len(t) - i) + 1
    BY <2>1
  <2>3. i \in 1..Len(t)
    BY <2>1
  <2> HIDE DEF j
  <2>4. s[j] = t[(Len(t) - i) + 1]
    BY <2>2
  <2> QED
    BY <1>1, <2>3, <2>4 DEF j
<1>3. IsPrefix(Reverse(s), Reverse(t))
  BY <1>1, <1>2, PrefixByElements
<1> QED
  BY <1>3 DEF IsSuffix

(* A write at the end of a file keeps the file in front of the data.       *)
LEMMA WriteAtEnd ==
  ASSUME NEW s \in Content, NEW d \in Content
  PROVE  /\ IsPrefix(s, WriteAt(s, Len(s), d))
         /\ IsSuffix(d, WriteAt(s, Len(s), d))
<1> DEFINE w == WriteAt(s, Len(s), d)
           S == Bytes \cup {Zero}
<1>1. /\ s \in Seq(S) /\ d \in Seq(S) /\ Len(s) \in Nat /\ Len(d) \in Nat
      /\ w \in Seq(S)
  <2>1. s \in Seq(S) /\ d \in Seq(S)
    BY DEF Content
  <2>2. Len(s) \in Nat /\ Len(d) \in Nat
    BY <2>1
  <2>3. w \in Content
    BY <2>2, WriteAtType
  <2> QED
    BY <2>1, <2>2, <2>3 DEF Content
<1>2. /\ Len(w) = Len(s) + Len(d)
      /\ \A i \in 1..Len(s) : w[i] = s[i]
      /\ \A i \in 1..Len(d) : w[Len(s) + i] = d[i]
  <2>1. CASE d = <<>>
    BY <1>1, <2>1 DEF WriteAt
  <2>2. CASE d # <<>>
    <3>1. Larger(Len(s), Len(s) + Len(d)) = Len(s) + Len(d)
      BY <1>1 DEF Larger
    <3>2. w = [i \in 1..(Len(s) + Len(d)) |->
                 IF i \in (Len(s) + 1)..(Len(s) + Len(d)) THEN d[i - Len(s)]
                 ELSE IF i <= Len(s) THEN s[i] ELSE Zero]
      BY <2>2, <3>1 DEF WriteAt
    <3>3. Len(w) = Len(s) + Len(d)
      BY <1>1, <3>2
    <3>4. ASSUME NEW i \in 1..Len(d) PROVE w[Len(s) + i] = d[i]
      <4>1. /\ Len(s) + i \in 1..(Len(s) + Len(d))
            /\ Len(s) + i \in (Len(s) + 1)..(Len(s) + Len(d))
            /\ (Len(s) + i) - Len(s) = i
        BY <1>1
      <4> QED
        BY <3>2, <4>1
    <3> QED
      BY <1>1, <3>2, <3>3, <3>4
  <2> QED
    BY <2>1, <2>2
<1> HIDE DEF w, S
<1>3. IsPrefix(s, w)
  BY <1>1, <1>2, PrefixByElements
<1>4. /\ Len(d) <= Len(w)
      /\ \A i \in 1..Len(d) : d[i] = w[Len(w) - Len(d) + i]
  <2>1. Len(w) - Len(d) = Len(s)
    BY <1>1, <1>2
  <2> QED
    BY <1>1, <1>2, <2>1
<1>5. IsSuffix(d, w)
  BY <1>1, <1>4, SuffixByElements
<1> QED
  BY <1>3, <1>5 DEF w
-----------------------------------------------------------------------------
(* What a step does to connections and stores.                             *)

(* A step of client d ends the process or changes connection d only.       *)
LEMMA OneConnectionMoves ==
  ASSUME NEW d \in Clients, ClientStep(d)
  PROVE  conn' = AllClosed \/ \E new : conn' = [conn EXCEPT ![d] = new]
<1> DEFINE Moves == conn' = AllClosed \/ \E new : conn' = [conn EXCEPT ![d] = new]
<1>1. ASSUME NEW k, NEW tmp, NEW code, Answer(d, k, tmp, code) PROVE Moves
  BY <1>1 DEF Answer, Spins
<1>2. ASSUME NEW k, NEW tmp, NEW code, NEW callback, Ask(d, k, tmp, code, callback)
      PROVE  Moves
  BY <1>2 DEF Ask, Spins
<1>3. ASSUME NEW k, NEW tmp, PostProcess(d, k, tmp) PROVE Moves
  BY <1>1, <1>3, PostProcessAnswers
<1>4. ASSUME NEW k, NEW tmp, NEW r, CompleteNow(d, k, tmp, r) PROVE Moves
  BY <1>1, <1>2, <1>3, <1>4
     DEF CompleteNow, DeleteFile, SendServerinfo, SendDirlist, ConfirmUpload, Exits
<1>5. ASSUME NEW r, NEW k, Process(d, r, k) PROVE Moves
  <2>1. \/ \E tmp, code : Answer(d, k, tmp, code) \/ Ask(d, k, tmp, code, "confirm")
        \/ \E tmp : CompleteNow(d, k, tmp, r)
    BY <1>5 DEF Process, RefuseRequest, AwaitData
  <2> QED
    BY <1>1, <1>2, <1>4, <2>1
<1>6. CASE HeadersRead(d)
  <2>1. \/ \E k, tmp, code : Answer(d, k, tmp, code)
        \/ \E r, k : Process(d, r, k)
    BY <1>6 DEF HeadersRead, RefuseHeaders, RefuseSetup
  <2> QED
    BY <1>1, <1>5, <2>1
<1>7. CASE ReadData(d)
  <2>1. \/ \E new : conn' = [conn EXCEPT ![d] = new]
        \/ \E k, tmp : PostProcess(d, k, tmp)
    BY <1>7 DEF ReadData
  <2>2. Len(<<"DATA_SEND", "PACKET_OK">>) = 2
    OBVIOUS
  <2> QED
    BY <1>3, <2>1, <2>2
<1>8. CASE Upload(d)
  BY <1>1, <1>8 DEF Upload, SendFile, NotAccepted
<1>9. CASE Handshake(d) \/ MagicRead(d) \/ MagicInvalid(d) \/ ReadTooBig(d) \/ HangUp(d)
  BY <1>9 DEF Handshake, MagicRead, MagicInvalid, ReadTooBig, HangUp, Exits
<1> QED
  BY <1>6, <1>7, <1>8, <1>9 DEF ClientStep

(* The end of an upload as s3_connection_post_process finds it: the        *)
(* connection k of client c, its data in the temporary files tmp.          *)
Uploaded(c, k, tmp) ==
  /\ k \in Connections
  /\ k.request.name \in Names
  /\ tmp[k.temp] = k.request.payload
  /\ k.length = Len(k.request.payload)
  /\ k.request.payload # <<>> => k.sha = k.request.payload

(* Files and rows change in two handlers, at the end of an upload; without *)
(* data that is when the headers are read.                                 *)
LEMMA StoresChangeAtEnd ==
  ASSUME IInv, NEW c \in Clients, HeadersRead(c) \/ ReadData(c)
  PROVE  \/ /\ UNCHANGED files
            /\ \A n \in Names : rows'[n] \in {rows[n], <<>>}
            /\ conn[c].callback = "confirm" => conn'[c].out = conn[c].out
         \/ \E k, tmp :
              /\ PostProcess(c, k, tmp)
              /\ k.request.action \in {"create", "update"} => Uploaded(c, k, tmp)
              /\ k.callback = conn[c].callback
              /\ \/ k.callback = "headers" /\ k.temp # 0 /\ k.length = 0
                 \/ /\ k.callback = "confirm" /\ k.index # conn[c].index
                    /\ k.request = conn[c].request /\ k.out = conn[c].out
<1> DEFINE Silent == conn[c].callback = "confirm" => conn'[c].out = conn[c].out
           Quiet == /\ UNCHANGED files
                    /\ \A n \in Names : rows'[n] \in {rows[n], <<>>}
                    /\ Silent
<1>1. UNCHANGED <<files, rows>> /\ Silent => Quiet
  OBVIOUS
<1>2. conn[c] \in Connections /\ rows \in [Names -> Seq(Records)]
  BY DEF IInv, TypeOK
<1>3. CASE ReadData(c)
  <2>1. server = "running" /\ conn[c].callback = "confirm" /\ UNCHANGED temp_file_counter
    BY <1>3 DEF ReadData
  <2>2. PICK n \in 1..(conn[c].length - conn[c].index) :
          \/ UNCHANGED <<rows, files>> /\ conn' = [conn EXCEPT ![c] = Read(conn[c], n)]
          \/ /\ conn[c].index + n = conn[c].length
             /\ PostProcess(c, Read(conn[c], n), Stored(conn[c], n))
    BY <1>3 DEF ReadData
  <2> DEFINE k == Read(conn[c], n)
             tmp == Stored(conn[c], n)
  <2>3. /\ k \in Connections
        /\ k.temp = conn[c].temp /\ k.open = conn[c].open
        /\ k.callback = "confirm" /\ k.length = conn[c].length
        /\ k.request = conn[c].request /\ k.index = conn[c].index + n
        /\ k.open => tmp[k.temp] = SubSeq(k.request.payload, 1, k.index)
    BY <2>1, ReadFacts
  <2>4. k.out = conn[c].out
    BY <1>2 DEF Read, Connections
  <2>5. /\ conn[c].index \in Nat /\ conn[c].length \in Nat
        /\ conn[c].request.payload \in Seq(Bytes)
    BY <1>2 DEF Connections, RequestStates
  <2>6. k.open /\ k.index = k.length => k.sha = k.request.payload
    BY <1>2, <2>3, <2>5 DEF Read, Connections
  <2>7. PhaseIn("confirm", conn[c])
    BY <2>1 DEF IInv, PhaseOK, Phase
  <2> HIDE DEF k, tmp
  <2>8. CASE UNCHANGED <<rows, files>> /\ conn' = [conn EXCEPT ![c] = k]
    <3>1. conn'[c] = k
      BY <2>8 DEF IInv, TypeOK
    <3> QED
      BY <1>1, <2>4, <2>8, <3>1
  <2>9. CASE conn[c].index + n = conn[c].length /\ PostProcess(c, k, tmp)
    <3>1. ASSUME k.request.action \in {"create", "update"}
          PROVE  Uploaded(c, k, tmp)
      <4>1. k.open /\ k.request.name \in Names /\ Len(k.request.payload) = k.length
        BY <2>3, <2>7, <3>1 DEF PhaseIn, TempFileRequired
      <4>2. SubSeq(k.request.payload, 1, Len(k.request.payload)) = k.request.payload
        BY <2>3, <2>5
      <4> QED
        BY <2>3, <2>6, <2>9, <4>1, <4>2 DEF Uploaded
    <3>2. k.index # conn[c].index
      BY <2>3, <2>5
    <3> QED
      BY <2>1, <2>3, <2>4, <2>9, <3>1, <3>2
  <2> QED
    BY <2>2, <2>8, <2>9 DEF k, tmp
<1>4. CASE HeadersRead(c)
  <2>1. server = "running" /\ conn[c].callback = "headers"
    BY <1>4 DEF HeadersRead
  <2>2. PICK r \in Requests :
          \/ UNCHANGED <<rows, files>>
          \/ /\ TRUE \in AttribsAssert(r)
             /\ temp_file_counter' = NextTemp
             /\ \E payload \in [1..conn[c].length -> Bytes] :
                  Process(c, r, Opened(Received(c, r, payload)))
    BY <1>4 DEF HeadersRead, RefuseHeaders, RefuseSetup
  <2>3. CASE UNCHANGED <<rows, files>>
    BY <1>1, <2>1, <2>3
  <2>4. CASE /\ TRUE \in AttribsAssert(r)
             /\ temp_file_counter' = NextTemp
             /\ \E payload \in [1..conn[c].length -> Bytes] :
                  Process(c, r, Opened(Received(c, r, payload)))
    <3>1. PICK payload \in [1..conn[c].length -> Bytes] :
            Process(c, r, Opened(Received(c, r, payload)))
      BY <2>4
    <3> DEFINE old == Received(c, r, payload)
               k == Opened(old)
               tmp == WithTemp(k)
    <3>2. /\ old \in Connections /\ old.temp # 0 /\ ~old.open /\ old.index = 0
          /\ old.request = Prepared(r, payload) /\ old.callback = "headers"
          /\ Len(old.request.payload) = old.length
          /\ Ready(c, old, temps, temp_file_counter')
      BY <2>1, <2>4, ReceivedFacts
    <3>3. old.request.action = ReadAction(r) /\ old.request.name = FileName(r)
      <4> HIDE DEF old
      <4> QED
        BY <3>2 DEF Prepared
    <3> HIDE DEF old
    <3>4. /\ k \in Connections /\ k.temp = old.temp /\ k.index = 0
          /\ k.request = old.request /\ k.length = old.length
          /\ k.callback = old.callback
          /\ k.open = TempFileRequired(old.request.action)
          /\ k.open => tmp[k.temp] = SubSeq(k.request.payload, 1, k.index)
      BY <2>1, <3>2, OpenedFacts
    <3> HIDE DEF k, tmp
    <3>5. Process(c, r, k)
      BY <3>1 DEF k, old
    <3>6. CASE UNCHANGED <<rows, files>>
      BY <1>1, <2>1, <3>6
    <3>7. CASE CompleteNow(c, k, tmp, r)
      <4>1. CASE UNCHANGED <<rows, files>>
        BY <1>1, <2>1, <4>1
      <4>2. CASE DeleteFile(c, k, tmp)
        BY <1>2, <2>1, <4>2 DEF DeleteFile
      <4>3. CASE PostProcess(c, k, tmp)
        <5>1. k.length = 0
          BY <3>7 DEF CompleteNow
        <5>2. k.request.payload \in Seq(Bytes)
          BY <3>4 DEF Connections, RequestStates
        <5>3. k.request.payload = <<>> /\ SubSeq(k.request.payload, 1, 0) = <<>>
          BY <3>2, <3>4, <5>1, <5>2
        <5>4. ASSUME k.request.action \in {"create", "update"}
              PROVE  Uploaded(c, k, tmp)
          <6>1. SetupEnvironment(r) = "SUCCESS"
            BY <3>5 DEF Process
          <6>2. k.request.name \in Names
            BY <2>4, <3>3, <3>4, <5>4, <6>1, AcceptedName
          <6>3. tmp[k.temp] = <<>>
            BY <3>4, <5>3, <5>4 DEF TempFileRequired
          <6> QED
            BY <3>4, <5>1, <5>3, <6>2, <6>3 DEF Uploaded
        <5> QED
          BY <2>1, <3>2, <3>4, <4>3, <5>1, <5>4
      <4> QED
        BY <3>7, <4>1, <4>2, <4>3
           DEF CompleteNow, SendServerinfo, SendDirlist, ConfirmUpload
    <3> QED
      BY <3>5, <3>6, <3>7 DEF Process, RefuseRequest, AwaitData, tmp
  <2> QED
    BY <2>2, <2>3, <2>4
<1> QED
  BY <1>3, <1>4
-----------------------------------------------------------------------------
(* The action properties.                                                  *)

(* A length that fits in an int passes through one as it is.               *)
LEMMA ToIntFits ==
  ASSUME NEW n \in Nat, n < INT_RANGE \div 2
  PROVE  ToInt(n) = n
<1>1. INT_RANGE \in Nat /\ INT_RANGE > 0
  BY ServerAssumption
<1>2. INT_RANGE \div 2 <= INT_RANGE
  BY <1>1
<1>3. n < INT_RANGE
  BY <1>1, <1>2
<1>4. n % INT_RANGE = n
  BY <1>1, <1>3
<1> QED
  BY <1>4 DEF ToInt

(* The step s3_postprocess_create takes for the rows.                      *)
RowsDescribe ==
  \A n \in Names :
    LET new == rows'[n][Len(rows'[n])]
        path == RealOf[n]
    IN  Len(rows'[n]) > Len(rows[n]) /\ path \notin dirs /\ files'[path] # <<>>
        => /\ new.hash = Hex(files'[path], SHA256_HEXLENGTH - 1)
           /\ Len(files'[path]) < INT_RANGE \div 2 =>
                new.size = Len(files'[path])

(* No row is added, or those of some names are deleted.                    *)
LEMMA NoNewRows ==
  ASSUME IInv, \A n \in Names : rows'[n] \in {rows[n], <<>>}
  PROVE  RowsDescribe
<1>1. ASSUME NEW n \in Names PROVE ~(Len(rows'[n]) > Len(rows[n]))
  <2>1. rows[n] \in Seq(Records)
    BY DEF IInv, TypeOK
  <2>2. Len(rows[n]) \in Nat /\ Len(<<>>) = 0
    BY <2>1
  <2> QED
    BY <2>2
<1> QED
  BY <1>1 DEF RowsDescribe

(* A create inserts the digest and the length of what it has moved.        *)
LEMMA MoveUploadDescribes ==
  ASSUME IInv, NEW c \in Clients, NEW k, NEW tmp, NEW ok,
         Uploaded(c, k, tmp), MoveUpload(c, k, tmp, ok)
  PROVE  RowsDescribe
<1> DEFINE name == k.request.name
           path == RealOf[name]
           data == k.request.payload
<1>1. /\ name \in Names /\ tmp[k.temp] = data
      /\ data # <<>> => k.sha = data
      /\ k.length = Len(data) /\ k.length \in Nat
  BY DEF Uploaded, Connections
<1>2. rows \in [Names -> Seq(Records)]
  BY DEF IInv, TypeOK
<1>3. CASE UNCHANGED rows
  BY <1>3, NoNewRows
<1>4. CASE rows' = [rows EXCEPT ![name] = Append(@, Record(k))]
  <2> SUFFICES ASSUME NEW n \in Names, Len(rows'[n]) > Len(rows[n]),
                      RealOf[n] \notin dirs, files'[RealOf[n]] # <<>>
               PROVE  LET new == rows'[n][Len(rows'[n])]
                      IN  /\ new.hash = Hex(files'[RealOf[n]], SHA256_HEXLENGTH - 1)
                          /\ Len(files'[RealOf[n]]) < INT_RANGE \div 2 =>
                               new.size = Len(files'[RealOf[n]])
    BY DEF RowsDescribe
  <2>1. rows[n] \in Seq(Records) /\ Len(rows[n]) \in Nat
    BY <1>2
  <2>2. n = name
    BY <1>2, <1>4, <2>1
  <2>3. files' = Put(files, path, data)
    BY <1>1, <2>2 DEF MoveUpload
  <2>4. files'[path] = data
    BY <2>3 DEF Put
  <2>5. rows'[n] = Append(rows[n], Record(k))
    BY <1>2, <1>4, <2>2
  <2>6. rows'[n][Len(rows'[n])] = Record(k)
    BY <2>1, <2>5
  <2>7. Record(k).hash = Hex(data, SHA256_HEXLENGTH - 1)
    BY <1>1, <2>2, <2>4 DEF Record
  <2>8. Len(data) < INT_RANGE \div 2 => Record(k).size = Len(data)
    BY <1>1, ToIntFits DEF Record
  <2> QED
    BY <2>2, <2>4, <2>6, <2>7, <2>8
<1> QED
  BY <1>3, <1>4 DEF MoveUpload

(* Every step that inserts a row.                                          *)
LEMMA NextDescribes == IInv /\ Next => RowsDescribe
<1> SUFFICES ASSUME IInv, Next PROVE RowsDescribe
  OBVIOUS
<1>1. CASE UNCHANGED rows
  BY <1>1, NoNewRows
<1>2. ASSUME NEW c \in Clients, HeadersRead(c) \/ ReadData(c) PROVE RowsDescribe
  <2>1. CASE \A n \in Names : rows'[n] \in {rows[n], <<>>}
    BY <2>1, NoNewRows
  <2>2. ASSUME NEW k, NEW tmp, PostProcess(c, k, tmp),
               k.request.action \in {"create", "update"} => Uploaded(c, k, tmp)
        PROVE  RowsDescribe
    <3>1. \/ UNCHANGED rows
          \/ k.request.action = "create" /\ \E ok : MoveUpload(c, k, tmp, ok)
      BY <2>2 DEF PostProcess, PostprocessCreate, AppendUpload, PostprocessUpdate,
                  PostprocessNotification, PostprocessLogin
    <3> QED
      BY <1>1, <2>2, <3>1, MoveUploadDescribes
  <2> QED
    BY <1>2, <2>1, <2>2, StoresChangeAtEnd
<1>3. ASSUME NEW c \in Clients, ClientStep(c) PROVE RowsDescribe
  <2>1. HeadersRead(c) \/ ReadData(c) \/ UNCHANGED rows
    BY <1>3 DEF ClientStep, Handshake, MagicRead, MagicInvalid, ReadTooBig, Upload,
                HangUp, disk
  <2> QED
    BY <1>1, <1>2, <2>1
<1>4. (Kill \/ Restart \/ Accept \/ HandshakeFails) => UNCHANGED rows
  BY DEF Kill, Restart, Accept, HandshakeFails, disk
<1> QED
  BY <1>1, <1>3, <1>4 DEF Next

(* A row that s3_postprocess_create inserts has the size and all but the   *)
(* last digit of the digest of the bytes then stored under its name,       *)
(* although both were computed while the data was received and other       *)
(* clients were served in between.                                         *)
THEOREM RowsDescribeTheirFile == Spec => NewRowsDescribeFile
<1>1. IInv /\ [Next]_vars => [RowsDescribe]_vars
  BY NextDescribes
<1>2. [][RowsDescribe]_vars => NewRowsDescribeFile
  BY DEF RowsDescribe, NewRowsDescribeFile
<1> QED
  BY <1>1, <1>2, ServerInv, PTL DEF Spec
-----------------------------------------------------------------------------
(* A create that is answered PACKET_OK.                                    *)
CreateStored(c) ==
  LET path == RealOf[conn[c].request.name]
  IN  CreateAcknowledged(c) /\ path \notin dirs =>
        /\ path \in DOMAIN files'
        /\ IsSuffix(conn[c].request.payload, files'[path])
        /\ ~conn[c].request.append => files'[path] = conn[c].request.payload

(* No response is left of a process that has ended.                        *)
LEMMA NoneAnswered ==
  ASSUME NEW c \in Clients, conn'[c].out = <<"DATA_SEND", "PACKET_OK">>
  PROVE  conn' # AllClosed
<1>1. AllClosed[c].out = <<>>
  BY DEF AllClosed, Closed, Between
<1>2. Len(<<>>) = 0 /\ Len(<<"DATA_SEND", "PACKET_OK">>) = 2
  OBVIOUS
<1>3. <<>> # <<"DATA_SEND", "PACKET_OK">>
  BY <1>2
<1> SUFFICES ASSUME conn' = AllClosed PROVE FALSE
  OBVIOUS
<1>4. conn'[c].out = <<>>
  BY <1>1
<1> QED
  BY <1>3, <1>4

(* s3_postprocess_create says PACKET_OK only with the data in the file.    *)
LEMMA CreateStores ==
  ASSUME IInv, NEW c \in Clients, NEW k, NEW tmp, Uploaded(c, k, tmp),
         k.request = conn[c].request, k.out = <<"DATA_SEND">>,
         PostprocessCreate(c, k, tmp)
  PROVE  CreateStored(c)
<1> DEFINE path == RealOf[k.request.name]
           data == k.request.payload
<1> SUFFICES ASSUME CreateAcknowledged(c), path \notin dirs
             PROVE  /\ path \in DOMAIN files' /\ IsSuffix(data, files'[path])
                    /\ ~k.request.append => files'[path] = data
  BY DEF CreateStored
<1>1. conn \in [Clients -> Connections] /\ FilesType(files)
  BY DEF IInv, TypeOK, FilesType
<1>2. tmp[k.temp] = data /\ data \in Content
  BY BytesContent DEF Uploaded, Connections, RequestStates
<1>3. conn'[c].out = <<"DATA_SEND", "PACKET_OK">>
  BY DEF CreateAcknowledged
<1>4. conn' # AllClosed
  BY <1>3, NoneAnswered
<1>5. PICK stored \in DbAnswers :
        \/ /\ path \in DOMAIN files \cup dirs /\ k.request.append
           /\ AppendUpload(c, k, tmp)
        \/ MoveUpload(c, k, tmp, stored)
  BY DEF PostprocessCreate, FileExists
<1>6. CASE path \in DOMAIN files /\ k.request.append /\ AppendUpload(c, k, tmp)
  <2>1. files' = Put(files, path, WriteAt(files[path], Len(files[path]), data))
    BY <1>2, <1>4, <1>6 DEF AppendUpload, Killed
  <2>2. files[path] \in Content
    BY <1>1, <1>6 DEF FilesType
  <2>3. IsSuffix(data, WriteAt(files[path], Len(files[path]), data))
    BY <1>2, <2>2, WriteAtEnd
  <2> QED
    BY <1>6, <2>1, <2>3 DEF Put
<1>7. CASE MoveUpload(c, k, tmp, stored)
  <2>1. files' = Put(files, path, data)
    BY <1>2, <1>7 DEF MoveUpload
  <2>2. IsSuffix(data, data)
    <3>1. Len(data) \in Nat /\ data \in Seq(Bytes \cup {Zero})
      BY <1>2 DEF Content
    <3>2. Len(data) <= Len(data) /\ \A i \in 1..Len(data) : Len(data) - Len(data) + i = i
      BY <3>1
    <3> QED
      BY <3>1, <3>2, SuffixByElements
  <2> QED
    BY <2>1, <2>2 DEF Put
<1> QED
  BY <1>5, <1>6, <1>7

(* Only the end of its own upload acknowledges a create.                   *)
LEMMA NextStores ==
  ASSUME IInv, ProtocolInv, Next, NEW c \in Clients, CreateAcknowledged(c)
  PROVE  CreateStored(c)
<1>1. /\ conn[c].callback = "confirm" /\ conn[c].request.action = "create"
      /\ conn'[c].out = <<"DATA_SEND", "PACKET_OK">>
  BY DEF CreateAcknowledged
<1>2. conn' # AllClosed
  BY <1>1, NoneAnswered
<1>3. ~Kill
  BY <1>2 DEF Kill, Killed
<1>4. server # "spinning"
  BY <1>3 DEF Next, ClientStep, Handshake, MagicRead, MagicInvalid, HeadersRead,
              ReadData, ReadTooBig, Upload, HangUp, Accept, HandshakeFails, Restart
<1>5. conn[c].out = <<"DATA_SEND">>
  BY <1>1, <1>4, ResponsesFacts DEF ProtocolInv
<1>6. conn'[c].out # conn[c].out
  <2>1. Len(<<"DATA_SEND">>) = 1 /\ Len(<<"DATA_SEND", "PACKET_OK">>) = 2
    OBVIOUS
  <2>2. <<"DATA_SEND">> # <<"DATA_SEND", "PACKET_OK">>
    BY <2>1
  <2> QED
    BY <1>1, <1>5, <2>2
<1>7. PICK d \in Clients : ClientStep(d)
  <2>1. ~(Accept \/ HandshakeFails \/ Restart)
    BY <1>6 DEF Accept, HandshakeFails, Restart
  <2> QED
    BY <1>3, <2>1 DEF Next
<1>8. d = c
  <2>1. PICK new : conn' = [conn EXCEPT ![d] = new]
    BY <1>2, <1>7, OneConnectionMoves
  <2>2. conn \in [Clients -> Connections]
    BY DEF IInv, TypeOK
  <2>3. d # c => conn'[c] = conn[c]
    BY <2>1, <2>2
  <2> QED
    BY <1>6, <2>3
<1>9. ReadData(c)
  <2>1. ~(Handshake(c) \/ MagicRead(c) \/ MagicInvalid(c) \/ HeadersRead(c) \/ Upload(c))
    BY <1>1 DEF Handshake, MagicRead, MagicInvalid, HeadersRead, Upload
  <2>2. ~ReadTooBig(c)
    BY <1>2 DEF ReadTooBig, Exits
  <2>3. HangUp(c) => conn'[c].out = <<>>
    BY DEF HangUp, Closed, Between, IInv, TypeOK
  <2>4. Len(<<>>) = 0 /\ Len(<<"DATA_SEND", "PACKET_OK">>) = 2
    OBVIOUS
  <2>5. <<>> # <<"DATA_SEND", "PACKET_OK">>
    BY <2>4
  <2> QED
    BY <1>1, <1>7, <1>8, <2>1, <2>2, <2>3, <2>5 DEF ClientStep
<1>10. PICK k, tmp :
         /\ PostProcess(c, k, tmp)
         /\ k.request.action \in {"create", "update"} => Uploaded(c, k, tmp)
         /\ k.request = conn[c].request /\ k.out = conn[c].out
  BY <1>1, <1>6, <1>9, StoresChangeAtEnd
<1>11. PostprocessCreate(c, k, tmp) /\ Uploaded(c, k, tmp)
  BY <1>1, <1>10 DEF PostProcess
<1> QED
  BY <1>5, <1>10, <1>11, CreateStores

(* A create that is answered PACKET_OK has stored its data, whatever other *)
(* clients did since it was accepted: the whole upload is at the end of    *)
(* the file, and is all of it without append, unless a directory is at its *)
(* path (s3_postprocess_create).                                           *)
THEOREM AcknowledgedMeansStored == Spec => AcknowledgedCreateStored
<1>1. IInv /\ ProtocolInv /\ [Next]_vars => [\A c \in Clients : CreateStored(c)]_vars
  BY NextStores DEF CreateStored
<1>2. [][\A c \in Clients : CreateStored(c)]_vars => AcknowledgedCreateStored
  BY DEF CreateStored, AcknowledgedCreateStored
<1> QED
  BY <1>1, <1>2, ServerProtocol, PTL DEF Spec
-----------------------------------------------------------------------------
(* Appending.                                                              *)

(* The append of client c keeps the file it appends to.                    *)
AppendKeeps(c) ==
  LET path == RealOf[conn[c].request.name]
  IN  /\ conn[c].callback = "confirm" /\ conn[c].request.append
      /\ FileExists(conn[c].request.name, TRUE)
      /\ path \in DOMAIN files
      /\ files'[path] # files[path]
      /\ \A d \in Clients \ {c} : conn'[d] = conn[d]
      => IsPrefix(files[path], files'[path])

(* A client whose step changes a file is seen to move.                     *)
LEMMA WriterMoves ==
  ASSUME IInv, NEW d \in Clients, HeadersRead(d) \/ ReadData(d), files' # files
  PROVE  conn'[d] # conn[d]
<1>1. conn \in [Clients -> Connections]
  BY DEF IInv, TypeOK
<1>2. server = "running" /\ conn[d].callback \in {"headers", "confirm"}
  BY DEF HeadersRead, ReadData
<1>3. conn[d].callback = "headers" => conn[d].temp = 0
  BY <1>2 DEF IInv, PhaseOK, Phase, PhaseIn
<1>4. PICK k, tmp :
        /\ PostProcess(d, k, tmp)
        /\ k.callback = conn[d].callback
        /\ \/ k.callback = "headers" /\ k.temp # 0
           \/ k.callback = "confirm" /\ k.index # conn[d].index
  BY StoresChangeAtEnd
<1>5. k # conn[d]
  BY <1>3, <1>4
<1>6. AllClosed[d].callback = "closed"
  BY DEF AllClosed, Closed, Between
<1>7. CASE conn' = AllClosed
  BY <1>2, <1>6, <1>7
<1>8. ASSUME NEW after, NEW code, Answer(d, k, after, code) PROVE conn'[d] # conn[d]
  <2>1. conn'[d] = k \/ conn'[d] = Answered(k, code)
    BY <1>1, <1>8 DEF Answer, Spins
  <2>2. Answered(k, code).callback \in {"closed", "magic"}
    BY DEF Answered, Between
  <2> QED
    BY <1>2, <1>5, <2>1, <2>2
<1> QED
  BY <1>4, <1>7, <1>8, PostProcessAnswers

(* What a complete or an interrupted append leaves starts with the file.   *)
LEMMA AppendExtends ==
  ASSUME NEW c, NEW k, NEW tmp, FilesType(files), tmp[k.temp] \in Content,
         RealOf[k.request.name] \in DOMAIN files, AppendUpload(c, k, tmp)
  PROVE  IsPrefix(files[RealOf[k.request.name]], files'[RealOf[k.request.name]])
<1> DEFINE path == RealOf[k.request.name]
           data == tmp[k.temp]
<1>1. files[path] \in Content
  BY DEF FilesType
<1>2. PICK part :
        /\ part = data \/ \E m \in 0..Len(data) : part = SubSeq(data, 1, m)
        /\ files' = Put(files, path, WriteAt(files[path], Len(files[path]), part))
  BY DEF AppendUpload, TornWrites
<1>3. part \in Content
  <2>1. data \in Seq(Bytes \cup {Zero})
    BY DEF Content
  <2>2. \A m \in 0..Len(data) : SubSeq(data, 1, m) \in Seq(Bytes \cup {Zero})
    BY <2>1
  <2> QED
    BY <1>2, <2>1, <2>2 DEF Content
<1>4. IsPrefix(files[path], WriteAt(files[path], Len(files[path]), part))
  BY <1>1, <1>3, WriteAtEnd
<1> QED
  BY <1>2, <1>4 DEF Put

(* Every step that changes a file.                                         *)
LEMMA NextAppends ==
  ASSUME DbAnswers = {TRUE}, IInv, ProtocolInv, Next, NEW c \in Clients
  PROVE  AppendKeeps(c)
<1> DEFINE name == conn[c].request.name
           path == RealOf[name]
<1> SUFFICES ASSUME conn[c].callback = "confirm", conn[c].request.append,
                    FileExists(name, TRUE), path \in DOMAIN files,
                    files'[path] # files[path],
                    \A d \in Clients \ {c} : conn'[d] = conn[d]
             PROVE  IsPrefix(files[path], files'[path])
  BY DEF AppendKeeps
<1>1. files' # files
  OBVIOUS
<1>2. PICK d \in Clients : HeadersRead(d) \/ ReadData(d)
  BY <1>1 DEF Next, ClientStep, Handshake, MagicRead, MagicInvalid, ReadTooBig, Upload,
              HangUp, Accept, HandshakeFails, Kill, Restart, disk
<1>3. d = c
  BY <1>1, <1>2, WriterMoves
<1>4. PICK k, tmp :
        /\ PostProcess(c, k, tmp)
        /\ k.request.action \in {"create", "update"} => Uploaded(c, k, tmp)
        /\ k.request = conn[c].request
  BY <1>1, <1>2, <1>3, StoresChangeAtEnd
<1>5. k.request.action = "create"
  BY <1>4 DEF ProtocolInv, Entitled, EntitledIn
<1>6. PostprocessCreate(c, k, tmp) /\ Uploaded(c, k, tmp)
  BY <1>4, <1>5 DEF PostProcess
<1>7. AppendUpload(c, k, tmp)
  BY <1>4, <1>6 DEF PostprocessCreate
<1>8. tmp[k.temp] \in Content
  BY <1>6, BytesContent DEF Uploaded, Connections, RequestStates
<1>9. FilesType(files)
  BY DEF IInv, TypeOK, FilesType
<1> QED
  BY <1>4, <1>7, <1>8, <1>9, AppendExtends

(* As long as the database answers, an append to a file that exists keeps  *)
(* every byte of it, also when a kill interrupts it: the end is taken when *)
(* the data is complete (file_append), so what other clients wrote since   *)
(* the headers came is kept.  A query that fails makes s3_postprocess_     *)
(* create take the file for absent and move the upload over it, which is   *)
(* why the assumption is needed.                                           *)
THEOREM AppendsKeepContent ==
  ASSUME DbAnswers = {TRUE}
  PROVE  Spec => AppendKeepsContent
<1>1. IInv /\ ProtocolInv /\ [Next]_vars => [\A c \in Clients : AppendKeeps(c)]_vars
  BY NextAppends DEF AppendKeeps
<1>2. [][\A c \in Clients : AppendKeeps(c)]_vars => AppendKeepsContent
  BY DEF AppendKeeps, AppendKeepsContent
<1> QED
  BY <1>1, <1>2, ServerProtocol, PTL DEF Spec
=============================================================================
