----------------------------- MODULE WireProofs -----------------------------
(***************************************************************************)
(* Proofs about Wire, for every size of the buffers, every cutting of the  *)
(* stream into records, reads and events, and every length of the parts    *)
(* and of the responses: an upload arrives in its temporary file and in    *)
(* its digest byte by byte and in order, and a response reaches the client *)
(* the same way, however often its buffer is filled again.                 *)
(***************************************************************************)
EXTENDS Wire, SequenceTheorems, TLAPS

-----------------------------------------------------------------------------
(* The inductive invariant of the reading side.                            *)

(* What a connection can be told to wait for.                              *)
Expectations ==
  {w \in [callback : {"magic", "headers", "confirm", "upload", "closed"},
          length : Nat, file : BOOLEAN] : w.file => w.length > 0}

(* The part in progress: inside network_read_stream the local buffer_index *)
(* is what the last read left, or 0 on a new event for a part that is kept *)
(* in memory, and such a part fits in the buffer.  Nothing is read while a *)
(* response is written.                                                    *)
PartInv ==
  /\ index <= length
  /\ file => length > 0
  /\ ~file /\ (reading \/ index > 0) => length <= NETWORK_READ_BUFFER
  /\ reading => buffer_index = index \/ (~file /\ buffer_index = 0)
  /\ writing # "no" => ~reading

ReadInv ==
  /\ TypeOK
  /\ next \in Expectations
  /\ PartInv
  /\ UploadReceived
  /\ MemoryPartReceived
-----------------------------------------------------------------------------
(* Numbered bytes.                                                         *)

(* The n bytes after the first k are a sequence of that length.            *)
LEMMA BytesAfterFacts ==
  ASSUME NEW k \in Nat, NEW n \in Nat
  PROVE  /\ BytesAfter(k, n) \in Seq(Nat) /\ Len(BytesAfter(k, n)) = n
         /\ \A i \in 1..n : BytesAfter(k, n)[i] = k + i
<1>1. BytesAfter(k, n) \in [1..n -> Nat]
  BY DEF BytesAfter
<1>2. BytesAfter(k, n) \in Seq(Nat) /\ Len(BytesAfter(k, n)) = n
  BY <1>1
<1> QED
  BY <1>2 DEF BytesAfter

(* No bytes.                                                               *)
LEMMA BytesAfterNone ==
  ASSUME NEW k \in Nat
  PROVE  BytesAfter(k, 0) = <<>>
  BY BytesAfterFacts, EmptySeq

(* The bytes at the front of a buffer.                                     *)
LEMMA BytesInFront ==
  ASSUME NEW room \in Nat, NEW a \in [1..room -> Nat], NEW k \in Nat,
         NEW n \in 0..room, \A i \in 1..n : a[i] = k + i
  PROVE  SubSeq(a, 1, n) = BytesAfter(k, n)
<1>1. \A i \in 1..n : a[i] \in Nat
  OBVIOUS
<1>2. /\ SubSeq(a, 1, n) \in Seq(Nat) /\ Len(SubSeq(a, 1, n)) = n
      /\ \A i \in 1..n : SubSeq(a, 1, n)[i] = a[i]
  <2>1. n \in Int /\ 1 \in Int
    OBVIOUS
  <2>2. /\ SubSeq(a, 1, n) \in Seq(Nat)
        /\ Len(SubSeq(a, 1, n)) = IF 1 <= n THEN n - 1 + 1 ELSE 0
        /\ \A i \in 1..(n - 1 + 1) : SubSeq(a, 1, n)[i] = a[1 + i - 1]
    BY <1>1, <2>1, SubSeqProperties
  <2> QED
    BY <2>2
<1> DEFINE left == SubSeq(a, 1, n)
           right == BytesAfter(k, n)
<1>3. /\ right \in Seq(Nat) /\ Len(right) = n
      /\ \A i \in 1..n : right[i] = k + i
  <2>1. n \in Nat
    OBVIOUS
  <2> QED
    BY <2>1, BytesAfterFacts
<1>4. left \in Seq(Nat) /\ Len(left) = n /\ \A i \in 1..n : left[i] = right[i]
  BY <1>2, <1>3
<1> HIDE DEF left, right
<1>5. left = right
  BY <1>3, <1>4, SeqEqual
<1> QED
  BY <1>5 DEF left, right

(* Bytes, and those that follow them.                                      *)
LEMMA BytesAfterConcat ==
  ASSUME NEW k \in Nat, NEW m \in Nat, NEW n \in Nat
  PROVE  BytesAfter(k, m) \o BytesAfter(k + m, n) = BytesAfter(k, m + n)
<1> DEFINE s == BytesAfter(k, m)
           t == BytesAfter(k + m, n)
           u == BytesAfter(k, m + n)
<1>1. /\ s \in Seq(Nat) /\ Len(s) = m /\ \A i \in 1..m : s[i] = k + i
      /\ t \in Seq(Nat) /\ Len(t) = n /\ \A i \in 1..n : t[i] = k + m + i
      /\ u \in Seq(Nat) /\ Len(u) = m + n /\ \A i \in 1..(m + n) : u[i] = k + i
  <2>1. k + m \in Nat /\ m + n \in Nat
    OBVIOUS
  <2>2. s \in Seq(Nat) /\ Len(s) = m /\ \A i \in 1..m : s[i] = k + i
    BY BytesAfterFacts
  <2>3. t \in Seq(Nat) /\ Len(t) = n /\ \A i \in 1..n : t[i] = k + m + i
    BY <2>1, BytesAfterFacts
  <2>4. u \in Seq(Nat) /\ Len(u) = m + n /\ \A i \in 1..(m + n) : u[i] = k + i
    BY <2>1, BytesAfterFacts
  <2> QED
    BY <2>2, <2>3, <2>4
<1> HIDE DEF s, t, u
<1>2. /\ s \o t \in Seq(Nat) /\ Len(s \o t) = m + n
      /\ \A i \in 1..(m + n) : (s \o t)[i] = IF i <= m THEN s[i] ELSE t[i - m]
  <2>1. s \in Seq(Nat) /\ t \in Seq(Nat) /\ Len(s) = m /\ Len(t) = n
    BY <1>1
  <2>2. /\ s \o t \in Seq(Nat) /\ Len(s \o t) = Len(s) + Len(t)
        /\ \A i \in 1..(Len(s) + Len(t)) :
             (s \o t)[i] = IF i <= Len(s) THEN s[i] ELSE t[i - Len(s)]
    BY ONLY <2>1, ConcatProperties
  <2> QED
    BY ONLY <2>1, <2>2
<1>3. ASSUME NEW i \in 1..(m + n) PROVE (s \o t)[i] = u[i]
  <2>1. CASE i <= m
    BY <1>1, <1>2, <2>1
  <2>2. CASE i > m
    <3>1. i - m \in 1..n /\ k + m + (i - m) = k + i
      BY <2>2
    <3>2. (s \o t)[i] = t[i - m]
      BY <1>2, <2>2
    <3>3. t[i - m] = k + m + (i - m)
      BY <1>1, <3>1
    <3> QED
      BY <1>1, <3>1, <3>2, <3>3
  <2>3. i <= m \/ i > m
    OBVIOUS
  <2> QED
    BY <2>1, <2>2, <2>3
<1>4. s \o t = u
  BY <1>1, <1>2, <1>3, SeqEqual
<1> QED
  BY <1>4 DEF s, t, u
-----------------------------------------------------------------------------
(* One read.                                                               *)

(* A read brings between one byte and what is available, wanted and fits.  *)
LEMMA ReadCountFacts ==
  ASSUME ReadInv, ReadCount > 0
  PROVE  /\ Available \in Nat /\ ReadCount \in 1..Available
         /\ ReadCount <= length - index /\ ReadCount <= NETWORK_READ_BUFFER
         /\ ssl = 0 => kernel # <<>>
<1>1. ssl \in Nat /\ index \in Nat /\ length \in Nat /\ kernel \in Seq(Nat)
  BY DEF ReadInv, TypeOK, ReadTypeOK
<1>2. kernel # <<>> => Head(kernel) \in Nat
  BY <1>1
<1>3. Available \in Nat
  BY <1>1, <1>2 DEF Available
<1>4. NETWORK_READ_BUFFER \in Nat
  BY ReadStreamAssumption
<1>5. /\ ReadCount \in 1..Available
      /\ ReadCount <= length - index /\ ReadCount <= NETWORK_READ_BUFFER
  BY <1>1, <1>3, <1>4 DEF ReadCount, Least
<1>6. Available > 0
  BY <1>3, <1>5
<1> QED
  BY <1>1, <1>3, <1>5, <1>6 DEF Available

(* What it leaves in the socket and the TLS library.                       *)
LEMMA TakeType ==
  ASSUME ReadInv, NEW n \in 1..Available, Take(n), Available \in Nat,
         ssl = 0 => kernel # <<>>
  PROVE  kernel' \in Seq(Nat) /\ ssl' \in Nat
<1>1. ssl \in Nat /\ kernel \in Seq(Nat)
  BY DEF ReadInv, TypeOK, ReadTypeOK
<1>2. Available - n \in Nat
  OBVIOUS
<1>3. CASE plain_mode
  <2> DEFINE rest == Available - n
  <2>1. kernel' \in {<<>>, <<rest>>} /\ ssl' = ssl
    BY <1>3 DEF Take
  <2> HIDE DEF rest
  <2>2. rest \in Nat
    BY <1>2 DEF rest
  <2>3. <<rest>> \in Seq(Nat) /\ <<>> \in Seq(Nat)
    BY <2>2
  <2> QED
    BY <1>1, <2>1, <2>3
<1>4. CASE ~plain_mode
  <2>1. ssl' = Available - n /\ kernel' = IF ssl > 0 THEN kernel ELSE Tail(kernel)
    BY <1>4 DEF Take
  <2>2. ssl = 0 => Tail(kernel) \in Seq(Nat)
    BY <1>1
  <2> QED
    BY <1>1, <1>2, <2>1, <2>2
<1> QED
  BY <1>3, <1>4

(* The buffer after it.                                                    *)
LEMMA FilledFacts ==
  ASSUME ReadInv, reading, NEW n \in Nat
  PROVE  /\ BufferOffset \in Nat
         /\ Filled(n) \in [1..NETWORK_READ_BUFFER -> Nat]
         /\ \A i \in 1..NETWORK_READ_BUFFER :
              Filled(n)[i] = IF i \in (BufferOffset + 1)..(BufferOffset + n)
                             THEN base + index + i - BufferOffset ELSE address[i]
<1>1. /\ base \in Nat /\ index \in Nat /\ buffer_index \in Nat
      /\ address \in [1..NETWORK_READ_BUFFER -> Nat]
  BY DEF ReadInv, TypeOK, ReadTypeOK
<1>2. BufferOffset \in Nat
  BY <1>1 DEF BufferOffset, ReadInv, PartInv
<1>3. ASSUME NEW i \in 1..NETWORK_READ_BUFFER
      PROVE  (IF i \in (BufferOffset + 1)..(BufferOffset + n)
              THEN base + index + i - BufferOffset ELSE address[i]) \in Nat
  BY <1>1, <1>2, <1>3, ReadStreamAssumption
<1> QED
  BY <1>2, <1>3 DEF Filled

(* In the file branch the buffer starts with the bytes just read.          *)
LEMMA ChunkFacts ==
  ASSUME ReadInv, reading, file, NEW n \in 1..NETWORK_READ_BUFFER
  PROVE  Chunk(n) = BytesAfter(base + index, n)
<1>1. base \in Nat /\ index \in Nat /\ buffer_index = index /\ n \in Nat
  BY ReadStreamAssumption DEF ReadInv, TypeOK, ReadTypeOK, PartInv
<1>2. BufferOffset = 0 /\ index + n - buffer_index = n
  BY <1>1 DEF BufferOffset
<1>3. /\ Filled(n) \in [1..NETWORK_READ_BUFFER -> Nat]
      /\ \A i \in 1..n : Filled(n)[i] = base + index + i
  <2>1. n \in 1..NETWORK_READ_BUFFER /\ NETWORK_READ_BUFFER \in Nat
    BY ReadStreamAssumption
  <2>2. 1..n \subseteq 1..NETWORK_READ_BUFFER
    BY <2>1
  <2> QED
    BY <1>1, <1>2, <2>1, <2>2, FilledFacts
<1>4. NETWORK_READ_BUFFER \in Nat /\ n \in 0..NETWORK_READ_BUFFER
      /\ base + index \in Nat
  BY <1>1, ReadStreamAssumption
<1>5. SubSeq(Filled(n), 1, n) = BytesAfter(base + index, n)
  BY <1>3, <1>4, BytesInFront
<1> QED
  BY <1>2, <1>5 DEF Chunk

(* A turn of the loop in network_read_stream keeps its invariant.          *)
LEMMA ReadSomeInv ==
  ASSUME ReadInv, ReadSome, writing = "no", UNCHANGED <<callback, next, writing>>
  PROVE  ReadInv'
<1> DEFINE n == ReadCount
<1>1. reading /\ n > 0 /\ Take(n) /\ address' = Filled(n) /\ index' = index + n
      /\ buffer_index' = index + n /\ torn' = (torn \/ (~file /\ buffer_index > 0))
      /\ UNCHANGED <<plain_mode, sent, base, length, file, reading>>
  BY DEF ReadSome
<1>2. /\ Available \in Nat /\ n \in 1..Available
      /\ n <= length - index /\ n <= NETWORK_READ_BUFFER
      /\ ssl = 0 => kernel # <<>>
  BY <1>1, ReadCountFacts
<1>3. ReadTypeOK /\ index \in Nat /\ length \in Nat /\ base \in Nat /\ n \in Nat
      /\ buffer_index \in Nat /\ NETWORK_READ_BUFFER \in Nat
      /\ n \in 1..NETWORK_READ_BUFFER
  <2>1. ReadTypeOK
    BY DEF ReadInv, TypeOK
  <2>2. index \in Nat /\ length \in Nat /\ base \in Nat /\ buffer_index \in Nat
    BY <2>1 DEF ReadTypeOK
  <2>3. NETWORK_READ_BUFFER \in Nat
    BY ReadStreamAssumption
  <2> HIDE DEF n
  <2> QED
    BY <1>2, <2>1, <2>2, <2>3
<1>4. kernel' \in Seq(Nat) /\ ssl' \in Nat
  BY <1>1, <1>2, TakeType
<1>5. /\ BufferOffset \in Nat
      /\ address' \in [1..NETWORK_READ_BUFFER -> Nat]
      /\ \A i \in 1..NETWORK_READ_BUFFER :
           address'[i] = IF i \in (BufferOffset + 1)..(BufferOffset + n)
                         THEN base + index + i - BufferOffset ELSE address[i]
  BY <1>1, <1>3, FilledFacts
<1> HIDE DEF n
<1>6. PartInv'
  BY <1>1, <1>2, <1>3 DEF ReadInv, PartInv
<1>7. CASE file
  <2>1. /\ temp' = temp \o Chunk(n)
        /\ sha' = (IF buffer_index = 0 THEN <<>> ELSE sha) \o Chunk(n)
        /\ digest' = IF index + n = length THEN sha' ELSE digest
    BY <1>7 DEF ReadSome, n
  <2>2. Chunk(n) = BytesAfter(base + index, n)
    BY <1>1, <1>3, <1>7, ChunkFacts
  <2>3. temp = BytesAfter(base, index) /\ (index > 0 => sha = temp)
    BY <1>7 DEF ReadInv, UploadReceived
  <2>4. temp' = BytesAfter(base, index + n)
    <3>1. BytesAfter(base, index) \o BytesAfter(base + index, n)
            = BytesAfter(base, index + n)
      <4>1. base \in Nat /\ index \in Nat /\ n \in Nat
        BY <1>3
      <4> QED
        BY <4>1, BytesAfterConcat
    <3> QED
      BY <2>1, <2>2, <2>3, <3>1
  <2>5. (IF buffer_index = 0 THEN <<>> ELSE sha) = temp
    <3>1. buffer_index = index
      BY <1>1, <1>7 DEF ReadInv, PartInv
    <3>2. index = 0 => temp = <<>>
      BY <1>3, <2>3, BytesAfterNone
    <3> QED
      BY <1>3, <2>3, <3>1, <3>2
  <2>6. sha' = temp' /\ (index + n = length => digest' = temp')
    BY <2>1, <2>5
  <2>7. temp' \in Seq(Nat)
    BY <1>3, <2>4, BytesAfterFacts
  <2>8. ReadTypeOK'
    <3>1. digest' \in Seq(Nat)
      BY <1>3, <2>1, <2>6, <2>7 DEF ReadTypeOK
    <3> QED
      BY <1>1, <1>3, <1>4, <1>5, <2>6, <2>7, <3>1 DEF ReadTypeOK
  <2>9. UploadReceived' /\ MemoryPartReceived'
    BY <1>1, <1>7, <2>4, <2>6 DEF UploadReceived, MemoryPartReceived
  <2> QED
    BY <1>6, <2>8, <2>9 DEF ReadInv, TypeOK
<1>8. CASE ~file
  <2>1. UNCHANGED <<temp, sha, digest>>
    BY <1>8 DEF ReadSome
  <2>2. ReadTypeOK'
    BY <1>1, <1>3, <1>4, <1>5, <2>1 DEF ReadTypeOK
  <2>3. ASSUME ~torn'
        PROVE  SubSeq(address', 1, index + n) = BytesAfter(base, index + n)
    <3>1. ~torn /\ buffer_index = 0
      <4>1. ~(torn \/ (~file /\ buffer_index > 0))
        BY <1>1, <2>3
      <4> QED
        BY <1>3, <1>8, <4>1
    <3>2. BufferOffset = index
      BY <1>3, <3>1 DEF BufferOffset
    <3>3. index + n \in 0..NETWORK_READ_BUFFER /\ index \in 0..NETWORK_READ_BUFFER
      BY <1>1, <1>2, <1>3, <1>8 DEF ReadInv, PartInv
    <3>4. SubSeq(address, 1, index) = BytesAfter(base, index)
      BY <1>8, <3>1 DEF ReadInv, MemoryPartReceived
    <3>5. ASSUME NEW i \in 1..index PROVE address[i] = base + i
      <4>1. address \in [1..NETWORK_READ_BUFFER -> Nat]
        BY <1>3 DEF ReadTypeOK
      <4>2. \A j \in 1..index : address[j] \in Nat
        BY <1>3, <3>3, <4>1
      <4>3. SubSeq(address, 1, index)[i] = address[i]
        <5>1. \A j \in 1..(index - 1 + 1) :
                SubSeq(address, 1, index)[j] = address[1 + j - 1]
          BY <1>3, <4>2, SubSeqProperties
        <5> QED
          BY <1>3, <5>1
      <4> QED
        <5>1. BytesAfter(base, index)[i] = base + i
          BY <1>3, BytesAfterFacts
        <5> QED
          BY <3>4, <4>3, <5>1
    <3>6. ASSUME NEW i \in 1..(index + n) PROVE address'[i] = base + i
      <4>1. i \in 1..NETWORK_READ_BUFFER
        BY <1>3, <3>3
      <4>2. CASE i <= index
        BY <1>3, <1>5, <3>2, <3>5, <4>1, <4>2
      <4>3. CASE i > index
        BY <1>3, <1>5, <3>2, <4>1, <4>3
      <4> QED
        BY <1>3, <4>2, <4>3
    <3>7. NETWORK_READ_BUFFER \in Nat /\ base \in Nat
          /\ address' \in [1..NETWORK_READ_BUFFER -> Nat]
          /\ index + n \in 0..NETWORK_READ_BUFFER
      BY <1>3, <1>5, <3>3
    <3> QED
      BY ONLY <3>6, <3>7, BytesInFront
  <2>4. UploadReceived' /\ MemoryPartReceived'
    BY <1>1, <1>8, <2>3 DEF UploadReceived, MemoryPartReceived
  <2> QED
    BY <1>6, <2>2, <2>4 DEF ReadInv, TypeOK
<1> QED
  BY <1>7, <1>8
-----------------------------------------------------------------------------
(* The other steps of the reading side.                                    *)

(* Nothing the invariant is about changes.                                 *)
LEMMA ReadInvKept ==
  ASSUME ReadInv, UNCHANGED <<readVars, next>>,
         writing' \in {"no", "fill", "flush"}, writing' # "no" => ~reading,
         callback' \in {"magic", "headers", "confirm", "upload", "closed", "down"}
  PROVE  ReadInv'
  BY DEF ReadInv, TypeOK, ReadTypeOK, PartInv, UploadReceived, MemoryPartReceived,
         PartComplete, readVars, streamVars, localVars, partVars, dataVars

(* A callback sets what the connection waits for: nothing of it is there.  *)
LEMMA ExpectInv ==
  ASSUME ReadInv, NEW w \in Expectations, Expect(w.length, w.file),
         callback' = w.callback, writing' \in {"no", "fill", "flush"}, ~reading',
         UNCHANGED <<streamVars, buffer_index, address, sha, digest, next>>
  PROVE  ReadInv'
<1>1. /\ w.callback \in {"magic", "headers", "confirm", "upload", "closed"}
      /\ w.length \in Nat /\ w.file \in BOOLEAN
      /\ w.file => w.length > 0
  BY DEF Expectations
<1>2. /\ base' = base + length /\ index' = 0 /\ length' = w.length
      /\ file' = w.file /\ temp' = <<>> /\ torn' = FALSE
  BY DEF Expect
<1>3. ReadTypeOK
  BY DEF ReadInv, TypeOK
<1>4. base + length \in Nat /\ NETWORK_READ_BUFFER \in Nat
  BY <1>3, ReadStreamAssumption DEF ReadTypeOK
<1>5. BytesAfter(base + length, 0) = <<>> /\ SubSeq(address, 1, 0) = <<>>
  BY <1>4, BytesAfterNone, SubSeqEmpty
<1>6. <<>> \in Seq(Nat)
  OBVIOUS
<1>7. reading' = FALSE /\ file' \in BOOLEAN /\ (file' => length' > 0)
  <2>1. file' \in BOOLEAN
    BY <1>1, <1>2
  <2>2. file' => length' > 0
    BY <1>1, <1>2
  <2> QED
    BY <2>1, <2>2
<1>8. ReadTypeOK'
  <2>1. {sent, ssl, base, index, length, buffer_index}' \subseteq Nat
    BY <1>1, <1>2, <1>3, <1>4 DEF ReadTypeOK, streamVars
  <2>2. {plain_mode, file, reading, torn}' \subseteq BOOLEAN
    BY <1>2, <1>3, <1>7 DEF ReadTypeOK, streamVars
  <2>3. kernel' \in Seq(Nat) /\ {temp, sha, digest}' \subseteq Seq(Nat)
    BY <1>2, <1>3, <1>6 DEF ReadTypeOK, streamVars
  <2>4. address' \in [1..NETWORK_READ_BUFFER -> Nat]
    BY <1>3 DEF ReadTypeOK
  <2> QED
    BY <2>1, <2>2, <2>3, <2>4 DEF ReadTypeOK
<1>9. PartInv'
  <2>1. index' = 0 /\ length' \in Nat
    BY <1>1, <1>2
  <2> QED
    BY <1>7, <2>1 DEF PartInv
<1>10. UploadReceived'
  <2>1. BytesAfter(base', index') = <<>>
    BY <1>2, <1>5
  <2>2. ~(index' > 0) /\ (file' => index' # length')
    BY <1>2, <1>7
  <2> QED
    BY <1>2, <2>1, <2>2 DEF UploadReceived
<1>11. MemoryPartReceived'
  <2>1. BytesAfter(base', index') = <<>> /\ SubSeq(address', 1, index') = <<>>
    BY <1>2, <1>5
  <2> QED
    BY <2>1 DEF MemoryPartReceived
<1> QED
  BY <1>1, <1>8, <1>9, <1>10, <1>11 DEF ReadInv, TypeOK

(* The values of Waits the callbacks use.                                  *)
LEMMA WaitsFacts ==
  /\ NewPacket \in Expectations /\ Hungup \in Expectations
  /\ \A n \in HeaderLengths : Waits("headers", n, FALSE) \in Expectations
  /\ \A n \in DataLengths, f \in BOOLEAN : Waits("confirm", n, f) \in Expectations
  /\ Waits("upload", S3_PROTOCOL_MAGIC_LEN, FALSE) \in Expectations
<1>1. /\ S3_PROTOCOL_MAGIC_LEN \in Nat
      /\ \A n \in HeaderLengths : n \in Nat
      /\ \A n \in DataLengths : n \in Nat /\ n > 0
  BY ResponseWriterAssumption, WireAssumption, ReadStreamAssumption
<1>2. ASSUME NEW what \in {"magic", "headers", "confirm", "upload", "closed"},
             NEW n \in Nat, NEW f \in BOOLEAN, f => n > 0
      PROVE  Waits(what, n, f) \in Expectations
  BY <1>2 DEF Waits, Expectations
<1>3. NewPacket \in Expectations /\ Hungup \in Expectations
  BY <1>1, <1>2 DEF NewPacket, Hungup
<1>4. ASSUME NEW n \in HeaderLengths PROVE Waits("headers", n, FALSE) \in Expectations
  BY <1>1, <1>2
<1>5. ASSUME NEW n \in DataLengths, NEW f \in BOOLEAN
      PROVE  Waits("confirm", n, f) \in Expectations
  BY <1>1, <1>2
<1>6. Waits("upload", S3_PROTOCOL_MAGIC_LEN, FALSE) \in Expectations
  BY <1>1, <1>2
<1> QED
  BY <1>3, <1>4, <1>5, <1>6

(* A callback that goes on to the next part.                               *)
LEMMA GoInv ==
  ASSUME ReadInv, NEW w \in Expectations, Go(w)
  PROVE  ReadInv'
<1>1. /\ Expect(w.length, w.file) /\ callback' = w.callback /\ ~reading'
      /\ UNCHANGED <<streamVars, buffer_index, address, sha, digest, next>>
      /\ UNCHANGED writerVars
  BY DEF Go
<1>2. writing' \in {"no", "fill", "flush"}
  BY <1>1 DEF ReadInv, TypeOK, writerVars
<1> QED
  BY <1>1, <1>2, ExpectInv

(* A callback that responds first.                                         *)
LEMMA RespondInv ==
  ASSUME ReadInv, NEW k, NEW w \in Expectations, Respond(k, w)
  PROVE  ReadInv'
<1>1. /\ reading' = FALSE /\ next' = w /\ writing' = "fill"
      /\ UNCHANGED <<streamVars, partVars, dataVars, buffer_index, callback>>
  BY DEF Respond, BeginResponse
<1>2. ReadTypeOK'
  BY <1>1 DEF ReadInv, TypeOK, ReadTypeOK, streamVars, partVars, dataVars
<1>3. PartInv' /\ UploadReceived' /\ MemoryPartReceived'
  BY <1>1 DEF ReadInv, PartInv, UploadReceived, MemoryPartReceived, partVars, dataVars
<1> QED
  BY <1>1, <1>2, <1>3 DEF ReadInv, TypeOK

(* The client sends, and epoll reports it.                                 *)
LEMMA SendInv ==
  ASSUME ReadInv, ClientSends
  PROVE  ReadInv'
<1>1. PICK n \in 1..MaxBytes : Send(n)
  BY DEF ClientSends
<1>2. UNCHANGED <<writerVars, callback, next>>
  BY DEF ClientSends
<1>3. /\ sent' = sent + n
      /\ kernel' = IF ~plain_mode \/ kernel = <<>> THEN Append(kernel, n)
                   ELSE <<Head(kernel) + n>>
      /\ UNCHANGED <<plain_mode, ssl, localVars, partVars, dataVars>>
  BY <1>1 DEF Send
<1>4. n \in Nat /\ sent \in Nat /\ kernel \in Seq(Nat)
  BY ReadStreamAssumption DEF ReadInv, TypeOK, ReadTypeOK
<1>5. kernel' \in Seq(Nat)
  <2>1. Append(kernel, n) \in Seq(Nat)
    BY <1>4
  <2>2. ASSUME kernel # <<>> PROVE <<Head(kernel) + n>> \in Seq(Nat)
    <3>1. Head(kernel) + n \in Nat
      BY <1>4, <2>2
    <3> QED
      BY <3>1
  <2> QED
    BY <1>3, <2>1, <2>2
<1>6. ReadTypeOK'
  BY <1>3, <1>4, <1>5 DEF ReadInv, TypeOK, ReadTypeOK, localVars, partVars, dataVars
<1> QED
  BY <1>2, <1>3, <1>6
     DEF ReadInv, TypeOK, PartInv, UploadReceived, MemoryPartReceived, writerVars,
         localVars, partVars, dataVars

(* An epoll event and the turns of the loop it leads to.                   *)
LEMMA EventReadInv ==
  ASSUME ReadInv, EventRead
  PROVE  ReadInv'
<1>1. writing = "no" /\ UNCHANGED <<callback, next, writing>>
  BY DEF EventRead, Idle, writerVars
<1>2. CASE Enter
  <2>1. /\ ~TooBig /\ reading' = TRUE /\ buffer_index' = IF file THEN index ELSE 0
        /\ UNCHANGED <<streamVars, partVars, dataVars>>
    BY <1>2 DEF Enter
  <2>2. ReadTypeOK'
    BY <2>1 DEF ReadInv, TypeOK, ReadTypeOK, streamVars, partVars, dataVars
  <2>3. PartInv'
    BY <1>1, <2>1, ReadStreamAssumption
       DEF ReadInv, TypeOK, ReadTypeOK, PartInv, TooBig, partVars
  <2>4. UploadReceived' /\ MemoryPartReceived'
    BY <2>1 DEF ReadInv, UploadReceived, MemoryPartReceived, partVars, dataVars
  <2> QED
    BY <1>1, <2>2, <2>3, <2>4 DEF ReadInv, TypeOK
<1>3. CASE ReadNothing
  <2>1. reading' = FALSE /\ UNCHANGED <<streamVars, partVars, dataVars, buffer_index>>
    BY <1>3 DEF ReadNothing
  <2>2. ReadTypeOK'
    BY <2>1 DEF ReadInv, TypeOK, ReadTypeOK, streamVars, partVars, dataVars
  <2>3. PartInv' /\ UploadReceived' /\ MemoryPartReceived'
    BY <2>1 DEF ReadInv, PartInv, UploadReceived, MemoryPartReceived, partVars, dataVars
  <2> QED
    BY <1>1, <2>2, <2>3 DEF ReadInv, TypeOK
<1> QED
  BY <1>1, <1>2, <1>3, ReadSomeInv DEF EventRead

(* Nothing has been read on a new connection.                              *)
LEMMA InitReadInv == Init => ReadInv
<1> SUFFICES ASSUME Init PROVE ReadInv
  OBVIOUS
<1>1. NETWORK_READ_BUFFER \in Nat /\ S3_PROTOCOL_MAGIC_LEN \in Nat
      /\ S3_PROTOCOL_MAGIC_LEN <= NETWORK_READ_BUFFER
  BY ReadStreamAssumption, ResponseWriterAssumption, WireAssumption
<1>2. ReadTypeOK
  <2>1. {sent, ssl, base, index, length, buffer_index} \subseteq Nat
    BY <1>1 DEF Init, ReadInit
  <2>2. {plain_mode, file, reading, torn} \subseteq BOOLEAN
    BY DEF Init, ReadInit
  <2>3. kernel \in Seq(Nat) /\ {temp, sha, digest} \subseteq Seq(Nat)
    BY DEF Init, ReadInit
  <2>4. address \in [1..NETWORK_READ_BUFFER -> Nat]
    BY DEF Init, ReadInit
  <2> QED
    BY <2>1, <2>2, <2>3, <2>4 DEF ReadTypeOK
<1>3. next \in Expectations
  BY WaitsFacts DEF Init
<1>4. PartInv
  BY <1>1 DEF Init, ReadInit, PartInv, WriterInit
<1>5. SubSeq(address, 1, 0) = <<>> /\ BytesAfter(0, 0) = <<>>
  BY BytesAfterNone, SubSeqEmpty
<1>6. UploadReceived /\ MemoryPartReceived
  BY <1>5 DEF Init, ReadInit, UploadReceived, MemoryPartReceived
<1> QED
  BY <1>2, <1>3, <1>4, <1>6 DEF ReadInv, TypeOK, Init, WriterInit

(* Every step keeps the invariant of the reading side.                     *)
LEMMA NextReadInv == ReadInv /\ [Next]_vars => ReadInv'
<1> SUFFICES ASSUME ReadInv, [Next]_vars PROVE ReadInv'
  OBVIOUS
<1>1. CASE ClientSends
  BY <1>1, SendInv
<1>2. CASE EventRead
  BY <1>2, EventReadInv
<1>3. CASE ReadFatal \/ WriteFatal \/ HangUp
  <2>1. UNCHANGED <<readVars, writerVars, next>> /\ callback' \in {"closed", "down"}
    BY <1>3 DEF ReadFatal, WriteFatal, HangUp
  <2>2. writing' = writing
    BY <2>1 DEF writerVars
  <2> QED
    BY <2>1, <2>2, ReadInvKept DEF ReadInv, TypeOK, PartInv
<1>4. CASE MagicRead
  BY <1>4, GoInv, WaitsFacts DEF MagicRead
<1>5. CASE HeadersRead
  BY <1>5, RespondInv, WaitsFacts DEF HeadersRead
<1>6. CASE DataRead \/ AcceptRead
  BY <1>6, RespondInv, WaitsFacts DEF DataRead, AcceptRead
<1>7. CASE Write \/ ClientReceives
  <2>1. UNCHANGED <<readVars, callback, next>>
    BY <1>7 DEF Write, ClientReceives
  <2>2. (writing' \in {"fill", "flush"} /\ writing # "no") \/ writing' = writing
    BY <1>7 DEF Write, ClientReceives, Fill, WriteSome, NextBuffer, ClientReads
  <2> QED
    BY <2>1, <2>2, ReadInvKept DEF ReadInv, TypeOK, PartInv
<1>8. CASE Responded
  <2>1. /\ writing = "flush" /\ writing' = "no" /\ Expect(next.length, next.file)
        /\ callback' = next.callback
        /\ UNCHANGED <<streamVars, localVars, address, sha, digest, next>>
    BY <1>8 DEF Responded, EndResponse, ResponseComplete
  <2>2. ~reading' /\ UNCHANGED buffer_index
    BY <2>1 DEF localVars, ReadInv, PartInv
  <2>3. next \in Expectations
    BY DEF ReadInv
  <2> QED
    BY <2>1, <2>2, <2>3, ExpectInv
<1>9. CASE UNCHANGED vars
  BY <1>9, ReadInvKept DEF vars, writerVars, ReadInv, TypeOK, PartInv
<1> QED
  BY <1>1, <1>2, <1>3, <1>4, <1>5, <1>6, <1>7, <1>8, <1>9 DEF Next
-----------------------------------------------------------------------------
(* Every variable of a connection holds a value of the shape the code      *)
(* gives it, whatever the buffers, the parts and the responses: indices    *)
(* and lengths stay natural, and a read never leaves its buffer.           *)
THEOREM WireTypeCorrect == Spec => []TypeOK
<1>1. ReadInv => TypeOK
  BY DEF ReadInv
<1> QED
  BY <1>1, InitReadInv, NextReadInv, PTL DEF Spec

(* However an upload is cut into records, reads and events, its temporary  *)
(* file holds its bytes so far, once each and in order, the digest has     *)
(* been fed the same bytes, and the digest of a complete upload is of all  *)
(* of them (network_read_stream).                                          *)
THEOREM UploadsArrive == Spec => []UploadReceived
<1>1. ReadInv => UploadReceived
  BY DEF ReadInv
<1> QED
  BY <1>1, InitReadInv, NextReadInv, PTL DEF Spec

(* A part read into memory is in the buffer from its start on, over as     *)
(* many events as it takes, unless two reads of one event brought it.      *)
THEOREM MemoryPartsArrive == Spec => []MemoryPartReceived
<1>1. ReadInv => MemoryPartReceived
  BY DEF ReadInv
<1> QED
  BY <1>1, InitReadInv, NextReadInv, PTL DEF Spec
-----------------------------------------------------------------------------
(* The inductive invariant of the writing side.                            *)

ResponseBytes == {"magic", "header", "zero", "data"} \X Nat

FrontLength == S3_PROTOCOL_MAGIC_LEN + HeaderLength

(* The byte at a position of the response.                                 *)
ResponseByte(i) ==
  IF i <= S3_PROTOCOL_MAGIC_LEN THEN <<"magic", i>>
  ELSE IF i <= FrontLength THEN <<"header", i - S3_PROTOCOL_MAGIC_LEN>>
  ELSE <<"data", i - FrontLength>>

(* Where in the response the buffer begins, and what of it is out.         *)
Begun == FrontLength + total - windex

Flushed == IF writing = "flush" THEN bytes_written ELSE 0

WriterType ==
  /\ writing \in {"no", "fill", "flush"}
  /\ size \in Nat /\ total \in 0..size /\ bytes_written \in Nat
  /\ windex \in 0..NETWORK_WRITE_BUFFER
  /\ memory \in [1..NETWORK_WRITE_BUFFER -> ResponseBytes]
  /\ out \in Seq(ResponseBytes)
  /\ responses \in Nat

(* While a response is written the buffer holds the piece of it that       *)
(* starts at Begun, and everything before that piece is out.               *)
BufferInv ==
  writing # "no" =>
    /\ Begun >= 0
    /\ Flushed <= windex
    /\ Len(out) = Begun + Flushed
    /\ \A j \in 1..windex : memory[j] = ResponseByte(Begun + j)

(* Lengths are told after the first call of the writer.                    *)
HeaderInv ==
  /\ writing = "flush" => data_length = size
  /\ responses > 0 /\ (writing # "fill" \/ out # <<>>) =>
       word = MakeMagic(HeaderLength, size)

WriterInv ==
  /\ WriterType
  /\ BufferInv
  /\ HeaderInv
  /\ \A j \in 1..Len(out) : out[j] = ResponseByte(j)
  /\ writing # "no" => responses > 0
  /\ writing = "no" /\ responses > 0 => Len(out) = FrontLength + size
-----------------------------------------------------------------------------
(* Facts about responses.                                                  *)

(* The header section is a multiple of ALIGNMENT that fits in its byte,    *)
(* and the first buffer has room after it.                                 *)
LEMMA FrontFacts ==
  /\ HeaderLength \in Nat /\ FrontLength \in Nat /\ FrontLength > 0
  /\ S3_PROTOCOL_MAGIC_LEN \in Nat /\ NETWORK_WRITE_BUFFER \in Nat
  /\ FrontLength < NETWORK_WRITE_BUFFER
  /\ \E q \in 0..(BYTE - 1) : HeaderLength = q * ALIGNMENT
<1>1. /\ ALIGNMENT \in Nat \ {0} /\ BYTE \in Nat /\ HeaderBytes \in Nat \ {0}
      /\ S3_PROTOCOL_MAGIC_LEN \in Nat \ {0} /\ NETWORK_WRITE_BUFFER \in Nat
      /\ S3_PROTOCOL_MAGIC_LEN + HeaderLength < NETWORK_WRITE_BUFFER
      /\ HeaderLength < ALIGNMENT * BYTE
  BY PacketHeaderAssumption, ResponseWriterAssumption DEF HeaderLength
<1> DEFINE q == (HeaderBytes + ALIGNMENT - 1) \div ALIGNMENT
<1>2. q \in Nat
  BY <1>1
<1>3. HeaderLength = q * ALIGNMENT
  BY DEF HeaderLength, Aligned
<1> HIDE DEF q
<1>4. HeaderLength \in Nat
  BY <1>1, <1>2, <1>3
<1>5. q < BYTE
  BY <1>1, <1>2, <1>3
<1> QED
  BY <1>1, <1>2, <1>3, <1>4, <1>5 DEF FrontLength

(* A run of bytes of one kind.                                             *)
LEMMA RunFacts ==
  ASSUME NEW what \in {"magic", "header", "zero", "data"}, NEW n \in Nat
  PROVE  /\ Run(what, 0, n) \in Seq(ResponseBytes) /\ Len(Run(what, 0, n)) = n
         /\ \A i \in 1..n : Run(what, 0, n)[i] = <<what, i>>
<1>1. Run(what, 0, n) = [i \in 1..n |-> <<what, i>>]
  BY DEF Run
<1>2. Run(what, 0, n) \in [1..n -> ResponseBytes]
  BY <1>1 DEF ResponseBytes
<1>3. Run(what, 0, n) \in Seq(ResponseBytes) /\ Len(Run(what, 0, n)) = n
  BY <1>2
<1> QED
  BY <1>1, <1>3

(* Magic, header section and a run of a third kind.                        *)
LEMMA ThreeRuns ==
  ASSUME NEW what \in {"zero", "data"}, NEW n \in Nat, NEW s,
         s = Run("magic", 0, S3_PROTOCOL_MAGIC_LEN) \o Run("header", 0, HeaderLength)
               \o Run(what, 0, n)
  PROVE  /\ s \in Seq(ResponseBytes) /\ Len(s) = FrontLength + n
         /\ \A i \in 1..FrontLength : s[i] = ResponseByte(i)
         /\ \A i \in 1..n : s[FrontLength + i] = <<what, i>>
<1> DEFINE a == Run("magic", 0, S3_PROTOCOL_MAGIC_LEN)
           b == Run("header", 0, HeaderLength)
           d == Run(what, 0, n)
           M == S3_PROTOCOL_MAGIC_LEN
           H == HeaderLength
<1>1. M \in Nat /\ H \in Nat /\ FrontLength = M + H
  BY FrontFacts DEF FrontLength
<1>2. /\ a \in Seq(ResponseBytes) /\ Len(a) = M
      /\ \A i \in 1..M : a[i] = <<"magic", i>>
  BY <1>1, RunFacts
<1>3. /\ b \in Seq(ResponseBytes) /\ Len(b) = H
      /\ \A i \in 1..H : b[i] = <<"header", i>>
  BY <1>1, RunFacts
<1>4. /\ d \in Seq(ResponseBytes) /\ Len(d) = n
      /\ \A i \in 1..n : d[i] = <<what, i>>
  BY RunFacts
<1> HIDE DEF a, b, d, M, H
<1>5. /\ a \o b \in Seq(ResponseBytes) /\ Len(a \o b) = M + H
      /\ \A i \in 1..(M + H) : (a \o b)[i] = IF i <= M THEN a[i] ELSE b[i - M]
  BY <1>2, <1>3, ConcatProperties
<1> DEFINE ab == a \o b
<1>6. s = ab \o d
  BY DEF a, b, d
<1>7. ab \in Seq(ResponseBytes) /\ Len(ab) = M + H
  BY <1>5
<1>8. ASSUME NEW i \in 1..(M + H) PROVE ab[i] = ResponseByte(i)
  <2>1. CASE i <= M
    <3>1. ab[i] = a[i] /\ i \in 1..M
      BY <1>1, <1>5, <2>1
    <3> QED
      BY <1>2, <2>1, <3>1 DEF ResponseByte, M
  <2>2. CASE ~(i <= M)
    <3>1. ab[i] = b[i - M] /\ i - M \in 1..H
      BY <1>1, <1>5, <2>2
    <3>2. i <= FrontLength
      BY <1>1
    <3> QED
      BY <1>3, <2>2, <3>1, <3>2 DEF ResponseByte, M
  <2> QED
    BY <2>1, <2>2
<1> HIDE DEF ab
<1>9. /\ s \in Seq(ResponseBytes) /\ Len(s) = FrontLength + n
      /\ \A i \in 1..(FrontLength + n) :
           s[i] = IF i <= FrontLength THEN ab[i] ELSE d[i - FrontLength]
  <2>1. Len(ab) = FrontLength
    BY <1>1, <1>7
  <2>2. /\ ab \o d \in Seq(ResponseBytes) /\ Len(ab \o d) = Len(ab) + Len(d)
        /\ \A i \in 1..(Len(ab) + Len(d)) :
             (ab \o d)[i] = IF i <= Len(ab) THEN ab[i] ELSE d[i - Len(ab)]
    BY <1>4, <1>7, ConcatProperties
  <2> QED
    BY <1>4, <1>6, <2>1, <2>2
<1>10. ASSUME NEW i \in 1..FrontLength PROVE s[i] = ResponseByte(i)
  <2>1. i \in 1..(FrontLength + n) /\ i <= FrontLength /\ i \in 1..(M + H)
    BY <1>1
  <2>2. s[i] = ab[i]
    BY <1>9, <2>1
  <2> QED
    BY <1>8, <2>1, <2>2
<1>11. ASSUME NEW i \in 1..n PROVE s[FrontLength + i] = <<what, i>>
  <2> DEFINE j == FrontLength + i
  <2>1. /\ j \in 1..(FrontLength + n) /\ ~(j <= FrontLength)
        /\ j - FrontLength = i
    BY <1>1
  <2> HIDE DEF j
  <2>2. s[j] = d[i]
    BY <1>9, <2>1
  <2> QED
    BY <1>4, <2>2 DEF j
<1> QED
  BY <1>9, <1>10, <1>11

(* The whole response, byte by byte.                                       *)
LEMMA WholeFacts ==
  ASSUME size \in Nat
  PROVE  /\ WholeResponse \in Seq(ResponseBytes)
         /\ Len(WholeResponse) = FrontLength + size
         /\ \A i \in 1..(FrontLength + size) : WholeResponse[i] = ResponseByte(i)
<1>1. /\ WholeResponse \in Seq(ResponseBytes)
      /\ Len(WholeResponse) = FrontLength + size
      /\ \A i \in 1..FrontLength : WholeResponse[i] = ResponseByte(i)
      /\ \A i \in 1..size : WholeResponse[FrontLength + i] = <<"data", i>>
  BY ThreeRuns DEF WholeResponse
<1>2. FrontLength \in Nat /\ S3_PROTOCOL_MAGIC_LEN \in Nat
      /\ S3_PROTOCOL_MAGIC_LEN <= FrontLength
  BY FrontFacts DEF FrontLength
<1>3. ASSUME NEW i \in 1..(FrontLength + size) PROVE WholeResponse[i] = ResponseByte(i)
  <2>1. CASE i <= FrontLength
    BY <1>1, <1>2, <2>1
  <2>2. CASE ~(i <= FrontLength)
    <3>1. i - FrontLength \in 1..size /\ FrontLength + (i - FrontLength) = i
          /\ ~(i <= S3_PROTOCOL_MAGIC_LEN)
      BY <1>2, <2>2
    <3>2. WholeResponse[FrontLength + (i - FrontLength)] = <<"data", i - FrontLength>>
      BY <1>1, <3>1
    <3> QED
      BY <2>2, <3>1, <3>2 DEF ResponseByte
  <2> QED
    BY <2>1, <2>2
<1> QED
  BY <1>1, <1>3

(* A sequence whose bytes are the first ones of another is its prefix.     *)
LEMMA PrefixOfResponse ==
  ASSUME NEW S, NEW s \in Seq(S), NEW t \in Seq(S), Len(s) <= Len(t),
         \A i \in 1..Len(s) : s[i] = t[i]
  PROVE  IsPrefix(s, t)
<1>1. Len(s) \in Nat /\ Len(t) \in Nat
  OBVIOUS
<1>2. \A i \in 1..Len(s) : s[i] \in S /\ t[i] \in S
  BY <1>1
<1> DEFINE n == Len(s)
           left == SubSeq(s, 1, n)
           right == SubSeq(t, 1, n)
<1>3. left \in Seq(S) /\ Len(left) = n /\ \A i \in 1..n : left[i] = s[i]
  BY <1>1
<1>4. right \in Seq(S) /\ Len(right) = n /\ \A i \in 1..n : right[i] = t[i]
  BY <1>1
<1> HIDE DEF left, right
<1>5. left = right
  BY <1>3, <1>4, SeqEqual
<1> QED
  BY <1>1, <1>5 DEF IsPrefix, left, right

(* The first buffer starts as the response does.                           *)
LEMMA FirstBufferFacts ==
  /\ FirstBuffer \in [1..NETWORK_WRITE_BUFFER -> ResponseBytes]
  /\ \A i \in 1..FrontLength : FirstBuffer[i] = ResponseByte(i)
<1> DEFINE n == NETWORK_WRITE_BUFFER - S3_PROTOCOL_MAGIC_LEN - HeaderLength
<1>1. n \in Nat /\ FrontLength + n = NETWORK_WRITE_BUFFER
  BY FrontFacts DEF FrontLength
<1>2. FirstBuffer = Run("magic", 0, S3_PROTOCOL_MAGIC_LEN)
                      \o Run("header", 0, HeaderLength) \o Run("zero", 0, n)
  BY DEF FirstBuffer
<1> HIDE DEF n
<1>3. /\ FirstBuffer \in Seq(ResponseBytes) /\ Len(FirstBuffer) = FrontLength + n
      /\ \A i \in 1..FrontLength : FirstBuffer[i] = ResponseByte(i)
  BY <1>1, <1>2, ThreeRuns
<1>4. FirstBuffer \in [1..Len(FirstBuffer) -> ResponseBytes]
  BY <1>3, LenProperties
<1> QED
  BY <1>1, <1>3, <1>4
-----------------------------------------------------------------------------
(* The steps of the writing side.                                          *)

(* A response begins.                                                      *)
LEMMA BeginWriterInv ==
  ASSUME WriterInv, NEW k, NEW n \in Nat, BeginResponse(k, n),
         responses' = responses + 1
  PROVE  WriterInv'
<1>1. /\ writing' = "fill" /\ size' = n /\ memory' = FirstBuffer
      /\ windex' = FrontLength /\ total' = 0 /\ out' = <<>>
      /\ bytes_written' = bytes_written
  BY DEF BeginResponse, FrontLength
<1>2. Len(out') = 0 /\ out' \in Seq(ResponseBytes)
  BY <1>1
<1>3. responses' \in Nat /\ responses' > 0
  BY DEF WriterInv, WriterType
<1>4. Begun' = 0 /\ Flushed' = 0
  BY <1>1, FrontFacts DEF Begun, Flushed
<1>5. WriterType'
  BY <1>1, <1>2, <1>3, FrontFacts, FirstBufferFacts DEF WriterInv, WriterType
<1>6. BufferInv'
  <2>1. \A j \in 1..windex' : memory'[j] = ResponseByte(Begun' + j)
    BY <1>1, <1>4, FrontFacts, FirstBufferFacts
  <2> QED
    BY <1>1, <1>2, <1>4, <2>1, FrontFacts DEF BufferInv
<1>7. HeaderInv'
  BY <1>1 DEF HeaderInv
<1> QED
  BY <1>1, <1>2, <1>3, <1>5, <1>6, <1>7 DEF WriterInv

(* The writer fills the rest of the buffer: what it adds continues the     *)
(* piece of the response that is there.                                    *)
LEMMA FillInv ==
  ASSUME WriterInv, Fill, UNCHANGED responses
  PROVE  WriterInv'
<1> DEFINE n == WriteTodo
<1>1. /\ writing = "fill" /\ ~ListingGone
      /\ memory' = [i \in 1..NETWORK_WRITE_BUFFER |->
                      IF i \in (windex + 1)..(windex + n)
                      THEN <<"data", SourceOffset + i - windex>> ELSE memory[i]]
      /\ total' = total + n /\ windex' = windex + n /\ data_length' = size
      /\ word' = (IF out = <<>> THEN MakeMagic(HeaderLength, size) ELSE word)
      /\ writing' = "flush" /\ bytes_written' = 0
      /\ UNCHANGED <<size, out>>
  BY DEF Fill
<1>2. /\ size \in Nat /\ total \in 0..size /\ windex \in 0..NETWORK_WRITE_BUFFER
      /\ memory \in [1..NETWORK_WRITE_BUFFER -> ResponseBytes]
      /\ NETWORK_WRITE_BUFFER \in Nat /\ FrontLength \in Nat
      /\ S3_PROTOCOL_MAGIC_LEN \in Nat /\ S3_PROTOCOL_MAGIC_LEN <= FrontLength
  BY FrontFacts DEF WriterInv, WriterType, FrontLength
<1>3. /\ n \in Nat /\ total + n \in 0..size
      /\ windex + n \in 0..NETWORK_WRITE_BUFFER
  BY <1>2 DEF WriteTodo
<1>4. SourceOffset = total
  BY <1>1, <1>2 DEF SourceOffset, ListingGone
<1> HIDE DEF n
<1>5. /\ Begun \in Nat /\ Len(out) = Begun
      /\ \A j \in 1..windex : memory[j] = ResponseByte(Begun + j)
  BY <1>1, <1>2 DEF WriterInv, BufferInv, Begun, Flushed
<1>6. Begun' = Begun /\ Flushed' = 0
  BY <1>1, <1>2, <1>3 DEF Begun, Flushed
<1>7. ASSUME NEW j \in 1..(windex + n)
      PROVE  memory'[j] = ResponseByte(Begun + j)
  <2>1. j \in 1..NETWORK_WRITE_BUFFER
    BY <1>2, <1>3
  <2>2. CASE j <= windex
    <3>1. memory'[j] = memory[j]
      BY <1>1, <1>2, <1>3, <2>1, <2>2
    <3> QED
      BY <1>2, <1>5, <2>2, <3>1
  <2>3. CASE ~(j <= windex)
    <3>1. memory'[j] = <<"data", total + j - windex>>
      BY <1>1, <1>2, <1>3, <1>4, <2>1, <2>3
    <3>2. /\ ~(Begun + j <= FrontLength) /\ ~(Begun + j <= S3_PROTOCOL_MAGIC_LEN)
          /\ Begun + j - FrontLength = total + j - windex
      BY <1>2, <2>3 DEF Begun
    <3> DEFINE p == Begun + j
    <3> HIDE DEF p
    <3>3. ResponseByte(p) = <<"data", p - FrontLength>>
      BY <3>2 DEF ResponseByte, p
    <3>4. p - FrontLength = total + j - windex
      BY <1>2, <1>5, <3>2 DEF p
    <3>5. memory'[j] = ResponseByte(p)
      BY <3>1, <3>3, <3>4
    <3> QED
      BY <3>5 DEF p
  <2> QED
    BY <2>2, <2>3
<1>8. WriterType'
  <2>1. ASSUME NEW i \in 1..NETWORK_WRITE_BUFFER
        PROVE  (IF i \in (windex + 1)..(windex + n)
                THEN <<"data", SourceOffset + i - windex>> ELSE memory[i])
                 \in ResponseBytes
    <3>1. CASE i \in (windex + 1)..(windex + n)
      <4>1. SourceOffset + i - windex \in Nat
        BY <1>2, <1>3, <1>4, <3>1
      <4> QED
        BY <3>1, <4>1 DEF ResponseBytes
    <3>2. CASE i \notin (windex + 1)..(windex + n)
      BY <1>2, <3>2
    <3> QED
      BY <3>1, <3>2
  <2>2. memory' \in [1..NETWORK_WRITE_BUFFER -> ResponseBytes]
    BY <1>1, <2>1
  <2> QED
    BY <1>1, <1>2, <1>3, <2>2 DEF WriterInv, WriterType
<1>9. BufferInv'
  <2>1. \A j \in 1..windex' : memory'[j] = ResponseByte(Begun' + j)
    BY <1>1, <1>6, <1>7
  <2>2. Begun' >= 0 /\ Flushed' <= windex' /\ Len(out') = Begun' + Flushed'
    BY <1>1, <1>3, <1>5, <1>6
  <2> QED
    BY <2>1, <2>2 DEF BufferInv
<1>10. HeaderInv'
  BY <1>1 DEF WriterInv, HeaderInv
<1> QED
  BY <1>1, <1>8, <1>9, <1>10 DEF WriterInv

(* The socket takes the next bytes of the buffer, which are the next bytes *)
(* of the response.                                                        *)
LEMMA WriteSomeInv ==
  ASSUME WriterInv, WriteSome, UNCHANGED responses
  PROVE  WriterInv'
<1>1. /\ writing = "flush"
      /\ UNCHANGED <<writing, size, memory, windex, total, data_length, word>>
  BY DEF WriteSome
<1>2. PICK n \in 1..(windex - bytes_written) :
        /\ out' = out \o SubSeq(memory, bytes_written + 1, bytes_written + n)
        /\ bytes_written' = bytes_written + n
  BY DEF WriteSome
<1>3. /\ windex \in 0..NETWORK_WRITE_BUFFER /\ bytes_written \in Nat /\ n \in Nat
      /\ NETWORK_WRITE_BUFFER \in Nat /\ out \in Seq(ResponseBytes)
      /\ memory \in [1..NETWORK_WRITE_BUFFER -> ResponseBytes]
      /\ bytes_written + n <= windex
  BY <1>2, FrontFacts DEF WriterInv, WriterType
<1>4. /\ Begun \in Int /\ Begun >= 0 /\ Len(out) = Begun + bytes_written
      /\ \A j \in 1..windex : memory[j] = ResponseByte(Begun + j)
      /\ \A j \in 1..Len(out) : out[j] = ResponseByte(j)
  BY <1>1, <1>3, FrontFacts DEF WriterInv, WriterType, BufferInv, Begun, Flushed
<1> DEFINE piece == SubSeq(memory, bytes_written + 1, bytes_written + n)
<1>5. /\ piece \in Seq(ResponseBytes) /\ Len(piece) = n
      /\ \A i \in 1..n : piece[i] = memory[bytes_written + i]
  <2>1. \A i \in (bytes_written + 1)..(bytes_written + n) : memory[i] \in ResponseBytes
    BY <1>3
  <2> DEFINE from == bytes_written + 1
             to == bytes_written + n
  <2>2. from \in Int /\ to \in Int /\ from <= to + 1 /\ to - from + 1 = n
    BY <1>3
  <2> HIDE DEF from, to
  <2>3. \A i \in from..to : memory[i] \in ResponseBytes
    BY <2>1 DEF from, to
  <2>4. /\ SubSeq(memory, from, to) \in Seq(ResponseBytes)
        /\ Len(SubSeq(memory, from, to)) = IF from <= to THEN to - from + 1 ELSE 0
        /\ \A i \in 1..(to - from + 1) :
             SubSeq(memory, from, to)[i] = memory[from + i - 1]
    BY <2>2, <2>3, SubSeqProperties
  <2>5. Len(SubSeq(memory, from, to)) = n
    BY <1>3, <2>2, <2>4
  <2>6. ASSUME NEW i \in 1..n
        PROVE  SubSeq(memory, from, to)[i] = memory[bytes_written + i]
    <3>1. from + i - 1 = bytes_written + i
      BY <1>3 DEF from
    <3> QED
      BY <2>2, <2>4, <3>1
  <2> QED
    BY <2>4, <2>5, <2>6 DEF from, to
<1> HIDE DEF piece
<1>6. out' = out \o piece
  BY <1>2 DEF piece
<1>7. /\ out' \in Seq(ResponseBytes) /\ Len(out') = Len(out) + n
      /\ \A i \in 1..(Len(out) + n) :
           out'[i] = IF i <= Len(out) THEN out[i] ELSE piece[i - Len(out)]
  BY <1>3, <1>5, <1>6, ConcatProperties
<1>8. ASSUME NEW j \in 1..(Len(out) + n) PROVE out'[j] = ResponseByte(j)
  <2>1. Len(out) \in Nat
    BY <1>3
  <2>2. CASE j <= Len(out)
    BY <1>4, <1>7, <2>1, <2>2
  <2>3. CASE ~(j <= Len(out))
    <3> DEFINE i == j - Len(out)
    <3>1. i \in 1..n /\ Begun + (bytes_written + i) = j
      BY <1>3, <1>4, <2>1, <2>3
    <3>2. out'[j] = piece[i]
      BY <1>7, <2>3
    <3> HIDE DEF i
    <3>3. piece[i] = memory[bytes_written + i]
      BY <1>5, <3>1
    <3>4. bytes_written + i \in 1..windex
      BY <1>3, <3>1
    <3>5. memory[bytes_written + i] = ResponseByte(Begun + (bytes_written + i))
      BY <1>4, <3>4
    <3> QED
      BY <3>1, <3>2, <3>3, <3>5
  <2> QED
    BY <2>2, <2>3
<1>9. WriterType'
  BY <1>1, <1>2, <1>3, <1>7 DEF WriterInv, WriterType
<1>10. Begun' = Begun /\ Flushed' = bytes_written + n
  BY <1>1, <1>2 DEF Begun, Flushed
<1>11. BufferInv'
  <2>1. Len(out') = Begun' + Flushed'
    BY <1>3, <1>4, <1>7, <1>10
  <2>2. \A j \in 1..windex' : memory'[j] = ResponseByte(Begun' + j)
    BY <1>1, <1>4, <1>10
  <2> QED
    BY <1>1, <1>3, <1>4, <1>10, <2>1, <2>2 DEF BufferInv
<1>12. HeaderInv'
  BY <1>1 DEF WriterInv, HeaderInv
<1> QED
  BY <1>1, <1>7, <1>8, <1>9, <1>11, <1>12 DEF WriterInv

(* The buffer is used again, behind everything that is out.                *)
LEMMA NextBufferInv ==
  ASSUME WriterInv, NextBuffer, UNCHANGED responses
  PROVE  WriterInv'
<1>1. /\ writing = "flush" /\ bytes_written = windex /\ windex' = 0
      /\ writing' = "fill"
      /\ UNCHANGED <<size, memory, total, data_length, word, bytes_written, out>>
  BY DEF NextBuffer
<1>2. /\ FrontLength \in Nat /\ total \in Nat /\ windex \in Nat
      /\ NETWORK_WRITE_BUFFER \in Nat
  BY FrontFacts DEF WriterInv, WriterType
<1>3. Begun' = FrontLength + total /\ Flushed' = 0 /\ Len(out) = FrontLength + total
  BY <1>1, <1>2 DEF WriterInv, BufferInv, Begun, Flushed
<1>4. WriterType'
  BY <1>1, <1>2 DEF WriterInv, WriterType
<1>5. BufferInv'
  BY <1>1, <1>2, <1>3 DEF BufferInv
<1>6. HeaderInv'
  BY <1>1 DEF WriterInv, HeaderInv
<1> QED
  BY <1>1, <1>4, <1>5, <1>6 DEF WriterInv

(* All of the response is out when it ends.                                *)
LEMMA EndWriterInv ==
  ASSUME WriterInv, EndResponse, UNCHANGED responses
  PROVE  WriterInv'
<1>1. /\ writing = "flush" /\ bytes_written = windex /\ total = data_length
      /\ writing' = "no"
      /\ UNCHANGED <<size, memory, windex, total, data_length, word, bytes_written, out>>
  BY DEF EndResponse, ResponseComplete, MoreToWrite
<1>2. FrontLength \in Nat /\ total \in Nat /\ windex \in Nat
  BY FrontFacts DEF WriterInv, WriterType
<1>3. Len(out) = FrontLength + size
  BY <1>1, <1>2 DEF WriterInv, BufferInv, HeaderInv, Begun, Flushed
<1>4. WriterType' /\ BufferInv'
  BY <1>1 DEF WriterInv, WriterType, BufferInv
<1>5. HeaderInv'
  BY <1>1 DEF WriterInv, HeaderInv
<1> QED
  BY <1>1, <1>3, <1>4, <1>5 DEF WriterInv

(* Nothing the invariant is about changes.                                 *)
LEMMA WriterInvKept ==
  ASSUME WriterInv,
         UNCHANGED <<writing, size, memory, windex, total, data_length, word,
                     bytes_written, out, responses>>
  PROVE  WriterInv'
  BY DEF WriterInv, WriterType, BufferInv, HeaderInv, Begun, Flushed

(* Nothing has been sent on a new connection.                              *)
LEMMA InitWriterInv == Init => WriterInv
<1> SUFFICES ASSUME Init PROVE WriterInv
  OBVIOUS
<1>1. /\ writing = "no" /\ size = 0 /\ memory = FirstBuffer /\ windex = 0
      /\ total = 0 /\ bytes_written = 0 /\ out = <<>> /\ responses = 0
  BY DEF Init, WriterInit
<1>2. out \in Seq(ResponseBytes) /\ Len(out) = 0
  BY <1>1
<1>3. WriterType
  BY <1>1, <1>2, FirstBufferFacts, FrontFacts DEF WriterType
<1> QED
  BY <1>1, <1>2, <1>3 DEF WriterInv, BufferInv, HeaderInv

(* Every step keeps the invariant of the writing side.                     *)
LEMMA NextWriterInv == WriterInv /\ [Next]_vars => WriterInv'
<1> SUFFICES ASSUME WriterInv, [Next]_vars PROVE WriterInv'
  OBVIOUS
<1>1. CASE UNCHANGED <<writerVars, responses>>
  BY <1>1, WriterInvKept DEF writerVars
<1>2. ASSUME NEW k \in {"text", "file", "list"}, NEW w, Respond(k, w)
      PROVE  WriterInv'
  <2>1. PICK n \in ReplySizes[k] : BeginResponse(k, n)
    BY <1>2 DEF Respond
  <2>2. n \in Nat
    BY WireAssumption
  <2>3. responses' = responses + 1
    BY <1>2 DEF Respond
  <2> QED
    BY <2>1, <2>2, <2>3, BeginWriterInv
<1>3. CASE HeadersRead \/ DataRead \/ AcceptRead
  <2>1. \E k \in {"text", "file", "list"} : \E w : Respond(k, w)
    BY <1>3 DEF HeadersRead, DataRead, AcceptRead
  <2> QED
    BY <1>2, <2>1
<1>4. CASE Write
  BY <1>4, FillInv, WriteSomeInv, NextBufferInv DEF Write
<1>5. CASE Responded
  BY <1>5, EndWriterInv DEF Responded
<1>6. CASE ClientReceives
  BY <1>6, WriterInvKept DEF ClientReceives, ClientReads
<1>7. CASE ClientSends \/ EventRead \/ ReadFatal \/ MagicRead \/ WriteFatal \/ HangUp
  BY <1>1, <1>7 DEF ClientSends, EventRead, ReadFatal, MagicRead, Go, WriteFatal, HangUp
<1>8. CASE UNCHANGED vars
  BY <1>1, <1>8 DEF vars
<1> QED
  BY <1>3, <1>4, <1>5, <1>6, <1>7, <1>8 DEF Next

(* What the client has been sent is a prefix of the response.              *)
LEMMA WriterInOrder ==
  ASSUME WriterInv
  PROVE  ResponseInOrder
<1> SUFFICES ASSUME responses > 0
             PROVE  IsPrefix(out, WholeResponse) /\ (writing = "no" => out = WholeResponse)
  BY DEF ResponseInOrder
<1>1. /\ size \in Nat /\ total \in 0..size /\ windex \in Nat /\ FrontLength \in Nat
      /\ NETWORK_WRITE_BUFFER \in Nat /\ out \in Seq(ResponseBytes)
      /\ \A j \in 1..Len(out) : out[j] = ResponseByte(j)
  BY FrontFacts DEF WriterInv, WriterType
<1>2. Len(out) <= FrontLength + size
  <2>1. CASE writing = "no"
    BY <1>1, <2>1 DEF WriterInv
  <2>2. CASE writing # "no"
    <3>1. Len(out) = Begun + Flushed /\ Flushed <= windex
      BY <2>2 DEF WriterInv, BufferInv
    <3>2. Flushed \in Nat
      BY DEF Flushed, WriterInv, WriterType
    <3> QED
      BY <1>1, <3>1, <3>2 DEF Begun
  <2> QED
    BY <2>1, <2>2
<1> DEFINE whole == WholeResponse
<1>3. /\ whole \in Seq(ResponseBytes) /\ Len(whole) = FrontLength + size
      /\ \A i \in 1..(FrontLength + size) : whole[i] = ResponseByte(i)
  BY <1>1, WholeFacts
<1> HIDE DEF whole
<1>4. Len(out) \in Nat
  BY <1>1
<1>5. \A i \in 1..Len(out) : out[i] = whole[i]
  BY <1>1, <1>2, <1>3, <1>4
<1>6. IsPrefix(out, whole)
  BY <1>1, <1>2, <1>3, <1>5, PrefixOfResponse
<1>7. writing = "no" => out = whole
  <2>1. writing = "no" => Len(out) = Len(whole)
    BY <1>3 DEF WriterInv
  <2> QED
    BY <1>1, <1>3, <1>5, <2>1, SeqEqual
<1> QED
  BY <1>6, <1>7 DEF whole

(* Quotient and remainder are unique.                                      *)
LEMMA QuotientAndRemainder ==
  ASSUME NEW n \in Nat, NEW d \in Nat, NEW q \in Nat, NEW r \in Nat,
         n = d * q + r, r < d
  PROVE  n \div d = q /\ n % d = r
<1>1. d > 0
  OBVIOUS
<1> QED
  BY <1>1

(* The lengths parsed from the word are those it was made of.              *)
LEMMA ParseMagic ==
  ASSUME NEW n \in Nat, n < ResponseRange
  PROVE  /\ Parse8(MakeMagic(HeaderLength, n)).header_length = HeaderLength
         /\ Parse8(MakeMagic(HeaderLength, n)).data_length = n
<1>1. /\ BYTE \in Nat /\ BYTE > 1 /\ ALIGNMENT \in Nat /\ ALIGNMENT > 0
      /\ S3_PROTOCOL_MAGIC \in Nat
  BY PacketHeaderAssumption
<1> DEFINE R == ResponseRange
           D == DataRange
<1>2. R \in Nat /\ R > 0
  <2>1. BYTE * BYTE \in Nat /\ BYTE * BYTE > 0
    BY <1>1
  <2> DEFINE two == BYTE * BYTE
  <2> HIDE DEF two
  <2>2. two \in Nat /\ two > 0
    BY <2>1 DEF two
  <2>3. two * BYTE \in Nat /\ two * BYTE > 0
    BY <1>1, <2>2
  <2> DEFINE three == two * BYTE
  <2> HIDE DEF three
  <2>4. three * BYTE \in Nat /\ three * BYTE > 0
    BY <1>1, <2>3 DEF three
  <2> DEFINE four == three * BYTE
  <2> HIDE DEF four
  <2>5. four * BYTE \in Nat /\ four * BYTE > 0
    BY <1>1, <2>4 DEF four
  <2> QED
    BY <2>5 DEF R, ResponseRange, four, three, two
<1>3. D = BYTE * R
  BY DEF D, DataRange
<1> HIDE DEF R, D
<1>4. D \in Nat /\ R <= D
  BY <1>1, <1>2, <1>3
<1>5. n % R = n /\ n < D
  BY <1>2, <1>4 DEF R
<1>6. PICK q \in 0..(BYTE - 1) : HeaderLength = q * ALIGNMENT
  BY FrontFacts
<1>7. q \in Nat /\ q < BYTE
  BY <1>1
<1>8. HeaderLength \div ALIGNMENT = q
  BY <1>1, <1>6, <1>7
<1> DEFINE top == S3_PROTOCOL_MAGIC * BYTE + q
           w == MakeMagic(HeaderLength, n)
<1>9. top \in Nat
  BY <1>1, <1>7
<1>10. w = D * top + n /\ w \in Nat
  <2>1. w = S3_PROTOCOL_MAGIC * (BYTE * D) + q * D + n
    BY <1>5, <1>8 DEF w, MakeMagic, D, R
  <2>2. w = D * top + n
    BY <1>1, <1>4, <1>7, <2>1
  <2> QED
    BY <1>4, <1>9, <2>2
<1> HIDE DEF w
<1>11. top % BYTE = q
  BY <1>1, <1>7
<1> HIDE DEF top
<1>12. w \div D = top /\ w % D = n
  BY <1>4, <1>5, <1>9, <1>10, QuotientAndRemainder
<1>13. ((w \div D) % BYTE) * ALIGNMENT = HeaderLength
  BY <1>6, <1>11, <1>12
<1> QED
  BY <1>12, <1>13 DEF Parse8, w, D
-----------------------------------------------------------------------------
(* At every moment the client has been sent a prefix of the response, so   *)
(* buffers that are used again, short writes and a writer that is called   *)
(* again neither repeat, skip nor reorder bytes; when the connection goes  *)
(* on, all of it has been sent (s3_response_write, network_write_stream).  *)
THEOREM ResponsesInOrder == Spec => []ResponseInOrder
<1>1. WriterInv => ResponseInOrder
  BY WriterInOrder
<1> QED
  BY <1>1, InitWriterInv, NextWriterInv, PTL DEF Spec

(* The client finds the end of a response from its first eight bytes, as   *)
(* long as the data is shorter than the five bytes s3_response_make_magic  *)
(* keeps of its length.                                                    *)
THEOREM EndsAreFound == Spec => []ClientFindsEnd
<1>1. WriterInv => ClientFindsEnd
  <2> SUFFICES ASSUME WriterInv, responses > 0, writing = "no", size < ResponseRange
               PROVE  Len(out) = S3_PROTOCOL_MAGIC_LEN + Parse8(word).header_length
                                   + Parse8(word).data_length
    BY DEF ClientFindsEnd
  <2>1. Len(out) = FrontLength + size /\ word = MakeMagic(HeaderLength, size)
    BY DEF WriterInv, HeaderInv
  <2>2. size \in Nat
    BY DEF WriterInv, WriterType
  <2>3. Parse8(word).header_length = HeaderLength /\ Parse8(word).data_length = size
    BY <2>1, <2>2, ParseMagic
  <2> QED
    BY <2>1, <2>3 DEF FrontLength
<1> QED
  BY <1>1, InitWriterInv, NextWriterInv, PTL DEF Spec
=============================================================================
