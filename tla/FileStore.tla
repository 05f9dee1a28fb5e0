----------------------------- MODULE FileStore -----------------------------
(***************************************************************************)
(* What the server promises about stored files, without connections,       *)
(* temporary files, rows or packets: writers announce uploads, and a file  *)
(* only ever changes because one upload is committed, whole and at once.   *)
(* A crash loses every announced upload; it can leave the one that was     *)
(* being written partly written, if that upload extends or patches a file, *)
(* but never a file that an upload was to create or replace.               *)
(***************************************************************************)
EXTENDS FileContent

CONSTANTS Writers, Paths

VARIABLES files,    \* the stored files, by path
          pending   \* the upload each writer has announced

NoUpload == [kind |-> "none"]

Uploads ==
  [kind : {"replace", "extend", "patch"}, path : Paths, at : Nat,
   trim : BOOLEAN, payload : Seq(Bytes)]

Init ==
  /\ files = NoFiles
  /\ pending = [w \in Writers |-> NoUpload]
-----------------------------------------------------------------------------
(* The content under the part of an upload that is kept.                   *)
Kept(u) == IF u.trim THEN Truncate(files[u.path], u.at) ELSE files[u.path]

(* Upload u is stored: as the whole file (also by extending a file that is *)
(* not known), behind the content that is there, or at its position.       *)
Replaces(u) ==
  /\ u.kind \in {"replace", "extend"}
  /\ files' = Put(files, u.path, u.payload)

Extends(u, data) ==
  /\ u.kind = "extend"
  /\ u.path \in DOMAIN files
  /\ files' = Put(files, u.path,
                  WriteAt(files[u.path], Len(files[u.path]), data))

Patches(u, data) ==
  /\ u.kind = "patch"
  /\ u.path \in DOMAIN files
  /\ files' = Put(files, u.path, WriteAt(Kept(u), u.at, data))

Stores(u) == Replaces(u) \/ Extends(u, u.payload) \/ Patches(u, u.payload)

(* The first m bytes of upload u are written when the server stops.        *)
Tears(u) ==
  \E m \in 0..Len(u.payload) :
    \/ Extends(u, SubSeq(u.payload, 1, m))
    \/ Patches(u, SubSeq(u.payload, 1, m))

(* An upload without bytes is never pending: it empties a file, cuts it    *)
(* off, or leaves it.                                                      *)
StoresNothing ==
  \E p \in Paths :
    \/ files' = Put(files, p, <<>>)
    \/ /\ p \in DOMAIN files
       /\ \E n \in 0..Len(files[p]) : files' = Put(files, p, Truncate(files[p], n))

OnlyFor(w) == \A v \in Writers \ {w} : pending'[v] = pending[v]

(* The next two change pending[w] only; TLC is given the new value by the  *)
(* module that implements this one.                                        *)
Announce(w) ==
  /\ pending[w] = NoUpload
  /\ pending'[w] \in Uploads
  /\ OnlyFor(w)
  /\ UNCHANGED files

Settle(w) ==
  /\ pending'[w] = NoUpload
  /\ OnlyFor(w)
  /\ \/ UNCHANGED files
     \/ pending[w] # NoUpload /\ Stores(pending[w])
     \/ pending[w] = NoUpload /\ StoresNothing

Crash ==
  /\ \A w \in Writers : pending'[w] = NoUpload
  /\ \/ UNCHANGED files
     \/ \E w \in Writers :
          pending[w] # NoUpload /\ (Stores(pending[w]) \/ Tears(pending[w]))
     \/ StoresNothing

Next == Crash \/ \E w \in Writers : Announce(w) \/ Settle(w)

Spec == Init /\ [][Next]_<<files, pending>>
=============================================================================
