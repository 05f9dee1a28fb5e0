---------------------------- MODULE FileContent ----------------------------
(***************************************************************************)
(* What the file system calls of src/files/file.c and                      *)
(* actions/action-update.c do to the bytes of one file, and partial        *)
(* functions used as directories of such files.  A content is a sequence   *)
(* of bytes; Zero is the byte that a write or a truncate past the end of   *)
(* the file leaves in the gap.                                             *)
(***************************************************************************)
EXTENDS Naturals, Sequences

CONSTANTS Bytes,   \* the byte values clients send
          Zero     \* the filler byte of a hole

ASSUME ZeroAssumption == Zero \notin Bytes

Content == Seq(Bytes \cup {Zero})

Larger(m, n) == IF m < n THEN n ELSE m

(* truncate (path, n): shortens, or extends with zeros.                    *)
Truncate(s, n) == [i \in 1..n |-> IF i <= Len(s) THEN s[i] ELSE Zero]

(* file_append: seek to offset at, then write all of d over what is there. *)
(* Seeking past the end and writing nothing leaves the file as it is.      *)
WriteAt_NoSeek(s, at, d) ==   \* mutant: the seek is missing
  d \o SubSeq(s, Len(d) + 1, Len(s))

WriteAt(s, at, d) ==
  IF d = <<>> THEN s
  ELSE [i \in 1..Larger(Len(s), at + Len(d)) |->
          IF i \in (at + 1)..(at + Len(d)) THEN d[i - at]
          ELSE IF i <= Len(s) THEN s[i] ELSE Zero]

(* The contents a kill during file_append can leave: the writes made so    *)
(* far are a prefix of the data.                                           *)
TornWrites(s, at, d) == {WriteAt(s, at, SubSeq(d, 1, m)) : m \in 0..Len(d)}

(* Partial functions: the files present in a directory.                    *)
Put(f, x, v) == [y \in DOMAIN f \cup {x} |-> IF y = x THEN v ELSE f[y]]

Without(f, x) == [y \in DOMAIN f \ {x} |-> f[y]]

NoFiles == [x \in {} |-> <<>>]
=============================================================================
