------------------------------- MODULE Paths -------------------------------
(***************************************************************************)
(* path_validate_and_expand (src/files/path.c), one iteration of its loop  *)
(* per step, and filemgmt_set_real_path (src/files/filemgmt.c), which      *)
(* expands a filename twice: alone, for the key of the file table, and     *)
(* behind the files/ folder, for the path the file is stored at.  The two  *)
(* expansions do not depend on each other and advance together here.       *)
(*                                                                         *)
(* A path is its components; the buffer is modelled by its capacity and    *)
(* the offsets the code writes at.  The filename is chosen component by    *)
(* component, behind the slash or the "~" it may begin with: "~a/b" is the *)
(* root "~" and the components "a" and "b".                                *)
(***************************************************************************)
EXTENDS Integers, SequencesExt

CONSTANTS PATH_BUFFER,     \* bytes first allocated for a path
          Plain,           \* components that are names
          Tilde,           \* the name that is a "~" and then a component
          NameLength,      \* the length of each name
          Folder,          \* the components of the files/ folder
          HomeLength,      \* bytes of the home directory
          MaxComponents    \* bound: components in front of the last

Components == Plain \cup {"", ".", ".."}

Names == Plain \cup {Tilde[s] : s \in Components}

Length(s) == CASE s \in Names -> NameLength[s]
               [] s = "" -> 0
               [] s = "." -> 1
               [] s = ".." -> 2

ASSUME PathsAssumption ==
  /\ {"", ".", ".."} \cap Names = {}
  /\ NameLength \in [Names -> Nat \ {0}]
  /\ \A s \in Components : NameLength[Tilde[s]] = 1 + Length(s)
  /\ Folder \in Seq(Plain)
  /\ PATH_BUFFER \in Nat \ {0, 1}
  /\ {HomeLength, MaxComponents} \subseteq Nat

VARIABLES
  root,         \* how the filename begins: "", "/" or "~"
  read,         \* how many components in front of the filename are read
  filename,     \* its components read so far
  name, real,   \* the two expansions
  done          \* is the last component in?

pathVars == <<root, read, filename, name, real, done>>

(* path_alloc_memory: the capacity after asking for n bytes behind index.  *)
Grown_Filled(size, index, n) ==   \* mutant: no byte left for the separator
  IF size < index + n THEN 2 * size + n ELSE size

Grown(size, index, n) == IF size <= index + n THEN 2 * size + n ELSE size

(* An expansion that starts behind base bytes: new_path, the index it is   *)
(* written at, the stack of positions a ".." returns to (how many bytes    *)
(* and how many directories are in front of each), the capacity of         *)
(* new_path, and whether all bytes so far went within it.                  *)
Walk(base) ==
  [path |-> <<>>, index |-> base,
   positions |-> <<[index |-> base, dirs |-> 0]>>,
   size |-> Grown(PATH_BUFFER, 0, base), inside |-> TRUE]

(* Component s, and the byte after it, are written at index.               *)
Written(w, s) ==
  LET size == Grown(w.size, w.index, Length(s))
  IN  [w EXCEPT !.path = Append(@, s),
                !.index = @ + Length(s),
                !.size = size,
                !.inside = @ /\ w.index + Length(s) < size]

Enter(w, s) ==
  [Written(w, s) EXCEPT
     !.index = @ + 1,
     !.positions = Append(@, [index |-> w.index, dirs |-> Len(w.path)])]

Leave_Peek(w) ==   \* mutant: the position stays on the stack
  IF w.positions = <<>> THEN w
  ELSE [w EXCEPT !.path = SubSeq(@, 1, Last(w.positions).dirs),
                 !.index = Last(w.positions).index]

Leave(w) ==
  IF w.positions = <<>> THEN w
  ELSE [w EXCEPT !.path = SubSeq(@, 1, Last(w.positions).dirs),
                 !.index = Last(w.positions).index,
                 !.positions = Front(@)]

(* One iteration of the loop, on a component that ends in a slash.         *)
Step_KeepsEmpty(w, s) ==   \* mutant: no test for a length of 0
  CASE s = "." -> w
    [] s = ".." -> Leave(w)
    [] OTHER -> Enter(w, s)

Step(w, s) ==
  CASE s \in {"", "."} -> w
    [] s = ".." -> Leave(w)
    [] OTHER -> Enter(w, s)

(* What follows the last slash is copied as it is, then the terminator.    *)
Finish(w, s) ==
  IF s = "" THEN [w EXCEPT !.inside = @ /\ w.index < w.size]
  ELSE Written(w, s)

(* path_concat_and_validate: in front of the filename are the folder,      *)
(* which ends in a slash, and another slash, so that one and the one the   *)
(* filename may begin with are empty components.  The folder is below the  *)
(* home directory of its own expansion: an absolute path.                  *)
Above == Append(Folder, "")

(* Alone, a filename's "~" stands for the home directory and a slash, and  *)
(* the first component begins behind it; behind the folder the "~" is a    *)
(* part of that component.                                                 *)
Below(s) == IF root = "~" /\ filename = <<>> THEN Tilde[s] ELSE s

PathInit ==
  /\ root \in {"", "/", "~"}
  /\ read = 0
  /\ filename = <<>>
  /\ name = Walk(CASE root = "" -> 0
                   [] root = "/" -> 1
                   [] root = "~" -> HomeLength + 1)
  /\ real = Walk(1)
  /\ done = FALSE

ReadAbove ==
  /\ read < Len(Above)
  /\ read' = read + 1
  /\ real' = Step(real, Above[read'])
  /\ UNCHANGED <<root, filename, name, done>>

ReadComponent(s) ==
  /\ read = Len(Above) /\ ~done
  /\ Len(filename) < MaxComponents
  /\ filename' = Append(filename, s)
  /\ name' = Step(name, s)
  /\ real' = Step(real, Below(s))
  /\ UNCHANGED <<root, read, done>>

ReadLast(s) ==
  /\ read = Len(Above) /\ ~done
  /\ done' = TRUE
  /\ filename' = Append(filename, s)
  /\ name' = Finish(name, s)
  /\ real' = Finish(real, Below(s))
  /\ UNCHANGED <<root, read>>

PathNext ==
  \/ ReadAbove
  \/ \E s \in Components : ReadComponent(s) \/ ReadLast(s)

PathSpec == PathInit /\ [][PathNext]_pathVars
-----------------------------------------------------------------------------
(* The directories of the filename, and how far up and down they lead      *)
(* between two of them.                                                    *)
Directories == IF done THEN Front(filename) ELSE filename

Downs(dirs, i, j) == Cardinality({n \in i..j : dirs[n] \in Plain})

Ups(dirs, i, j) == Cardinality({n \in i..j : dirs[n] = ".."})

(* A directory is left by the first ".." that is not needed to leave one   *)
(* entered after it.                                                       *)
Stays(dirs, i) ==
  /\ dirs[i] \in Plain
  /\ \A j \in (i + 1)..Len(dirs) : Ups(dirs, i + 1, j) <= Downs(dirs, i + 1, j)

Kept(dirs) == {i \in 1..Len(dirs) : Stays(dirs, i)}

(* The key of a file is its filename with every "." and empty component    *)
(* gone and every directory that a later ".." leaves gone with it; above   *)
(* the start there is nothing to leave.  The n-th directory that stays is  *)
(* the n-th of the key, and the last component follows them.               *)
Normalised ==
  LET kept == Kept(Directories)
      last == IF done /\ Last(filename) # "" THEN <<Last(filename)>> ELSE <<>>
  IN  /\ \A i \in kept :
           name.path[Cardinality(kept \cap 1..i)] = Directories[i]
      /\ Len(name.path) = Cardinality(kept) + Len(last)
      /\ SubSeq(name.path, Cardinality(kept) + 1, Len(name.path)) = last

Climbs(dirs) == \E j \in 1..Len(dirs) : Ups(dirs, 1, j) > Downs(dirs, 1, j)

(* A filename that does not begin with "~" is stored at its key, below the *)
(* folder, unless its ".." lead above it: of these filenames the ones with *)
(* one key are stored at one path, since the two expansions treat repeated *)
(* slashes, "." and ".." alike.  A leading "~" is the home directory in    *)
(* the key and the beginning of a name in the path.                        *)
StoredUnderKey ==
  root # "~" /\ read = Len(Above) /\ ~Climbs(Directories) =>
    real.path = Folder \o name.path

(* No byte of an expanded path, its separators and its terminator included *)
(* is written behind the memory path_alloc_memory has provided, unless the *)
(* last component is empty.                                                *)
WritesInMemory ==
  (done => Last(filename) # "") => name.inside /\ real.inside
=============================================================================
