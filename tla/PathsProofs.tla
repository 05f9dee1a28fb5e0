---------------------------- MODULE PathsProofs ----------------------------
(***************************************************************************)
(* Theorems about the expansion of filenames: WritesInMemory, Normalised   *)
(* and StoredUnderKey.                                                     *)
(***************************************************************************)
EXTENDS Paths, SequenceTheorems, FiniteSetTheorems, WellFoundedInduction, TLAPS

-----------------------------------------------------------------------------
(* One expansion *)

Parts == Components \cup Names

Positions == [index : Nat, dirs : Nat]

Walks == [path : Seq(Parts), index : Nat, positions : Seq(Positions),
          size : Nat, inside : BOOLEAN]

(* The write index and every position it can return to are within the      *)
(* capacity.                                                               *)
FitsInv(w) ==
  /\ w.inside = TRUE
  /\ w.size > 0
  /\ w.index <= w.size
  /\ \A i \in 1..Len(w.positions) : w.positions[i].index <= w.size

(* The stack has a position for each directory of the path: how many are   *)
(* in front of it.  The position of the start is below them until a ".."   *)
(* with nothing to leave takes it away.                                    *)
StackInv(w) ==
  \/ /\ Len(w.positions) = Len(w.path)
     /\ \A i \in 1..Len(w.positions) : w.positions[i].dirs = i - 1
  \/ /\ Len(w.positions) = Len(w.path) + 1
     /\ w.positions[1].dirs = 0
     /\ \A i \in 2..Len(w.positions) : w.positions[i].dirs = i - 2

WalkInv(w) == w \in Walks /\ FitsInv(w) /\ StackInv(w)

LEMMA PartsFacts ==
  /\ \A s \in Parts : s \in Names \/ s \in {"", ".", ".."}
  /\ \A s \in Names : s # "" /\ s # "." /\ s # ".."
  /\ \A s \in Plain : s # "" /\ s # "." /\ s # ".."
  /\ \A s \in Components : s \in Plain \/ s \in {"", ".", ".."}
  /\ Plain \subseteq Names /\ Names \subseteq Parts /\ Components \subseteq Parts
  /\ "" \in Parts /\ "." \in Parts /\ ".." \in Parts
  /\ \A s \in Components : Tilde[s] \in Names
<1>1. {"", ".", ".."} \cap Names = {}
  BY Zenon, PathsAssumption
<1>2. Plain \subseteq Names /\ \A s \in Components : Tilde[s] \in Names
  BY DEF Names
<1> QED
  BY <1>1, <1>2 DEF Parts, Components

LEMMA LengthType ==
  ASSUME NEW s \in Parts
  PROVE  Length(s) \in Nat
<1>1. CASE s \in Names
  <2>1. s # "" /\ s # "." /\ s # ".."
    BY <1>1, PartsFacts
  <2>2. Length(s) = NameLength[s]
    BY <1>1, <2>1 DEF Length
  <2>3. NameLength \in [Names -> Nat \ {0}]
    BY Zenon, PathsAssumption
  <2> QED
    BY <1>1, <2>2, <2>3
<1>2. CASE s \in {"", ".", ".."}
  <2>1. s \notin Names
    BY <1>2, PartsFacts
  <2> QED
    BY <1>2, <2>1 DEF Length
<1> QED
  BY <1>1, <1>2, PartsFacts

LEMMA StepCases ==
  ASSUME NEW w, NEW s \in Parts
  PROVE  /\ s \in {"", "."} => Step(w, s) = w
         /\ s = ".." => Step(w, s) = Leave(w)
         /\ s \in Names => Step(w, s) = Enter(w, s)
<1>1. CASE s \in {"", "."}
  BY <1>1, PartsFacts DEF Step
<1>2. CASE s = ".."
  BY <1>2, PartsFacts DEF Step
<1>3. CASE s \in Names
  <2>1. s \notin {"", "."} /\ s # ".."
    BY <1>3, PartsFacts
  <2> QED
    BY <1>3, <2>1, PartsFacts DEF Step
<1> QED
  BY <1>1, <1>2, <1>3, PartsFacts

LEMMA GrownFacts ==
  ASSUME NEW size \in Nat, NEW index \in Nat, NEW n \in Nat
  PROVE  /\ Grown(size, index, n) \in Nat
         /\ Grown(size, index, n) >= size
         /\ size > 0 /\ index <= size => index + n < Grown(size, index, n)
BY DEF Grown

LEMMA WalkStarts ==
  ASSUME NEW base \in Nat
  PROVE  WalkInv(Walk(base)) /\ Walk(base).path = <<>>
<1> DEFINE size == Grown(PATH_BUFFER, 0, base)
           top == [index |-> base, dirs |-> 0]
<1>1. size \in Nat /\ size > 0 /\ base <= size
  <2>1. PATH_BUFFER \in Nat /\ PATH_BUFFER > 0
    <3>1. PATH_BUFFER \in Nat \ {0, 1}
      BY Zenon, PathsAssumption
    <3> QED
      BY <3>1
  <2> QED
    BY <2>1 DEF Grown
<1>2. Walk(base) = [path |-> <<>>, index |-> base, positions |-> <<top>>,
                    size |-> size, inside |-> TRUE]
  BY DEF Walk
<1>3. top \in Positions /\ top.index = base /\ top.dirs = 0
  BY DEF Positions
<1> HIDE DEF size, top
<1>4. <<top>> \in Seq(Positions) /\ Len(<<top>>) = 1 /\ <<top>>[1] = top
  BY <1>3
<1>5. Walk(base) \in Walks
  BY <1>1, <1>2, <1>4 DEF Walks
<1>6. FitsInv(Walk(base))
  BY <1>1, <1>2, <1>3, <1>4 DEF FitsInv
<1>7. StackInv(Walk(base))
  BY <1>2, <1>3, <1>4 DEF StackInv
<1> QED
  BY <1>2, <1>5, <1>6, <1>7 DEF WalkInv

LEMMA WrittenFacts ==
  ASSUME NEW w, WalkInv(w), NEW s \in Parts
  PROVE  \E size \in Nat :
           /\ Written(w, s) =
                [w EXCEPT !.path = Append(w.path, s), !.index = w.index + Length(s),
                          !.size = size, !.inside = TRUE]
           /\ size >= w.size
           /\ w.index + Length(s) + 1 <= size
<1> DEFINE size == Grown(w.size, w.index, Length(s))
<1>1. w \in Walks /\ FitsInv(w)
  BY DEF WalkInv
<1>2. Length(s) \in Nat
  BY LengthType
<1>3. w.size \in Nat /\ w.index \in Nat /\ w.size > 0 /\ w.index <= w.size /\ w.inside = TRUE
  BY <1>1 DEF Walks, FitsInv
<1>4. size \in Nat /\ size >= w.size /\ w.index + Length(s) < size
  BY <1>2, <1>3, GrownFacts
<1>5. Written(w, s) =
        [w EXCEPT !.path = Append(w.path, s), !.index = w.index + Length(s),
                  !.size = size, !.inside = w.inside /\ w.index + Length(s) < size]
  BY <1>1 DEF Written, Walks
<1> HIDE DEF size
<1>6. (w.inside /\ w.index + Length(s) < size) = TRUE
  BY <1>3, <1>4
<1>7. Written(w, s) =
        [w EXCEPT !.path = Append(w.path, s), !.index = w.index + Length(s),
                  !.size = size, !.inside = TRUE]
  BY <1>5, <1>6
<1>8. w.index + Length(s) + 1 <= size
  BY <1>2, <1>3, <1>4
<1> QED
  BY <1>4, <1>7, <1>8

LEMMA EnterFacts ==
  ASSUME NEW w, WalkInv(w), NEW s \in Parts
  PROVE  WalkInv(Enter(w, s)) /\ Enter(w, s).path = Append(w.path, s)
<1>1. PICK size \in Nat :
           /\ Written(w, s) =
                [w EXCEPT !.path = Append(w.path, s), !.index = w.index + Length(s),
                          !.size = size, !.inside = TRUE]
           /\ size >= w.size
           /\ w.index + Length(s) + 1 <= size
  BY WrittenFacts
<1>2. w \in Walks /\ FitsInv(w) /\ StackInv(w)
  BY DEF WalkInv
<1>3. /\ w.path \in Seq(Parts) /\ w.index \in Nat /\ w.positions \in Seq(Positions)
      /\ w.size \in Nat
  BY <1>2 DEF Walks
<1>4. Length(s) \in Nat
  BY LengthType
<1> DEFINE top == [index |-> w.index, dirs |-> Len(w.path)]
           v == Enter(w, s)
<1>5. top \in Positions /\ top.index = w.index /\ top.dirs = Len(w.path)
  BY <1>3 DEF Positions
<1>6. v = [w EXCEPT !.path = Append(w.path, s), !.index = w.index + Length(s) + 1,
                    !.size = size, !.inside = TRUE,
                    !.positions = Append(w.positions, top)]
  BY <1>1, <1>2 DEF Enter, Walks
<1> HIDE DEF top, v
<1>7. /\ v.path = Append(w.path, s) /\ v.index = w.index + Length(s) + 1
      /\ v.size = size /\ v.inside = TRUE /\ v.positions = Append(w.positions, top)
  BY <1>2, <1>6 DEF Walks
<1>8. v \in Walks
  <2>1. Append(w.path, s) \in Seq(Parts) /\ Append(w.positions, top) \in Seq(Positions)
    BY <1>3, <1>5
  <2>2. w.index + Length(s) + 1 \in Nat
    BY <1>3, <1>4
  <2> QED
    BY <1>2, <1>6, <2>1, <2>2 DEF Walks
<1>9. /\ Len(v.positions) = Len(w.positions) + 1 /\ Len(v.path) = Len(w.path) + 1
      /\ v.positions[Len(w.positions) + 1] = top
      /\ \A i \in 1..Len(w.positions) : v.positions[i] = w.positions[i]
      /\ Len(w.path) \in Nat /\ Len(w.positions) \in Nat
  BY <1>3, <1>5, <1>7
<1>10. FitsInv(v)
  <2>1. ASSUME NEW i \in 1..Len(v.positions) PROVE v.positions[i].index <= size
    <3>1. CASE i <= Len(w.positions)
      <4>1. i \in 1..Len(w.positions)
        BY <1>9, <3>1
      <4>2. w.positions[i].index <= w.size /\ w.positions[i].index \in Nat
        <5>1. w.positions[i] \in Positions
          BY <1>3, <4>1, ElementOfSeq
        <5> QED
          BY <1>2, <4>1, <5>1 DEF FitsInv, Positions
      <4>3. v.positions[i] = w.positions[i]
        BY <1>9, <4>1
      <4>4. w.size <= size /\ w.size \in Nat
        BY <1>1, <1>3
      <4> QED
        BY <4>2, <4>3, <4>4
    <3>2. CASE i = Len(w.positions) + 1
      BY <1>1, <1>3, <1>4, <1>5, <1>9, <3>2
    <3> QED
      BY <1>9, <3>1, <3>2
  <2> QED
    BY <1>1, <1>3, <1>4, <1>7, <2>1 DEF FitsInv
<1>11. StackInv(v)
  <2>1. CASE /\ Len(w.positions) = Len(w.path)
             /\ \A i \in 1..Len(w.positions) : w.positions[i].dirs = i - 1
    <3>1. Len(v.positions) = Len(v.path)
      BY <1>9, <2>1
    <3>2. ASSUME NEW i \in 1..Len(v.positions) PROVE v.positions[i].dirs = i - 1
      <4>1. i \in 1..Len(w.positions) \/ i = Len(w.positions) + 1
        BY <1>9
      <4>2. CASE i \in 1..Len(w.positions)
        <5>1. v.positions[i] = w.positions[i] /\ w.positions[i].dirs = i - 1
          BY <1>9, <2>1, <4>2
        <5> QED
          BY <5>1
      <4>3. CASE i = Len(w.positions) + 1
        <5>1. v.positions[i] = top /\ top.dirs = Len(w.path) /\ i - 1 = Len(w.path)
          BY <1>5, <1>9, <2>1, <4>3
        <5> QED
          BY <5>1
      <4> QED
        BY <4>1, <4>2, <4>3
    <3> QED
      BY <3>1, <3>2 DEF StackInv
  <2>2. CASE /\ Len(w.positions) = Len(w.path) + 1
             /\ w.positions[1].dirs = 0
             /\ \A i \in 2..Len(w.positions) : w.positions[i].dirs = i - 2
    <3>1. Len(v.positions) = Len(v.path) + 1
      BY <1>9, <2>2
    <3>2. v.positions[1].dirs = 0
      <4>1. 1 \in 1..Len(w.positions)
        BY <1>9, <2>2
      <4> QED
        BY <1>9, <2>2, <4>1
    <3>3. ASSUME NEW i \in 2..Len(v.positions) PROVE v.positions[i].dirs = i - 2
      <4>1. (i \in 2..Len(w.positions) /\ i \in 1..Len(w.positions)) \/ i = Len(w.positions) + 1
        BY <1>9
      <4>2. CASE i \in 2..Len(w.positions) /\ i \in 1..Len(w.positions)
        <5>1. v.positions[i] = w.positions[i] /\ w.positions[i].dirs = i - 2
          BY <1>9, <2>2, <4>2
        <5> QED
          BY <5>1
      <4>3. CASE i = Len(w.positions) + 1
        <5>1. v.positions[i] = top /\ top.dirs = Len(w.path) /\ i - 2 = Len(w.path)
          BY <1>5, <1>9, <2>2, <4>3
        <5> QED
          BY <5>1
      <4> QED
        BY <4>1, <4>2, <4>3
    <3> QED
      BY <3>1, <3>2, <3>3 DEF StackInv
  <2> QED
    BY <1>2, <2>1, <2>2 DEF StackInv
<1> QED
  BY <1>7, <1>8, <1>10, <1>11 DEF WalkInv, v

LEMMA LeaveFacts ==
  ASSUME NEW w, WalkInv(w)
  PROVE  WalkInv(Leave(w)) /\ Leave(w).path = SubSeq(w.path, 1, Len(w.path) - 1)
<1>1. w \in Walks /\ FitsInv(w) /\ StackInv(w)
  BY DEF WalkInv
<1>2. /\ w.path \in Seq(Parts) /\ w.index \in Nat /\ w.positions \in Seq(Positions)
      /\ w.size \in Nat /\ Len(w.path) \in Nat /\ Len(w.positions) \in Nat
  BY <1>1 DEF Walks
<1>3. CASE w.positions = <<>>
  <2>1. Len(w.path) = 0
    BY <1>1, <1>2, <1>3 DEF StackInv
  <2>2. w.path = <<>> /\ SubSeq(w.path, 1, Len(w.path) - 1) = <<>>
    BY <1>2, <2>1, SubSeqEmpty
  <2> QED
    BY <1>3, <2>2 DEF Leave
<1>4. CASE w.positions # <<>>
  <2> DEFINE n == Len(w.positions)
             top == w.positions[n]
             v == Leave(w)
  <2>1. n \in Nat \ {0} /\ n \in 1..n
    BY <1>2, <1>4
  <2>2. top \in Positions /\ top.index \in Nat /\ top.index <= w.size
    <3>1. top \in Positions
      BY <1>2, <2>1, ElementOfSeq
    <3> QED
      BY <1>1, <2>1, <3>1 DEF FitsInv, Positions
  <2>3. top.dirs = IF Len(w.path) = 0 THEN 0 ELSE Len(w.path) - 1
    BY <1>1, <1>2, <2>1 DEF StackInv
  <2>4. v = [w EXCEPT !.path = SubSeq(w.path, 1, top.dirs), !.index = top.index,
                      !.positions = SubSeq(w.positions, 1, n - 1)]
    BY <1>1, <1>4 DEF Leave, Last, Front, Walks
  <2>5. SubSeq(w.path, 1, top.dirs) = SubSeq(w.path, 1, Len(w.path) - 1)
    <3>1. CASE Len(w.path) = 0
      <4>1. SubSeq(w.path, 1, 0) = <<>> /\ SubSeq(w.path, 1, Len(w.path) - 1) = <<>>
        BY <1>2, <3>1, SubSeqEmpty
      <4> QED
        BY <2>3, <3>1, <4>1
    <3>2. CASE Len(w.path) # 0
      BY <2>3, <3>2
    <3> QED
      BY <3>1, <3>2
  <2> DEFINE path == SubSeq(w.path, 1, Len(w.path) - 1)
             positions == SubSeq(w.positions, 1, n - 1)
  <2>6. /\ path \in Seq(Parts)
        /\ Len(path) = IF Len(w.path) = 0 THEN 0 ELSE Len(w.path) - 1
    <3>1. \A i \in 1..(Len(w.path) - 1) : w.path[i] \in Parts
      BY <1>2
    <3> QED
      BY <1>2, <3>1, SubSeqProperties
  <2>7. /\ positions \in Seq(Positions) /\ Len(positions) = n - 1
        /\ \A i \in 1..(n - 1) : positions[i] = w.positions[i]
    <3>1. \A i \in 1..(n - 1) : w.positions[i] \in Positions
      BY <1>2
    <3> QED
      BY <2>1, <3>1, SubSeqProperties
  <2>8. v = [w EXCEPT !.path = path, !.index = top.index, !.positions = positions]
    BY <2>4, <2>5
  <2> HIDE DEF path, positions, v, top
  <2>9. /\ v \in Walks /\ v.path = path /\ v.index = top.index /\ v.positions = positions
        /\ v.size = w.size /\ v.inside = w.inside
    BY <1>1, <2>2, <2>6, <2>7, <2>8 DEF Walks
  <2> HIDE DEF n
  <2>10. FitsInv(v)
    <3>1. ASSUME NEW i \in 1..Len(v.positions) PROVE v.positions[i].index <= v.size
      <4>1. i \in 1..(n - 1) /\ i \in 1..n
        BY <2>1, <2>7, <2>9
      <4>2. w.positions[i].index <= w.size
        BY <1>1, <4>1 DEF FitsInv, n
      <4> QED
        BY <2>7, <2>9, <4>1, <4>2
    <3> QED
      BY <1>1, <2>2, <2>9, <3>1 DEF FitsInv
  <2>11. StackInv(v)
    <3>1. CASE /\ n = Len(w.path)
               /\ \A i \in 1..n : w.positions[i].dirs = i - 1
      <4>1. Len(v.positions) = Len(v.path)
        BY <1>2, <2>1, <2>6, <2>7, <2>9, <3>1
      <4>2. ASSUME NEW i \in 1..Len(v.positions) PROVE v.positions[i].dirs = i - 1
        <5>1. i \in 1..(n - 1) /\ i \in 1..n
          BY <2>1, <2>7, <2>9
        <5> QED
          BY <2>7, <2>9, <3>1, <5>1
      <4> QED
        BY <4>1, <4>2 DEF StackInv
    <3>2. CASE /\ n = Len(w.path) + 1
               /\ w.positions[1].dirs = 0
               /\ \A i \in 2..n : w.positions[i].dirs = i - 2
      <4>1. CASE Len(w.path) = 0
        <5>1. Len(v.positions) = 0 /\ Len(v.path) = 0
          BY <1>2, <2>1, <2>6, <2>7, <2>9, <3>2, <4>1
        <5> QED
          BY <5>1 DEF StackInv
      <4>2. CASE Len(w.path) # 0
        <5>1. Len(v.positions) = Len(v.path) + 1 /\ Len(v.positions) = n - 1 /\ n >= 2
          BY <1>2, <2>1, <2>6, <2>7, <2>9, <3>2, <4>2
        <5>2. ASSUME NEW i \in 2..Len(v.positions) PROVE v.positions[i].dirs = i - 2
          <6>1. i \in 1..(n - 1) /\ i \in 2..n
            BY <2>1, <5>1
          <6> QED
            BY <2>7, <2>9, <3>2, <6>1
        <5>3. v.positions[1].dirs = 0
          <6>1. 1 \in 1..(n - 1)
            BY <2>1, <5>1
          <6> QED
            BY <2>7, <2>9, <3>2, <6>1
        <5> QED
          BY <5>1, <5>2, <5>3 DEF StackInv
      <4> QED
        BY <4>1, <4>2
    <3> QED
      BY <1>1, <3>1, <3>2 DEF StackInv, n
  <2> QED
    BY <2>9, <2>10, <2>11 DEF WalkInv, v, path
<1> QED
  BY <1>3, <1>4

(* What one iteration of the loop does to the path.                        *)
LEMMA StepFacts ==
  ASSUME NEW w, WalkInv(w), NEW s \in Parts
  PROVE  /\ WalkInv(Step(w, s))
         /\ s \in {"", "."} => Step(w, s).path = w.path
         /\ s = ".." => Step(w, s).path = SubSeq(w.path, 1, Len(w.path) - 1)
         /\ s \in Names => Step(w, s).path = Append(w.path, s)
<1>1. CASE s \in {"", "."}
  BY <1>1, StepCases, PartsFacts
<1>2. CASE s = ".."
  BY <1>2, StepCases, LeaveFacts, PartsFacts
<1>3. CASE s \in Names
  <2>1. Step(w, s) = Enter(w, s) /\ s \notin {"", "."} /\ s # ".."
    BY <1>3, StepCases, PartsFacts
  <2> QED
    BY <2>1, EnterFacts
<1> QED
  BY <1>1, <1>2, <1>3, PartsFacts

(* The last component.                                                     *)
LEMMA FinishFacts ==
  ASSUME NEW w, WalkInv(w), NEW s \in Parts
  PROVE  /\ s # "" => Finish(w, s).inside = TRUE /\ Finish(w, s).path = Append(w.path, s)
         /\ s = "" => Finish(w, s).path = w.path
<1>1. CASE s = ""
  BY <1>1 DEF Finish, WalkInv, Walks
<1>2. CASE s # ""
  <2>1. PICK size \in Nat :
           /\ Written(w, s) =
                [w EXCEPT !.path = Append(w.path, s), !.index = w.index + Length(s),
                          !.size = size, !.inside = TRUE]
           /\ size >= w.size
           /\ w.index + Length(s) + 1 <= size
    BY WrittenFacts
  <2>2. Finish(w, s) = Written(w, s) /\ w \in Walks
    BY <1>2 DEF Finish, WalkInv
  <2>3. Finish(w, s).inside = TRUE /\ Finish(w, s).path = Append(w.path, s)
    BY <2>1, <2>2 DEF Walks
  <2> QED
    BY <1>2, <2>3
<1> QED
  BY <1>1, <1>2
-----------------------------------------------------------------------------
(* Directories, read one at a time *)

LEMMA CountFacts ==
  ASSUME NEW d \in Seq(Components), NEW i \in Nat, NEW j \in Int, i >= 1
  PROVE  /\ IsFiniteSet({n \in i..j : d[n] \in Plain})
         /\ IsFiniteSet({n \in i..j : d[n] = ".."})
         /\ Downs(d, i, j) \in Nat /\ Ups(d, i, j) \in Nat
         /\ j < i => Downs(d, i, j) = 0 /\ Ups(d, i, j) = 0
<1>1. IsFiniteSet(i..j)
  BY FS_Interval
<1>2. IsFiniteSet({n \in i..j : d[n] \in Plain}) /\ IsFiniteSet({n \in i..j : d[n] = ".."})
  BY <1>1, FS_Subset
<1>3. Downs(d, i, j) \in Nat /\ Ups(d, i, j) \in Nat
  BY <1>2, FS_CardinalityType DEF Downs, Ups
<1>4. ASSUME j < i PROVE Downs(d, i, j) = 0 /\ Ups(d, i, j) = 0
  <2>1. {n \in i..j : d[n] \in Plain} = {} /\ {n \in i..j : d[n] = ".."} = {}
    BY <1>4
  <2> QED
    BY <2>1, FS_EmptySet DEF Downs, Ups
<1> QED
  BY <1>2, <1>3, <1>4

LEMMA AppendFacts ==
  ASSUME NEW d \in Seq(Components), NEW s \in Components
  PROVE  /\ Append(d, s) \in Seq(Components) /\ Len(Append(d, s)) = Len(d) + 1
         /\ Append(d, s)[Len(d) + 1] = s
         /\ \A i \in 1..Len(d) : Append(d, s)[i] = d[i]
         /\ Len(d) \in Nat
OBVIOUS

(* How one more component changes the counts.                              *)
LEMMA CountAppend ==
  ASSUME NEW d \in Seq(Components), NEW s \in Components,
         NEW i \in Nat, i >= 1
  PROVE  LET e == Append(d, s)
             n == Len(d)
         IN  /\ \A j \in Int : j <= n => Downs(e, i, j) = Downs(d, i, j)
                                         /\ Ups(e, i, j) = Ups(d, i, j)
             /\ i <= n + 1 =>
                  /\ Downs(e, i, n + 1) = Downs(d, i, n) + (IF s \in Plain THEN 1 ELSE 0)
                  /\ Ups(e, i, n + 1) = Ups(d, i, n) + (IF s = ".." THEN 1 ELSE 0)
<1> DEFINE e == Append(d, s)
           n == Len(d)
<1>1. n \in Nat /\ e[n + 1] = s /\ \A k \in 1..n : e[k] = d[k]
  BY AppendFacts
<1> HIDE DEF e, n
<1>2. ASSUME NEW j \in Int, j <= n
      PROVE  Downs(e, i, j) = Downs(d, i, j) /\ Ups(e, i, j) = Ups(d, i, j)
  <2>1. \A k \in i..j : e[k] = d[k]
    BY <1>1, <1>2
  <2>2. /\ {k \in i..j : e[k] \in Plain} = {k \in i..j : d[k] \in Plain}
        /\ {k \in i..j : e[k] = ".."} = {k \in i..j : d[k] = ".."}
    BY <2>1
  <2> QED
    BY <2>2 DEF Downs, Ups
<1>3. ASSUME i <= n + 1
      PROVE  /\ Downs(e, i, n + 1) = Downs(d, i, n) + (IF s \in Plain THEN 1 ELSE 0)
             /\ Ups(e, i, n + 1) = Ups(d, i, n) + (IF s = ".." THEN 1 ELSE 0)
  <2> DEFINE D == {k \in i..n : d[k] \in Plain}
             U == {k \in i..n : d[k] = ".."}
  <2>1. IsFiniteSet(D) /\ IsFiniteSet(U) /\ n + 1 \notin D /\ n + 1 \notin U
    <3>1. n \in Int
      BY <1>1
    <3>2. IsFiniteSet(D) /\ IsFiniteSet(U)
      BY <3>1, CountFacts
    <3> QED
      BY <1>1, <3>2
  <2>2. \A k \in i..(n + 1) : k = n + 1 \/ (k \in i..n /\ e[k] = d[k])
    BY <1>1
  <2>3. {k \in i..(n + 1) : e[k] \in Plain} = IF s \in Plain THEN D \cup {n + 1} ELSE D
    BY <1>1, <1>3, <2>2
  <2>4. {k \in i..(n + 1) : e[k] = ".."} = IF s = ".." THEN U \cup {n + 1} ELSE U
    BY <1>1, <1>3, <2>2
  <2>5. Downs(d, i, n) = Cardinality(D) /\ Ups(d, i, n) = Cardinality(U)
    BY DEF Downs, Ups
  <2>6. /\ Cardinality(D \cup {n + 1}) = Cardinality(D) + 1
        /\ Cardinality(U \cup {n + 1}) = Cardinality(U) + 1
        /\ Cardinality(D) \in Nat /\ Cardinality(U) \in Nat
    BY <2>1, FS_AddElement, FS_CardinalityType
  <2> HIDE DEF D, U
  <2>7. /\ Downs(e, i, n + 1) = Cardinality(IF s \in Plain THEN D \cup {n + 1} ELSE D)
        /\ Ups(e, i, n + 1) = Cardinality(IF s = ".." THEN U \cup {n + 1} ELSE U)
    BY <2>3, <2>4 DEF Downs, Ups
  <2> QED
    BY <2>5, <2>6, <2>7
<1> QED
  BY <1>2, <1>3 DEF e, n

LEMMA StaysAppend ==
  ASSUME NEW d \in Seq(Components), NEW s \in Components, NEW i \in 1..Len(d)
  PROVE  Stays(Append(d, s), i) <=>
           /\ Stays(d, i)
           /\ Ups(d, i + 1, Len(d)) + (IF s = ".." THEN 1 ELSE 0)
                <= Downs(d, i + 1, Len(d)) + (IF s \in Plain THEN 1 ELSE 0)
<1> DEFINE e == Append(d, s)
           n == Len(d)
<1>1. n \in Nat /\ Len(e) = n + 1 /\ e[i] = d[i]
  BY AppendFacts
<1>2. i + 1 \in Nat /\ i + 1 >= 1 /\ i + 1 <= n + 1
  BY <1>1
<1>3. \A j \in Int : j <= n => Downs(e, i + 1, j) = Downs(d, i + 1, j)
                               /\ Ups(e, i + 1, j) = Ups(d, i + 1, j)
  BY <1>2, CountAppend
<1>4. /\ Downs(e, i + 1, n + 1) = Downs(d, i + 1, n) + (IF s \in Plain THEN 1 ELSE 0)
      /\ Ups(e, i + 1, n + 1) = Ups(d, i + 1, n) + (IF s = ".." THEN 1 ELSE 0)
  BY <1>2, CountAppend
<1> HIDE DEF e, n
<1>5. (\A j \in (i + 1)..(n + 1) : Ups(e, i + 1, j) <= Downs(e, i + 1, j)) <=>
        /\ \A j \in (i + 1)..n : Ups(e, i + 1, j) <= Downs(e, i + 1, j)
        /\ Ups(e, i + 1, n + 1) <= Downs(e, i + 1, n + 1)
  <2>1. \A j : j \in (i + 1)..(n + 1) <=> j \in (i + 1)..n \/ j = n + 1
    BY <1>1, <1>2
  <2> QED
    BY <2>1
<1>6. (\A j \in (i + 1)..n : Ups(e, i + 1, j) <= Downs(e, i + 1, j)) <=>
      (\A j \in (i + 1)..n : Ups(d, i + 1, j) <= Downs(d, i + 1, j))
  <2>1. \A j \in (i + 1)..n : j \in Int /\ j <= n
    BY <1>1, <1>2
  <2> QED
    BY <1>3, <2>1
<1> QED
  BY <1>1, <1>4, <1>5, <1>6 DEF Stays, e, n

(* Behind a directory that stays, the directories do not lead up.          *)
LEMMA StaysEnd ==
  ASSUME NEW d \in Seq(Components), NEW i \in 1..Len(d), Stays(d, i)
  PROVE  Ups(d, i + 1, Len(d)) <= Downs(d, i + 1, Len(d))
<1>1. Len(d) \in Nat /\ i \in Nat
  OBVIOUS
<1>2. CASE i < Len(d)
  <2>1. Len(d) \in (i + 1)..Len(d)
    BY <1>1, <1>2
  <2> QED
    BY <2>1 DEF Stays
<1>3. CASE i = Len(d)
  <2>1. i + 1 \in Nat /\ i + 1 >= 1 /\ Len(d) \in Int /\ Len(d) < i + 1
    BY <1>1, <1>3
  <2>2. Downs(d, i + 1, Len(d)) = 0 /\ Ups(d, i + 1, Len(d)) = 0
    BY <2>1, CountFacts
  <2> QED
    BY <2>2
<1> QED
  BY <1>1, <1>2, <1>3

LEMMA KeptFinite ==
  ASSUME NEW d \in Seq(Components)
  PROVE  /\ Kept(d) \subseteq 1..Len(d) /\ IsFiniteSet(Kept(d))
         /\ Cardinality(Kept(d)) \in Nat
         /\ \A i \in Nat, j \in Nat :
              /\ IsFiniteSet(Kept(d) \cap i..j)
              /\ Cardinality(Kept(d) \cap i..j) \in Nat
<1>1. Kept(d) \subseteq 1..Len(d)
  BY DEF Kept
<1>2. IsFiniteSet(1..Len(d))
  <2>1. Len(d) \in Int
    OBVIOUS
  <2> QED
    BY <2>1, FS_Interval
<1>3. IsFiniteSet(Kept(d))
  BY <1>1, <1>2, FS_Subset
<1>4. ASSUME NEW i \in Nat, NEW j \in Nat PROVE IsFiniteSet(Kept(d) \cap i..j)
  BY <1>3, FS_Intersection
<1> QED
  BY <1>1, <1>3, <1>4, FS_CardinalityType

(* The path holds the directories that stay, in their order; and behind    *)
(* one that stays, the directories lead down as many levels as stay there. *)
KeptInv(d, path) ==
  /\ Len(path) = Cardinality(Kept(d))
  /\ \A i \in Kept(d) : path[Cardinality(Kept(d) \cap 1..i)] = d[i]
  /\ \A i \in Kept(d) :
       Downs(d, i + 1, Len(d)) - Ups(d, i + 1, Len(d)) =
         Cardinality(Kept(d) \cap (i + 1)..Len(d))

Skipped(s) == s \in {"", "."}

(* An empty component or "." changes nothing.                              *)
LEMMA KeptSkip ==
  ASSUME NEW d \in Seq(Components), NEW s \in Components, Skipped(s), NEW path,
         KeptInv(d, path)
  PROVE  KeptInv(Append(d, s), path)
<1> DEFINE e == Append(d, s)
           n == Len(d)
<1>1. s \in Components /\ s \notin Plain /\ s # ".."
  BY PartsFacts DEF Components, Skipped
<1>2. n \in Nat /\ Len(e) = n + 1 /\ e[n + 1] = s /\ \A i \in 1..n : e[i] = d[i]
  BY <1>1, AppendFacts
<1>3. \A i \in 1..n : /\ Downs(d, i + 1, n) \in Nat /\ Ups(d, i + 1, n) \in Nat
                      /\ Downs(e, i + 1, n + 1) = Downs(d, i + 1, n)
                      /\ Ups(e, i + 1, n + 1) = Ups(d, i + 1, n)
  <2> TAKE i \in 1..n
  <2>1. i + 1 \in Nat /\ i + 1 >= 1 /\ n \in Int /\ i + 1 <= n + 1
    BY <1>2
  <2>2. Downs(d, i + 1, n) \in Nat /\ Ups(d, i + 1, n) \in Nat
    BY <2>1, CountFacts
  <2> QED
    BY <1>1, <2>1, <2>2, CountAppend
<1>4. \A i \in 1..n : Stays(e, i) <=> Stays(d, i)
  <2> TAKE i \in 1..n
  <2>1. Stays(e, i) <=> Stays(d, i) /\ Ups(d, i + 1, n) <= Downs(d, i + 1, n)
    BY <1>1, <1>3, StaysAppend
  <2>2. Stays(d, i) => Ups(d, i + 1, n) <= Downs(d, i + 1, n)
    BY StaysEnd
  <2> QED
    BY <2>1, <2>2
<1>5. ~Stays(e, n + 1)
  BY <1>1, <1>2 DEF Stays
<1> HIDE DEF e, n
<1>6. Kept(e) = Kept(d)
  <2>1. Kept(e) = {i \in 1..(n + 1) : Stays(e, i)} /\ Kept(d) = {i \in 1..n : Stays(d, i)}
    BY <1>2 DEF Kept, n
  <2>2. \A i : i \in 1..(n + 1) <=> i \in 1..n \/ i = n + 1
    BY <1>2
  <2> QED
    BY <1>4, <1>5, <2>1, <2>2
<1>7. Kept(d) \subseteq 1..n
  BY KeptFinite DEF n
<1>8. \A i \in Kept(d) : Kept(d) \cap (i + 1)..(n + 1) = Kept(d) \cap (i + 1)..n
  BY <1>2, <1>7
<1> QED
  BY <1>2, <1>3, <1>6, <1>7, <1>8 DEF KeptInv, e, n

(* A name stays, behind all others.                                        *)
LEMMA KeptDown ==
  ASSUME NEW d \in Seq(Components), NEW s \in Plain, NEW path \in Seq(Parts),
         KeptInv(d, path)
  PROVE  KeptInv(Append(d, s), Append(path, s))
<1> DEFINE e == Append(d, s)
           n == Len(d)
           K == Kept(d)
           p == Append(path, s)
<1>1. s \in Components /\ s # ".." /\ s \in Parts
  BY PartsFacts DEF Components
<1>2. n \in Nat /\ Len(e) = n + 1 /\ e[n + 1] = s /\ \A i \in 1..n : e[i] = d[i]
  BY <1>1, AppendFacts
<1>3. e \in Seq(Components)
  BY <1>1, AppendFacts
<1>4. \A i \in 1..n : /\ Downs(d, i + 1, n) \in Nat /\ Ups(d, i + 1, n) \in Nat
                      /\ Downs(e, i + 1, n + 1) = Downs(d, i + 1, n) + 1
                      /\ Ups(e, i + 1, n + 1) = Ups(d, i + 1, n)
  <2> TAKE i \in 1..n
  <2>1. i + 1 \in Nat /\ i + 1 >= 1 /\ n \in Int /\ i + 1 <= n + 1
    BY <1>2
  <2>2. Downs(d, i + 1, n) \in Nat /\ Ups(d, i + 1, n) \in Nat
    BY <2>1, CountFacts
  <2> QED
    BY <1>1, <2>1, <2>2, CountAppend
<1>5. \A i \in 1..n : Stays(e, i) <=> Stays(d, i)
  <2> TAKE i \in 1..n
  <2>1. Stays(e, i) <=> Stays(d, i) /\ Ups(d, i + 1, n) <= Downs(d, i + 1, n) + 1
    BY <1>1, <1>4, StaysAppend
  <2>2. Stays(d, i) => Ups(d, i + 1, n) <= Downs(d, i + 1, n)
    BY StaysEnd
  <2> QED
    BY <1>4, <2>1, <2>2
<1>6. Stays(e, n + 1)
  BY <1>2 DEF Stays
<1>7. /\ Downs(e, n + 2, n + 1) = 0 /\ Ups(e, n + 2, n + 1) = 0
  <2>1. n + 2 \in Nat /\ n + 1 \in Int /\ n + 2 >= 1 /\ n + 1 < n + 2
    BY <1>2
  <2> QED
    BY <1>3, <2>1, CountFacts
<1>8. /\ K \subseteq 1..n /\ IsFiniteSet(K) /\ Cardinality(K) \in Nat
      /\ \A i \in Nat, j \in Nat : IsFiniteSet(K \cap i..j) /\ Cardinality(K \cap i..j) \in Nat
  BY KeptFinite
<1>9. Kept(e) = K \cup {n + 1}
  <2>1. Kept(e) = {i \in 1..(n + 1) : Stays(e, i)} /\ K = {i \in 1..n : Stays(d, i)}
    BY <1>2 DEF Kept
  <2>2. \A i : i \in 1..(n + 1) <=> i \in 1..n \/ i = n + 1
    BY <1>2
  <2> QED
    BY <1>5, <1>6, <2>1, <2>2
<1>10. /\ Len(path) = Cardinality(K)
       /\ \A i \in K : path[Cardinality(K \cap 1..i)] = d[i]
       /\ \A i \in K : Downs(d, i + 1, n) - Ups(d, i + 1, n) = Cardinality(K \cap (i + 1)..n)
  BY DEF KeptInv
<1>11. /\ Len(p) = Len(path) + 1 /\ p[Len(path) + 1] = s
       /\ \A i \in 1..Len(path) : p[i] = path[i]
  BY <1>1
<1> HIDE DEF e, n, K, p
<1>12. n + 1 \notin K
  BY <1>2, <1>8
<1>13. Cardinality(K \cup {n + 1}) = Cardinality(K) + 1
  BY <1>8, <1>12, FS_AddElement
<1>14. ASSUME NEW i \in Kept(e)
       PROVE  /\ p[Cardinality(Kept(e) \cap 1..i)] = e[i]
              /\ Downs(e, i + 1, n + 1) - Ups(e, i + 1, n + 1) =
                   Cardinality(Kept(e) \cap (i + 1)..(n + 1))
  <2>1. CASE i \in K
    <3>1. i \in 1..n /\ i \in Nat /\ i + 1 \in Nat
      BY <1>8, <2>1
    <3>2. Kept(e) \cap 1..i = K \cap 1..i
      BY <1>2, <1>9, <3>1
    <3>3. Cardinality(K \cap 1..i) \in 1..Len(path)
      <4>1. IsFiniteSet(K \cap 1..i) /\ K \cap 1..i \subseteq K /\ K \cap 1..i # {}
        BY <1>8, <2>1, <3>1
      <4>2. Cardinality(K \cap 1..i) <= Cardinality(K)
        BY <1>8, <4>1, FS_Subset
      <4>3. Cardinality(K \cap 1..i) # 0 /\ Cardinality(K \cap 1..i) \in Nat
        BY <4>1, FS_EmptySet, FS_CardinalityType
      <4> QED
        BY <1>10, <4>2, <4>3
    <3>4. p[Cardinality(Kept(e) \cap 1..i)] = e[i]
      BY <1>2, <1>10, <1>11, <2>1, <3>1, <3>2, <3>3
    <3>5. Kept(e) \cap (i + 1)..(n + 1) = (K \cap (i + 1)..n) \cup {n + 1}
      BY <1>2, <1>8, <1>9, <3>1
    <3>6. Cardinality((K \cap (i + 1)..n) \cup {n + 1}) = Cardinality(K \cap (i + 1)..n) + 1
      BY <1>2, <1>8, <1>12, <3>1, FS_AddElement
    <3>7. Cardinality(K \cap (i + 1)..n) \in Nat
      BY <1>2, <1>8, <3>1
    <3>8. Downs(d, i + 1, n) - Ups(d, i + 1, n) = Cardinality(K \cap (i + 1)..n)
      BY <1>10, <2>1
    <3>9. /\ Downs(d, i + 1, n) \in Nat /\ Ups(d, i + 1, n) \in Nat
          /\ Downs(e, i + 1, n + 1) = Downs(d, i + 1, n) + 1
          /\ Ups(e, i + 1, n + 1) = Ups(d, i + 1, n)
      BY <1>4, <3>1
    <3>10. Downs(e, i + 1, n + 1) - Ups(e, i + 1, n + 1) =
             Cardinality(K \cap (i + 1)..n) + 1
      BY <3>7, <3>8, <3>9
    <3> QED
      BY <3>4, <3>5, <3>6, <3>10
  <2>2. CASE i = n + 1
    <3>1. Kept(e) \cap 1..i = Kept(e)
      <4>1. \A k \in Kept(e) : k \in 1..i
        BY <1>2, <1>8, <1>9, <2>2
      <4> QED
        BY <4>1
    <3>2. Kept(e) \cap (i + 1)..(n + 1) = {}
      BY <1>2, <2>2
    <3>3. p[Cardinality(Kept(e))] = s
      BY <1>9, <1>10, <1>11, <1>13
    <3>4. Cardinality(Kept(e) \cap (i + 1)..(n + 1)) = 0
      BY <3>2, FS_EmptySet
    <3>5. i + 1 = n + 2
      BY <1>2, <2>2
    <3>6. p[Cardinality(Kept(e) \cap 1..i)] = e[i]
      BY <1>2, <2>2, <3>1, <3>3
    <3>7. Downs(e, i + 1, n + 1) = 0 /\ Ups(e, i + 1, n + 1) = 0
      BY <1>7, <3>5
    <3> QED
      BY <3>4, <3>6, <3>7
  <2> QED
    BY <1>9, <2>1, <2>2
<1> QED
  BY <1>2, <1>9, <1>10, <1>11, <1>13, <1>14 DEF KeptInv, e, p

(* A set of directories that stay has a last one.                          *)
LEMMA LastOfSet ==
  ASSUME NEW n \in Nat, NEW K, K \subseteq 1..n, K # {}
  PROVE  \E m \in K : \A i \in K : i <= m
<1> DEFINE T == {k \in Nat : k <= n /\ n - k \in K}
<1>1. \A i \in K : n - i \in T
  BY DEF T
<1>2. T \subseteq Nat /\ T # {}
  BY <1>1
<1>3. PICK x \in T : \A y \in T : ~(<<y, x>> \in OpToRel(<, Nat))
  BY <1>2, NatLessThanWellFounded, WFMin
<1>4. ASSUME NEW y \in T PROVE x <= y
  <2>1. ~(<<y, x>> \in OpToRel(<, Nat))
    BY <1>3
  <2>2. x \in Nat /\ y \in Nat
    OBVIOUS
  <2>3. <<y, x>> \in Nat \X Nat /\ <<y, x>>[1] = y /\ <<y, x>>[2] = x
    BY <2>2
  <2>4. ~(y < x)
    BY <2>1, <2>3 DEF OpToRel
  <2> QED
    BY <2>2, <2>4
<1>5. x \in Nat /\ x <= n /\ n - x \in K
  OBVIOUS
<1> HIDE DEF T
<1>6. ASSUME NEW i \in K PROVE i <= n - x
  <2>1. x <= n - i
    BY <1>1, <1>4
  <2>2. i \in Nat
    OBVIOUS
  <2> QED
    BY <1>5, <2>1, <2>2
<1> QED
  BY <1>5, <1>6

Leaves(s) == s = ".."

(* A ".." leaves the last directory that stays, if there is one.           *)
LEMMA KeptUp ==
  ASSUME NEW d \in Seq(Components), NEW s \in Components, Leaves(s),
         NEW path \in Seq(Parts), KeptInv(d, path)
  PROVE  KeptInv(Append(d, s), SubSeq(path, 1, Len(path) - 1))
<1> DEFINE e == Append(d, s)
           n == Len(d)
           K == Kept(d)
           p == SubSeq(path, 1, Len(path) - 1)
<1>1. s = ".." /\ s \notin Plain
  BY PartsFacts DEF Leaves
<1>2. n \in Nat /\ Len(e) = n + 1 /\ e[n + 1] = s /\ \A i \in 1..n : e[i] = d[i]
  BY AppendFacts
<1>3. \A i \in 1..n : /\ Downs(d, i + 1, n) \in Nat /\ Ups(d, i + 1, n) \in Nat
                      /\ Downs(e, i + 1, n + 1) = Downs(d, i + 1, n)
                      /\ Ups(e, i + 1, n + 1) = Ups(d, i + 1, n) + 1
  <2> TAKE i \in 1..n
  <2>1. i + 1 \in Nat /\ i + 1 >= 1 /\ n \in Int /\ i + 1 <= n + 1
    BY <1>2
  <2>2. Downs(d, i + 1, n) \in Nat /\ Ups(d, i + 1, n) \in Nat
    BY <2>1, CountFacts
  <2> QED
    BY <1>1, <2>1, <2>2, CountAppend
<1>4. \A i \in 1..n : Stays(e, i) <=> Stays(d, i) /\ Ups(d, i + 1, n) + 1 <= Downs(d, i + 1, n)
  <2> TAKE i \in 1..n
  <2> QED
    BY <1>1, <1>3, StaysAppend
<1>5. ~Stays(e, n + 1)
  BY <1>1, <1>2 DEF Stays
<1>6. /\ K \subseteq 1..n /\ IsFiniteSet(K) /\ Cardinality(K) \in Nat
      /\ \A i \in Nat, j \in Nat : IsFiniteSet(K \cap i..j) /\ Cardinality(K \cap i..j) \in Nat
  BY KeptFinite
<1>7. /\ Len(path) = Cardinality(K)
      /\ \A i \in K : path[Cardinality(K \cap 1..i)] = d[i]
      /\ \A i \in K : Downs(d, i + 1, n) - Ups(d, i + 1, n) = Cardinality(K \cap (i + 1)..n)
  BY DEF KeptInv
<1>8. Kept(e) = {i \in K : Ups(d, i + 1, n) + 1 <= Downs(d, i + 1, n)}
  <2>1. Kept(e) = {i \in 1..(n + 1) : Stays(e, i)} /\ K = {i \in 1..n : Stays(d, i)}
    BY <1>2 DEF Kept
  <2>2. \A i : i \in 1..(n + 1) <=> i \in 1..n \/ i = n + 1
    BY <1>2
  <2> QED
    BY <1>4, <1>5, <2>1, <2>2
<1>9. /\ Len(p) = IF Len(path) = 0 THEN 0 ELSE Len(path) - 1
      /\ \A i \in 1..(Len(path) - 1) : p[i] = path[i]
  <2>1. \A i \in 1..(Len(path) - 1) : path[i] \in Parts
    OBVIOUS
  <2>2. Len(path) \in Nat
    OBVIOUS
  <2> QED
    BY <2>1, <2>2, SubSeqProperties
<1> HIDE DEF e, n, K, p
<1>10. CASE K = {}
  <2>1. Kept(e) = {} /\ Cardinality(K) = 0 /\ Cardinality(Kept(e)) = 0
    BY <1>8, <1>10, FS_EmptySet
  <2> QED
    BY <1>7, <1>9, <2>1 DEF KeptInv, e, p
<1>11. CASE K # {}
  <2>1. PICK m \in K : \A i \in K : i <= m
    BY <1>2, <1>6, <1>11, LastOfSet
  <2>2. m \in 1..n /\ m \in Nat /\ m + 1 \in Nat
    BY <1>6
  <2>3. m \notin Kept(e)
    <3>1. K \cap (m + 1)..n = {}
      <4>1. \A i \in K : i \in Nat /\ i <= m
        BY <1>6, <2>1
      <4> QED
        BY <2>2, <4>1
    <3>2. Downs(d, m + 1, n) - Ups(d, m + 1, n) = 0
      BY <1>7, <3>1, FS_EmptySet
    <3>3. Downs(d, m + 1, n) \in Nat /\ Ups(d, m + 1, n) \in Nat
      BY <1>3, <2>2
    <3> QED
      BY <1>8, <3>2, <3>3
  <2>4. ASSUME NEW i \in K, i # m
        PROVE  i \in Kept(e) /\ i \in 1..n /\ i < m
    <3>1. i \in 1..n /\ i < m
      BY <1>6, <2>1, <2>2, <2>4
    <3>2. m \in K \cap (i + 1)..n /\ i + 1 \in Nat
      BY <1>2, <2>2, <3>1
    <3>3. Cardinality(K \cap (i + 1)..n) # 0 /\ Cardinality(K \cap (i + 1)..n) \in Nat
      <4>1. IsFiniteSet(K \cap (i + 1)..n) /\ Cardinality(K \cap (i + 1)..n) \in Nat
        BY <1>2, <1>6, <3>2
      <4>2. K \cap (i + 1)..n # {}
        BY <3>2
      <4> QED
        BY <4>1, <4>2, FS_EmptySet
    <3>4. Downs(d, i + 1, n) - Ups(d, i + 1, n) = Cardinality(K \cap (i + 1)..n)
      BY <1>7
    <3>5. Downs(d, i + 1, n) \in Nat /\ Ups(d, i + 1, n) \in Nat
      BY <1>3, <3>1
    <3>6. Ups(d, i + 1, n) + 1 <= Downs(d, i + 1, n)
      BY <3>3, <3>4, <3>5
    <3> QED
      BY <1>8, <3>1, <3>6
  <2>5. Kept(e) = K \ {m}
    BY <1>8, <2>3, <2>4
  <2>6. Cardinality(Kept(e)) = Cardinality(K) - 1 /\ IsFiniteSet(K \ {m})
    BY <1>6, <2>1, <2>5, FS_RemoveElement
  <2>7. Cardinality(K) # 0
    BY <1>6, <1>11, FS_EmptySet
  <2>8. Len(p) = Cardinality(Kept(e))
    BY <1>6, <1>7, <1>9, <2>6, <2>7
  <2>9. ASSUME NEW i \in Kept(e)
        PROVE  /\ p[Cardinality(Kept(e) \cap 1..i)] = e[i]
               /\ Downs(e, i + 1, n + 1) - Ups(e, i + 1, n + 1) =
                    Cardinality(Kept(e) \cap (i + 1)..(n + 1))
    <3>1. i \in K /\ i # m
      BY <2>5
    <3>2. i \in 1..n /\ i < m /\ i \in Nat /\ i + 1 \in Nat
      BY <2>4, <3>1
    <3>3. Kept(e) \cap 1..i = K \cap 1..i
      BY <2>2, <2>5, <3>2
    <3>4. Cardinality(K \cap 1..i) \in 1..(Len(path) - 1)
      <4>1. IsFiniteSet(K \cap 1..i) /\ K \cap 1..i \subseteq K \ {m} /\ K \cap 1..i # {}
        BY <1>6, <2>2, <3>1, <3>2
      <4>2. Cardinality(K \cap 1..i) <= Cardinality(K \ {m})
        BY <2>6, <4>1, FS_Subset
      <4>3. Cardinality(K \cap 1..i) # 0 /\ Cardinality(K \cap 1..i) \in Nat
        BY <4>1, FS_EmptySet, FS_CardinalityType
      <4> QED
        BY <1>6, <1>7, <2>5, <2>6, <4>2, <4>3
    <3>5. p[Cardinality(Kept(e) \cap 1..i)] = e[i]
      BY <1>2, <1>7, <1>9, <3>1, <3>2, <3>3, <3>4
    <3>6. Kept(e) \cap (i + 1)..(n + 1) = (K \cap (i + 1)..n) \ {m}
      BY <1>2, <1>6, <2>5, <3>2
    <3>7. m \in K \cap (i + 1)..n
      BY <1>2, <2>1, <2>2, <3>2
    <3>8. Cardinality((K \cap (i + 1)..n) \ {m}) = Cardinality(K \cap (i + 1)..n) - 1
      BY <1>2, <1>6, <3>2, <3>7, FS_RemoveElement
    <3>9. Cardinality(K \cap (i + 1)..n) \in Nat
      BY <1>2, <1>6, <3>2
    <3>10. Downs(d, i + 1, n) - Ups(d, i + 1, n) = Cardinality(K \cap (i + 1)..n)
      BY <1>7, <3>1
    <3>11. /\ Downs(d, i + 1, n) \in Nat /\ Ups(d, i + 1, n) \in Nat
           /\ Downs(e, i + 1, n + 1) = Downs(d, i + 1, n)
           /\ Ups(e, i + 1, n + 1) = Ups(d, i + 1, n) + 1
      BY <1>3, <3>2
    <3>12. Downs(e, i + 1, n + 1) - Ups(e, i + 1, n + 1) =
             Cardinality(K \cap (i + 1)..n) - 1
      BY <3>9, <3>10, <3>11
    <3> QED
      BY <3>5, <3>6, <3>8, <3>12
  <2> QED
    BY <1>2, <2>8, <2>9 DEF KeptInv, e, p
<1> QED
  BY <1>10, <1>11

LEMMA StepKept ==
  ASSUME NEW d \in Seq(Components), NEW s \in Components,
         NEW w, WalkInv(w), KeptInv(d, w.path)
  PROVE  KeptInv(Append(d, s), Step(w, s).path)
<1>1. s \in Parts /\ w.path \in Seq(Parts)
  BY PartsFacts DEF WalkInv, Walks
<1>2. CASE Skipped(s)
  <2>1. Step(w, s).path = w.path
    BY <1>1, <1>2, StepFacts DEF Skipped
  <2> QED
    BY <1>2, <2>1, KeptSkip
<1>3. CASE Leaves(s)
  <2>1. Step(w, s).path = SubSeq(w.path, 1, Len(w.path) - 1)
    BY <1>1, <1>3, StepFacts DEF Leaves
  <2> QED
    BY <1>1, <1>3, <2>1, KeptUp
<1>4. CASE s \in Plain
  <2>1. Step(w, s).path = Append(w.path, s)
    BY <1>1, <1>4, StepFacts, PartsFacts
  <2> QED
    BY <1>1, <1>4, <2>1, KeptDown
<1> QED
  BY <1>2, <1>3, <1>4 DEF Components, Skipped, Leaves
-----------------------------------------------------------------------------
(* Both expansions *)

(* As long as the filename does not lead above its start, its key has as   *)
(* many directories as it leads down levels, and the stored path is the    *)
(* key below base.                                                         *)
BelowInv(d, base, key, path) ==
  ~Climbs(d) => /\ Len(key) = Downs(d, 1, Len(d)) - Ups(d, 1, Len(d))
                /\ path = base \o key

LEMMA ClimbsAppend ==
  ASSUME NEW d \in Seq(Components), NEW s \in Components, ~Climbs(Append(d, s))
  PROVE  /\ ~Climbs(d)
         /\ s = ".." => Ups(d, 1, Len(d)) < Downs(d, 1, Len(d))
<1> DEFINE e == Append(d, s)
           n == Len(d)
<1>1. n \in Nat /\ Len(e) = n + 1
  BY AppendFacts
<1>2. /\ \A j \in Int : j <= n => Downs(e, 1, j) = Downs(d, 1, j) /\ Ups(e, 1, j) = Ups(d, 1, j)
      /\ Downs(e, 1, n + 1) = Downs(d, 1, n) + (IF s \in Plain THEN 1 ELSE 0)
      /\ Ups(e, 1, n + 1) = Ups(d, 1, n) + (IF s = ".." THEN 1 ELSE 0)
  BY <1>1, CountAppend
<1>3. \A j \in 1..(n + 1) : ~(Ups(e, 1, j) > Downs(e, 1, j))
  BY <1>1 DEF Climbs
<1>4. Downs(d, 1, n) \in Nat /\ Ups(d, 1, n) \in Nat
  <2>1. 1 \in Nat /\ 1 >= 1 /\ n \in Int
    BY <1>1
  <2> QED
    BY <2>1, CountFacts
<1> HIDE DEF e, n
<1>5. \A j \in 1..n : ~(Ups(d, 1, j) > Downs(d, 1, j))
  <2> TAKE j \in 1..n
  <2>1. j \in 1..(n + 1) /\ j \in Int /\ j <= n
    BY <1>1
  <2> QED
    BY <1>2, <1>3, <2>1
<1>6. ASSUME Leaves(s) PROVE Ups(d, 1, n) < Downs(d, 1, n)
  <2>1. s = ".." /\ s \notin Plain
    BY <1>6, PartsFacts DEF Leaves
  <2>2. Downs(e, 1, n + 1) = Downs(d, 1, n) /\ Ups(e, 1, n + 1) = Ups(d, 1, n) + 1
    BY <1>2, <1>4, <2>1
  <2>3. n + 1 \in 1..(n + 1)
    BY <1>1
  <2>4. ~(Ups(e, 1, n + 1) > Downs(e, 1, n + 1))
    BY <1>3, <2>3
  <2> QED
    BY <1>4, <2>2, <2>4
<1> QED
  BY <1>5, <1>6 DEF Climbs, Leaves, n

PushedBehind(b, p, x) == Append(b \o p, x) = b \o Append(p, x)

LEMMA PushFacts ==
  ASSUME NEW S, NEW b \in Seq(S), NEW p \in Seq(S), NEW x \in S
  PROVE  PushedBehind(b, p, x)
<1>1. /\ b \o p \in Seq(S) /\ Len(b \o p) = Len(b) + Len(p)
      /\ \A i \in 1..(Len(b) + Len(p)) :
           (b \o p)[i] = IF i <= Len(b) THEN b[i] ELSE p[i - Len(b)]
  BY ConcatProperties
<1>2. /\ Append(p, x) \in Seq(S) /\ Len(Append(p, x)) = Len(p) + 1
      /\ Append(p, x)[Len(p) + 1] = x
      /\ \A i \in 1..Len(p) : Append(p, x)[i] = p[i]
      /\ Len(b) \in Nat /\ Len(p) \in Nat
  OBVIOUS
<1> DEFINE q == Append(p, x)
           c == b \o p
           r == Append(c, x)
           t == b \o q
<1>3. /\ t \in Seq(S) /\ Len(t) = Len(b) + Len(q)
      /\ \A i \in 1..(Len(b) + Len(q)) :
           t[i] = IF i <= Len(b) THEN b[i] ELSE q[i - Len(b)]
  BY <1>2, ConcatProperties
<1>4. /\ r \in Seq(S) /\ Len(r) = Len(c) + 1 /\ r[Len(c) + 1] = x
      /\ \A i \in 1..Len(c) : r[i] = c[i]
  BY <1>1
<1>5. /\ c \in Seq(S) /\ Len(c) = Len(b) + Len(p)
      /\ \A i \in 1..(Len(b) + Len(p)) :
           c[i] = IF i <= Len(b) THEN b[i] ELSE p[i - Len(b)]
  BY <1>1
<1>6. /\ Len(q) = Len(p) + 1 /\ q[Len(p) + 1] = x /\ \A i \in 1..Len(p) : q[i] = p[i]
  BY <1>2
<1> HIDE DEF q, c, r, t
<1>7. Len(r) = Len(t)
  BY <1>2, <1>3, <1>4, <1>5, <1>6
<1>8. ASSUME NEW i \in 1..Len(r) PROVE r[i] = t[i]
  <2>1. i \in 1..(Len(b) + Len(q))
    BY <1>3, <1>7
  <2>2. i <= Len(b) \/ i - Len(b) \in 1..Len(p) \/ i = Len(b) + Len(p) + 1
    BY <1>2, <1>6, <2>1
  <2>3. CASE i <= Len(b)
    <3>1. i \in 1..Len(c) /\ i \in 1..(Len(b) + Len(p))
      BY <1>2, <1>5, <2>1, <2>3
    <3> QED
      BY <1>3, <1>4, <1>5, <2>1, <2>3, <3>1
  <2>4. CASE i - Len(b) \in 1..Len(p)
    <3>1. i \in 1..Len(c) /\ i \in 1..(Len(b) + Len(p)) /\ ~(i <= Len(b))
      BY <1>2, <1>5, <2>1, <2>4
    <3> QED
      BY <1>3, <1>4, <1>5, <1>6, <2>1, <2>4, <3>1
  <2>5. CASE i = Len(b) + Len(p) + 1
    <3>1. i = Len(c) + 1 /\ ~(i <= Len(b)) /\ i - Len(b) = Len(p) + 1
      BY <1>2, <1>5, <2>5
    <3> QED
      BY <1>3, <1>4, <1>6, <2>1, <3>1
  <2> QED
    BY <2>2, <2>3, <2>4, <2>5
<1>9. r = t
  BY <1>3, <1>4, <1>7, <1>8, SeqEqual
<1> QED
  BY <1>9 DEF PushedBehind, q, c, r, t

LEMMA FrontFacts ==
  ASSUME NEW S, NEW p \in Seq(S), NEW k \in Nat, k <= Len(p)
  PROVE  /\ SubSeq(p, 1, k) \in Seq(S) /\ Len(SubSeq(p, 1, k)) = k
         /\ \A i \in 1..k : SubSeq(p, 1, k)[i] = p[i]
<1>1. \A i \in 1..k : p[i] \in S
  OBVIOUS
<1> QED
  BY <1>1, SubSeqProperties

LEMMA PopFacts ==
  ASSUME NEW S, NEW b \in Seq(S), NEW p \in Seq(S), Len(p) # 0
  PROVE  /\ Len(SubSeq(p, 1, Len(p) - 1)) = Len(p) - 1
         /\ SubSeq(b \o p, 1, Len(b \o p) - 1) = b \o SubSeq(p, 1, Len(p) - 1)
<1> DEFINE c == b \o p
           q == SubSeq(p, 1, Len(p) - 1)
           r == SubSeq(c, 1, Len(c) - 1)
           t == b \o q
<1>1. Len(b) \in Nat /\ Len(p) \in Nat \ {0}
  OBVIOUS
<1>2. /\ c \in Seq(S) /\ Len(c) = Len(b) + Len(p)
      /\ \A i \in 1..(Len(b) + Len(p)) :
           c[i] = IF i <= Len(b) THEN b[i] ELSE p[i - Len(b)]
  BY ConcatProperties
<1>3. /\ q \in Seq(S) /\ Len(q) = Len(p) - 1
      /\ \A i \in 1..(Len(p) - 1) : q[i] = p[i]
  <2>1. Len(p) - 1 \in Nat /\ Len(p) - 1 <= Len(p)
    BY <1>1
  <2> QED
    BY <2>1, FrontFacts
<1>4. /\ t \in Seq(S) /\ Len(t) = Len(b) + Len(q)
      /\ \A i \in 1..(Len(b) + Len(q)) :
           t[i] = IF i <= Len(b) THEN b[i] ELSE q[i - Len(b)]
  BY <1>3, ConcatProperties
<1> HIDE DEF c, q, t
<1>5. /\ r \in Seq(S) /\ Len(r) = Len(c) - 1
      /\ \A i \in 1..(Len(c) - 1) : r[i] = c[i]
  <2>1. Len(c) - 1 \in Nat /\ Len(c) - 1 <= Len(c)
    BY <1>1, <1>2
  <2> QED
    BY <1>2, <2>1, FrontFacts
<1> HIDE DEF r
<1>6. Len(r) = Len(t)
  BY <1>1, <1>2, <1>3, <1>4, <1>5
<1>7. ASSUME NEW i \in 1..Len(r) PROVE r[i] = t[i]
  <2>1. i \in 1..(Len(b) + Len(q)) /\ i \in 1..(Len(c) - 1) /\ i \in 1..(Len(b) + Len(p))
    BY <1>1, <1>2, <1>3, <1>4, <1>5, <1>6
  <2>2. CASE i <= Len(b)
    BY <1>2, <1>4, <1>5, <2>1, <2>2
  <2>3. CASE ~(i <= Len(b))
    <3>1. i - Len(b) \in 1..(Len(p) - 1)
      BY <1>1, <1>3, <2>1, <2>3
    <3> QED
      BY <1>2, <1>3, <1>4, <1>5, <2>1, <2>3, <3>1
  <2> QED
    BY <2>2, <2>3
<1>8. r = t
  BY <1>4, <1>5, <1>6, <1>7, SeqEqual
<1> QED
  BY <1>3, <1>8 DEF c, q, r, t

LEMMA StepBelow ==
  ASSUME NEW d \in Seq(Components), NEW s \in Components, NEW base \in Seq(Parts),
         NEW w, WalkInv(w), NEW v, WalkInv(v), BelowInv(d, base, w.path, v.path)
  PROVE  BelowInv(Append(d, s), base, Step(w, s).path, Step(v, s).path)
<1> DEFINE e == Append(d, s)
           n == Len(d)
<1> SUFFICES ASSUME ~Climbs(e)
             PROVE  /\ Len(Step(w, s).path) = Downs(e, 1, Len(e)) - Ups(e, 1, Len(e))
                    /\ Step(v, s).path = base \o Step(w, s).path
  BY DEF BelowInv
<1>1. n \in Nat /\ Len(e) = n + 1
  BY AppendFacts
<1>2. ~Climbs(d) /\ (Leaves(s) => Ups(d, 1, n) < Downs(d, 1, n))
  BY ClimbsAppend DEF Leaves
<1>3. Len(w.path) = Downs(d, 1, n) - Ups(d, 1, n) /\ v.path = base \o w.path
  BY <1>2 DEF BelowInv
<1>4. /\ Downs(e, 1, n + 1) = Downs(d, 1, n) + (IF s \in Plain THEN 1 ELSE 0)
      /\ Ups(e, 1, n + 1) = Ups(d, 1, n) + (IF Leaves(s) THEN 1 ELSE 0)
  BY <1>1, CountAppend DEF Leaves
<1>5. Downs(d, 1, n) \in Nat /\ Ups(d, 1, n) \in Nat
  <2>1. 1 \in Nat /\ 1 >= 1 /\ n \in Int
    BY <1>1
  <2> QED
    BY <2>1, CountFacts
<1>6. s \in Parts /\ w.path \in Seq(Parts) /\ v.path \in Seq(Parts)
  BY PartsFacts DEF WalkInv, Walks
<1> HIDE DEF e, n
<1>7. CASE Skipped(s)
  <2>1. s \notin Plain /\ ~Leaves(s)
    BY <1>7, PartsFacts DEF Skipped, Leaves
  <2>2. Step(w, s).path = w.path /\ Step(v, s).path = v.path
    BY <1>6, <1>7, StepFacts DEF Skipped
  <2> QED
    BY <1>1, <1>3, <1>4, <1>5, <2>1, <2>2
<1>8. CASE Leaves(s)
  <2>1. s \notin Plain
    BY <1>8, PartsFacts DEF Leaves
  <2>2. /\ Step(w, s).path = SubSeq(w.path, 1, Len(w.path) - 1)
        /\ Step(v, s).path = SubSeq(v.path, 1, Len(v.path) - 1)
    BY <1>6, <1>8, StepFacts DEF Leaves
  <2>3. Len(w.path) \in Nat \ {0}
    BY <1>2, <1>3, <1>5, <1>8
  <2>4. Len(Step(w, s).path) = Len(w.path) - 1
    BY <1>6, <2>2, <2>3, PopFacts
  <2>5. SubSeq(base \o w.path, 1, Len(base \o w.path) - 1) =
          base \o SubSeq(w.path, 1, Len(w.path) - 1)
    BY <1>6, <2>3, PopFacts
  <2>6. Step(v, s).path = base \o Step(w, s).path
    BY <1>3, <2>2, <2>5
  <2>7. Downs(e, 1, n + 1) = Downs(d, 1, n) /\ Ups(e, 1, n + 1) = Ups(d, 1, n) + 1
    BY <1>4, <1>5, <1>8, <2>1
  <2> QED
    BY <1>1, <1>3, <1>5, <2>4, <2>6, <2>7
<1>9. CASE s \in Plain
  <2>1. ~Leaves(s)
    BY <1>9, PartsFacts DEF Leaves
  <2>2. Step(w, s).path = Append(w.path, s) /\ Step(v, s).path = Append(v.path, s)
    BY <1>6, <1>9, StepFacts, PartsFacts
  <2>3. Len(Append(w.path, s)) = Len(w.path) + 1
    BY <1>6
  <2>4. Append(base \o w.path, s) = base \o Append(w.path, s)
    <3>1. PushedBehind(base, w.path, s)
      BY <1>6, PushFacts
    <3> QED
      BY <3>1 DEF PushedBehind
  <2> QED
    BY <1>1, <1>3, <1>4, <1>5, <1>9, <2>1, <2>2, <2>3, <2>4
<1> QED
  BY <1>7, <1>8, <1>9 DEF Components, Skipped, Leaves
-----------------------------------------------------------------------------
(* The inductive invariant *)

(* Up to the last component both expansions are well formed, the key is    *)
(* what stays of the directories, and the stored path is the key below the *)
(* folder unless the filename begins with "~"; then nothing changes.       *)
PathInv ==
  /\ done \in BOOLEAN /\ read \in 0..(Len(Folder) + 1)
  /\ filename \in Seq(Components)
  /\ read <= Len(Folder) =>
       filename = <<>> /\ ~done /\ real.path = SubSeq(Folder, 1, read)
  /\ ~done =>
       /\ WalkInv(name) /\ WalkInv(real)
       /\ KeptInv(filename, name.path)
       /\ read = Len(Folder) + 1 /\ root # "~" =>
            BelowInv(filename, Folder, name.path, real.path)
  /\ done => WritesInMemory /\ Normalised /\ StoredUnderKey

LEMMA AboveFacts ==
  /\ Folder \in Seq(Parts) /\ Len(Folder) \in Nat
  /\ Len(Above) = Len(Folder) + 1
  /\ \A i \in 1..Len(Folder) : Above[i] = Folder[i] /\ Folder[i] \in Plain /\ Folder[i] \in Parts
  /\ Above[Len(Folder) + 1] = ""
<1>1. Folder \in Seq(Plain)
  BY Zenon, PathsAssumption
<1>2. Plain \subseteq Parts
  BY PartsFacts
<1>3. Folder \in Seq(Parts)
  BY <1>1, <1>2, SeqMonotonic
<1> DEFINE x == ""
<1>4. Above = Append(Folder, x)
  BY DEF Above
<1> HIDE DEF x
<1>5. /\ Len(Above) = Len(Folder) + 1 /\ Above[Len(Folder) + 1] = x
      /\ \A i \in 1..Len(Folder) : Above[i] = Folder[i] /\ Folder[i] \in Plain
  BY <1>1, <1>4
<1>6. Len(Folder) \in Nat
  BY <1>1
<1>7. \A i \in 1..Len(Folder) : Folder[i] \in Parts
  BY <1>2, <1>5
<1>8. Above[Len(Folder) + 1] = ""
  BY <1>5 DEF x
<1> QED
  BY Zenon, <1>3, <1>5, <1>6, <1>7, <1>8

LEMMA NothingRead ==
  /\ <<>> \in Seq(Components) /\ <<>> \in Seq(Parts)
  /\ KeptInv(<<>>, <<>>)
  /\ \A base \in Seq(Parts) : BelowInv(<<>>, base, <<>>, base)
<1>1. /\ <<>> \in Seq(Components) /\ <<>> \in Seq(Parts) /\ Len(<<>>) = 0
  OBVIOUS
<1>2. Kept(<<>>) = {}
  BY <1>1 DEF Kept
<1>3. KeptInv(<<>>, <<>>)
  BY <1>1, <1>2, FS_EmptySet DEF KeptInv
<1>4. Downs(<<>>, 1, 0) = 0 /\ Ups(<<>>, 1, 0) = 0
  <2>1. 1 \in Nat /\ 1 >= 1 /\ 0 \in Int /\ 0 < 1
    OBVIOUS
  <2> QED
    BY <1>1, <2>1, CountFacts
<1>5. ASSUME NEW base \in Seq(Parts) PROVE BelowInv(<<>>, base, <<>>, base)
  <2>1. base = base \o <<>>
    BY ConcatEmptySeq
  <2> QED
    BY <1>1, <1>4, <2>1 DEF BelowInv
<1> QED
  BY <1>1, <1>3, <1>5

LEMMA KeptNone ==
  ASSUME NEW w, WalkInv(w), KeptInv(<<>>, w.path)
  PROVE  w.path = <<>>
<1>1. w.path \in Seq(Parts)
  BY DEF WalkInv, Walks
<1>2. Kept(<<>>) = {}
  BY DEF Kept
<1>3. Len(w.path) = 0
  BY <1>2, FS_EmptySet DEF KeptInv
<1> QED
  BY <1>1, <1>3

LEMMA PrefixGrows ==
  ASSUME NEW S, NEW p \in Seq(S), NEW k \in Nat, k + 1 <= Len(p)
  PROVE  Append(SubSeq(p, 1, k), p[k + 1]) = SubSeq(p, 1, k + 1)
<1> DEFINE q == SubSeq(p, 1, k)
           r == SubSeq(p, 1, k + 1)
           x == p[k + 1]
           t == Append(q, x)
<1>1. q \in Seq(S) /\ Len(q) = k /\ \A i \in 1..k : q[i] = p[i]
  <2>1. k <= Len(p)
    OBVIOUS
  <2> QED
    BY <2>1, FrontFacts
<1>2. r \in Seq(S) /\ Len(r) = k + 1 /\ \A i \in 1..(k + 1) : r[i] = p[i]
  <2>1. k + 1 \in Nat
    OBVIOUS
  <2> QED
    BY <2>1, FrontFacts
<1>3. x \in S
  <2>1. k + 1 \in 1..Len(p)
    OBVIOUS
  <2> QED
    BY <2>1, ElementOfSeq
<1> HIDE DEF q, r
<1>4. t \in Seq(S) /\ Len(t) = k + 1 /\ t[k + 1] = x /\ \A i \in 1..k : t[i] = q[i]
  BY <1>1, <1>3
<1> HIDE DEF t
<1>5. ASSUME NEW i \in 1..(k + 1) PROVE t[i] = r[i]
  <2>1. i \in 1..k \/ i = k + 1
    OBVIOUS
  <2> QED
    BY <1>1, <1>2, <1>4, <2>1
<1>6. t = r
  BY <1>2, <1>4, <1>5, SeqEqual
<1> QED
  BY <1>6 DEF q, r, t

LEMMA InitPathInv ==
  ASSUME PathInit
  PROVE  PathInv
<1>1. name.path = <<>> /\ WalkInv(name)
  <2>1. HomeLength \in Nat
    BY Zenon, PathsAssumption
  <2>2. CASE root = ""
    <3>1. name = Walk(0)
      BY <2>2 DEF PathInit
    <3> QED
      BY <3>1, WalkStarts
  <2>3. CASE root = "/"
    <3>1. name = Walk(1)
      BY <2>3 DEF PathInit
    <3> QED
      BY <3>1, WalkStarts
  <2>4. CASE root = "~"
    <3>1. name = Walk(HomeLength + 1)
      BY <2>4 DEF PathInit
    <3>2. HomeLength + 1 \in Nat
      BY <2>1
    <3> QED
      BY <3>1, <3>2, WalkStarts
  <2> QED
    BY <2>2, <2>3, <2>4 DEF PathInit
<1>2. real.path = <<>> /\ WalkInv(real)
  BY WalkStarts DEF PathInit
<1>3. SubSeq(Folder, 1, 0) = <<>>
  BY SubSeqEmpty
<1>4. Len(Folder) \in Nat
  BY AboveFacts
<1>5. read = 0 /\ filename = <<>> /\ done = FALSE
  BY DEF PathInit
<1>6. read \in 0..(Len(Folder) + 1) /\ read # Len(Folder) + 1
  <2>1. read = 0
    BY <1>5
  <2> QED
    BY <1>4, <2>1
<1>7. filename \in Seq(Components) /\ KeptInv(filename, name.path)
  BY Zenon, <1>1, <1>5, NothingRead
<1>8. real.path = SubSeq(Folder, 1, read)
  BY Zenon, <1>2, <1>3, <1>5
<1> QED
  BY Zenon, <1>1, <1>2, <1>5, <1>6, <1>7, <1>8 DEF PathInv

LEMMA LastReadInv ==
  ASSUME done' = TRUE, read' = Len(Folder) + 1,
         filename' \in Seq(Components),
         WritesInMemory', Normalised', StoredUnderKey'
  PROVE  PathInv'
<1>1. Len(Folder) \in Nat
  BY AboveFacts
<1>2. read' \in 0..(Len(Folder) + 1) /\ ~(read' <= Len(Folder))
  BY <1>1
<1> QED
  BY Zenon, <1>2 DEF PathInv

LEMMA LastAndFront ==
  ASSUME NEW d \in Seq(Components), NEW s \in Components
  PROVE  /\ Append(d, s) \in Seq(Components)
         /\ Last(Append(d, s)) = s
         /\ Front(Append(d, s)) = d
<1> DEFINE e == Append(d, s)
           f == SubSeq(e, 1, Len(d))
<1>1. /\ e \in Seq(Components) /\ Len(e) = Len(d) + 1 /\ e[Len(d) + 1] = s
      /\ \A i \in 1..Len(d) : e[i] = d[i]
      /\ Len(d) \in Nat
  BY AppendFacts
<1> HIDE DEF e
<1>2. Last(e) = s /\ Front(e) = f
  <2>1. Len(e) - 1 = Len(d)
    BY <1>1
  <2> QED
    BY <1>1, <2>1 DEF Last, Front
<1>3. f \in Seq(Components) /\ Len(f) = Len(d) /\ \A i \in 1..Len(d) : f[i] = e[i]
  <2>1. Len(d) <= Len(e)
    BY <1>1
  <2> QED
    BY <1>1, <2>1, FrontFacts
<1> HIDE DEF f
<1>4. f = d
  BY <1>1, <1>3, SeqEqual
<1> QED
  BY <1>1, <1>2, <1>4 DEF e

LEMMA RankFacts ==
  ASSUME NEW d \in Seq(Components), NEW i \in Kept(d)
  PROVE  Cardinality(Kept(d) \cap 1..i) \in 1..Cardinality(Kept(d))
<1> DEFINE K == Kept(d)
<1>1. K \subseteq 1..Len(d) /\ IsFiniteSet(K) /\ Cardinality(K) \in Nat
  BY KeptFinite
<1>2. i \in 1..i
  BY <1>1
<1>3. K \cap 1..i \subseteq K /\ K \cap 1..i # {}
  BY <1>2
<1> HIDE DEF K
<1>4. IsFiniteSet(K \cap 1..i) /\ Cardinality(K \cap 1..i) <= Cardinality(K)
  BY <1>1, <1>3, FS_Subset
<1>5. Cardinality(K \cap 1..i) # 0 /\ Cardinality(K \cap 1..i) \in Nat
  BY <1>3, <1>4, FS_EmptySet, FS_CardinalityType
<1>6. Cardinality(K \cap 1..i) \in 1..Cardinality(K)
  BY <1>1, <1>4, <1>5
<1> QED
  BY <1>6 DEF K

LEMMA SubSeqOne ==
  ASSUME NEW S, NEW p \in Seq(S), NEW k \in Nat, Len(p) = k + 1, NEW x \in S, p[k + 1] = x
  PROVE  SubSeq(p, k + 1, Len(p)) = <<x>>
<1> DEFINE q == SubSeq(p, k + 1, k + 1)
<1>1. q \in Seq(S) /\ Len(q) = 1 /\ q[1] = x
  <2>1. \A i \in (k + 1)..(k + 1) : p[i] \in S
    OBVIOUS
  <2> QED
    BY <2>1, SubSeqProperties
<1> HIDE DEF q
<1>2. <<x>> \in Seq(S) /\ Len(<<x>>) = 1 /\ <<x>>[1] = x
  OBVIOUS
<1>3. q = <<x>>
  <2>1. \A i \in 1..Len(q) : q[i] = <<x>>[i]
    BY <1>1, <1>2
  <2> QED
    BY <1>1, <1>2, <2>1, SeqEqual
<1> QED
  BY <1>3 DEF q

(* Reading the folder.                                                     *)
LEMMA ReadAboveInv ==
  ASSUME PathInv, ReadAbove
  PROVE  PathInv'
<1>1. /\ Folder \in Seq(Parts) /\ Len(Folder) \in Nat
      /\ Len(Above) = Len(Folder) + 1
  BY AboveFacts
<1>2. /\ read \in 0..(Len(Folder) + 1) /\ read < Len(Folder) + 1 /\ read' = read + 1
      /\ real' = Step(real, Above[read + 1])
      /\ UNCHANGED <<root, filename, name, done>>
  BY <1>1 DEF ReadAbove, PathInv
<1>3. read \in Nat /\ read <= Len(Folder) /\ read + 1 \in 0..(Len(Folder) + 1)
  BY <1>1, <1>2
<1>4. /\ filename = <<>> /\ done = FALSE /\ real.path = SubSeq(Folder, 1, read)
      /\ WalkInv(name) /\ WalkInv(real) /\ KeptInv(filename, name.path)
      /\ filename \in Seq(Components)
  BY <1>3 DEF PathInv
<1>5. CASE read < Len(Folder)
  <2>1. read + 1 \in 1..Len(Folder)
    BY <1>1, <1>3, <1>5
  <2>2. Above[read + 1] = Folder[read + 1] /\ Folder[read + 1] \in Plain /\ Folder[read + 1] \in Parts
    BY <2>1, AboveFacts
  <2>3. WalkInv(real') /\ real'.path = Append(real.path, Folder[read + 1])
    BY <1>2, <1>4, <2>2, StepFacts, PartsFacts
  <2>4. Append(SubSeq(Folder, 1, read), Folder[read + 1]) = SubSeq(Folder, 1, read + 1)
    BY <1>1, <1>3, <2>1, PrefixGrows
  <2>5. real'.path = SubSeq(Folder, 1, read') /\ read' <= Len(Folder) /\ read' # Len(Folder) + 1
    <3>1. real'.path = SubSeq(Folder, 1, read')
      BY Zenon, <1>2, <1>4, <2>3, <2>4
    <3>2. read' <= Len(Folder) /\ read' # Len(Folder) + 1
      BY <1>1, <1>2, <1>3, <1>5
    <3> QED
      BY <3>1, <3>2
  <2> QED
    BY <1>2, <1>3, <1>4, <2>3, <2>5 DEF PathInv
<1>6. CASE read = Len(Folder)
  <2>1. real.path = Folder
    BY <1>1, <1>4, <1>6, SubSeqFull
  <2>2. Above[read + 1] = ""
    BY <1>6, AboveFacts
  <2>3. WalkInv(real') /\ real'.path = Folder
    <3>1. real' = Step(real, "")
      BY <1>2, <2>2
    <3> QED
      BY <1>4, <2>1, <3>1, StepFacts, PartsFacts
  <2>4. name.path = <<>>
    BY <1>4, KeptNone
  <2>5. real'.path \in Seq(Parts)
    BY <2>3 DEF WalkInv, Walks
  <2>6. BelowInv(filename', Folder, name'.path, real'.path)
    BY <1>2, <1>4, <2>3, <2>4, <2>5, NothingRead
  <2>7. ~(read' <= Len(Folder))
    BY <1>1, <1>2, <1>6
  <2> QED
    BY <1>2, <1>3, <1>4, <2>3, <2>6, <2>7 DEF PathInv
<1> QED
  BY <1>1, <1>3, <1>5, <1>6

(* The first component of a filename that begins with "~" is a name behind *)
(* the folder, every other component is itself.                            *)
LEMMA BelowFacts ==
  ASSUME NEW s \in Components
  PROVE  /\ s \in Parts /\ Below(s) \in Parts
         /\ root # "~" => Below(s) = s
         /\ s # "" => Below(s) # ""
BY PartsFacts DEF Below

(* Reading a component in front of the last.                               *)
LEMMA ReadComponentInv ==
  ASSUME PathInv, NEW s \in Components, ReadComponent(s)
  PROVE  PathInv'
<1>1. /\ Len(Above) = Len(Folder) + 1 /\ Len(Folder) \in Nat
      /\ Folder \in Seq(Parts)
  BY AboveFacts
<1>2. /\ read = Len(Folder) + 1 /\ done = FALSE
      /\ filename' = Append(filename, s)
      /\ name' = Step(name, s) /\ real' = Step(real, Below(s))
      /\ UNCHANGED <<root, read, done>>
  BY Zenon, <1>1 DEF ReadComponent, PathInv
<1>3. /\ read \in 0..(Len(Folder) + 1)
      /\ filename \in Seq(Components) /\ WalkInv(name) /\ WalkInv(real)
      /\ KeptInv(filename, name.path)
      /\ root # "~" => BelowInv(filename, Folder, name.path, real.path)
  BY Zenon, <1>2 DEF PathInv
<1>4. s \in Parts /\ Below(s) \in Parts /\ (root # "~" => Below(s) = s)
  BY BelowFacts
<1>5. WalkInv(name') /\ WalkInv(real')
  BY <1>2, <1>3, <1>4, StepFacts
<1>6. KeptInv(filename', name'.path)
  BY <1>2, <1>3, StepKept
<1>7. root' # "~" => BelowInv(filename', Folder, name'.path, real'.path)
  BY <1>1, <1>2, <1>3, <1>4, StepBelow
<1>8. filename' \in Seq(Components)
  BY <1>2, <1>3, AppendFacts
<1>9. ~(read' <= Len(Folder))
  <2>1. read' = Len(Folder) + 1
    BY <1>2
  <2> QED
    BY <1>1, <2>1
<1> QED
  BY Zenon, <1>2, <1>3, <1>5, <1>6, <1>7, <1>8, <1>9 DEF PathInv

(* The three properties, from the invariant of what is read so far.        *)
LEMMA PathProperties ==
  ASSUME PathInv
  PROVE  WritesInMemory /\ Normalised /\ StoredUnderKey
<1>1. CASE done
  BY Zenon, <1>1 DEF PathInv
<1>2. CASE ~done
  <2>1. /\ filename \in Seq(Components) /\ WalkInv(name) /\ WalkInv(real)
        /\ KeptInv(filename, name.path)
        /\ read = Len(Folder) + 1 /\ root # "~" =>
            BelowInv(filename, Folder, name.path, real.path)
    BY Zenon, <1>2 DEF PathInv
  <2>2. Directories = filename
    BY <1>2 DEF Directories
  <2>3. WritesInMemory
    BY <2>1 DEF WritesInMemory, WalkInv, FitsInv
  <2>4. Normalised
    <3>1. Len(name.path) = Cardinality(Kept(filename))
      BY <2>1 DEF KeptInv
    <3>2. name.path \in Seq(Parts) /\ Len(name.path) \in Nat
      BY <2>1 DEF WalkInv, Walks
    <3>3. SubSeq(name.path, Len(name.path) + 1, Len(name.path)) = <<>>
      BY <3>2, SubSeqEmpty
    <3>4. Len(<<>>) = 0 /\ Len(name.path) = Len(name.path) + 0
      BY <3>2
    <3>5. \A i \in Kept(filename) :
            name.path[Cardinality(Kept(filename) \cap 1..i)] = filename[i]
      BY <2>1 DEF KeptInv
    <3> QED
      BY <1>2, <2>2, <3>1, <3>3, <3>4, <3>5 DEF Normalised
  <2>5. StoredUnderKey
    <3>1. Len(Above) = Len(Folder) + 1
      BY AboveFacts
    <3> QED
      BY <2>1, <2>2, <3>1 DEF StoredUnderKey, BelowInv
  <2> QED
    BY <2>3, <2>4, <2>5
<1> QED
  BY <1>1, <1>2

(* Reading the last component.                                             *)
LEMMA ReadLastInv ==
  ASSUME PathInv, NEW s \in Components, ReadLast(s)
  PROVE  PathInv'
<1>1. /\ Len(Above) = Len(Folder) + 1 /\ Len(Folder) \in Nat
      /\ Folder \in Seq(Parts)
  BY AboveFacts
<1>2. /\ read = Len(Folder) + 1 /\ done = FALSE /\ done' = TRUE
      /\ filename' = Append(filename, s)
      /\ name' = Finish(name, s) /\ real' = Finish(real, Below(s))
      /\ UNCHANGED <<root, read>>
  BY Zenon, <1>1 DEF ReadLast, PathInv
<1>3. /\ read \in 0..(Len(Folder) + 1)
      /\ filename \in Seq(Components) /\ WalkInv(name) /\ WalkInv(real)
      /\ KeptInv(filename, name.path)
      /\ root # "~" => BelowInv(filename, Folder, name.path, real.path)
  BY Zenon, <1>2 DEF PathInv
<1>4. Above' = Above /\ root' = root
  BY <1>2 DEF Above
<1>5. /\ s \in Parts /\ Below(s) \in Parts /\ (root # "~" => Below(s) = s)
      /\ s # "" => Below(s) # ""
  BY BelowFacts
<1>6. filename' \in Seq(Components) /\ Last(filename') = s /\ Front(filename') = filename
  BY <1>2, <1>3, LastAndFront
<1>7. Directories' = filename
  BY <1>2, <1>6 DEF Directories
<1>8. name.path \in Seq(Parts) /\ Len(name.path) \in Nat /\ real.path \in Seq(Parts)
  BY <1>3 DEF WalkInv, Walks
<1> DEFINE K == Kept(filename)
<1>9. Len(name.path) = Cardinality(K)
      /\ \A i \in K : name.path[Cardinality(K \cap 1..i)] = filename[i]
  BY <1>3 DEF KeptInv
<1>10. \A i \in K : Cardinality(K \cap 1..i) \in 1..Len(name.path)
  BY <1>3, <1>9, RankFacts
<1> HIDE DEF K
<1>11. CASE s = ""
  <2>1. name'.path = name.path /\ (root # "~" => real'.path = real.path)
    BY <1>2, <1>3, <1>5, <1>11, FinishFacts
  <2>2. WritesInMemory'
    BY <1>2, <1>6, <1>11 DEF WritesInMemory
  <2>3. Normalised'
    <3>1. SubSeq(name.path, Len(name.path) + 1, Len(name.path)) = <<>>
      BY <1>8, SubSeqEmpty
    <3>2. Len(<<>>) = 0 /\ Len(name.path) = Len(name.path) + 0
      BY <1>8
    <3> QED
      BY <1>2, <1>6, <1>7, <1>9, <1>11, <2>1, <3>1, <3>2 DEF Normalised, K
  <2>4. StoredUnderKey'
    BY <1>2, <1>3, <1>4, <1>7, <2>1 DEF StoredUnderKey, BelowInv
  <2> QED
    BY <2>2, <2>3, <2>4, <1>2, <1>3, <1>6, LastReadInv
<1>12. CASE s # ""
  <2>1. /\ name'.path = Append(name.path, s) /\ real'.path = Append(real.path, Below(s))
        /\ name'.inside = TRUE /\ real'.inside = TRUE
    BY <1>2, <1>3, <1>5, <1>12, FinishFacts
  <2>2. WritesInMemory'
    BY <2>1 DEF WritesInMemory
  <2>3. Normalised'
    <3> DEFINE p == Append(name.path, s)
               k == Len(name.path)
    <3>0. s \in Parts
      BY <1>5
    <3>1. /\ p \in Seq(Parts) /\ Len(p) = Len(name.path) + 1 /\ p[Len(name.path) + 1] = s
          /\ \A i \in 1..Len(name.path) : p[i] = name.path[i]
      BY <1>8, <3>0
    <3> HIDE DEF p
    <3>2. SubSeq(p, Len(name.path) + 1, Len(p)) = <<s>>
      <4>1. p \in Seq(Parts) /\ Len(p) = k + 1 /\ p[k + 1] = s
        BY <3>1
      <4>2. k \in Nat
        BY <1>8
      <4> HIDE DEF k
      <4>3. SubSeq(p, k + 1, Len(p)) = <<s>>
        BY <3>0, <4>1, <4>2, SubSeqOne
      <4> QED
        BY <4>3 DEF k
    <3>3. \A i \in K : p[Cardinality(K \cap 1..i)] = filename[i]
      BY <1>9, <1>10, <3>1
    <3>4. Len(p) = Cardinality(K) + Len(<<s>>)
      BY <1>9, <3>1
    <3>5. p = name'.path
      BY <2>1 DEF p
    <3>6. K = Kept(Directories')
      BY <1>7 DEF K
    <3> QED
      BY <1>2, <1>6, <1>7, <1>9, <1>12, <3>2, <3>3, <3>4, <3>5, <3>6 DEF Normalised
  <2>4. StoredUnderKey'
    <3>1. ASSUME root # "~", ~Climbs(filename)
          PROVE  real'.path = Folder \o name'.path
      <4>1. real.path = Folder \o name.path
        BY <1>3, <3>1 DEF BelowInv
      <4>2. PushedBehind(Folder, name.path, s)
        BY <1>1, <1>5, <1>8, PushFacts
      <4> QED
        BY <1>5, <2>1, <3>1, <4>1, <4>2 DEF PushedBehind
    <3> QED
      BY <1>4, <1>7, <3>1 DEF StoredUnderKey
  <2> QED
    BY <2>2, <2>3, <2>4, <1>2, <1>3, <1>6, LastReadInv
<1> QED
  BY <1>11, <1>12
-----------------------------------------------------------------------------
LEMMA NextPathInv ==
  ASSUME PathInv, [PathNext]_pathVars
  PROVE  PathInv'
<1>1. CASE ReadAbove
  BY <1>1, ReadAboveInv
<1>2. ASSUME NEW s \in Components, ReadComponent(s) PROVE PathInv'
  BY <1>2, ReadComponentInv
<1>3. ASSUME NEW s \in Components, ReadLast(s) PROVE PathInv'
  BY <1>3, ReadLastInv
<1>4. CASE UNCHANGED pathVars
  BY <1>4 DEF pathVars, PathInv, WritesInMemory, Normalised, StoredUnderKey,
              Directories, Above
<1> QED
  BY <1>1, <1>2, <1>3, <1>4 DEF PathNext

LEMMA PathsInvariant == PathSpec => []PathInv
<1>1. PathInit => PathInv
  BY InitPathInv
<1>2. PathInv /\ [PathNext]_pathVars => PathInv'
  BY NextPathInv
<1> QED
  BY <1>1, <1>2, PTL DEF PathSpec

(* path_validate_and_expand writes no byte behind the memory it has asked  *)
(* path_alloc_memory for, for any buffer of two bytes or more and names of *)
(* any lengths, however often a ".." takes it back; a filename that ends   *)
(* in a slash is the exception.                                            *)
THEOREM PathsStayInMemory == PathSpec => []WritesInMemory
<1>1. PathInv => WritesInMemory
  BY PathProperties
<1> QED
  BY <1>1, PathsInvariant, PTL

(* The stack of positions of path_validate_and_expand computes the normal  *)
(* form: the directories that no later ".." leaves, in order, and the last *)
(* component.                                                              *)
THEOREM KeysAreNormal == PathSpec => []Normalised
<1>1. PathInv => Normalised
  BY PathProperties
<1> QED
  BY <1>1, PathsInvariant, PTL

(* filemgmt_set_real_path stores a file at its key below the files folder, *)
(* as long as the filename does not begin with "~" and does not lead above *)
(* its start.                                                              *)
THEOREM FilesAreUnderTheirKey == PathSpec => []StoredUnderKey
<1>1. PathInv => StoredUnderKey
  BY PathProperties
<1> QED
  BY <1>1, PathsInvariant, PTL
=============================================================================
