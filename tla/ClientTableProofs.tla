------------------------- MODULE ClientTableProofs -------------------------
(***************************************************************************)
(* Theorems about the table of connections, for any number of clients, any *)
(* sequence of events, any capacity and any number of expansions:          *)
(* EventsAreTaken and ServedUntilMet.                                      *)
(***************************************************************************)
EXTENDS ClientTable, FiniteSetTheorems, WellFoundedInduction, TLAPS

-----------------------------------------------------------------------------
(* What the proofs need to know of the operator & : a mask bounds it.      *)
AndBound == \A x, y \in Nat : BitAnd(x, y) \in 0..y

(* Arithmetic *)

LEMMA QuotientAndRemainder ==
  ASSUME NEW C \in Nat \ {0}, NEW q \in Nat, NEW r \in 0..(C - 1)
  PROVE  (C * q + r) % C = r
OBVIOUS

LEMMA Division ==
  ASSUME NEW C \in Nat \ {0}, NEW n \in Nat
  PROVE  /\ n % C \in 0..(C - 1)
         /\ \E q \in Nat : n = C * q + (n % C)
<1>1. n % C \in 0..(C - 1)
  OBVIOUS
<1>2. n \div C \in Nat /\ n = C * (n \div C) + (n % C)
  OBVIOUS
<1> QED
  BY <1>1, <1>2

LEMMA RemainderOfSum ==
  ASSUME NEW C \in Nat \ {0}, NEW x \in Nat, NEW y \in Nat
  PROVE  ((x % C) + y) % C = (x + y) % C
<1>1. PICK q \in Nat : x = C * q + (x % C)
  BY Division
<1>2. x % C \in Nat
  BY Division
<1> DEFINE z == (x % C) + y
<1>3. z \in Nat
  BY <1>2
<1> HIDE DEF z
<1>4. PICK p \in Nat : z = C * p + (z % C)
  BY <1>3, Division
<1>5. z % C \in 0..(C - 1)
  BY <1>3, Division
<1>6. x + y = C * q + z
  BY <1>1, <1>2 DEF z
<1>7. C * q + C * p = C * (q + p)
  OBVIOUS
<1>8. x + y = C * (q + p) + (z % C)
  BY <1>3, <1>4, <1>5, <1>6, <1>7
<1>9. (C * (q + p) + (z % C)) % C = z % C
  <2>1. q + p \in Nat
    OBVIOUS
  <2> QED
    BY <1>5, <2>1, QuotientAndRemainder
<1> QED
  BY <1>8, <1>9 DEF z

LEMMA MinFacts ==
  ASSUME NEW T, T \subseteq Nat, T # {}
  PROVE  Min(T) \in T /\ \A y \in T : Min(T) <= y
<1>1. PICK x \in T : \A y \in T : ~(<<y, x>> \in OpToRel(<, Nat))
  BY NatLessThanWellFounded, WFMin
<1>2. ASSUME NEW y \in T PROVE x <= y
  <2>1. ~(<<y, x>> \in OpToRel(<, Nat))
    BY <1>1
  <2>2. x \in Nat /\ y \in Nat
    OBVIOUS
  <2>3. <<y, x>> \in Nat \X Nat /\ <<y, x>>[1] = y /\ <<y, x>>[2] = x
    BY <2>2
  <2>4. ~(y < x)
    BY <2>1, <2>3 DEF OpToRel
  <2> QED
    BY <2>2, <2>4
<1> QED
  BY <1>2 DEF Min

(* Induction, for a set.                                                   *)
LEMMA Induction ==
  ASSUME NEW S, 0 \in S, \A n \in Nat : n \in S => n + 1 \in S
  PROVE  Nat \subseteq S
<1> DEFINE T == Nat \ S
<1>1. SUFFICES ASSUME T # {} PROVE FALSE
  OBVIOUS
<1>2. Min(T) \in T /\ \A y \in T : Min(T) <= y
  <2>1. T \subseteq Nat
    OBVIOUS
  <2> HIDE DEF T
  <2> QED
    BY <1>1, <2>1, MinFacts
<1>3. PICK m \in T : \A y \in T : m <= y
  BY <1>2
<1>4. m \in Nat /\ m # 0
  OBVIOUS
<1>5. m - 1 \in Nat /\ (m - 1) + 1 = m /\ ~(m <= m - 1)
  BY <1>4
<1>6. m - 1 \in S
  BY <1>3, <1>5
<1> QED
  BY <1>5, <1>6

(* A probe that starts anywhere comes to every bucket.                     *)
LEMMA EveryBucketIsProbed ==
  ASSUME NEW C \in Nat \ {0}, NEW h \in 0..(C - 1), NEW s \in 0..(C - 1)
  PROVE  \E d \in 0..(C - 1) : (h + d) % C = s
<1>1. CASE h <= s
  <2>1. (h + (s - h)) % C = s /\ s - h \in 0..(C - 1)
    BY <1>1
  <2> QED
    BY <2>1
<1>2. CASE s < h
  <2>1. (C * 1 + s) % C = s
    BY QuotientAndRemainder
  <2>2. h + (C - h + s) = C * 1 + s /\ C - h + s \in 0..(C - 1)
    BY <1>2
  <2> QED
    BY <2>1, <2>2
<1> QED
  BY <1>1, <1>2

-----------------------------------------------------------------------------
(* Buckets and probes *)

(* Records have the connection's descriptor for key and for value.         *)
Buckets ==
  {Table!Free, Table!Tombstone} \cup {Table!Occupied(k, k) : k \in Nat}

Tables(C) == [memory : [0..(C - 1) -> Buckets], count : Nat]

(* The d-th bucket a probe for fd looks at, any number of turns around the *)
(* table.                                                                  *)
Probed(C, fd, d) == (HashHash(fd, C) + d) % C

UsedIn(t) == {s \in DOMAIN t.memory : t.memory[s].occupied # 0}

HeldIn(t) == {s \in DOMAIN t.memory : t.memory[s].occupied = 1}

KeysOf(t) == {t.memory[s].key : s \in HeldIn(t)}

(* No free bucket stops a probe for fd before it comes to slot.            *)
Reaches(t, C, fd, slot) ==
  \E d \in Nat :
    /\ slot = Probed(C, fd, d)
    /\ \A e \in 0..d : t.memory[Probed(C, fd, e)].occupied # 0

LEMMA BucketFacts ==
  /\ Table!Free \in Buckets /\ Table!Free.occupied = 0
  /\ Table!Tombstone \in Buckets /\ Table!Tombstone.occupied = 2
  /\ \A k \in Nat : /\ Table!Occupied(k, k) \in Buckets
                    /\ Table!Occupied(k, k).occupied = 1
                    /\ Table!Occupied(k, k).key = k
                    /\ Table!Occupied(k, k).value = k
  /\ \A b \in Buckets : /\ b.occupied \in {0, 1, 2}
                        /\ b.occupied = 1 => b.key \in Nat /\ b.value = b.key
<1>1. Table!Free \in Buckets /\ Table!Free.occupied = 0
  BY DEF Buckets, Table!Free
<1>2. Table!Tombstone \in Buckets /\ Table!Tombstone.occupied = 2
  BY DEF Buckets, Table!Tombstone
<1>3. ASSUME NEW k \in Nat
      PROVE  /\ Table!Occupied(k, k) \in Buckets
             /\ Table!Occupied(k, k).occupied = 1
             /\ Table!Occupied(k, k).key = k
             /\ Table!Occupied(k, k).value = k
  <2>1. Table!Occupied(k, k) \in Buckets
    BY Zenon DEF Buckets
  <2> QED
    BY <2>1 DEF Table!Occupied
<1>4. ASSUME NEW b \in Buckets
      PROVE  /\ b.occupied \in {0, 1, 2}
             /\ b.occupied = 1 => b.key \in Nat /\ b.value = b.key
  <2>1. b = Table!Free \/ b = Table!Tombstone \/ \E k \in Nat : b = Table!Occupied(k, k)
    BY Zenon DEF Buckets
  <2> QED
    BY <1>1, <1>2, <1>3, <2>1
<1> QED
  BY <1>1, <1>2, <1>3, <1>4

LEMMA HashFacts ==
  ASSUME AndBound, NEW C \in Nat \ {0}, NEW fd \in Nat
  PROVE  HashHash(fd, C) \in 0..(C - 1)
<1>1. C - 1 \in Nat /\ 5381 * 33 * 33 * 33 + fd * 33 * 33 \in Nat
  OBVIOUS
<1> QED
  BY <1>1 DEF AndBound, HashHash

LEMMA ProbedFacts ==
  ASSUME AndBound, NEW C \in Nat \ {0}, NEW fd \in Nat
  PROVE  /\ \A d \in Nat : /\ Probed(C, fd, d) \in 0..(C - 1)
                           /\ d % C \in 0..(C - 1) /\ d % C <= d
                           /\ Probed(C, fd, d % C) = Probed(C, fd, d)
         /\ \A s \in 0..(C - 1) : \E d \in 0..(C - 1) : Probed(C, fd, d) = s
<1> DEFINE h == HashHash(fd, C)
<1>1. h \in 0..(C - 1)
  BY HashFacts
<1> HIDE DEF h
<1>2. \A d \in Nat : Probed(C, fd, d) = (h + d) % C
  BY DEF Probed, h
<1>3. ASSUME NEW d \in Nat
      PROVE  /\ Probed(C, fd, d) \in 0..(C - 1)
             /\ d % C \in 0..(C - 1) /\ d % C <= d
             /\ Probed(C, fd, d % C) = Probed(C, fd, d)
  <2>1. d % C \in 0..(C - 1)
    BY Division
  <2>2. d % C <= d
    <3>1. PICK q \in Nat : d = C * q + (d % C)
      BY Division
    <3>2. C * q \in Nat
      OBVIOUS
    <3> QED
      BY <2>1, <3>1, <3>2
  <2>3. (h + d) % C \in 0..(C - 1)
    <3>1. h + d \in Nat
      BY <1>1
    <3> QED
      BY <3>1, Division
  <2>4. ((d % C) + h) % C = (d + h) % C
    <3>1. h \in Nat
      BY <1>1
    <3> QED
      BY <3>1, RemainderOfSum
  <2>5. h + d = d + h /\ (d % C) + h = h + (d % C) /\ d % C \in Nat
    BY <1>1, <2>1
  <2> QED
    BY <1>2, <2>1, <2>2, <2>3, <2>4, <2>5
<1>4. ASSUME NEW s \in 0..(C - 1)
      PROVE  \E d \in 0..(C - 1) : Probed(C, fd, d) = s
  <2>1. PICK d \in 0..(C - 1) : (h + d) % C = s
    BY <1>1, EveryBucketIsProbed
  <2>2. d \in Nat
    OBVIOUS
  <2> QED
    BY <1>2, <2>1, <2>2
<1> QED
  BY <1>3, <1>4

(* Two probes that meet go on together. *)
LEMMA SameWay ==
  ASSUME AndBound, NEW C \in Nat \ {0}, NEW a \in Nat, NEW b \in Nat,
         NEW f \in Nat, NEW d \in Nat, Probed(C, a, f) = Probed(C, b, d)
  PROVE  \A i \in Nat : Probed(C, a, f + i) = Probed(C, b, d + i)
<1>1. ASSUME NEW x \in Nat, NEW n \in Nat, NEW i \in Nat
      PROVE  Probed(C, x, n + i) = (Probed(C, x, n) + i) % C
  <2>1. HashHash(x, C) \in Nat
    BY HashFacts
  <2>2. HashHash(x, C) + n \in Nat
    BY <2>1
  <2>3. (((HashHash(x, C) + n) % C) + i) % C = ((HashHash(x, C) + n) + i) % C
    BY <2>2, RemainderOfSum
  <2>4. (HashHash(x, C) + n) + i = HashHash(x, C) + (n + i)
    BY <2>1
  <2> QED
    BY <2>3, <2>4 DEF Probed
<1> TAKE i \in Nat
<1>2. Probed(C, a, f + i) = (Probed(C, a, f) + i) % C
  BY <1>1
<1>3. Probed(C, b, d + i) = (Probed(C, b, d) + i) % C
  BY <1>1
<1> QED
  BY <1>2, <1>3

LEMMA TableFacts ==
  ASSUME NEW C \in Nat \ {0}, NEW t \in Tables(C)
  PROVE  /\ DOMAIN t.memory = 0..(C - 1)
         /\ t.memory \in [0..(C - 1) -> Buckets] /\ t.count \in Nat
         /\ \A s \in 0..(C - 1) : t.memory[s].occupied \in {0, 1, 2}
         /\ \A s \in HeldIn(t) : t.memory[s].key \in Nat /\ t.memory[s].value = t.memory[s].key
         /\ Table!Capacity(t) = C
         /\ Table!MaxFill(t) = (C * 85) \div 100
         /\ IsFiniteSet(UsedIn(t)) /\ Cardinality(UsedIn(t)) \in Nat
         /\ IsFiniteSet(HeldIn(t)) /\ Cardinality(HeldIn(t)) \in Nat
         /\ HeldIn(t) \subseteq UsedIn(t) /\ Cardinality(HeldIn(t)) <= Cardinality(UsedIn(t))
<1>1. DOMAIN t.memory = 0..(C - 1) /\ t.memory \in [0..(C - 1) -> Buckets] /\ t.count \in Nat
  BY DEF Tables
<1>2. \A s \in 0..(C - 1) : t.memory[s].occupied \in {0, 1, 2}
  BY <1>1, BucketFacts
<1>10. \A s \in HeldIn(t) : t.memory[s].key \in Nat /\ t.memory[s].value = t.memory[s].key
  BY <1>1, BucketFacts DEF HeldIn
<1>3. IsFiniteSet(0..(C - 1)) /\ Cardinality(0..(C - 1)) = C
  BY FS_Interval
<1>4. Table!Capacity(t) = C
  BY <1>1, <1>3 DEF Table!Capacity, Table!Cardinality, Cardinality
<1>5. Table!MaxFill(t) = (C * 85) \div 100
  BY <1>4 DEF Table!MaxFill
<1>6. UsedIn(t) \subseteq 0..(C - 1) /\ HeldIn(t) \subseteq UsedIn(t)
  BY <1>1 DEF UsedIn, HeldIn
<1>7. IsFiniteSet(UsedIn(t))
  BY <1>3, <1>6, FS_Subset
<1>8. IsFiniteSet(HeldIn(t)) /\ Cardinality(HeldIn(t)) <= Cardinality(UsedIn(t))
  BY <1>6, <1>7, FS_Subset
<1>9. Cardinality(UsedIn(t)) \in Nat /\ Cardinality(HeldIn(t)) \in Nat
  BY <1>7, <1>8, FS_CardinalityType
<1> QED
  BY <1>1, <1>2, <1>4, <1>5, <1>6, <1>7, <1>8, <1>9, <1>10

LEMMA FillFacts ==
  ASSUME NEW C \in Nat \ {0}
  PROVE  /\ (C * 85) \div 100 \in Nat
         /\ (C * 85) \div 100 < C
         /\ (C * 85) \div 100 + 1 <= (2 * C * 85) \div 100
OBVIOUS

(* A table below its limit has a free bucket.                              *)
LEMMA FreeBucket ==
  ASSUME NEW C \in Nat \ {0}, NEW t \in Tables(C), Cardinality(UsedIn(t)) < C
  PROVE  \E s \in 0..(C - 1) : t.memory[s].occupied = 0
<1>1. IsFiniteSet(0..(C - 1)) /\ Cardinality(0..(C - 1)) = C
  BY FS_Interval
<1>2. UsedIn(t) # 0..(C - 1)
  BY <1>1, TableFacts
<1> QED
  BY <1>2, TableFacts DEF UsedIn

(* Where hash_table_add puts a record: in a bucket without one, which a    *)
(* probe for the fd reaches.                                          *)
LEMMA PlaceFacts ==
  ASSUME AndBound, NEW C \in Nat \ {0}, NEW t \in Tables(C), Cardinality(UsedIn(t)) < C,
         NEW fd \in Nat
  PROVE  \E s \in 0..(C - 1) :
           /\ t.memory[s].occupied # 1
           /\ Table!Place(t, fd, fd) =
                [memory |-> [t.memory EXCEPT ![s] = Table!Occupied(fd, fd)],
                 count |-> t.count + 1]
           /\ \E d \in Nat :
                /\ s = Probed(C, fd, d)
                /\ \A e \in 0..(d - 1) : t.memory[Probed(C, fd, e)].occupied = 1
<1> DEFINE open == {d \in 0..(C - 1) : t.memory[Probed(C, fd, d)].occupied # 1}
           s == Probed(C, fd, Min(open))
<1>1. PICK f \in 0..(C - 1) : t.memory[f].occupied = 0
  BY FreeBucket
<1>2. PICK d0 \in 0..(C - 1) : Probed(C, fd, d0) = f
  BY ProbedFacts
<1>3. d0 \in open
  BY <1>1, <1>2
<1>4. open \subseteq Nat /\ open # {}
  BY <1>3
<1>5. Min(open) \in open /\ \A y \in open : Min(open) <= y
  BY <1>4, MinFacts
<1>6. Table!Place(t, fd, fd) =
                [memory |-> [t.memory EXCEPT ![s] = Table!Occupied(fd, fd)],
                 count |-> t.count + 1]
  <2>1. Table!Capacity(t) = C
    BY TableFacts
  <2>2. Table!Min(open) = Min(open)
    BY DEF Table!Min, Min
  <2>3. open = {d \in 0..(C - 1) : t.memory[(HashHash(fd, C) + d) % C].occupied # 1}
    BY DEF Probed
  <2>4. s = (HashHash(fd, C) + Table!Min(open)) % C
    BY <2>2 DEF Probed
  <2> HIDE DEF open, s
  <2> QED
    BY <2>1, <2>3, <2>4 DEF Table!Place
<1> DEFINE d == Min(open)
<1>7. d \in Nat /\ d \in 0..(C - 1) /\ t.memory[Probed(C, fd, d)].occupied # 1
  BY <1>5
<1>8. ASSUME NEW e \in 0..(d - 1) PROVE t.memory[Probed(C, fd, e)].occupied = 1
  <2>1. e \in 0..(C - 1) /\ ~(d <= e)
    BY <1>7
  <2> QED
    BY <1>5, <2>1
<1>9. s \in 0..(C - 1)
  BY <1>7, ProbedFacts
<1> QED
  BY <1>6, <1>7, <1>8, <1>9

(* Where a lookup stops: at the first bucket that is no tombstone.         *)
LEMMA ProbeFacts ==
  ASSUME AndBound, NEW C \in Nat \ {0}, NEW t \in Tables(C), Cardinality(UsedIn(t)) < C,
         NEW fd \in Nat
  PROVE  \E d \in 0..(C - 1) :
           /\ Table!Probe(t, fd) = Probed(C, fd, d)
           /\ t.memory[Probed(C, fd, d)].occupied # 2
           /\ \A e \in 0..(C - 1) :
                t.memory[Probed(C, fd, e)].occupied # 2 => d <= e
<1> DEFINE stops == {d \in 0..(C - 1) : t.memory[Probed(C, fd, d)].occupied # 2}
<1>1. PICK f \in 0..(C - 1) : t.memory[f].occupied = 0
  BY FreeBucket
<1>2. PICK d0 \in 0..(C - 1) : Probed(C, fd, d0) = f
  BY ProbedFacts
<1>3. d0 \in stops
  BY <1>1, <1>2
<1>4. stops \subseteq Nat /\ stops # {}
  BY <1>3
<1>5. Min(stops) \in stops /\ \A y \in stops : Min(stops) <= y
  BY <1>4, MinFacts
<1>6. Table!Stops(t, fd) = stops
  <2>1. \A b : Table!HashCompare(b, fd) <=> b.occupied = 2
    BY DEF Table!HashCompare, KeyLength
  <2> QED
    BY <2>1, TableFacts DEF Table!Stops, Probed
<1>7. Table!Probe(t, fd) = Probed(C, fd, Min(stops))
  <2>1. Table!Min(stops) = Min(stops)
    BY DEF Table!Min, Min
  <2> QED
    BY <1>6, <2>1, TableFacts DEF Table!Probe, Table!Slot, Probed
<1> QED
  BY <1>5, <1>7

(* A lookup whose way to a record is not cut off finds one, and what it    *)
(* finds is on that way.                                                   *)
LEMMA FoundOnTheWay ==
  ASSUME AndBound, NEW C \in Nat \ {0}, NEW t \in Tables(C), Cardinality(UsedIn(t)) < C,
         NEW fd \in Nat,
         NEW slot \in HeldIn(t), Reaches(t, C, fd, slot)
  PROVE  /\ Table!Probe(t, fd) \in HeldIn(t)
         /\ \E d \in Nat, k \in Nat :
              /\ Table!Probe(t, fd) = Probed(C, fd, d)
              /\ slot = Probed(C, fd, d + k)
              /\ \A e \in 0..(d + k) : t.memory[Probed(C, fd, e)].occupied # 0
<1>1. PICK g \in Nat :
        /\ slot = Probed(C, fd, g)
        /\ \A e \in 0..g : t.memory[Probed(C, fd, e)].occupied # 0
  BY DEF Reaches
<1>2. PICK d \in 0..(C - 1) :
        /\ Table!Probe(t, fd) = Probed(C, fd, d)
        /\ t.memory[Probed(C, fd, d)].occupied # 2
        /\ \A e \in 0..(C - 1) :
             t.memory[Probed(C, fd, e)].occupied # 2 => d <= e
  BY ProbeFacts
<1>3. g % C \in 0..(C - 1) /\ g % C <= g /\ Probed(C, fd, g % C) = slot
  BY <1>1, ProbedFacts
<1>4. t.memory[slot].occupied = 1
  BY DEF HeldIn
<1>5. d <= g
  <2>1. d <= g % C
    BY <1>2, <1>3, <1>4
  <2> QED
    BY <1>3, <2>1
<1>6. t.memory[Probed(C, fd, d)].occupied # 0
  BY <1>1, <1>5
<1>7. Probed(C, fd, d) \in 0..(C - 1) /\ d \in Nat
  <2>1. d \in Nat
    OBVIOUS
  <2> QED
    BY <2>1, ProbedFacts
<1>8. Table!Probe(t, fd) \in HeldIn(t)
  <2>1. DOMAIN t.memory = 0..(C - 1)
        /\ \A s \in 0..(C - 1) : t.memory[s].occupied \in {0, 1, 2}
    BY TableFacts
  <2>2. t.memory[Probed(C, fd, d)].occupied = 1
    BY <1>2, <1>6, <1>7, <2>1
  <2> QED
    BY <1>2, <1>7, <2>1, <2>2 DEF HeldIn
<1>9. PICK k \in Nat : d + k = g
  <2>1. g - d \in Nat /\ d + (g - d) = g
    BY <1>5, <1>7
  <2> QED
    BY <2>1
<1>10. /\ slot = Probed(C, fd, d + k)
       /\ \A e \in 0..(d + k) : t.memory[Probed(C, fd, e)].occupied # 0
  BY Zenon, <1>1, <1>9
<1> QED
  BY Zenon, <1>2, <1>7, <1>8, <1>10

-----------------------------------------------------------------------------
(* Records for connections *)

(* Every descriptor has a record of its own on the way of its probes.  It  *)
(* need not be the one a lookup finds, nor the one that was added for it.  *)
Paired(t, C, fds) ==
  \E m \in [fds -> HeldIn(t)] :
    /\ \A a, b \in fds : a # b => m[a] # m[b]
    /\ \A a \in fds : Reaches(t, C, a, m[a])

(* No two records have one key.                                            *)
Distinct(t) ==
  \A s, r \in HeldIn(t) : t.memory[s].key = t.memory[r].key => s = r

(* Every record is on the way of its own key; every record is in the first *)
(* bucket of its key.                                                      *)
Rooted(t, C) == \A s \in HeldIn(t) : Reaches(t, C, t.memory[s].key, s)

AtHome(t, C) == \A s \in HeldIn(t) : s = Probed(C, t.memory[s].key, 0)

Apart(fds, C) == \A a, b \in fds : Probed(C, a, 0) = Probed(C, b, 0) => a = b

(* Buckets that do not become free cut off no probe.                       *)
LEMMA ReachesKept ==
  ASSUME AndBound, NEW C \in Nat \ {0}, NEW t, NEW u, NEW a \in Nat, NEW s,
         Reaches(t, C, a, s),
         \A i \in 0..(C - 1) : t.memory[i].occupied # 0 => u.memory[i].occupied # 0
  PROVE  Reaches(u, C, a, s)
<1>1. PICK d \in Nat :
        /\ s = Probed(C, a, d)
        /\ \A e \in 0..d : t.memory[Probed(C, a, e)].occupied # 0
  BY DEF Reaches
<1>2. ASSUME NEW e \in 0..d PROVE u.memory[Probed(C, a, e)].occupied # 0
  <2>1. Probed(C, a, e) \in 0..(C - 1)
    <3>1. e \in Nat
      OBVIOUS
    <3> QED
      BY <3>1, ProbedFacts
  <2> QED
    BY <1>1, <2>1
<1> QED
  BY <1>1, <1>2 DEF Reaches

(* What adding a record does. *)
LEMMA AddFacts ==
  ASSUME AndBound, NEW C \in Nat \ {0}, NEW t \in Tables(C), Cardinality(UsedIn(t)) < C,
         NEW fd \in Nat,
         NEW u, u = Table!Place(t, fd, fd)
  PROVE  /\ u \in Tables(C)
         /\ u.count = t.count + 1
         /\ Cardinality(UsedIn(u)) <= Cardinality(UsedIn(t)) + 1
         /\ Cardinality(HeldIn(u)) = Cardinality(HeldIn(t)) + 1
         /\ \E s \in 0..(C - 1) :
              /\ s \notin HeldIn(t) /\ HeldIn(u) = HeldIn(t) \cup {s}
              /\ u.memory[s].key = fd /\ Reaches(u, C, fd, s)
              /\ \A i \in HeldIn(t) : u.memory[i] = t.memory[i]
              /\ t.memory[Probed(C, fd, 0)].occupied # 1 => s = Probed(C, fd, 0)
         /\ \A a \in Nat : \A i : Reaches(t, C, a, i) => Reaches(u, C, a, i)
         /\ \A L \in SUBSET Nat :
              fd \notin L /\ Paired(t, C, L) => Paired(u, C, L \cup {fd})
<1>1. PICK s \in 0..(C - 1) :
        /\ t.memory[s].occupied # 1
        /\ u = [memory |-> [t.memory EXCEPT ![s] = Table!Occupied(fd, fd)],
                count |-> t.count + 1]
        /\ \E d \in Nat :
             /\ s = Probed(C, fd, d)
             /\ \A e \in 0..(d - 1) : t.memory[Probed(C, fd, e)].occupied = 1
  BY PlaceFacts
<1> DEFINE b == Table!Occupied(fd, fd)
<1>2. b \in Buckets /\ b.occupied = 1 /\ b.key = fd
  BY BucketFacts
<1> HIDE DEF b
<1>3. /\ DOMAIN t.memory = 0..(C - 1) /\ t.memory \in [0..(C - 1) -> Buckets]
      /\ t.count \in Nat
  BY TableFacts
<1>4. u = [memory |-> [t.memory EXCEPT ![s] = b], count |-> t.count + 1]
  BY <1>1 DEF b
<1>5. u \in Tables(C) /\ u.count = t.count + 1
  BY <1>2, <1>3, <1>4 DEF Tables
<1>6. /\ u.memory \in [0..(C - 1) -> Buckets] /\ DOMAIN u.memory = 0..(C - 1)
      /\ u.memory[s] = b
      /\ \A i \in 0..(C - 1) : i # s => u.memory[i] = t.memory[i]
  BY <1>2, <1>3, <1>4
<1>7. UsedIn(u) = UsedIn(t) \cup {s}
  BY <1>2, <1>3, <1>6 DEF UsedIn
<1>8. HeldIn(u) = HeldIn(t) \cup {s} /\ s \notin HeldIn(t)
  BY <1>1, <1>2, <1>3, <1>6 DEF HeldIn
<1>9. Cardinality(UsedIn(u)) <= Cardinality(UsedIn(t)) + 1
  <2>1. IsFiniteSet(UsedIn(t)) /\ Cardinality(UsedIn(t)) \in Nat
    BY TableFacts
  <2> QED
    BY <1>7, <2>1, FS_AddElement
<1>10. Cardinality(HeldIn(u)) = Cardinality(HeldIn(t)) + 1
  BY <1>8, TableFacts, FS_AddElement
<1>11. \A i \in 0..(C - 1) : t.memory[i].occupied # 0 => u.memory[i].occupied # 0
  BY <1>2, <1>6
<1>12. Reaches(u, C, fd, s)
  <2>1. PICK d \in Nat :
          /\ s = Probed(C, fd, d)
          /\ \A e \in 0..(d - 1) : t.memory[Probed(C, fd, e)].occupied = 1
    BY <1>1
  <2>2. ASSUME NEW e \in 0..d PROVE u.memory[Probed(C, fd, e)].occupied # 0
    <3>1. CASE e = d
      BY <1>2, <1>6, <2>1, <3>1
    <3>2. CASE e # d
      <4>1. e \in 0..(d - 1)
        BY <3>2
      <4>2. Probed(C, fd, e) \in 0..(C - 1)
        <5>1. e \in Nat
          OBVIOUS
        <5> QED
          BY <5>1, ProbedFacts
      <4> QED
        BY <1>11, <2>1, <4>1, <4>2
    <3> QED
      BY <3>1, <3>2
  <2> QED
    BY <2>1, <2>2 DEF Reaches
<1>13. ASSUME NEW L \in SUBSET Nat, fd \notin L, Paired(t, C, L)
       PROVE  Paired(u, C, L \cup {fd})
  <2>1. PICK m \in [L -> HeldIn(t)] :
          /\ \A a, c \in L : a # c => m[a] # m[c]
          /\ \A a \in L : Reaches(t, C, a, m[a])
    BY <1>13 DEF Paired
  <2> DEFINE n == [a \in L \cup {fd} |-> IF a = fd THEN s ELSE m[a]]
  <2>2. /\ n \in [L \cup {fd} -> HeldIn(u)]
        /\ n[fd] = s /\ \A a \in L : n[a] = m[a] /\ n[a] \in HeldIn(t)
    BY <1>8, <1>13
  <2> HIDE DEF n
  <2>3. \A a, c \in L \cup {fd} : a # c => n[a] # n[c]
    BY <1>8, <2>1, <2>2
  <2>4. ASSUME NEW a \in L \cup {fd} PROVE Reaches(u, C, a, n[a])
    <3>1. CASE a = fd
      BY <1>12, <2>2, <3>1
    <3>2. CASE a \in L
      <4>1. Reaches(t, C, a, n[a]) /\ a \in Nat
        BY <2>1, <2>2, <3>2
      <4> QED
        BY <1>11, <4>1, ReachesKept
    <3> QED
      BY <3>1, <3>2
  <2> QED
    BY <2>2, <2>3, <2>4 DEF Paired
<1>14. t.memory[Probed(C, fd, 0)].occupied # 1 => s = Probed(C, fd, 0)
  <2>1. PICK d \in Nat :
          /\ s = Probed(C, fd, d)
          /\ \A e \in 0..(d - 1) : t.memory[Probed(C, fd, e)].occupied = 1
    BY <1>1
  <2>2. d # 0 => 0 \in 0..(d - 1)
    OBVIOUS
  <2> QED
    BY <2>1, <2>2
<1>15. \A i \in HeldIn(t) : u.memory[i] = t.memory[i]
  BY <1>3, <1>6, <1>8 DEF HeldIn
<1>16. \A a \in Nat : \A i : Reaches(t, C, a, i) => Reaches(u, C, a, i)
  BY <1>11, ReachesKept
<1>17. u.memory[s].key = fd
  BY <1>2, <1>6
<1> QED
  BY <1>5, <1>8, <1>9, <1>10, <1>12, <1>13, <1>14, <1>15, <1>16, <1>17

(* What removing a record does.  The record found for an fd may be    *)
(* the one paired with another; that one gets the fd's own instead,   *)
(* which lies further on the same way.                                     *)
LEMMA RemoveFacts ==
  ASSUME AndBound, NEW C \in Nat \ {0}, NEW t \in Tables(C), Cardinality(UsedIn(t)) < C,
         NEW fd \in Nat,
         Table!Get(t, fd).occupied = 1,
         NEW u, u = Table!Remove(t, fd)
  PROVE  /\ u \in Tables(C)
         /\ u.count = t.count
         /\ Cardinality(UsedIn(u)) = Cardinality(UsedIn(t))
         /\ Cardinality(HeldIn(u)) = Cardinality(HeldIn(t)) - 1
         /\ HeldIn(u) = HeldIn(t) \ {Table!Probe(t, fd)}
         /\ \A i \in HeldIn(u) : u.memory[i] = t.memory[i]
         /\ \A L \in SUBSET Nat :
              fd \in L /\ Paired(t, C, L) => Paired(u, C, L \ {fd})
<1> DEFINE s == Table!Probe(t, fd)
<1>1. s \in 0..(C - 1) /\ t.memory[s].occupied = 1
  BY ProbeFacts, ProbedFacts DEF Table!Get
<1>2. u = [t EXCEPT !.memory = [@ EXCEPT ![s] = Table!Tombstone]]
  BY DEF Table!Remove
<1> HIDE DEF s
<1> DEFINE b == Table!Tombstone
<1>3. b \in Buckets /\ b.occupied = 2
  BY BucketFacts
<1>4. u = [t EXCEPT !.memory = [@ EXCEPT ![s] = b]]
  BY <1>2
<1> HIDE DEF b
<1>5. /\ DOMAIN t.memory = 0..(C - 1) /\ t.memory \in [0..(C - 1) -> Buckets]
      /\ t.count \in Nat
  BY TableFacts
<1>6. u.count = t.count /\ u.memory = [t.memory EXCEPT ![s] = b] /\ u \in Tables(C)
  BY <1>1, <1>3, <1>4, <1>5 DEF Tables
<1>7. /\ DOMAIN u.memory = 0..(C - 1)
      /\ u.memory[s] = b
      /\ \A i \in 0..(C - 1) : i # s => u.memory[i] = t.memory[i]
  BY <1>1, <1>3, <1>5, <1>6
<1>8. UsedIn(u) = UsedIn(t)
  BY <1>1, <1>3, <1>5, <1>7 DEF UsedIn
<1>9. HeldIn(u) = HeldIn(t) \ {s} /\ s \in HeldIn(t)
  BY <1>1, <1>3, <1>5, <1>7 DEF HeldIn
<1>10. Cardinality(HeldIn(u)) = Cardinality(HeldIn(t)) - 1
  BY <1>9, TableFacts, FS_RemoveElement
<1>11. \A i \in 0..(C - 1) : t.memory[i].occupied # 0 => u.memory[i].occupied # 0
  BY <1>1, <1>3, <1>7
<1>12. ASSUME NEW L \in SUBSET Nat, fd \in L, Paired(t, C, L)
       PROVE  Paired(u, C, L \ {fd})
  <2>1. PICK m \in [L -> HeldIn(t)] :
          /\ \A a, c \in L : a # c => m[a] # m[c]
          /\ \A a \in L : Reaches(t, C, a, m[a])
    BY <1>12 DEF Paired
  <2> DEFINE own == m[fd]
             n == [a \in L \ {fd} |-> IF m[a] = s THEN own ELSE m[a]]
  <2>2. own \in HeldIn(t) /\ Reaches(t, C, fd, own)
    BY <1>12, <2>1
  <2>3. ASSUME NEW a \in L \ {fd}
        PROVE  n[a] \in HeldIn(u) /\ n[a] = IF m[a] = s THEN own ELSE m[a]
    BY <1>9, <1>12, <2>1
  <2>4. n \in [L \ {fd} -> HeldIn(u)]
    BY <2>3
  <2>5. \A a, c \in L \ {fd} : a # c => n[a] # n[c]
    BY <1>12, <2>1, <2>3
  <2> HIDE DEF n
  <2>6. ASSUME NEW a \in L \ {fd} PROVE Reaches(t, C, a, n[a])
    <3>1. CASE m[a] # s
      BY <2>1, <2>3, <3>1
    <3>2. CASE m[a] = s
      <4>1. PICK f \in Nat :
              /\ s = Probed(C, a, f)
              /\ \A e \in 0..f : t.memory[Probed(C, a, e)].occupied # 0
        BY <2>1, <3>2 DEF Reaches
      <4>2. PICK d \in Nat, k \in Nat :
              /\ s = Probed(C, fd, d)
              /\ own = Probed(C, fd, d + k)
              /\ \A e \in 0..(d + k) : t.memory[Probed(C, fd, e)].occupied # 0
        BY <2>2, FoundOnTheWay DEF s
      <4>3. \A i \in Nat : Probed(C, a, f + i) = Probed(C, fd, d + i)
        <5>1. Probed(C, a, f) = Probed(C, fd, d) /\ a \in Nat
          BY <4>1, <4>2
        <5> QED
          BY <5>1, SameWay
      <4>4. own = Probed(C, a, f + k) /\ f + k \in Nat
        BY <4>2, <4>3
      <4>5. ASSUME NEW e \in 0..(f + k) PROVE t.memory[Probed(C, a, e)].occupied # 0
        <5>1. CASE e <= f
          BY <4>1, <5>1
        <5>2. CASE e > f
          <6>1. e - f \in Nat /\ f + (e - f) = e /\ d + (e - f) \in 0..(d + k)
            BY <5>2
          <6>2. Probed(C, a, e) = Probed(C, fd, d + (e - f))
            BY <4>3, <6>1
          <6> QED
            BY <4>2, <6>1, <6>2
        <5> QED
          BY <5>1, <5>2
      <4> QED
        BY <2>3, <3>2, <4>4, <4>5 DEF Reaches
    <3> QED
      BY <3>1, <3>2
  <2>7. ASSUME NEW a \in L \ {fd} PROVE Reaches(u, C, a, n[a])
    <3>1. a \in Nat
      OBVIOUS
    <3> QED
      BY <1>11, <2>6, <3>1, ReachesKept
  <2> QED
    BY <2>4, <2>5, <2>7 DEF Paired
<1>13. \A i \in HeldIn(u) : u.memory[i] = t.memory[i]
  BY <1>7, <1>9 DEF HeldIn
<1> QED
  BY <1>6, <1>8, <1>9, <1>10, <1>12, <1>13 DEF s

-----------------------------------------------------------------------------
(* Growing *)

(* The first n buckets of the table t copied to one of twice the capacity. *)
CopyBucket(t, x, n) ==
  IF t.memory[n - 1].occupied = 1
  THEN Table!Place(x, t.memory[n - 1].key, t.memory[n - 1].value)
  ELSE x

Copies(t, C, n, f) ==
  f = [m \in 0..n |-> IF m = 0 THEN Table!Alloc(2 * C)
                      ELSE CopyBucket(t, f[m - 1], m)]

LEMMA CopiesExist ==
  ASSUME NEW t, NEW C
  PROVE  \A n \in Nat : \E f : Copies(t, C, n, f)
<1> DEFINE S == {n \in Nat : \E f : Copies(t, C, n, f)}
<1>1. 0 \in S
  <2> DEFINE f == [m \in 0..0 |-> Table!Alloc(2 * C)]
  <2>1. f = [m \in 0..0 |-> IF m = 0 THEN Table!Alloc(2 * C)
                            ELSE CopyBucket(t, f[m - 1], m)]
    OBVIOUS
  <2>2. Copies(t, C, 0, f)
    BY <2>1 DEF Copies
  <2> QED
    BY <2>2
<1>2. ASSUME NEW n \in Nat, n \in S PROVE n + 1 \in S
  <2>1. PICK f : Copies(t, C, n, f)
    BY <1>2
  <2> DEFINE g == [m \in 0..(n + 1) |-> IF m = n + 1 THEN CopyBucket(t, f[n], n + 1)
                                        ELSE f[m]]
  <2>2. ASSUME NEW m \in 0..n
        PROVE  f[m] = IF m = 0 THEN Table!Alloc(2 * C) ELSE CopyBucket(t, f[m - 1], m)
    BY <2>1 DEF Copies
  <2>3. ASSUME NEW m \in 0..(n + 1)
        PROVE  g[m] = IF m = 0 THEN Table!Alloc(2 * C) ELSE CopyBucket(t, g[m - 1], m)
    <3>1. CASE m = n + 1
      <4>1. m - 1 = n /\ m - 1 \in 0..(n + 1) /\ m - 1 # n + 1 /\ m # 0
        BY <3>1
      <4>2. g[m - 1] = f[n]
        BY <4>1
      <4> QED
        BY <3>1, <4>1, <4>2
    <3>2. CASE m # n + 1
      <4>1. m \in 0..n /\ g[m] = f[m]
        BY <3>2
      <4>2. CASE m = 0
        BY <2>2, <4>1, <4>2
      <4>3. CASE m # 0
        <5>1. m - 1 \in 0..n /\ m - 1 \in 0..(n + 1) /\ m - 1 # n + 1
          BY <4>1, <4>3
        <5>2. g[m - 1] = f[m - 1]
          BY <5>1
        <5> HIDE DEF g
        <5> QED
          BY <2>2, <4>1, <4>3, <5>2
      <4> QED
        BY <4>2, <4>3
    <3> QED
      BY <3>1, <3>2
  <2>4. DOMAIN g = 0..(n + 1) /\ g = [m \in 0..(n + 1) |-> g[m]]
    OBVIOUS
  <2> HIDE DEF g
  <2>5. Copies(t, C, n + 1, g)
    BY <2>3, <2>4 DEF Copies
  <2> QED
    BY <2>5
<1> HIDE DEF S
<1>3. Nat \subseteq S
  BY <1>1, <1>2, Induction
<1> QED
  BY <1>3 DEF S

LEMMA ExpandFacts ==
  ASSUME NEW C \in Nat \ {0}, NEW t \in Tables(C)
  PROVE  \E f : Copies(t, C, C, f) /\ Table!Expand(t) = f[C]
<1>1. Table!Capacity(t) = C
  BY TableFacts
<1> DEFINE F == CHOOSE f : Copies(t, C, C, f)
<1>2. Copies(t, C, C, F)
  <2>1. \E f : Copies(t, C, C, f)
    BY CopiesExist
  <2> QED
    BY Zenon, <2>1
<1>3. Table!Expand(t) = F[C]
  BY <1>1 DEF Table!Expand, Copies, CopyBucket
<1> QED
  BY <1>2, <1>3

LEMMA AllocFacts ==
  ASSUME NEW C \in Nat \ {0}, NEW t, t = Table!Alloc(C)
  PROVE  /\ t \in Tables(C) /\ t.count = 0 /\ HeldIn(t) = {} /\ UsedIn(t) = {}
         /\ Cardinality(HeldIn(t)) = 0 /\ Cardinality(UsedIn(t)) = 0
<1> DEFINE f == Table!Free
<1>1. f \in Buckets /\ f.occupied = 0
  BY BucketFacts
<1>2. t = [memory |-> [s \in 0..(C - 1) |-> f], count |-> 0]
  BY DEF Table!Alloc
<1> HIDE DEF f
<1>3. t \in Tables(C) /\ t.count = 0
  BY <1>1, <1>2 DEF Tables
<1>4. HeldIn(t) = {} /\ UsedIn(t) = {}
  BY <1>1, <1>2 DEF HeldIn, UsedIn
<1> QED
  BY <1>3, <1>4, FS_EmptySet

(* A record more, for a key that no record has yet.                        *)
LEMMA AddKeys ==
  ASSUME AndBound, NEW C \in Nat \ {0}, NEW t \in Tables(C), Cardinality(UsedIn(t)) < C,
         NEW fd \in Nat, fd \notin KeysOf(t), Distinct(t),
         NEW u, u = Table!Place(t, fd, fd)
  PROVE  /\ KeysOf(u) = KeysOf(t) \cup {fd}
         /\ Distinct(u)
         /\ Rooted(t, C) => Rooted(u, C)
         /\ AtHome(t, C) /\ Apart(KeysOf(t) \cup {fd}, C) => AtHome(u, C)
<1>1. PICK s \in 0..(C - 1) :
              /\ s \notin HeldIn(t) /\ HeldIn(u) = HeldIn(t) \cup {s}
              /\ u.memory[s].key = fd /\ Reaches(u, C, fd, s)
              /\ \A i \in HeldIn(t) : u.memory[i] = t.memory[i]
              /\ t.memory[Probed(C, fd, 0)].occupied # 1 => s = Probed(C, fd, 0)
  BY AddFacts
<1>2. \A i \in HeldIn(t) : t.memory[i].key \in Nat /\ t.memory[i].key \in KeysOf(t)
  BY TableFacts DEF KeysOf
<1>3. KeysOf(u) = KeysOf(t) \cup {fd}
  BY <1>1 DEF KeysOf
<1>4. Distinct(u)
  <2>1. ASSUME NEW i \in HeldIn(u), NEW j \in HeldIn(u), u.memory[i].key = u.memory[j].key
        PROVE  i = j
    <3>1. CASE i = s /\ j = s
      BY <3>1
    <3>2. CASE i \in HeldIn(t) /\ j \in HeldIn(t)
      BY <1>1, <2>1, <3>2 DEF Distinct
    <3>3. CASE i = s /\ j \in HeldIn(t)
      BY <1>1, <1>2, <2>1, <3>3
    <3>4. CASE i \in HeldIn(t) /\ j = s
      BY <1>1, <1>2, <2>1, <3>4
    <3> QED
      BY <1>1, <3>1, <3>2, <3>3, <3>4
  <2> QED
    BY <2>1 DEF Distinct
<1>5. ASSUME Rooted(t, C) PROVE Rooted(u, C)
  <2>1. \A a \in Nat : \A i : Reaches(t, C, a, i) => Reaches(u, C, a, i)
    BY AddFacts, Zenon
  <2>2. ASSUME NEW i \in HeldIn(u) PROVE Reaches(u, C, u.memory[i].key, i)
    <3>1. CASE i = s
      BY <1>1, <3>1
    <3>2. CASE i \in HeldIn(t)
      <4>1. Reaches(t, C, t.memory[i].key, i) /\ u.memory[i] = t.memory[i]
        BY <1>1, <1>5, <3>2 DEF Rooted
      <4> QED
        BY <1>2, <2>1, <3>2, <4>1
    <3> QED
      BY <1>1, <3>1, <3>2
  <2> QED
    BY <2>2 DEF Rooted
<1>6. ASSUME AtHome(t, C), Apart(KeysOf(t) \cup {fd}, C) PROVE AtHome(u, C)
  <2> DEFINE home == Probed(C, fd, 0)
  <2>1. home \in 0..(C - 1)
    BY ProbedFacts
  <2>2. t.memory[home].occupied # 1
    <3>1. SUFFICES ASSUME t.memory[home].occupied = 1 PROVE FALSE
      OBVIOUS
    <3>2. home \in HeldIn(t)
      BY <2>1, <3>1, TableFacts DEF HeldIn
    <3> HIDE DEF home
    <3>3. home = Probed(C, t.memory[home].key, 0) /\ t.memory[home].key \in KeysOf(t)
      BY <1>2, <1>6, <3>2 DEF AtHome
    <3>4. t.memory[home].key = fd
      BY <1>6, <3>3 DEF Apart, home
    <3> QED
      BY <3>3, <3>4
  <2> QED
    BY <1>1, <1>6, <2>2 DEF AtHome
<1> QED
  BY <1>3, <1>4, <1>5, <1>6

(* hash_table_expand: the records are kept, each on the way of its key.    *)
LEMMA ExpandKeys ==
  ASSUME AndBound, NEW C \in Nat \ {0}, NEW t \in Tables(C), Distinct(t),
         NEW u, u = Table!Expand(t)
  PROVE  /\ u \in Tables(2 * C)
         /\ u.count = Cardinality(HeldIn(t)) /\ Cardinality(UsedIn(u)) <= u.count
         /\ Cardinality(HeldIn(u)) = Cardinality(HeldIn(t))
         /\ KeysOf(u) = KeysOf(t) /\ Distinct(u) /\ Rooted(u, 2 * C)
         /\ Apart(KeysOf(t), 2 * C) => AtHome(u, 2 * C)
<1> DEFINE D == 2 * C
           Below(n) == {s \in HeldIn(t) : s < n}
           Keys(n) == {t.memory[s].key : s \in Below(n)}
<1>1. D \in Nat \ {0} /\ C < D
  OBVIOUS
<1>2. PICK f : Copies(t, C, C, f) /\ u = f[C]
  BY ExpandFacts
<1>3. \A n \in 0..C : f[n] = IF n = 0 THEN Table!Alloc(D) ELSE CopyBucket(t, f[n - 1], n)
  BY <1>2 DEF Copies
<1> HIDE DEF D
<1>4. /\ HeldIn(t) \subseteq 0..(C - 1) /\ IsFiniteSet(HeldIn(t))
      /\ IsFiniteSet(0..(C - 1)) /\ Cardinality(0..(C - 1)) = C
      /\ \A s \in HeldIn(t) : t.memory[s].key \in Nat /\ t.memory[s].value = t.memory[s].key
  <2>1. IsFiniteSet(0..(C - 1)) /\ Cardinality(0..(C - 1)) = C
    BY FS_Interval
  <2>2. HeldIn(t) \subseteq 0..(C - 1)
    BY TableFacts DEF HeldIn
  <2> QED
    BY <2>1, <2>2, TableFacts
<1>5. ASSUME NEW n \in Nat
      PROVE  /\ IsFiniteSet(Below(n)) /\ Cardinality(Below(n)) \in Nat
             /\ Cardinality(Below(n)) <= C
  <2>1. Below(n) \subseteq HeldIn(t) /\ Below(n) \subseteq 0..(C - 1)
    BY <1>4
  <2> HIDE DEF Below
  <2> QED
    BY <1>4, <2>1, FS_Subset, FS_CardinalityType
<1> DEFINE Copied(n) ==
             /\ f[n] \in Tables(D)
             /\ f[n].count = Cardinality(Below(n))
             /\ Cardinality(UsedIn(f[n])) <= f[n].count
             /\ Cardinality(HeldIn(f[n])) = Cardinality(Below(n))
             /\ KeysOf(f[n]) = Keys(n)
             /\ Distinct(f[n]) /\ Rooted(f[n], D)
             /\ Apart(KeysOf(t), D) => AtHome(f[n], D)
           S == {n \in Nat : n <= C => Copied(n)}
<1>6. 0 \in S
  <2>1. f[0] = Table!Alloc(D)
    BY <1>3
  <2>2. /\ f[0] \in Tables(D) /\ f[0].count = 0 /\ HeldIn(f[0]) = {}
        /\ Cardinality(HeldIn(f[0])) = 0 /\ Cardinality(UsedIn(f[0])) = 0
    BY <1>1, <2>1, AllocFacts
  <2>3. Below(0) = {} /\ Keys(0) = {}
    BY <1>4
  <2>4. Cardinality(Below(0)) = 0
    BY <2>3, FS_EmptySet
  <2>5. KeysOf(f[0]) = {} /\ Distinct(f[0]) /\ Rooted(f[0], D) /\ AtHome(f[0], D)
    BY <2>2 DEF KeysOf, Distinct, Rooted, AtHome
  <2> HIDE DEF Below, Keys
  <2>6. Copied(0)
    BY <2>2, <2>3, <2>4, <2>5
  <2> QED
    BY <2>6
<1>7. ASSUME NEW n \in Nat, n \in S PROVE n + 1 \in S
  <2>1. SUFFICES ASSUME n + 1 <= C PROVE Copied(n + 1)
    OBVIOUS
  <2>2. n \in 0..(C - 1) /\ n <= C /\ n + 1 \in 0..C /\ n + 1 # 0 /\ (n + 1) - 1 = n
    BY <2>1
  <2>3. Copied(n)
    BY <1>7, <2>2
  <2>4. f[n + 1] = CopyBucket(t, f[n], n + 1)
    BY <1>3, <2>2
  <2>5. n \in HeldIn(t) <=> t.memory[n].occupied = 1
    BY <2>2, TableFacts DEF HeldIn
  <2>6. \A s \in HeldIn(t) : s < n + 1 <=> s < n \/ s = n
    BY <1>4
  <2>7. CASE t.memory[n].occupied # 1
    <3>1. f[n + 1] = f[n]
      BY <2>2, <2>4, <2>7 DEF CopyBucket
    <3>2. Below(n + 1) = Below(n) /\ Keys(n + 1) = Keys(n)
      BY <2>5, <2>6, <2>7
    <3> HIDE DEF Below, Keys
    <3> QED
      BY <2>3, <3>1, <3>2
  <2>8. CASE t.memory[n].occupied = 1
    <3> DEFINE k == t.memory[n].key
               x == f[n]
               y == f[n + 1]
    <3>1. n \in HeldIn(t) /\ k \in Nat /\ t.memory[n].value = k
      BY <1>4, <2>5, <2>8
    <3>2. y = Table!Place(x, k, k)
      BY <2>2, <2>4, <2>8, <3>1 DEF CopyBucket
    <3>3. /\ Below(n + 1) = Below(n) \cup {n} /\ n \notin Below(n)
          /\ Keys(n + 1) = Keys(n) \cup {k}
      BY <2>6, <3>1
    <3>4. k \notin Keys(n)
      BY <3>1, <1>4, <2>2 DEF Distinct
    <3>5. Keys(n) \cup {k} \subseteq KeysOf(t)
      BY <3>1 DEF KeysOf
    <3> HIDE DEF k, x, y, Below, Keys
    <3>6. /\ x \in Tables(D) /\ x.count = Cardinality(Below(n))
          /\ Cardinality(UsedIn(x)) <= x.count
          /\ Cardinality(HeldIn(x)) = Cardinality(Below(n))
          /\ KeysOf(x) = Keys(n) /\ Distinct(x) /\ Rooted(x, D)
          /\ Apart(KeysOf(t), D) => AtHome(x, D)
      BY <2>3 DEF x
    <3>7. /\ Cardinality(UsedIn(x)) < D /\ Cardinality(UsedIn(x)) \in Nat
          /\ Cardinality(Below(n)) \in Nat
      <4>1. Cardinality(UsedIn(x)) \in Nat
        BY <1>1, <3>6, TableFacts
      <4> QED
        BY <1>1, <1>5, <3>6, <4>1
    <3>8. /\ y \in Tables(D) /\ y.count = x.count + 1
          /\ Cardinality(UsedIn(y)) <= Cardinality(UsedIn(x)) + 1
          /\ Cardinality(HeldIn(y)) = Cardinality(HeldIn(x)) + 1
      <4>1. D \in Nat \ {0} /\ x \in Tables(D) /\ Cardinality(UsedIn(x)) < D /\ k \in Nat
        BY <1>1, <3>1, <3>6, <3>7
      <4> QED
        BY <3>2, <4>1, AddFacts
    <3>9. /\ KeysOf(y) = KeysOf(x) \cup {k} /\ Distinct(y) /\ Rooted(y, D)
          /\ AtHome(x, D) /\ Apart(KeysOf(x) \cup {k}, D) => AtHome(y, D)
      <4>1. k \notin KeysOf(x)
        BY <3>4, <3>6
      <4> QED
        <5>1. /\ D \in Nat \ {0} /\ x \in Tables(D) /\ Cardinality(UsedIn(x)) < D
              /\ k \in Nat /\ Distinct(x) /\ Rooted(x, D)
          BY <1>1, <3>1, <3>6, <3>7
        <5> QED
          BY <3>2, <4>1, <5>1, AddKeys
    <3>10. Cardinality(Below(n + 1)) = Cardinality(Below(n)) + 1
      BY <1>5, <3>3, FS_AddElement
    <3>11. Apart(KeysOf(t), D) => AtHome(y, D)
      <4>1. Apart(KeysOf(t), D) => Apart(KeysOf(x) \cup {k}, D)
        BY <3>5, <3>6 DEF Apart
      <4> QED
        BY <3>6, <3>9, <4>1
    <3>12. Cardinality(UsedIn(y)) <= y.count
      <4>1. Cardinality(UsedIn(y)) \in Nat
        BY <1>1, <3>8, TableFacts
      <4> QED
        BY <3>6, <3>7, <3>8, <4>1
    <3>13. /\ y.count = Cardinality(Below(n + 1))
           /\ Cardinality(HeldIn(y)) = Cardinality(Below(n + 1))
           /\ KeysOf(y) = Keys(n + 1)
      BY <3>3, <3>6, <3>7, <3>8, <3>9, <3>10
    <3> QED
      BY <3>8, <3>9, <3>11, <3>12, <3>13 DEF y
  <2> QED
    BY <2>7, <2>8
<1> HIDE DEF S
<1>8. Nat \subseteq S
  BY <1>6, <1>7, Induction
<1> HIDE DEF Copied
<1>9. Copied(C)
  BY <1>8 DEF S
<1>10. Below(C) = HeldIn(t) /\ Keys(C) = KeysOf(t)
  <2>1. Below(C) = HeldIn(t)
    BY <1>4
  <2> HIDE DEF Below
  <2> QED
    BY <2>1 DEF KeysOf
<1> HIDE DEF Below, Keys
<1> QED
  BY <1>2, <1>9, <1>10 DEF Copied, D

(* Records on the way of their own keys are paired with them.              *)
LEMMA RootedPaired ==
  ASSUME NEW C, NEW t, Rooted(t, C)
  PROVE  Paired(t, C, KeysOf(t))
<1> DEFINE m == [a \in KeysOf(t) |-> CHOOSE s \in HeldIn(t) : t.memory[s].key = a]
<1>1. ASSUME NEW a \in KeysOf(t)
      PROVE  m[a] \in HeldIn(t) /\ t.memory[m[a]].key = a
  <2>1. \E s \in HeldIn(t) : t.memory[s].key = a
    BY DEF KeysOf
  <2> QED
    BY <2>1
<1>2. m \in [KeysOf(t) -> HeldIn(t)]
  BY <1>1
<1> HIDE DEF m
<1>3. \A a, b \in KeysOf(t) : a # b => m[a] # m[b]
  BY <1>1
<1>4. \A a \in KeysOf(t) : Reaches(t, C, a, m[a])
  BY <1>1 DEF Rooted
<1> QED
  BY <1>2, <1>3, <1>4 DEF Paired
-----------------------------------------------------------------------------
(* The inductive invariant *)

(* The table is below its limit, so a probe ends; it has one record per    *)
(* connection, paired with the connections, and no two of one key.         *)
Fits(t, C, fds) ==
  /\ t \in Tables(C)
  /\ Cardinality(UsedIn(t)) <= t.count /\ t.count <= (C * 85) \div 100
  /\ Cardinality(HeldIn(t)) = Cardinality(fds)
  /\ Distinct(t) /\ Paired(t, C, fds)

(* Every connection has the first bucket of its descriptor for itself.     *)
Own(t, C, fds) == AtHome(t, C) /\ KeysOf(t) = fds /\ Apart(fds, C)

Descriptors ==
  /\ Open \in SUBSET Nat /\ IsFiniteSet(Open)
  /\ temporary \in [Open -> Nat]
  /\ leaked \in SUBSET Nat /\ IsFiniteSet(leaked)

ClientInv ==
  /\ Descriptors
  /\ \E C \in Nat \ {0} : /\ Fits(table, C, Open)
                          /\ ~met => Own(table, C, Open)

LEMMA RoomFacts ==
  ASSUME NEW C \in Nat \ {0}, NEW t, NEW fds, Fits(t, C, fds)
  PROVE  Cardinality(UsedIn(t)) < C /\ t \in Tables(C) /\ t.count \in Nat
<1>1. t.count \in Nat /\ Cardinality(UsedIn(t)) \in Nat
  BY TableFacts DEF Fits
<1>2. (C * 85) \div 100 \in Nat /\ (C * 85) \div 100 < C
  BY FillFacts
<1> QED
  BY <1>1, <1>2 DEF Fits

(* The values of the table are its keys.  If it has no other, it has all   *)
(* open connections.                                                       *)
LEMMA ConnectionFacts ==
  ASSUME NEW C \in Nat \ {0}, Fits(table, C, Open), IsFiniteSet(Open)
  PROVE  /\ Held = HeldIn(table) /\ Connections = KeysOf(table)
         /\ Connections \subseteq Open => Connections = Open
<1>1. Held = HeldIn(table)
  BY DEF Held, HeldIn
<1>2. /\ IsFiniteSet(HeldIn(table))
      /\ \A s \in HeldIn(table) : table.memory[s].value = table.memory[s].key
  BY TableFacts DEF Fits
<1>3. Connections = KeysOf(table)
  BY <1>1, <1>2 DEF Connections, KeysOf
<1>4. ASSUME KeysOf(table) \subseteq Open PROVE KeysOf(table) = Open
  <2> DEFINE f == [s \in HeldIn(table) |-> table.memory[s].key]
  <2>1. /\ f \in [HeldIn(table) -> KeysOf(table)]
        /\ \A s, r \in HeldIn(table) : f[s] = f[r] => s = r
        /\ \A k \in KeysOf(table) : \E s \in HeldIn(table) : f[s] = k
    BY DEF KeysOf, Fits, Distinct
  <2>2. DOMAIN f = HeldIn(table)
    OBVIOUS
  <2> HIDE DEF f
  <2>3. f \in Bijection(HeldIn(table), KeysOf(table))
    BY <2>1, <2>2 DEF Bijection, Injection, IsInjective, Surjection
  <2>4. ExistsBijection(HeldIn(table), KeysOf(table))
    BY <2>3 DEF ExistsBijection
  <2>5. Cardinality(KeysOf(table)) = Cardinality(HeldIn(table))
    BY <1>2, <2>4, FS_Bijection
  <2>6. Cardinality(Open) = Cardinality(KeysOf(table))
    BY <2>5 DEF Fits
  <2> QED
    BY <1>4, <2>6, FS_Subset
<1> QED
  BY <1>1, <1>3, <1>4

LEMMA FiniteRange ==
  ASSUME NEW S, NEW T, IsFiniteSet(S), NEW f \in [S -> T]
  PROVE  IsFiniteSet({f[x] : x \in S})
<1> DEFINE R == {f[x] : x \in S}
<1>1. PICK n \in Nat : ExistsSurjection(1..n, S)
  BY FS_NatSurjection
<1>2. PICK g \in [1..n -> S] : \A x \in S : \E i \in 1..n : g[i] = x
  BY <1>1 DEF ExistsSurjection, Surjection
<1> DEFINE h == [i \in 1..n |-> f[g[i]]]
<1>3. h \in [1..n -> R]
  BY <1>2
<1>4. ASSUME NEW y \in R PROVE \E i \in 1..n : h[i] = y
  <2>1. PICK x \in S : y = f[x]
    BY <1>4
  <2>2. PICK i \in 1..n : g[i] = x
    BY <1>2
  <2> QED
    BY <2>1, <2>2
<1> HIDE DEF h, R
<1>5. h \in Surjection(1..n, R)
  BY <1>3, <1>4 DEF Surjection
<1>6. ExistsSurjection(1..n, R)
  BY <1>5 DEF ExistsSurjection
<1>7. IsFiniteSet(R)
  BY <1>6, FS_NatSurjection
<1> QED
  BY <1>7 DEF R

(* The kernel gives out descriptors that are not in use, the lowest first. *)
LEMMA LowestFacts ==
  ASSUME Descriptors
  PROVE  /\ Lowest \in Nat /\ Lowest >= FirstFd /\ Lowest \notin Used
         /\ SecondLowest \in Nat
         /\ \A y \in Nat : FirstFd <= y /\ y < Lowest => y \in Used
<1>1. FirstFd \in Nat /\ FirstFd # 0
  BY ClientTableAssumption
<1>2. Used \in SUBSET Nat /\ IsFiniteSet(Used) /\ Cardinality(Used) \in Nat
  <2> DEFINE files == {temporary[fd] : fd \in Open}
  <2>1. IsFiniteSet(files)
    <3>1. IsFiniteSet(Open) /\ temporary \in [Open -> Nat]
      BY DEF Descriptors
    <3> QED
      BY <3>1, FiniteRange
  <2>2. files \in SUBSET Nat
    BY DEF Descriptors
  <2> HIDE DEF files
  <2>3. IsFiniteSet((Open \cup leaked) \cup files)
    BY <2>1, FS_Union DEF Descriptors
  <2>4. Used = (Open \cup leaked) \cup files
    BY DEF Used, files
  <2> QED
    BY <2>2, <2>3, <2>4, FS_CardinalityType DEF Descriptors
<1> DEFINE top == FirstFd + Cardinality(Used) + 2
<1>3. top \in Nat /\ IsFiniteSet(FirstFd..top)
      /\ Cardinality(FirstFd..top) = Cardinality(Used) + 3
  <2>1. top \in Nat
    BY <1>1, <1>2
  <2> HIDE DEF top
  <2>2. /\ IsFiniteSet(FirstFd..top)
        /\ Cardinality(FirstFd..top) = IF FirstFd > top THEN 0 ELSE top - FirstFd + 1
    BY <1>1, <2>1, FS_Interval
  <2> QED
    BY <1>1, <1>2, <2>1, <2>2 DEF top
<1>4. Free = (FirstFd..top) \ Used
  BY DEF Free
<1> HIDE DEF top
<1>5. ASSUME NEW x PROVE Free \ {x} # {}
  <2>1. SUFFICES ASSUME Free \ {x} = {} PROVE FALSE
    OBVIOUS
  <2>2. FirstFd..top \subseteq Used \cup {x}
    BY <1>4, <2>1
  <2>3. IsFiniteSet(Used \cup {x}) /\ Cardinality(Used \cup {x}) <= Cardinality(Used) + 1
    BY <1>2, FS_AddElement
  <2>4. Cardinality(FirstFd..top) <= Cardinality(Used \cup {x})
    BY <2>2, <2>3, FS_Subset
  <2>5. Cardinality(Used \cup {x}) \in Nat
    BY <2>3, FS_CardinalityType
  <2> QED
    BY <1>2, <1>3, <2>3, <2>4, <2>5
<1>6. Free \subseteq Nat /\ Free # {} /\ Free \ {Lowest} \subseteq Nat
  BY <1>1, <1>3, <1>4, <1>5
<1>7. Lowest \in Free /\ \A y \in Free : Lowest <= y
  BY <1>6, MinFacts DEF Lowest
<1>8. SecondLowest \in Free
  <2>1. Free \ {Lowest} # {}
    BY <1>5
  <2>2. SecondLowest \in Free \ {Lowest}
    BY <1>6, <2>1, MinFacts DEF SecondLowest
  <2> QED
    BY <2>2
<1>9. PICK m \in Free : m = Lowest /\ \A y \in Free : m <= y
  BY <1>7
<1>10. m \in Nat /\ m >= FirstFd /\ m <= top /\ m \notin Used
  BY <1>1, <1>3, <1>4
<1>11. ASSUME NEW y \in Nat, FirstFd <= y, y < m PROVE y \in Used
  <2>1. ~(m <= y) /\ y \in FirstFd..top
    BY <1>1, <1>3, <1>10, <1>11
  <2> QED
    BY <1>4, <1>9, <2>1
<1> QED
  BY <1>6, <1>8, <1>9, <1>10, <1>11

(* Where an event goes, as long as no freed connection is in the table.    *)
LEMMA DispatchedFacts ==
  ASSUME AndBound, NEW C \in Nat \ {0}, Fits(table, C, Open), Descriptors,
         Connections \subseteq Open, NEW fd \in Open
  PROVE  /\ Table!Get(table, fd).occupied = 1 /\ Dispatched(fd) \in Open
         /\ Own(table, C, Open) =>
              /\ Dispatched(fd) = fd
              /\ Table!Probe(table, fd) = Probed(C, fd, 0)
<1>1. /\ Held = HeldIn(table) /\ Connections = KeysOf(table)
      /\ Cardinality(UsedIn(table)) < C /\ table \in Tables(C) /\ fd \in Nat
  BY ConnectionFacts, RoomFacts DEF Descriptors
<1>2. PICK m \in [Open -> HeldIn(table)] : \A a \in Open : Reaches(table, C, a, m[a])
  BY DEF Fits, Paired
<1>3. Table!Probe(table, fd) \in HeldIn(table)
  BY <1>1, <1>2, FoundOnTheWay
<1>4. Table!Get(table, fd).occupied = 1
  BY <1>3 DEF Table!Get, HeldIn
<1>5. Dispatched(fd) \in Connections
  BY <1>1, <1>3 DEF Dispatched, Table!Get, Connections
<1>6. ASSUME Own(table, C, Open)
      PROVE  Dispatched(fd) = fd /\ Table!Probe(table, fd) = Probed(C, fd, 0)
  <2>1. PICK s \in HeldIn(table) : table.memory[s].key = fd
    BY <1>6 DEF Own, KeysOf
  <2>2. s = Probed(C, fd, 0) /\ table.memory[s].occupied = 1
    BY <1>6, <2>1 DEF Own, AtHome, HeldIn
  <2>3. PICK d \in 0..(C - 1) :
           /\ Table!Probe(table, fd) = Probed(C, fd, d)
           /\ \A e \in 0..(C - 1) :
                table.memory[Probed(C, fd, e)].occupied # 2 => d <= e
    BY <1>1, ProbeFacts
  <2>4. d = 0
    <3>1. 0 \in 0..(C - 1) /\ table.memory[Probed(C, fd, 0)].occupied # 2
      BY <2>2
    <3>2. d <= 0
      BY <2>3, <3>1
    <3> QED
      BY <3>2
  <2>5. table.memory[s].value = fd
    BY <1>1, <2>1, TableFacts
  <2> QED
    BY <2>2, <2>3, <2>4, <2>5 DEF Dispatched, Table!Get
<1> QED
  BY <1>4, <1>5, <1>6
-----------------------------------------------------------------------------
(* The steps *)

LEMMA InitClients ==
  ASSUME Init
  PROVE  ClientInv
<1>1. Open = {} /\ temporary \in [Open -> Nat]
  BY DEF Init, Open
<1>2. IsFiniteSet({}) /\ Cardinality({}) = 0
  BY FS_EmptySet
<1> DEFINE C == TABLE_SIZE
<1>3. C \in Nat \ {0} /\ table = Table!Alloc(C)
  BY ClientTableAssumption DEF Init
<1> HIDE DEF C
<1>4. /\ table \in Tables(C) /\ table.count = 0 /\ HeldIn(table) = {}
      /\ Cardinality(HeldIn(table)) = 0 /\ Cardinality(UsedIn(table)) = 0
  BY <1>3, AllocFacts
<1>5. (C * 85) \div 100 \in Nat
  BY <1>3, FillFacts
<1>6. KeysOf(table) = {} /\ Distinct(table) /\ Rooted(table, C) /\ AtHome(table, C)
  BY <1>4 DEF KeysOf, Distinct, Rooted, AtHome
<1>7. Paired(table, C, {})
  BY <1>6, RootedPaired
<1>8. Fits(table, C, Open)
  BY <1>1, <1>2, <1>4, <1>5, <1>6, <1>7 DEF Fits
<1>9. Own(table, C, Open)
  BY <1>1, <1>6 DEF Own, Apart
<1> QED
  BY <1>1, <1>2, <1>3, <1>8, <1>9 DEF ClientInv, Descriptors, Init

(* hash_table_add of a new connection.                                     *)
LEMMA AddFits ==
  ASSUME AndBound, NEW C \in Nat \ {0}, NEW fds \in SUBSET Nat, IsFiniteSet(fds),
         NEW t, Fits(t, C, fds), KeysOf(t) = fds, NEW fd \in Nat, fd \notin fds,
         NEW u, u = Table!Add(t, fd, fd)
  PROVE  \E D \in Nat \ {0} :
           /\ Fits(u, D, fds \cup {fd}) /\ Table!Capacity(u) = D
           /\ Own(t, C, fds) /\ Apart(fds \cup {fd}, D) => Own(u, D, fds \cup {fd})
<1> DEFINE all == fds \cup {fd}
           fill == (C * 85) \div 100
<1>1. /\ Cardinality(UsedIn(t)) < C /\ t \in Tables(C) /\ t.count \in Nat
      /\ Cardinality(UsedIn(t)) \in Nat /\ Cardinality(HeldIn(t)) \in Nat
      /\ Table!MaxFill(t) = fill
  BY RoomFacts, TableFacts
<1>2. fill \in Nat /\ fill < C /\ fill + 1 <= (2 * C * 85) \div 100
  BY FillFacts
<1>3. PICK p : p = Table!Place(t, fd, fd)
  OBVIOUS
<1>4. /\ p \in Tables(C) /\ p.count = t.count + 1
      /\ Cardinality(UsedIn(p)) <= Cardinality(UsedIn(t)) + 1
      /\ Cardinality(HeldIn(p)) = Cardinality(HeldIn(t)) + 1
      /\ Paired(p, C, all)
  <2>1. Paired(t, C, fds)
    BY DEF Fits
  <2>2. Cardinality(UsedIn(t)) < C /\ t \in Tables(C)
    BY <1>1
  <2>3. /\ p \in Tables(C) /\ p.count = t.count + 1
        /\ Cardinality(UsedIn(p)) <= Cardinality(UsedIn(t)) + 1
        /\ Cardinality(HeldIn(p)) = Cardinality(HeldIn(t)) + 1
    BY <1>3, <2>2, AddFacts
  <2>4. \A L \in SUBSET Nat : fd \notin L /\ Paired(t, C, L) => Paired(p, C, L \cup {fd})
    BY <1>3, <2>2, AddFacts
  <2> QED
    BY <2>1, <2>3, <2>4
<1>5. /\ KeysOf(p) = all /\ Distinct(p)
      /\ AtHome(t, C) /\ Apart(all, C) => AtHome(p, C)
  <2>1. Distinct(t) /\ fd \notin KeysOf(t)
    BY DEF Fits
  <2>2. /\ KeysOf(p) = KeysOf(t) \cup {fd} /\ Distinct(p)
        /\ AtHome(t, C) /\ Apart(KeysOf(t) \cup {fd}, C) => AtHome(p, C)
    BY <1>1, <1>3, <2>1, AddKeys
  <2> QED
    BY <2>2
<1>6. Cardinality(all) = Cardinality(fds) + 1
  BY FS_AddElement
<1>7. u = IF p.count > fill THEN Table!Expand(p) ELSE p
  BY <1>1, <1>3 DEF Table!Add
<1>8. /\ t.count <= fill /\ Cardinality(UsedIn(t)) <= t.count
      /\ Cardinality(HeldIn(t)) = Cardinality(fds)
  BY DEF Fits
<1>9. Cardinality(HeldIn(p)) = Cardinality(all)
  BY <1>4, <1>6, <1>8
<1>10. /\ Cardinality(UsedIn(p)) \in Nat /\ Cardinality(HeldIn(p)) \in Nat
       /\ Cardinality(HeldIn(p)) <= Cardinality(UsedIn(p))
  BY <1>4, TableFacts
<1> HIDE DEF all
<1>11. CASE ~(p.count > fill)
  <2>1. u = p /\ p.count <= fill /\ Cardinality(UsedIn(p)) <= p.count
    BY <1>1, <1>2, <1>4, <1>7, <1>8, <1>10, <1>11
  <2>2. Fits(p, C, all)
    BY <1>4, <1>5, <1>9, <2>1 DEF Fits
  <2>3. Own(t, C, fds) /\ Apart(all, C) => Own(p, C, all)
    BY <1>5 DEF Own
  <2>4. Table!Capacity(p) = C
    BY <1>4, TableFacts
  <2> QED
    BY <2>1, <2>2, <2>3, <2>4 DEF all
<1>12. CASE p.count > fill
  <2> DEFINE D == 2 * C
  <2>1. u = Table!Expand(p)
    BY <1>7, <1>12
  <2>2. /\ u \in Tables(2 * C)
        /\ u.count = Cardinality(HeldIn(p)) /\ Cardinality(UsedIn(u)) <= u.count
        /\ Cardinality(HeldIn(u)) = Cardinality(HeldIn(p))
        /\ KeysOf(u) = KeysOf(p) /\ Distinct(u) /\ Rooted(u, 2 * C)
        /\ Apart(KeysOf(p), 2 * C) => AtHome(u, 2 * C)
    BY <1>4, <1>5, <2>1, ExpandKeys
  <2>3. u.count <= fill + 1
    BY <1>1, <1>2, <1>4, <1>8, <1>10, <2>2
  <2>4. D \in Nat \ {0} /\ (D * 85) \div 100 = (2 * C * 85) \div 100
        /\ (2 * C * 85) \div 100 \in Nat
    OBVIOUS
  <2>5. u.count <= (D * 85) \div 100
    BY <1>2, <1>10, <2>2, <2>3, <2>4
  <2> HIDE DEF D
  <2>6. /\ u \in Tables(D) /\ KeysOf(u) = all /\ Distinct(u) /\ Rooted(u, D)
        /\ Apart(all, D) => AtHome(u, D)
    BY <1>5, <2>2 DEF D
  <2>7. Paired(u, D, all)
    BY <2>6, RootedPaired
  <2>8. Fits(u, D, all)
    BY <1>9, <2>2, <2>5, <2>6, <2>7 DEF Fits
  <2>9. Apart(all, D) => Own(u, D, all)
    BY <2>6 DEF Own
  <2>10. Table!Capacity(u) = D
    BY <2>4, <2>6, TableFacts
  <2> QED
    BY <2>4, <2>8, <2>9, <2>10 DEF all
<1> QED
  BY <1>11, <1>12

LEMMA AcceptClients ==
  ASSUME AndBound, ClientInv, Connections \subseteq Open, Accept
  PROVE  ClientInv'
<1>1. Descriptors
  BY DEF ClientInv
<1>2. PICK C \in Nat \ {0} : Fits(table, C, Open) /\ (~met => Own(table, C, Open))
  BY DEF ClientInv
<1>3. KeysOf(table) = Open
  BY <1>1, <1>2, ConnectionFacts DEF Descriptors
<1> DEFINE low == Lowest
           all == Open \cup {low}
<1>4. /\ temporary' = [fd \in all |-> IF fd = low THEN 0 ELSE temporary[fd]]
      /\ table' = Table!Add(table, low, low) /\ leaked' = leaked
      /\ met' = (met \/ Meet(table', Open'))
  BY DEF Accept
<1>5. low \in Nat /\ low \notin Open
  BY <1>1, LowestFacts DEF Used
<1> HIDE DEF low
<1>6. Open' = all
  BY <1>4 DEF Open
<1>7. temporary' \in [all -> Nat] /\ all \in SUBSET Nat /\ IsFiniteSet(all)
  <2>1. \A fd \in all : (IF fd = low THEN 0 ELSE temporary[fd]) \in Nat
    BY <1>1 DEF Descriptors
  <2>2. temporary' \in [all -> Nat]
    BY <1>4, <2>1
  <2> QED
    BY <1>1, <1>5, <2>2, FS_AddElement DEF Descriptors
<1>8. Descriptors'
  BY <1>1, <1>4, <1>6, <1>7 DEF Descriptors
<1>9. PICK D \in Nat \ {0} :
           /\ Fits(table', D, all) /\ Table!Capacity(table') = D
           /\ Own(table, C, Open) /\ Apart(all, D) => Own(table', D, all)
  <2>1. Open \in SUBSET Nat /\ IsFiniteSet(Open)
    BY <1>1 DEF Descriptors
  <2>2. PICK u : u = Table!Add(table, low, low)
    OBVIOUS
  <2>3. \E D \in Nat \ {0} :
           /\ Fits(u, D, Open \cup {low}) /\ Table!Capacity(u) = D
           /\ Own(table, C, Open) /\ Apart(Open \cup {low}, D) => Own(u, D, Open \cup {low})
    BY <1>2, <1>3, <1>5, <2>1, <2>2, AddFits
  <2> QED
    BY <1>4, <2>2, <2>3
<1>10. ~Meet(table', Open') => Apart(all, D)
  BY <1>6, <1>9 DEF Meet, Apart, Table!Slot, Probed
<1>11. ~met' => Own(table', D, all)
  BY <1>2, <1>4, <1>9, <1>10
<1> QED
  BY <1>6, <1>8, <1>9, <1>11 DEF ClientInv

(* A step that keeps the table and the connections.                        *)
LEMMA TemporaryClients ==
  ASSUME ClientInv, NEW n \in Open, NEW d \in Nat,
         temporary' = [temporary EXCEPT ![n] = d], UNCHANGED <<table, met>>,
         leaked' \in SUBSET Nat, IsFiniteSet(leaked')
  PROVE  ClientInv'
<1>1. Descriptors /\ \E C \in Nat \ {0} : Fits(table, C, Open) /\ (~met => Own(table, C, Open))
  BY DEF ClientInv
<1>2. Open' = Open /\ temporary' \in [Open -> Nat]
  BY <1>1 DEF Descriptors, Open
<1>3. Descriptors'
  BY <1>1, <1>2 DEF Descriptors
<1> QED
  BY <1>1, <1>2, <1>3 DEF ClientInv

(* s3_connection_abort *)
LEMMA AbortedClients ==
  ASSUME AndBound, ClientInv, Connections \subseteq Open, NEW fd \in Open,
         Aborted(Dispatched(fd)), leaked' \in SUBSET Nat, IsFiniteSet(leaked')
  PROVE  ClientInv'
<1>1. Descriptors
  BY DEF ClientInv
<1>2. PICK C \in Nat \ {0} : Fits(table, C, Open) /\ (~met => Own(table, C, Open))
  BY DEF ClientInv
<1> DEFINE network == Dispatched(fd)
           rest == Open \ {network}
<1>3. /\ temporary' = [other \in rest |-> temporary[other]]
      /\ table' = Table!Remove(table, network) /\ met' = met
  BY DEF Aborted
<1>4. network \in Open /\ (Own(table, C, Open) => network = fd)
  BY <1>1, <1>2, DispatchedFacts
<1> HIDE DEF network
<1>5. /\ network \in Nat /\ Table!Get(table, network).occupied = 1
      /\ Own(table, C, Open) => Table!Probe(table, network) = Probed(C, network, 0)
  BY <1>1, <1>2, <1>4, DispatchedFacts DEF Descriptors
<1>6. Open' = rest
  BY <1>3 DEF Open
<1>7. temporary' \in [rest -> Nat] /\ rest \in SUBSET Nat /\ IsFiniteSet(rest)
      /\ Cardinality(rest) = Cardinality(Open) - 1
  <2>1. temporary' \in [rest -> Nat]
    BY <1>1, <1>3 DEF Descriptors
  <2> QED
    BY <1>1, <1>4, <2>1, FS_RemoveElement DEF Descriptors
<1>8. Descriptors'
  BY <1>6, <1>7 DEF Descriptors
<1>9. Cardinality(UsedIn(table)) < C /\ table \in Tables(C)
  BY <1>2, RoomFacts
<1>10. /\ table' \in Tables(C) /\ table'.count = table.count
       /\ Cardinality(UsedIn(table')) = Cardinality(UsedIn(table))
       /\ Cardinality(HeldIn(table')) = Cardinality(HeldIn(table)) - 1
       /\ HeldIn(table') = HeldIn(table) \ {Table!Probe(table, network)}
       /\ \A i \in HeldIn(table') : table'.memory[i] = table.memory[i]
       /\ \A L \in SUBSET Nat :
              network \in L /\ Paired(table, C, L) => Paired(table', C, L \ {network})
  BY <1>3, <1>5, <1>9, RemoveFacts
<1>11. Paired(table', C, rest)
  BY <1>1, <1>2, <1>4, <1>10 DEF Fits, Descriptors
<1>12. Distinct(table')
  BY <1>2, <1>10 DEF Fits, Distinct
<1> HIDE DEF rest
<1>13. Fits(table', C, rest)
  BY <1>2, <1>7, <1>10, <1>11, <1>12 DEF Fits
<1>14. ASSUME Own(table, C, Open) PROVE Own(table', C, rest)
  <2>1. AtHome(table', C)
    BY <1>10, <1>14 DEF Own, AtHome
  <2>2. Apart(rest, C)
    BY <1>14 DEF Own, Apart, rest
  <2>3. ASSUME NEW s \in HeldIn(table)
        PROVE  s = Table!Probe(table, network) <=> table.memory[s].key = network
    <3>1. PICK r \in HeldIn(table) : table.memory[r].key = network
      BY <1>4, <1>14 DEF Own, KeysOf
    <3>2. r = Table!Probe(table, network)
      BY <1>5, <1>14, <3>1 DEF Own, AtHome
    <3> QED
      BY <1>2, <3>1, <3>2 DEF Fits, Distinct
  <2>4. KeysOf(table') = KeysOf(table) \ {network}
    BY <1>10, <2>3 DEF KeysOf
  <2> QED
    BY <1>14, <2>1, <2>2, <2>4 DEF Own, rest
<1> QED
  BY <1>2, <1>3, <1>6, <1>8, <1>13, <1>14 DEF ClientInv

LEMMA LeakFacts ==
  ASSUME Descriptors, NEW opened \in Leaks
  PROVE  leaked \cup opened \in SUBSET Nat /\ IsFiniteSet(leaked \cup opened)
<1>1. /\ Lowest \in Nat /\ SecondLowest \in Nat
      /\ leaked \in SUBSET Nat /\ IsFiniteSet(leaked)
  BY LowestFacts DEF Descriptors
<1>2. opened = {Lowest} \/ opened = {Lowest, SecondLowest}
  BY DEF Leaks
<1>3. IsFiniteSet(leaked \cup {Lowest})
  BY <1>1, FS_AddElement
<1>4. IsFiniteSet((leaked \cup {Lowest}) \cup {SecondLowest})
  BY <1>3, FS_AddElement
<1>5. leaked \cup {Lowest, SecondLowest} = (leaked \cup {Lowest}) \cup {SecondLowest}
  OBVIOUS
<1>6. IsFiniteSet(leaked \cup opened)
  BY <1>2, <1>3, <1>4, <1>5
<1> QED
  BY <1>1, <1>2, <1>6

LEMMA EventClients ==
  ASSUME AndBound, ClientInv, Connections \subseteq Open, NEW fd \in Open, Event(fd)
  PROVE  ClientInv'
<1> DEFINE network == Dispatched(fd)
<1>1. Descriptors /\ leaked \in SUBSET Nat /\ IsFiniteSet(leaked) /\ Lowest \in Nat
  BY LowestFacts DEF ClientInv, Descriptors
<1>2. network \in Open
  BY <1>1, DispatchedFacts DEF ClientInv
<1>3. CASE OpenTemporary(fd)
  BY <1>1, <1>2, <1>3, TemporaryClients DEF OpenTemporary
<1>4. CASE CloseTemporary(fd)
  <2>1. 0 \in Nat
    OBVIOUS
  <2> QED
    BY <1>1, <1>2, <1>4, <2>1, TemporaryClients DEF CloseTemporary
<1>5. CASE FileAppend(fd)
  <2>1. leaked' \in SUBSET Nat /\ IsFiniteSet(leaked') /\ 0 \in Nat
    BY <1>1, <1>5, LeakFacts DEF FileAppend
  <2> QED
    BY <1>2, <1>5, <2>1, TemporaryClients DEF FileAppend
<1>6. CASE Abort(fd)
  BY <1>1, <1>6, AbortedClients DEF Abort
<1>7. CASE UpdateFails(fd)
  <2>1. leaked' \in SUBSET Nat /\ IsFiniteSet(leaked')
    BY <1>1, <1>7, LeakFacts DEF UpdateFails
  <2> QED
    BY <1>7, <2>1, AbortedClients DEF UpdateFails
<1> QED
  BY <1>3, <1>4, <1>5, <1>6, <1>7 DEF Event

LEMMA ClientInvariant ==
  ASSUME AndBound
  PROVE  Spec => []ClientInv
<1>1. Init => ClientInv
  BY InitClients
<1>2. ClientInv /\ [Next]_vars => ClientInv'
  <2>1. SUFFICES ASSUME ClientInv, [Next]_vars PROVE ClientInv'
    OBVIOUS
  <2>2. CASE Connections \subseteq Open /\ Accept
    BY <2>1, <2>2, AcceptClients
  <2>3. CASE Connections \subseteq Open /\ \E fd \in Open : Event(fd)
    BY <2>1, <2>3, EventClients
  <2>4. CASE UNCHANGED vars
    BY <2>1, <2>4 DEF vars, ClientInv, Descriptors, Open
  <2> QED
    BY <2>1, <2>2, <2>3, <2>4 DEF Next
<1> QED
  BY <1>1, <1>2, PTL DEF Spec

(* Whatever the number of clients and the sequence of accepts, events and  *)
(* aborts: s3_connection_abort takes exactly one record out of the table,  *)
(* and until it has left a freed connection there every event finds a      *)
(* record of an open one, through tombstones and expansions.               *)
THEOREM EventsFindOpenConnections ==
  ASSUME AndBound
  PROVE  Spec => []EventsAreTaken
<1>1. ClientInv => EventsAreTaken
  <2>1. SUFFICES ASSUME ClientInv PROVE EventsAreTaken
    OBVIOUS
  <2>2. PICK C \in Nat \ {0} : Fits(table, C, Open)
    BY <2>1 DEF ClientInv
  <2>3. Descriptors /\ IsFiniteSet(Open)
    BY <2>1 DEF ClientInv, Descriptors
  <2>4. Cardinality(Held) = Cardinality(Open)
    BY <2>2, <2>3, ConnectionFacts DEF Fits
  <2>5. ASSUME Connections \subseteq Open, NEW fd \in Open
        PROVE  Table!Get(table, fd).occupied = 1 /\ Dispatched(fd) \in Open
    BY <2>2, <2>3, <2>5, DispatchedFacts
  <2> QED
    BY <2>4, <2>5 DEF EventsAreTaken
<1> QED
  BY <1>1, ClientInvariant, PTL

(* Whatever the number of clients: until two connections that are open at  *)
(* once have one first bucket, hash_table_get finds each one's own record  *)
(* and hash_table_remove takes it away, in buckets that were used before   *)
(* and after every expansion.                                              *)
THEOREM EventsReachOwnersUntilMet ==
  ASSUME AndBound
  PROVE  Spec => []ServedUntilMet
<1>1. ClientInv => ServedUntilMet
  <2>1. SUFFICES ASSUME ClientInv, ~met PROVE EventsReachOwner /\ Connections = Open
    BY DEF ServedUntilMet
  <2>2. PICK C \in Nat \ {0} : Fits(table, C, Open) /\ Own(table, C, Open)
    BY <2>1 DEF ClientInv
  <2>3. Descriptors /\ IsFiniteSet(Open)
    BY <2>1 DEF ClientInv, Descriptors
  <2>4. Connections = Open
    BY <2>2, <2>3, ConnectionFacts DEF Own
  <2>5. ASSUME NEW fd \in Open
        PROVE  Table!Get(table, fd).occupied = 1 /\ Dispatched(fd) = fd
    BY <2>2, <2>3, <2>4, DispatchedFacts
  <2> QED
    BY <2>4, <2>5 DEF EventsReachOwner, Dispatched
<1> QED
  BY <1>1, ClientInvariant, PTL
=============================================================================
