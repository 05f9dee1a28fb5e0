---------------------------- MODULE MemoryProofs ----------------------------
(***************************************************************************)
(* Theorem about the record of allocations of a DEBUG build: LostIsListed. *)
(***************************************************************************)
EXTENDS MemoryDebug, FiniteSetTheorems, WellFoundedInduction, TLAPS

-----------------------------------------------------------------------------
(* Arithmetic *)

LEMMA QuotientAndRemainder ==
  ASSUME NEW C \in Nat \ {0}, NEW q \in Nat, NEW r \in 0..(C - 1)
  PROVE  (C * q + r) % C = r
OBVIOUS

LEMMA Division ==
  ASSUME NEW C \in Nat \ {0}, NEW n \in Nat
  PROVE  /\ n % C \in 0..(C - 1)
         /\ \E q \in Nat : n = C * q + (n % C)
<1>1. n % C \in 0..(C - 1)
  OBVIOUS
<1>2. n \div C \in Nat /\ n = C * (n \div C) + (n % C)
  OBVIOUS
<1> QED
  BY <1>1, <1>2

LEMMA RemainderOfSum ==
  ASSUME NEW C \in Nat \ {0}, NEW x \in Nat, NEW y \in Nat
  PROVE  ((x % C) + y) % C = (x + y) % C
<1>1. PICK q \in Nat : x = C * q + (x % C)
  BY Division
<1>2. x % C \in Nat
  BY Division
<1> DEFINE z == (x % C) + y
<1>3. z \in Nat
  BY <1>2
<1> HIDE DEF z
<1>4. PICK p \in Nat : z = C * p + (z % C)
  BY <1>3, Division
<1>5. z % C \in 0..(C - 1)
  BY <1>3, Division
<1>6. x + y = C * q + z
  BY <1>1, <1>2 DEF z
<1>7. C * q + C * p = C * (q + p)
  OBVIOUS
<1>8. x + y = C * (q + p) + (z % C)
  BY <1>3, <1>4, <1>5, <1>6, <1>7
<1>9. (C * (q + p) + (z % C)) % C = z % C
  <2>1. q + p \in Nat
    OBVIOUS
  <2> QED
    BY <1>5, <2>1, QuotientAndRemainder
<1> QED
  BY <1>8, <1>9 DEF z

LEMMA MinFacts ==
  ASSUME NEW T, T \subseteq Nat, T # {}
  PROVE  Min(T) \in T /\ \A y \in T : Min(T) <= y
<1>1. PICK x \in T : \A y \in T : ~(<<y, x>> \in OpToRel(<, Nat))
  BY NatLessThanWellFounded, WFMin
<1>2. ASSUME NEW y \in T PROVE x <= y
  <2>1. ~(<<y, x>> \in OpToRel(<, Nat))
    BY <1>1
  <2>2. x \in Nat /\ y \in Nat
    OBVIOUS
  <2>3. <<y, x>> \in Nat \X Nat /\ <<y, x>>[1] = y /\ <<y, x>>[2] = x
    BY <2>2
  <2>4. ~(y < x)
    BY <2>1, <2>3 DEF OpToRel
  <2> QED
    BY <2>2, <2>4
<1> QED
  BY <1>2 DEF Min

(* A probe that starts anywhere comes to every bucket.                     *)
LEMMA EveryBucketIsProbed ==
  ASSUME NEW C \in Nat \ {0}, NEW h \in 0..(C - 1), NEW s \in 0..(C - 1)
  PROVE  \E d \in 0..(C - 1) : (h + d) % C = s
<1>1. CASE h <= s
  <2>1. (h + (s - h)) % C = s /\ s - h \in 0..(C - 1)
    BY <1>1
  <2> QED
    BY <2>1
<1>2. CASE s < h
  <2>1. (C * 1 + s) % C = s
    BY QuotientAndRemainder
  <2>2. h + (C - h + s) = C * 1 + s /\ C - h + s \in 0..(C - 1)
    BY <1>2
  <2> QED
    BY <2>1, <2>2
<1> QED
  BY <1>1, <1>2
-----------------------------------------------------------------------------
(* Buckets and probes *)

Buckets ==
  {Table!Free, Table!Tombstone} \cup
  {Table!Occupied(k, "record") : k \in Addresses \cup {"gone"}}

Tables(C) == [memory : [0..(C - 1) -> Buckets], count : Nat]

(* The d-th bucket a probe for address looks at, and any number of turns   *)
(* around the table.                                                       *)
Probed(C, address, d) == (HashHash(address, C) + d) % C

Used(t) == {s \in DOMAIN t.memory : t.memory[s].occupied # 0}

(* No free bucket stops a probe for address before it comes to slot.       *)
Reaches(t, C, address, slot) ==
  \E d \in Nat :
    /\ slot = Probed(C, address, d)
    /\ \A e \in 0..d : t.memory[Probed(C, address, e)].occupied # 0

LEMMA BucketFacts ==
  /\ Table!Free \in Buckets /\ Table!Free.occupied = 0
  /\ Table!Tombstone \in Buckets /\ Table!Tombstone.occupied = 2
  /\ \A k \in Addresses \cup {"gone"} :
       /\ Table!Occupied(k, "record") \in Buckets
       /\ Table!Occupied(k, "record").occupied = 1
  /\ \A b \in Buckets : b.occupied \in {0, 1, 2}
<1>1. Table!Free \in Buckets /\ Table!Free.occupied = 0
  BY DEF Buckets, Table!Free
<1>2. Table!Tombstone \in Buckets /\ Table!Tombstone.occupied = 2
  BY DEF Buckets, Table!Tombstone
<1>3. ASSUME NEW k \in Addresses \cup {"gone"}
      PROVE  Table!Occupied(k, "record") \in Buckets /\ Table!Occupied(k, "record").occupied = 1
  <2>1. Table!Occupied(k, "record") \in Buckets
    BY Zenon DEF Buckets
  <2>2. Table!Occupied(k, "record").occupied = 1
    BY DEF Table!Occupied
  <2> QED
    BY <2>1, <2>2
<1>4. ASSUME NEW b \in Buckets PROVE b.occupied \in {0, 1, 2}
  <2>1. b = Table!Free \/ b = Table!Tombstone
          \/ \E k \in Addresses \cup {"gone"} : b = Table!Occupied(k, "record")
    BY Zenon DEF Buckets
  <2> QED
    BY <1>1, <1>2, <1>3, <2>1
<1> QED
  BY <1>1, <1>2, <1>3, <1>4

LEMMA ProbedFacts ==
  ASSUME NEW C \in Nat \ {0}, NEW address \in Addresses
  PROVE  /\ \A d \in Nat : /\ Probed(C, address, d) \in 0..(C - 1)
                           /\ d % C \in 0..(C - 1) /\ d % C <= d
                           /\ Probed(C, address, d % C) = Probed(C, address, d)
         /\ \A s \in 0..(C - 1) : \E d \in 0..(C - 1) : Probed(C, address, d) = s
<1> DEFINE h == HashHash(address, C)
<1>1. h \in 0..(C - 1)
  <2>1. AddressHash[address] \in Nat
    BY MemoryAssumption
  <2> QED
    BY <2>1, Division DEF HashHash
<1> HIDE DEF h
<1>2. \A d \in Nat : Probed(C, address, d) = (h + d) % C
  BY DEF Probed, h
<1>3. ASSUME NEW d \in Nat
      PROVE  /\ Probed(C, address, d) \in 0..(C - 1)
             /\ d % C \in 0..(C - 1) /\ d % C <= d
             /\ Probed(C, address, d % C) = Probed(C, address, d)
  <2>1. d % C \in 0..(C - 1)
    BY Division
  <2>2. d % C <= d
    <3>1. PICK q \in Nat : d = C * q + (d % C)
      BY Division
    <3>2. C * q \in Nat
      OBVIOUS
    <3> QED
      BY <2>1, <3>1, <3>2
  <2>3. (h + d) % C \in 0..(C - 1)
    <3>1. h + d \in Nat
      BY <1>1
    <3> QED
      BY <3>1, Division
  <2>4. ((d % C) + h) % C = (d + h) % C
    <3>1. h \in Nat
      BY <1>1
    <3> QED
      BY <3>1, RemainderOfSum
  <2>5. h + d = d + h /\ (d % C) + h = h + (d % C) /\ d % C \in Nat
    BY <1>1, <2>1
  <2> QED
    BY <1>2, <2>1, <2>2, <2>3, <2>4, <2>5
<1>4. ASSUME NEW s \in 0..(C - 1)
      PROVE  \E d \in 0..(C - 1) : Probed(C, address, d) = s
  <2>1. PICK d \in 0..(C - 1) : (h + d) % C = s
    BY <1>1, EveryBucketIsProbed
  <2>2. d \in Nat
    OBVIOUS
  <2> QED
    BY <1>2, <2>1, <2>2
<1> QED
  BY <1>3, <1>4

(* Two probes that meet go on together. *)
LEMMA SameWay ==
  ASSUME NEW C \in Nat \ {0}, NEW a \in Addresses, NEW b \in Addresses,
         NEW f \in Nat, NEW d \in Nat, Probed(C, a, f) = Probed(C, b, d)
  PROVE  \A i \in Nat : Probed(C, a, f + i) = Probed(C, b, d + i)
<1>1. ASSUME NEW x \in Addresses, NEW n \in Nat, NEW i \in Nat
      PROVE  Probed(C, x, n + i) = (Probed(C, x, n) + i) % C
  <2>1. HashHash(x, C) \in Nat
    <3>1. AddressHash[x] \in Nat
      BY MemoryAssumption
    <3>2. HashHash(x, C) \in 0..(C - 1)
      BY <3>1, Division DEF HashHash
    <3> QED
      BY <3>2
  <2>2. HashHash(x, C) + n \in Nat
    BY <2>1
  <2>3. (((HashHash(x, C) + n) % C) + i) % C = ((HashHash(x, C) + n) + i) % C
    BY <2>2, RemainderOfSum
  <2>4. (HashHash(x, C) + n) + i = HashHash(x, C) + (n + i)
    BY <2>1
  <2> QED
    BY <2>3, <2>4 DEF Probed
<1> TAKE i \in Nat
<1>2. Probed(C, a, f + i) = (Probed(C, a, f) + i) % C
  BY <1>1
<1>3. Probed(C, b, d + i) = (Probed(C, b, d) + i) % C
  BY <1>1
<1> QED
  BY <1>2, <1>3

LEMMA TableFacts ==
  ASSUME NEW C \in Nat \ {0}, NEW t \in Tables(C)
  PROVE  /\ DOMAIN t.memory = 0..(C - 1)
         /\ t.memory \in [0..(C - 1) -> Buckets] /\ t.count \in Nat
         /\ \A s \in 0..(C - 1) : t.memory[s].occupied \in {0, 1, 2}
         /\ Table!Capacity(t) = C
         /\ Table!MaxFill(t) = (C * 85) \div 100
         /\ IsFiniteSet(Used(t)) /\ Cardinality(Used(t)) \in Nat
         /\ IsFiniteSet(Held(t)) /\ Cardinality(Held(t)) \in Nat
         /\ Held(t) \subseteq Used(t) /\ Cardinality(Held(t)) <= Cardinality(Used(t))
<1>1. DOMAIN t.memory = 0..(C - 1) /\ t.memory \in [0..(C - 1) -> Buckets] /\ t.count \in Nat
  BY DEF Tables
<1>2. \A s \in 0..(C - 1) : t.memory[s].occupied \in {0, 1, 2}
  BY <1>1, BucketFacts
<1>3. IsFiniteSet(0..(C - 1)) /\ Cardinality(0..(C - 1)) = C
  BY FS_Interval
<1>4. Table!Capacity(t) = C
  BY <1>1, <1>3 DEF Table!Capacity, Table!Cardinality, Cardinality
<1>5. Table!MaxFill(t) = (C * 85) \div 100
  BY <1>4 DEF Table!MaxFill
<1>6. Used(t) \subseteq 0..(C - 1) /\ Held(t) \subseteq Used(t)
  BY <1>1 DEF Used, Held
<1>7. IsFiniteSet(Used(t))
  BY <1>3, <1>6, FS_Subset
<1>8. IsFiniteSet(Held(t)) /\ Cardinality(Held(t)) <= Cardinality(Used(t))
  BY <1>6, <1>7, FS_Subset
<1>9. Cardinality(Used(t)) \in Nat /\ Cardinality(Held(t)) \in Nat
  BY <1>7, <1>8, FS_CardinalityType
<1> QED
  BY <1>1, <1>2, <1>4, <1>5, <1>6, <1>7, <1>8, <1>9

LEMMA FillFacts ==
  ASSUME NEW C \in Nat \ {0}
  PROVE  /\ (C * 85) \div 100 \in Nat
         /\ (C * 85) \div 100 < C
         /\ (C * 85) \div 100 + 1 <= (2 * C * 85) \div 100
OBVIOUS

(* A table below its limit has a free bucket.                              *)
LEMMA FreeBucket ==
  ASSUME NEW C \in Nat \ {0}, NEW t \in Tables(C), Cardinality(Used(t)) < C
  PROVE  \E s \in 0..(C - 1) : t.memory[s].occupied = 0
<1>1. IsFiniteSet(0..(C - 1)) /\ Cardinality(0..(C - 1)) = C
  BY FS_Interval
<1>2. Used(t) # 0..(C - 1)
  BY <1>1, TableFacts
<1> QED
  BY <1>2, TableFacts DEF Used

(* Where hash_table_add puts a record: in a bucket without one, which a    *)
(* probe for the address reaches.                                          *)
LEMMA PlaceFacts ==
  ASSUME NEW C \in Nat \ {0}, NEW t \in Tables(C), Cardinality(Used(t)) < C,
         NEW address \in Addresses
  PROVE  \E s \in 0..(C - 1) :
           /\ t.memory[s].occupied # 1
           /\ Table!Place(t, address, "record") =
                [memory |-> [t.memory EXCEPT ![s] = Table!Occupied(address, "record")],
                 count |-> t.count + 1]
           /\ \E d \in Nat :
                /\ s = Probed(C, address, d)
                /\ \A e \in 0..(d - 1) : t.memory[Probed(C, address, e)].occupied = 1
<1> DEFINE open == {d \in 0..(C - 1) : t.memory[Probed(C, address, d)].occupied # 1}
           s == Probed(C, address, Min(open))
<1>1. PICK f \in 0..(C - 1) : t.memory[f].occupied = 0
  BY FreeBucket
<1>2. PICK d0 \in 0..(C - 1) : Probed(C, address, d0) = f
  BY ProbedFacts
<1>3. d0 \in open
  BY <1>1, <1>2
<1>4. open \subseteq Nat /\ open # {}
  BY <1>3
<1>5. Min(open) \in open /\ \A y \in open : Min(open) <= y
  BY <1>4, MinFacts
<1>6. Table!Place(t, address, "record") =
                [memory |-> [t.memory EXCEPT ![s] = Table!Occupied(address, "record")],
                 count |-> t.count + 1]
  <2>1. Table!Capacity(t) = C
    BY TableFacts
  <2>2. Table!Min(open) = Min(open)
    BY DEF Table!Min, Min
  <2>3. open = {d \in 0..(C - 1) : t.memory[(HashHash(address, C) + d) % C].occupied # 1}
    BY DEF Probed
  <2>4. s = (HashHash(address, C) + Table!Min(open)) % C
    BY <2>2 DEF Probed
  <2> HIDE DEF open, s
  <2> QED
    BY <2>1, <2>3, <2>4 DEF Table!Place
<1> DEFINE d == Min(open)
<1>7. d \in Nat /\ d \in 0..(C - 1) /\ t.memory[Probed(C, address, d)].occupied # 1
  BY <1>5
<1>8. ASSUME NEW e \in 0..(d - 1) PROVE t.memory[Probed(C, address, e)].occupied = 1
  <2>1. e \in 0..(C - 1) /\ ~(d <= e)
    BY <1>7
  <2> QED
    BY <1>5, <2>1
<1>9. s \in 0..(C - 1)
  BY <1>7, ProbedFacts
<1> QED
  BY <1>6, <1>7, <1>8, <1>9

(* Where a lookup stops: at the first bucket that is no tombstone.         *)
LEMMA ProbeFacts ==
  ASSUME NEW C \in Nat \ {0}, NEW t \in Tables(C), Cardinality(Used(t)) < C,
         NEW address \in Addresses
  PROVE  \E d \in 0..(C - 1) :
           /\ Table!Probe(t, address) = Probed(C, address, d)
           /\ t.memory[Probed(C, address, d)].occupied # 2
           /\ \A e \in 0..(C - 1) :
                t.memory[Probed(C, address, e)].occupied # 2 => d <= e
<1> DEFINE stops == {d \in 0..(C - 1) : t.memory[Probed(C, address, d)].occupied # 2}
<1>1. PICK f \in 0..(C - 1) : t.memory[f].occupied = 0
  BY FreeBucket
<1>2. PICK d0 \in 0..(C - 1) : Probed(C, address, d0) = f
  BY ProbedFacts
<1>3. d0 \in stops
  BY <1>1, <1>2
<1>4. stops \subseteq Nat /\ stops # {}
  BY <1>3
<1>5. Min(stops) \in stops /\ \A y \in stops : Min(stops) <= y
  BY <1>4, MinFacts
<1>6. Table!Stops(t, address) = stops
  <2>1. \A b : Table!HashCompare(b, address) <=> b.occupied = 2
    BY DEF Table!HashCompare, KeyLength
  <2> QED
    BY <2>1, TableFacts DEF Table!Stops, Probed
<1>7. Table!Probe(t, address) = Probed(C, address, Min(stops))
  <2>1. Table!Min(stops) = Min(stops)
    BY DEF Table!Min, Min
  <2> QED
    BY <1>6, <2>1, TableFacts DEF Table!Probe, Table!Slot, Probed
<1> QED
  BY <1>5, <1>7

(* A lookup whose way to a record is not cut off finds one, and what it    *)
(* finds is on that way.                                                   *)
LEMMA FoundOnTheWay ==
  ASSUME NEW C \in Nat \ {0}, NEW t \in Tables(C), Cardinality(Used(t)) < C,
         NEW address \in Addresses,
         NEW slot \in Held(t), Reaches(t, C, address, slot)
  PROVE  /\ Table!Probe(t, address) \in Held(t)
         /\ \E d \in Nat, k \in Nat :
              /\ Table!Probe(t, address) = Probed(C, address, d)
              /\ slot = Probed(C, address, d + k)
              /\ \A e \in 0..(d + k) : t.memory[Probed(C, address, e)].occupied # 0
<1>1. PICK g \in Nat :
        /\ slot = Probed(C, address, g)
        /\ \A e \in 0..g : t.memory[Probed(C, address, e)].occupied # 0
  BY DEF Reaches
<1>2. PICK d \in 0..(C - 1) :
        /\ Table!Probe(t, address) = Probed(C, address, d)
        /\ t.memory[Probed(C, address, d)].occupied # 2
        /\ \A e \in 0..(C - 1) :
             t.memory[Probed(C, address, e)].occupied # 2 => d <= e
  BY ProbeFacts
<1>3. g % C \in 0..(C - 1) /\ g % C <= g /\ Probed(C, address, g % C) = slot
  BY <1>1, ProbedFacts
<1>4. t.memory[slot].occupied = 1
  BY DEF Held
<1>5. d <= g
  <2>1. d <= g % C
    BY <1>2, <1>3, <1>4
  <2> QED
    BY <1>3, <2>1
<1>6. t.memory[Probed(C, address, d)].occupied # 0
  BY <1>1, <1>5
<1>7. Probed(C, address, d) \in 0..(C - 1) /\ d \in Nat
  BY ProbedFacts
<1>8. Table!Probe(t, address) \in Held(t)
  <2>1. DOMAIN t.memory = 0..(C - 1)
        /\ \A s \in 0..(C - 1) : t.memory[s].occupied \in {0, 1, 2}
    BY TableFacts
  <2>2. t.memory[Probed(C, address, d)].occupied = 1
    BY <1>2, <1>6, <1>7, <2>1
  <2> QED
    BY <1>2, <1>7, <2>1, <2>2 DEF Held
<1>9. PICK k \in Nat : d + k = g
  <2>1. g - d \in Nat /\ d + (g - d) = g
    BY <1>5, <1>7
  <2> QED
    BY <2>1
<1>10. /\ slot = Probed(C, address, d + k)
       /\ \A e \in 0..(d + k) : t.memory[Probed(C, address, e)].occupied # 0
  BY Zenon, <1>1, <1>9
<1> QED
  BY Zenon, <1>2, <1>7, <1>8, <1>10
-----------------------------------------------------------------------------
(* Records for addresses *)

(* Every address has a record of its own on the way of its probes.  It     *)
(* need not be the one a lookup finds, nor the one that was added for it.  *)
Paired(t, C, addresses) ==
  \E m \in [addresses -> Held(t)] :
    /\ \A a, b \in addresses : a # b => m[a] # m[b]
    /\ \A a \in addresses : Reaches(t, C, a, m[a])

LEMMA PairedSubset ==
  ASSUME NEW C, NEW t, NEW L, NEW K \in SUBSET L, Paired(t, C, L)
  PROVE  Paired(t, C, K)
<1>1. PICK m \in [L -> Held(t)] :
        /\ \A a, b \in L : a # b => m[a] # m[b]
        /\ \A a \in L : Reaches(t, C, a, m[a])
  BY DEF Paired
<1> DEFINE n == [a \in K |-> m[a]]
<1>2. n \in [K -> Held(t)] /\ \A a \in K : n[a] = m[a]
  OBVIOUS
<1> HIDE DEF n
<1>3. \A a, b \in K : a # b => n[a] # n[b]
  BY <1>1, <1>2
<1>4. \A a \in K : Reaches(t, C, a, n[a])
  BY <1>1, <1>2
<1> QED
  BY <1>2, <1>3, <1>4 DEF Paired

(* Buckets that do not become free cut off no probe.                       *)
LEMMA ReachesKept ==
  ASSUME NEW C \in Nat \ {0}, NEW t, NEW u, NEW a \in Addresses, NEW s,
         Reaches(t, C, a, s),
         \A i \in 0..(C - 1) : t.memory[i].occupied # 0 => u.memory[i].occupied # 0
  PROVE  Reaches(u, C, a, s)
<1>1. PICK d \in Nat :
        /\ s = Probed(C, a, d)
        /\ \A e \in 0..d : t.memory[Probed(C, a, e)].occupied # 0
  BY DEF Reaches
<1>2. ASSUME NEW e \in 0..d PROVE u.memory[Probed(C, a, e)].occupied # 0
  <2>1. Probed(C, a, e) \in 0..(C - 1)
    BY ProbedFacts
  <2> QED
    BY <1>1, <2>1
<1> QED
  BY <1>1, <1>2 DEF Reaches

(* What adding a record does. *)
LEMMA AddFacts ==
  ASSUME NEW C \in Nat \ {0}, NEW t \in Tables(C), Cardinality(Used(t)) < C,
         NEW address \in Addresses,
         NEW u, u = Table!Place(t, address, "record")
  PROVE  /\ u \in Tables(C)
         /\ u.count = t.count + 1
         /\ Cardinality(Used(u)) <= Cardinality(Used(t)) + 1
         /\ Cardinality(Held(u)) = Cardinality(Held(t)) + 1
         /\ \A L \in SUBSET Addresses :
              address \notin L /\ Paired(t, C, L) => Paired(u, C, L \cup {address})
<1>1. PICK s \in 0..(C - 1) :
        /\ t.memory[s].occupied # 1
        /\ u = [memory |-> [t.memory EXCEPT ![s] = Table!Occupied(address, "record")],
                count |-> t.count + 1]
        /\ \E d \in Nat :
             /\ s = Probed(C, address, d)
             /\ \A e \in 0..(d - 1) : t.memory[Probed(C, address, e)].occupied = 1
  BY PlaceFacts
<1> DEFINE b == Table!Occupied(address, "record")
<1>2. b \in Buckets /\ b.occupied = 1
  BY BucketFacts
<1> HIDE DEF b
<1>3. /\ DOMAIN t.memory = 0..(C - 1) /\ t.memory \in [0..(C - 1) -> Buckets]
      /\ t.count \in Nat
  BY TableFacts
<1>4. u = [memory |-> [t.memory EXCEPT ![s] = b], count |-> t.count + 1]
  BY <1>1 DEF b
<1>5. u \in Tables(C) /\ u.count = t.count + 1
  BY <1>2, <1>3, <1>4 DEF Tables
<1>6. /\ u.memory \in [0..(C - 1) -> Buckets] /\ DOMAIN u.memory = 0..(C - 1)
      /\ u.memory[s] = b
      /\ \A i \in 0..(C - 1) : i # s => u.memory[i] = t.memory[i]
  BY <1>2, <1>3, <1>4
<1>7. Used(u) = Used(t) \cup {s}
  BY <1>2, <1>3, <1>6 DEF Used
<1>8. Held(u) = Held(t) \cup {s} /\ s \notin Held(t)
  BY <1>1, <1>2, <1>3, <1>6 DEF Held
<1>9. Cardinality(Used(u)) <= Cardinality(Used(t)) + 1
  <2>1. IsFiniteSet(Used(t)) /\ Cardinality(Used(t)) \in Nat
    BY TableFacts
  <2> QED
    BY <1>7, <2>1, FS_AddElement
<1>10. Cardinality(Held(u)) = Cardinality(Held(t)) + 1
  BY <1>8, TableFacts, FS_AddElement
<1>11. \A i \in 0..(C - 1) : t.memory[i].occupied # 0 => u.memory[i].occupied # 0
  BY <1>2, <1>6
<1>12. Reaches(u, C, address, s)
  <2>1. PICK d \in Nat :
          /\ s = Probed(C, address, d)
          /\ \A e \in 0..(d - 1) : t.memory[Probed(C, address, e)].occupied = 1
    BY <1>1
  <2>2. ASSUME NEW e \in 0..d PROVE u.memory[Probed(C, address, e)].occupied # 0
    <3>1. CASE e = d
      BY <1>2, <1>6, <2>1, <3>1
    <3>2. CASE e # d
      <4>1. e \in 0..(d - 1)
        BY <3>2
      <4>2. Probed(C, address, e) \in 0..(C - 1)
        BY ProbedFacts
      <4> QED
        BY <1>11, <2>1, <4>1, <4>2
    <3> QED
      BY <3>1, <3>2
  <2> QED
    BY <2>1, <2>2 DEF Reaches
<1>13. ASSUME NEW L \in SUBSET Addresses, address \notin L, Paired(t, C, L)
       PROVE  Paired(u, C, L \cup {address})
  <2>1. PICK m \in [L -> Held(t)] :
          /\ \A a, c \in L : a # c => m[a] # m[c]
          /\ \A a \in L : Reaches(t, C, a, m[a])
    BY <1>13 DEF Paired
  <2> DEFINE n == [a \in L \cup {address} |-> IF a = address THEN s ELSE m[a]]
  <2>2. /\ n \in [L \cup {address} -> Held(u)]
        /\ n[address] = s /\ \A a \in L : n[a] = m[a] /\ n[a] \in Held(t)
    BY <1>8, <1>13
  <2> HIDE DEF n
  <2>3. \A a, c \in L \cup {address} : a # c => n[a] # n[c]
    BY <1>8, <2>1, <2>2
  <2>4. ASSUME NEW a \in L \cup {address} PROVE Reaches(u, C, a, n[a])
    <3>1. CASE a = address
      BY <1>12, <2>2, <3>1
    <3>2. CASE a \in L
      <4>1. Reaches(t, C, a, n[a]) /\ a \in Addresses
        BY <2>1, <2>2, <3>2
      <4> QED
        BY <1>11, <4>1, ReachesKept
    <3> QED
      BY <3>1, <3>2
  <2> QED
    BY <2>2, <2>3, <2>4 DEF Paired
<1> QED
  BY <1>5, <1>9, <1>10, <1>13

(* What removing a record does.  The record found for an address may be    *)
(* the one paired with another; that one gets the address's own instead,   *)
(* which lies further on the same way.                                     *)
LEMMA RemoveFacts ==
  ASSUME NEW C \in Nat \ {0}, NEW t \in Tables(C), Cardinality(Used(t)) < C,
         NEW address \in Addresses,
         Table!Get(t, address).occupied = 1,
         NEW u, u = Table!Remove(t, address)
  PROVE  /\ u \in Tables(C)
         /\ u.count = t.count
         /\ Cardinality(Used(u)) = Cardinality(Used(t))
         /\ Cardinality(Held(u)) = Cardinality(Held(t)) - 1
         /\ \A L \in SUBSET Addresses :
              address \in L /\ Paired(t, C, L) => Paired(u, C, L \ {address})
<1> DEFINE s == Table!Probe(t, address)
<1>1. s \in 0..(C - 1) /\ t.memory[s].occupied = 1
  BY ProbeFacts, ProbedFacts DEF Table!Get
<1>2. u = [t EXCEPT !.memory = [@ EXCEPT ![s] = Table!Tombstone]]
  BY DEF Table!Remove
<1> HIDE DEF s
<1> DEFINE b == Table!Tombstone
<1>3. b \in Buckets /\ b.occupied = 2
  BY BucketFacts
<1>4. u = [t EXCEPT !.memory = [@ EXCEPT ![s] = b]]
  BY <1>2
<1> HIDE DEF b
<1>5. /\ DOMAIN t.memory = 0..(C - 1) /\ t.memory \in [0..(C - 1) -> Buckets]
      /\ t.count \in Nat
  BY TableFacts
<1>6. u.count = t.count /\ u.memory = [t.memory EXCEPT ![s] = b] /\ u \in Tables(C)
  BY <1>1, <1>3, <1>4, <1>5 DEF Tables
<1>7. /\ DOMAIN u.memory = 0..(C - 1)
      /\ u.memory[s] = b
      /\ \A i \in 0..(C - 1) : i # s => u.memory[i] = t.memory[i]
  BY <1>1, <1>3, <1>5, <1>6
<1>8. Used(u) = Used(t)
  BY <1>1, <1>3, <1>5, <1>7 DEF Used
<1>9. Held(u) = Held(t) \ {s} /\ s \in Held(t)
  BY <1>1, <1>3, <1>5, <1>7 DEF Held
<1>10. Cardinality(Held(u)) = Cardinality(Held(t)) - 1
  BY <1>9, TableFacts, FS_RemoveElement
<1>11. \A i \in 0..(C - 1) : t.memory[i].occupied # 0 => u.memory[i].occupied # 0
  BY <1>1, <1>3, <1>7
<1>12. ASSUME NEW L \in SUBSET Addresses, address \in L, Paired(t, C, L)
       PROVE  Paired(u, C, L \ {address})
  <2>1. PICK m \in [L -> Held(t)] :
          /\ \A a, c \in L : a # c => m[a] # m[c]
          /\ \A a \in L : Reaches(t, C, a, m[a])
    BY <1>12 DEF Paired
  <2> DEFINE own == m[address]
             n == [a \in L \ {address} |-> IF m[a] = s THEN own ELSE m[a]]
  <2>2. own \in Held(t) /\ Reaches(t, C, address, own)
    BY <1>12, <2>1
  <2>3. ASSUME NEW a \in L \ {address}
        PROVE  n[a] \in Held(u) /\ n[a] = IF m[a] = s THEN own ELSE m[a]
    BY <1>9, <1>12, <2>1
  <2>4. n \in [L \ {address} -> Held(u)]
    BY <2>3
  <2>5. \A a, c \in L \ {address} : a # c => n[a] # n[c]
    BY <1>12, <2>1, <2>3
  <2> HIDE DEF n
  <2>6. ASSUME NEW a \in L \ {address} PROVE Reaches(t, C, a, n[a])
    <3>1. CASE m[a] # s
      BY <2>1, <2>3, <3>1
    <3>2. CASE m[a] = s
      <4>1. PICK f \in Nat :
              /\ s = Probed(C, a, f)
              /\ \A e \in 0..f : t.memory[Probed(C, a, e)].occupied # 0
        BY <2>1, <3>2 DEF Reaches
      <4>2. PICK d \in Nat, k \in Nat :
              /\ s = Probed(C, address, d)
              /\ own = Probed(C, address, d + k)
              /\ \A e \in 0..(d + k) : t.memory[Probed(C, address, e)].occupied # 0
        BY <2>2, FoundOnTheWay DEF s
      <4>3. \A i \in Nat : Probed(C, a, f + i) = Probed(C, address, d + i)
        <5>1. Probed(C, a, f) = Probed(C, address, d) /\ a \in Addresses
          BY <4>1, <4>2
        <5> QED
          BY <5>1, SameWay
      <4>4. own = Probed(C, a, f + k) /\ f + k \in Nat
        BY <4>2, <4>3
      <4>5. ASSUME NEW e \in 0..(f + k) PROVE t.memory[Probed(C, a, e)].occupied # 0
        <5>1. CASE e <= f
          BY <4>1, <5>1
        <5>2. CASE e > f
          <6>1. e - f \in Nat /\ f + (e - f) = e /\ d + (e - f) \in 0..(d + k)
            BY <5>2
          <6>2. Probed(C, a, e) = Probed(C, address, d + (e - f))
            BY <4>3, <6>1
          <6> QED
            BY <4>2, <6>1, <6>2
        <5> QED
          BY <5>1, <5>2
      <4> QED
        BY <2>3, <3>2, <4>4, <4>5 DEF Reaches
    <3> QED
      BY <3>1, <3>2
  <2>7. ASSUME NEW a \in L \ {address} PROVE Reaches(u, C, a, n[a])
    <3>1. a \in Addresses
      OBVIOUS
    <3> QED
      BY <1>11, <2>6, <3>1, ReachesKept
  <2> QED
    BY <2>4, <2>5, <2>7 DEF Paired
<1> QED
  BY <1>6, <1>8, <1>10, <1>12

(* What growing does: every record is kept, in some bucket. *)
LEMMA ScatteredFacts ==
  ASSUME NEW C \in Nat \ {0}, NEW t \in Tables(C), NEW u \in Scattered(t)
  PROVE  /\ u \in Tables(2 * C)
         /\ u.count = Cardinality(Held(t))
         /\ Cardinality(Used(u)) = u.count
         /\ Cardinality(Held(u)) = Cardinality(Held(t))
<1> DEFINE D == 2 * C
           b == Table!Occupied("gone", "record")
           f == Table!Free
<1>1. D \in Nat \ {0} /\ b \in Buckets /\ b.occupied = 1 /\ f \in Buckets /\ f.occupied = 0
  BY BucketFacts
<1>2. PICK slots \in SUBSET (0..(D - 1)) :
        /\ Cardinality(slots) = Cardinality(Held(t))
        /\ u = [memory |-> [s \in 0..(D - 1) |-> IF s \in slots THEN b ELSE f],
                count |-> Cardinality(Held(t))]
  BY TableFacts DEF Scattered, kSubset
<1> HIDE DEF D, b, f
<1>3. Cardinality(Held(t)) \in Nat
  BY TableFacts
<1>4. u \in Tables(D) /\ u.count = Cardinality(Held(t))
  BY <1>1, <1>2, <1>3 DEF Tables
<1>5. /\ DOMAIN u.memory = 0..(D - 1)
      /\ \A s \in 0..(D - 1) : u.memory[s] = IF s \in slots THEN b ELSE f
  BY <1>2
<1>6. Used(u) = slots /\ Held(u) = slots
  <2>1. slots \subseteq 0..(D - 1)
    OBVIOUS
  <2>2. \A s \in 0..(D - 1) : /\ u.memory[s].occupied # 0 <=> s \in slots
                              /\ u.memory[s].occupied = 1 <=> s \in slots
    BY <1>1, <1>5
  <2> QED
    BY <1>5, <2>1, <2>2 DEF Used, Held
<1> QED
  BY <1>2, <1>4, <1>6 DEF D
-----------------------------------------------------------------------------
(* The inductive invariant *)

(* The table is below its limit, so a probe ends; it has a record for each *)
(* address in use and each move.  Before it grows these are paired: each   *)
(* address in use reaches a record of its own.                             *)
RecordInv ==
  /\ live \in SUBSET Addresses /\ IsFiniteSet(live)
  /\ moved \in Nat
  /\ Cardinality(Held(table)) >= Cardinality(live) + moved
  /\ \E C \in Nat \ {0} :
       /\ table \in Tables(C)
       /\ Cardinality(Used(table)) <= table.count
       /\ table.count <= (C * 85) \div 100
       /\ ~grown => /\ Cardinality(Held(table)) = Cardinality(live) + moved
                    /\ Paired(table, C, live)

LEMMA InitRecordInv ==
  ASSUME Init
  PROVE  RecordInv
<1> DEFINE C == RECORD_BUCKETS
<1>1. C \in Nat \ {0}
  BY MemoryAssumption
<1>2. table = [memory |-> [s \in 0..(C - 1) |-> Table!Free], count |-> 0]
  BY DEF Init, Table!Alloc
<1> HIDE DEF C
<1> DEFINE f == Table!Free
<1>3. f \in Buckets /\ f.occupied = 0
  BY BucketFacts
<1>4. table = [memory |-> [s \in 0..(C - 1) |-> f], count |-> 0]
  BY <1>2
<1> HIDE DEF f
<1>5. table \in Tables(C) /\ table.count = 0
  BY <1>3, <1>4 DEF Tables
<1>6. Used(table) = {} /\ Held(table) = {}
  BY <1>3, <1>4 DEF Used, Held
<1>7. Cardinality(Used(table)) = 0 /\ Cardinality(Held(table)) = 0
  BY <1>6, FS_EmptySet
<1>8. live = {} /\ IsFiniteSet(live) /\ Cardinality(live) = 0 /\ moved = 0
  BY FS_EmptySet DEF Init
<1>9. Paired(table, C, live)
  <2>1. [a \in {} |-> a] \in [{} -> Held(table)]
    OBVIOUS
  <2> QED
    BY <1>8, <2>1 DEF Paired
<1>10. (C * 85) \div 100 \in Nat
  BY <1>1, FillFacts
<1> QED
  BY <1>1, <1>5, <1>7, <1>8, <1>9, <1>10 DEF RecordInv

LEMMA BelowLimit ==
  ASSUME NEW C \in Nat \ {0}, table \in Tables(C),
         Cardinality(Used(table)) <= table.count,
         table.count <= (C * 85) \div 100
  PROVE  Cardinality(Used(table)) < C
<1>1. table.count \in Nat /\ Cardinality(Used(table)) \in Nat
  BY TableFacts
<1>2. (C * 85) \div 100 \in Nat /\ (C * 85) \div 100 < C
  BY FillFacts
<1> QED
  BY <1>1, <1>2

LEMMA PairedRecorded ==
  ASSUME NEW C \in Nat \ {0}, table \in Tables(C),
         Cardinality(Used(table)) <= table.count,
         table.count <= (C * 85) \div 100,
         live \in SUBSET Addresses, Paired(table, C, live)
  PROVE  \A address \in live : Recorded(address)
<1> TAKE address \in live
<1>1. PICK m \in [live -> Held(table)] : \A a \in live : Reaches(table, C, a, m[a])
  BY DEF Paired
<1>2. Table!Probe(table, address) \in Held(table)
  BY <1>1, BelowLimit, FoundOnTheWay
<1> QED
  BY <1>2 DEF Recorded, Table!Get, Held

(* memory_add, when the program comes to hold new_addr and the addresses   *)
(* it held before are paired: K are those it still holds, and more is how  *)
(* many records of moved blocks are left behind.                           *)
LEMMA MemoryAddInv ==
  ASSUME RecordInv, NEW address \in Addresses, NEW K \in SUBSET live, address \notin K,
         MemoryAdd(address), live' = K \cup {address}, moved' \in Nat,
         Cardinality(K) + moved' = Cardinality(live) + moved
  PROVE  RecordInv'
<1>1. PICK C \in Nat \ {0} :
       /\ table \in Tables(C)
       /\ Cardinality(Used(table)) <= table.count
       /\ table.count <= (C * 85) \div 100
       /\ ~grown => /\ Cardinality(Held(table)) = Cardinality(live) + moved
                    /\ Paired(table, C, live)
  BY DEF RecordInv
<1> DEFINE placed == Table!Place(table, address, "record")
           fill == (C * 85) \div 100
<1>2. table.count \in Nat /\ Cardinality(Used(table)) \in Nat /\ Cardinality(Held(table)) \in Nat
      /\ Table!MaxFill(table) = fill
  BY <1>1, TableFacts
<1>3. fill \in Nat /\ fill < C /\ fill + 1 <= (2 * C * 85) \div 100
  BY FillFacts
<1>4. Cardinality(Used(table)) < C
  BY <1>1, <1>2, <1>3
<1>5. /\ placed \in Tables(C)
      /\ placed.count = table.count + 1
      /\ Cardinality(Used(placed)) <= Cardinality(Used(table)) + 1
      /\ Cardinality(Held(placed)) = Cardinality(Held(table)) + 1
      /\ \A L \in SUBSET Addresses :
              address \notin L /\ Paired(table, C, L) => Paired(placed, C, L \cup {address})
  BY <1>1, <1>4, AddFacts
<1>6. \/ placed.count <= fill /\ table' = placed /\ UNCHANGED grown
      \/ placed.count > fill /\ table' \in Scattered(placed) /\ grown' = TRUE
  BY <1>2 DEF MemoryAdd
<1> HIDE DEF placed, fill
<1>7. /\ K \in SUBSET Addresses /\ IsFiniteSet(live) /\ moved \in Nat
      /\ Cardinality(Held(table)) >= Cardinality(live) + moved
  BY DEF RecordInv
<1>8. /\ IsFiniteSet(live') /\ Cardinality(live') = Cardinality(K) + 1
      /\ Cardinality(live) \in Nat /\ Cardinality(K) \in Nat /\ live' \in SUBSET Addresses
  <2>1. IsFiniteSet(K)
    BY <1>7, FS_Subset
  <2> QED
    BY <1>7, <2>1, FS_AddElement, FS_CardinalityType
<1>9. Cardinality(live') + moved' = Cardinality(live) + moved + 1
  BY <1>7, <1>8
<1>10. CASE placed.count <= fill /\ table' = placed /\ UNCHANGED grown
  <2>1. Cardinality(Used(placed)) <= placed.count /\ Cardinality(Used(placed)) \in Nat
    BY <1>1, <1>2, <1>5, TableFacts
  <2>2. Cardinality(Held(table')) >= Cardinality(live') + moved'
    BY <1>2, <1>5, <1>7, <1>8, <1>9, <1>10
  <2>3. ASSUME ~grown'
        PROVE  /\ Cardinality(Held(table')) = Cardinality(live') + moved'
               /\ Paired(table', C, live')
    <3>1. /\ Cardinality(Held(table)) = Cardinality(live) + moved
          /\ Paired(table, C, K)
      BY <1>1, <1>10, <2>3, PairedSubset
    <3> QED
      BY <1>2, <1>5, <1>7, <1>8, <1>9, <1>10, <3>1
  <2> QED
    BY <1>5, <1>8, <1>10, <2>1, <2>2, <2>3 DEF RecordInv, Used, Held, fill
<1>11. CASE placed.count > fill /\ table' \in Scattered(placed) /\ grown' = TRUE
  <2>1. /\ table' \in Tables(2 * C) /\ table'.count = Cardinality(Held(placed))
        /\ Cardinality(Used(table')) = table'.count
        /\ Cardinality(Held(table')) = Cardinality(Held(placed))
    BY <1>5, <1>11, ScatteredFacts
  <2>2. Cardinality(Held(placed)) <= Cardinality(Used(placed))
        /\ Cardinality(Held(placed)) \in Nat /\ Cardinality(Used(placed)) \in Nat
    BY <1>5, TableFacts
  <2>3. table'.count <= fill + 1
    BY <1>1, <1>2, <1>3, <1>5, <2>1, <2>2 DEF fill
  <2> DEFINE D == 2 * C
  <2>4. D \in Nat \ {0} /\ (D * 85) \div 100 = (2 * C * 85) \div 100
    OBVIOUS
  <2>5. D \in Nat \ {0} /\ table' \in Tables(D)
        /\ table'.count <= (D * 85) \div 100
    <3>1. (2 * C * 85) \div 100 \in Int
      OBVIOUS
    <3> QED
      BY <1>3, <2>1, <2>2, <2>3, <2>4, <3>1
  <2> HIDE DEF D
  <2>6. Cardinality(Held(table')) >= Cardinality(live') + moved'
    BY <1>2, <1>5, <1>7, <1>8, <1>9, <2>1
  <2>7. Cardinality(Used(table')) <= table'.count
    BY <2>1, <2>2
  <2> QED
    BY <1>8, <1>11, <2>5, <2>6, <2>7 DEF RecordInv, Used, Held
<1> QED
  BY <1>6, <1>10, <1>11

LEMMA NextRecordInv ==
  ASSUME RecordInv, [Next]_vars
  PROVE  RecordInv'
<1>1. /\ live \in SUBSET Addresses /\ IsFiniteSet(live) /\ Cardinality(live) \in Nat
      /\ moved \in Nat
      /\ Cardinality(Held(table)) >= Cardinality(live) + moved
  BY FS_CardinalityType DEF RecordInv
<1>2. ASSUME NEW address \in Addresses, Malloc(address)
      PROVE  RecordInv'
  BY <1>1, <1>2, MemoryAddInv DEF Malloc
<1>3. ASSUME NEW address \in Addresses, NEW new_addr \in Addresses,
             Realloc(address, new_addr)
      PROVE  RecordInv'
  <2> DEFINE K == live \ {address}
  <2>1. K \in SUBSET live /\ new_addr \notin K /\ live' = K \cup {new_addr}
        /\ address \in live /\ new_addr \notin live
    BY <1>3 DEF Realloc
  <2>2. Cardinality(K) = Cardinality(live) - 1 /\ IsFiniteSet(K)
    BY <1>1, <2>1, FS_RemoveElement
  <2>3. /\ IsFiniteSet(live') /\ Cardinality(live') = Cardinality(live)
        /\ live' \in SUBSET Addresses
    <3>1. /\ IsFiniteSet(K \cup {new_addr})
          /\ Cardinality(K \cup {new_addr}) = Cardinality(K) + 1
      BY <2>1, <2>2, FS_AddElement
    <3> QED
      BY <1>1, <2>1, <2>2, <3>1
  <2> HIDE DEF K
  <2>4. CASE MemoryAdd(new_addr) /\ moved' = moved + 1
    <3>1. moved' \in Nat /\ Cardinality(K) + moved' = Cardinality(live) + moved
      BY <1>1, <2>2, <2>4
    <3> QED
      BY <2>1, <2>4, <3>1, MemoryAddInv
  <2>5. CASE ~Recorded(address) /\ UNCHANGED <<table, moved, adds, grown>>
    <3>1. PICK C \in Nat \ {0} :
           /\ table \in Tables(C)
           /\ Cardinality(Used(table)) <= table.count
           /\ table.count <= (C * 85) \div 100
           /\ ~grown => /\ Cardinality(Held(table)) = Cardinality(live) + moved
                        /\ Paired(table, C, live)
      BY DEF RecordInv
    <3>2. grown
      BY <1>1, <2>1, <2>5, <3>1, PairedRecorded
    <3> QED
      BY <1>1, <2>3, <2>5, <3>1, <3>2 DEF RecordInv, Used, Held
  <2> QED
    BY <1>3, <2>4, <2>5 DEF Realloc
<1>4. ASSUME NEW address \in Addresses, Release(address)
      PROVE  RecordInv'
  <2>1. PICK C \in Nat \ {0} :
           /\ table \in Tables(C)
           /\ Cardinality(Used(table)) <= table.count
           /\ table.count <= (C * 85) \div 100
           /\ ~grown => /\ Cardinality(Held(table)) = Cardinality(live) + moved
                        /\ Paired(table, C, live)
    BY DEF RecordInv
  <2>2. address \in live /\ live' = live \ {address} /\ UNCHANGED <<moved, grown>>
    BY <1>4 DEF Release
  <2>3. /\ IsFiniteSet(live') /\ Cardinality(live') = Cardinality(live) - 1
        /\ live' \in SUBSET Addresses
    BY <1>1, <2>2, FS_RemoveElement
  <2>4. Cardinality(Held(table)) \in Nat
    BY <2>1, TableFacts
  <2>5. CASE Recorded(address) /\ table' = Table!Remove(table, address)
    <3>1. Table!Get(table, address).occupied = 1 /\ Cardinality(Used(table)) < C
      BY <2>1, <2>5, BelowLimit DEF Recorded
    <3>2. /\ table' \in Tables(C)
          /\ table'.count = table.count
          /\ Cardinality(Used(table')) = Cardinality(Used(table))
          /\ Cardinality(Held(table')) = Cardinality(Held(table)) - 1
          /\ \A L \in SUBSET Addresses :
               address \in L /\ Paired(table, C, L) => Paired(table', C, L \ {address})
      BY <2>1, <2>5, <3>1, RemoveFacts
    <3>3. Cardinality(Held(table')) >= Cardinality(live') + moved'
      BY <1>1, <2>2, <2>3, <2>4, <3>2
    <3>4. ASSUME ~grown'
          PROVE  /\ Cardinality(Held(table')) = Cardinality(live') + moved'
                 /\ Paired(table', C, live')
      BY <1>1, <2>1, <2>2, <2>3, <2>4, <3>2, <3>4
    <3> QED
      BY <1>1, <2>1, <2>2, <2>3, <3>2, <3>3, <3>4 DEF RecordInv, Used, Held
  <2>6. CASE ~Recorded(address) /\ table' = table
    <3>1. grown
      BY <2>1, <2>2, <2>6, <1>1, PairedRecorded
    <3>2. Cardinality(Held(table)) >= Cardinality(live') + moved
      BY <1>1, <2>3, <2>4
    <3> QED
      BY <1>1, <2>1, <2>2, <2>3, <2>6, <3>1, <3>2 DEF RecordInv, Used, Held
  <2> QED
    BY <1>4, <2>5, <2>6 DEF Release
<1>5. CASE UNCHANGED vars
  BY <1>5 DEF vars, RecordInv
<1> QED
  BY <1>2, <1>3, <1>4, <1>5 DEF Next
-----------------------------------------------------------------------------
(* The listing of lost memory (memory_debug_print_lost) has an entry for   *)
(* every block in use and every move; until the table grows it has no      *)
(* other, and every free finds a record to take away.  It holds for any    *)
(* hash function, capacity and set of addresses, and although a lookup     *)
(* takes the record of another address for its own.                        *)
THEOREM LostMemoryIsListed == Spec => []LostIsListed
<1>1. Init => RecordInv
  BY InitRecordInv
<1>2. RecordInv /\ [Next]_vars => RecordInv'
  BY NextRecordInv
<1>3. RecordInv => LostIsListed
  <2> SUFFICES ASSUME RecordInv PROVE LostIsListed
    OBVIOUS
  <2>1. PICK C \in Nat \ {0} :
           /\ table \in Tables(C)
           /\ Cardinality(Used(table)) <= table.count
           /\ table.count <= (C * 85) \div 100
           /\ ~grown => /\ Cardinality(Held(table)) = Cardinality(live) + moved
                        /\ Paired(table, C, live)
    BY DEF RecordInv
  <2>2. live \in SUBSET Addresses /\ Cardinality(Held(table)) >= Cardinality(live) + moved
    BY DEF RecordInv
  <2>3. ~grown => \A address \in live : Recorded(address)
    BY <2>1, <2>2, PairedRecorded
  <2> QED
    BY <2>1, <2>2, <2>3 DEF LostIsListed
<1> QED
  BY <1>1, <1>2, <1>3, PTL DEF Spec
=============================================================================
