---------------------------- MODULE HeaderProofs ----------------------------
(***************************************************************************)
(* Theorems about the header table of a request, for header lists of any   *)
(* length, any headers the protocol does not know and tables that grow any *)
(* number of times: LookupsExact, LoneLookupsExact and LookupsAnswer.      *)
(***************************************************************************)
EXTENDS RequestHeaders, FiniteSetTheorems, WellFoundedInduction, TLAPS

-----------------------------------------------------------------------------
(* Arithmetic *)

(* A set of naturals with 0 has 0 for least element.                       *)
LEMMA MinOfZero ==
  ASSUME NEW T, T \subseteq Nat, 0 \in T
  PROVE  Table!Min(T) = 0
<1>1. \A x \in T : (\A y \in T : x <= y) => x = 0
  OBVIOUS
<1>2. 0 \in T /\ \A y \in T : 0 <= y
  OBVIOUS
<1> QED
  BY <1>1, <1>2, Zenon DEF Table!Min

(* Induction, for a set of naturals: its complement has no least element.  *)
LEMMA Induction ==
  ASSUME NEW S, 0 \in S, \A n \in Nat : n \in S => n + 1 \in S
  PROVE  Nat \subseteq S
<1> DEFINE T == Nat \ S
<1>1. SUFFICES ASSUME T # {} PROVE FALSE
  OBVIOUS
<1>2. PICK m \in T : \A y \in T : ~(<<y, m>> \in OpToRel(<, Nat))
  <2>1. T \subseteq Nat
    OBVIOUS
  <2> HIDE DEF T
  <2> QED
    BY <1>1, <2>1, NatLessThanWellFounded, WFMin
<1>3. m \in Nat /\ m # 0
  OBVIOUS
<1>4. m - 1 \in Nat /\ (m - 1) + 1 = m /\ m - 1 < m
  BY <1>3
<1>5. <<m - 1, m>> \in OpToRel(<, Nat)
  <2>1. <<m - 1, m>> \in Nat \X Nat /\ <<m - 1, m>>[1] = m - 1 /\ <<m - 1, m>>[2] = m
    BY <1>3, <1>4
  <2> QED
    BY <1>4, <2>1 DEF OpToRel
<1>6. m - 1 \in S
  BY <1>2, <1>4, <1>5
<1> QED
  BY <1>4, <1>6
-----------------------------------------------------------------------------
(* Keys and their buckets *)

Twins == {"updateat", "username"}

Capacities == {C \in Nat : C > 0 /\ C % 16 = 0}

Buckets == {Table!Free} \cup {Table!Occupied(k, k) : k \in Keys}

Tables(C) == [memory : [0..(C - 1) -> Buckets], count : Nat]

Alike(a, b) == a = b \/ (a \in Twins /\ b \in Twins)

HashValue(k) == IF k \in Attribs THEN Hash[k] ELSE OtherHash[k]

LEMMA HashValues ==
  /\ Hash["action"] = 53 /\ Hash["append"] = 25 /\ Hash["crc"] = 58
  /\ Hash["dirname"] = 32 /\ Hash["filename"] = 18 /\ Hash["secret"] = 23
  /\ Hash["trim"] = 52 /\ Hash["updateat"] = 27 /\ Hash["username"] = 27
  BY DEF Hash

LEMMA HashFacts ==
  ASSUME NEW k \in Keys
  PROVE  HashValue(k) \in Nat /\ \A C : HashHash(k, C) = HashValue(k) % C
<1>1. CASE k \in Attribs
  BY <1>1, HashValues DEF HashValue, HashHash, Attribs
<1>2. CASE k \notin Attribs
  BY <1>2, OthersAssumption DEF HashValue, HashHash, Keys
<1> QED
  BY <1>1, <1>2

LEMMA AlikeFacts ==
  ASSUME NEW a \in Keys, NEW b \in Keys, Alike(a, b)
  PROVE  /\ Length(a) = Length(b)
         /\ \A C : HashHash(a, C) = HashHash(b, C)
<1>1. CASE a = b
  BY <1>1
<1>2. CASE a \in Twins /\ b \in Twins
  <2>1. HashValue(a) = 27 /\ HashValue(b) = 27
    BY <1>2, HashValues DEF HashValue, Twins, Attribs
  <2>2. KeyLength["updateat"] = 8 /\ KeyLength["username"] = 8
    BY DEF KeyLength
  <2>3. Length(a) = 8 /\ Length(b) = 8
    BY <1>2, <2>2 DEF Length, Twins, Attribs
  <2> QED
    BY <2>1, <2>3, HashFacts
<1> QED
  BY <1>1, <1>2 DEF Alike

LEMMA HomeFacts ==
  ASSUME NEW C \in Capacities, NEW k \in Keys
  PROVE  /\ HashHash(k, C) \in 0..(C - 1)
         /\ (HashHash(k, C) + 0) % C = HashHash(k, C)
<1>1. C \in Nat \ {0} /\ HashValue(k) \in Nat /\ HashHash(k, C) = HashValue(k) % C
  BY HashFacts DEF Capacities
<1> DEFINE h == HashHash(k, C)
<1>2. h \in 0..(C - 1)
  BY <1>1
<1> HIDE DEF h
<1>3. (h + 0) % C = h
  BY <1>1, <1>2
<1> QED
  BY <1>2, <1>3 DEF h

(* The last four bits of a hash value stay in every capacity.              *)
LEMMA MaskFacts ==
  ASSUME NEW C \in Capacities, NEW x \in Nat
  PROVE  (x % C) % 16 = x % 16
<1>1. C \in Nat \ {0} /\ C % 16 = 0
  BY DEF Capacities
<1>2. PICK m \in Nat : C = 16 * m
  BY <1>1
<1> DEFINE q == x \div C
           r == x % C
<1>3. q \in Nat /\ r \in Nat /\ x = C * q + r
  BY <1>1
<1> HIDE DEF q, r
<1>4. PICK z \in Nat : z = m * q
  BY <1>3
<1>5. C * q = 16 * z
  BY <1>2, <1>3, <1>4
<1>6. x = 16 * z + r
  BY <1>3, <1>5
<1>7. (16 * z + r) % 16 = r % 16
  BY <1>3, <1>4
<1> QED
  BY <1>6, <1>7 DEF r

(* Keys with the same first bucket in any capacity are equal, or they are  *)
(* updateat and username.                                                  *)
LEMMA SameHome ==
  ASSUME NEW C \in Capacities, NEW a \in Attribs, NEW b \in Attribs,
         HashHash(a, C) = HashHash(b, C)
  PROVE  Alike(a, b)
<1> Attribs \subseteq Keys
  BY DEF Keys
<1>1. /\ HashValue(a) \in Nat /\ HashHash(a, C) = HashValue(a) % C
      /\ HashHash(a, 16) = HashValue(a) % 16
  BY HashFacts
<1>2. /\ HashValue(b) \in Nat /\ HashHash(b, C) = HashValue(b) % C
      /\ HashHash(b, 16) = HashValue(b) % 16
  BY HashFacts
<1>3. (HashValue(a) % C) % 16 = HashValue(a) % 16
  BY <1>1, MaskFacts
<1>4. (HashValue(b) % C) % 16 = HashValue(b) % 16
  BY <1>2, MaskFacts
<1>5. HashHash(a, 16) = HashHash(b, 16)
  BY <1>1, <1>2, <1>3, <1>4
<1>6. Hash[a] % 16 = Hash[b] % 16
  BY <1>1, <1>2, <1>5 DEF HashValue
<1>7. /\ Hash["action"] % 16 = 5 /\ Hash["append"] % 16 = 9 /\ Hash["crc"] % 16 = 10
      /\ Hash["dirname"] % 16 = 0 /\ Hash["filename"] % 16 = 2
      /\ Hash["secret"] % 16 = 7 /\ Hash["trim"] % 16 = 4
      /\ Hash["updateat"] % 16 = 11 /\ Hash["username"] % 16 = 11
  BY HashValues
<1> QED
  BY <1>6, <1>7 DEF Attribs, Alike, Twins
-----------------------------------------------------------------------------
(* The table *)

(* The headers of keys are in the table, each in the first bucket of its   *)
(* probe, except that one of updateat and username stands for both.        *)
Kept(t, C, keys) ==
  /\ t \in Tables(C)
  /\ \A s \in 0..(C - 1) :
       t.memory[s].occupied = 1 =>
         t.memory[s].key \in keys /\ s = HashHash(t.memory[s].key, C)
  /\ \A k \in keys : t.memory[HashHash(k, C)].occupied = 1

LEMMA BucketFacts ==
  /\ Table!Free \in Buckets /\ Table!Free.occupied = 0
  /\ \A k \in Keys : /\ Table!Occupied(k, k) \in Buckets
                     /\ Table!Occupied(k, k).occupied = 1
                     /\ Table!Occupied(k, k).key = k
  /\ \A b \in Buckets : /\ b.occupied \in {0, 1}
                        /\ b.occupied = 1 => b.key \in Keys /\ b.value = b.key
<1>1. Table!Free \in Buckets /\ Table!Free.occupied = 0
  BY DEF Buckets, Table!Free
<1>2. ASSUME NEW k \in Keys
      PROVE  /\ Table!Occupied(k, k) \in Buckets
             /\ Table!Occupied(k, k).occupied = 1
             /\ Table!Occupied(k, k).key = k
             /\ Table!Occupied(k, k).value = k
  <2>1. Table!Occupied(k, k) \in Buckets
    BY Zenon DEF Buckets
  <2> QED
    BY <2>1 DEF Table!Occupied
<1>3. ASSUME NEW b \in Buckets
      PROVE  /\ b.occupied \in {0, 1}
             /\ b.occupied = 1 => b.key \in Keys /\ b.value = b.key
  <2>1. b = Table!Free \/ \E k \in Keys : b = Table!Occupied(k, k)
    BY Zenon DEF Buckets
  <2> QED
    BY <1>1, <1>2, <2>1
<1> QED
  BY <1>1, <1>2, <1>3

LEMMA TableFacts ==
  ASSUME NEW C \in Capacities, NEW t \in Tables(C)
  PROVE  /\ DOMAIN t.memory = 0..(C - 1) /\ t.count \in Nat
         /\ t.memory \in [0..(C - 1) -> Buckets]
         /\ \A s \in 0..(C - 1) :
              /\ t.memory[s].occupied \in {0, 1}
              /\ t.memory[s].occupied = 1 =>
                   t.memory[s].key \in Keys /\ t.memory[s].value = t.memory[s].key
         /\ Table!Capacity(t) = C
<1>1. DOMAIN t.memory = 0..(C - 1) /\ t.memory \in [0..(C - 1) -> Buckets] /\ t.count \in Nat
  BY DEF Tables
<1>2. \A s \in 0..(C - 1) : t.memory[s] \in Buckets
  BY <1>1
<1>3. C \in Nat /\ C > 0
  BY DEF Capacities
<1>4. Cardinality(0..(C - 1)) = C
  BY <1>3, FS_Interval
<1>5. Table!Capacity(t) = C
  BY <1>1, <1>4 DEF Table!Capacity, Table!Cardinality, Cardinality
<1> QED
  BY <1>1, <1>2, <1>5, BucketFacts

(* hash_table_alloc *)
LEMMA AllocKept ==
  ASSUME NEW C \in Capacities
  PROVE  Kept(Table!Alloc(C), C, {})
<1> DEFINE t == Table!Alloc(C)
<1>1. t.memory = [s \in 0..(C - 1) |-> Table!Free] /\ t.count = 0
      /\ t = [memory |-> t.memory, count |-> t.count]
  BY DEF Table!Alloc
<1>2. Table!Free \in Buckets /\ Table!Free.occupied = 0
  BY BucketFacts
<1> HIDE DEF t
<1>3. t \in Tables(C)
  BY <1>1, <1>2 DEF Tables
<1>4. Kept(t, C, {})
  BY <1>1, <1>2, <1>3 DEF Kept
<1> QED
  BY <1>4 DEF t

(* hash_table_get stops at the first bucket: a free one, or one with a key *)
(* of the same length.                                                     *)
LEMMA GetFacts ==
  ASSUME NEW C \in Capacities, NEW keys \in SUBSET Attribs,
         NEW t, Kept(t, C, keys), NEW k \in Attribs
  PROVE  Table!Get(t, k) = t.memory[HashHash(k, C)]
<1> Attribs \subseteq Keys
  BY DEF Keys
<1> DEFINE h == HashHash(k, C)
           stops == {d \in 0..(C - 1) : ~Table!HashCompare(t.memory[(h + d) % C], k)}
<1>1. t \in Tables(C)
  BY DEF Kept
<1>2. Table!Capacity(t) = C /\ t.memory[h].occupied \in {0, 1}
  BY <1>1, TableFacts, HomeFacts
<1>3. h \in 0..(C - 1) /\ (h + 0) % C = h /\ 0 \in 0..(C - 1)
  BY HomeFacts DEF Capacities
<1>4. ~Table!HashCompare(t.memory[h], k)
  <2>1. CASE t.memory[h].occupied = 0
    BY <2>1 DEF Table!HashCompare
  <2>2. CASE t.memory[h].occupied = 1
    <3>1. t.memory[h].key \in Attribs /\ h = HashHash(t.memory[h].key, C)
      BY <1>3, <2>2 DEF Kept
    <3>2. Alike(t.memory[h].key, k)
      BY <3>1, SameHome
    <3>3. Length(t.memory[h].key) = Length(k)
      BY <3>1, <3>2, AlikeFacts
    <3> QED
      BY <2>2, <3>3 DEF Table!HashCompare
  <2> QED
    BY <1>2, <2>1, <2>2
<1>5. 0 \in stops /\ stops \subseteq Nat
  BY <1>3, <1>4
<1>6. Table!Stops(t, k) = stops
  BY <1>2 DEF Table!Stops
<1> HIDE DEF stops
<1>7. Table!Min(stops) = 0
  BY <1>5, MinOfZero
<1>8. Table!Probe(t, k) = h
  BY <1>2, <1>3, <1>6, <1>7 DEF Table!Probe, Table!Slot
<1> QED
  BY <1>8 DEF Table!Get

(* The first part of hash_table_add, for a key whose bucket is free.       *)
LEMMA PlaceKept ==
  ASSUME NEW C \in Capacities, NEW keys \in SUBSET Keys, NEW t, Kept(t, C, keys),
         NEW k \in Keys, t.memory[HashHash(k, C)].occupied # 1
  PROVE  Kept(Table!Place(t, k, k), C, keys \cup {k})
<1> DEFINE h == HashHash(k, C)
           open == {d \in 0..(C - 1) : t.memory[(h + d) % C].occupied # 1}
           p == Table!Place(t, k, k)
<1>1. t \in Tables(C)
  BY DEF Kept
<1>2. Table!Capacity(t) = C /\ t.count \in Nat /\ t.memory \in [0..(C - 1) -> Buckets]
  BY <1>1, TableFacts
<1>3. h \in 0..(C - 1) /\ (h + 0) % C = h /\ 0 \in 0..(C - 1)
  BY HomeFacts DEF Capacities
<1>4. 0 \in open /\ open \subseteq Nat
  BY <1>3
<1>5. open = {d \in 0..(C - 1) : t.memory[(HashHash(k, C) + d) % C].occupied # 1}
  OBVIOUS
<1> HIDE DEF open
<1>6. Table!Min(open) = 0
  BY <1>4, MinOfZero
<1>7. (HashHash(k, C) + Table!Min(open)) % C = h
  BY <1>3, <1>6
<1>8. p = [memory |-> [t.memory EXCEPT ![h] = Table!Occupied(k, k)], count |-> t.count + 1]
  BY <1>2, <1>5, <1>7 DEF Table!Place
<1>9. /\ Table!Occupied(k, k) \in Buckets
      /\ Table!Occupied(k, k).occupied = 1 /\ Table!Occupied(k, k).key = k
  BY BucketFacts
<1> HIDE DEF p
<1>10. /\ p.memory \in [0..(C - 1) -> Buckets] /\ p.memory[h] = Table!Occupied(k, k)
       /\ \A s \in 0..(C - 1) : s # h => p.memory[s] = t.memory[s]
  BY <1>2, <1>3, <1>8, <1>9
<1>11. p \in Tables(C)
  <2>1. p = [memory |-> p.memory, count |-> p.count] /\ p.count \in Nat
    BY <1>2, <1>8
  <2> QED
    BY <1>10, <2>1 DEF Tables
<1>12. ASSUME NEW s \in 0..(C - 1), p.memory[s].occupied = 1
       PROVE  p.memory[s].key \in keys \cup {k} /\ s = HashHash(p.memory[s].key, C)
  <2>1. CASE s = h
    BY <1>9, <1>10, <2>1
  <2>2. CASE s # h
    BY <1>10, <1>12, <2>2 DEF Kept
  <2> QED
    BY <2>1, <2>2
<1>13. ASSUME NEW j \in keys \cup {k} PROVE p.memory[HashHash(j, C)].occupied = 1
  <2>1. HashHash(j, C) \in 0..(C - 1)
    BY HomeFacts
  <2>2. CASE HashHash(j, C) = h
    BY <1>9, <1>10, <2>2
  <2>3. CASE HashHash(j, C) # h
    <3>1. j \in keys
      BY <2>3
    <3> QED
      BY <1>10, <2>1, <2>3, <3>1 DEF Kept
  <2> QED
    BY <2>2, <2>3
<1>14. Kept(p, C, keys \cup {k})
  BY <1>11, <1>12, <1>13 DEF Kept
<1> QED
  BY <1>14 DEF p
-----------------------------------------------------------------------------
(* Growing *)

(* The first n buckets of the table t copied to one of twice the capacity. *)
CopyBucket(t, x, n) ==
  IF t.memory[n - 1].occupied = 1
  THEN Table!Place(x, t.memory[n - 1].key, t.memory[n - 1].value)
  ELSE x

Copies(t, C, n, f) ==
  f = [m \in 0..n |-> IF m = 0 THEN Table!Alloc(2 * C)
                      ELSE CopyBucket(t, f[m - 1], m)]

LEMMA CopiesExist ==
  ASSUME NEW t, NEW C
  PROVE  \A n \in Nat : \E f : Copies(t, C, n, f)
<1> DEFINE S == {n \in Nat : \E f : Copies(t, C, n, f)}
<1>1. 0 \in S
  <2> DEFINE f == [m \in 0..0 |-> Table!Alloc(2 * C)]
  <2>1. f = [m \in 0..0 |-> IF m = 0 THEN Table!Alloc(2 * C)
                            ELSE CopyBucket(t, f[m - 1], m)]
    OBVIOUS
  <2>2. Copies(t, C, 0, f)
    BY <2>1 DEF Copies
  <2> QED
    BY <2>2
<1>2. ASSUME NEW n \in Nat, n \in S PROVE n + 1 \in S
  <2>1. PICK f : Copies(t, C, n, f)
    BY <1>2
  <2> DEFINE g == [m \in 0..(n + 1) |-> IF m = n + 1 THEN CopyBucket(t, f[n], n + 1)
                                        ELSE f[m]]
  <2>2. ASSUME NEW m \in 0..n
        PROVE  f[m] = IF m = 0 THEN Table!Alloc(2 * C) ELSE CopyBucket(t, f[m - 1], m)
    BY <2>1 DEF Copies
  <2>3. ASSUME NEW m \in 0..(n + 1)
        PROVE  g[m] = IF m = 0 THEN Table!Alloc(2 * C) ELSE CopyBucket(t, g[m - 1], m)
    <3>1. CASE m = n + 1
      <4>1. m - 1 = n /\ m - 1 \in 0..(n + 1) /\ m - 1 # n + 1 /\ m # 0
        BY <3>1
      <4>2. g[m - 1] = f[n]
        BY <4>1
      <4> QED
        BY <3>1, <4>1, <4>2
    <3>2. CASE m # n + 1
      <4>1. m \in 0..n /\ g[m] = f[m]
        BY <3>2
      <4>2. CASE m = 0
        BY <2>2, <4>1, <4>2
      <4>3. CASE m # 0
        <5>1. m - 1 \in 0..n /\ m - 1 \in 0..(n + 1) /\ m - 1 # n + 1
          BY <4>1, <4>3
        <5>2. g[m - 1] = f[m - 1]
          BY <5>1
        <5> HIDE DEF g
        <5> QED
          BY <2>2, <4>1, <4>3, <5>2
      <4> QED
        BY <4>2, <4>3
    <3> QED
      BY <3>1, <3>2
  <2>4. DOMAIN g = 0..(n + 1) /\ g = [m \in 0..(n + 1) |-> g[m]]
    OBVIOUS
  <2> HIDE DEF g
  <2>5. Copies(t, C, n + 1, g)
    BY <2>3, <2>4 DEF Copies
  <2> QED
    BY <2>5
<1> HIDE DEF S
<1>3. Nat \subseteq S
  BY <1>1, <1>2, Induction
<1> QED
  BY <1>3 DEF S

LEMMA ExpandFacts ==
  ASSUME NEW C \in Capacities, NEW t \in Tables(C)
  PROVE  \E f : Copies(t, C, C, f) /\ Table!Expand(t) = f[C]
<1>1. Table!Capacity(t) = C /\ C \in Nat
  BY TableFacts DEF Capacities
<1> DEFINE F == CHOOSE f : Copies(t, C, C, f)
<1>2. Copies(t, C, C, F)
  <2>1. \E f : Copies(t, C, C, f)
    BY <1>1, CopiesExist
  <2> QED
    BY Zenon, <2>1
<1>3. Table!Expand(t) = F[C]
  BY <1>1 DEF Table!Expand, Copies, CopyBucket
<1> QED
  BY <1>2, <1>3

(* hash_table_expand: every key comes to its first bucket again.           *)
LEMMA ExpandKept ==
  ASSUME NEW C \in Capacities, NEW keys \in SUBSET Attribs,
         NEW t, Kept(t, C, keys)
  PROVE  Kept(Table!Expand(t), 2 * C, keys)
<1> Attribs \subseteq Keys
  BY DEF Keys
<1>1. t \in Tables(C)
  BY DEF Kept
<1>2. /\ C \in Nat /\ C > 0
      /\ \A s \in 0..(C - 1) :
           t.memory[s].occupied = 1 =>
             t.memory[s].key \in keys /\ t.memory[s].value = t.memory[s].key
             /\ s = HashHash(t.memory[s].key, C)
  BY <1>1, TableFacts DEF Capacities, Kept
<1>3. \A k \in keys : HashHash(k, C) \in 0..(C - 1) /\ t.memory[HashHash(k, C)].occupied = 1
  BY HomeFacts DEF Kept
<1>4. 2 * C \in Capacities
  BY DEF Capacities
<1>5. PICK f : Copies(t, C, C, f) /\ Table!Expand(t) = f[C]
  BY <1>1, ExpandFacts
<1>6. \A n \in 0..C : f[n] = IF n = 0 THEN Table!Alloc(2 * C)
                             ELSE CopyBucket(t, f[n - 1], n)
  BY <1>2, <1>5 DEF Copies
<1> DEFINE Below(n) == {k \in keys : HashHash(k, C) < n}
           S == {n \in Nat : n <= C => Kept(f[n], 2 * C, Below(n))}
<1>7. 0 \in S
  <2>1. f[0] = Table!Alloc(2 * C)
    BY <1>2, <1>6
  <2>2. Below(0) = {}
    BY <1>3
  <2> QED
    BY <1>4, <2>1, <2>2, AllocKept
<1>8. ASSUME NEW n \in Nat, n \in S PROVE n + 1 \in S
  <2>1. SUFFICES ASSUME n + 1 <= C PROVE Kept(f[n + 1], 2 * C, Below(n + 1))
    OBVIOUS
  <2>2. n \in 0..(C - 1) /\ n <= C /\ n + 1 \in 0..C /\ n + 1 # 0 /\ (n + 1) - 1 = n
    BY <1>2, <2>1
  <2>3. Kept(f[n], 2 * C, Below(n))
    BY <1>8, <2>2
  <2>4. f[n + 1] = CopyBucket(t, f[n], n + 1)
    BY <1>6, <2>2
  <2>5. ASSUME NEW j \in keys PROVE HashHash(j, C) < n + 1 <=> HashHash(j, C) < n \/ HashHash(j, C) = n
    BY <1>3, <2>2
  <2>6. CASE t.memory[n].occupied # 1
    <3>1. f[n + 1] = f[n]
      BY <2>2, <2>4, <2>6 DEF CopyBucket
    <3>2. Below(n + 1) = Below(n)
      BY <1>3, <2>5, <2>6
    <3> QED
      BY <2>3, <3>1, <3>2
  <2>7. CASE t.memory[n].occupied = 1
    <3> DEFINE k == t.memory[n].key
               x == f[n]
               below == Below(n)
               home == HashHash(k, 2 * C)
    <3>1. k \in keys /\ t.memory[n].value = k /\ n = HashHash(k, C)
      BY <1>2, <2>2, <2>7
    <3>2. f[n + 1] = Table!Place(x, k, k)
      BY <2>2, <2>4, <2>7, <3>1 DEF CopyBucket
    <3>3. below \in SUBSET Attribs /\ Kept(x, 2 * C, below) /\ k \in Attribs
      BY <2>3, <3>1
    <3>4. \A j \in below : HashHash(j, C) # n
      BY <1>3, <2>2
    <3>5. Below(n + 1) = below \cup {j \in keys : HashHash(j, C) = n}
      BY <2>5
    <3> HIDE DEF k, x, below
    <3>6. x.memory[home].occupied # 1
      <4>1. SUFFICES ASSUME x.memory[home].occupied = 1 PROVE FALSE
        OBVIOUS
      <4> DEFINE j == x.memory[home].key
      <4>2. home \in 0..(2 * C - 1)
        BY <1>4, <3>3, HomeFacts
      <4>3. j \in below /\ home = HashHash(j, 2 * C)
        BY <3>3, <4>1, <4>2 DEF Kept
      <4> HIDE DEF j
      <4>4. Alike(j, k)
        BY <1>4, <3>3, <4>3, SameHome
      <4>5. HashHash(j, C) = HashHash(k, C)
        BY <3>3, <4>3, <4>4, AlikeFacts
      <4> QED
        BY <3>1, <3>4, <4>3, <4>5
    <3>7. Kept(f[n + 1], 2 * C, below \cup {k})
      BY <1>4, <3>2, <3>3, <3>6, PlaceKept
    <3>8. ASSUME NEW j \in keys, HashHash(j, C) = n
          PROVE  HashHash(j, 2 * C) = home
      <4>1. j \in Attribs /\ HashHash(j, C) = HashHash(k, C)
        BY <3>1, <3>8
      <4>2. Alike(j, k)
        BY <3>3, <4>1, SameHome
      <4> QED
        BY <3>3, <4>1, <4>2, AlikeFacts
    <3> HIDE DEF home
    <3>9. \A j \in Below(n + 1) : f[n + 1].memory[HashHash(j, 2 * C)].occupied = 1
      <4>1. f[n + 1].memory[home].occupied = 1
        BY <3>7 DEF Kept, home
      <4> QED
        BY <3>5, <3>7, <3>8, <4>1 DEF Kept
    <3>10. below \cup {k} \subseteq Below(n + 1)
      BY <3>1, <3>5
    <3> HIDE DEF Below
    <3> QED
      BY <3>7, <3>9, <3>10 DEF Kept
  <2> QED
    BY <2>6, <2>7
<1> HIDE DEF S
<1>9. Nat \subseteq S
  BY <1>7, <1>8, Induction
<1>10. Kept(f[C], 2 * C, Below(C))
  <2> HIDE DEF Below
  <2> QED
    BY <1>2, <1>9 DEF S
<1>11. Below(C) = keys
  BY <1>2, <1>3
<1> QED
  BY <1>5, <1>10, <1>11

(* hash_table_add, for a key whose bucket is free.                         *)
LEMMA AddKept ==
  ASSUME NEW C \in Capacities, NEW keys \in SUBSET Attribs,
         NEW t, Kept(t, C, keys),
         NEW k \in Attribs, t.memory[HashHash(k, C)].occupied # 1
  PROVE  \E D \in Capacities : Kept(Table!Add(t, k, k), D, keys \cup {k})
<1> Attribs \subseteq Keys
  BY DEF Keys
<1> DEFINE p == Table!Place(t, k, k)
<1>1. Kept(p, C, keys \cup {k}) /\ keys \cup {k} \in SUBSET Attribs
  BY PlaceKept
<1> HIDE DEF p
<1>2. Table!Add(t, k, k) = p \/ Table!Add(t, k, k) = Table!Expand(p)
  BY DEF Table!Add, p
<1>3. Kept(Table!Expand(p), 2 * C, keys \cup {k})
  BY <1>1, ExpandKept
<1>4. 2 * C \in Capacities
  BY DEF Capacities
<1> QED
  BY <1>1, <1>2, <1>3, <1>4
-----------------------------------------------------------------------------
(* Lists of attributes only *)

(* The inductive invariant: until another header is sent, the table keeps  *)
(* every attribute sent so far.                                            *)
AttribInv ==
  /\ sent \in SUBSET Keys
  /\ sent \subseteq Attribs => \E C \in Capacities : Kept(table, C, sent)

LEMMA AddAttribInv ==
  ASSUME AttribInv, NEW k \in Keys, AddHeader(k)
  PROVE  AttribInv'
<1>1. sent \in SUBSET Keys /\ sent' = sent \cup {k} /\ table' = Insert(table, k)
  BY DEF AttribInv, AddHeader
<1>2. SUFFICES ASSUME sent' \subseteq Attribs
               PROVE  \E C \in Capacities : Kept(table', C, sent')
  BY <1>1 DEF AttribInv
<1>3. k \in Attribs /\ sent \in SUBSET Attribs
  BY <1>1, <1>2
<1>4. PICK C \in Capacities : Kept(table, C, sent)
  BY <1>3 DEF AttribInv
<1> DEFINE bucket == table.memory[HashHash(k, C)]
<1>5. Table!Get(table, k) = bucket
  BY <1>3, <1>4, GetFacts
<1>6. bucket.occupied \in {0, 1}
  BY <1>4, TableFacts, HomeFacts DEF Kept
<1>7. CASE bucket.occupied = 0
  <2>1. table' = Table!Add(table, k, k)
    BY <1>1, <1>5, <1>7 DEF Insert
  <2>2. \E D \in Capacities : Kept(Table!Add(table, k, k), D, sent \cup {k})
    <3>1. table.memory[HashHash(k, C)].occupied # 1
      BY <1>7
    <3> QED
      BY <1>3, <1>4, <3>1, AddKept
  <2> QED
    BY <1>1, <2>1, <2>2
<1>8. CASE bucket.occupied = 1
  <2>1. table' = table
    BY <1>1, <1>5, <1>8 DEF Insert
  <2>2. Kept(table, C, sent \cup {k})
    BY <1>4, <1>8 DEF Kept
  <2> QED
    BY <1>1, <2>1, <2>2
<1> QED
  BY <1>6, <1>7, <1>8

(* What a lookup returns.                                                  *)
LEMMA LookupFacts ==
  ASSUME AttribInv, sent \subseteq Attribs, NEW k \in Attribs
  PROVE  /\ Get(table, k) = Empty /\ (\A j \in sent : ~Alike(j, k))
         \/ \E j \in sent : Alike(j, k) /\ Get(table, k) = j
<1> Attribs \subseteq Keys
  BY DEF Keys
<1>1. sent \in SUBSET Attribs
  OBVIOUS
<1>2. PICK C \in Capacities : Kept(table, C, sent)
  BY DEF AttribInv
<1> DEFINE h == HashHash(k, C)
           bucket == table.memory[h]
<1>3. Table!Get(table, k) = bucket
  BY <1>1, <1>2, GetFacts
<1>4. bucket.occupied \in {0, 1} /\ h \in 0..(C - 1)
  BY <1>2, TableFacts, HomeFacts DEF Kept
<1>5. CASE bucket.occupied = 0
  <2>1. Get(table, k) = Empty
    BY <1>3, <1>5 DEF Get
  <2>2. ASSUME NEW j \in sent, Alike(j, k) PROVE FALSE
    <3>1. HashHash(j, C) = h
      BY <1>1, <2>2, AlikeFacts
    <3> QED
      BY <1>2, <1>5, <3>1 DEF Kept
  <2> QED
    BY <2>1, <2>2
<1>6. CASE bucket.occupied = 1
  <2>1. bucket.key \in sent /\ h = HashHash(bucket.key, C) /\ bucket.value = bucket.key
    <3>1. table \in Tables(C)
      BY <1>2 DEF Kept
    <3> QED
      BY <1>2, <1>4, <1>6, <3>1, TableFacts DEF Kept
  <2>2. Get(table, k) = bucket.key
    BY <1>3, <1>6, <2>1 DEF Get
  <2>3. Alike(bucket.key, k)
    BY <1>1, <2>1, SameHome
  <2> QED
    BY <2>1, <2>2, <2>3
<1> QED
  BY <1>4, <1>5, <1>6

(* Both names of a pair that shares its bucket lead to the same value.     *)
LEMMA TwinsAgree ==
  ASSUME AttribInv, sent \subseteq Attribs
  PROVE  Get(table, "updateat") = Get(table, "username")
<1>1. /\ "updateat" \in Attribs /\ "username" \in Attribs /\ Attribs \subseteq Keys
      /\ Alike("updateat", "username")
  BY DEF Keys, Attribs, Alike, Twins
<1>2. PICK C \in Capacities : Kept(table, C, sent)
  BY DEF AttribInv
<1>3. HashHash("updateat", C) = HashHash("username", C)
  BY <1>1, AlikeFacts
<1>4. Table!Get(table, "updateat") = Table!Get(table, "username")
  BY <1>1, <1>2, <1>3, GetFacts
<1> QED
  BY <1>4 DEF Get

(* Whatever attributes of the protocol a client sends, in any order and    *)
(* with any repetitions, s3_attrib_get and s3_attrib_contains answer for   *)
(* the attribute they are asked for; updateat and username are the         *)
(* exception LookupsExact names.                                           *)
THEOREM LookupsAreExact == Spec => []LookupsExact
<1>1. Init => AttribInv
  <2>1. SUFFICES ASSUME Init PROVE AttribInv
    OBVIOUS
  <2>2. 16 \in Capacities
    BY DEF Capacities
  <2>3. Kept(table, 16, sent)
    BY <2>1, <2>2, AllocKept DEF Init
  <2> QED
    BY <2>1, <2>2, <2>3 DEF AttribInv, Init
<1>2. AttribInv /\ [Next]_vars => AttribInv'
  <2>1. SUFFICES ASSUME AttribInv, [Next]_vars PROVE AttribInv'
    OBVIOUS
  <2>2. CASE Next
    <3>1. PICK k \in Keys : AddHeader(k)
      BY <2>2 DEF Next
    <3> QED
      BY <2>1, <3>1, AddAttribInv
  <2>3. CASE UNCHANGED vars
    BY <2>1, <2>3 DEF vars, AttribInv
  <2> QED
    BY <2>1, <2>2, <2>3
<1>3. AttribInv => LookupsExact
  <2>1. SUFFICES ASSUME AttribInv, sent \subseteq Attribs
        PROVE  /\ \A a \in Attribs \ Twins :
                    Get(table, a) = IF a \in sent THEN a ELSE Empty
               /\ Get(table, "updateat") = Get(table, "username")
               /\ Get(table, "username") \in
                    IF sent \cap Twins = {} THEN {Empty} ELSE sent \cap Twins
    BY Zenon DEF LookupsExact, Twins
  <2>2. ASSUME NEW a \in Attribs \ Twins
        PROVE  Get(table, a) = IF a \in sent THEN a ELSE Empty
    <3>1. \A j : Alike(j, a) <=> j = a
      BY DEF Alike
    <3> QED
      BY <2>1, <3>1, LookupFacts
  <2>3. Get(table, "updateat") = Get(table, "username")
    BY <2>1, TwinsAgree
  <2>4. Get(table, "username") \in
          IF sent \cap Twins = {} THEN {Empty} ELSE sent \cap Twins
    <3>1. \A j : Alike(j, "username") <=> j \in Twins
      BY DEF Alike, Twins
    <3>2. "username" \in Attribs
      BY DEF Attribs
    <3> QED
      BY <2>1, <3>1, <3>2, LookupFacts
  <2> QED
    BY <2>2, <2>3, <2>4
<1> QED
  BY <1>1, <1>2, <1>3, PTL DEF Spec
-----------------------------------------------------------------------------
(* Any headers: probes *)

LEMMA MinFacts ==
  ASSUME NEW T, T \subseteq Nat, T # {}
  PROVE  Table!Min(T) \in T /\ \A y \in T : Table!Min(T) <= y
<1>1. PICK x \in T : \A y \in T : ~(<<y, x>> \in OpToRel(<, Nat))
  BY NatLessThanWellFounded, WFMin
<1>2. ASSUME NEW y \in T PROVE x <= y
  <2>1. x \in Nat /\ y \in Nat
    OBVIOUS
  <2>2. <<y, x>> \in Nat \X Nat /\ <<y, x>>[1] = y /\ <<y, x>>[2] = x
    BY <2>1
  <2>3. ~(y < x)
    BY <1>1, <2>2 DEF OpToRel
  <2> QED
    BY <2>1, <2>3
<1> QED
  BY <1>2 DEF Table!Min

LEMMA TurnFacts ==
  ASSUME NEW C \in Nat \ {0}, NEW q \in Nat, NEW r \in 0..(C - 1)
  PROVE  (C * q + r) % C = r
OBVIOUS

(* The d-th bucket a probe for k looks at.                                 *)
Probed(C, k, d) == (HashHash(k, C) + d) % C

Filled(t) == {s \in DOMAIN t.memory : t.memory[s].occupied = 1}

(* A probe for k comes to slot before it comes to a free bucket.           *)
Reaches(t, C, k, slot) ==
  \E d \in 0..(C - 1) :
    /\ slot = Probed(C, k, d)
    /\ \A e \in 0..d : t.memory[Probed(C, k, e)].occupied = 1

(* A probe comes to every bucket within one turn.                          *)
LEMMA ProbedFacts ==
  ASSUME NEW C \in Capacities, NEW k \in Keys
  PROVE  /\ \A d \in 0..(C - 1) : Probed(C, k, d) \in 0..(C - 1)
         /\ \A s \in 0..(C - 1) : \E d \in 0..(C - 1) : Probed(C, k, d) = s
<1> DEFINE h == HashHash(k, C)
<1>1. C \in Nat \ {0} /\ h \in 0..(C - 1)
  BY HomeFacts DEF Capacities
<1> HIDE DEF h
<1>2. ASSUME NEW d \in 0..(C - 1) PROVE (h + d) % C \in 0..(C - 1)
  BY <1>1
<1>3. ASSUME NEW s \in 0..(C - 1)
      PROVE  \E d \in 0..(C - 1) : (h + d) % C = s
  <2>1. CASE h <= s
    <3>1. (h + (s - h)) % C = s /\ s - h \in 0..(C - 1)
      BY <1>1, <2>1
    <3> QED
      BY <3>1
  <2>2. CASE s < h
    <3>1. (C * 1 + s) % C = s
      BY <1>1, TurnFacts
    <3>2. h + (C - h + s) = C * 1 + s /\ C - h + s \in 0..(C - 1)
      BY <1>1, <2>2
    <3> QED
      BY <3>1, <3>2
  <2> QED
    BY <1>1, <2>1, <2>2
<1> QED
  BY <1>2, <1>3 DEF Probed, h

LEMMA FilledFacts ==
  ASSUME NEW C \in Capacities, NEW t \in Tables(C)
  PROVE  /\ Filled(t) \subseteq 0..(C - 1)
         /\ IsFiniteSet(Filled(t)) /\ Cardinality(Filled(t)) \in Nat
         /\ Cardinality(Filled(t)) < C =>
              \E s \in 0..(C - 1) : t.memory[s].occupied # 1
<1>1. C \in Nat \ {0} /\ DOMAIN t.memory = 0..(C - 1)
  BY TableFacts DEF Capacities
<1>2. IsFiniteSet(0..(C - 1)) /\ Cardinality(0..(C - 1)) = C
  BY <1>1, FS_Interval
<1>3. Filled(t) \subseteq 0..(C - 1)
  BY <1>1 DEF Filled
<1>4. IsFiniteSet(Filled(t))
  BY <1>2, <1>3, FS_Subset
<1>5. ASSUME Cardinality(Filled(t)) < C
      PROVE  \E s \in 0..(C - 1) : t.memory[s].occupied # 1
  <2>1. Filled(t) # 0..(C - 1)
    BY <1>1, <1>2, <1>5
  <2> QED
    BY <1>1, <1>3, <2>1 DEF Filled
<1> QED
  BY <1>3, <1>4, <1>5, FS_CardinalityType

(* Where a lookup stops: at the first bucket that is free or has a key of  *)
(* the same length.                                                        *)
LEMMA ProbeFacts ==
  ASSUME NEW C \in Capacities, NEW t \in Tables(C), Cardinality(Filled(t)) < C,
         NEW k \in Keys
  PROVE  \E d \in 0..(C - 1) :
           /\ Table!Get(t, k) = t.memory[Probed(C, k, d)]
           /\ Table!Get(t, k).occupied = 1 =>
                Length(Table!Get(t, k).key) = Length(k)
           /\ \A e \in 0..(C - 1) :
                e < d => /\ t.memory[Probed(C, k, e)].occupied = 1
                         /\ Length(t.memory[Probed(C, k, e)].key) # Length(k)
<1> DEFINE stops == {d \in 0..(C - 1) : ~Table!HashCompare(t.memory[Probed(C, k, d)], k)}
<1>1. /\ Table!Capacity(t) = C
      /\ \A d \in 0..(C - 1) : t.memory[Probed(C, k, d)].occupied \in {0, 1}
  BY TableFacts, ProbedFacts
<1>2. ASSUME NEW d \in 0..(C - 1)
      PROVE  d \in stops <=>
               \/ t.memory[Probed(C, k, d)].occupied # 1
               \/ Length(t.memory[Probed(C, k, d)].key) = Length(k)
  BY <1>1 DEF Table!HashCompare
<1>3. PICK f \in 0..(C - 1) : t.memory[f].occupied # 1
  BY FilledFacts
<1>4. PICK d0 \in 0..(C - 1) : Probed(C, k, d0) = f
  BY ProbedFacts
<1>5. stops \subseteq Nat /\ stops # {} /\ stops \subseteq 0..(C - 1)
  BY <1>2, <1>3, <1>4
<1>6. Table!Stops(t, k) = stops
  BY <1>1 DEF Table!Stops, Probed
<1> HIDE DEF stops
<1> DEFINE d == Table!Min(stops)
<1>7. d \in stops /\ \A y \in stops : d <= y
  BY <1>5, MinFacts
<1>8. Table!Get(t, k) = t.memory[Probed(C, k, d)]
  BY <1>1, <1>6 DEF Table!Get, Table!Probe, Table!Slot, Probed
<1> HIDE DEF d
<1>9. d \in 0..(C - 1)
  BY <1>5, <1>7
<1>10. ASSUME NEW e \in 0..(C - 1), e < d
       PROVE  /\ t.memory[Probed(C, k, e)].occupied = 1
              /\ Length(t.memory[Probed(C, k, e)].key) # Length(k)
  <2>1. e \notin stops
    BY <1>7, <1>9, <1>10
  <2> QED
    BY <1>2, <2>1
<1>11. Table!Get(t, k).occupied = 1 => Length(Table!Get(t, k).key) = Length(k)
  BY <1>2, <1>7, <1>8, <1>9
<1> QED
  BY Zenon, <1>8, <1>9, <1>10, <1>11

(* What a lookup finds, and when it finds something.                       *)
LEMMA GetSound ==
  ASSUME NEW C \in Capacities, NEW t \in Tables(C), Cardinality(Filled(t)) < C,
         NEW k \in Keys
  PROVE  /\ Table!Get(t, k).occupied \in {0, 1}
         /\ Table!Get(t, k).occupied = 1 =>
              \E s \in 0..(C - 1) :
                /\ Table!Get(t, k) = t.memory[s] /\ Reaches(t, C, k, s)
                /\ Length(t.memory[s].key) = Length(k)
         /\ \A s \in 0..(C - 1) :
              Reaches(t, C, k, s) /\ Length(t.memory[s].key) = Length(k) =>
                Table!Get(t, k).occupied = 1
<1>1. PICK d \in 0..(C - 1) :
           /\ Table!Get(t, k) = t.memory[Probed(C, k, d)]
           /\ Table!Get(t, k).occupied = 1 =>
                Length(Table!Get(t, k).key) = Length(k)
           /\ \A e \in 0..(C - 1) :
                e < d => /\ t.memory[Probed(C, k, e)].occupied = 1
                         /\ Length(t.memory[Probed(C, k, e)].key) # Length(k)
  BY ProbeFacts
<1>2. Probed(C, k, d) \in 0..(C - 1)
  BY ProbedFacts
<1>3. Table!Get(t, k).occupied \in {0, 1}
  BY <1>1, <1>2, TableFacts
<1>4. ASSUME Table!Get(t, k).occupied = 1
      PROVE  /\ Reaches(t, C, k, Probed(C, k, d))
             /\ Length(t.memory[Probed(C, k, d)].key) = Length(k)
  <2>1. ASSUME NEW e \in 0..d PROVE t.memory[Probed(C, k, e)].occupied = 1
    <3>1. CASE e = d
      BY <1>1, <1>4, <3>1
    <3>2. CASE e # d
      <4>1. e \in 0..(C - 1) /\ e < d
        BY <3>2 DEF Capacities
      <4> QED
        BY <1>1, <4>1
    <3> QED
      BY <3>1, <3>2
  <2> QED
    BY <1>1, <1>4, <2>1 DEF Reaches
<1>5. ASSUME NEW s \in 0..(C - 1), Reaches(t, C, k, s),
             Length(t.memory[s].key) = Length(k)
      PROVE  Table!Get(t, k).occupied = 1
  <2>1. PICK g \in 0..(C - 1) :
          /\ s = Probed(C, k, g)
          /\ \A e \in 0..g : t.memory[Probed(C, k, e)].occupied = 1
    BY <1>5 DEF Reaches
  <2>2. ~(g < d)
    BY <1>1, <1>5, <2>1
  <2>3. d \in 0..g
    BY <2>2
  <2> QED
    BY <1>1, <2>1, <2>3
<1> QED
  BY <1>1, <1>2, <1>3, <1>4, <1>5
-----------------------------------------------------------------------------
(* Any headers: the table *)

(* Every key in the table was sent, and its own probe comes to it.         *)
Sound(t, C, keys) ==
  /\ t \in Tables(C)
  /\ Cardinality(Filled(t)) <= t.count
  /\ \A s \in 0..(C - 1) :
       t.memory[s].occupied = 1 =>
         t.memory[s].key \in keys /\ Reaches(t, C, t.memory[s].key, s)

Stored(t, C, k) ==
  \E s \in 0..(C - 1) : t.memory[s].occupied = 1 /\ t.memory[s].key = k

(* A key of this one's length is on the way of its probe.                  *)
Found(t, C, k) ==
  \E s \in 0..(C - 1) : Reaches(t, C, k, s) /\ Length(t.memory[s].key) = Length(k)

LEMMA AllocSound ==
  ASSUME NEW C \in Capacities, NEW keys
  PROVE  Sound(Table!Alloc(C), C, keys) /\ Table!Alloc(C).count = 0
<1> DEFINE t == Table!Alloc(C)
<1>1. Kept(t, C, {})
  BY AllocKept
<1>2. t.count = 0
  BY DEF Table!Alloc
<1> HIDE DEF t
<1>3. t \in Tables(C) /\ \A s \in 0..(C - 1) : t.memory[s].occupied # 1
  BY <1>1 DEF Kept
<1>4. Filled(t) = {}
  BY <1>3, TableFacts DEF Filled
<1>5. Cardinality(Filled(t)) = 0
  BY <1>4, FS_EmptySet
<1> QED
  BY <1>2, <1>3, <1>5 DEF Sound, t

(* The first part of hash_table_add: the key goes to a bucket without one  *)
(* that its probe comes to, and no bucket becomes free.                    *)
LEMMA PlaceSound ==
  ASSUME NEW C \in Capacities, NEW keys \in SUBSET Keys, NEW t, Sound(t, C, keys),
         Cardinality(Filled(t)) < C, NEW k \in Keys,
         NEW p, p = Table!Place(t, k, k)
  PROVE  /\ Sound(p, C, keys \cup {k})
         /\ p.count = t.count + 1
         /\ Stored(p, C, k) /\ Found(p, C, k)
         /\ \A j : Stored(t, C, j) => Stored(p, C, j)
         /\ \A j \in Keys : Found(t, C, j) => Found(p, C, j)
<1> DEFINE open == {d \in 0..(C - 1) : t.memory[Probed(C, k, d)].occupied # 1}
           b == Table!Occupied(k, k)
<1>1. /\ t \in Tables(C) /\ Table!Capacity(t) = C /\ t.count \in Nat
      /\ t.memory \in [0..(C - 1) -> Buckets] /\ DOMAIN t.memory = 0..(C - 1)
  BY TableFacts DEF Sound
<1>2. b \in Buckets /\ b.occupied = 1 /\ b.key = k
  BY BucketFacts
<1>3. PICK f \in 0..(C - 1) : t.memory[f].occupied # 1
  BY <1>1, FilledFacts
<1>4. PICK d0 \in 0..(C - 1) : Probed(C, k, d0) = f
  BY ProbedFacts
<1>5. open \subseteq Nat /\ open # {} /\ open \subseteq 0..(C - 1)
  BY <1>3, <1>4
<1>6. open = {d \in 0..(C - 1) : t.memory[(HashHash(k, C) + d) % C].occupied # 1}
  BY DEF Probed
<1>7. \A d \in 0..(C - 1) : d \in open <=> t.memory[Probed(C, k, d)].occupied # 1
  OBVIOUS
<1> HIDE DEF open, b
<1> DEFINE d == Table!Min(open)
           s == Probed(C, k, d)
<1>8. d \in open /\ \A y \in open : d <= y
  BY <1>5, MinFacts
<1>9. p = [memory |-> [t.memory EXCEPT ![s] = b], count |-> t.count + 1]
  <2>1. s = (HashHash(k, C) + Table!Min(open)) % C
    BY DEF Probed
  <2> HIDE DEF s, d
  <2> QED
    BY <1>1, <1>6, <2>1 DEF Table!Place, b
<1> HIDE DEF d
<1>10. d \in 0..(C - 1) /\ s \in 0..(C - 1) /\ t.memory[s].occupied # 1
  BY <1>5, <1>7, <1>8, ProbedFacts
<1> HIDE DEF s
<1>11. /\ p.memory \in [0..(C - 1) -> Buckets] /\ DOMAIN p.memory = 0..(C - 1)
       /\ p.memory[s] = b /\ p.count = t.count + 1
       /\ \A i \in 0..(C - 1) : i # s => p.memory[i] = t.memory[i]
  <2>1. p.memory = [t.memory EXCEPT ![s] = b] /\ p.count = t.count + 1
    BY <1>9
  <2> QED
    BY <1>1, <1>2, <1>10, <2>1
<1>12. p \in Tables(C)
  BY <1>1, <1>9, <1>11 DEF Tables
<1>13. ASSUME NEW i \in 0..(C - 1), t.memory[i].occupied = 1
       PROVE  p.memory[i] = t.memory[i]
  BY <1>10, <1>11, <1>13
<1>14. ASSUME NEW j \in Keys, NEW i \in 0..(C - 1), Reaches(t, C, j, i)
       PROVE  Reaches(p, C, j, i) /\ p.memory[i] = t.memory[i]
  <2>1. PICK g \in 0..(C - 1) :
          /\ i = Probed(C, j, g)
          /\ \A e \in 0..g : t.memory[Probed(C, j, e)].occupied = 1
    BY <1>14 DEF Reaches
  <2>2. ASSUME NEW e \in 0..g PROVE p.memory[Probed(C, j, e)].occupied = 1
    <3>1. e \in 0..(C - 1)
      BY DEF Capacities
    <3>2. Probed(C, j, e) \in 0..(C - 1)
      BY <3>1, ProbedFacts
    <3> QED
      BY <1>13, <2>1, <3>2
  <2>3. g \in 0..g
    BY DEF Capacities
  <2>4. t.memory[i].occupied = 1
    BY <2>1, <2>3
  <2> QED
    BY <1>13, <2>1, <2>2, <2>4 DEF Reaches
<1>15. Reaches(p, C, k, s)
  <2>1. ASSUME NEW e \in 0..d PROVE p.memory[Probed(C, k, e)].occupied = 1
    <3>1. CASE e = d
      BY <1>2, <1>11, <3>1 DEF s
    <3>2. CASE e # d
      <4>1. e \in 0..(C - 1) /\ ~(d <= e)
        BY <1>10, <3>2 DEF Capacities
      <4>2. t.memory[Probed(C, k, e)].occupied = 1
        BY <1>7, <1>8, <4>1
      <4>3. Probed(C, k, e) \in 0..(C - 1)
        BY <4>1, ProbedFacts
      <4> QED
        BY <1>13, <4>2, <4>3
    <3> QED
      BY <3>1, <3>2
  <2> QED
    BY <1>10, <2>1 DEF Reaches, s
<1>16. Cardinality(Filled(p)) <= p.count
  <2>1. Filled(p) = Filled(t) \cup {s} /\ s \notin Filled(t)
    BY <1>1, <1>2, <1>10, <1>11, <1>13 DEF Filled
  <2>2. Cardinality(Filled(p)) = Cardinality(Filled(t)) + 1
    BY <1>1, <2>1, FilledFacts, FS_AddElement
  <2>3. Cardinality(Filled(t)) \in Nat /\ Cardinality(Filled(t)) <= t.count
    BY <1>1, FilledFacts DEF Sound
  <2> QED
    BY <1>1, <1>11, <2>2, <2>3
<1>17. ASSUME NEW i \in 0..(C - 1), p.memory[i].occupied = 1
       PROVE  p.memory[i].key \in keys \cup {k} /\ Reaches(p, C, p.memory[i].key, i)
  <2>1. CASE i = s
    BY <1>2, <1>11, <1>15, <2>1
  <2>2. CASE i # s
    <3>1. p.memory[i] = t.memory[i]
      BY <1>11, <2>2
    <3>2. t.memory[i].key \in keys /\ Reaches(t, C, t.memory[i].key, i)
      BY <1>17, <3>1 DEF Sound
    <3> QED
      BY <1>14, <3>1, <3>2
  <2> QED
    BY <2>1, <2>2
<1>18. Sound(p, C, keys \cup {k})
  BY <1>12, <1>16, <1>17 DEF Sound
<1>19. Stored(p, C, k) /\ Found(p, C, k)
  BY <1>2, <1>10, <1>11, <1>15 DEF Stored, Found
<1>20. ASSUME NEW j, Stored(t, C, j) PROVE Stored(p, C, j)
  BY <1>13, <1>20 DEF Stored
<1>21. ASSUME NEW j \in Keys, Found(t, C, j) PROVE Found(p, C, j)
  BY <1>14, <1>21 DEF Found
<1> QED
  BY <1>11, <1>18, <1>19, <1>20, <1>21

(* hash_table_expand: every key is kept.                                   *)
LEMMA ExpandSound ==
  ASSUME NEW C \in Capacities, NEW keys \in SUBSET Keys, NEW t, Sound(t, C, keys),
         NEW u, u = Table!Expand(t)
  PROVE  /\ Sound(u, 2 * C, keys)
         /\ u.count <= C
         /\ \A j : Stored(t, C, j) => Stored(u, 2 * C, j)
<1> DEFINE D == 2 * C
<1>1. C \in Nat \ {0} /\ D \in Capacities /\ C < D
  BY DEF Capacities
<1>2. t \in Tables(C) /\ u = Table!Expand(t)
  BY DEF Sound
<1>3. PICK f : Copies(t, C, C, f) /\ Table!Expand(t) = f[C]
  BY <1>2, ExpandFacts
<1>4. \A n \in 0..C : f[n] = IF n = 0 THEN Table!Alloc(D) ELSE CopyBucket(t, f[n - 1], n)
  BY <1>1, <1>3 DEF Copies
<1> HIDE DEF D
<1> DEFINE Copied(n) ==
             /\ Sound(f[n], D, keys)
             /\ f[n].count <= n
             /\ \A s \in 0..(n - 1) :
                  t.memory[s].occupied = 1 => Stored(f[n], D, t.memory[s].key)
           S == {n \in Nat : n <= C => Copied(n)}
<1>5. 0 \in S
  <2>1. f[0] = Table!Alloc(D)
    BY <1>1, <1>4
  <2>2. Sound(f[0], D, keys) /\ f[0].count = 0
    BY <1>1, <2>1, AllocSound
  <2> QED
    BY <2>2
<1>6. ASSUME NEW n \in Nat, n \in S PROVE n + 1 \in S
  <2>1. SUFFICES ASSUME n + 1 <= C PROVE Copied(n + 1)
    OBVIOUS
  <2>2. n \in 0..(C - 1) /\ n <= C /\ n + 1 \in 0..C /\ n + 1 # 0 /\ (n + 1) - 1 = n
    BY <1>1, <2>1
  <2>3. Copied(n)
    BY <1>6, <2>2
  <2>4. f[n + 1] = CopyBucket(t, f[n], n + 1)
    BY <1>4, <2>2
  <2>5. f[n].count \in Nat
    BY <1>1, <2>3, TableFacts DEF Sound
  <2>6. CASE t.memory[n].occupied # 1
    <3>1. f[n + 1] = f[n]
      BY <2>2, <2>4, <2>6 DEF CopyBucket
    <3>2. \A s \in 0..((n + 1) - 1) : t.memory[s].occupied = 1 => s \in 0..(n - 1)
      BY <2>6
    <3> QED
      BY <2>3, <2>5, <3>1, <3>2
  <2>7. CASE t.memory[n].occupied = 1
    <3> DEFINE k == t.memory[n].key
               x == f[n]
               y == f[n + 1]
    <3>1. k \in keys /\ k \in Keys /\ t.memory[n].value = k
      BY <1>2, <2>2, <2>7, TableFacts DEF Sound
    <3>2. y = Table!Place(x, k, k)
      BY <2>2, <2>4, <2>7, <3>1 DEF CopyBucket
    <3>3. Sound(x, D, keys) /\ x.count <= n /\ x.count \in Nat
      BY <2>3, <2>5
    <3>4. keys \cup {k} = keys
      BY <3>1
    <3> HIDE DEF k, x, y
    <3>5. Cardinality(Filled(x)) < D
      <4>1. Cardinality(Filled(x)) \in Nat /\ Cardinality(Filled(x)) <= x.count
        BY <1>1, <3>3, FilledFacts DEF Sound
      <4>2. D \in Nat
        BY <1>1 DEF Capacities
      <4> QED
        BY <1>1, <2>2, <3>3, <4>1, <4>2
    <3>6. /\ Sound(y, D, keys) /\ y.count = x.count + 1 /\ Stored(y, D, k)
          /\ \A j : Stored(x, D, j) => Stored(y, D, j)
      <4>1. /\ Sound(y, D, keys \cup {k}) /\ y.count = x.count + 1 /\ Stored(y, D, k)
            /\ \A j : Stored(x, D, j) => Stored(y, D, j)
        <5>1. /\ D \in Capacities /\ keys \in SUBSET Keys /\ Sound(x, D, keys)
              /\ Cardinality(Filled(x)) < D /\ k \in Keys
          BY <1>1, <3>1, <3>3, <3>5
        <5>2. Sound(y, D, keys \cup {k})
          BY <3>2, <5>1, PlaceSound, Zenon
        <5>3. y.count = x.count + 1
          BY <3>2 DEF Table!Place
        <5>4. Stored(y, D, k)
          BY <3>2, <5>1, PlaceSound, Zenon
        <5>5. \A j : Stored(x, D, j) => Stored(y, D, j)
          BY <3>2, <5>1, PlaceSound, Zenon
        <5> QED
          BY <5>2, <5>3, <5>4, <5>5
      <4> QED
        BY <3>4, <4>1
    <3>7. ASSUME NEW s \in 0..((n + 1) - 1), t.memory[s].occupied = 1
          PROVE  Stored(y, D, t.memory[s].key)
      <4>1. CASE s = n
        BY <3>6, <4>1 DEF k
      <4>2. CASE s # n
        <5>1. s \in 0..(n - 1)
          BY <4>2
        <5>2. Stored(x, D, t.memory[s].key)
          BY <2>3, <3>7, <5>1 DEF x
        <5> QED
          BY <3>6, <5>2
      <4> QED
        BY <4>1, <4>2
    <3>8. y.count <= n + 1
      BY <3>3, <3>6
    <3> QED
      BY <3>6, <3>7, <3>8 DEF y
  <2> QED
    BY <2>6, <2>7
<1> HIDE DEF S
<1>7. Nat \subseteq S
  BY <1>5, <1>6, Induction
<1> HIDE DEF Copied
<1>8. Copied(C)
  BY <1>1, <1>7 DEF S
<1>9. u = f[C]
  BY <1>2, <1>3
<1>10. ASSUME NEW j, Stored(t, C, j) PROVE Stored(u, D, j)
  BY <1>8, <1>9, <1>10 DEF Stored, Copied
<1> QED
  BY <1>8, <1>9, <1>10 DEF Copied, D
-----------------------------------------------------------------------------
(* Any headers: lists *)

Lone(k, keys) == \A j \in keys : Length(j) = Length(k) => j = k

(* The inductive invariant: the table is sound and below its limit, so a   *)
(* probe ends; a header that is alone in its length is stored, and before  *)
(* the table grows a lookup of any header sent finds one of its length.    *)
Follows(t, C, keys) ==
  /\ Sound(t, C, keys)
  /\ t.count < C
  /\ \A k \in keys : Lone(k, keys) => Stored(t, C, k)
  /\ C = 16 => \A k \in keys : Found(t, C, k)

HeaderInv ==
  /\ sent \in SUBSET Keys
  /\ \E C \in Capacities : Follows(table, C, sent)

LEMMA RoomFacts ==
  ASSUME NEW C \in Capacities, NEW t, NEW keys, Sound(t, C, keys), t.count < C
  PROVE  Cardinality(Filled(t)) < C
<1>1. /\ C \in Nat /\ t.count \in Nat
      /\ Cardinality(Filled(t)) \in Nat /\ Cardinality(Filled(t)) <= t.count
  BY TableFacts, FilledFacts DEF Sound, Capacities
<1> QED
  BY <1>1

LEMMA InsertFollows ==
  ASSUME NEW C \in Capacities, NEW keys \in SUBSET Keys, NEW t, Follows(t, C, keys),
         NEW k \in Keys, NEW u, u = Insert(t, k)
  PROVE  \E D \in Capacities : Follows(u, D, keys \cup {k})
<1> DEFINE all == keys \cup {k}
           bucket == Table!Get(t, k)
<1>1. /\ t \in Tables(C) /\ Cardinality(Filled(t)) < C /\ Sound(t, C, keys)
      /\ t.count \in Nat /\ t.count < C
  BY RoomFacts, TableFacts DEF Follows, Sound
<1>2. /\ bucket.occupied \in {0, 1}
      /\ bucket.occupied = 1 =>
           \E s \in 0..(C - 1) :
             /\ bucket = t.memory[s] /\ Reaches(t, C, k, s)
             /\ Length(t.memory[s].key) = Length(k)
  BY <1>1, GetSound
<1>3. ASSUME NEW j \in keys, Lone(j, all) PROVE Stored(t, C, j)
  BY <1>3 DEF Lone, Follows
<1>4. all \in SUBSET Keys
  OBVIOUS
<1> HIDE DEF bucket
<1>5. CASE bucket.occupied = 1
  <2>1. u = t
    BY <1>5 DEF Insert, bucket
  <2>2. PICK s \in 0..(C - 1) :
             /\ bucket = t.memory[s] /\ Reaches(t, C, k, s)
             /\ Length(t.memory[s].key) = Length(k)
    BY <1>2, <1>5
  <2>3. t.memory[s].key \in keys /\ t.memory[s].occupied = 1
    BY <1>1, <1>5, <2>2 DEF Sound
  <2>4. Sound(t, C, all)
    BY <1>1 DEF Sound
  <2>5. ASSUME NEW j \in all, Lone(j, all) PROVE Stored(t, C, j)
    <3>1. CASE j \in keys
      BY <1>3, <2>5, <3>1
    <3>2. CASE j = k
      BY <2>2, <2>3, <2>5, <3>2 DEF Lone, Stored
    <3> QED
      BY <3>1, <3>2
  <2>6. ASSUME C = 16, NEW j \in all PROVE Found(t, C, j)
    <3>1. CASE j \in keys
      BY <2>6, <3>1 DEF Follows
    <3>2. CASE j = k
      BY <2>2, <3>2 DEF Found
    <3> QED
      BY <3>1, <3>2
  <2>7. Follows(t, C, all)
    BY <1>1, <2>4, <2>5, <2>6 DEF Follows
  <2> QED
    BY <2>1, <2>7
<1>6. CASE bucket.occupied = 0
  <2>1. u = Table!Add(t, k, k)
    BY <1>6 DEF Insert, bucket
  <2>2. PICK p : p = Table!Place(t, k, k)
    OBVIOUS
  <2>3. /\ Sound(p, C, all) /\ p.count = t.count + 1
        /\ Stored(p, C, k) /\ Found(p, C, k)
        /\ \A j : Stored(t, C, j) => Stored(p, C, j)
        /\ \A j \in Keys : Found(t, C, j) => Found(p, C, j)
    <3>1. Sound(p, C, all)
      BY <1>1, <2>2, PlaceSound, Zenon
    <3>2. p.count = t.count + 1
      BY <2>2 DEF Table!Place
    <3>3. Stored(p, C, k) /\ Found(p, C, k)
      BY <1>1, <2>2, PlaceSound, Zenon
    <3>4. \A j : Stored(t, C, j) => Stored(p, C, j)
      BY <1>1, <2>2, PlaceSound, Zenon
    <3>5. \A j \in Keys : Found(t, C, j) => Found(p, C, j)
      BY <1>1, <2>2, PlaceSound, Zenon
    <3> QED
      BY <3>1, <3>2, <3>3, <3>4, <3>5
  <2>4. u = IF p.count > (C * 85) \div 100 THEN Table!Expand(p) ELSE p
    BY <1>1, <2>1, <2>2, TableFacts DEF Table!Add, Table!MaxFill
  <2>5. C \in Nat \ {0} /\ C % 16 = 0 /\ 2 * C \in Capacities
    BY DEF Capacities
  <2>6. ASSUME NEW j \in all, Lone(j, all) PROVE Stored(p, C, j)
    <3>1. CASE j \in keys
      BY <1>3, <2>3, <2>6, <3>1
    <3>2. CASE j = k
      BY <2>3, <3>2
    <3> QED
      BY <3>1, <3>2
  <2>7. CASE ~(p.count > (C * 85) \div 100)
    <3>1. u = p /\ p.count < C
      <4>1. (C * 85) \div 100 \in Nat /\ (C * 85) \div 100 < C
        BY <2>5
      <4>2. p.count \in Nat
        BY <1>1, <2>3
      <4> QED
        BY <2>4, <2>5, <2>7, <4>1, <4>2
    <3>2. ASSUME C = 16, NEW j \in all PROVE Found(p, C, j)
      <4>1. CASE j \in keys
        BY <2>3, <3>2, <4>1 DEF Follows
      <4>2. CASE j = k
        BY <2>3, <4>2
      <4> QED
        BY <4>1, <4>2
    <3>3. Follows(p, C, all)
      BY <2>3, <2>6, <3>1, <3>2 DEF Follows
    <3> QED
      BY <3>1, <3>3
  <2>8. CASE p.count > (C * 85) \div 100
    <3>1. u = Table!Expand(p)
      BY <2>4, <2>8
    <3>2. /\ Sound(u, 2 * C, all) /\ u.count <= C
          /\ \A j : Stored(p, C, j) => Stored(u, 2 * C, j)
      BY <1>4, <2>3, <3>1, ExpandSound, Zenon
    <3>3. u.count \in Nat
      BY <2>5, <3>2, TableFacts DEF Sound
    <3>4. u.count < 2 * C
      BY <2>5, <3>2, <3>3
    <3>5. 2 * C # 16
      BY <2>5
    <3>6. \A j \in all : Lone(j, all) => Stored(u, 2 * C, j)
      BY <2>6, <3>2
    <3>7. Follows(u, 2 * C, all)
      BY <3>2, <3>4, <3>5, <3>6, Zenon DEF Follows
    <3> QED
      BY <2>5, <3>7
  <2> QED
    BY <2>7, <2>8
<1> QED
  BY <1>2, <1>5, <1>6

LEMMA HeaderInvariant == Spec => []HeaderInv
<1>1. Init => HeaderInv
  <2>1. SUFFICES ASSUME Init PROVE HeaderInv
    OBVIOUS
  <2>2. 16 \in Capacities
    BY DEF Capacities
  <2>3. Sound(table, 16, {}) /\ table.count = 0
    BY <2>1, <2>2, AllocSound DEF Init
  <2>4. Follows(table, 16, {})
    BY <2>3 DEF Follows
  <2> QED
    BY <2>1, <2>2, <2>4 DEF HeaderInv, Init
<1>2. HeaderInv /\ [Next]_vars => HeaderInv'
  <2>1. SUFFICES ASSUME HeaderInv, [Next]_vars PROVE HeaderInv'
    OBVIOUS
  <2>2. CASE Next
    <3>1. PICK k \in Keys : AddHeader(k)
      BY <2>2 DEF Next
    <3>2. PICK C \in Capacities : Follows(table, C, sent)
      BY <2>1 DEF HeaderInv
    <3>3. sent \in SUBSET Keys /\ table' = Insert(table, k) /\ sent' = sent \cup {k}
      BY <2>1, <3>1 DEF HeaderInv, AddHeader
    <3>4. \E D \in Capacities : Follows(table', D, sent \cup {k})
      BY <3>2, <3>3, InsertFollows
    <3> QED
      BY <3>3, <3>4 DEF HeaderInv
  <2>3. CASE UNCHANGED vars
    BY <2>1, <2>3 DEF vars, HeaderInv
  <2> QED
    BY <2>1, <2>2, <2>3
<1> QED
  BY <1>1, <1>2, PTL DEF Spec

(* What s3_attrib_get returns, for any headers.                            *)
LEMMA AnswerFacts ==
  ASSUME HeaderInv, NEW a \in Attribs
  PROVE  /\ \/ Get(table, a) = Empty
            \/ /\ Get(table, a) \in sent /\ Get(table, a) # Empty
               /\ Length(Get(table, a)) = Length(a)
         /\ a \in sent /\ Lone(a, sent) => Get(table, a) # Empty
         /\ a \in sent /\ Table!Capacity(table) = 16 => Get(table, a) # Empty
<1> DEFINE bucket == Table!Get(table, a)
<1>1. PICK C \in Capacities : Follows(table, C, sent)
  BY DEF HeaderInv
<1>2. a \in Keys /\ sent \in SUBSET Keys
  BY DEF Keys, HeaderInv
<1>3. /\ table \in Tables(C) /\ Cardinality(Filled(table)) < C /\ Sound(table, C, sent)
      /\ Table!Capacity(table) = C
  BY <1>1, RoomFacts, TableFacts DEF Follows, Sound
<1>4. /\ bucket.occupied \in {0, 1}
      /\ bucket.occupied = 1 =>
           \E s \in 0..(C - 1) :
             /\ bucket = table.memory[s] /\ Reaches(table, C, a, s)
             /\ Length(table.memory[s].key) = Length(a)
      /\ Found(table, C, a) => bucket.occupied = 1
  BY <1>2, <1>3, GetSound DEF Found
<1>5. Get(table, a) = IF bucket.occupied = 0 THEN Empty ELSE bucket.value
  BY DEF Get
<1> HIDE DEF bucket
<1>6. ASSUME bucket.occupied = 1
      PROVE  /\ Get(table, a) \in sent /\ Get(table, a) # Empty
             /\ Length(Get(table, a)) = Length(a)
  <2>1. PICK s \in 0..(C - 1) :
             bucket = table.memory[s] /\ Length(table.memory[s].key) = Length(a)
    BY <1>4, <1>6
  <2>2. bucket.key \in sent /\ bucket.value = bucket.key
    BY <1>3, <1>6, <2>1, TableFacts DEF Sound
  <2>3. Get(table, a) = bucket.key
    BY <1>5, <1>6, <2>2
  <2>4. bucket.key # Empty
    <3>1. Empty \notin Keys
      BY OthersAssumption DEF Keys, Empty, Attribs
    <3> QED
      BY <1>2, <2>2, <3>1
  <2> QED
    BY <2>1, <2>2, <2>3, <2>4
<1>7. ASSUME a \in sent, Lone(a, sent) PROVE Found(table, C, a)
  <2>1. PICK s \in 0..(C - 1) : table.memory[s].occupied = 1 /\ table.memory[s].key = a
    BY <1>1, <1>7 DEF Follows, Stored
  <2> QED
    BY <1>3, <2>1 DEF Sound, Found
<1>8. ASSUME a \in sent, Table!Capacity(table) = 16 PROVE Found(table, C, a)
  BY <1>1, <1>3, <1>8 DEF Follows
<1> QED
  BY <1>4, <1>5, <1>6, <1>7, <1>8

(* Whatever headers a client sends, known or not, an attribute whose       *)
(* length no other one has is looked up exactly: hash_table_add finds it   *)
(* a bucket its probe comes to, hash_table_expand too, and hash_compare    *)
(* passes over the others.                                                 *)
THEOREM LoneLookupsAreExact == Spec => []LoneLookupsExact
<1>1. HeaderInv => LoneLookupsExact
  <2>1. SUFFICES ASSUME HeaderInv, NEW a \in Attribs,
                        \A key \in sent : Length(key) = Length(a) => key = a
                 PROVE  Get(table, a) = IF a \in sent THEN a ELSE Empty
    BY Zenon DEF LoneLookupsExact
  <2>2. Lone(a, sent)
    BY <2>1 DEF Lone
  <2> QED
    BY <2>1, <2>2, AnswerFacts
<1> QED
  BY <1>1, HeaderInvariant, PTL

(* Whatever headers a client sends, a lookup answers with a header that    *)
(* was sent and has the attribute's length, and until the table grows it   *)
(* answers for every attribute that was sent.                              *)
THEOREM LookupsDoAnswer == Spec => []LookupsAnswer
<1>1. HeaderInv => LookupsAnswer
  <2>1. SUFFICES ASSUME HeaderInv, NEW a \in Attribs
                 PROVE  /\ Get(table, a) # Empty =>
                             Get(table, a) \in sent /\ Length(Get(table, a)) = Length(a)
                        /\ Table!Capacity(table) = 16 /\ a \in sent => Get(table, a) # Empty
    BY Zenon DEF LookupsAnswer
  <2> QED
    BY <2>1, AnswerFacts
<1> QED
  BY <1>1, HeaderInvariant, PTL
=============================================================================
