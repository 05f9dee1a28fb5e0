----------------------------- MODULE HashTable -----------------------------
(***************************************************************************)
(* The open-addressing hash table of src/data/hash_table.c, as the server  *)
(* allocates it: fill limit 0.85, doubled when it is exceeded.  A table is *)
(* the array of buckets and the count of buckets added since it last grew, *)
(* which removing does not lower.                                          *)
(***************************************************************************)
EXTENDS Naturals, FiniteSets, FiniteSetsExt

CONSTANTS Hash(_, _),     \* hash_hash of a key, for a capacity
          KeyLength(_)    \* the length of a key in bytes

Free == [occupied |-> 0]

Tombstone == [occupied |-> 2]

Occupied(key, value) == [occupied |-> 1, key |-> key, value |-> value]

(* hash_table_alloc *)
Alloc(capacity) ==
  [memory |-> [s \in 0..(capacity - 1) |-> Free], count |-> 0]

Capacity(table) == Cardinality(DOMAIN table.memory)

MaxFill(table) == (Capacity(table) * 85) \div 100

(* The d-th bucket a probe for key looks at. *)
Slot(table, key, d) == (Hash(key, Capacity(table)) + d) % Capacity(table)

(* hash_compare: a probe goes on over a tombstone and over a key of        *)
(* another length; a free bucket and every key of the same length, equal   *)
(* or not, stop it.                                                        *)
HashCompare(bucket, key) ==
  \/ bucket.occupied = 2
  \/ bucket.occupied = 1 /\ KeyLength(bucket.key) # KeyLength(key)

(* The probes at which a lookup of key would stop; it stops at the first.  *)
Stops(table, key) ==
  LET capacity == Capacity(table)
      hash == Hash(key, capacity)
  IN  {d \in 0..(capacity - 1) :
         ~HashCompare(table.memory[(hash + d) % capacity], key)}

Probe(table, key) == Slot(table, key, Min(Stops(table, key)))

(* hash_table_get *)
Get(table, key) == table.memory[Probe(table, key)]

(* hash_table_remove *)
Remove_Forgotten(table, key) == table   \* mutant: the bucket stays

Remove_Cleared(table, key) ==   \* mutant: no tombstone
  [table EXCEPT !.memory = [@ EXCEPT ![Probe(table, key)] = Free]]

Remove(table, key) ==
  [table EXCEPT !.memory = [@ EXCEPT ![Probe(table, key)] = Tombstone]]

(* The first part of hash_table_add: the first bucket without a key, be it *)
(* free or a tombstone.                                                    *)
Place_NoProbe(table, key, value) ==   \* mutant: overwrites the first bucket
  [memory |-> [table.memory EXCEPT ![Slot(table, key, 0)] =
                 Occupied(key, value)],
   count  |-> table.count + 1]

Place(table, key, value) ==
  LET capacity == Capacity(table)
      hash == Hash(key, capacity)
      open == {d \in 0..(capacity - 1) :
                 table.memory[(hash + d) % capacity].occupied # 1}
      slot == (hash + Min(open)) % capacity
  IN  [memory |-> [table.memory EXCEPT ![slot] = Occupied(key, value)],
       count  |-> table.count + 1]

(* hash_table_expand: the keys, in the order of their buckets, go to a     *)
(* table of twice the capacity; tombstones do not.                         *)
Expand_FirstHalf(table) ==   \* mutant: copies half of the old buckets
  LET copied[i \in 0..Capacity(table)] ==
        IF i = 0 THEN Alloc(2 * Capacity(table))
        ELSE LET bucket == table.memory[i - 1]
             IN  IF bucket.occupied = 1 /\ 2 * i <= Capacity(table)
                 THEN Place(copied[i - 1], bucket.key, bucket.value)
                 ELSE copied[i - 1]
  IN  copied[Capacity(table)]

Expand(table) ==
  LET copied[i \in 0..Capacity(table)] ==
        IF i = 0 THEN Alloc(2 * Capacity(table))
        ELSE LET bucket == table.memory[i - 1]
             IN  IF bucket.occupied = 1
                 THEN Place(copied[i - 1], bucket.key, bucket.value)
                 ELSE copied[i - 1]
  IN  copied[Capacity(table)]

(* hash_table_add *)
Add(table, key, value) ==
  LET placed == Place(table, key, value)
  IN  IF placed.count > MaxFill(table) THEN Expand(placed) ELSE placed
=============================================================================
