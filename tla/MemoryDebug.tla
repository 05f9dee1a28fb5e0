---------------------------- MODULE MemoryDebug ----------------------------
(***************************************************************************)
(* The record of allocations a DEBUG build keeps (src/memdbg/memory.c): a  *)
(* hash table from addresses to memory_allocation_s, which                 *)
(* memory_debug_print_lost lists when the server is interrupted.           *)
(*                                                                         *)
(* The key of a record is a pointer to a parameter of memory_add, which is *)
(* gone when the record is used.  Lookups do not depend on it, since       *)
(* hash_compare does not look at keys of one length; growing the table     *)
(* does: there each record goes wherever that memory happens to send it.   *)
(***************************************************************************)
EXTENDS Integers, FiniteSets, FiniteSetsExt

CONSTANTS Addresses,        \* what the allocator hands out
          AddressHash,      \* hash_long of each
          RECORD_BUCKETS,   \* the first capacity of the table
          MaxAdds           \* bound: calls of memory_add over a run

ASSUME MemoryAssumption ==
  /\ AddressHash \in [Addresses -> Nat]
  /\ RECORD_BUCKETS \in Nat \ {0}
  /\ MaxAdds \in Nat

HashHash(address, modulus) == AddressHash[address] % modulus

KeyLength(address) == 8

Table == INSTANCE HashTable WITH Hash <- HashHash

VARIABLES table,   \* allocations.table
          live,    \* the addresses the program holds
          moved,   \* records left behind by reallocations that moved
          adds,    \* calls of memory_add so far (bounded by MaxAdds)
          grown    \* has the table grown?

vars == <<table, live, moved, adds, grown>>

Held(t) == {s \in DOMAIN t.memory : t.memory[s].occupied = 1}

Init ==
  /\ table = Table!Alloc(RECORD_BUCKETS)
  /\ live = {}
  /\ moved = 0
  /\ adds = 0
  /\ grown = FALSE

(* hash_table_expand with keys that are gone.                              *)
Scattered(t) ==
  LET capacity == 2 * Table!Capacity(t)
      records == Cardinality(Held(t))
  IN  {[memory |-> [s \in 0..(capacity - 1) |->
                      IF s \in slots THEN Table!Occupied("gone", "record")
                      ELSE Table!Free],
        count |-> records] : slots \in kSubset(records, 0..(capacity - 1))}

(* memory_add *)
MemoryAdd(address) ==
  LET placed == Table!Place(table, address, "record")
  IN  /\ adds < MaxAdds
      /\ adds' = adds + 1
      /\ \/ /\ placed.count <= Table!MaxFill(table)
            /\ table' = placed
            /\ UNCHANGED grown
         \/ /\ placed.count > Table!MaxFill(table)
            /\ table' \in Scattered(placed)
            /\ grown' = TRUE

(* The first part of memory_update: without a record nothing is done.      *)
Recorded(address) == Table!Get(table, address).occupied = 1

(* __malloc and __calloc *)
Malloc(address) ==
  /\ address \notin live
  /\ live' = live \cup {address}
  /\ MemoryAdd(address)
  /\ UNCHANGED moved

(* __realloc of a block that moves: the new address is added, the record   *)
(* of the old one stays.  One that does not move, or fails, only adds to   *)
(* the history of its record.                                              *)
Realloc(address, new_addr) ==
  /\ address \in live /\ new_addr \notin live
  /\ live' = (live \ {address}) \cup {new_addr}
  /\ \/ /\ Recorded(address)
        /\ MemoryAdd(new_addr)
        /\ moved' = moved + 1
     \/ /\ ~Recorded(address)
        /\ UNCHANGED <<table, moved, adds, grown>>

(* __free *)
Release(address) ==
  /\ address \in live
  /\ live' = live \ {address}
  /\ table' = IF Recorded(address) THEN Table!Remove(table, address) ELSE table
  /\ UNCHANGED <<moved, adds, grown>>

Next ==
  \E address \in Addresses :
    \/ Malloc(address)
    \/ \E new_addr \in Addresses : Realloc(address, new_addr)
    \/ Release(address)

Spec == Init /\ [][Next]_vars
-----------------------------------------------------------------------------
(* Until the table grows, the listing of lost memory has one entry for     *)
(* each block in use and one for each move, although a lookup takes the    *)
(* record of any address that shares its bucket for its own, and every     *)
(* block in use is found.  Later it may have more entries, never fewer.    *)
LostIsListed ==
  LET used == Cardinality(live) + moved
  IN  /\ Cardinality(Held(table)) >= used
      /\ ~grown => /\ Cardinality(Held(table)) = used
                   /\ \A address \in live : Recorded(address)
=============================================================================
