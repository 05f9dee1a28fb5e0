---------------------------- MODULE HeaderTable ----------------------------
(***************************************************************************)
(* The hash table that make_hash_table (protocol.c) builds from the header *)
(* list of one request, and the lookups s3_attrib_contains and             *)
(* s3_attrib_get make in it.  The value of a header is modelled by its     *)
(* key: what matters is whose value a lookup returns.  Hash values are     *)
(* kept modulo 64, enough for the table and two expansions of it.          *)
(***************************************************************************)
EXTENDS Naturals, Sequences

Attribs == {"action", "append", "crc", "dirname", "filename", "secret",
            "trim", "updateat", "username"}

CONSTANTS Others,        \* header names the protocol does not know
          OtherHash,     \* hash_hash of each, modulo 64
          OtherLength    \* the length of each

ASSUME OthersAssumption ==
  /\ Others \cap (Attribs \cup {"empty"}) = {}
  /\ OtherHash \in [Others -> 0..63]
  /\ OtherLength \in [Others -> Nat]

Keys == Attribs \cup Others

Empty == "empty"

(* hash_hash of each attribute name, modulo 64: hash_long of the 8 bytes   *)
(* of filename, updateat and username, hash_string of the others.          *)
Hash == [action |-> 53, append |-> 25, crc |-> 58, dirname |-> 32,
         filename |-> 18, secret |-> 23, trim |-> 52, updateat |-> 27,
         username |-> 27]

KeyLength == [action |-> 6, append |-> 6, crc |-> 3, dirname |-> 7,
              filename |-> 8, secret |-> 6, trim |-> 4, updateat |-> 8,
              username |-> 8]

HashHash(key, modulus) ==
  (IF key \in Attribs THEN Hash[key] ELSE OtherHash[key]) % modulus

Length(key) == IF key \in Attribs THEN KeyLength[key] ELSE OtherLength[key]

Table == INSTANCE HashTable WITH Hash <- HashHash, KeyLength <- Length

(* The loop of make_hash_table: a key whose lookup finds an occupied       *)
(* bucket is taken for a repetition and skipped.                           *)
Insert_Repeated(table, key) ==   \* mutant: repetitions are added too
  Table!Add(table, key, key)

Insert(table, key) ==
  IF Table!Get(table, key).occupied # 0 THEN table
  ELSE Table!Add(table, key, key)

MakeHashTable(keys) ==
  LET built[i \in 0..Len(keys)] ==
        IF i = 0 THEN Table!Alloc(16) ELSE Insert(built[i - 1], keys[i])
  IN  built[Len(keys)]

(* s3_attrib_get: the attribute whose value is returned.                   *)
Get(table, key) ==
  LET bucket == Table!Get(table, key)
  IN  IF bucket.occupied = 0 THEN Empty ELSE bucket.value
=============================================================================
