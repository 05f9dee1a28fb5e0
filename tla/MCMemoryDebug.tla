--------------------------- MODULE MCMemoryDebug ---------------------------
(* Four addresses, three of which share buckets of the first table.        *)
EXTENDS MemoryDebug

MCAddresses == 1..4

MCAddressHash == [n \in MCAddresses |-> IF n < 3 THEN 3 ELSE n]
=============================================================================
