-------------------------- MODULE RequestHeaders --------------------------
(***************************************************************************)
(* make_hash_table (protocol.c) reading the header list of one request,    *)
(* header by header: the list comes from the client, in any order and with *)
(* any repetitions.  Server looks attributes up in the table built here.   *)
(***************************************************************************)
EXTENDS HeaderTable

VARIABLES table,   \* the header table so far
          sent     \* the keys of the header list so far

vars == <<table, sent>>

Init ==
  /\ table = Table!Alloc(16)
  /\ sent = {}

AddHeader(key) ==
  /\ table' = Insert(table, key)
  /\ sent' = sent \cup {key}

Next == \E key \in Keys : AddHeader(key)

Spec == Init /\ [][Next]_vars
-----------------------------------------------------------------------------
(* An attribute whose length no other header of the list has is looked up  *)
(* exactly, by s3_attrib_get and s3_attrib_contains: in every order of the *)
(* list, behind any headers that took its bucket, and after the table has  *)
(* grown.  A header of its length can be taken for it.                     *)
LoneLookupsExact ==
  \A a \in Attribs :
    (\A key \in sent : Length(key) = Length(a) => key = a) =>
      Get(table, a) = IF a \in sent THEN a ELSE Empty

(* In a list of attributes of the protocol only, every lookup answers for  *)
(* its own attribute.  The exception are updateat and username, which      *)
(* share their bucket and length: only one of them is ever stored, and     *)
(* both lookups answer with that one.                                      *)
LookupsExact ==
  LET twins == {"updateat", "username"}
      stored == Get(table, "username")
  IN  sent \subseteq Attribs =>
        /\ \A a \in Attribs \ twins :
             Get(table, a) = IF a \in sent THEN a ELSE Empty
        /\ Get(table, "updateat") = stored
        /\ stored \in IF sent \cap twins = {} THEN {Empty} ELSE sent \cap twins

(* Whatever the headers, a lookup never invents: it answers with a header  *)
(* that was sent and has the length of the attribute.  And until the table *)
(* grows (which a list of attributes alone cannot cause) an attribute that *)
(* was sent is found, be it with another header's value.                   *)
LookupsAnswer ==
  \A a \in Attribs :
    /\ Get(table, a) # Empty =>
         Get(table, a) \in sent /\ Length(Get(table, a)) = Length(a)
    /\ Table!Capacity(table) = 16 /\ a \in sent => Get(table, a) # Empty
=============================================================================
