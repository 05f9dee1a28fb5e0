------------------------------ MODULE MCServer ------------------------------
(* Small instances of Server: two names, "a" and "a/b", or two paths that  *)
(* do not nest, two users and a handful of header sections.                *)
EXTENDS ServerStore

CONSTANTS a, b            \* paths
CONSTANTS ann, bo, nobody  \* users, and a text that is none
CONSTANTS right, wrong    \* secrets

MCNames == {a, b}
MCReals == {a, b}
MCRealOf == [n \in MCNames |-> n]

FlatAncestors == [r \in MCReals |-> {}]
(* b is stored below a *)
NestedAncestors == [r \in MCReals |-> IF r = b THEN {a} ELSE {}]

MCFolders == {"all", "none"}
MCListed == [f \in MCFolders |-> IF f = "all" THEN MCNames ELSE {}]

MCUsers == {ann, bo, nobody}
MCSecrets == {right, wrong}
MCAccounts == {ann, bo} \X {right}

(* Headers the protocol does not know: format has the bucket and the       *)
(* length of secret; owner and range leave action the bucket of secret.    *)
MCOtherHash == [format |-> 7, owner |-> 5, range |-> 6]
MCOtherLength == [format |-> 6, owner |-> 5, range |-> 5]
MCOthers == DOMAIN MCOtherHash

Text == [name |-> NoName, folder |-> "none", user |-> nobody, secret |-> wrong,
         length |-> 0]

Number(n) == [Text EXCEPT !.user = NoText, !.secret = NoText, !.length = n]

(* Name n, user u, passphrase s, folder f and flag t in their headers.     *)
Headers(n, u, s, f, t) ==
  [action |-> Text, append |-> Text, crc |-> Number(0),
   dirname |-> [Text EXCEPT !.folder = f],
   filename |-> [Text EXCEPT !.name = n],
   secret |-> [Text EXCEPT !.secret = s],
   trim |-> Number(IF t THEN 1 ELSE 0),
   updateat |-> Number(0),
   username |-> [Text EXCEPT !.user = u, !.length = IF u = ann THEN 0 ELSE 1],
   format |-> [Text EXCEPT !.secret = right], owner |-> Text, range |-> Text]

Request(action, keys, value) ==
  [action |-> action, keys |-> keys, value |-> value]

Of(user, name) == Headers(name, user, right, "all", FALSE)

Login == <<"action", "username", "secret">>

CreateRequests(users, names) ==
  {Request("create", Login \o <<"filename">>, Of(u, n)) :
     n \in names, u \in users}

AppendRequests(users, names) ==
  {Request("create", Login \o <<"filename", "append">>, Of(u, n)) :
     n \in names, u \in users}

UpdateRequests(users, names) ==
  {Request("update", Login \o <<"filename", "updateat", "trim">>,
           Headers(n, u, right, "all", t)) :
     n \in names, u \in users, t \in BOOLEAN}

DeleteRequests ==
  {Request("delete", Login \o <<"filename">>, Of(ann, n)) : n \in MCNames}

FileRequests ==
  CreateRequests({ann}, MCNames) \cup AppendRequests({ann}, MCNames)
    \cup UpdateRequests({ann}, {a}) \cup UpdateRequests({bo}, {b})
    \cup DeleteRequests

(* Requests on one file only.                                              *)
UploadsToA == CreateRequests({ann}, {a}) \cup AppendRequests({bo}, {a})

WritesToA == UploadsToA \cup UpdateRequests({ann, bo}, {a})

UploadRequests ==
  CreateRequests({ann}, MCNames) \cup AppendRequests({bo}, MCNames)

(* One request of every other kind, and headers of every wrong kind.       *)
OtherRequests ==
  LET blank == Of(ann, NoName)
      onA   == Of(ann, a)
      wrongSecret == Headers(a, ann, wrong, "all", FALSE)
      file  == Login \o <<"filename">>
  IN  {Request("login", Login, blank),
       Request("login", <<"action", "username">>, blank),
       Request("server", <<"action">>, blank),
       Request("notification", <<"action">>, blank),
       Request("request", Login, blank),
       Request("request", file, onA),
       Request("dir", Login \o <<"dirname">>, blank),
       Request("delete", file, onA),
       Request("invalid", <<"action">>, blank),
       Request("create", file, onA),
       Request("create", file, wrongSecret),
       Request("create", file, blank),
       Request("create", <<"username", "secret", "filename">>, onA),
       Request("create", <<>>, blank),
       Request("update", <<"action", "updateat", "username", "secret",
                           "filename", "trim">>, onA),
       Request("create", <<"action", "format">> \o Tail(file), wrongSecret),
       Request("create", <<"owner", "range">> \o file, onA)}

Symmetry == Permutations(Clients)
=============================================================================
