------------------------- MODULE MCRequestHeaders -------------------------
(* Header lists with headers the protocol does not know.  owner and range  *)
(* take the bucket of action and the next one, which leaves action the     *)
(* bucket of secret; format has the length of action, append and secret;   *)
(* the others have lengths of their own.  Together they make the table     *)
(* grow.                                                                   *)
EXTENDS RequestHeaders, TLC

MCOtherHash ==
  ("owner" :> 5) @@ ("range" :> 6) @@ ("format" :> 8) @@
  ("timestamp" :> 9) @@ ("generation" :> 35) @@ ("content-type" :> 10)

MCOtherLength ==
  ("owner" :> 5) @@ ("range" :> 5) @@ ("format" :> 6) @@
  ("timestamp" :> 9) @@ ("generation" :> 10) @@ ("content-type" :> 12)

MCOthers == DOMAIN MCOtherHash
=============================================================================
