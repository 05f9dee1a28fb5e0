--------------------------- MODULE MCClientTable ---------------------------
(* The client table with the & of module Bitwise, for masks below 1024. It *)
(* is checked to have the property of & the proofs rest on, for operands   *)
(* below 64.                                                               *)
EXTENDS ClientTable, Bitwise

MCBitAnd(x, y) == (x % 1024) & y

ASSUME MCAndAssumption ==
  \A x, y \in 0..63 : MCBitAnd(x, y) \in 0..y
=============================================================================
