---------------------------- MODULE MCAlgorithms ----------------------------
(* The pure algorithms against their reference definitions: a behaviour    *)
(* runs one of them on one input.                                          *)
EXTENDS Paths, ConnectionKey

VARIABLE runs   \* which algorithm

vars == <<runs, pathVars, keyVars>>

MCTilde == [s \in Components |->
              CASE s = "" -> "~" [] s = "." -> "~." [] s = ".." -> "~.."
                [] s = "a" -> "~a" [] s = "bb" -> "~bb"]

MCNameLength == [s \in Names |-> CASE s \in {"a", "~"} -> 1
                                    [] s \in {"bb", "~.", "~a"} -> 2
                                    [] OTHER -> 3]

MCFolder == <<"a", "bb">>

Idle ==
  /\ address = <<>> /\ string = <<>> /\ i = 1 /\ last = NoDigit /\ counter = 0
  /\ temp = <<>> /\ key = <<>>

Init ==
  /\ runs \in {"path", "key"}
  /\ PathInit
  /\ runs = "key" => root = ""
  /\ IF runs = "key" THEN KeyInit ELSE Idle

Next ==
  \/ runs = "path" /\ PathNext /\ UNCHANGED <<runs, keyVars>>
  \/ runs = "key" /\ KeyNext /\ UNCHANGED <<runs, pathVars>>

Spec == Init /\ [][Next]_vars
=============================================================================
