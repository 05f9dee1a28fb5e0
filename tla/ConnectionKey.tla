--------------------------- MODULE ConnectionKey ---------------------------
(***************************************************************************)
(* The keys print_connection_banner (src/main.c) shows for the address the *)
(* server is bound to: its bytes in hexadecimal (string_hexify), and, when *)
(* that is shorter, the run lengths of these digits (rle_string, one       *)
(* iteration of its loop per step).  A character is a number: the digits   *)
(* are the ones below NIBBLE, 16 in the code.                              *)
(***************************************************************************)
EXTENDS Integers, SequencesExt

CONSTANTS NIBBLE,       \* values of half a byte
          CHARACTERS,   \* values of a byte that does not end a string: 255
          RUN_LIMIT,    \* the longest run one letter can stand for
          MaxAddress,   \* bound: bytes of an address
          MaxBehind     \* bound: characters found behind the digits

ASSUME ConnectionKeyAssumption ==
  /\ {NIBBLE, RUN_LIMIT} \subseteq Nat \ {0}
  /\ CHARACTERS \in Nat /\ CHARACTERS >= NIBBLE
  /\ {MaxAddress, MaxBehind} \subseteq Nat

NoDigit == -1

VARIABLES address,   \* the bytes of the address and the port
          string,    \* the characters rle_string is given
          i,         \* the next of them
          last, counter,
          temp,      \* the runs written: <<counter, character>>
          key        \* the keys shown once the loop is over

keyVars == <<address, string, i, last, counter, temp, key>>

Hexify(bytes) ==
  [n \in 1..(2 * Len(bytes)) |->
     IF n % 2 = 1 THEN bytes[(n + 1) \div 2] \div NIBBLE
     ELSE bytes[n \div 2] % NIBBLE]

(* The digits are not terminated: strlen, and with it rle_string, goes on  *)
(* over whatever bytes follow them in memory, up to the first zero.        *)
KeyInit ==
  /\ address \in UNION {[1..n -> 0..(NIBBLE * NIBBLE - 1)] : n \in 1..MaxAddress}
  /\ \E behind \in UNION {[1..n -> 0..(CHARACTERS - 1)] : n \in 0..MaxBehind} :
       string = Hexify(address) \o behind
  /\ i = 1 /\ last = NoDigit /\ counter = 0
  /\ temp = <<>> /\ key = <<>>

RunEnds_Late(current) ==   \* mutant: counter > 25
  (current # last /\ last # NoDigit) \/ counter > RUN_LIMIT

RunEnds(current) ==
  (current # last /\ last # NoDigit) \/ counter >= RUN_LIMIT

ReadDigit ==
  LET current == string[i]
  IN  /\ i <= Len(string)
      /\ i' = i + 1
      /\ last' = current
      /\ \/ /\ RunEnds(current)
            /\ temp' = Append(temp, <<counter, last>>)
            /\ counter' = 1
         \/ /\ ~RunEnds(current)
            /\ counter' = counter + 1
            /\ UNCHANGED temp
      /\ UNCHANGED <<address, string, key>>

(* The last run and the terminator; the alternate key is shown if it is    *)
(* shorter by more than two characters.                                    *)
ShowKeys ==
  LET runs == IF counter > 0 THEN Append(temp, <<counter, last>>) ELSE temp
  IN  /\ i = Len(string) + 1
      /\ key = <<>>
      /\ temp' = runs
      /\ key' = IF 2 * Len(runs) + 1 + 2 < Len(string) THEN <<"0", "1">>
                ELSE <<"0">>
      /\ UNCHANGED <<address, string, i, last, counter>>

KeyNext == ReadDigit \/ ShowKeys

KeySpec == KeyInit /\ [][KeyNext]_keyVars
-----------------------------------------------------------------------------
(* What a client makes of a key.                                           *)
Run(run) == [n \in 1..run[1] |-> run[2]]

Runs(t) ==
  LET decoded[n \in 0..Len(t)] ==
        IF n = 0 THEN <<>> ELSE decoded[n - 1] \o Run(t[n])
  IN  decoded[Len(t)]

Unhex(digits) ==
  [n \in 1..(Len(digits) \div 2) |-> NIBBLE * digits[2 * n - 1] + digits[2 * n]]

(* Both keys begin with the address, whatever follows the digits: the runs *)
(* stand for the characters in their order, every run has a letter, and    *)
(* digits come back as bytes.                                              *)
KeysGiveAddress ==
  key # <<>> =>
    /\ \A n \in DOMAIN temp : temp[n][1] \in 1..RUN_LIMIT
    /\ IsPrefix(address, Unhex(string))
    /\ IsPrefix(address, Unhex(Runs(temp)))
=============================================================================
