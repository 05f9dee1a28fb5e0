------------------------ MODULE ConnectionKeyProofs ------------------------
(***************************************************************************)
(* Theorems about the connection keys: KeysGiveAddress, for every address, *)
(* every run limit and whatever bytes follow the digits in memory.         *)
(***************************************************************************)
EXTENDS ConnectionKey, WellFoundedInduction, TLAPS

-----------------------------------------------------------------------------
(* Arithmetic *)

(* Induction, for a set of naturals: its complement has no least element.  *)
LEMMA Induction ==
  ASSUME NEW S, 0 \in S, \A n \in Nat : n \in S => n + 1 \in S
  PROVE  Nat \subseteq S
<1> DEFINE T == Nat \ S
<1>1. SUFFICES ASSUME T # {} PROVE FALSE
  OBVIOUS
<1>2. PICK m \in T : \A y \in T : ~(<<y, m>> \in OpToRel(<, Nat))
  <2>1. T \subseteq Nat
    OBVIOUS
  <2> HIDE DEF T
  <2> QED
    BY <1>1, <2>1, NatLessThanWellFounded, WFMin
<1>3. m \in Nat /\ m # 0
  OBVIOUS
<1>4. m - 1 \in Nat /\ (m - 1) + 1 = m /\ m - 1 < m
  BY <1>3
<1>5. <<m - 1, m>> \in OpToRel(<, Nat)
  <2>1. <<m - 1, m>> \in Nat \X Nat /\ <<m - 1, m>>[1] = m - 1 /\ <<m - 1, m>>[2] = m
    BY <1>3, <1>4
  <2> QED
    BY <1>4, <2>1 DEF OpToRel
<1>6. m - 1 \in S
  BY <1>2, <1>4, <1>5
<1> QED
  BY <1>4, <1>6

Digits == 0..(NIBBLE - 1)

Characters == 0..(CHARACTERS - 1)

Bytes == 0..(NIBBLE * NIBBLE - 1)

(* The two digits of a byte give it back.                                  *)
LEMMA ByteOfDigits ==
  ASSUME NEW b \in Bytes
  PROVE  /\ b \div NIBBLE \in Digits
         /\ b % NIBBLE \in Digits
         /\ NIBBLE * (b \div NIBBLE) + (b % NIBBLE) = b
<1> DEFINE N == NIBBLE
<1>1. N \in Nat \ {0}
  BY ConnectionKeyAssumption
<1>2. N * N \in Nat /\ b \in Nat /\ b < N * N
  <2>1. N * N \in Nat
    BY <1>1
  <2> QED
    BY <2>1 DEF Bytes
<1> HIDE DEF N
<1> DEFINE q == b \div N
           r == b % N
<1>3. q \in Nat /\ r \in 0..(N - 1) /\ b = N * q + r
  BY <1>1, <1>2
<1> HIDE DEF q, r
<1>4. q < N
  <2>1. SUFFICES ASSUME q >= N PROVE FALSE
    BY <1>1, <1>3
  <2>2. N * q >= N * N
    BY <1>1, <1>3, <2>1
  <2>3. N * q \in Nat
    BY <1>1, <1>3
  <2> QED
    BY <1>1, <1>2, <1>3, <2>2, <2>3
<1> QED
  BY <1>1, <1>3, <1>4 DEF q, r, N, Digits
-----------------------------------------------------------------------------
(* Hexadecimal digits *)

(* What begins with the digits of an address is read as the address first. *)
LEMMA UnhexFacts ==
  ASSUME NEW a \in Seq(Bytes), NEW s \in Seq(Characters),
         2 * Len(a) <= Len(s), \A n \in 1..(2 * Len(a)) : s[n] = Hexify(a)[n]
  PROVE  IsPrefix(a, Unhex(s))
<1> DEFINE u == Unhex(s)
<1>1. Len(a) \in Nat /\ Len(s) \in Nat /\ NIBBLE \in Nat \ {0}
  BY ConnectionKeyAssumption
<1>2. Len(s) \div 2 \in Nat /\ Len(a) <= Len(s) \div 2
  BY <1>1
<1>3. DOMAIN u = 1..(Len(s) \div 2) /\ Len(u) = Len(s) \div 2
  <2>1. u = [n \in 1..(Len(s) \div 2) |-> NIBBLE * s[2 * n - 1] + s[2 * n]]
    BY DEF Unhex
  <2>2. u \in Seq({NIBBLE * s[2 * n - 1] + s[2 * n] : n \in 1..(Len(s) \div 2)})
    BY <1>2, <2>1
  <2> QED
    BY <1>2, <2>1, <2>2
<1>4. ASSUME NEW n \in 1..Len(a) PROVE a[n] = u[n]
  <2>1. n \in Nat /\ n >= 1 /\ n \in 1..(Len(s) \div 2)
    BY <1>1, <1>2
  <2>2. u[n] = NIBBLE * s[2 * n - 1] + s[2 * n]
    BY <2>1 DEF Unhex
  <2>3. 2 * n - 1 \in 1..(2 * Len(a)) /\ 2 * n \in 1..(2 * Len(a))
    BY <1>1, <2>1
  <2>4. (2 * n - 1) % 2 = 1 /\ ((2 * n - 1) + 1) \div 2 = n /\ (2 * n) % 2 = 0 /\ (2 * n) \div 2 = n
    BY <2>1
  <2>5. s[2 * n - 1] = a[n] \div NIBBLE /\ s[2 * n] = a[n] % NIBBLE
    <3>1. Hexify(a)[2 * n - 1] = a[n] \div NIBBLE
      BY <2>3, <2>4 DEF Hexify
    <3>2. Hexify(a)[2 * n] = a[n] % NIBBLE
      BY <2>3, <2>4 DEF Hexify
    <3> QED
      BY <2>3, <3>1, <3>2
  <2>6. a[n] \in Bytes
    OBVIOUS
  <2> QED
    BY <2>2, <2>5, <2>6, ByteOfDigits
<1> HIDE DEF u
<1>5. SubSeq(a, 1, Len(a)) = SubSeq(u, 1, Len(a))
  BY <1>1, <1>4
<1>6. IsPrefix(a, u)
  BY <1>1, <1>2, <1>3, <1>5 DEF IsPrefix
<1> QED
  BY <1>6 DEF u
-----------------------------------------------------------------------------
(* Runs *)

LEMMA JoinFacts ==
  ASSUME NEW R, NEW s \in Seq(R), NEW e \in Seq(R)
  PROVE  /\ s \o e \in Seq(R) /\ Len(s \o e) = Len(s) + Len(e)
         /\ \A n \in 1..Len(s) : (s \o e)[n] = s[n]
         /\ \A n \in (Len(s) + 1)..(Len(s) + Len(e)) : (s \o e)[n] = e[n - Len(s)]
OBVIOUS

(* The function Runs is written with: the digits of the first runs.        *)
Decoder(t, n, f) ==
  f = [m \in 0..n |-> IF m = 0 THEN <<>> ELSE f[m - 1] \o Run(t[m])]

LEMMA DecoderExists ==
  ASSUME NEW t
  PROVE  \A n \in Nat : \E f : Decoder(t, n, f)
<1> DEFINE S == {n \in Nat : \E f : Decoder(t, n, f)}
<1>1. 0 \in S
  <2> DEFINE f == [m \in 0..0 |-> <<>>]
  <2>1. f = [m \in 0..0 |-> IF m = 0 THEN <<>> ELSE f[m - 1] \o Run(t[m])]
    OBVIOUS
  <2>2. Decoder(t, 0, f)
    BY <2>1 DEF Decoder
  <2> QED
    BY <2>2
<1>2. ASSUME NEW n \in Nat, n \in S PROVE n + 1 \in S
  <2>1. PICK f : Decoder(t, n, f)
    BY <1>2
  <2> DEFINE g == [m \in 0..(n + 1) |-> IF m = n + 1 THEN f[n] \o Run(t[n + 1]) ELSE f[m]]
  <2>2. ASSUME NEW m \in 0..n
        PROVE  f[m] = IF m = 0 THEN <<>> ELSE f[m - 1] \o Run(t[m])
    BY <2>1 DEF Decoder
  <2>3. ASSUME NEW m \in 0..(n + 1)
        PROVE  g[m] = IF m = 0 THEN <<>> ELSE g[m - 1] \o Run(t[m])
    <3>1. CASE m = n + 1
      <4>1. m - 1 = n /\ m - 1 \in 0..(n + 1) /\ m - 1 # n + 1 /\ m # 0
        BY <3>1
      <4>2. g[m - 1] = f[n]
        BY <4>1
      <4> QED
        BY <3>1, <4>1, <4>2
    <3>2. CASE m # n + 1
      <4>1. m \in 0..n /\ g[m] = f[m]
        BY <3>2
      <4>2. CASE m = 0
        BY <2>2, <4>1, <4>2
      <4>3. CASE m # 0
        <5>1. m - 1 \in 0..n /\ m - 1 \in 0..(n + 1) /\ m - 1 # n + 1
          BY <4>1, <4>3
        <5>2. g[m - 1] = f[m - 1]
          BY <5>1
        <5> HIDE DEF g
        <5> QED
          BY <2>2, <4>1, <4>3, <5>2
      <4> QED
        BY <4>2, <4>3
    <3> QED
      BY <3>1, <3>2
  <2>4. DOMAIN g = 0..(n + 1) /\ g = [m \in 0..(n + 1) |-> g[m]]
    OBVIOUS
  <2> HIDE DEF g
  <2>5. Decoder(t, n + 1, g)
    BY <2>3, <2>4 DEF Decoder
  <2> QED
    BY <2>5
<1> HIDE DEF S
<1>3. Nat \subseteq S
  BY <1>1, <1>2, Induction
<1> QED
  BY <1>3 DEF S

LEMMA RunsFacts ==
  ASSUME NEW t, Len(t) \in Nat
  PROVE  \E f : Decoder(t, Len(t), f) /\ Runs(t) = f[Len(t)]
<1> DEFINE F == CHOOSE f : Decoder(t, Len(t), f)
<1>1. Decoder(t, Len(t), F)
  <2>1. \E f : Decoder(t, Len(t), f)
    BY DecoderExists
  <2> QED
    BY Zenon, <2>1
<1>2. Runs(t) = F[Len(t)]
  BY DEF Runs, Decoder
<1> QED
  BY <1>1, <1>2

LEMMA RunsOfNone ==
  Runs(<<>>) = <<>>
<1>1. PICK f : Decoder(<<>>, 0, f) /\ Runs(<<>>) = f[0]
  BY RunsFacts
<1> QED
  BY <1>1 DEF Decoder

(* Another run adds its digits at the end.                                 *)
LEMMA RunsAppend ==
  ASSUME NEW R, NEW t \in Seq(R), NEW r \in R
  PROVE  Runs(Append(t, r)) = Runs(t) \o Run(r)
<1> DEFINE L == Len(t)
           u == Append(t, r)
<1>1. /\ L \in Nat /\ Len(u) = L + 1 /\ u[L + 1] = r
      /\ \A m \in 1..L : u[m] = t[m]
  OBVIOUS
<1> HIDE DEF u, L
<1>2. PICK f : Decoder(t, L, f) /\ Runs(t) = f[L]
  BY <1>1, RunsFacts DEF L
<1>3. PICK g : Decoder(u, L + 1, g) /\ Runs(u) = g[L + 1]
  <2>1. Len(u) \in Nat
    BY <1>1
  <2> QED
    BY <1>1, <2>1, RunsFacts
<1>4. ASSUME NEW m \in 0..L
      PROVE  f[m] = IF m = 0 THEN <<>> ELSE f[m - 1] \o Run(t[m])
  BY <1>2 DEF Decoder
<1>5. ASSUME NEW m \in 0..(L + 1)
      PROVE  g[m] = IF m = 0 THEN <<>> ELSE g[m - 1] \o Run(u[m])
  BY <1>3 DEF Decoder
<1> DEFINE S == {n \in Nat : n <= L => g[n] = f[n]}
<1>6. 0 \in S
  <2>1. 0 \in 0..L /\ 0 \in 0..(L + 1)
    BY <1>1
  <2> QED
    BY <1>4, <1>5, <2>1
<1>7. ASSUME NEW n \in Nat, n \in S PROVE n + 1 \in S
  <2>1. SUFFICES ASSUME n + 1 <= L PROVE g[n + 1] = f[n + 1]
    BY <1>7
  <2>2. n + 1 \in 0..L /\ n + 1 \in 0..(L + 1) /\ n + 1 \in 1..L /\ n <= L
        /\ n + 1 # 0 /\ (n + 1) - 1 = n
    BY <1>1, <2>1
  <2>3. g[n] = f[n]
    BY <1>7, <2>2
  <2>4. f[n + 1] = f[n] \o Run(t[n + 1])
    BY <1>4, <2>2
  <2>5. g[n + 1] = g[n] \o Run(u[n + 1])
    BY <1>5, <2>2
  <2> QED
    BY <1>1, <2>2, <2>3, <2>4, <2>5
<1> HIDE DEF S
<1>8. Nat \subseteq S
  BY <1>6, <1>7, Induction
<1>9. g[L] = f[L]
  BY <1>1, <1>8 DEF S
<1>10. g[L + 1] = g[L] \o Run(r)
  <2>1. L + 1 \in 0..(L + 1) /\ L + 1 # 0 /\ (L + 1) - 1 = L
    BY <1>1
  <2> QED
    BY <1>1, <1>5, <2>1
<1> QED
  BY <1>2, <1>3, <1>9, <1>10 DEF u

Written == (1..RUN_LIMIT) \X Characters

(* So a run written behind digits that are right is right where its digits *)
(* are.                                                                    *)
LEMMA RunWritten ==
  ASSUME NEW t \in Seq(Written), Runs(t) \in Seq(Characters),
         NEW c \in 1..RUN_LIMIT, NEW d \in Characters
  PROVE  LET s == Runs(t)
             w == Runs(Append(t, <<c, d>>))
         IN  /\ Append(t, <<c, d>>) \in Seq(Written)
             /\ w \in Seq(Characters)
             /\ Len(w) = Len(s) + c
             /\ \A n \in 1..Len(s) : w[n] = s[n]
             /\ \A n \in (Len(s) + 1)..(Len(s) + c) : w[n] = d
<1> DEFINE s == Runs(t)
           r == <<c, d>>
           w == Runs(Append(t, r))
           e == Run(r)
<1>1. r \in Written /\ r[1] = c /\ r[2] = d /\ c \in Nat
  BY ConnectionKeyAssumption DEF Written
<1>2. e \in Seq(Characters) /\ Len(e) = c /\ \A n \in 1..c : e[n] = d
  <2>1. e = [n \in 1..c |-> d]
    BY <1>1 DEF Run
  <2> HIDE DEF e
  <2>2. e \in Seq(Characters)
    BY <1>1, <2>1
  <2> QED
    BY <1>1, <2>1, <2>2
<1> HIDE DEF r, e
<1>3. w = s \o e /\ Append(t, r) \in Seq(Written)
  BY <1>1, RunsAppend DEF e
<1>4. s \in Seq(Characters)
  OBVIOUS
<1> HIDE DEF s, w
<1>5. /\ w \in Seq(Characters) /\ Len(w) = Len(s) + c
      /\ \A n \in 1..Len(s) : w[n] = s[n]
  <2>1. e \in Seq(Characters)
    BY <1>2
  <2>2. /\ s \o e \in Seq(Characters) /\ Len(s \o e) = Len(s) + Len(e)
        /\ \A n \in 1..Len(s) : (s \o e)[n] = s[n]
    BY <1>4, <2>1, JoinFacts
  <2> QED
    BY <1>2, <1>3, <2>2
<1>6. ASSUME NEW n \in (Len(s) + 1)..(Len(s) + c) PROVE w[n] = d
  <2>1. n - Len(s) \in 1..c /\ n > Len(s) /\ n <= Len(s) + Len(e) /\ n \in Nat /\ n >= 1
    BY <1>1, <1>2, <1>4
  <2>2. w[n] = e[n - Len(s)]
    <3>1. n \in (Len(s) + 1)..(Len(s) + Len(e)) /\ e \in Seq(Characters)
      BY <1>2
    <3> QED
      BY <1>3, <1>4, <3>1, JoinFacts
  <2> QED
    BY <1>2, <2>1, <2>2
<1> QED
  BY <1>3, <1>5, <1>6 DEF s, w, r
-----------------------------------------------------------------------------
(* The loop of rle_string *)

(* The digits start with the ones of the address.                          *)
StringInv ==
  /\ address \in Seq(Bytes)
  /\ string \in Seq(Characters)
  /\ 2 * Len(address) <= Len(string)
  /\ \A n \in 1..(2 * Len(address)) : string[n] = Hexify(address)[n]

(* There is a run being counted once a digit was read.                     *)
CounterInv ==
  \/ counter = 0 /\ last = NoDigit
  \/ counter \in 1..RUN_LIMIT /\ last \in Characters

(* The runs written and the one being counted stand for the digits read.   *)
LoopInv ==
  /\ Len(Runs(temp)) + counter = i - 1
  /\ \A n \in 1..Len(Runs(temp)) : string[n] = Runs(temp)[n]
  /\ \A n \in (Len(Runs(temp)) + 1)..(i - 1) : string[n] = last

(* Afterwards the runs stand for all of them.                              *)
ShownInv ==
  /\ i = Len(string) + 1
  /\ Len(Runs(temp)) = Len(string)
  /\ \A n \in 1..Len(string) : string[n] = Runs(temp)[n]

KeyInv ==
  /\ StringInv
  /\ CounterInv
  /\ i \in 1..(Len(string) + 1)
  /\ temp \in Seq(Written)
  /\ Runs(temp) \in Seq(Characters)
  /\ IF key = <<>> THEN LoopInv ELSE ShownInv

LEMMA HexifyFacts ==
  ASSUME NEW a \in Seq(Bytes)
  PROVE  Hexify(a) \in Seq(Digits) /\ Len(Hexify(a)) = 2 * Len(a)
<1> DEFINE h == Hexify(a)
<1>1. Len(a) \in Nat /\ 2 * Len(a) \in Nat
  OBVIOUS
<1>2. h = [n \in 1..(2 * Len(a)) |->
             IF n % 2 = 1 THEN a[(n + 1) \div 2] \div NIBBLE
             ELSE a[n \div 2] % NIBBLE]
  BY DEF Hexify
<1> HIDE DEF h
<1>3. ASSUME NEW n \in 1..(2 * Len(a)) PROVE h[n] \in Digits
  <2>1. CASE n % 2 = 1
    <3>1. (n + 1) \div 2 \in 1..Len(a)
      BY <1>1, <2>1
    <3>2. a[(n + 1) \div 2] \in Bytes
      BY <3>1
    <3>3. h[n] = a[(n + 1) \div 2] \div NIBBLE
      BY <1>2, <2>1
    <3> QED
      BY <3>2, <3>3, ByteOfDigits
  <2>2. CASE n % 2 # 1
    <3>1. n \div 2 \in 1..Len(a)
      BY <1>1, <2>2
    <3>2. a[n \div 2] \in Bytes
      BY <3>1
    <3>3. h[n] = a[n \div 2] % NIBBLE
      BY <1>2, <2>2
    <3> QED
      BY <3>2, <3>3, ByteOfDigits
  <2> QED
    BY <2>1, <2>2
<1>4. h \in Seq(Digits)
  BY <1>1, <1>2, <1>3
<1>5. Len(h) = 2 * Len(a)
  BY <1>1, <1>2, <1>4
<1> QED
  BY <1>4, <1>5 DEF h

LEMMA DigitsAreCharacters ==
  ASSUME NEW s \in Seq(Digits)
  PROVE  s \in Seq(Characters)
<1>1. Digits \subseteq Characters
  BY ConnectionKeyAssumption DEF Digits, Characters
<1> QED
  BY <1>1

LEMMA KeyInitInv ==
  ASSUME KeyInit
  PROVE  KeyInv
<1>1. address \in Seq(Bytes)
  <2>1. PICK n \in 1..MaxAddress : address \in [1..n -> 0..(NIBBLE * NIBBLE - 1)]
    BY DEF KeyInit
  <2>2. n \in Nat
    BY ConnectionKeyAssumption
  <2>3. address \in [1..n -> Bytes]
    BY <2>1 DEF Bytes
  <2> QED
    BY <2>2, <2>3
<1>2. PICK behind \in UNION {[1..n -> 0..(CHARACTERS - 1)] : n \in 0..MaxBehind} :
           string = Hexify(address) \o behind
  BY DEF KeyInit
<1>3. behind \in Seq(Characters)
  <2>1. PICK n \in 0..MaxBehind : behind \in [1..n -> 0..(CHARACTERS - 1)]
    BY <1>2
  <2>2. n \in Nat
    BY ConnectionKeyAssumption
  <2>3. behind \in [1..n -> Characters]
    BY <2>1 DEF Characters
  <2> QED
    BY <2>2, <2>3
<1>4. StringInv
  <2> DEFINE h == Hexify(address)
  <2>1. h \in Seq(Characters) /\ Len(h) = 2 * Len(address)
    BY <1>1, HexifyFacts, DigitsAreCharacters
  <2> HIDE DEF h
  <2>2. h \o behind \in Seq(Characters)
    BY <1>3, <2>1
  <2>3. Len(h \o behind) >= Len(h)
    BY <1>3, <2>1
  <2>4. ASSUME NEW n \in 1..Len(h) PROVE (h \o behind)[n] = h[n]
    BY <1>3, <2>1
  <2> QED
    BY <1>1, <1>2, <2>1, <2>2, <2>3, <2>4 DEF StringInv, h
<1>5. i = 1 /\ last = NoDigit /\ counter = 0 /\ temp = <<>> /\ key = <<>>
  BY DEF KeyInit
<1>6. Runs(temp) = <<>>
  BY <1>5, RunsOfNone
<1>7. Len(Runs(temp)) = 0 /\ Runs(temp) \in Seq(Characters) /\ temp \in Seq(Written)
  <2>1. \A R : <<>> \in Seq(R) /\ Len(<<>>) = 0
    OBVIOUS
  <2> QED
    BY <1>5, <1>6, <2>1
<1>8. LoopInv
  BY <1>5, <1>7 DEF LoopInv
<1>9. i \in 1..(Len(string) + 1)
  BY <1>4, <1>5 DEF StringInv
<1> QED
  BY <1>4, <1>5, <1>7, <1>8, <1>9 DEF KeyInv, CounterInv

LEMMA ReadDigitInv ==
  ASSUME KeyInv, ReadDigit
  PROVE  KeyInv'
<1> DEFINE current == string[i]
           s == Runs(temp)
<1>1. /\ StringInv /\ CounterInv /\ i \in 1..(Len(string) + 1)
      /\ temp \in Seq(Written) /\ s \in Seq(Characters)
      /\ IF key = <<>> THEN LoopInv ELSE ShownInv
  BY DEF KeyInv
<1>2. /\ i <= Len(string) /\ i' = i + 1 /\ last' = current
      /\ address' = address /\ string' = string /\ key' = key
  BY DEF ReadDigit
<1>3. string \in Seq(Characters) /\ Len(string) \in Nat /\ Len(s) \in Nat /\ RUN_LIMIT \in Nat \ {0}
  BY <1>1, ConnectionKeyAssumption DEF StringInv
<1>4. i \in 1..Len(string) /\ i \in Nat /\ current \in Characters
  BY <1>1, <1>2, <1>3
<1>5. key = <<>> /\ LoopInv
  <2>1. i # Len(string) + 1
    BY <1>2, <1>3, <1>4
  <2> QED
    BY <1>1, <2>1 DEF ShownInv
<1>6. /\ Len(s) + counter = i - 1
      /\ \A n \in 1..Len(s) : string[n] = s[n]
      /\ \A n \in (Len(s) + 1)..(i - 1) : string[n] = last
  BY <1>5 DEF LoopInv
<1>7. StringInv'
  BY <1>1, <1>2 DEF StringInv
<1>8. i' \in 1..(Len(string) + 1)
  BY <1>2, <1>3, <1>4
<1>9. current # NoDigit
  BY <1>4 DEF Characters, NoDigit
<1> HIDE DEF current, s
<1>10. CASE RunEnds(current)
  <2>1. temp' = Append(temp, <<counter, last>>) /\ counter' = 1
    BY <1>10 DEF ReadDigit, current
  <2>2. counter \in 1..RUN_LIMIT /\ last \in Characters
    BY <1>1, <1>3, <1>10 DEF CounterInv, RunEnds
  <2> DEFINE w == Runs(Append(temp, <<counter, last>>))
  <2>3. /\ Append(temp, <<counter, last>>) \in Seq(Written)
        /\ w \in Seq(Characters)
        /\ Len(w) = Len(s) + counter
        /\ \A n \in 1..Len(s) : w[n] = s[n]
        /\ \A n \in (Len(s) + 1)..(Len(s) + counter) : w[n] = last
    BY <1>1, <2>2, RunWritten DEF s
  <2>4. Runs(temp') = w
    BY <2>1
  <2> HIDE DEF w
  <2>5. Len(w) = i - 1
    BY <1>6, <2>3
  <2>6. Len(w) + counter' = i' - 1
    BY <1>2, <1>4, <2>1, <2>5
  <2>7. ASSUME NEW n \in 1..Len(w) PROVE string[n] = w[n]
    <3>1. n \in 1..Len(s) \/ (n \in (Len(s) + 1)..(i - 1) /\ n \in (Len(s) + 1)..(Len(s) + counter))
      BY <1>3, <1>4, <1>6, <2>5
    <3> QED
      BY <1>6, <2>3, <3>1
  <2>8. ASSUME NEW n \in (Len(w) + 1)..(i' - 1) PROVE string[n] = current
    <3>1. n = i
      BY <1>2, <1>4, <2>5
    <3> QED
      BY <3>1 DEF current
  <2>9. LoopInv'
    BY <1>2, <2>4, <2>6, <2>7, <2>8 DEF LoopInv
  <2>10. CounterInv'
    BY <1>2, <1>3, <1>4, <2>1 DEF CounterInv
  <2> QED
    BY <1>2, <1>5, <1>7, <1>8, <2>1, <2>3, <2>4, <2>9, <2>10 DEF KeyInv
<1>11. CASE ~RunEnds(current)
  <2>1. temp' = temp /\ counter' = counter + 1
    BY <1>11 DEF ReadDigit, current
  <2>2. Runs(temp') = s
    BY <2>1 DEF s
  <2>3. counter < RUN_LIMIT /\ counter \in Nat
    BY <1>1, <1>3, <1>11 DEF CounterInv, RunEnds
  <2>4. current = last \/ counter = 0
    BY <1>1, <1>11 DEF CounterInv, RunEnds, Characters, NoDigit
  <2>5. Len(s) + counter' = i' - 1
    BY <1>2, <1>3, <1>4, <1>6, <2>1, <2>3
  <2>6. ASSUME NEW n \in (Len(s) + 1)..(i' - 1) PROVE string[n] = current
    <3>1. n = i \/ (n \in (Len(s) + 1)..(i - 1) /\ counter # 0)
      BY <1>2, <1>3, <1>4, <1>6, <2>3
    <3> QED
      BY <1>6, <2>4, <3>1 DEF current
  <2>7. LoopInv'
    BY <1>2, <1>6, <2>2, <2>5, <2>6 DEF LoopInv
  <2>8. CounterInv'
    BY <1>2, <1>3, <1>4, <2>1, <2>3 DEF CounterInv
  <2> QED
    BY <1>1, <1>2, <1>5, <1>7, <1>8, <2>1, <2>2, <2>7, <2>8 DEF KeyInv
<1> QED
  BY <1>10, <1>11

LEMMA ShowKeysInv ==
  ASSUME KeyInv, ShowKeys
  PROVE  KeyInv'
<1> DEFINE runs == IF counter > 0 THEN Append(temp, <<counter, last>>) ELSE temp
           s == Runs(temp)
           w == Runs(runs)
<1>1. /\ StringInv /\ CounterInv /\ i \in 1..(Len(string) + 1)
      /\ temp \in Seq(Written) /\ s \in Seq(Characters)
      /\ IF key = <<>> THEN LoopInv ELSE ShownInv
  BY DEF KeyInv
<1>2. /\ i = Len(string) + 1 /\ key = <<>> /\ temp' = runs /\ i' = i /\ last' = last
      /\ counter' = counter /\ address' = address /\ string' = string
  BY DEF ShowKeys
<1>3. key' # <<>>
  BY DEF ShowKeys
<1>4. Len(string) \in Nat /\ Len(s) \in Nat /\ RUN_LIMIT \in Nat \ {0}
  BY <1>1, ConnectionKeyAssumption DEF StringInv
<1>5. /\ Len(s) + counter = Len(string)
      /\ \A n \in 1..Len(s) : string[n] = s[n]
      /\ \A n \in (Len(s) + 1)..Len(string) : string[n] = last
  <2>1. i - 1 = Len(string)
    BY <1>2, <1>4
  <2> QED
    BY <1>1, <1>2, <2>1 DEF LoopInv
<1>6. /\ runs \in Seq(Written) /\ w \in Seq(Characters)
      /\ Len(w) = Len(string)
      /\ \A n \in 1..Len(string) : string[n] = w[n]
  <2>1. CASE counter = 0
    <3>1. runs = temp /\ Len(s) = Len(string)
      BY <1>4, <1>5, <2>1
    <3> QED
      BY <1>1, <1>5, <3>1
  <2>2. CASE counter # 0
    <3>1. counter \in 1..RUN_LIMIT /\ last \in Characters
      BY <1>1, <2>2 DEF CounterInv
    <3>2. runs = Append(temp, <<counter, last>>)
      BY <1>4, <3>1
    <3> HIDE DEF runs
    <3>3. /\ runs \in Seq(Written) /\ w \in Seq(Characters)
          /\ Len(w) = Len(s) + counter
          /\ \A n \in 1..Len(s) : w[n] = s[n]
          /\ \A n \in (Len(s) + 1)..(Len(s) + counter) : w[n] = last
      BY <1>1, <3>1, <3>2, RunWritten
    <3> HIDE DEF w, s
    <3>4. ASSUME NEW n \in 1..Len(string) PROVE string[n] = w[n]
      <4>1. n \in 1..Len(s) \/ (/\ n \in (Len(s) + 1)..Len(string)
                                /\ n \in (Len(s) + 1)..(Len(s) + counter))
        BY <1>4, <1>5
      <4> QED
        BY <1>5, <3>3, <4>1
    <3> QED
      BY <1>5, <3>3, <3>4
  <2> QED
    BY <2>1, <2>2
<1> HIDE DEF runs
<1>7. Runs(temp') = w
  BY <1>2
<1> HIDE DEF w
<1>8. ShownInv'
  BY <1>2, <1>6, <1>7 DEF ShownInv
<1>9. StringInv' /\ CounterInv'
  BY <1>1, <1>2 DEF StringInv, CounterInv
<1> QED
  BY <1>1, <1>2, <1>3, <1>6, <1>7, <1>8, <1>9 DEF KeyInv

(* Whoever has either key has the address the server is bound to: once     *)
(* print_connection_banner shows them, the digits of string_hexify and the *)
(* runs of rle_string are both read as the address, and every run is short *)
(* enough for the letter that stands for it.                               *)
THEOREM KeysLeadToServer == KeySpec => []KeysGiveAddress
<1>1. KeyInit => KeyInv
  BY KeyInitInv
<1>2. KeyInv /\ [KeyNext]_keyVars => KeyInv'
  <2>1. SUFFICES ASSUME KeyInv, [KeyNext]_keyVars PROVE KeyInv'
    OBVIOUS
  <2>2. CASE ReadDigit
    BY <2>1, <2>2, ReadDigitInv
  <2>3. CASE ShowKeys
    BY <2>1, <2>3, ShowKeysInv
  <2>4. CASE UNCHANGED keyVars
    BY <2>1, <2>4 DEF keyVars, KeyInv, StringInv, CounterInv, LoopInv, ShownInv
  <2> QED
    BY <2>1, <2>2, <2>3, <2>4 DEF KeyNext
<1>3. KeyInv => KeysGiveAddress
  <2>1. SUFFICES ASSUME KeyInv, key # <<>> PROVE KeysGiveAddress
    BY DEF KeysGiveAddress
  <2>2. /\ StringInv /\ ShownInv
        /\ temp \in Seq(Written) /\ Runs(temp) \in Seq(Characters)
    BY <2>1 DEF KeyInv
  <2>3. IsPrefix(address, Unhex(string))
    BY <2>2, UnhexFacts DEF StringInv
  <2>4. IsPrefix(address, Unhex(Runs(temp)))
    <3>1. ASSUME NEW n \in 1..(2 * Len(address)) PROVE Runs(temp)[n] = Hexify(address)[n]
      <4>1. n \in 1..Len(string)
        BY <2>2 DEF StringInv
      <4> QED
        BY <2>2, <4>1 DEF StringInv, ShownInv
    <3>2. address \in Seq(Bytes) /\ 2 * Len(address) <= Len(Runs(temp))
      BY <2>2 DEF StringInv, ShownInv
    <3> QED
      BY <2>2, <3>1, <3>2, UnhexFacts
  <2>5. ASSUME NEW n \in DOMAIN temp PROVE temp[n][1] \in 1..RUN_LIMIT
    <3>1. temp[n] \in Written
      BY <2>2
    <3> QED
      BY <3>1 DEF Written
  <2> QED
    BY <2>3, <2>4, <2>5 DEF KeysGiveAddress
<1> QED
  BY <1>1, <1>2, <1>3, PTL DEF KeySpec
=============================================================================
