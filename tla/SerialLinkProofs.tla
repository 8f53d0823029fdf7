-------------------------- MODULE SerialLinkProofs --------------------------
(***************************************************************************)
(* The serial line implements a channel of frames, and a parser that lost  *)
(* its step finds it soon, proved for every set of frames and writers,     *)
(* every way to cut writes and reads, and any number of faults.            *)
(***************************************************************************)
EXTENDS SerialLink, SequenceTheorems, WellFoundedInduction, TLAPS

-----------------------------------------------------------------------------
(* Sequences computed element by element.                                  *)

(* Of some naturals one is the least.                                      *)
LEMMA LeastOf ==
  ASSUME NEW S, S \subseteq Nat, S # {}
  PROVE  \E i \in S : \A j \in S : i <= j
<1> DEFINE Below == {ss \in Nat \X Nat : ss[1] < ss[2]}
<1>1. IsWellFoundedOn(Below, Nat)
  BY NatLessThanWellFounded, Zenon DEF OpToRel
<1>2. \A i, j \in Nat : j < i => <<j, i>> \in Below
  OBVIOUS
<1> HIDE DEF Below
<1>3. PICK i \in S : \A j \in S : ~ (<<j, i>> \in Below)
  BY <1>1, WFMin, Zenon
<1>4. \A j \in S : ~ (j < i)
  BY <1>2, <1>3, Zenon
<1> QED
  BY <1>4

(* What holds at the start and is kept by each step holds up to n.         *)
LEMMA UpTo ==
  ASSUME NEW n \in Nat, NEW Holds \in SUBSET (0..n), 0 \in Holds,
         \A i \in 0..(n - 1) : i \in Holds => i + 1 \in Holds
  PROVE  Holds = 0..n
<1> DEFINE Lost == (0..n) \ Holds
<1> SUFFICES ASSUME Lost # {}
             PROVE  FALSE
  OBVIOUS
<1>1. Lost \subseteq Nat
  OBVIOUS
<1>2. PICK i \in Lost : \A j \in Lost : i <= j
  <2> HIDE DEF Lost
  <2> QED
    BY <1>1, LeastOf
<1>3. i \in 1..n /\ i - 1 \in 0..(n - 1)
  BY <1>2
<1>4. i - 1 \notin Lost
  BY <1>2, <1>3
<1>5. (i - 1) + 1 \in Holds
  BY <1>3, <1>4
<1> QED
  BY <1>3, <1>5

(* Values computed one from the other, from first, exist.                  *)
IsRun(f, n, first, step) ==
  f = [i \in 0..n |-> IF i = 0 THEN first ELSE step[i][f[i - 1]]]

LEMMA RunExists ==
  ASSUME NEW n \in Nat, NEW S, NEW first \in S, NEW step \in [1..n -> [S -> S]]
  PROVE  \E f \in [0..n -> S] : IsRun(f, n, first, step)
<1> DEFINE Upto(f, k) == \A i \in 0..k : f[i] = IF i = 0 THEN first ELSE step[i][f[i - 1]]
           Holds == {k \in 0..n : \E f \in [0..n -> S] : Upto(f, k)}
<1>1. 0 \in Holds
  <2> DEFINE f == [i \in 0..n |-> first]
  <2>1. f \in [0..n -> S] /\ Upto(f, 0)
    OBVIOUS
  <2> HIDE DEF f
  <2> QED
    BY <2>1
<1>2. ASSUME NEW k \in 0..(n - 1), k \in Holds
      PROVE  k + 1 \in Holds
  <2>1. PICK f \in [0..n -> S] : Upto(f, k)
    BY <1>2
  <2>2. k + 1 \in 1..n
    OBVIOUS
  <2> DEFINE last == step[k + 1][f[k]]
             g == [i \in 0..n |-> IF i = k + 1 THEN last ELSE f[i]]
  <2>3. last \in S
    BY <2>1, <2>2
  <2>4. g \in [0..n -> S]
    BY <2>3
  <2>5. \A i \in 0..k : g[i] = f[i]
    BY <2>2
  <2>6. g[k + 1] = step[k + 1][g[k]]
    BY <2>2, <2>5
  <2> HIDE DEF g
  <2>7. Upto(g, k + 1)
    <3> SUFFICES ASSUME NEW i \in 0..(k + 1)
                 PROVE  g[i] = IF i = 0 THEN first ELSE step[i][g[i - 1]]
      OBVIOUS
    <3>1. CASE i = k + 1
      BY <2>6, <3>1
    <3>2. CASE i \in 0..k
      <4>1. f[i] = IF i = 0 THEN first ELSE step[i][f[i - 1]]
        BY <2>1, <3>2
      <4>2. i # 0 => i - 1 \in 0..k
        BY <3>2
      <4> QED
        BY <2>5, <3>2, <4>1, <4>2
    <3> QED
      BY <3>1, <3>2
  <2> QED
    BY <2>2, <2>4, <2>7
<1>3. Holds \in SUBSET (0..n)
  OBVIOUS
<1>4. Holds = 0..n
  <2> HIDE DEF Holds
  <2> QED
    BY <1>1, <1>2, <1>3, UpTo
<1>5. PICK f \in [0..n -> S] : Upto(f, n)
  <2>1. n \in Holds
    <3> HIDE DEF Holds
    <3> QED
      BY <1>4
  <2> HIDE DEF Upto
  <2> QED
    BY <2>1
<1>6. f = [i \in 0..n |-> IF i = 0 THEN first ELSE step[i][f[i - 1]]]
  <2>1. \A i \in 0..n : f[i] = IF i = 0 THEN first ELSE step[i][f[i - 1]]
    BY <1>5
  <2> QED
    BY <2>1
<1> QED
  BY <1>6 DEF IsRun

-----------------------------------------------------------------------------
(* The checksum is a byte.                                                 *)

LEMMA DifferIs ==
  ASSUME NEW a \in Nat, NEW b \in Nat, NEW w \in Nat \ {0}
  PROVE  Differ(a, b, w) = 0 \/ Differ(a, b, w) = w
<1>1. a \div w \in Nat /\ b \div w \in Nat
  OBVIOUS
<1>2. ((a \div w) + (b \div w)) % 2 \in {0, 1}
  BY <1>1
<1> QED
  BY <1>2 DEF Differ

LEMMA XorIsByte ==
  ASSUME NEW a \in Byte, NEW b \in Byte
  PROVE  Xor8[a][b] \in Byte
<1>1. a \in Nat /\ b \in Nat
  BY DEF Byte
<1>2. \A w \in {1, 2, 4, 8, 16, 32, 64, 128} : Differ(a, b, w) = 0 \/ Differ(a, b, w) = w
  BY <1>1, DifferIs
<1>3. ASSUME NEW d, NEW n \in Nat, d = 0 \/ d = n
      PROVE  d \in Nat /\ d <= n
  BY <1>3
<1> DEFINE low  == Differ(a, b, 1) + Differ(a, b, 2) + Differ(a, b, 4) + Differ(a, b, 8)
           d16  == Differ(a, b, 16)
           d32  == Differ(a, b, 32)
           d64  == Differ(a, b, 64)
           d128 == Differ(a, b, 128)
<1>4. Xor8[a][b] = low + d16 + d32 + d64 + d128
  BY DEF Xor8
<1>5. low \in Nat /\ low <= 15
  <2> DEFINE d1 == Differ(a, b, 1)
             d2 == Differ(a, b, 2)
             d4 == Differ(a, b, 4)
             d8 == Differ(a, b, 8)
  <2>1. d1 \in Nat /\ d1 <= 1 /\ d2 \in Nat /\ d2 <= 2
        /\ d4 \in Nat /\ d4 <= 4 /\ d8 \in Nat /\ d8 <= 8
    BY <1>2, <1>3
  <2> HIDE DEF d1, d2, d4, d8
  <2>2. d1 + d2 + d4 + d8 \in Nat /\ d1 + d2 + d4 + d8 <= 15
    BY <2>1
  <2> QED
    BY <2>2 DEF d1, d2, d4, d8
<1>6. d16 \in Nat /\ d16 <= 16 /\ d32 \in Nat /\ d32 <= 32
      /\ d64 \in Nat /\ d64 <= 64 /\ d128 \in Nat /\ d128 <= 128
  BY <1>2, <1>3
<1> HIDE DEF low, d16, d32, d64, d128
<1> QED
  BY <1>4, <1>5, <1>6 DEF Byte

LEMMA ShiftIsByte ==
  ASSUME NEW c \in Byte
  PROVE  (IF c >= 128 THEN Xor8[(2 * c) % 256][7] ELSE 2 * c) \in Byte
<1>1. c \in Nat /\ c <= 255 /\ 7 \in Byte
  BY DEF Byte
<1> DEFINE r == (2 * c) % 256
           x == Xor8[r][7]
<1>2. r \in Byte
  <2> DEFINE d == 2 * c
  <2>1. d \in Int
    BY <1>1
  <2> HIDE DEF d
  <2>2. d % 256 \in 0..255
    BY <2>1
  <2> QED
    BY <2>2 DEF d, Byte
<1> HIDE DEF r
<1>3. x \in Byte
  BY <1>1, <1>2, XorIsByte
<1> HIDE DEF x
<1>4. ~(c >= 128) => 2 * c \in Byte
  BY <1>1 DEF Byte
<1>5. (IF c >= 128 THEN x ELSE 2 * c) \in Byte
  BY <1>3, <1>4
<1> QED
  BY <1>5 DEF x, r

LEMMA ShiftedIsByte ==
  ASSUME NEW b \in Byte
  PROVE  Shifted8[b] \in Byte
<1> DEFINE Shift(c) == IF c >= 128 THEN Xor8[(2 * c) % 256][7] ELSE 2 * c
           IsCrc(g) == g = [i \in 0..8 |-> IF i = 0 THEN b ELSE Shift(g[i - 1])]
           step == [i \in 1..8 |-> [c \in Byte |-> Shift(c)]]
           crc == CHOOSE g : IsCrc(g)
<1>1. step \in [1..8 -> [Byte -> Byte]]
  BY ShiftIsByte
<1>2. PICK f \in [0..8 -> Byte] : IsRun(f, 8, b, step)
  <2> HIDE DEF step
  <2> QED
    BY <1>1, RunExists
<1>3. IsCrc(f)
  <2>1. \A i \in 1..8 : step[i][f[i - 1]] = Shift(f[i - 1])
    <3> HIDE DEF Shift
    <3> QED
      OBVIOUS
  <2> HIDE DEF Shift, step
  <2> QED
    BY <1>2, <2>1 DEF IsRun
<1>4. IsCrc(crc)
  <2> HIDE DEF IsCrc
  <2> QED
    BY <1>3
<1>5. Shifted8[b] = crc[8]
  BY DEF Shifted8
<1> HIDE DEF crc
<1> DEFINE Holds == {i \in 0..8 : crc[i] \in Byte}
<1>6. 0 \in Holds
  BY <1>4
<1>7. ASSUME NEW i \in 0..(8 - 1), i \in Holds
      PROVE  i + 1 \in Holds
  <2>1. crc[i + 1] = Shift(crc[i])
    <3> HIDE DEF Shift
    <3> QED
      BY <1>4
  <2>2. Shift(crc[i]) \in Byte
    BY <1>7, ShiftIsByte
  <2> HIDE DEF Shift
  <2> QED
    BY <2>1, <2>2
<1>8. Holds = 0..8
  <2>1. Holds \in SUBSET (0..8)
    OBVIOUS
  <2> HIDE DEF Holds
  <2> QED
    BY <1>6, <1>7, <2>1, UpTo
<1> QED
  BY <1>5, <1>8

LEMMA CrcIsByte ==
  ASSUME NEW data \in Seq(Byte)
  PROVE  Crc8(data) \in Byte
<1> DEFINE n == Len(data)
           Next1(c, i) == Shifted8[Xor8[c][data[i]]]
           IsCrc(g) == g = [i \in 0..n |-> IF i = 0 THEN 0 ELSE Next1(g[i - 1], i)]
           step == [i \in 1..n |-> [c \in Byte |-> Next1(c, i)]]
           crc == CHOOSE g : IsCrc(g)
<1>1. n \in Nat /\ 0 \in Byte /\ \A i \in 1..n : data[i] \in Byte
  <2>1. n \in Nat /\ \A i \in 1..n : data[i] \in Byte
    OBVIOUS
  <2>2. 0 \in Byte
    BY DEF Byte
  <2> QED
    BY <2>1, <2>2
<1>2. \A i \in 1..n, c \in Byte : Next1(c, i) \in Byte
  BY <1>1, XorIsByte, ShiftedIsByte
<1> HIDE DEF n, Next1
<1>3. step \in [1..n -> [Byte -> Byte]]
  BY <1>2
<1>4. PICK f \in [0..n -> Byte] : IsRun(f, n, 0, step)
  <2> HIDE DEF step
  <2> QED
    BY <1>1, <1>3, RunExists
<1>5. IsCrc(f)
  <2>1. \A i \in 1..n : step[i][f[i - 1]] = Next1(f[i - 1], i)
    <3> SUFFICES ASSUME NEW i \in 1..n
                 PROVE  step[i][f[i - 1]] = Next1(f[i - 1], i)
      OBVIOUS
    <3>1. i - 1 \in 0..n
      BY <1>1
    <3>2. f[i - 1] \in Byte
      BY <1>4, <3>1
    <3> QED
      BY <3>2
  <2> HIDE DEF step
  <2> QED
    BY <1>1, <1>4, <2>1 DEF IsRun
<1>6. IsCrc(crc)
  <2> HIDE DEF IsCrc
  <2> QED
    BY <1>5
<1>7. Crc8(data) = crc[n]
  BY DEF Crc8, n, Next1
<1> HIDE DEF crc
<1> DEFINE Holds == {i \in 0..n : crc[i] \in Byte}
<1>8. 0 \in Holds
  BY <1>1, <1>6
<1>9. ASSUME NEW i \in 0..(n - 1), i \in Holds
      PROVE  i + 1 \in Holds
  <2>1. i + 1 \in 1..n
    BY <1>1
  <2>2. crc[i + 1] = Next1(crc[i], i + 1)
    <3>1. i + 1 \in 0..n /\ i + 1 # 0 /\ (i + 1) - 1 = i
      BY <1>1, <2>1
    <3> QED
      BY <1>6, <3>1
  <2> QED
    BY <1>2, <1>9, <2>1, <2>2
<1>10. Holds = 0..n
  <2>1. Holds \in SUBSET (0..n)
    OBVIOUS
  <2> HIDE DEF Holds
  <2> QED
    BY <1>1, <1>8, <1>9, <2>1, UpTo
<1> QED
  BY <1>1, <1>7, <1>10
-----------------------------------------------------------------------------
(* Frames as bytes.                                                        *)

LEMMA Limits ==
  /\ PiMax \in Nat /\ PiMax < 65536 /\ BridgeMax \in Nat /\ MaxSent \in Nat /\ MaxFaults \in Nat
  /\ Cuts \subseteq Nat
BY LinkAssumption

LEMMA FrameIs ==
  ASSUME NEW f \in Frames
  PROVE  /\ f = [type |-> f.type, payload |-> f.payload]
         /\ f.type \in Byte /\ f.payload \in Seq(Byte) /\ Len(f.payload) \in 0..PiMax
<1>1. Frames \subseteq [type : Byte, payload : Seq(Byte)] /\ Len(f.payload) <= PiMax
  BY LinkAssumption
<1>2. f \in [type : Byte, payload : Seq(Byte)]
  BY <1>1
<1>3. f = [type |-> f.type, payload |-> f.payload] /\ f.type \in Byte /\ f.payload \in Seq(Byte)
  BY <1>2
<1>4. Len(f.payload) \in Nat
  BY <1>3, LenProperties
<1> QED
  BY <1>1, <1>3, <1>4, Limits

(* The two bytes of the length say what it is.                             *)
LEMMA TwoBytes ==
  ASSUME NEW n, n \in Nat, n < 65536
  PROVE  n % 256 \in 0..255 /\ n \div 256 \in 0..255 /\ (n % 256) + 256 * (n \div 256) = n
<1>1. n \in Int /\ n % 256 \in Int /\ n % 256 >= 0 /\ n % 256 <= 255 /\ n \div 256 \in Int
  OBVIOUS
<1>2. (n % 256) + 256 * (n \div 256) = n
  BY <1>1
<1>3. n \div 256 >= 0 /\ n \div 256 <= 255
  BY <1>1, <1>2
<1> QED
  BY <1>1, <1>2, <1>3

Low(f) == Len(f.payload) % 256
High(f) == Len(f.payload) \div 256
Header(f) == <<Start1, Start2, f.type, Low(f), High(f)>>
Check(f) == <<Crc8(f.payload)>>

(* What follows each byte of the header.                                   *)
Body(f) == f.payload \o Check(f)
FromHigh(f) == Cons(High(f), Body(f))
FromLow(f) == Cons(Low(f), FromHigh(f))
FromType(f) == Cons(f.type, FromLow(f))
FromStart2(f) == Cons(Start2, FromType(f))

LEMMA LengthBytes ==
  ASSUME NEW f \in Frames
  PROVE  Low(f) \in Byte /\ High(f) \in Byte /\ Low(f) + 256 * High(f) = Len(f.payload)
<1> DEFINE n == Len(f.payload)
<1>1. n \in 0..PiMax /\ PiMax \in Int
  BY FrameIs, Limits
<1> HIDE DEF n
<1>2. n \in Nat /\ n <= PiMax
  BY <1>1
<1>3. n < 65536
  BY <1>2, Limits
<1>4. n % 256 \in 0..255 /\ n \div 256 \in 0..255 /\ (n % 256) + 256 * (n \div 256) = n
  BY <1>2, <1>3, TwoBytes
<1> QED
  BY <1>4 DEF Byte, n, Low, High

LEMMA FiveOf ==
  ASSUME NEW S, NEW a \in S, NEW b \in S, NEW c \in S, NEW d \in S, NEW e \in S
  PROVE  <<a, b, c, d, e>> \in Seq(S) /\ Len(<<a, b, c, d, e>>) = 5
OBVIOUS

LEMMA CodeIs ==
  ASSUME NEW f \in Frames
  PROVE  /\ Code[f] = Header(f) \o Body(f)
         /\ Code[f] \in Seq(Byte) /\ Body(f) \in Seq(Byte) /\ Header(f) \in Seq(Byte)
         /\ Code[f] # <<>>
<1>1. Start1 \in Byte /\ Start2 \in Byte
  BY DEF Start1, Start2, Byte
<1>2. Header(f) \in Seq(Byte) /\ Len(Header(f)) = 5
  <2>1. f.type \in Byte /\ Low(f) \in Byte /\ High(f) \in Byte
    BY FrameIs, LengthBytes
  <2> QED
    BY <1>1, <2>1, FiveOf DEF Header
<1>3. f.payload \in Seq(Byte) /\ Check(f) \in Seq(Byte)
  BY FrameIs, CrcIsByte DEF Check
<1>4. Body(f) \in Seq(Byte)
  BY <1>3, ConcatProperties DEF Body
<1>5. Code[f] = (Header(f) \o f.payload) \o Check(f)
  BY DEF Code, EncodeFrame, Header, Check, Low, High
<1>6. Code[f] = Header(f) \o Body(f)
  <2> DEFINE h == Header(f)
             p == f.payload
             c == Check(f)
  <2>1. h \in Seq(Byte) /\ p \in Seq(Byte) /\ c \in Seq(Byte) /\ Code[f] = (h \o p) \o c
    BY <1>2, <1>3, <1>5
  <2>2. Body(f) = p \o c
    BY DEF Body
  <2> HIDE DEF h, p, c
  <2>3. (h \o p) \o c = h \o (p \o c)
    BY <2>1, ConcatAssociative
  <2> QED
    BY <2>1, <2>2, <2>3 DEF h
<1>7. Code[f] \in Seq(Byte) /\ Len(Code[f]) = 5 + Len(Body(f))
  <2> DEFINE h == Header(f)
             b == Body(f)
  <2>1. h \in Seq(Byte) /\ b \in Seq(Byte) /\ Code[f] = h \o b /\ Len(h) = 5
    BY <1>2, <1>4, <1>6
  <2>2. Body(f) = b
    OBVIOUS
  <2> HIDE DEF h, b
  <2>3. h \o b \in Seq(Byte) /\ Len(h \o b) = Len(h) + Len(b)
    BY <2>1, ConcatProperties
  <2> QED
    BY <2>1, <2>2, <2>3
<1>8. Len(Body(f)) \in Nat
  BY <1>4, LenProperties
<1> QED
  BY <1>2, <1>4, <1>6, <1>7, <1>8, EmptySeq

(* The bytes of some frames, summed up from the first one.                 *)
IsSum(q, r) ==
  /\ r \in [0..Len(q) -> Seq(Byte)] /\ r[0] = <<>>
  /\ \A i \in 1..Len(q) : r[i] = r[i - 1] \o Code[q[i]]

LEMMA EncodedIsSum ==
  ASSUME NEW q \in Seq(Frames)
  PROVE  \E r : IsSum(q, r) /\ Encoded(q) = r[Len(q)]
<1> DEFINE n == Len(q)
           seqs == [i \in DOMAIN q |-> Code[q[i]]]
           IsFlat(g) == g = [i \in 1..n |-> IF i = 1 THEN seqs[i] ELSE g[i - 1] \o seqs[i]]
           flatten == CHOOSE g : IsFlat(g)
           step == [i \in 1..n |-> [c \in Seq(Byte) |-> c \o Code[q[i]]]]
<1>1. n \in Nat /\ DOMAIN q = 1..n /\ \A i \in 1..n : q[i] \in Frames
  BY LenProperties
<1>2. \A i \in 1..n : Code[q[i]] \in Seq(Byte) /\ seqs[i] = Code[q[i]]
  BY <1>1, CodeIs
<1>3. seqs \in Seq(Seq(Byte)) /\ Len(seqs) = n
  BY <1>1, <1>2
<1>4. step \in [1..n -> [Seq(Byte) -> Seq(Byte)]]
  BY <1>2, ConcatProperties
<1>5. <<>> \in Seq(Byte)
  BY EmptySeq
<1>6. PICK f \in [0..n -> Seq(Byte)] : IsRun(f, n, <<>>, step)
  <2> HIDE DEF step, n
  <2> QED
    BY <1>1, <1>4, <1>5, RunExists
<1>7. f[0] = <<>> /\ \A i \in 1..n : f[i] = f[i - 1] \o Code[q[i]]
  <2>1. \A i \in 0..n : f[i] = IF i = 0 THEN <<>> ELSE step[i][f[i - 1]]
    <3> HIDE DEF step, n
    <3> QED
      BY <1>1, <1>6 DEF IsRun
  <2>2. ASSUME NEW i \in 1..n
        PROVE  f[i] = f[i - 1] \o Code[q[i]]
    <3>1. i \in 0..n /\ i # 0 /\ i - 1 \in 0..n
      BY <1>1
    <3>2. f[i - 1] \in Seq(Byte)
      BY <1>6, <3>1
    <3>3. step[i][f[i - 1]] = f[i - 1] \o Code[q[i]]
      BY <3>2
    <3> HIDE DEF step
    <3> QED
      BY <2>1, <3>1, <3>3
  <2>3. 0 \in 0..n
    BY <1>1
  <2> QED
    BY <2>1, <2>2, <2>3
<1> HIDE DEF step, seqs
<1>8. IsFlat([i \in 1..n |-> f[i]])
  <2> DEFINE g == [i \in 1..n |-> f[i]]
  <2>1. ASSUME NEW i \in 1..n
        PROVE  g[i] = IF i = 1 THEN seqs[i] ELSE g[i - 1] \o seqs[i]
    <3>1. f[i] = f[i - 1] \o Code[q[i]]
      BY <1>7
    <3>2. CASE i = 1
      <4>1. f[1] = <<>> \o Code[q[1]]
        <5>1. f[0] = <<>> /\ f[1] = f[1 - 1] \o Code[q[1]]
          BY <1>7, <3>1, <3>2
        <5>2. 1 - 1 = 0
          OBVIOUS
        <5> QED
          BY <5>1, <5>2
      <4>2. <<>> \o Code[q[1]] = Code[q[1]]
        BY <1>2, <3>2, ConcatEmptySeq
      <4> QED
        BY <1>2, <3>2, <4>1, <4>2
    <3>3. CASE i # 1
      <4>1. i - 1 \in 1..n
        BY <1>1, <3>3
      <4> QED
        BY <1>2, <3>1, <3>3, <4>1
    <3> QED
      BY <3>2, <3>3
  <2> QED
    BY <2>1
<1>9. IsFlat(flatten)
  <2> HIDE DEF IsFlat
  <2> QED
    BY <1>8
<1>10. Encoded(q) = IF n = 0 THEN seqs ELSE flatten[n]
  <2>1. Encoded(q) = FlattenSeq(seqs)
    BY DEF Encoded, seqs
  <2> HIDE DEF n
  <2> QED
    BY <1>3, <2>1 DEF FlattenSeq
<1> HIDE DEF flatten
<1> DEFINE r == [i \in 0..n |-> IF i = 0 THEN <<>> ELSE flatten[i]]
<1>11. ASSUME NEW i \in 1..n
       PROVE  r[i] = r[i - 1] \o Code[q[i]]
  <2>1. r[i] = flatten[i]
    BY <1>1
  <2>2. CASE i = 1
    <3>1. flatten[1] = Code[q[1]]
      BY <1>2, <1>9, <2>2
    <3>2. r[0] = <<>>
      BY <1>1
    <3>3. <<>> \o Code[q[1]] = Code[q[1]]
      BY <1>2, <2>2, ConcatEmptySeq
    <3>4. i - 1 = 0
      BY <2>2
    <3> HIDE DEF r
    <3> QED
      BY <2>1, <2>2, <3>1, <3>2, <3>3, <3>4
  <2>3. CASE i # 1
    <3>1. i - 1 \in 1..n
      BY <1>1, <2>3
    <3>2. r[i - 1] = flatten[i - 1]
      BY <1>1, <3>1
    <3>3. flatten[i] = flatten[i - 1] \o seqs[i]
      BY <1>9, <2>3
    <3> HIDE DEF r
    <3> QED
      BY <1>2, <2>1, <3>2, <3>3
  <2> QED
    BY <2>2, <2>3
<1>12. r \in [0..n -> Seq(Byte)]
  <2> DEFINE Holds == {i \in 0..n : r[i] \in Seq(Byte)}
  <2>1. 0 \in Holds
    BY <1>1, <1>5
  <2>2. ASSUME NEW i \in 0..(n - 1), i \in Holds
        PROVE  i + 1 \in Holds
    <3>1. i + 1 \in 1..n /\ i + 1 \in 0..n /\ (i + 1) - 1 = i
      BY <1>1
    <3>2. r[i + 1] = r[i] \o Code[q[i + 1]] /\ r[i] \in Seq(Byte)
      BY <1>11, <2>2, <3>1
    <3> HIDE DEF r
    <3>3. r[i + 1] \in Seq(Byte)
      BY <1>2, <3>1, <3>2, ConcatProperties
    <3> QED
      BY <3>1, <3>3
  <2>3. Holds = 0..n
    <3>1. Holds \in SUBSET (0..n)
      OBVIOUS
    <3> HIDE DEF Holds
    <3> QED
      BY <1>1, <2>1, <2>2, <3>1, UpTo
  <2>4. \A i \in 0..n : r[i] \in Seq(Byte)
    BY <2>3
  <2>5. r = [i \in 0..n |-> r[i]]
    OBVIOUS
  <2> HIDE DEF r
  <2> QED
    BY <2>4, <2>5
<1>13. IsSum(q, r)
  <2>1. r[0] = <<>>
    BY <1>1
  <2> HIDE DEF r
  <2> QED
    BY <1>11, <1>12, <2>1 DEF IsSum
<1>14. Encoded(q) = r[n]
  <2>1. CASE n = 0
    <3>1. r[n] = <<>>
      BY <1>1, <2>1
    <3>2. Encoded(q) = <<>>
      BY <1>3, <1>10, <2>1, EmptySeq
    <3> QED
      BY <3>1, <3>2
  <2>2. CASE n # 0
    BY <1>1, <1>10, <2>2
  <2> QED
    BY <2>1, <2>2
<1> HIDE DEF r
<1> QED
  BY <1>13, <1>14

LEMMA SumUnique ==
  ASSUME NEW q \in Seq(Frames), NEW r, NEW s, IsSum(q, r), IsSum(q, s)
  PROVE  r = s
<1> DEFINE n == Len(q)
           Holds == {i \in 0..n : r[i] = s[i]}
<1>1. n \in Nat
  BY LenProperties
<1>2. /\ r \in [0..n -> Seq(Byte)] /\ s \in [0..n -> Seq(Byte)] /\ r[0] = s[0]
      /\ \A i \in 1..n : r[i] = r[i - 1] \o Code[q[i]] /\ s[i] = s[i - 1] \o Code[q[i]]
  BY DEF IsSum
<1> HIDE DEF n
<1>3. 0 \in Holds
  BY <1>1, <1>2
<1>4. ASSUME NEW i \in 0..(n - 1), i \in Holds
      PROVE  i + 1 \in Holds
  <2>1. i + 1 \in 1..n /\ i + 1 \in 0..n /\ (i + 1) - 1 = i
    BY <1>1
  <2>2. r[i + 1] = r[i] \o Code[q[i + 1]] /\ s[i + 1] = s[i] \o Code[q[i + 1]]
    BY <1>2, <2>1
  <2>3. r[i] = s[i]
    BY <1>4
  <2> QED
    BY <2>1, <2>2, <2>3
<1>5. Holds = 0..n
  <2>1. Holds \in SUBSET (0..n)
    OBVIOUS
  <2> HIDE DEF Holds
  <2> QED
    BY <1>1, <1>3, <1>4, <2>1, UpTo
<1>6. \A i \in 0..n : r[i] = s[i]
  BY <1>5
<1>7. r = [i \in 0..n |-> r[i]] /\ s = [i \in 0..n |-> s[i]]
  BY <1>2
<1> HIDE DEF Holds
<1>8. [i \in 0..n |-> r[i]] = [i \in 0..n |-> s[i]]
  BY <1>6
<1> QED
  BY <1>7, <1>8, Zenon

LEMMA EncodedBy ==
  ASSUME NEW q \in Seq(Frames), NEW r, IsSum(q, r)
  PROVE  Encoded(q) = r[Len(q)] /\ Encoded(q) \in Seq(Byte)
<1>1. PICK s : IsSum(q, s) /\ Encoded(q) = s[Len(q)]
  BY EncodedIsSum, Zenon
<1>2. s = r
  BY <1>1, SumUnique, Zenon
<1>3. Len(q) \in Nat /\ r \in [0..Len(q) -> Seq(Byte)]
  BY LenProperties DEF IsSum
<1> QED
  BY <1>1, <1>2, <1>3

LEMMA EncodedIsBytes ==
  ASSUME NEW q \in Seq(Frames)
  PROVE  Encoded(q) \in Seq(Byte)
BY EncodedIsSum, EncodedBy, Zenon

LEMMA EncodedNothing == Encoded(<<>>) = <<>>
<1>1. <<>> \in Seq(Frames) /\ Len(<<>>) = 0
  BY EmptySeq
<1>2. PICK r : IsSum(<<>>, r) /\ Encoded(<<>>) = r[Len(<<>>)]
  BY <1>1, EncodedIsSum, Zenon
<1>3. r[0] = <<>>
  BY <1>2, Zenon DEF IsSum
<1> QED
  BY <1>1, <1>2, <1>3

(* One frame more, one code more.                                          *)
LEMMA EncodedAppend ==
  ASSUME NEW q \in Seq(Frames), NEW f \in Frames
  PROVE  /\ Append(q, f) \in Seq(Frames)
         /\ Encoded(Append(q, f)) = Encoded(q) \o Code[f]
<1> DEFINE n == Len(q)
           w == Append(q, f)
<1>1. n \in Nat /\ w \in Seq(Frames) /\ Len(w) = n + 1 /\ w[n + 1] = f
      /\ \A i \in 1..n : w[i] = q[i]
  BY AppendProperties, LenProperties
<1>2. w = Append(q, f) /\ n = Len(q)
  OBVIOUS
<1> HIDE DEF w, n
<1>3. PICK s : IsSum(w, s) /\ Encoded(w) = s[n + 1]
  BY <1>1, EncodedIsSum
<1>4. /\ s \in [0..(n + 1) -> Seq(Byte)] /\ s[0] = <<>>
      /\ \A i \in 1..(n + 1) : s[i] = s[i - 1] \o Code[w[i]]
  BY <1>1, <1>3 DEF IsSum
<1> DEFINE r == [i \in 0..n |-> s[i]]
<1>5. r \in [0..n -> Seq(Byte)] /\ r[0] = <<>> /\ r[n] = s[n]
  BY <1>1, <1>4
<1>6. ASSUME NEW i \in 1..n
      PROVE  r[i] = r[i - 1] \o Code[q[i]]
  <2>1. i \in 0..n /\ i - 1 \in 0..n /\ i \in 1..(n + 1)
    BY <1>1
  <2>2. s[i] = s[i - 1] \o Code[q[i]]
    BY <1>1, <1>4, <2>1
  <2> QED
    BY <2>1, <2>2
<1> HIDE DEF r
<1>7. IsSum(q, r)
  BY <1>2, <1>5, <1>6 DEF IsSum
<1>8. Encoded(q) = s[n]
  BY <1>2, <1>5, <1>7, EncodedBy
<1>9. s[n + 1] = s[n] \o Code[f]
  <2>1. n + 1 \in 1..(n + 1) /\ (n + 1) - 1 = n
    BY <1>1
  <2> QED
    BY <1>1, <1>4, <2>1
<1> QED
  BY <1>1, <1>2, <1>3, <1>8, <1>9

(* The first frame comes first.                                            *)
LEMMA EncodedFirst ==
  ASSUME NEW q \in Seq(Frames), q # <<>>
  PROVE  /\ Head(q) \in Frames /\ Tail(q) \in Seq(Frames)
         /\ Encoded(q) = Code[Head(q)] \o Encoded(Tail(q))
<1> DEFINE n == Len(q)
           t == Tail(q)
           c == Code[Head(q)]
<1>1. /\ Head(q) \in Frames /\ t \in Seq(Frames) /\ n \in Nat /\ n >= 1 /\ Len(t) = n - 1
      /\ \A i \in 1..(n - 1) : t[i] = q[i + 1] /\ q[i + 1] \in Frames
      /\ q[1] = Head(q)
  BY HeadTailProperties, LenProperties, EmptySeq
<1>2. c \in Seq(Byte) /\ c = Code[Head(q)]
  BY <1>1, CodeIs
<1>3. t = Tail(q) /\ n = Len(q)
  OBVIOUS
<1> HIDE DEF n, t, c
<1>4. PICK s : IsSum(t, s) /\ Encoded(t) = s[n - 1]
  BY <1>1, EncodedIsSum
<1>5. /\ s \in [0..(n - 1) -> Seq(Byte)] /\ s[0] = <<>>
      /\ \A i \in 1..(n - 1) : s[i] = s[i - 1] \o Code[t[i]]
  BY <1>1, <1>4 DEF IsSum
<1> DEFINE r == [i \in 0..n |-> IF i = 0 THEN <<>> ELSE c \o s[i - 1]]
<1>6. ASSUME NEW i \in 0..n
      PROVE  r[i] \in Seq(Byte)
  <2>1. CASE i = 0
    BY <2>1, EmptySeq
  <2>2. CASE i # 0
    <3>1. i - 1 \in 0..(n - 1)
      BY <1>1, <2>2
    <3>2. s[i - 1] \in Seq(Byte)
      BY <1>5, <3>1
    <3> DEFINE u == s[i - 1]
    <3> HIDE DEF u
    <3>3. c \o u \in Seq(Byte)
      BY <1>2, <3>2, ConcatProperties DEF u
    <3> QED
      BY <2>2, <3>3 DEF u
  <2> QED
    BY <2>1, <2>2
<1>7. r \in [0..n -> Seq(Byte)] /\ r[0] = <<>> /\ r[n] = c \o s[n - 1]
  <2>1. r[0] = <<>> /\ r[n] = c \o s[n - 1]
    BY <1>1
  <2>2. r = [i \in 0..n |-> r[i]]
    OBVIOUS
  <2> HIDE DEF r
  <2> QED
    BY <1>6, <2>1, <2>2
<1>8. ASSUME NEW i \in 1..n
      PROVE  r[i] = r[i - 1] \o Code[q[i]]
  <2>1. r[i] = c \o s[i - 1]
    BY <1>1
  <2>2. CASE i = 1
    <3>1. r[i - 1] = <<>> /\ s[i - 1] = <<>> /\ Code[q[i]] = c
      BY <1>1, <1>2, <1>5, <2>2
    <3>2. c \o <<>> = c /\ <<>> \o c = c
      BY <1>2, ConcatEmptySeq
    <3> HIDE DEF r
    <3> QED
      BY <2>1, <3>1, <3>2
  <2>3. CASE i # 1
    <3>1. i - 1 \in 1..(n - 1) /\ i - 1 \in 1..n /\ (i - 1) + 1 = i
      BY <1>1, <2>3
    <3>2. r[i - 1] = c \o s[(i - 1) - 1]
      BY <1>1, <3>1
    <3>3. s[i - 1] = s[(i - 1) - 1] \o Code[q[i]] /\ q[i] \in Frames
      BY <1>1, <1>5, <3>1
    <3>4. s[(i - 1) - 1] \in Seq(Byte)
      <4>1. (i - 1) - 1 \in 0..(n - 1)
        BY <1>1, <3>1
      <4> QED
        BY <1>5, <4>1
    <3>5. Code[q[i]] \in Seq(Byte)
      BY <3>3, CodeIs
    <3> DEFINE u == s[(i - 1) - 1]
               d == Code[q[i]]
    <3>6. /\ r[i] = c \o (u \o d) /\ r[i - 1] = c \o u /\ u \in Seq(Byte) /\ d \in Seq(Byte)
          /\ d = Code[q[i]]
      BY <2>1, <3>2, <3>3, <3>4, <3>5
    <3> HIDE DEF r, u, d
    <3>7. c \in Seq(Byte) /\ u \in Seq(Byte) /\ d \in Seq(Byte)
      BY <1>2, <3>6, Zenon
    <3>8. (c \o u) \o d = c \o (u \o d)
      BY <3>7, ConcatAssociative
    <3> QED
      BY <3>6, <3>8
  <2> QED
    BY <2>2, <2>3
<1> HIDE DEF r
<1>9. IsSum(q, r)
  BY <1>3, <1>7, <1>8 DEF IsSum
<1>10. Encoded(q) = c \o s[n - 1]
  BY <1>3, <1>7, <1>9, EncodedBy
<1> QED
  BY <1>1, <1>2, <1>3, <1>4, <1>10
-----------------------------------------------------------------------------
(* Sequences put together and taken apart.                                 *)

LEMMA FirstAndRest ==
  ASSUME NEW S, NEW a \in S, NEW s \in Seq(S)
  PROVE  /\ <<a>> \o s \in Seq(S) /\ <<a>> \o s # <<>>
         /\ Head(<<a>> \o s) = a /\ Tail(<<a>> \o s) = s
<1> DEFINE w == <<a>> \o s
<1>1. /\ w \in Seq(S) /\ Len(w) = 1 + Len(s) /\ Len(s) \in Nat
      /\ \A i \in 1..(1 + Len(s)) : w[i] = IF i <= 1 THEN a ELSE s[i - 1]
  <2>1. <<a>> \in Seq(S) /\ Len(<<a>>) = 1 /\ <<a>>[1] = a
    OBVIOUS
  <2> DEFINE u == <<a>>
  <2>2. u \in Seq(S) /\ Len(u) = 1 /\ u[1] = a /\ w = u \o s
    BY <2>1
  <2> HIDE DEF w, u
  <2>3. /\ u \o s \in Seq(S) /\ Len(u \o s) = Len(u) + Len(s) /\ Len(s) \in Nat
        /\ \A i \in 1..(Len(u) + Len(s)) :
             (u \o s)[i] = IF i <= Len(u) THEN u[i] ELSE s[i - Len(u)]
    BY <2>2, ConcatProperties, LenProperties
  <2>4. \A i \in 1..(1 + Len(s)) : w[i] = IF i <= 1 THEN u[i] ELSE s[i - 1]
    BY <2>2, <2>3
  <2>5. \A i \in 1..(1 + Len(s)) : i <= 1 => u[i] = a
    BY <2>2, <2>3
  <2> QED
    BY <2>2, <2>3, <2>4, <2>5
<1> HIDE DEF w
<1>2. w # <<>>
  BY <1>1, EmptySeq
<1>3. Head(w) = a /\ Tail(w) \in Seq(S) /\ Len(Tail(w)) = Len(s)
      /\ \A i \in 1..Len(s) : Tail(w)[i] = w[i + 1]
  BY <1>1, <1>2, HeadTailProperties
<1>4. \A i \in 1..Len(s) : Tail(w)[i] = s[i]
  <2> SUFFICES ASSUME NEW i \in 1..Len(s)
               PROVE  Tail(w)[i] = s[i]
    OBVIOUS
  <2>1. i + 1 \in 1..(1 + Len(s)) /\ ~(i + 1 <= 1) /\ (i + 1) - 1 = i
    BY <1>1
  <2>2. w[i + 1] = s[i]
    BY <1>1, <2>1
  <2> QED
    BY <1>3, <2>2
<1>5. Tail(w) = s
  BY <1>3, <1>4, SeqEqual
<1> QED
  BY <1>1, <1>2, <1>3, <1>5 DEF w

LEMMA ConsIs ==
  ASSUME NEW S, NEW a \in S, NEW s \in Seq(S)
  PROVE  /\ Cons(a, s) \in Seq(S) /\ Cons(a, s) # <<>>
         /\ Head(Cons(a, s)) = a /\ Tail(Cons(a, s)) = s
BY FirstAndRest, Zenon DEF Cons

LEMMA ConsConcat ==
  ASSUME NEW a \in Byte, NEW s \in Seq(Byte), NEW t \in Seq(Byte)
  PROVE  Cons(a, s) \o t = Cons(a, s \o t)
<1> DEFINE u == <<a>>
<1>1. u \in Seq(Byte) /\ Cons(a, s) = u \o s /\ Cons(a, s \o t) = u \o (s \o t)
  BY DEF Cons
<1> HIDE DEF u
<1>2. (u \o s) \o t = u \o (s \o t)
  BY <1>1, ConcatAssociative
<1> QED
  BY <1>1, <1>2, Zenon

LEMMA Regroup ==
  ASSUME NEW s \in Seq(Byte), NEW t \in Seq(Byte), NEW u \in Seq(Byte)
  PROVE  (s \o t) \o u = s \o (t \o u)
BY ConcatAssociative

LEMMA ConcatIsBytes ==
  ASSUME NEW s \in Seq(Byte), NEW t \in Seq(Byte)
  PROVE  s \o t \in Seq(Byte)
BY ConcatProperties

LEMMA ConsCancel ==
  ASSUME NEW a \in Byte, NEW b \in Byte, NEW s \in Seq(Byte), NEW t \in Seq(Byte),
         Cons(a, s) = Cons(b, t)
  PROVE  a = b /\ s = t
<1>1. Head(Cons(a, s)) = a /\ Tail(Cons(a, s)) = s
  BY ConsIs, Zenon
<1>2. Head(Cons(b, t)) = b /\ Tail(Cons(b, t)) = t
  BY ConsIs, Zenon
<1> QED
  BY <1>1, <1>2, Zenon

LEMMA Parted ==
  ASSUME NEW S, NEW s \in Seq(S), s # <<>>
  PROVE  Head(s) \in S /\ Tail(s) \in Seq(S) /\ s = Cons(Head(s), Tail(s))
<1> DEFINE a == Head(s)
           t == Tail(s)
           w == Cons(a, t)
           n == Len(s)
<1>1. /\ a \in S /\ t \in Seq(S) /\ n \in Nat /\ n >= 1 /\ Len(t) = n - 1 /\ s[1] = a
      /\ \A i \in 1..(n - 1) : t[i] = s[i + 1]
  BY HeadTailProperties, LenProperties, EmptySeq
<1>2. w \in Seq(S) /\ w # <<>> /\ Head(w) = a /\ Tail(w) = t
  BY <1>1, ConsIs, Zenon
<1> HIDE DEF a, t, w, n
<1>3. /\ Len(w) \in Nat /\ Len(w) >= 1 /\ Len(t) = Len(w) - 1 /\ w[1] = a
      /\ \A i \in 1..(Len(w) - 1) : t[i] = w[i + 1]
  BY <1>2, HeadTailProperties, LenProperties, EmptySeq
<1>4. Len(w) = n
  BY <1>1, <1>3
<1>5. ASSUME NEW i \in 1..n
      PROVE  w[i] = s[i]
  <2>1. CASE i = 1
    BY <1>1, <1>3, <2>1
  <2>2. CASE i # 1
    <3>1. i - 1 \in 1..(n - 1) /\ (i - 1) + 1 = i
      BY <1>1, <2>2
    <3> QED
      BY <1>1, <1>3, <1>4, <3>1
  <2> QED
    BY <2>1, <2>2
<1>6. w = s
  BY <1>2, <1>4, <1>5, SeqEqual DEF n
<1> QED
  BY <1>1, <1>6 DEF w, a, t

LEMMA OffTheFront ==
  ASSUME NEW s \in Seq(Byte), NEW t \in Seq(Byte), Len(s) >= 1
  PROVE  /\ s \o t = Cons(s[1], Tail(s) \o t)
         /\ Tail(s) \in Seq(Byte) /\ Len(Tail(s)) = Len(s) - 1
         /\ \A i \in 1..(Len(s) - 1) : Tail(s)[i] = s[i + 1]
<1> DEFINE a == s[1]
           u == Tail(s)
<1>1. s # <<>> /\ Head(s) = s[1] /\ Len(s) \in Nat
  BY EmptySeq, LenProperties
<1>2. u \in Seq(Byte) /\ Len(u) = Len(s) - 1 /\ \A i \in 1..(Len(s) - 1) : u[i] = s[i + 1]
  BY <1>1, HeadTailProperties
<1>3. s = Cons(a, u) /\ a \in Byte
  <2>1. Head(s) \in Byte /\ s = Cons(Head(s), u)
    BY <1>1, Parted, Zenon
  <2> QED
    BY <1>1, <2>1
<1> HIDE DEF a, u
<1>4. Cons(a, u) \o t = Cons(a, u \o t)
  BY <1>2, <1>3, ConsConcat, Zenon
<1>5. s \o t = Cons(a, u \o t)
  BY <1>3, <1>4, Zenon
<1> QED
  BY <1>2, <1>5 DEF a, u

LEMMA SplitAt ==
  ASSUME NEW S, NEW s \in Seq(S), NEW n \in Nat, n <= Len(s)
  PROVE  /\ SubSeq(s, 1, n) \in Seq(S) /\ SubSeq(s, n + 1, Len(s)) \in Seq(S)
         /\ SubSeq(s, 1, n) \o SubSeq(s, n + 1, Len(s)) = s
<1> DEFINE m == Len(s)
<1>1. m \in Nat /\ n <= m /\ \A i \in 1..m : s[i] \in S
  BY LenProperties
<1>2. m = Len(s)
  OBVIOUS
<1> HIDE DEF m
<1>3. SubSeq(s, 1, n) \in Seq(S) /\ SubSeq(s, n + 1, m) \in Seq(S)
  <2>1. (\A i \in 1..n : s[i] \in S) /\ (\A i \in (n + 1)..m : s[i] \in S)
    BY <1>1
  <2>2. n + 1 \in Int /\ m \in Int /\ n \in Int /\ 1 \in Int
    BY <1>1
  <2> QED
    BY <2>1, <2>2, SubSeqProperties
<1>4. SubSeq(s, 1, n) \o SubSeq(s, n + 1, m) = s
  <2>1. 1 \in 1..(m + 1) /\ n \in (1 - 1)..m /\ m \in n..m
    BY <1>1
  <2>2. SubSeq(s, 1, n) \o SubSeq(s, n + 1, m) = SubSeq(s, 1, m)
    BY <1>2, <2>1, ConcatAdjacentSubSeq
  <2> QED
    BY <1>2, <2>2, SubSeqFull
<1> QED
  BY <1>2, <1>3, <1>4

(* What is left of a sequence of frames.                                   *)
LEMMA SuffixIs ==
  ASSUME NEW S, NEW q \in Seq(S), NEW k \in 1..(Len(q) + 1)
  PROVE  /\ SubSeq(q, k, Len(q)) \in Seq(S)
         /\ \A i \in DOMAIN SubSeq(q, k, Len(q)) :
              \E j \in DOMAIN q : SubSeq(q, k, Len(q))[i] = q[j]
<1>1. Len(q) \in Nat /\ DOMAIN q = 1..Len(q) /\ Len(q) \in 0..Len(q)
  BY LenProperties
<1> DEFINE s == SubSeq(q, k, Len(q))
<1>2. s \in Seq(S) /\ Len(s) = Len(q) - k + 1
      /\ \A i \in 1..Len(s) : s[i] = q[k + i - 1]
  <2>1. k \in Int /\ Len(q) \in Int /\ \A i \in k..Len(q) : q[i] \in S
    <3>1. \A i \in 1..Len(q) : q[i] \in S
      BY LenProperties
    <3> QED
      BY <1>1, <3>1
  <2>2. /\ s \in Seq(S) /\ Len(s) = IF k <= Len(q) THEN Len(q) - k + 1 ELSE 0
        /\ \A i \in 1..(Len(q) - k + 1) : s[i] = q[k + i - 1]
    BY <2>1, SubSeqProperties
  <2>3. Len(s) = Len(q) - k + 1
    BY <1>1, <2>2
  <2> QED
    BY <2>2, <2>3
<1> HIDE DEF s
<1>3. ASSUME NEW i \in DOMAIN s
      PROVE  \E j \in DOMAIN q : s[i] = q[j]
  <2>1. i \in 1..Len(s)
    BY <1>2, LenProperties
  <2>2. k + i - 1 \in 1..Len(q)
    BY <1>1, <1>2, <2>1
  <2> QED
    BY <1>1, <1>2, <2>1, <2>2
<1> QED
  BY <1>2, <1>3 DEF s
-----------------------------------------------------------------------------
(* The parser.                                                             *)

Frame == [type : Byte, payload : Seq(Byte)]

(* A buffer is in use from the length to the checksum, and never too short.*)
ParserTyped(side, p) ==
  /\ p \in [state : States, type : Byte, len : Nat, buf : Seq(Byte)]
  /\ p.state \notin {"PAYLOAD", "CRC"} => p.buf = <<>>
  /\ p.state = "PAYLOAD" => Len(p.buf) < p.len /\ p.len <= MaxLen(side)
  /\ p.state = "CRC" => Len(p.buf) <= MaxLen(side)

(* What is to come of frame f when the parser has taken a part of it.      *)
Awaits(p, f, rest) ==
  /\ p.state \notin {"WAIT2", "TYPE"} => p.type = f.type
  /\ p.state = "WAIT2" => rest = FromStart2(f)
  /\ p.state = "TYPE" => rest = FromType(f)
  /\ p.state = "LEN_LO" => rest = FromLow(f)
  /\ p.state = "LEN_HI" => p.len = Low(f) /\ rest = FromHigh(f)
  /\ p.state = "PAYLOAD" =>
       /\ p.len = Len(f.payload)
       /\ \E more \in Seq(Byte) : f.payload = p.buf \o more /\ rest = more \o Check(f)
  /\ p.state = "CRC" => p.buf = f.payload /\ rest = Check(f)

Joins(w, s, t) == w = s \o t

(* The parser and the bytes that are left agree on the frames to come.     *)
InStep(p, left, q) ==
  \/ p.state = "WAIT1" /\ left = Encoded(q)
  \/ /\ p.state # "WAIT1" /\ q # <<>>
     /\ \E rest \in Seq(Byte) : Awaits(p, Head(q), rest) /\ Joins(left, rest, Encoded(Tail(q)))

Fits(side, q) == \A i \in DOMAIN q : Len(q[i].payload) <= MaxLen(side)

LEMMA MaxLenIsNat ==
  ASSUME NEW side
  PROVE  MaxLen(side) \in Nat
BY Limits DEF MaxLen

LEMMA ResetIsTyped ==
  ASSUME NEW side
  PROVE  ParserTyped(side, Reset) /\ Reset.state = "WAIT1"
<1>1. <<>> \in Seq(Byte) /\ 0 \in Byte
  BY EmptySeq DEF Byte
<1>2. Reset \in [state : States, type : Byte, len : Nat, buf : Seq(Byte)]
  BY <1>1 DEF Reset, States
<1>3. Reset.state = "WAIT1" /\ Reset.buf = <<>>
  BY DEF Reset
<1> QED
  BY <1>2, <1>3 DEF ParserTyped

LEMMA FeedIsTyped ==
  ASSUME NEW side, NEW p, ParserTyped(side, p), NEW b \in Byte
  PROVE  ParserTyped(side, FeedByte(side, p, b)) /\ FrameIn(p) \in Frame
<1>1. /\ p \in [state : States, type : Byte, len : Nat, buf : Seq(Byte)]
      /\ p.state \notin {"PAYLOAD", "CRC"} => p.buf = <<>>
      /\ p.state = "PAYLOAD" => Len(p.buf) < p.len /\ p.len <= MaxLen(side)
      /\ p.state = "CRC" => Len(p.buf) <= MaxLen(side)
  BY DEF ParserTyped
<1>2. /\ p.state \in States /\ p.type \in Byte /\ p.len \in Nat /\ p.buf \in Seq(Byte)
      /\ MaxLen(side) \in Nat /\ Len(p.buf) \in Nat
  BY <1>1, MaxLenIsNat, LenProperties
<1>3. FrameIn(p) \in Frame
  BY <1>2 DEF FrameIn, Frame
<1> DEFINE r == FeedByte(side, p, b)
<1>4. CASE p.state \in {"WAIT1", "WAIT2", "TYPE"}
  <2>1. /\ r \in [state : States, type : Byte, len : Nat, buf : Seq(Byte)]
        /\ r.buf = p.buf /\ r.state \notin {"PAYLOAD", "CRC"}
    BY <1>1, <1>2, <1>4 DEF FeedByte, States
  <2> QED
    BY <1>1, <1>3, <1>4, <2>1 DEF ParserTyped
<1>5. CASE p.state = "LEN_LO"
  <2>1. b \in Nat
    BY DEF Byte
  <2>2. r = [p EXCEPT !.state = "LEN_HI", !.len = b]
    BY <1>5 DEF FeedByte
  <2>3. /\ r \in [state : States, type : Byte, len : Nat, buf : Seq(Byte)]
        /\ r.buf = p.buf /\ r.state = "LEN_HI"
    BY <1>1, <1>2, <2>1, <2>2 DEF States
  <2> QED
    BY <1>1, <1>3, <1>5, <2>3 DEF ParserTyped
<1>6. CASE p.state = "LEN_HI"
  <2> DEFINE n == p.len + 256 * b
  <2>1. n \in Nat
    BY <1>2 DEF Byte
  <2>2. CASE ~FitsBuffer(side, n)
    <3>1. r = Reset
      BY <1>6, <2>2 DEF FeedByte
    <3> QED
      BY <1>3, <3>1, ResetIsTyped
  <2>3. CASE FitsBuffer(side, n)
    <3>1. r = [p EXCEPT !.len = n, !.state = IF n = 0 THEN "CRC" ELSE "PAYLOAD"]
      BY <1>6, <2>3 DEF FeedByte
    <3>2. n <= MaxLen(side)
      BY <2>3 DEF FitsBuffer
    <3> HIDE DEF n
    <3>3. /\ r \in [state : States, type : Byte, len : Nat, buf : Seq(Byte)]
          /\ r.buf = p.buf /\ r.len = n /\ r.state = IF n = 0 THEN "CRC" ELSE "PAYLOAD"
      BY <1>1, <1>2, <2>1, <3>1 DEF States
    <3>4. p.buf = <<>> /\ Len(p.buf) = 0
      BY <1>1, <1>6, EmptySeq
    <3> HIDE DEF r
    <3> QED
      BY <1>2, <1>3, <2>1, <3>2, <3>3, <3>4 DEF ParserTyped, r
  <2> QED
    BY <2>2, <2>3
<1>7. CASE p.state = "PAYLOAD"
  <2>1. r = [p EXCEPT !.buf = Append(p.buf, b),
                      !.state = IF Len(p.buf) + 1 >= p.len THEN "CRC" ELSE p.state]
    BY <1>7 DEF FeedByte
  <2>2. Append(p.buf, b) \in Seq(Byte) /\ Len(Append(p.buf, b)) = Len(p.buf) + 1
    BY <1>2, AppendProperties
  <2>3. /\ r \in [state : States, type : Byte, len : Nat, buf : Seq(Byte)]
        /\ r.buf = Append(p.buf, b) /\ r.len = p.len
        /\ r.state = IF Len(p.buf) + 1 >= p.len THEN "CRC" ELSE "PAYLOAD"
    BY <1>1, <1>2, <1>7, <2>1, <2>2 DEF States
  <2>4. Len(p.buf) < p.len /\ p.len <= MaxLen(side)
    BY <1>1, <1>7
  <2> HIDE DEF r
  <2>5. Len(r.buf) = Len(p.buf) + 1
    BY <2>2, <2>3
  <2> QED
    BY <1>2, <1>3, <2>3, <2>4, <2>5 DEF ParserTyped, r
<1>8. CASE p.state = "CRC"
  <2>1. r = Reset
    BY <1>8 DEF FeedByte
  <2> QED
    BY <1>3, <2>1, ResetIsTyped
<1> QED
  BY <1>2, <1>4, <1>5, <1>6, <1>7, <1>8 DEF States

(* A code begins with the first start byte.                                *)
LEMMA CodeUnfolds ==
  ASSUME NEW f \in Frames
  PROVE  /\ Start1 \in Byte /\ Start2 \in Byte /\ f.type \in Byte
         /\ Low(f) \in Byte /\ High(f) \in Byte
         /\ Body(f) \in Seq(Byte) /\ FromHigh(f) \in Seq(Byte) /\ FromLow(f) \in Seq(Byte)
         /\ FromType(f) \in Seq(Byte) /\ FromStart2(f) \in Seq(Byte)
         /\ Code[f] = Cons(Start1, FromStart2(f))
<1> DEFINE body == Body(f)
           low == Low(f)
           high == High(f)
           w == Header(f)
<1>1. /\ low \in Byte /\ high \in Byte /\ f.type \in Byte /\ body \in Seq(Byte)
      /\ Start1 \in Byte /\ Start2 \in Byte
  <2>1. Start1 \in Byte /\ Start2 \in Byte
    BY DEF Start1, Start2, Byte
  <2> QED
    BY <2>1, LengthBytes, FrameIs, CodeIs
<1>2. Code[f] = w \o body
  BY CodeIs
<1> HIDE DEF low, high, body
<1>3. /\ FromHigh(f) \in Seq(Byte) /\ FromLow(f) \in Seq(Byte)
      /\ FromType(f) \in Seq(Byte) /\ FromStart2(f) \in Seq(Byte)
  <2>1. FromHigh(f) \in Seq(Byte)
    BY <1>1, ConsIs, Zenon DEF FromHigh, high, body
  <2>2. FromLow(f) \in Seq(Byte)
    BY <1>1, <2>1, ConsIs, Zenon DEF FromLow, low
  <2>3. FromType(f) \in Seq(Byte)
    BY <1>1, <2>2, ConsIs, Zenon DEF FromType
  <2>4. FromStart2(f) \in Seq(Byte)
    BY <1>1, <2>3, ConsIs, Zenon DEF FromStart2
  <2> QED
    BY <2>1, <2>2, <2>3, <2>4
<1> DEFINE t2 == Tail(w)
           t3 == Tail(t2)
           t4 == Tail(t3)
           t5 == Tail(t4)
           t6 == Tail(t5)
<1>4. /\ w \in Seq(Byte) /\ Len(w) = 5 /\ w[1] = Start1 /\ w[2] = Start2
      /\ w[3] = f.type /\ w[4] = low /\ w[5] = high
  BY <1>1, FiveOf DEF Header, low, high
<1> HIDE DEF w
<1>5. /\ w \o body = Cons(Start1, t2 \o body) /\ t2 \in Seq(Byte) /\ Len(t2) = 4
      /\ t2[1] = Start2
      /\ t2[2] = f.type
      /\ t2[3] = low
      /\ t2[4] = high
  <2>1. /\ w \o body = Cons(w[1], t2 \o body)
        /\ t2 \in Seq(Byte) /\ Len(t2) = Len(w) - 1
        /\ \A i \in 1..(Len(w) - 1) : t2[i] = w[i + 1]
    <3>1. Len(w) >= 1 /\ w \in Seq(Byte)
      BY <1>4
    <3> QED
      BY <1>1, <3>1, OffTheFront, Zenon
  <2> HIDE DEF t2
  <2> QED
    BY <1>4, <2>1
<1> HIDE DEF t2
<1>6. /\ t2 \o body = Cons(Start2, t3 \o body) /\ t3 \in Seq(Byte) /\ Len(t3) = 3
      /\ t3[1] = f.type
      /\ t3[2] = low
      /\ t3[3] = high
  <2>1. /\ t2 \o body = Cons(t2[1], t3 \o body)
        /\ t3 \in Seq(Byte) /\ Len(t3) = Len(t2) - 1
        /\ \A i \in 1..(Len(t2) - 1) : t3[i] = t2[i + 1]
    <3>1. Len(t2) >= 1 /\ t2 \in Seq(Byte)
      BY <1>5
    <3> QED
      BY <1>1, <3>1, OffTheFront, Zenon
  <2> HIDE DEF t3
  <2> QED
    BY <1>5, <2>1
<1> HIDE DEF t3
<1>7. /\ t3 \o body = Cons(f.type, t4 \o body) /\ t4 \in Seq(Byte) /\ Len(t4) = 2
      /\ t4[1] = low
      /\ t4[2] = high
  <2>1. /\ t3 \o body = Cons(t3[1], t4 \o body)
        /\ t4 \in Seq(Byte) /\ Len(t4) = Len(t3) - 1
        /\ \A i \in 1..(Len(t3) - 1) : t4[i] = t3[i + 1]
    <3>1. Len(t3) >= 1 /\ t3 \in Seq(Byte)
      BY <1>6
    <3> QED
      BY <1>1, <3>1, OffTheFront, Zenon
  <2> HIDE DEF t4
  <2> QED
    BY <1>6, <2>1
<1> HIDE DEF t4
<1>8. /\ t4 \o body = Cons(low, t5 \o body) /\ t5 \in Seq(Byte) /\ Len(t5) = 1
      /\ t5[1] = high
  <2>1. /\ t4 \o body = Cons(t4[1], t5 \o body)
        /\ t5 \in Seq(Byte) /\ Len(t5) = Len(t4) - 1
        /\ \A i \in 1..(Len(t4) - 1) : t5[i] = t4[i + 1]
    <3>1. Len(t4) >= 1 /\ t4 \in Seq(Byte)
      BY <1>7
    <3> QED
      BY <1>1, <3>1, OffTheFront, Zenon
  <2> HIDE DEF t5
  <2> QED
    BY <1>7, <2>1
<1> HIDE DEF t5
<1>9. t5 \o body = Cons(high, body)
  <2>1. t5 \o body = Cons(t5[1], t6 \o body) /\ t6 \in Seq(Byte) /\ Len(t6) = Len(t5) - 1
    <3>1. Len(t5) >= 1 /\ t5 \in Seq(Byte)
      BY <1>8
    <3> QED
      BY <1>1, <3>1, OffTheFront, Zenon
  <2> HIDE DEF t6
  <2>2. t6 = <<>>
    BY <1>8, <2>1, EmptySeq
  <2>3. t6 \o body = body
    BY <1>1, <2>2, ConcatEmptySeq
  <2> QED
    BY <1>8, <2>1, <2>3
<1>10. Code[f] = Cons(Start1, FromStart2(f))
  BY <1>2, <1>5, <1>6, <1>7, <1>8, <1>9, Zenon
  DEF FromStart2, FromType, FromLow, FromHigh, low, high, body
<1> QED
  BY <1>1, <1>3, <1>10, Zenon DEF low, high, body

(* One byte in front of what is left, where a part and the codes behind it *)
(* are known.                                                              *)
LEMMA NextByte ==
  ASSUME NEW b \in Byte, NEW left \in Seq(Byte), NEW c \in Byte,
         NEW s \in Seq(Byte), NEW t \in Seq(Byte), Joins(Cons(b, left), Cons(c, s), t)
  PROVE  b = c /\ Joins(left, s, t)
<1> DEFINE u == s \o t
<1>1. u \in Seq(Byte) /\ Cons(c, s) \o t = Cons(c, u)
  BY ConsConcat, ConcatIsBytes, Zenon
<1> HIDE DEF u
<1>2. Head(Cons(b, left)) = b /\ Tail(Cons(b, left)) = left
  BY ConsIs, Zenon
<1>3. Head(Cons(c, u)) = c /\ Tail(Cons(c, u)) = u
  BY <1>1, ConsIs, Zenon
<1>4. Cons(b, left) = Cons(c, u)
  BY <1>1, Zenon DEF Joins
<1> QED
  BY <1>2, <1>3, <1>4, Zenon DEF Joins, u

(* Between two start bytes and the length.                                 *)
LEMMA HeaderInStep ==
  ASSUME NEW side, NEW p, ParserTyped(side, p), NEW q \in Seq(Frames), q # <<>>,
         NEW left \in Seq(Byte), NEW b \in Byte,
         p.state \in {"WAIT2", "TYPE", "LEN_LO"},
         InStep(p, Cons(b, left), q)
  PROVE  InStep(FeedByte(side, p, b), left, q)
<1> DEFINE f == Head(q)
           codes == Encoded(Tail(q))
           r == FeedByte(side, p, b)
<1>1. f \in Frames /\ codes \in Seq(Byte)
  BY EncodedFirst, EncodedIsBytes
<1>2. p \in [state : States, type : Byte, len : Nat, buf : Seq(Byte)]
  BY DEF ParserTyped
<1>3. PICK rest \in Seq(Byte) : Awaits(p, f, rest) /\ Joins(Cons(b, left), rest, codes)
  BY DEF InStep
<1> HIDE DEF codes, f
<1>4. /\ Start2 \in Byte /\ f.type \in Byte /\ Low(f) \in Byte
      /\ FromHigh(f) \in Seq(Byte) /\ FromLow(f) \in Seq(Byte) /\ FromType(f) \in Seq(Byte)
  BY <1>1, CodeUnfolds, Zenon
<1>5. ASSUME NEW s \in Seq(Byte), Joins(left, s, codes), Awaits(r, f, s), r.state # "WAIT1"
      PROVE  InStep(r, left, q)
  BY <1>5 DEF InStep, codes, f
<1>6. CASE p.state = "WAIT2"
  <2>1. Joins(Cons(b, left), Cons(Start2, FromType(f)), codes)
    BY <1>3, <1>6 DEF Awaits, FromStart2
  <2>2. b = Start2 /\ Joins(left, FromType(f), codes)
    BY <1>1, <1>4, <2>1, NextByte
  <2>3. r.state = "TYPE"
    BY <1>2, <1>6, <2>2 DEF FeedByte
  <2>4. Awaits(r, f, FromType(f))
    BY <2>3, Zenon DEF Awaits
  <2> QED
    BY <1>4, <1>5, <2>2, <2>3, <2>4
<1>7. CASE p.state = "TYPE"
  <2>1. Joins(Cons(b, left), Cons(f.type, FromLow(f)), codes)
    BY <1>3, <1>7 DEF Awaits, FromType
  <2>2. b = f.type /\ Joins(left, FromLow(f), codes)
    BY <1>1, <1>4, <2>1, NextByte
  <2>3. r.state = "LEN_LO" /\ r.type = f.type
    BY <1>2, <1>7, <2>2 DEF FeedByte
  <2>4. Awaits(r, f, FromLow(f))
    BY <2>3, Zenon DEF Awaits
  <2> QED
    BY <1>4, <1>5, <2>2, <2>3, <2>4
<1>8. CASE p.state = "LEN_LO"
  <2>1. Joins(Cons(b, left), Cons(Low(f), FromHigh(f)), codes) /\ p.type = f.type
    BY <1>3, <1>8 DEF Awaits, FromLow
  <2>2. b = Low(f) /\ Joins(left, FromHigh(f), codes)
    BY <1>1, <1>4, <2>1, NextByte
  <2>3. r.state = "LEN_HI" /\ r.type = f.type /\ r.len = Low(f)
    BY <1>2, <1>8, <2>1, <2>2 DEF FeedByte
  <2>4. Awaits(r, f, FromHigh(f))
    BY <2>3, Zenon DEF Awaits
  <2> QED
    BY <1>4, <1>5, <2>2, <2>3, <2>4
<1> QED
  BY <1>6, <1>7, <1>8

(* The length: a frame that fits is taken.                                 *)
LEMMA LengthInStep ==
  ASSUME NEW side, NEW p, ParserTyped(side, p), NEW q \in Seq(Frames), q # <<>>,
         Fits(side, q), NEW left \in Seq(Byte), NEW b \in Byte,
         p.state = "LEN_HI", InStep(p, Cons(b, left), q)
  PROVE  InStep(FeedByte(side, p, b), left, q)
<1> DEFINE f == Head(q)
           codes == Encoded(Tail(q))
           n == Len(f.payload)
           r == FeedByte(side, p, b)
           check == Check(f)
<1>1. f \in Frames /\ codes \in Seq(Byte)
  BY EncodedFirst, EncodedIsBytes
<1>2. /\ n \in Nat /\ High(f) \in Byte /\ Low(f) + 256 * High(f) = n
      /\ f.payload \in Seq(Byte) /\ Body(f) \in Seq(Byte)
  <2>1. f.payload \in Seq(Byte) /\ Body(f) \in Seq(Byte)
    BY <1>1, FrameIs, CodeIs, Zenon
  <2>2. High(f) \in Byte /\ Low(f) + 256 * High(f) = n
    BY <1>1, LengthBytes, Zenon
  <2> QED
    BY <2>1, <2>2, LenProperties
<1>3. p \in [state : States, type : Byte, len : Nat, buf : Seq(Byte)] /\ p.buf = <<>>
  BY DEF ParserTyped
<1>4. PICK rest \in Seq(Byte) : Awaits(p, f, rest) /\ Joins(Cons(b, left), rest, codes)
  BY DEF InStep
<1> HIDE DEF codes
<1>5. Joins(Cons(b, left), Cons(High(f), Body(f)), codes) /\ p.len = Low(f) /\ p.type = f.type
  BY <1>4 DEF Awaits, FromHigh
<1>6. b = High(f) /\ Joins(left, Body(f), codes)
  BY <1>1, <1>2, <1>5, NextByte
<1>7. p.len + 256 * b = n
  BY <1>2, <1>5, <1>6
<1>8. n <= MaxLen(side)
  <2>1. Len(q) \in Nat /\ Len(q) >= 1 /\ q[1] = f
    BY LenProperties, EmptySeq
  <2>2. 1 \in DOMAIN q
    BY <2>1, LenProperties
  <2> QED
    BY <2>1, <2>2 DEF Fits
<1>9. r = [p EXCEPT !.len = n, !.state = IF n = 0 THEN "CRC" ELSE "PAYLOAD"]
  <2> DEFINE m == p.len + 256 * b
  <2>1. FitsBuffer(side, m) /\ m = n
    BY <1>7, <1>8 DEF FitsBuffer
  <2>2. r = IF ~FitsBuffer(side, m) THEN Reset
            ELSE [p EXCEPT !.len = m, !.state = IF m = 0 THEN "CRC" ELSE "PAYLOAD"]
    BY DEF FeedByte
  <2> HIDE DEF m, n, r
  <2> QED
    BY <2>1, <2>2
<1>10. /\ r.type = f.type /\ r.len = n /\ r.buf = <<>>
       /\ r.state = IF n = 0 THEN "CRC" ELSE "PAYLOAD"
  <2> HIDE DEF n, r
  <2> QED
    BY <1>3, <1>5, <1>9
<1>11. Body(f) = f.payload \o check
  BY DEF Body
<1>12. check \in Seq(Byte) /\ <<>> \o f.payload = f.payload
  BY <1>2, CrcIsByte, ConcatEmptySeq DEF Check
<1>13. Awaits(r, f, Body(f))
  <2>1. CASE n = 0
    <3>1. f.payload = <<>> /\ r.state = "CRC"
      BY <1>2, <1>10, <2>1, EmptySeq
    <3>2. <<>> \o check = check
      BY <1>12, ConcatEmptySeq
    <3>3. Body(f) = check /\ r.buf = f.payload
      <4> HIDE DEF check, r
      <4> QED
        BY <1>10, <1>11, <3>1, <3>2
    <3> QED
      BY <1>10, <3>1, <3>3, Zenon DEF Awaits
  <2>2. CASE n # 0
    <3>1. r.state = "PAYLOAD" /\ r.len = Len(f.payload)
      BY <1>10, <2>2
    <3>2. f.payload = r.buf \o f.payload
      <4> HIDE DEF r
      <4> QED
        BY <1>10, <1>12
    <3> HIDE DEF r
    <3> QED
      BY <1>2, <1>10, <1>11, <3>1, <3>2, Zenon DEF Awaits
  <2> QED
    BY <2>1, <2>2
<1> QED
  BY <1>2, <1>6, <1>10, <1>13 DEF InStep, codes

LEMMA TakeOne ==
  ASSUME NEW b \in Byte, NEW s \in Seq(Byte), NEW t \in Seq(Byte)
  PROVE  Append(s, b) \in Seq(Byte) /\ Joins(s \o Cons(b, t), Append(s, b), t)
<1> DEFINE a == <<b>>
<1>1. a \in Seq(Byte) /\ Cons(b, t) = a \o t /\ Append(s, b) = s \o a
  BY AppendIsConcat DEF Cons
<1> HIDE DEF a
<1>2. (s \o a) \o t = s \o (a \o t)
  BY <1>1, Regroup
<1>3. s \o a \in Seq(Byte)
  BY <1>1, ConcatIsBytes
<1> QED
  BY <1>1, <1>2, <1>3, Zenon DEF Joins

LEMMA PayloadInStep ==
  ASSUME NEW side, NEW p, ParserTyped(side, p), NEW q \in Seq(Frames), q # <<>>,
         NEW left \in Seq(Byte), NEW b \in Byte,
         p.state = "PAYLOAD", InStep(p, Cons(b, left), q)
  PROVE  InStep(FeedByte(side, p, b), left, q)
<1> DEFINE f == Head(q)
           codes == Encoded(Tail(q))
           r == FeedByte(side, p, b)
           check == Check(f)
<1>1. f \in Frames /\ codes \in Seq(Byte)
  BY EncodedFirst, EncodedIsBytes
<1>2. f.payload \in Seq(Byte) /\ check \in Seq(Byte)
  BY <1>1, FrameIs, CrcIsByte DEF Check
<1>3. /\ p \in [state : States, type : Byte, len : Nat, buf : Seq(Byte)]
      /\ Len(p.buf) < p.len
  BY DEF ParserTyped
<1>4. PICK rest \in Seq(Byte) : Awaits(p, f, rest) /\ Joins(Cons(b, left), rest, codes)
  BY DEF InStep
<1> HIDE DEF codes
<1>5. p.type = f.type /\ p.len = Len(f.payload)
  BY <1>4 DEF Awaits
<1>6. PICK more \in Seq(Byte) : f.payload = p.buf \o more /\ rest = more \o check
  BY <1>4 DEF Awaits
<1> DEFINE s == Tail(more)
           c == Head(more)
           buf == Append(p.buf, b)
<1> HIDE DEF check
<1>7. more # <<>>
  <2>1. more = <<>> => p.buf \o more = p.buf
    BY <1>3, ConcatEmptySeq
  <2>2. more = <<>> => Len(f.payload) = Len(p.buf)
    BY <1>6, <2>1
  <2>3. Len(p.buf) \in Nat
    BY <1>3, LenProperties
  <2> QED
    BY <1>3, <1>5, <2>2, <2>3
<1>8. c \in Byte /\ s \in Seq(Byte) /\ more = Cons(c, s)
  BY <1>7, Parted, Zenon
<1> HIDE DEF c, s
<1>9. rest = Cons(c, s \o check) /\ s \o check \in Seq(Byte)
  <2>1. Cons(c, s) \o check = Cons(c, s \o check)
    <3>1. c \in Byte /\ s \in Seq(Byte) /\ check \in Seq(Byte)
      BY <1>2, <1>8
    <3> QED
      BY <3>1, ConsConcat
  <2>2. s \o check \in Seq(Byte)
    BY <1>2, <1>8, ConcatIsBytes
  <2> QED
    BY <1>6, <1>8, <2>1, <2>2, Zenon
<1>10. b = c /\ Joins(left, s \o check, codes)
  <2> DEFINE u == s \o check
  <2>1. u \in Seq(Byte) /\ Joins(Cons(b, left), Cons(c, u), codes)
    BY <1>4, <1>9
  <2> HIDE DEF u
  <2>2. b = c /\ Joins(left, u, codes)
    BY <1>1, <1>8, <2>1, NextByte
  <2> QED
    BY <2>2 DEF u
<1>11. buf \in Seq(Byte) /\ Len(buf) = Len(p.buf) + 1 /\ f.payload = buf \o s
  <2> DEFINE u == p.buf
  <2>1. u \in Seq(Byte) /\ b \in Byte /\ s \in Seq(Byte)
    BY <1>3, <1>8, <1>10
  <2>2. buf = Append(u, b) /\ Len(Append(u, b)) = Len(u) + 1
    BY <2>1, AppendProperties
  <2>3. f.payload = u \o Cons(b, s)
    BY <1>6, <1>8, <1>10, Zenon
  <2> HIDE DEF u, buf
  <2>4. Append(u, b) \in Seq(Byte) /\ Joins(u \o Cons(b, s), Append(u, b), s)
    BY <2>1, TakeOne
  <2> QED
    BY <2>2, <2>3, <2>4, Zenon DEF u, Joins
<1>12. Len(f.payload) = Len(buf) + Len(s) /\ Len(s) \in Nat /\ Len(p.buf) \in Nat
  <2> HIDE DEF buf
  <2>1. Len(buf \o s) = Len(buf) + Len(s)
    BY <1>8, <1>11, ConcatProperties
  <2> QED
    BY <1>3, <1>8, <1>11, <2>1, LenProperties
<1>13. r = [p EXCEPT !.buf = buf,
                     !.state = IF Len(p.buf) + 1 >= p.len THEN "CRC" ELSE p.state]
  BY DEF FeedByte
<1>14. /\ r.type = f.type /\ r.len = Len(f.payload) /\ r.buf = buf
       /\ r.state = IF Len(p.buf) + 1 >= p.len THEN "CRC" ELSE "PAYLOAD"
  <2> HIDE DEF buf, r
  <2> QED
    BY <1>3, <1>5, <1>13
<1> HIDE DEF buf, r
<1>15. Awaits(r, f, s \o check)
  <2>1. CASE Len(p.buf) + 1 >= p.len
    <3>1. Len(s) = 0
      BY <1>5, <1>11, <1>12, <2>1
    <3>2. s = <<>>
      BY <1>8, <3>1, EmptySeq
    <3>3. buf \o s = buf /\ s \o check = check
      BY <1>2, <1>11, <3>2, ConcatEmptySeq
    <3>4. r.buf = f.payload /\ r.state = "CRC" /\ s \o check = check
      BY <1>11, <1>14, <2>1, <3>3
    <3> QED
      BY <1>14, <3>4, Zenon DEF Awaits, check
  <2>2. CASE ~(Len(p.buf) + 1 >= p.len)
    <3>1. r.state = "PAYLOAD" /\ f.payload = r.buf \o s
      BY <1>11, <1>14, <2>2
    <3> QED
      BY <1>8, <1>14, <3>1, Zenon DEF Awaits, check
  <2> QED
    BY <2>1, <2>2
<1> DEFINE rest2 == s \o check
<1>16. r.state # "WAIT1" /\ rest2 \in Seq(Byte) /\ Awaits(r, f, rest2) /\ Joins(left, rest2, codes)
  BY <1>9, <1>10, <1>14, <1>15
<1> HIDE DEF rest2
<1> QED
  BY <1>16 DEF InStep, codes, r

(* A byte from a line in step: a frame comes out when, and only when, the  *)
(* next of the frames to come is complete, and it is that frame.           *)
LEMMA FeedInStep ==
  ASSUME NEW side, NEW p, ParserTyped(side, p), NEW q \in Seq(Frames), Fits(side, q),
         NEW left \in Seq(Byte), NEW b \in Byte, InStep(p, Cons(b, left), q)
  PROVE  /\ q # <<>>
         /\ Yields(p, b) => /\ FrameIn(p) = Head(q)
                            /\ InStep(FeedByte(side, p, b), left, Tail(q))
         /\ ~Yields(p, b) => InStep(FeedByte(side, p, b), left, q)
<1>1. q # <<>>
  <2> SUFFICES ASSUME q = <<>>
               PROVE  FALSE
    OBVIOUS
  <2>1. Cons(b, left) = <<>>
    BY EncodedNothing DEF InStep
  <2>2. Cons(b, left) # <<>>
    BY ConsIs, Zenon
  <2> QED
    BY <2>1, <2>2
<1> DEFINE f == Head(q)
           codes == Encoded(Tail(q))
           r == FeedByte(side, p, b)
<1>2. f \in Frames /\ codes \in Seq(Byte) /\ Encoded(q) = Code[f] \o codes
  BY <1>1, EncodedFirst, EncodedIsBytes
<1>3. p \in [state : States, type : Byte, len : Nat, buf : Seq(Byte)]
  BY DEF ParserTyped
<1> HIDE DEF codes
<1>4. CASE p.state = "WAIT1"
  <2> DEFINE s == FromStart2(f)
  <2>1. Code[f] = Cons(Start1, s) /\ s \in Seq(Byte) /\ Start1 \in Byte
    BY <1>2, CodeUnfolds, Zenon
  <2>2. Joins(Cons(b, left), Cons(Start1, s), codes)
    BY <1>2, <1>4, <2>1, Zenon DEF InStep, Joins
  <2>3. b = Start1 /\ Joins(left, s, codes)
    BY <1>2, <2>1, <2>2, NextByte
  <2>4. r.state = "WAIT2" /\ ~Yields(p, b)
    BY <1>3, <1>4, <2>3 DEF FeedByte, Yields
  <2>5. Awaits(r, f, s)
    BY <2>4, Zenon DEF Awaits
  <2>6. InStep(r, left, q)
    <3> HIDE DEF s
    <3> QED
      BY <1>1, <2>1, <2>3, <2>4, <2>5 DEF InStep, codes
  <2> QED
    BY <1>1, <2>4, <2>6
<1>5. CASE p.state \in {"WAIT2", "TYPE", "LEN_LO", "LEN_HI", "PAYLOAD"}
  <2>1. ~Yields(p, b)
    BY <1>5 DEF Yields
  <2>2. InStep(r, left, q)
    BY <1>1, <1>5, HeaderInStep, LengthInStep, PayloadInStep
  <2> QED
    BY <1>1, <2>1, <2>2
<1>6. CASE p.state = "CRC"
  <2>1. PICK rest \in Seq(Byte) : Awaits(p, f, rest) /\ Joins(Cons(b, left), rest, codes)
    BY <1>6 DEF InStep, codes
  <2>2. p.type = f.type /\ p.buf = f.payload /\ rest = Check(f)
    BY <1>6, <2>1 DEF Awaits
  <2>3. Crc8(f.payload) \in Byte
    BY <1>2, FrameIs, CrcIsByte
  <2>4. b = Crc8(f.payload) /\ left = codes
    <3> DEFINE c == Crc8(f.payload)
    <3>1. c \in Byte /\ Cons(b, left) = Cons(c, codes)
      BY <2>1, <2>2, <2>3, Zenon DEF Cons, Check, Joins
    <3> HIDE DEF c
    <3>2. b = c /\ left = codes
      BY <1>2, <3>1, ConsCancel
    <3> QED
      BY <3>2 DEF c
  <2>5. Yields(p, b)
    BY <1>6, <2>2, <2>4 DEF Yields
  <2>6. FrameIn(p) = f
    BY <1>2, <2>2, FrameIs DEF FrameIn
  <2>7. r = Reset
    BY <1>6 DEF FeedByte
  <2>8. InStep(r, left, Tail(q))
    BY <2>4, <2>7, ResetIsTyped DEF InStep, codes
  <2> QED
    BY <1>1, <2>5, <2>6, <2>8
<1> QED
  BY <1>3, <1>4, <1>5, <1>6 DEF States
-----------------------------------------------------------------------------
(* What is left to be fed.                                                 *)

(* The bytes that the writer with the lock has yet to write.               *)
Owed(u) ==
  LET busy == {w \in Writers : u[w] # <<>>}
  IN  IF busy = {} THEN <<>> ELSE u[CHOOSE w \in busy : TRUE]

LeftOf(c, w, u) == (c \o w) \o Owed(u)

LEMMA LeftIs ==
  /\ Left = LeftOf(chunk, wire, unsent)
  /\ Left' = LeftOf(chunk', wire', unsent')
BY DEF Left, LeftOf, Owed

LEMMA OwedIs ==
  ASSUME NEW u \in [Writers -> Seq(Byte)]
  PROVE  /\ Owed(u) \in Seq(Byte)
         /\ (\A w \in Writers : u[w] = <<>>) => Owed(u) = <<>>
         /\ \A v \in Writers :
              (\A w \in Writers \ {v} : u[w] = <<>>) => Owed(u) = u[v]
<1> DEFINE busy == {w \in Writers : u[w] # <<>>}
<1>1. Owed(u) = IF busy = {} THEN <<>> ELSE u[CHOOSE w \in busy : TRUE]
  BY DEF Owed
<1>2. busy # {} => (CHOOSE w \in busy : TRUE) \in busy
  OBVIOUS
<1>3. Owed(u) \in Seq(Byte)
  BY <1>1, <1>2, EmptySeq
<1>4. (\A w \in Writers : u[w] = <<>>) => Owed(u) = <<>>
  BY <1>1
<1>5. ASSUME NEW v \in Writers, \A w \in Writers \ {v} : u[w] = <<>>
      PROVE  Owed(u) = u[v]
  <2>1. busy = {} => u[v] = <<>>
    OBVIOUS
  <2>2. busy \subseteq {v}
    BY <1>5
  <2> HIDE DEF busy
  <2> QED
    BY <1>1, <1>2, <2>1, <2>2
<1> QED
  BY <1>3, <1>4, <1>5

(* Bytes that are written come last, whatever part of them is on the wire. *)
Grows(c, w, s, o) == (c \o (w \o s)) \o o = ((c \o w) \o <<>>) \o (s \o o)

LEMMA LeftGrows ==
  ASSUME NEW c \in Seq(Byte), NEW w \in Seq(Byte), NEW s \in Seq(Byte), NEW o \in Seq(Byte)
  PROVE  Grows(c, w, s, o)
<1> DEFINE cw == c \o w
<1>1. cw \in Seq(Byte)
  BY ConcatIsBytes
<1>2. c \o (w \o s) = cw \o s
  BY Regroup
<1> HIDE DEF cw
<1>3. cw \o <<>> = cw
  BY <1>1, ConcatEmptySeq
<1>4. (cw \o s) \o o = cw \o (s \o o)
  BY <1>1, Regroup
<1> QED
  BY <1>2, <1>3, <1>4, Zenon DEF cw, Grows

LEMMA LeftMoves ==
  ASSUME NEW c \in Seq(Byte), NEW w \in Seq(Byte),
         NEW u \in [Writers -> Seq(Byte)], NEW v \in [Writers -> Seq(Byte)], Owed(v) = <<>>
  PROVE  LeftOf(c, w \o Owed(u), v) = LeftOf(c, w, u)
<1> DEFINE o == Owed(u)
           cw == c \o w
           x == cw \o o
<1>1. o \in Seq(Byte) /\ cw \in Seq(Byte)
  BY OwedIs, ConcatIsBytes
<1>2. LeftOf(c, w, u) = cw \o o
  BY DEF LeftOf
<1> HIDE DEF o
<1>3. c \o (w \o o) = cw \o o
  BY <1>1, Regroup
<1>4. LeftOf(c, w \o o, v) = x \o <<>>
  BY <1>3, Zenon DEF LeftOf
<1> HIDE DEF cw
<1>5. x \in Seq(Byte)
  BY <1>1, ConcatIsBytes
<1> HIDE DEF x
<1>6. x \o <<>> = x
  BY <1>5, ConcatEmptySeq
<1> QED
  BY <1>2, <1>4, <1>6, Zenon DEF x, o

LEMMA LeftShrinks ==
  ASSUME NEW b \in Byte, NEW c \in Seq(Byte), NEW w \in Seq(Byte),
         NEW u \in [Writers -> Seq(Byte)]
  PROVE  LeftOf(Cons(b, c), w, u) = Cons(b, LeftOf(c, w, u)) /\ LeftOf(c, w, u) \in Seq(Byte)
<1> DEFINE o == Owed(u)
           cw == c \o w
<1>1. o \in Seq(Byte) /\ cw \in Seq(Byte)
  BY OwedIs, ConcatIsBytes
<1>2. Cons(b, c) \o w = Cons(b, cw)
  BY ConsConcat
<1>3. LeftOf(Cons(b, c), w, u) = Cons(b, cw) \o o /\ LeftOf(c, w, u) = cw \o o
  BY <1>2, Zenon DEF LeftOf
<1> HIDE DEF o, cw
<1>4. Cons(b, cw) \o o = Cons(b, cw \o o)
  BY <1>1, ConsConcat
<1>5. cw \o o \in Seq(Byte)
  BY <1>1, ConcatIsBytes
<1> QED
  BY <1>3, <1>4, <1>5, Zenon

(* A frame more is written while the line is in step.                      *)
LEMMA InStepAppend ==
  ASSUME NEW p, NEW left \in Seq(Byte), NEW q \in Seq(Frames), NEW f \in Frames,
         InStep(p, left, q)
  PROVE  InStep(p, left \o Code[f], Append(q, f))
<1> DEFINE code == Code[f]
           r == Append(q, f)
<1>1. code \in Seq(Byte)
  BY CodeIs
<1>2. r \in Seq(Frames) /\ Encoded(r) = Encoded(q) \o code
  BY EncodedAppend
<1>3. CASE p.state = "WAIT1"
  BY <1>2, <1>3 DEF InStep
<1>4. CASE p.state # "WAIT1"
  <2> DEFINE codes == Encoded(Tail(q))
             more == Encoded(Tail(r))
  <2>1. q # <<>>
    BY <1>4 DEF InStep
  <2>2. PICK rest \in Seq(Byte) : Awaits(p, Head(q), rest) /\ Joins(left, rest, codes)
    BY <1>4 DEF InStep
  <2>3. Head(r) = Head(q) /\ Tail(r) = Append(Tail(q), f) /\ r # <<>>
    BY <2>1, HeadTailAppend, AppendProperties
  <2>4. Tail(q) \in Seq(Frames) /\ codes \in Seq(Byte)
    BY <2>1, EncodedFirst, EncodedIsBytes
  <2>5. more = codes \o code
    <3>1. Encoded(Append(Tail(q), f)) = codes \o code
      BY <2>4, EncodedAppend
    <3> QED
      BY <2>3, <3>1, Zenon
  <2> HIDE DEF code, codes, more, r
  <2>6. (rest \o codes) \o code = rest \o (codes \o code)
    BY <1>1, <2>4, Regroup
  <2>7. Joins(left \o code, rest, more)
    BY <2>2, <2>5, <2>6, Zenon DEF Joins
  <2> QED
    BY <1>4, <2>2, <2>3, <2>7 DEF InStep, code, more, r
<1> QED
  BY <1>3, <1>4
-----------------------------------------------------------------------------
(* The line.                                                               *)

(* Of the writers one at most has a part of its frame yet to write.        *)
OneWriter == \A u, w \in Writers : unsent[u] # <<>> /\ unsent[w] # <<>> => u = w

LineTyped ==
  /\ receiver \in {"pi", "bridge"} /\ whole \in BOOLEAN
  /\ unsent \in [Writers -> Seq(Byte)] /\ wire \in Seq(Byte) /\ chunk \in Seq(Byte)
  /\ ParserTyped(receiver, parser)
  /\ sent \in Seq(Frames) /\ queue \in Seq(Frames) /\ got \in Seq(Frame)
  /\ faults \in 0..MaxFaults /\ stall \in Int

(* What is to come fits the receiver's buffer; a parser that is in step    *)
(* stands where the bytes that are left take it on through those frames.   *)
Line ==
  /\ LineTyped /\ OneWriter /\ Fits(receiver, queue)
  /\ whole => InStep(parser, Left, queue)

LEMMA LineAtStart == Init => Line
<1> SUFFICES ASSUME Init
             PROVE  Line
  OBVIOUS
<1>1. <<>> \in Seq(Byte) /\ <<>> \in Seq(Frames) /\ <<>> \in Seq(Frame)
  BY EmptySeq
<1>2. ParserTyped(receiver, parser) /\ parser.state = "WAIT1"
  BY ResetIsTyped DEF Init
<1>3. LineTyped /\ OneWriter
  BY <1>1, <1>2, Limits DEF Init, LineTyped, OneWriter
<1>4. Fits(receiver, queue)
  BY DEF Init, Fits
<1>5. Left = <<>>
  <2>1. Owed(unsent) = <<>>
    <3>1. unsent \in [Writers -> Seq(Byte)] /\ \A w \in Writers : unsent[w] = <<>>
      BY <1>1 DEF Init
    <3> QED
      BY <3>1, OwedIs
  <2>2. <<>> \o <<>> = <<>>
    BY <1>1, ConcatEmptySeq
  <2>3. chunk = <<>> /\ wire = <<>>
    BY DEF Init
  <2> QED
    BY <2>1, <2>2, <2>3, LeftIs, Zenon DEF LeftOf
<1>6. InStep(parser, Left, queue)
  BY <1>2, <1>5, EncodedNothing DEF Init, InStep
<1> QED
  BY <1>3, <1>4, <1>6 DEF Line

LEMMA SuffixFits ==
  ASSUME NEW side, NEW q \in Seq(Frames), Fits(side, q), NEW s \in Channel!Suffixes(q)
  PROVE  s \in Seq(Frames) /\ Fits(side, s)
<1>1. PICK k \in 1..(Len(q) + 1) : s = SubSeq(q, k, Len(q))
  BY DEF Channel!Suffixes
<1>2. s \in Seq(Frames) /\ \A i \in DOMAIN s : \E j \in DOMAIN q : s[i] = q[j]
  BY <1>1, SuffixIs
<1>3. Fits(side, s)
  BY <1>2 DEF Fits
<1> QED
  BY <1>2, <1>3

LEMMA WholeIsSuffix ==
  ASSUME NEW q \in Seq(Frames)
  PROVE  q \in Channel!Suffixes(q)
<1>1. 1 \in 1..(Len(q) + 1) /\ q = SubSeq(q, 1, Len(q))
  BY LenProperties, SubSeqFull
<1> QED
  BY <1>1 DEF Channel!Suffixes

(* A line in step stays so, one out of step is so again only when it is.   *)
LEMMA Judged ==
  ASSUME NEW q \in Seq(Frames), Fits(receiver, q), NEW intact \in BOOLEAN, Judge(q, intact),
         intact => InStep(parser', Left', q)
  PROVE  /\ whole' \in BOOLEAN /\ queue' \in Channel!Suffixes(q)
         /\ queue' \in Seq(Frames) /\ Fits(receiver, queue')
         /\ whole' => InStep(parser', Left', queue')
         /\ intact => whole' /\ queue' = q
<1> DEFINE suffixes == {SubSeq(q, k, Len(q)) : k \in 1..(Len(q) + 1)}
           aligned  == {s \in suffixes : parser'.state = "WAIT1" /\ Left' = Encoded(s)}
<1>1. /\ whole' = (intact \/ aligned # {})
      /\ queue' = IF intact \/ aligned = {} THEN q ELSE CHOOSE s \in aligned : TRUE
  BY DEF Judge
<1>2. suffixes = Channel!Suffixes(q)
  BY DEF Channel!Suffixes
<1>3. CASE intact
  <2>1. whole' = TRUE /\ queue' = q
    BY <1>1, <1>3
  <2> QED
    BY <1>3, <2>1, WholeIsSuffix
<1>4. CASE ~intact /\ aligned = {}
  <2>1. whole' = FALSE /\ queue' = q
    BY <1>1, <1>4
  <2> QED
    BY <1>4, <2>1, WholeIsSuffix
<1>5. CASE ~intact /\ aligned # {}
  <2>1. whole' = TRUE /\ queue' \in aligned
    <3> HIDE DEF aligned
    <3> QED
      BY <1>1, <1>5
  <2>2. queue' \in Channel!Suffixes(q) /\ parser'.state = "WAIT1" /\ Left' = Encoded(queue')
    BY <1>2, <2>1
  <2>3. InStep(parser', Left', queue')
    BY <2>2 DEF InStep
  <2> QED
    BY <1>5, <2>1, <2>2, <2>3, SuffixFits
<1> QED
  BY <1>3, <1>4, <1>5

LEMMA BeginWriteKeeps ==
  ASSUME Line, NEW w \in Writers, NEW f \in Frames, NEW n \in Nat, BeginWrite(w, f, n)
  PROVE  /\ Line' /\ [Channel!Next]_Channel!vars
         /\ Left' = Left \o Code[f] /\ Left \in Seq(Byte)
<1> DEFINE bytes == Code[f]
           pre == SubSeq(bytes, 1, n)
           post == SubSeq(bytes, n + 1, Len(bytes))
           q == Append(queue, f)
<1>1. LineTyped /\ OneWriter /\ Fits(receiver, queue) /\ (whole => InStep(parser, Left, queue))
  BY DEF Line
<1>2. /\ \A u \in Writers : unsent[u] = <<>>
      /\ n <= Len(bytes) /\ receiver \in {"pi", "bridge"}
      /\ receiver = "bridge" => Len(f.payload) <= BridgeMax
      /\ wire' = wire \o pre /\ unsent' = [unsent EXCEPT ![w] = post]
      /\ sent' = Append(sent, f)
      /\ UNCHANGED <<receiver, chunk, parser, got, faults, stall>>
      /\ Judge(q, whole)
  BY <1>1 DEF BeginWrite, LockFree, LineTyped
<1>3. bytes \in Seq(Byte)
  BY CodeIs
<1> HIDE DEF bytes
<1>4. pre \in Seq(Byte) /\ post \in Seq(Byte) /\ pre \o post = bytes
  BY <1>2, <1>3, SplitAt
<1> HIDE DEF pre, post
<1>5. /\ unsent' \in [Writers -> Seq(Byte)] /\ unsent'[w] = post
      /\ \A u \in Writers \ {w} : unsent'[u] = <<>>
  BY <1>1, <1>2, <1>4 DEF LineTyped
<1>6. Owed(unsent) = <<>> /\ Owed(unsent') = post
  <2>1. unsent \in [Writers -> Seq(Byte)]
    BY <1>1 DEF LineTyped
  <2> QED
    BY <1>2, <1>5, <2>1, OwedIs
<1>7. Left' = Left \o bytes /\ Left \in Seq(Byte)
  <2>1. /\ chunk \in Seq(Byte) /\ wire \in Seq(Byte) /\ unsent \in [Writers -> Seq(Byte)]
        /\ chunk' = chunk /\ wire' = wire \o pre
    BY <1>1, <1>2 DEF LineTyped
  <2>2. LeftOf(chunk, wire \o pre, unsent') = LeftOf(chunk, wire, unsent) \o (pre \o post)
    <3> DEFINE v == unsent'
    <3>1. /\ chunk \in Seq(Byte) /\ wire \in Seq(Byte) /\ pre \in Seq(Byte) /\ post \in Seq(Byte)
          /\ Owed(unsent) = <<>> /\ Owed(v) = post
      BY <1>4, <1>6, <2>1
    <3>2. Grows(chunk, wire, pre, post)
      BY <3>1, LeftGrows
    <3> HIDE DEF v
    <3>3. LeftOf(chunk, wire \o pre, v) = LeftOf(chunk, wire, unsent) \o (pre \o post)
      BY <3>1, <3>2, Zenon DEF LeftOf, Grows
    <3> QED
      BY <3>3 DEF v
  <2>3. Left \in Seq(Byte)
    BY <2>1, LeftIs, OwedIs, ConcatIsBytes DEF LeftOf
  <2> QED
    BY <1>4, <2>1, <2>2, <2>3, LeftIs, Zenon
<1>8. q \in Seq(Frames) /\ sent' \in Seq(Frames)
  BY <1>1, <1>2, AppendProperties DEF LineTyped
<1>9. Fits(receiver, q)
  <2>1. Len(f.payload) <= MaxLen(receiver)
    BY <1>2, LinkAssumption DEF MaxLen
  <2>2. queue \in Seq(Frames)
    BY <1>1 DEF LineTyped
  <2>3. /\ Len(queue) \in Nat /\ DOMAIN queue = 1..Len(queue) /\ DOMAIN q = 1..(Len(queue) + 1)
        /\ \A i \in 1..Len(queue) : q[i] = queue[i]
        /\ q[Len(queue) + 1] = f
    BY <1>8, <2>2, AppendProperties, LenProperties
  <2> HIDE DEF q
  <2>4. \A i \in DOMAIN q : i \in DOMAIN queue \/ i = Len(queue) + 1
    BY <2>3
  <2> QED
    BY <1>1, <2>1, <2>3, <2>4 DEF Fits
<1>10. whole => InStep(parser', Left', q)
  <2>1. ASSUME whole
        PROVE  InStep(parser, Left \o bytes, q)
    <3>1. queue \in Seq(Frames) /\ InStep(parser, Left, queue)
      BY <1>1, <2>1 DEF LineTyped
    <3> QED
      BY <1>7, <3>1, InStepAppend DEF bytes
  <2> QED
    BY <1>2, <1>7, <2>1
<1>11. whole \in BOOLEAN
  BY <1>1 DEF LineTyped
<1>12. /\ whole' \in BOOLEAN /\ queue' \in Channel!Suffixes(q)
       /\ queue' \in Seq(Frames) /\ Fits(receiver, queue')
       /\ whole' => InStep(parser', Left', queue')
       /\ whole => whole' /\ queue' = q
  <2> HIDE DEF q
  <2> QED
    BY <1>2, <1>8, <1>9, <1>10, <1>11, Judged
<1>13. Line'
  <2>1. wire' \in Seq(Byte)
    BY <1>1, <1>2, <1>4, ConcatIsBytes DEF LineTyped
  <2>2. LineTyped'
    BY <1>1, <1>2, <1>5, <1>8, <1>12, <2>1 DEF LineTyped
  <2>3. OneWriter'
    BY <1>5 DEF OneWriter
  <2> QED
    BY <1>2, <1>12, <2>2, <2>3 DEF Line
<1>14. [Channel!Next]_Channel!vars
  <2>1. CASE whole
    <3>1. Channel!Send(f)
      BY <1>2, <1>11, <1>12, <2>1 DEF Channel!Send
    <3> QED
      BY <3>1 DEF Channel!Next
  <2>2. CASE ~whole
    <3>1. Channel!OutOfStep
      BY <1>2, <1>12, <2>2 DEF Channel!OutOfStep
    <3> QED
      BY <3>1 DEF Channel!Next
  <2> QED
    BY <2>1, <2>2
<1> QED
  BY <1>7, <1>13, <1>14 DEF bytes

(* Bytes that move along the line change nothing.                          *)
LEMMA MovingKeeps ==
  ASSUME Line, Left' = Left, unsent' \in [Writers -> Seq(Byte)], OneWriter',
         wire' \in Seq(Byte), chunk' \in Seq(Byte),
         UNCHANGED <<receiver, parser, sent, queue, got, whole, faults, stall>>
  PROVE  Line' /\ [Channel!Next]_Channel!vars
<1>1. LineTyped'
  BY DEF Line, LineTyped
<1>2. Line'
  BY <1>1 DEF Line
<1>3. UNCHANGED Channel!vars
  BY DEF Channel!vars
<1> QED
  BY <1>2, <1>3

LEMMA FinishWriteKeeps ==
  ASSUME Line, NEW w \in Writers, FinishWrite(w)
  PROVE  Line' /\ [Channel!Next]_Channel!vars /\ Left' = Left
<1>1. /\ unsent \in [Writers -> Seq(Byte)] /\ wire \in Seq(Byte) /\ chunk \in Seq(Byte)
      /\ OneWriter
  BY DEF Line, LineTyped
<1>2. /\ unsent[w] # <<>> /\ wire' = wire \o unsent[w]
      /\ unsent' = [unsent EXCEPT ![w] = <<>>]
      /\ UNCHANGED <<receiver, chunk, parser, sent, queue, got, whole, faults, stall>>
  BY DEF FinishWrite
<1>3. \A u \in Writers \ {w} : unsent[u] = <<>>
  BY <1>1, <1>2 DEF OneWriter
<1>4. unsent' \in [Writers -> Seq(Byte)] /\ \A u \in Writers : unsent'[u] = <<>>
  BY <1>1, <1>2, <1>3, EmptySeq
<1>5. Owed(unsent) = unsent[w] /\ Owed(unsent') = <<>>
  BY <1>1, <1>3, <1>4, OwedIs
<1>6. Left' = Left
  <2>1. LeftOf(chunk, wire \o Owed(unsent), unsent') = LeftOf(chunk, wire, unsent)
    BY <1>1, <1>4, <1>5, LeftMoves
  <2> QED
    BY <1>2, <1>5, <2>1, LeftIs, Zenon
<1>7. wire' \in Seq(Byte) /\ chunk' \in Seq(Byte)
  BY <1>1, <1>2, ConcatIsBytes
<1>8. OneWriter'
  BY <1>4 DEF OneWriter
<1> QED
  BY <1>2, <1>4, <1>6, <1>7, <1>8, MovingKeeps

LEMMA ReadKeeps ==
  ASSUME Line, NEW n \in 1..Len(wire), Read(n)
  PROVE  Line' /\ [Channel!Next]_Channel!vars /\ Left' = Left
<1>1. /\ unsent \in [Writers -> Seq(Byte)] /\ wire \in Seq(Byte) /\ chunk \in Seq(Byte)
      /\ OneWriter
  BY DEF Line, LineTyped
<1> DEFINE pre == SubSeq(wire, 1, n)
           post == SubSeq(wire, n + 1, Len(wire))
<1>2. /\ chunk = <<>> /\ chunk' = pre /\ wire' = post
      /\ UNCHANGED <<receiver, unsent, parser, sent, queue, got, whole, faults, stall>>
  BY DEF Read
<1>3. n \in Nat /\ n <= Len(wire)
  BY <1>1, LenProperties
<1>4. pre \in Seq(Byte) /\ post \in Seq(Byte) /\ pre \o post = wire
  BY <1>1, <1>3, SplitAt
<1> HIDE DEF pre, post
<1>5. <<>> \o wire = wire
  BY <1>1, ConcatEmptySeq
<1>6. Left' = Left
  BY <1>2, <1>4, <1>5, LeftIs, Zenon DEF LeftOf
<1>7. OneWriter'
  BY <1>1, <1>2 DEF OneWriter
<1> QED
  BY <1>1, <1>2, <1>4, <1>6, <1>7, MovingKeeps
LEMMA SuffixOfTail ==
  ASSUME NEW q \in Seq(Frames), q # <<>>
  PROVE  Tail(q) \in Channel!Suffixes(q)
<1>1. Tail(q) = SubSeq(q, 2, Len(q))
  BY TailIsSubSeq
<1>2. 2 \in 1..(Len(q) + 1)
  <2>1. Len(q) \in Nat /\ Len(q) # 0
    BY LenProperties, EmptySeq
  <2> QED
    BY <2>1
<1> QED
  BY <1>1, <1>2 DEF Channel!Suffixes

LEMMA AppendKeepsPrefix ==
  ASSUME NEW S, NEW s \in Seq(S), NEW x \in S
  PROVE  /\ Append(s, x) \in Seq(S) /\ Len(Append(s, x)) = Len(s) + 1
         /\ SubSeq(Append(s, x), 1, Len(s)) = s
<1> DEFINE t == Append(s, x)
           n == Len(s)
<1>1. /\ n \in Nat /\ t \in Seq(S) /\ Len(t) = n + 1
      /\ \A i \in 1..n : t[i] = s[i] /\ s[i] \in S
  BY AppendProperties, LenProperties
<1> HIDE DEF t
<1>2. /\ SubSeq(t, 1, n) \in Seq(S) /\ Len(SubSeq(t, 1, n)) = n
      /\ \A i \in 1..n : SubSeq(t, 1, n)[i] = t[i]
  <2>1. 1 \in Int /\ n \in Int /\ \A i \in 1..n : t[i] \in S
    BY <1>1
  <2>2. /\ SubSeq(t, 1, n) \in Seq(S) /\ Len(SubSeq(t, 1, n)) = IF 1 <= n THEN n - 1 + 1 ELSE 0
        /\ \A i \in 1..(n - 1 + 1) : SubSeq(t, 1, n)[i] = t[1 + i - 1]
    BY <2>1, SubSeqProperties
  <2>3. n - 1 + 1 = n /\ \A i \in 1..n : 1 + i - 1 = i
    BY <1>1
  <2>4. Len(SubSeq(t, 1, n)) = n
    BY <1>1, <2>2
  <2> QED
    BY <2>2, <2>3, <2>4
<1>3. SubSeq(t, 1, n) = s
  <2> DEFINE u == SubSeq(t, 1, n)
  <2>1. u \in Seq(S) /\ Len(u) = Len(s) /\ \A i \in 1..Len(s) : u[i] = s[i]
    BY <1>1, <1>2
  <2> HIDE DEF u
  <2>2. u = s
    <3>1. Len(u) = Len(s) /\ \A i \in 1..Len(u) : u[i] = s[i]
      BY <2>1
    <3> QED
      BY <2>1, <3>1, SeqEqual
  <2> QED
    BY <2>2 DEF u
<1> QED
  BY <1>1, <1>3 DEF t

LEMMA FeedKeeps ==
  ASSUME Line, Feed
  PROVE  /\ Line' /\ [Channel!Next]_Channel!vars
         /\ Head(chunk) \in Byte /\ Left = Cons(Head(chunk), Left') /\ Left' \in Seq(Byte)
<1> DEFINE b == Head(chunk)
           c == Tail(chunk)
           done == Yields(parser, b)
           q == IF done /\ whole /\ queue # <<>> THEN Tail(queue) ELSE queue
<1>1. /\ LineTyped /\ OneWriter /\ Fits(receiver, queue) /\ (whole => InStep(parser, Left, queue))
      /\ unsent \in [Writers -> Seq(Byte)] /\ wire \in Seq(Byte) /\ chunk \in Seq(Byte)
      /\ ParserTyped(receiver, parser) /\ queue \in Seq(Frames) /\ got \in Seq(Frame)
      /\ whole \in BOOLEAN /\ stall \in Int
  BY DEF Line, LineTyped
<1>2. /\ chunk # <<>> /\ chunk' = c /\ parser' = FeedByte(receiver, parser, b)
      /\ got' = IF done THEN Append(got, FrameIn(parser)) ELSE got
      /\ UNCHANGED <<receiver, unsent, wire, sent, faults>>
      /\ Judge(q, whole)
      /\ stall' = IF whole' THEN 0 ELSE stall + 1
  BY DEF Feed
<1>3. b \in Byte /\ c \in Seq(Byte) /\ chunk = Cons(b, c)
  BY <1>1, <1>2, Parted, Zenon
<1> HIDE DEF b, c
<1>4. ParserTyped(receiver, parser') /\ FrameIn(parser) \in Frame
  BY <1>1, <1>2, <1>3, FeedIsTyped
<1>5. Left = Cons(b, Left') /\ Left' \in Seq(Byte)
  <2>1. /\ LeftOf(Cons(b, c), wire, unsent) = Cons(b, LeftOf(c, wire, unsent))
        /\ LeftOf(c, wire, unsent) \in Seq(Byte)
    BY <1>1, <1>3, LeftShrinks
  <2> QED
    BY <1>2, <1>3, <2>1, LeftIs, Zenon
<1>6. ASSUME whole
      PROVE  /\ queue # <<>>
             /\ done => FrameIn(parser) = Head(queue) /\ InStep(parser', Left', Tail(queue))
             /\ ~done => InStep(parser', Left', queue)
  <2> DEFINE left == Left'
  <2>1. InStep(parser, Cons(b, left), queue) /\ left \in Seq(Byte)
    BY <1>1, <1>5, <1>6
  <2> HIDE DEF left
  <2>2. /\ queue # <<>>
        /\ Yields(parser, b) => /\ FrameIn(parser) = Head(queue)
                                /\ InStep(FeedByte(receiver, parser, b), left, Tail(queue))
        /\ ~Yields(parser, b) => InStep(FeedByte(receiver, parser, b), left, queue)
    BY <1>1, <1>3, <2>1, FeedInStep
  <2> QED
    BY <1>2, <2>2 DEF left
<1>7. q \in Seq(Frames) /\ Fits(receiver, q) /\ (~whole => q = queue)
      /\ (whole /\ done => q = Tail(queue)) /\ (~done => q = queue)
  <2>1. CASE q = queue
    BY <1>1, <1>6, <2>1
  <2>2. CASE q # queue
    <3>1. done /\ whole /\ queue # <<>> /\ q = Tail(queue)
      BY <2>2
    <3>2. q \in Channel!Suffixes(queue)
      BY <1>1, <3>1, SuffixOfTail
    <3> HIDE DEF q
    <3> QED
      BY <1>1, <3>1, <3>2, SuffixFits
  <2> QED
    BY <2>1, <2>2
<1> HIDE DEF q
<1>8. whole => InStep(parser', Left', q)
  BY <1>6, <1>7
<1>9. /\ whole' \in BOOLEAN /\ queue' \in Channel!Suffixes(q)
      /\ queue' \in Seq(Frames) /\ Fits(receiver, queue')
      /\ whole' => InStep(parser', Left', queue')
      /\ whole => whole' /\ queue' = q
  BY <1>1, <1>2, <1>7, <1>8, Judged
<1>10. /\ got' \in Seq(Frame)
       /\ got' = got \/ (Len(got') = Len(got) + 1 /\ SubSeq(got', 1, Len(got)) = got)
  BY <1>1, <1>2, <1>4, AppendKeepsPrefix
<1>11. Line'
  <2>1. stall' \in Int
    BY <1>1, <1>2
  <2>2. LineTyped'
    BY <1>1, <1>2, <1>3, <1>4, <1>9, <1>10, <2>1 DEF LineTyped
  <2>3. OneWriter'
    BY <1>1, <1>2 DEF OneWriter
  <2> QED
    BY <1>2, <1>9, <2>2, <2>3 DEF Line
<1>12. [Channel!Next]_Channel!vars
  <2>1. CASE whole /\ done
    <3>1. Channel!Deliver
      BY <1>1, <1>2, <1>6, <1>7, <1>9, <2>1 DEF Channel!Deliver
    <3> QED
      BY <3>1 DEF Channel!Next
  <2>2. CASE whole /\ ~done
    BY <1>1, <1>2, <1>7, <1>9, <2>2 DEF Channel!vars
  <2>3. CASE ~whole
    <3>1. Channel!OutOfStep
      BY <1>2, <1>7, <1>9, <1>10, <2>3 DEF Channel!OutOfStep
    <3> QED
      BY <3>1 DEF Channel!Next
  <2> QED
    BY <2>1, <2>2, <2>3
<1> QED
  BY <1>3, <1>5, <1>11, <1>12 DEF b

(* A fault is one of the channel's, whatever bytes it takes away.          *)
LEMMA DamageKeeps ==
  ASSUME Line, NEW n \in Int, Damage(n), OneWriter',
         unsent' \in [Writers -> Seq(Byte)], wire' \in Seq(Byte), chunk' \in Seq(Byte),
         ParserTyped(receiver, parser')
  PROVE  Line' /\ [Channel!Next]_Channel!vars
<1>1. /\ LineTyped /\ Fits(receiver, queue)
      /\ queue \in Seq(Frames) /\ faults \in 0..MaxFaults /\ stall \in Int
  BY DEF Line, LineTyped
<1>2. /\ faults < MaxFaults /\ faults' = faults + 1
      /\ stall' = IF stall < -n THEN stall ELSE -n
      /\ UNCHANGED <<receiver, sent, got>>
      /\ Judge(queue, FALSE)
  BY DEF Damage
<1>3. /\ whole' \in BOOLEAN /\ queue' \in Channel!Suffixes(queue)
      /\ queue' \in Seq(Frames) /\ Fits(receiver, queue')
      /\ whole' => InStep(parser', Left', queue')
  <2>1. FALSE \in BOOLEAN /\ (FALSE => InStep(parser', Left', queue))
    OBVIOUS
  <2> QED
    BY <1>1, <1>2, <2>1, Judged
<1>4. faults' \in 0..MaxFaults /\ stall' \in Int
  BY <1>1, <1>2, Limits
<1>5. Line'
  <2>1. LineTyped'
    BY <1>1, <1>2, <1>3, <1>4 DEF LineTyped
  <2> QED
    BY <1>2, <1>3, <2>1 DEF Line
<1>6. Channel!Fault
  BY <1>2, <1>3 DEF Channel!Fault
<1> QED
  BY <1>5, <1>6 DEF Channel!Next

LEMMA FaultsKeep ==
  ASSUME Line,
         HandlerRaises \/ Restart \/ (\E i \in DOMAIN wire : LoseByte(i))
           \/ (\E w \in Writers : WriteFails(w))
  PROVE  Line' /\ [Channel!Next]_Channel!vars
<1>1. /\ unsent \in [Writers -> Seq(Byte)] /\ wire \in Seq(Byte) /\ chunk \in Seq(Byte)
      /\ ParserTyped(receiver, parser) /\ OneWriter /\ <<>> \in Seq(Byte)
      /\ Len(chunk) \in Nat /\ Len(wire) \in Nat /\ DOMAIN wire = 1..Len(wire)
  BY EmptySeq, LenProperties DEF Line, LineTyped
<1>2. CASE HandlerRaises
  <2>1. Damage(0) /\ chunk' = <<>> /\ UNCHANGED <<unsent, wire, parser>>
    BY <1>2 DEF HandlerRaises
  <2>2. OneWriter'
    BY <1>1, <2>1 DEF OneWriter
  <2> QED
    BY <1>1, <2>1, <2>2, DamageKeeps
<1>3. CASE Restart
  <2>1. Damage(0) /\ parser' = Reset /\ chunk' = <<>> /\ UNCHANGED <<unsent, wire>>
    BY <1>3 DEF Restart
  <2>2. OneWriter' /\ ParserTyped(receiver, parser')
    BY <1>1, <2>1, ResetIsTyped DEF OneWriter
  <2> QED
    BY <1>1, <2>1, <2>2, DamageKeeps
<1>4. ASSUME NEW i \in DOMAIN wire, LoseByte(i)
      PROVE  Line' /\ [Channel!Next]_Channel!vars
  <2>1. wire' = RemoveAt(wire, i) /\ UNCHANGED <<unsent, chunk, parser>> /\ Damage(Len(chunk) + i - 1)
    BY <1>4 DEF LoseByte
  <2>2. i \in Nat /\ i - 1 \in Nat /\ i - 1 <= Len(wire) /\ i <= Len(wire) /\ Len(chunk) + i - 1 \in Int
    BY <1>1
  <2>3. SubSeq(wire, 1, i - 1) \in Seq(Byte) /\ SubSeq(wire, i + 1, Len(wire)) \in Seq(Byte)
    BY <1>1, <2>2, SplitAt
  <2>4. wire' \in Seq(Byte)
    BY <2>1, <2>3, ConcatIsBytes DEF RemoveAt
  <2>5. OneWriter'
    BY <1>1, <2>1 DEF OneWriter
  <2> QED
    BY <1>1, <2>1, <2>2, <2>4, <2>5, DamageKeeps
<1>5. ASSUME NEW w \in Writers, WriteFails(w)
      PROVE  Line' /\ [Channel!Next]_Channel!vars
  <2>1. /\ unsent' = [unsent EXCEPT ![w] = <<>>] /\ UNCHANGED <<wire, chunk, parser>>
        /\ Damage(Len(chunk) + Len(wire)) /\ Len(chunk) + Len(wire) \in Int
    BY <1>1, <1>5 DEF WriteFails
  <2>2. /\ unsent' \in [Writers -> Seq(Byte)]
        /\ \A u \in Writers : unsent'[u] # <<>> => unsent[u] # <<>>
    BY <1>1, <2>1
  <2>3. OneWriter'
    BY <1>1, <2>2 DEF OneWriter
  <2> QED
    BY <1>1, <2>1, <2>2, <2>3, DamageKeeps
<1> QED
  BY <1>2, <1>3, <1>4, <1>5

LEMMA NextKeeps ==
  ASSUME Line, [Next]_vars
  PROVE  Line' /\ [Channel!Next]_Channel!vars
<1>1. ASSUME NEW w \in Writers, NEW f \in Frames, NEW n \in Cuts \cup {Len(Code[f])},
             BeginWrite(w, f, n)
      PROVE  Line' /\ [Channel!Next]_Channel!vars
  <2>1. n \in Nat
    BY Limits, CodeIs, LenProperties
  <2> QED
    BY <1>1, <2>1, BeginWriteKeeps
<1>2. ASSUME NEW n \in 1..Len(wire), Read(n)
      PROVE  Line' /\ [Channel!Next]_Channel!vars
  BY <1>2, ReadKeeps
<1>3. ASSUME NEW w \in Writers, FinishWrite(w)
      PROVE  Line' /\ [Channel!Next]_Channel!vars
  BY <1>3, FinishWriteKeeps
<1>4. CASE UNCHANGED vars
  <2>1. UNCHANGED <<receiver, unsent, wire, chunk, parser, sent, queue, got, whole, faults, stall>>
    BY <1>4 DEF vars
  <2>2. OneWriter'
    BY <2>1 DEF OneWriter, Line
  <2>3. Left' = Left
    BY <2>1, LeftIs, Zenon
  <2>4. unsent' \in [Writers -> Seq(Byte)] /\ wire' \in Seq(Byte) /\ chunk' \in Seq(Byte)
    BY <2>1 DEF Line, LineTyped
  <2> QED
    BY <2>1, <2>2, <2>3, <2>4, MovingKeeps
<1>5. CASE Feed
  BY <1>5, FeedKeeps
<1>6. CASE HandlerRaises \/ Restart \/ (\E i \in DOMAIN wire : LoseByte(i))
             \/ (\E w \in Writers : WriteFails(w))
  BY <1>6, FaultsKeep
<1> QED
  BY <1>1, <1>2, <1>3, <1>4, <1>5, <1>6, Zenon DEF Next

-----------------------------------------------------------------------------
(* Every variable has its type, and no frame, whatever its length bytes    *)
(* say, takes the parser past its buffer (FrameParser, processSerialByte). *)
THEOREM TypeCorrect == Spec => []TypeOK
<1>1. ASSUME Line
      PROVE  TypeOK
  <2>1. /\ LineTyped /\ ParserTyped(receiver, parser)
        /\ parser.state \in States /\ parser.type \in Byte
        /\ parser.len \in Nat /\ parser.buf \in Seq(Byte)
    BY <1>1 DEF Line, LineTyped, ParserTyped
  <2>2. Len(parser.buf) <= MaxLen(receiver)
    <3>1. Len(parser.buf) \in Nat /\ MaxLen(receiver) \in Nat
      BY <2>1, LenProperties, MaxLenIsNat
    <3>2. parser.buf = <<>> => Len(parser.buf) = 0
      BY EmptySeq
    <3> QED
      BY <2>1, <3>1, <3>2 DEF ParserTyped
  <2>3. \A s \in {wire, chunk, parser.buf} \cup {unsent[w] : w \in Writers} : s \in Seq(Byte)
    BY <2>1 DEF LineTyped
  <2> QED
    BY <2>1, <2>2, <2>3 DEF LineTyped, TypeOK
<1> QED
  BY <1>1, LineAtStart, NextKeeps, PTL DEF Spec

(* The serial line takes only steps of a channel: between faults each      *)
(* frame that is handled is the next of those written, unaltered, and      *)
(* frames are only skipped while a fault has the parser out of step        *)
(* (_serial_write, _rx_loop, FrameParser, processSerialByte).              *)
THEOREM LineIsChannel == Spec => Channel!Safety
<1>1. Init => Channel!Init
  BY DEF Init, Channel!Init
<1> QED
  BY <1>1, LineAtStart, NextKeeps, PTL DEF Spec, Channel!Safety
-----------------------------------------------------------------------------
(* How long a parser stays out of step.                                    *)

(* What is behind the first n bytes.                                       *)
After(s, n) == SubSeq(s, n + 1, Len(s))

Span(side) == 6 + MaxLen(side)

IsPlain(f) == \A k \in 2..Len(Code[f]) : Code[f][k] # Start1

AllPlain(q) == \A i \in DOMAIN q : IsPlain(q[i])

(* Bytes in which the parser finds no frame.                               *)
Startless(side, r) ==
  r \in Seq(Byte) /\ Len(r) < Span(side) /\ \A i \in 1..Len(r) : r[i] # Start1

(* After them only frames to come are left.                                *)
Ends(side, left, q, r, k) ==
  /\ Startless(side, r) /\ k \in 1..(Len(q) + 1)
  /\ Joins(left, r, Encoded(SubSeq(q, k, Len(q))))

InFrames(side, left, q) == \E r, k : Ends(side, left, q, r, k)

(* The most bytes that end what the parser takes for a frame.              *)
Remaining(side, p) ==
  CASE p.state = "WAIT2"   -> 5 + MaxLen(side)
    [] p.state = "TYPE"    -> 4 + MaxLen(side)
    [] p.state = "LEN_LO"  -> 3 + MaxLen(side)
    [] p.state = "LEN_HI"  -> 2 + MaxLen(side)
    [] p.state = "PAYLOAD" -> (p.len - Len(p.buf)) + 1
    [] OTHER               -> 1

(* n bytes behind the damage there are few enough to come.                 *)
Within(side, p, r, n) ==
  /\ p.state = "WAIT1" => n + Len(r) <= 2 * Span(side)
  /\ p.state # "WAIT1" => n + Remaining(side, p) <= Span(side) + 1
  /\ p.state = "WAIT2" /\ r = <<>> => n + Remaining(side, p) <= Span(side)

Ahead(n) == IF n < 0 THEN -n ELSE 0

Behind(side, left, p, q, n) ==
  \E r, k : Ends(side, After(left, Ahead(n)), q, r, k) /\ Within(side, p, r, n)

(* The parser waits for a frame, and whole frames are left.                *)
Aligned(p, left, q) == p.state = "WAIT1" /\ \E s \in Channel!Suffixes(q) : left = Encoded(s)

LEMMA AfterIs ==
  ASSUME NEW s \in Seq(Byte), NEW n \in Nat
  PROVE  /\ After(s, n) \in Seq(Byte)
         /\ After(s, 0) = s
         /\ n >= Len(s) => After(s, n) = <<>>
         /\ n < Len(s) => s[n + 1] \in Byte /\ After(s, n) = Cons(s[n + 1], After(s, n + 1))
<1>1. Len(s) \in Nat /\ \A i \in 1..Len(s) : s[i] \in Byte
  BY LenProperties
<1>2. After(s, n) \in Seq(Byte)
  <2>1. n + 1 \in Int /\ Len(s) \in Int /\ \A i \in (n + 1)..Len(s) : s[i] \in Byte
    BY <1>1
  <2> QED
    BY <2>1, SubSeqProperties DEF After
<1>3. After(s, 0) = s
  BY SubSeqFull DEF After
<1>4. ASSUME n >= Len(s)
      PROVE  After(s, n) = <<>>
  <2>1. n + 1 \in Int /\ Len(s) \in Int /\ Len(s) < n + 1
    BY <1>1, <1>4
  <2> QED
    BY <2>1, SubSeqEmpty DEF After
<1>5. ASSUME n < Len(s)
      PROVE  s[n + 1] \in Byte /\ After(s, n) = Cons(s[n + 1], After(s, n + 1))
  <2>1. n + 1 \in 1..Len(s) /\ Len(s) \in (n + 1)..Len(s)
    BY <1>1, <1>5
  <2>2. SubSeq(s, n + 1, Len(s)) = <<s[n + 1]>> \o SubSeq(s, (n + 1) + 1, Len(s))
    BY <2>1, SubSeqRecursiveFirst
  <2> QED
    BY <1>1, <2>1, <2>2 DEF After, Cons
<1> QED
  BY <1>2, <1>3, <1>4, <1>5

(* What is behind one byte.                                                *)
LEMMA AfterFirst ==
  ASSUME NEW b \in Byte, NEW s \in Seq(Byte), NEW n \in Nat
  PROVE  After(Cons(b, s), n + 1) = After(s, n)
<1> DEFINE w == Cons(b, s)
<1>1. w \in Seq(Byte) /\ w # <<>> /\ Tail(w) = s
  BY ConsIs, Zenon
<1> HIDE DEF w
<1>2. Len(w) \in Nat /\ Len(s) = Len(w) - 1 /\ Len(s) \in Nat
      /\ \A i \in 1..Len(s) : s[i] = w[i + 1]
  BY <1>1, HeadTailProperties, LenProperties
<1> DEFINE x == After(w, n + 1)
           y == After(s, n)
<1>3. x \in Seq(Byte) /\ y \in Seq(Byte)
  <2>1. n + 1 \in Nat
    OBVIOUS
  <2> QED
    BY <1>1, <2>1, AfterIs
<1>4. /\ Len(x) = IF n + 2 <= Len(w) THEN Len(w) - (n + 2) + 1 ELSE 0
      /\ \A i \in 1..(Len(w) - (n + 2) + 1) : x[i] = w[(n + 2) + i - 1]
  <2>1. n + 2 \in Int /\ Len(w) \in Int /\ \A i \in (n + 2)..Len(w) : w[i] \in Byte
    BY <1>1, <1>2, LenProperties
  <2>2. x = SubSeq(w, n + 2, Len(w))
    BY DEF After
  <2> HIDE DEF x
  <2> QED
    BY <2>1, <2>2, SubSeqProperties
<1>5. /\ Len(y) = IF n + 1 <= Len(s) THEN Len(s) - (n + 1) + 1 ELSE 0
      /\ \A i \in 1..(Len(s) - (n + 1) + 1) : y[i] = s[(n + 1) + i - 1]
  <2>1. n + 1 \in Int /\ Len(s) \in Int /\ \A i \in (n + 1)..Len(s) : s[i] \in Byte
    BY <1>2, LenProperties
  <2>2. y = SubSeq(s, n + 1, Len(s))
    BY DEF After
  <2> HIDE DEF y
  <2> QED
    BY <2>1, <2>2, SubSeqProperties
<1> HIDE DEF x, y
<1>6. Len(x) = Len(y)
  BY <1>2, <1>4, <1>5
<1>7. ASSUME NEW i \in 1..Len(x)
      PROVE  x[i] = y[i]
  <2>1. i \in 1..(Len(w) - (n + 2) + 1) /\ i \in 1..(Len(s) - (n + 1) + 1)
    BY <1>2, <1>4
  <2>2. x[i] = w[(n + 2) + i - 1] /\ y[i] = s[(n + 1) + i - 1]
    BY <1>4, <1>5, <2>1
  <2>3. (n + 1) + i - 1 \in 1..Len(s) /\ ((n + 1) + i - 1) + 1 = (n + 2) + i - 1
    BY <1>2, <2>1
  <2> QED
    BY <1>2, <2>2, <2>3
<1> QED
  BY <1>3, <1>6, <1>7, SeqEqual DEF x, y, w

(* A part at the end of startless bytes is startless.                      *)
LEMMA StartlessEnd ==
  ASSUME NEW side, NEW u \in Seq(Byte), NEW v \in Seq(Byte), Startless(side, u \o v)
  PROVE  Startless(side, v)
<1> DEFINE w == u \o v
<1>1. /\ Len(u) \in Nat /\ Len(v) \in Nat /\ Len(w) = Len(u) + Len(v)
      /\ \A i \in 1..Len(w) : w[i] = IF i <= Len(u) THEN u[i] ELSE v[i - Len(u)]
  BY ConcatProperties, LenProperties
<1>2. Len(w) < Span(side) /\ \A i \in 1..Len(w) : w[i] # Start1
  BY DEF Startless
<1> HIDE DEF w
<1>3. Span(side) \in Nat
  BY MaxLenIsNat DEF Span
<1>4. ASSUME NEW i \in 1..Len(v)
      PROVE  v[i] # Start1
  <2>1. Len(u) + i \in 1..Len(w) /\ ~ (Len(u) + i <= Len(u)) /\ (Len(u) + i) - Len(u) = i
    BY <1>1
  <2> QED
    BY <1>1, <1>2, <2>1
<1> QED
  BY <1>1, <1>2, <1>3, <1>4 DEF Startless

LEMMA StartlessTail ==
  ASSUME NEW side, NEW a \in Byte, NEW v \in Seq(Byte), Startless(side, Cons(a, v))
  PROVE  Startless(side, v) /\ a # Start1 /\ Len(Cons(a, v)) = Len(v) + 1
<1> DEFINE u == <<a>>
           w == Cons(a, v)
<1>1. u \in Seq(Byte) /\ w = u \o v
  BY DEF Cons
<1>2. Startless(side, v)
  <2>1. Startless(side, u \o v)
    BY <1>1
  <2> HIDE DEF u
  <2> QED
    BY <1>1, <2>1, StartlessEnd
<1>3. w \in Seq(Byte) /\ w # <<>> /\ Head(w) = a /\ Tail(w) = v
  BY ConsIs, Zenon
<1>4. Startless(side, w)
  OBVIOUS
<1> HIDE DEF w
<1>5. Len(w) \in Nat /\ Len(w) >= 1 /\ w[1] = a /\ Len(v) = Len(w) - 1
  BY <1>3, HeadTailProperties, LenProperties, EmptySeq
<1>6. a # Start1
  BY <1>4, <1>5 DEF Startless
<1> QED
  BY <1>2, <1>5, <1>6 DEF w

(* A plain frame behind its first byte.                                    *)
LEMMA PlainRest ==
  ASSUME NEW side, NEW f \in Frames, IsPlain(f), Len(f.payload) <= MaxLen(side)
  PROVE  Startless(side, FromStart2(f)) /\ FromStart2(f) # <<>>
<1> DEFINE c == Code[f]
           r == FromStart2(f)
<1>1. /\ c = Cons(Start1, r) /\ r \in Seq(Byte) /\ Start1 \in Byte /\ Start2 \in Byte
      /\ r = Cons(Start2, FromType(f)) /\ FromType(f) \in Seq(Byte)
  BY CodeUnfolds, Zenon DEF FromStart2
<1>2. Len(c) = 6 + Len(f.payload)
  <2> DEFINE h == Header(f)
             b == Body(f)
             d == f.payload
             e == Check(f)
  <2>1. /\ c = h \o b /\ h \in Seq(Byte) /\ b \in Seq(Byte) /\ b = d \o e
        /\ d \in Seq(Byte)
    BY CodeIs, FrameIs DEF Body
  <2>2. e \in Seq(Byte) /\ Len(e) = 1 /\ Len(h) = 5
    BY FrameIs, CrcIsByte DEF Check, Header
  <2> HIDE DEF c, h, b, d, e
  <2>3. Len(b) = Len(d) + Len(e) /\ Len(c) = Len(h) + Len(b) /\ Len(d) \in Nat
    BY <2>1, <2>2, ConcatProperties, LenProperties
  <2>4. Len(c) = 6 + Len(d)
    BY <2>2, <2>3
  <2> QED
    BY <2>4 DEF d
<1>3. \A i \in 2..Len(c) : c[i] # Start1
  BY DEF IsPlain
<1> HIDE DEF c, r
<1>4. Tail(c) = r /\ c \in Seq(Byte) /\ c # <<>> /\ r # <<>>
  <2>1. Cons(Start2, FromType(f)) # <<>>
    BY <1>1, ConsIs, Zenon
  <2>2. Start1 \in Byte /\ r \in Seq(Byte)
    BY <1>1, Zenon
  <2>3. Cons(Start1, r) \in Seq(Byte) /\ Cons(Start1, r) # <<>> /\ Tail(Cons(Start1, r)) = r
    BY <2>2, ConsIs, Zenon
  <2> QED
    BY <1>1, <2>1, <2>3, Zenon
<1>5. Len(r) = Len(c) - 1 /\ Len(r) \in Nat /\ \A i \in 1..Len(r) : r[i] = c[i + 1]
  BY <1>4, HeadTailProperties, LenProperties
<1>6. ASSUME NEW i \in 1..Len(r)
      PROVE  r[i] # Start1
  <2>1. i + 1 \in 2..Len(c)
    BY <1>5
  <2> QED
    BY <1>3, <1>5, <2>1
<1>7. Len(r) < Span(side)
  <2>1. Len(f.payload) \in Nat /\ MaxLen(side) \in Nat
    BY FrameIs, LenProperties, MaxLenIsNat
  <2> QED
    BY <1>2, <1>5, <2>1 DEF Span
<1> QED
  BY <1>1, <1>4, <1>6, <1>7 DEF Startless, r

(* What is to come of a plain frame that the parser has a part of.         *)
LEMMA AwaitedIsStartless ==
  ASSUME NEW side, NEW p, ParserTyped(side, p), p.state # "WAIT1", NEW f \in Frames,
         IsPlain(f), Len(f.payload) <= MaxLen(side), NEW rest \in Seq(Byte), Awaits(p, f, rest)
  PROVE  Startless(side, rest)
<1>1. /\ Start2 \in Byte /\ f.type \in Byte /\ Low(f) \in Byte /\ High(f) \in Byte
      /\ Body(f) \in Seq(Byte) /\ FromHigh(f) \in Seq(Byte) /\ FromLow(f) \in Seq(Byte)
      /\ FromType(f) \in Seq(Byte)
  BY CodeUnfolds, Zenon
<1>2. Startless(side, FromStart2(f))
  BY PlainRest
<1>3. Startless(side, FromType(f))
  BY <1>1, <1>2, StartlessTail, Zenon DEF FromStart2
<1>4. Startless(side, FromLow(f))
  BY <1>1, <1>3, StartlessTail, Zenon DEF FromType
<1>5. Startless(side, FromHigh(f))
  BY <1>1, <1>4, StartlessTail, Zenon DEF FromLow
<1>6. Startless(side, Body(f))
  BY <1>1, <1>5, StartlessTail, Zenon DEF FromHigh
<1>7. f.payload \in Seq(Byte) /\ Check(f) \in Seq(Byte)
  BY FrameIs, CrcIsByte DEF Check
<1>8. CASE p.state = "PAYLOAD"
  <2>1. PICK more \in Seq(Byte) : f.payload = p.buf \o more /\ rest = more \o Check(f)
    BY <1>8 DEF Awaits
  <2> DEFINE u == p.buf
             e == Check(f)
  <2>2. u \in Seq(Byte) /\ e \in Seq(Byte) /\ Body(f) = (u \o more) \o e /\ rest = more \o e
    BY <1>7, <2>1 DEF ParserTyped, Body
  <2> HIDE DEF u, e
  <2>3. Body(f) = u \o rest
    BY <2>2, Regroup
  <2> QED
    BY <1>6, <2>2, <2>3, StartlessEnd
<1>9. CASE p.state = "CRC"
  <2>1. rest = Check(f) /\ Body(f) = f.payload \o rest
    BY <1>9 DEF Awaits, Body
  <2> QED
    BY <1>6, <1>7, <2>1, StartlessEnd
<1>10. p.state \in States
  BY DEF ParserTyped
<1> QED
  BY <1>2, <1>3, <1>4, <1>5, <1>8, <1>9, <1>10 DEF Awaits, States

LEMMA NoFrames ==
  ASSUME NEW q \in Seq(Frames)
  PROVE  /\ Len(q) \in Nat /\ Len(q) + 1 \in 1..(Len(q) + 1)
         /\ SubSeq(q, Len(q) + 1, Len(q)) = <<>>
<1>1. Len(q) \in Nat
  BY LenProperties
<1>2. Len(q) + 1 \in Int /\ Len(q) \in Int /\ Len(q) < Len(q) + 1
  BY <1>1
<1> QED
  BY <1>1, <1>2, SubSeqEmpty

LEMMA NoBytes ==
  ASSUME NEW side
  PROVE  /\ Startless(side, <<>>) /\ <<>> \in Seq(Byte) /\ Len(<<>>) = 0
         /\ \A t \in Seq(Byte) : <<>> \o t = t
<1>1. <<>> \in Seq(Byte) /\ Len(<<>>) = 0
  BY EmptySeq
<1>2. Span(side) \in Nat /\ Span(side) >= 6
  BY MaxLenIsNat DEF Span
<1>3. \A i \in 1..Len(<<>>) : <<>>[i] # Start1
  BY <1>1
<1>4. Startless(side, <<>>)
  BY <1>1, <1>2, <1>3 DEF Startless
<1> QED
  BY <1>1, <1>4, ConcatEmptySeq

(* Nothing left is the end of all.                                         *)
LEMMA NothingLeft ==
  ASSUME NEW side, NEW q \in Seq(Frames)
  PROVE  Ends(side, <<>>, q, <<>>, Len(q) + 1)
<1>1. Encoded(SubSeq(q, Len(q) + 1, Len(q))) = <<>>
  BY NoFrames, EncodedNothing
<1>2. <<>> \o <<>> = <<>>
  BY NoBytes
<1>3. Joins(<<>>, <<>>, Encoded(SubSeq(q, Len(q) + 1, Len(q))))
  BY <1>1, <1>2, Zenon DEF Joins
<1> QED
  BY <1>3, NoFrames, NoBytes DEF Ends

(* Of the bytes left one is taken.                                         *)
LEMMA OneTaken ==
  ASSUME NEW side, NEW q \in Seq(Frames), Fits(side, q), AllPlain(q),
         NEW b \in Byte, NEW left \in Seq(Byte), NEW r, NEW k,
         Ends(side, Cons(b, left), q, r, k)
  PROVE  \E s, l : /\ Ends(side, left, q, s, l)
                   /\ r # <<>> => b # Start1 /\ Len(r) = Len(s) + 1
                   /\ r = <<>> => b = Start1 /\ s # <<>>
<1> DEFINE t == SubSeq(q, k, Len(q))
<1>1. Startless(side, r) /\ k \in 1..(Len(q) + 1) /\ Joins(Cons(b, left), r, Encoded(t))
      /\ r \in Seq(Byte)
  BY DEF Ends, Startless
<1>2. t \in Seq(Frames) /\ Encoded(t) \in Seq(Byte)
  BY <1>1, SuffixIs, EncodedIsBytes
<1>3. CASE r # <<>>
  <2> DEFINE codes == Encoded(t)
             a == Head(r)
             s == Tail(r)
  <2>1. a \in Byte /\ s \in Seq(Byte) /\ r = Cons(a, s)
    BY <1>1, <1>3, Parted, Zenon
  <2>2. Startless(side, s) /\ a # Start1 /\ Len(r) = Len(s) + 1
    <3> HIDE DEF a, s
    <3> QED
      BY <1>1, <2>1, StartlessTail, Zenon
  <2>3. b = a /\ Joins(left, s, codes)
    <3>1. Joins(Cons(b, left), Cons(a, s), codes) /\ codes \in Seq(Byte)
      BY <1>1, <1>2, <2>1, Zenon
    <3> HIDE DEF a, s, codes
    <3> QED
      BY <2>1, <3>1, NextByte, Zenon
  <2>4. Ends(side, left, q, s, k)
    BY <1>1, <2>2, <2>3 DEF Ends
  <2> HIDE DEF a, s
  <2> QED
    BY <1>3, <2>2, <2>3, <2>4
<1>4. CASE r = <<>>
  <2>1. Encoded(t) = Cons(b, left)
    BY <1>1, <1>2, <1>4, NoBytes DEF Joins
  <2>2. t # <<>>
    <3>1. Cons(b, left) # <<>>
      BY ConsIs, Zenon
    <3> HIDE DEF t
    <3> QED
      BY <2>1, <3>1, EncodedNothing
  <2> DEFINE f == Head(t)
             s == FromStart2(f)
             codes == Encoded(Tail(t))
  <2>3. f \in Frames /\ Tail(t) \in Seq(Frames) /\ Encoded(t) = Code[f] \o codes
        /\ codes \in Seq(Byte)
    <3> HIDE DEF t
    <3> QED
      BY <1>2, <2>2, EncodedFirst, EncodedIsBytes
  <2>4. k \in 1..Len(q) /\ Len(q) \in Nat
    <3>1. Len(q) \in Nat
      BY LenProperties
    <3>2. k # Len(q) + 1
      BY <2>2, NoFrames
    <3> QED
      BY <1>1, <3>1, <3>2
  <2>5. f = q[k] /\ Tail(t) = SubSeq(q, k + 1, Len(q))
    <3>1. Len(q) \in k..Len(q)
      BY <2>4
    <3> QED
      BY <2>4, <3>1, HeadTailOfSubSeq
  <2>6. IsPlain(f) /\ Len(f.payload) <= MaxLen(side)
    <3>1. k \in DOMAIN q
      BY <2>4, LenProperties
    <3> HIDE DEF f
    <3> QED
      BY <2>5, <3>1 DEF Fits, AllPlain
  <2> HIDE DEF f, t
  <2>7. Startless(side, s) /\ s # <<>> /\ s \in Seq(Byte) /\ Start1 \in Byte
        /\ Code[f] = Cons(Start1, s)
    BY <2>3, <2>6, PlainRest, CodeUnfolds, Zenon
  <2> HIDE DEF s, codes
  <2>8. b = Start1 /\ Joins(left, s, codes)
    <3>1. Joins(Cons(b, left), Cons(Start1, s), codes)
      BY <2>1, <2>3, <2>7, Zenon DEF Joins
    <3> QED
      BY <2>3, <2>7, <3>1, NextByte, Zenon
  <2>9. k + 1 \in 1..(Len(q) + 1)
    BY <2>4
  <2>10. Ends(side, left, q, s, k + 1)
    BY <2>5, <2>7, <2>8, <2>9, Zenon DEF Ends, codes
  <2> QED
    BY <1>4, <2>7, <2>8, <2>10, Zenon
<1> QED
  BY <1>3, <1>4

(* However many bytes are lost from the front, frames to come are left.    *)
LEMMA ManyTaken ==
  ASSUME NEW side, NEW q \in Seq(Frames), Fits(side, q), AllPlain(q),
         NEW left \in Seq(Byte), NEW n \in Nat, NEW m \in Nat, n <= m,
         InFrames(side, After(left, n), q)
  PROVE  InFrames(side, After(left, m), q)
<1> DEFINE d == m - n
           Holds == {i \in 0..d : InFrames(side, After(left, n + i), q)}
<1>1. d \in Nat /\ 0 \in Holds
  <2>1. n + 0 = n /\ d \in Nat
    OBVIOUS
  <2> QED
    BY <2>1
<1>2. ASSUME NEW i \in 0..(d - 1), i \in Holds
      PROVE  i + 1 \in Holds
  <2> DEFINE x == After(left, n + i)
             y == After(left, n + (i + 1))
  <2>1. /\ n + i \in Nat /\ n + (i + 1) \in Nat /\ n + (i + 1) = (n + i) + 1
        /\ i + 1 \in 0..d /\ Len(left) \in Nat
    BY <1>1, LenProperties
  <2>2. x \in Seq(Byte) /\ y \in Seq(Byte)
    BY <2>1, AfterIs
  <2>3. InFrames(side, x, q)
    BY <1>2
  <2>4. CASE n + i >= Len(left)
    <3>1. y = <<>>
      BY <2>1, <2>4, AfterIs
    <3>2. InFrames(side, y, q)
      <4> HIDE DEF y
      <4> QED
        BY <3>1, NothingLeft DEF InFrames
    <3> QED
      BY <2>1, <3>2
  <2>5. CASE n + i < Len(left)
    <3> DEFINE b == left[(n + i) + 1]
    <3>1. b \in Byte /\ x = Cons(b, y)
      BY <2>1, <2>5, AfterIs
    <3>2. InFrames(side, y, q)
      <4> HIDE DEF x, y, b
      <4>1. PICK r, k : Ends(side, Cons(b, y), q, r, k)
        BY <2>3, <3>1 DEF InFrames
      <4>2. \E s, l : Ends(side, y, q, s, l)
        BY <2>2, <3>1, <4>1, OneTaken, Zenon
      <4> QED
        BY <4>2, Zenon DEF InFrames
    <3> QED
      BY <2>1, <3>2
  <2> QED
    BY <2>1, <2>4, <2>5
<1>3. Holds = 0..d
  <2>1. Holds \in SUBSET (0..d)
    OBVIOUS
  <2> HIDE DEF Holds, d
  <2> QED
    BY <1>1, <1>2, <2>1, UpTo
<1>4. d \in Holds /\ n + d = m
  <2> HIDE DEF Holds
  <2> QED
    BY <1>1, <1>3
<1> QED
  BY <1>4

(* A parser in step has the end of a frame and frames to come before it.   *)
LEMMA InStepInFrames ==
  ASSUME NEW side, NEW p, ParserTyped(side, p), NEW q \in Seq(Frames), Fits(side, q),
         AllPlain(q), NEW left \in Seq(Byte), InStep(p, left, q)
  PROVE  InFrames(side, left, q)
<1>1. CASE p.state = "WAIT1"
  <2>1. left = Encoded(q) /\ q = SubSeq(q, 1, Len(q)) /\ 1 \in 1..(Len(q) + 1)
    BY <1>1, LenProperties, SubSeqFull DEF InStep
  <2>2. Joins(left, <<>>, Encoded(SubSeq(q, 1, Len(q))))
    <3>1. <<>> \o left = left /\ left = Encoded(SubSeq(q, 1, Len(q)))
      BY <2>1, NoBytes
    <3> QED
      BY <3>1, Zenon DEF Joins
  <2>3. Ends(side, left, q, <<>>, 1)
    BY <2>1, <2>2, NoBytes DEF Ends
  <2> QED
    BY <2>3 DEF InFrames
<1>2. CASE p.state # "WAIT1"
  <2> DEFINE f == Head(q)
             codes == Encoded(Tail(q))
  <2>1. q # <<>> /\ \E rest \in Seq(Byte) : Awaits(p, f, rest) /\ Joins(left, rest, codes)
    BY <1>2 DEF InStep
  <2>2. PICK rest \in Seq(Byte) : Awaits(p, f, rest) /\ Joins(left, rest, codes)
    BY <2>1
  <2>3. Tail(q) = SubSeq(q, 2, Len(q)) /\ 2 \in 1..(Len(q) + 1)
        /\ f = q[1] /\ 1 \in DOMAIN q /\ f \in Frames
    <3>1. Len(q) \in Nat /\ Len(q) # 0 /\ DOMAIN q = 1..Len(q)
      BY <2>1, LenProperties, EmptySeq
    <3> QED
      BY <2>1, <3>1, TailIsSubSeq, HeadTailProperties
  <2>4. IsPlain(f) /\ Len(f.payload) <= MaxLen(side)
    <3> HIDE DEF f
    <3> QED
      BY <2>3 DEF AllPlain, Fits
  <2> HIDE DEF f
  <2>5. Startless(side, rest)
    BY <1>2, <2>2, <2>3, <2>4, AwaitedIsStartless
  <2>6. Ends(side, left, q, rest, 2)
    BY <2>2, <2>3, <2>5 DEF Ends
  <2> QED
    BY <2>6 DEF InFrames
<1> QED
  BY <1>1, <1>2

LEMMA SuffixOfAppend ==
  ASSUME NEW q \in Seq(Frames), NEW f \in Frames, NEW k \in 1..(Len(q) + 1)
  PROVE  /\ Append(q, f) \in Seq(Frames) /\ k \in 1..(Len(Append(q, f)) + 1)
         /\ SubSeq(Append(q, f), k, Len(Append(q, f))) = Append(SubSeq(q, k, Len(q)), f)
<1> DEFINE w == Append(q, f)
           n == Len(q)
           s == SubSeq(q, k, n)
           u == SubSeq(w, k, Len(w))
           v == Append(s, f)
<1>1. /\ w \in Seq(Frames) /\ Len(w) = n + 1 /\ n \in Nat /\ w[n + 1] = f
      /\ \A i \in 1..n : w[i] = q[i] /\ q[i] \in Frames
  BY AppendProperties, LenProperties
<1> HIDE DEF w
<1>2. s \in Seq(Frames) /\ Len(s) = n - k + 1 /\ \A i \in 1..(n - k + 1) : s[i] = q[k + i - 1]
  <2>1. k \in Int /\ n \in Int /\ \A i \in k..n : q[i] \in Frames
    BY <1>1
  <2>2. /\ s \in Seq(Frames) /\ Len(s) = IF k <= n THEN n - k + 1 ELSE 0
        /\ \A i \in 1..(n - k + 1) : s[i] = q[k + i - 1]
    BY <2>1, SubSeqProperties
  <2>3. Len(s) = n - k + 1
    BY <1>1, <2>2
  <2> QED
    BY <2>2, <2>3
<1>3. /\ u \in Seq(Frames) /\ Len(u) = n - k + 2
      /\ \A i \in 1..(n - k + 2) : u[i] = w[k + i - 1]
  <2>1. k \in Int /\ n + 1 \in Int /\ \A i \in k..(n + 1) : w[i] \in Frames
    <3>1. \A i \in k..(n + 1) : i \in 1..n \/ i = n + 1
      BY <1>1
    <3> QED
      BY <1>1, <3>1
  <2>2. u = SubSeq(w, k, n + 1)
    BY <1>1
  <2> HIDE DEF u, n
  <2>3. /\ u \in Seq(Frames) /\ Len(u) = IF k <= n + 1 THEN (n + 1) - k + 1 ELSE 0
        /\ \A i \in 1..((n + 1) - k + 1) : u[i] = w[k + i - 1]
    BY <2>1, <2>2, SubSeqProperties
  <2>4. Len(u) = n - k + 2 /\ (n + 1) - k + 1 = n - k + 2
    BY <1>1, <2>3 DEF n
  <2> QED
    BY <2>3, <2>4
<1> HIDE DEF s, u
<1>4. /\ v \in Seq(Frames) /\ Len(v) = n - k + 2 /\ v[n - k + 2] = f
      /\ \A i \in 1..(n - k + 1) : v[i] = s[i]
  <2>1. /\ v \in Seq(Frames) /\ Len(v) = Len(s) + 1 /\ v[Len(s) + 1] = f
        /\ \A i \in 1..Len(s) : v[i] = s[i]
    BY <1>2, AppendProperties
  <2>2. Len(s) = n - k + 1 /\ Len(s) + 1 = n - k + 2
    BY <1>1, <1>2
  <2> HIDE DEF v, n
  <2> QED
    BY <2>1, <2>2
<1> HIDE DEF v, n
<1>5. ASSUME NEW i \in 1..(n - k + 2)
      PROVE  u[i] = v[i]
  <2>1. CASE i = n - k + 2
    <3>1. k + i - 1 = n + 1
      BY <1>1, <2>1
    <3> QED
      BY <1>1, <1>3, <1>4, <2>1, <3>1
  <2>2. CASE i # n - k + 2
    <3>1. i \in 1..(n - k + 1) /\ k + i - 1 \in 1..n
      BY <1>1, <2>2 DEF n
    <3> QED
      BY <1>1, <1>2, <1>3, <1>4, <3>1
  <2> QED
    BY <2>1, <2>2
<1>6. u = v
  BY <1>3, <1>4, <1>5, SeqEqual
<1>7. k \in 1..(Len(w) + 1)
  BY <1>1 DEF n
<1> QED
  BY <1>1, <1>6, <1>7 DEF w, u, v, s, n

(* A frame more that is written is a frame more to come.                   *)
LEMMA OneMore ==
  ASSUME NEW side, NEW q \in Seq(Frames), NEW f \in Frames, NEW left \in Seq(Byte),
         NEW r, NEW k, Ends(side, left, q, r, k)
  PROVE  Ends(side, left \o Code[f], Append(q, f), r, k)
<1> DEFINE t == SubSeq(q, k, Len(q))
           w == Append(q, f)
           code == Code[f]
           codes == Encoded(t)
           more == Encoded(SubSeq(w, k, Len(w)))
<1>1. Startless(side, r) /\ k \in 1..(Len(q) + 1) /\ Joins(left, r, codes) /\ r \in Seq(Byte)
  BY DEF Ends, Startless
<1>2. t \in Seq(Frames) /\ code \in Seq(Byte)
  BY <1>1, SuffixIs, CodeIs
<1>3. k \in 1..(Len(w) + 1) /\ SubSeq(w, k, Len(w)) = Append(t, f)
  BY <1>1, SuffixOfAppend
<1>4. more = codes \o code /\ codes \in Seq(Byte)
  <2> HIDE DEF t, w
  <2>1. Encoded(Append(t, f)) = codes \o code /\ codes \in Seq(Byte)
    BY <1>2, EncodedAppend, EncodedIsBytes
  <2> QED
    BY <1>3, <2>1, Zenon
<1>5. Ends(side, left \o code, w, r, k) <=> Joins(left \o code, r, more)
  BY <1>1, <1>3 DEF Ends
<1> HIDE DEF t, w, code, codes, more
<1>6. (r \o codes) \o code = r \o (codes \o code)
  BY <1>1, <1>2, <1>4, Regroup
<1>7. Joins(left \o code, r, more)
  BY <1>1, <1>4, <1>6, Zenon DEF Joins
<1> QED
  BY <1>5, <1>7 DEF code, w

(* Bytes behind a part of a line.                                          *)
LEMMA AfterPart ==
  ASSUME NEW u \in Seq(Byte), NEW v \in Seq(Byte)
  PROVE  After(u \o v, Len(u)) = v
<1> DEFINE w == u \o v
<1>1. w \in Seq(Byte) /\ Len(w) = Len(u) + Len(v) /\ Len(u) \in Nat /\ Len(v) \in Nat
  BY ConcatProperties, LenProperties
<1>2. CASE Len(v) = 0
  <2>1. v = <<>> /\ Len(u) >= Len(w)
    BY <1>1, <1>2, EmptySeq
  <2> HIDE DEF w
  <2> QED
    BY <1>1, <2>1, AfterIs DEF w
<1>3. CASE Len(v) # 0
  <2>1. /\ Len(u) + 1 \in (Len(u) + 1)..(Len(u) + Len(v))
        /\ Len(u) + Len(v) \in (Len(u) + 1)..(Len(u) + Len(v))
    BY <1>1, <1>3
  <2>2. SubSeq(w, Len(u) + 1, Len(u) + Len(v))
          = SubSeq(v, (Len(u) + 1) - Len(u), (Len(u) + Len(v)) - Len(u))
    BY <2>1, SubSeqOfConcat2
  <2>3. (Len(u) + 1) - Len(u) = 1 /\ (Len(u) + Len(v)) - Len(u) = Len(v)
    BY <1>1
  <2> HIDE DEF w
  <2>4. SubSeq(w, Len(u) + 1, Len(w)) = v
    BY <1>1, <2>2, <2>3, SubSeqFull
  <2> QED
    BY <2>4 DEF After, w
<1> QED
  BY <1>2, <1>3

LEMMA AfterBehind ==
  ASSUME NEW u \in Seq(Byte), NEW v \in Seq(Byte), NEW j \in Nat
  PROVE  After(u \o v, Len(u) + j) = After(v, j)
<1> DEFINE w == u \o v
<1>1. w \in Seq(Byte) /\ Len(w) = Len(u) + Len(v) /\ Len(u) \in Nat /\ Len(v) \in Nat
  BY ConcatProperties, LenProperties
<1>2. CASE j > Len(v)
  <2>1. j >= Len(v) /\ Len(u) + j >= Len(w) /\ Len(u) + j \in Nat
    BY <1>1, <1>2
  <2> HIDE DEF w
  <2>2. After(w, Len(u) + j) = <<>> /\ After(v, j) = <<>>
    BY <1>1, <2>1, AfterIs
  <2> QED
    BY <2>2 DEF w
<1>3. CASE j <= Len(v)
  <2> DEFINE pre == SubSeq(v, 1, j)
             post == SubSeq(v, j + 1, Len(v))
             x == u \o pre
  <2>1. pre \in Seq(Byte) /\ post \in Seq(Byte) /\ pre \o post = v
    BY <1>3, SplitAt
  <2>2. Len(pre) = j
    <3>1. 1 \in Int /\ j \in Int /\ \A i \in 1..j : v[i] \in Byte
      BY <1>1, <1>3, LenProperties
    <3>2. Len(pre) = IF 1 <= j THEN j - 1 + 1 ELSE 0
      BY <3>1, SubSeqProperties
    <3> HIDE DEF pre
    <3> QED
      BY <3>2
  <2>3. After(v, j) = post
    BY DEF After
  <2> HIDE DEF pre, post
  <2>4. x \in Seq(Byte) /\ Len(x) = Len(u) + j /\ x \o post = w
    <3>1. x \in Seq(Byte) /\ Len(x) = Len(u) + j
      BY <2>1, <2>2, ConcatProperties
    <3>2. pre \in Seq(Byte) /\ post \in Seq(Byte)
      BY <2>1
    <3>3. (u \o pre) \o post = u \o (pre \o post)
      BY <3>2, Regroup, Zenon
    <3>4. x \o post = w
      BY <2>1, <3>3, Zenon
    <3> HIDE DEF x, w
    <3> QED
      BY <3>1, <3>4
  <2> HIDE DEF x
  <2>5. After(x \o post, Len(x)) = post
    BY <2>1, <2>4, AfterPart
  <2> QED
    BY <2>3, <2>4, <2>5
<1> QED
  BY <1>1, <1>2, <1>3

LEMMA AfterMore ==
  ASSUME NEW s \in Seq(Byte), NEW c \in Seq(Byte), NEW n \in Nat, n <= Len(s)
  PROVE  After(s \o c, n) = After(s, n) \o c
<1> DEFINE pre == SubSeq(s, 1, n)
           post == SubSeq(s, n + 1, Len(s))
           x == post \o c
<1>1. pre \in Seq(Byte) /\ post \in Seq(Byte) /\ pre \o post = s /\ After(s, n) = post
  BY SplitAt DEF After
<1>2. Len(pre) = n
  <2>1. 1 \in Int /\ n \in Int /\ \A i \in 1..n : s[i] \in Byte
    BY LenProperties
  <2>2. Len(pre) = IF 1 <= n THEN n - 1 + 1 ELSE 0
    BY <2>1, SubSeqProperties
  <2> HIDE DEF pre
  <2> QED
    BY <2>2
<1> HIDE DEF pre, post
<1>3. x \in Seq(Byte) /\ (pre \o post) \o c = pre \o x
  <2>1. x \in Seq(Byte)
    BY <1>1, ConcatIsBytes
  <2>2. pre \in Seq(Byte) /\ post \in Seq(Byte)
    BY <1>1
  <2>3. (pre \o post) \o c = pre \o (post \o c)
    BY <2>2, Regroup, Zenon
  <2> QED
    BY <2>1, <2>3, Zenon
<1> HIDE DEF x
<1>4. After(pre \o x, Len(pre)) = x
  BY <1>1, <1>3, AfterPart
<1> QED
  BY <1>1, <1>2, <1>3, <1>4 DEF x

-----------------------------------------------------------------------------
LEMMA RemainingIs ==
  ASSUME NEW side, NEW p, ParserTyped(side, p)
  PROVE  /\ Remaining(side, p) \in 1..(5 + MaxLen(side)) /\ MaxLen(side) \in Nat
         /\ p.state = "WAIT2" => Remaining(side, p) = 5 + MaxLen(side)
         /\ p.state = "TYPE" => Remaining(side, p) = 4 + MaxLen(side)
         /\ p.state = "LEN_LO" => Remaining(side, p) = 3 + MaxLen(side)
         /\ p.state = "LEN_HI" => Remaining(side, p) = 2 + MaxLen(side)
         /\ p.state = "PAYLOAD" => Remaining(side, p) = (p.len - Len(p.buf)) + 1
         /\ p.state = "CRC" => Remaining(side, p) = 1
<1>1. MaxLen(side) \in Nat
  BY MaxLenIsNat
<1>2. /\ p.state = "WAIT2" => Remaining(side, p) = 5 + MaxLen(side)
      /\ p.state = "TYPE" => Remaining(side, p) = 4 + MaxLen(side)
      /\ p.state = "LEN_LO" => Remaining(side, p) = 3 + MaxLen(side)
      /\ p.state = "LEN_HI" => Remaining(side, p) = 2 + MaxLen(side)
      /\ p.state = "PAYLOAD" => Remaining(side, p) = (p.len - Len(p.buf)) + 1
      /\ p.state = "CRC" => Remaining(side, p) = 1
      /\ p.state = "WAIT1" => Remaining(side, p) = 1
  BY DEF Remaining
<1>3. p.state \in States /\ p.len \in Nat /\ Len(p.buf) \in Nat
      /\ (p.state = "PAYLOAD" => Len(p.buf) < p.len /\ p.len <= MaxLen(side))
  BY LenProperties DEF ParserTyped
<1>4. p.state = "PAYLOAD" => (p.len - Len(p.buf)) + 1 \in 1..(5 + MaxLen(side))
  BY <1>1, <1>3
<1>5. Remaining(side, p) \in 1..(5 + MaxLen(side))
  BY <1>1, <1>2, <1>3, <1>4 DEF States
<1> QED
  BY <1>1, <1>2, <1>5

(* At the damage nothing is to be shown.                                   *)
LEMMA WithinAtDamage ==
  ASSUME NEW side, NEW p, ParserTyped(side, p), NEW r, Startless(side, r), NEW n \in Int, n <= 0
  PROVE  Within(side, p, r, n)
<1>1. Len(r) \in Nat /\ Len(r) < Span(side)
  BY LenProperties DEF Startless
<1>2. Remaining(side, p) \in 1..(5 + MaxLen(side)) /\ MaxLen(side) \in Nat
  BY RemainingIs
<1>3. Span(side) = 6 + MaxLen(side)
  BY DEF Span
<1>4. n + Len(r) <= 2 * Span(side) /\ n + Remaining(side, p) <= Span(side)
      /\ n + Remaining(side, p) <= Span(side) + 1
  BY <1>1, <1>2, <1>3
<1> QED
  BY <1>4 DEF Within

(* A byte more behind the damage: what the parser takes for a frame gets   *)
(* shorter, or is over before two of the longest frames are.               *)
LEMMA FeedWithin ==
  ASSUME NEW side, NEW p, ParserTyped(side, p), NEW b \in Byte, NEW n \in Nat,
         NEW r, Startless(side, r), NEW s, Startless(side, s), Within(side, p, r, n),
         r # <<>> => b # Start1 /\ Len(r) = Len(s) + 1,
         r = <<>> => b = Start1 /\ s # <<>>,
         p.state = "WAIT1" => r # <<>>
  PROVE  Within(side, FeedByte(side, p, b), s, n + 1)
<1> DEFINE w == FeedByte(side, p, b)
           old == Remaining(side, p)
           new == Remaining(side, w)
           span == Span(side)
           max == MaxLen(side)
<1> SUFFICES Within(side, w, s, n + 1)
  OBVIOUS
<1>1. /\ Len(s) \in Nat /\ Len(s) < span /\ max \in Nat /\ span = 6 + max
      /\ old \in 1..(5 + max) /\ b \in Nat
  BY LenProperties, RemainingIs DEF Startless, Span, Byte
<1>2. ParserTyped(side, w)
  BY FeedIsTyped
<1>3. new \in 1..(5 + max)
  BY <1>2, RemainingIs
<1>4. /\ p \in [state : States, type : Byte, len : Nat, buf : Seq(Byte)]
      /\ Len(p.buf) \in Nat
  BY LenProperties DEF ParserTyped
<1>5. /\ p.state = "WAIT1" => n + Len(r) <= 2 * span
      /\ p.state # "WAIT1" => n + old <= span + 1
      /\ p.state = "WAIT2" /\ r = <<>> => n + old <= span
  BY DEF Within
<1>6. ASSUME p.state # "WAIT1", w.state = "WAIT1"
      PROVE  Within(side, w, s, n + 1)
  <2>1. n + old <= span + 1
    BY <1>5, <1>6
  <2> HIDE DEF old, span, max, w
  <2>2. n + 1 + Len(s) <= 2 * span
    BY <1>1, <2>1
  <2> QED
    BY <1>6, <2>2 DEF Within, span
<1>7. ASSUME p.state # "WAIT1", w.state \notin {"WAIT1", "WAIT2"}, new < old
      PROVE  Within(side, w, s, n + 1)
  <2>1. n + old <= span + 1
    BY <1>5, <1>7
  <2> HIDE DEF old, new, span, max, w
  <2>2. n + 1 + new <= span + 1
    BY <1>1, <1>3, <1>7, <2>1
  <2> QED
    BY <1>7, <2>2 DEF Within, span, new
<1>8. CASE p.state = "WAIT1"
  <2>1. b # Start1 /\ Len(r) = Len(s) + 1 /\ n + Len(r) <= 2 * span
    BY <1>5, <1>8
  <2>2. w.state = "WAIT1"
    BY <1>8, <2>1 DEF FeedByte
  <2> HIDE DEF span, w
  <2>3. n + 1 + Len(s) <= 2 * span
    BY <1>1, <2>1
  <2> QED
    BY <2>2, <2>3 DEF Within, span
<1>9. CASE p.state = "WAIT2"
  <2>1. CASE b = Start2
    <3>1. w.state = "TYPE"
      BY <1>4, <1>9, <2>1 DEF FeedByte
    <3>2. new = 4 + max /\ old = 5 + max
      BY <1>2, <1>9, <3>1, RemainingIs
    <3>3. new < old
      BY <1>1, <3>2
    <3> HIDE DEF w, new, old
    <3> QED
      BY <1>7, <1>9, <3>1, <3>3
  <2>2. CASE b # Start2 /\ b = Start1 /\ side = "pi"
    <3>1. w.state = "WAIT2"
      BY <1>4, <1>9, <2>2 DEF FeedByte
    <3>2. r = <<>> /\ s # <<>> /\ n + old <= span
      BY <1>5, <1>9, <2>2
    <3>3. new = 5 + max /\ old = 5 + max
      BY <1>2, <1>9, <3>1, RemainingIs
    <3> HIDE DEF w, new, old, span, max
    <3>4. n + 1 + new <= span + 1
      BY <1>1, <3>2, <3>3
    <3> QED
      BY <3>1, <3>2, <3>4 DEF Within, span, new
  <2>3. CASE b # Start2 /\ ~ (b = Start1 /\ side = "pi")
    <3>1. w.state = "WAIT1"
      BY <1>4, <1>9, <2>3 DEF FeedByte
    <3> HIDE DEF w
    <3> QED
      BY <1>6, <1>9, <3>1
  <2> QED
    BY <2>1, <2>2, <2>3
<1>10. CASE p.state = "TYPE"
  <2>1. w.state = "LEN_LO"
    BY <1>4, <1>10 DEF FeedByte
  <2>2. new = 3 + max /\ old = 4 + max
    BY <1>2, <1>10, <2>1, RemainingIs
  <2>3. new < old
    BY <1>1, <2>2
  <2> HIDE DEF w, new, old
  <2> QED
    BY <1>7, <1>10, <2>1, <2>3
<1>11. CASE p.state = "LEN_LO"
  <2>1. w.state = "LEN_HI"
    BY <1>4, <1>11 DEF FeedByte
  <2>2. new = 2 + max /\ old = 3 + max
    BY <1>2, <1>11, <2>1, RemainingIs
  <2>3. new < old
    BY <1>1, <2>2
  <2> HIDE DEF w, new, old
  <2> QED
    BY <1>7, <1>11, <2>1, <2>3
<1>12. CASE p.state = "LEN_HI"
  <2> DEFINE l == p.len + 256 * b
  <2>1. CASE ~FitsBuffer(side, l)
    <3>1. w = Reset
      BY <1>12, <2>1 DEF FeedByte
    <3>2. w.state = "WAIT1"
      BY <3>1, ResetIsTyped
    <3> HIDE DEF w
    <3> QED
      BY <1>6, <1>12, <3>2
  <2>2. CASE FitsBuffer(side, l)
    <3>1. w = [p EXCEPT !.len = l, !.state = IF l = 0 THEN "CRC" ELSE "PAYLOAD"]
      BY <1>12, <2>2 DEF FeedByte
    <3>2. l \in Nat /\ l <= max
      BY <1>1, <1>4, <2>2 DEF FitsBuffer
    <3> HIDE DEF l
    <3>3. w.len = l /\ w.buf = p.buf /\ w.state = IF l = 0 THEN "CRC" ELSE "PAYLOAD"
      BY <1>4, <3>1
    <3>4. p.buf = <<>> /\ Len(p.buf) = 0
      BY <1>12, EmptySeq DEF ParserTyped
    <3> HIDE DEF w
    <3>5. new <= 1 + max /\ old = 2 + max
      <4>1. w.state = "CRC" => new = 1
        BY <1>2, RemainingIs
      <4>2. w.state = "PAYLOAD" => new = (w.len - Len(w.buf)) + 1
        BY <1>2, RemainingIs
      <4>3. old = 2 + max
        BY <1>12, RemainingIs
      <4> HIDE DEF new, old, max
      <4> QED
        BY <1>1, <3>2, <3>3, <3>4, <4>1, <4>2, <4>3
    <3>6. new < old
      BY <1>1, <1>3, <3>5
    <3>7. w.state \notin {"WAIT1", "WAIT2"}
      BY <3>3
    <3> HIDE DEF new, old
    <3> QED
      BY <1>7, <1>12, <3>6, <3>7
  <2> QED
    BY <2>1, <2>2
<1>13. CASE p.state = "PAYLOAD"
  <2>1. w = [p EXCEPT !.buf = Append(p.buf, b),
                      !.state = IF Len(p.buf) + 1 >= p.len THEN "CRC" ELSE p.state]
    BY <1>13 DEF FeedByte
  <2>2. Len(p.buf) < p.len /\ Len(Append(p.buf, b)) = Len(p.buf) + 1
    BY <1>4, <1>13, AppendProperties DEF ParserTyped
  <2>3. /\ w.len = p.len /\ w.buf = Append(p.buf, b)
        /\ w.state = IF Len(p.buf) + 1 >= p.len THEN "CRC" ELSE "PAYLOAD"
    BY <1>4, <1>13, <2>1
  <2>4. old = (p.len - Len(p.buf)) + 1
    BY <1>13, RemainingIs
  <2> HIDE DEF w
  <2>5. new < old
    <3>1. w.state = "CRC" => new = 1
      BY <1>2, RemainingIs
    <3>2. w.state = "PAYLOAD" => new = (w.len - Len(w.buf)) + 1
      BY <1>2, RemainingIs
    <3>3. p.len \in Nat /\ Len(w.buf) = Len(p.buf) + 1
      BY <1>4, <2>2, <2>3
    <3> HIDE DEF new, old
    <3> QED
      BY <1>4, <2>2, <2>3, <2>4, <3>1, <3>2, <3>3
  <2>6. w.state \notin {"WAIT1", "WAIT2"}
    BY <2>3
  <2> HIDE DEF new, old
  <2> QED
    BY <1>7, <1>13, <2>5, <2>6
<1>14. CASE p.state = "CRC"
  <2>1. w = Reset
    BY <1>14 DEF FeedByte
  <2>2. w.state = "WAIT1"
    BY <2>1, ResetIsTyped
  <2> HIDE DEF w
  <2> QED
    BY <1>6, <1>14, <2>2
<1> QED
  BY <1>4, <1>8, <1>9, <1>10, <1>11, <1>12, <1>13, <1>14 DEF States

(* A byte that is fed to a parser out of step.                             *)
LEMMA FeedBehind ==
  ASSUME NEW side, NEW p, ParserTyped(side, p), NEW q \in Seq(Frames), Fits(side, q),
         AllPlain(q), NEW b \in Byte, NEW left \in Seq(Byte), NEW n \in Int,
         Behind(side, Cons(b, left), p, q, n), ~ Aligned(p, Cons(b, left), q)
  PROVE  Behind(side, left, FeedByte(side, p, b), q, n + 1)
<1> DEFINE w == FeedByte(side, p, b)
           more == Cons(b, left)
<1>1. PICK r, k : Ends(side, After(more, Ahead(n)), q, r, k) /\ Within(side, p, r, n)
  BY DEF Behind
<1>2. ParserTyped(side, w) /\ more \in Seq(Byte)
  BY FeedIsTyped, ConsIs
<1> SUFFICES Behind(side, left, w, q, n + 1)
  OBVIOUS
<1>3. Startless(side, r) /\ r \in Seq(Byte)
  BY <1>1 DEF Ends, Startless
<1> HIDE DEF w
<1>4. CASE n < 0
  <2> DEFINE m == -n - 1
  <2>1. m \in Nat /\ Ahead(n) = m + 1 /\ Ahead(n + 1) = m
    BY <1>4 DEF Ahead
  <2>2. After(more, m + 1) = After(left, m)
    BY <2>1, AfterFirst
  <2>3. Ends(side, After(left, Ahead(n + 1)), q, r, k)
    <3> HIDE DEF m, more
    <3> QED
      BY <1>1, <2>1, <2>2
  <2>4. Within(side, w, r, n + 1)
    <3>1. n + 1 \in Int /\ n + 1 <= 0
      BY <1>4
    <3> QED
      BY <1>2, <1>3, <3>1, WithinAtDamage
  <2> QED
    BY <2>3, <2>4 DEF Behind
<1>5. CASE n >= 0
  <2>1. n \in Nat /\ 0 \in Nat /\ Ahead(n) = 0 /\ Ahead(n + 1) = 0
    BY <1>5 DEF Ahead
  <2>2. After(more, 0) = more /\ After(left, 0) = left
    <3> HIDE DEF more
    <3> QED
      BY <1>2, <2>1, AfterIs
  <2>3. Ends(side, more, q, r, k)
    <3> HIDE DEF more
    <3> QED
      BY <1>1, <2>1, <2>2
  <2>4. PICK s, l : /\ Ends(side, left, q, s, l)
                    /\ r # <<>> => b # Start1 /\ Len(r) = Len(s) + 1
                    /\ r = <<>> => b = Start1 /\ s # <<>>
    BY <2>3, OneTaken, Zenon
  <2>5. p.state = "WAIT1" => r # <<>>
    <3> SUFFICES ASSUME p.state = "WAIT1", r = <<>>
                 PROVE  FALSE
      OBVIOUS
    <3> DEFINE t == SubSeq(q, k, Len(q))
               codes == Encoded(t)
    <3>1. k \in 1..(Len(q) + 1) /\ Joins(more, r, codes)
      BY <2>3 DEF Ends
    <3>2. codes \in Seq(Byte)
      BY <3>1, SuffixIs, EncodedIsBytes
    <3>3. more = codes /\ t \in Channel!Suffixes(q)
      <4>1. t \in Channel!Suffixes(q)
        BY <3>1 DEF Channel!Suffixes
      <4> HIDE DEF codes, more
      <4> QED
        BY <3>1, <3>2, <4>1, NoBytes DEF Joins
    <3> QED
      BY <3>3 DEF Aligned
  <2>6. Startless(side, s)
    BY <2>4 DEF Ends
  <2>7. Within(side, w, s, n + 1)
    BY <1>1, <1>3, <2>1, <2>4, <2>5, <2>6, FeedWithin DEF w
  <2>8. Ends(side, After(left, Ahead(n + 1)), q, s, l)
    BY <2>1, <2>2, <2>4
  <2> QED
    BY <2>7, <2>8 DEF Behind
<1> QED
  BY <1>4, <1>5

(* A frame that is written when the parser is out of step.                 *)
LEMMA AppendBehind ==
  ASSUME NEW side, NEW p, ParserTyped(side, p), NEW q \in Seq(Frames), NEW f \in Frames,
         Fits(side, Append(q, f)), AllPlain(Append(q, f)),
         NEW left \in Seq(Byte), NEW n \in Int, Behind(side, left, p, q, n)
  PROVE  Behind(side, left \o Code[f], p, Append(q, f), n)
<1> DEFINE code == Code[f]
           w == Append(q, f)
           more == left \o code
           a == Ahead(n)
<1>1. code \in Seq(Byte) /\ w \in Seq(Frames) /\ more \in Seq(Byte) /\ Len(left) \in Nat
  BY CodeIs, EncodedAppend, ConcatIsBytes, LenProperties
<1>2. PICK r, k : Ends(side, After(left, a), q, r, k) /\ Within(side, p, r, n)
  BY DEF Behind
<1>3. a \in Nat /\ (a # 0 => n <= 0)
  BY DEF Ahead
<1>4. ASSUME a <= Len(left)
      PROVE  Ends(side, After(more, a), w, r, k)
  <2> DEFINE x == After(left, a)
  <2>1. After(more, a) = x \o code /\ x \in Seq(Byte)
    BY <1>1, <1>3, <1>4, AfterMore, AfterIs
  <2> HIDE DEF x, a, more
  <2>2. Ends(side, x \o code, w, r, k)
    BY <1>2, <2>1, OneMore DEF x, a
  <2> QED
    BY <2>1, <2>2
<1>5. CASE a <= Len(left)
  BY <1>2, <1>4, <1>5 DEF Behind
<1>6. CASE a > Len(left)
  <2>1. Len(left) <= a /\ n <= 0
    BY <1>1, <1>3, <1>6
  <2>2. After(more, Len(left)) = code /\ code = <<>> \o code
    BY <1>1, AfterPart, NoBytes
  <2>3. InFrames(side, After(more, Len(left)), w)
    <3>1. Ends(side, <<>> \o code, w, <<>>, Len(q) + 1)
      BY NothingLeft, NoBytes, OneMore
    <3> HIDE DEF more, code, w
    <3> QED
      BY <2>2, <3>1 DEF InFrames
  <2>4. InFrames(side, After(more, a), w)
    <3> HIDE DEF more, w, a
    <3> QED
      BY <1>1, <1>3, <2>1, <2>3, ManyTaken DEF w
  <2>5. PICK s, l : Ends(side, After(more, a), w, s, l)
    BY <2>4 DEF InFrames
  <2>6. Startless(side, s)
    BY <2>5 DEF Ends
  <2>7. Within(side, p, s, n)
    BY <2>1, <2>6, WithinAtDamage
  <2> QED
    BY <2>5, <2>7 DEF Behind
<1> QED
  BY <1>1, <1>3, <1>5, <1>6

-----------------------------------------------------------------------------
(* What is damaged is ahead of the parser or few enough bytes behind it,   *)
(* and what follows are frames to come.                                    *)
Stalled ==
  /\ ~whole => ~ Aligned(parser, Left, queue)
  /\ PlainSoFar => /\ AllPlain(queue)
                   /\ ~whole => Behind(receiver, Left, parser, queue, stall)

LEMMA PlainSuffix ==
  ASSUME NEW q \in Seq(Frames), AllPlain(q), NEW s \in Channel!Suffixes(q)
  PROVE  AllPlain(s)
<1>1. PICK k \in 1..(Len(q) + 1) : s = SubSeq(q, k, Len(q))
  BY DEF Channel!Suffixes
<1>2. \A i \in DOMAIN s : \E j \in DOMAIN q : s[i] = q[j]
  BY <1>1, SuffixIs
<1> QED
  BY <1>2 DEF AllPlain

(* The judgement misses no parser that is in step again.                   *)
LEMMA JudgedRight ==
  ASSUME NEW q \in Seq(Frames), NEW intact \in BOOLEAN, Judge(q, intact)
  PROVE  /\ queue' \in Channel!Suffixes(q)
         /\ ~whole' => queue' = q /\ ~intact /\ ~ Aligned(parser', Left', q)
<1> DEFINE suffixes == {SubSeq(q, k, Len(q)) : k \in 1..(Len(q) + 1)}
           aligned  == {s \in suffixes : parser'.state = "WAIT1" /\ Left' = Encoded(s)}
<1>1. /\ whole' = (intact \/ aligned # {})
      /\ queue' = IF intact \/ aligned = {} THEN q ELSE CHOOSE s \in aligned : TRUE
  BY DEF Judge
<1>2. suffixes = Channel!Suffixes(q) /\ q \in suffixes
  BY WholeIsSuffix DEF Channel!Suffixes
<1>3. aligned \subseteq suffixes
  OBVIOUS
<1>4. Aligned(parser', Left', q) => aligned # {}
  BY <1>2 DEF Aligned
<1> HIDE DEF suffixes, aligned
<1>5. queue' \in suffixes
  BY <1>1, <1>2, <1>3
<1> QED
  BY <1>1, <1>2, <1>4, <1>5

LEMMA StalledAtStart == Init => Stalled
<1> SUFFICES ASSUME Init
             PROVE  Stalled
  OBVIOUS
<1>1. whole = TRUE /\ queue = <<>>
  BY DEF Init
<1>2. AllPlain(queue)
  <2>1. DOMAIN <<>> = {}
    OBVIOUS
  <2> QED
    BY <1>1, <2>1 DEF AllPlain
<1> QED
  BY <1>1, <1>2 DEF Stalled

LEMMA BeginWriteStalls ==
  ASSUME Line, Line', Stalled, NEW w \in Writers, NEW f \in Frames, NEW n \in Nat,
         BeginWrite(w, f, n)
  PROVE  Stalled'
<1> DEFINE q == Append(queue, f)
<1>1. /\ sent' = Append(sent, f) /\ UNCHANGED <<receiver, parser, stall>> /\ Judge(q, whole)
      /\ LockFree(w)
  BY DEF BeginWrite
<1>2. /\ queue \in Seq(Frames) /\ sent \in Seq(Frames) /\ ParserTyped(receiver, parser)
      /\ whole \in BOOLEAN /\ stall \in Int /\ Fits(receiver', queue')
  BY DEF Line, LineTyped
<1>3. Left' = Left \o Code[f] /\ Left \in Seq(Byte)
  BY BeginWriteKeeps
<1>4. /\ q \in Seq(Frames) /\ DOMAIN queue = 1..Len(queue) /\ Len(queue) \in Nat
      /\ DOMAIN q = 1..(Len(queue) + 1) /\ q[Len(queue) + 1] = f
      /\ \A i \in 1..Len(queue) : q[i] = queue[i]
  BY <1>2, AppendProperties, LenProperties
<1> HIDE DEF q
<1>5. /\ queue' \in Channel!Suffixes(q)
      /\ ~whole' => queue' = q /\ ~whole /\ ~ Aligned(parser', Left', q)
  BY <1>1, <1>2, <1>4, JudgedRight
<1>6. PlainSoFar' => PlainSoFar /\ IsPlain(f)
  <2>1. /\ DOMAIN sent = 1..Len(sent) /\ Len(sent) \in Nat
        /\ DOMAIN sent' = 1..(Len(sent) + 1) /\ sent'[Len(sent) + 1] = f
        /\ \A i \in 1..Len(sent) : sent'[i] = sent[i]
    BY <1>1, <1>2, AppendProperties, LenProperties
  <2>2. PlainSoFar' => \A i \in DOMAIN sent' : IsPlain(sent'[i])
    BY DEF PlainSoFar, IsPlain
  <2>3. (\A i \in DOMAIN sent : IsPlain(sent[i])) => PlainSoFar
    BY DEF PlainSoFar, IsPlain
  <2>4. Len(sent) + 1 \in DOMAIN sent' /\ \A i \in DOMAIN sent : i \in DOMAIN sent'
    BY <2>1
  <2> QED
    BY <2>1, <2>2, <2>3, <2>4
<1>7. ASSUME PlainSoFar'
      PROVE  AllPlain(q) /\ AllPlain(queue')
  <2>1. AllPlain(queue) /\ IsPlain(f)
    BY <1>6, <1>7 DEF Stalled
  <2>2. AllPlain(q)
    <3> SUFFICES ASSUME NEW i \in DOMAIN q
                 PROVE  IsPlain(q[i])
      BY DEF AllPlain
    <3>1. i \in DOMAIN queue \/ i = Len(queue) + 1
      BY <1>4
    <3> QED
      BY <1>4, <2>1, <3>1 DEF AllPlain
  <2> QED
    BY <1>4, <1>5, <2>2, PlainSuffix
<1>8. ASSUME PlainSoFar', ~whole'
      PROVE  Behind(receiver', Left', parser', queue', stall')
  <2>1. Behind(receiver, Left, parser, queue, stall)
    BY <1>5, <1>6, <1>8 DEF Stalled
  <2>2. Fits(receiver, q) /\ AllPlain(q)
    BY <1>1, <1>2, <1>5, <1>7, <1>8
  <2> DEFINE left == Left
  <2>3. Behind(receiver, left \o Code[f], parser, q, stall)
    <3>1. left \in Seq(Byte) /\ Behind(receiver, left, parser, queue, stall)
      BY <1>3, <2>1
    <3> HIDE DEF left
    <3> QED
      BY <1>2, <2>2, <3>1, AppendBehind DEF q
  <2>4. Left' = left \o Code[f] /\ queue' = q /\ receiver' = receiver /\ parser' = parser
        /\ stall' = stall
    BY <1>1, <1>3, <1>5, <1>8
  <2> HIDE DEF left
  <2> QED
    BY <2>3, <2>4
<1> QED
  BY <1>5, <1>7, <1>8 DEF Stalled

LEMMA FeedStalls ==
  ASSUME Line, Stalled, Feed
  PROVE  Stalled'
<1> DEFINE b == Head(chunk)
           q == IF Yields(parser, b) /\ whole /\ queue # <<>> THEN Tail(queue) ELSE queue
<1>1. /\ parser' = FeedByte(receiver, parser, b) /\ UNCHANGED <<receiver, sent>>
      /\ Judge(q, whole) /\ stall' = IF whole' THEN 0 ELSE stall + 1
  BY DEF Feed
<1>2. /\ queue \in Seq(Frames) /\ ParserTyped(receiver, parser) /\ Fits(receiver, queue)
      /\ whole \in BOOLEAN /\ stall \in Int
  BY DEF Line, LineTyped
<1>3. b \in Byte /\ Left = Cons(b, Left') /\ Left' \in Seq(Byte)
  BY FeedKeeps
<1> HIDE DEF b
<1>4. q \in Seq(Frames) /\ q \in Channel!Suffixes(queue) /\ (~whole => q = queue)
  <2>1. queue \in Channel!Suffixes(queue)
    BY <1>2, WholeIsSuffix
  <2>2. CASE q = queue
    BY <1>2, <2>1, <2>2
  <2>3. CASE q # queue
    <3>1. queue # <<>> /\ q = Tail(queue) /\ whole
      BY <2>3
    <3>2. Tail(queue) \in Channel!Suffixes(queue) /\ Tail(queue) \in Seq(Frames)
      BY <1>2, <3>1, SuffixOfTail, EncodedFirst
    <3> QED
      BY <3>1, <3>2
  <2> QED
    BY <2>2, <2>3
<1> HIDE DEF q
<1>5. /\ queue' \in Channel!Suffixes(q)
      /\ ~whole' => queue' = q /\ ~whole /\ ~ Aligned(parser', Left', q)
  BY <1>1, <1>2, <1>4, JudgedRight
<1>6. PlainSoFar' <=> PlainSoFar
  BY <1>1 DEF PlainSoFar
<1>7. ASSUME PlainSoFar
      PROVE  AllPlain(queue')
  <2>1. AllPlain(q)
    BY <1>2, <1>4, <1>7, PlainSuffix DEF Stalled
  <2> QED
    BY <1>4, <1>5, <2>1, PlainSuffix
<1>8. ASSUME PlainSoFar, ~whole'
      PROVE  Behind(receiver', Left', parser', queue', stall')
  <2> DEFINE left == Left'
  <2>1. /\ Behind(receiver, Cons(b, left), parser, queue, stall) /\ AllPlain(queue)
        /\ ~ Aligned(parser, Cons(b, left), queue) /\ left \in Seq(Byte)
    BY <1>3, <1>5, <1>8 DEF Stalled
  <2>2. /\ receiver' = receiver /\ parser' = FeedByte(receiver, parser, b)
        /\ queue' = queue /\ stall' = stall + 1
    BY <1>1, <1>4, <1>5, <1>8
  <2> HIDE DEF left
  <2>3. Behind(receiver, left, FeedByte(receiver, parser, b), queue, stall + 1)
    BY <1>2, <1>3, <2>1, FeedBehind
  <2>4. Behind(receiver', left, parser', queue', stall')
    BY <2>2, <2>3
  <2> QED
    BY <2>4 DEF left
<1> QED
  BY <1>5, <1>6, <1>7, <1>8 DEF Stalled

(* Bytes that move along the line change nothing.                          *)
LEMMA MovingStalls ==
  ASSUME Stalled, Left' = Left, UNCHANGED <<receiver, parser, sent, queue, whole, stall>>
  PROVE  Stalled'
<1>1. PlainSoFar' <=> PlainSoFar
  BY DEF PlainSoFar
<1> DEFINE left == Left
<1>2. /\ ~whole => ~ Aligned(parser, left, queue)
      /\ PlainSoFar => /\ AllPlain(queue)
                       /\ ~whole => Behind(receiver, left, parser, queue, stall)
      /\ Left' = left
  BY DEF Stalled
<1> HIDE DEF left
<1>3. /\ ~whole' => ~ Aligned(parser', left, queue')
      /\ PlainSoFar' => /\ AllPlain(queue')
                        /\ ~whole' => Behind(receiver', left, parser', queue', stall')
  BY <1>1, <1>2
<1> QED
  BY <1>2, <1>3 DEF Stalled

(* A fault that leaves frames to come behind the damage.                   *)
Worse(n) == IF Ahead(stall) < n THEN n ELSE Ahead(stall)

LeavesFrames(n) ==
  Fits(receiver, queue) /\ AllPlain(queue) /\ InFrames(receiver, After(Left, Ahead(stall)), queue)
    => InFrames(receiver, After(Left', Worse(n)), queue)

LEMMA DamageStalls ==
  ASSUME Line, Line', Stalled, NEW n \in Nat, Damage(n), LeavesFrames(n)
  PROVE  Stalled'
<1>1. /\ stall' = IF stall < -n THEN stall ELSE -n
      /\ UNCHANGED <<receiver, sent>> /\ Judge(queue, FALSE)
  BY DEF Damage
<1>2. /\ queue \in Seq(Frames) /\ ParserTyped(receiver, parser) /\ Fits(receiver, queue)
      /\ stall \in Int /\ unsent \in [Writers -> Seq(Byte)] /\ wire \in Seq(Byte)
      /\ chunk \in Seq(Byte) /\ whole \in BOOLEAN
      /\ whole => InStep(parser, Left, queue)
  BY DEF Line, LineTyped
<1>3. ParserTyped(receiver', parser')
  BY DEF Line, LineTyped
<1>4. /\ queue' \in Channel!Suffixes(queue)
      /\ ~whole' => queue' = queue /\ ~ Aligned(parser', Left', queue)
  BY <1>1, <1>2, JudgedRight
<1>5. PlainSoFar' <=> PlainSoFar
  BY <1>1 DEF PlainSoFar
<1>6. Left \in Seq(Byte)
  BY <1>2, LeftIs, OwedIs, ConcatIsBytes DEF LeftOf
<1>7. Ahead(stall) \in Nat /\ Ahead(stall') = Worse(n) /\ stall' \in Int /\ stall' <= 0
  BY <1>1, <1>2 DEF Ahead, Worse
<1>8. ASSUME PlainSoFar
      PROVE  AllPlain(queue') /\ InFrames(receiver, After(Left', Worse(n)), queue)
  <2>1. AllPlain(queue)
    BY <1>8 DEF Stalled
  <2>2. InFrames(receiver, After(Left, Ahead(stall)), queue)
    <3> DEFINE left == Left
    <3>1. left \in Seq(Byte)
      BY <1>6
    <3>2. CASE whole
      <4>1. InStep(parser, left, queue)
        BY <1>2, <3>2
      <4> HIDE DEF left
      <4>2. InFrames(receiver, left, queue)
        BY <1>2, <2>1, <3>1, <4>1, InStepInFrames
      <4>3. After(left, 0) = left /\ 0 \in Nat /\ 0 <= Ahead(stall)
        BY <1>7, <3>1, AfterIs
      <4>4. InFrames(receiver, After(left, Ahead(stall)), queue)
        BY <1>2, <1>7, <2>1, <3>1, <4>2, <4>3, ManyTaken
      <4> QED
        BY <4>4 DEF left
    <3>3. CASE ~whole
      BY <1>8, <3>3 DEF Stalled, Behind, InFrames
    <3> QED
      BY <3>2, <3>3
  <2>3. AllPlain(queue')
    BY <1>2, <1>4, <2>1, PlainSuffix
  <2> QED
    BY <1>2, <2>1, <2>2, <2>3 DEF LeavesFrames
<1>9. ASSUME PlainSoFar, ~whole'
      PROVE  Behind(receiver', Left', parser', queue', stall')
  <2> DEFINE left == Left'
  <2>1. /\ InFrames(receiver, After(left, Worse(n)), queue)
        /\ queue' = queue /\ receiver' = receiver
    BY <1>1, <1>4, <1>8, <1>9
  <2> HIDE DEF left
  <2>2. PICK r, k : Ends(receiver', After(left, Ahead(stall')), queue', r, k)
    BY <1>7, <2>1 DEF InFrames
  <2>3. Startless(receiver', r)
    BY <2>2 DEF Ends
  <2>4. Within(receiver', parser', r, stall')
    BY <1>3, <1>7, <2>3, WithinAtDamage
  <2>5. Behind(receiver', left, parser', queue', stall')
    BY <2>2, <2>4 DEF Behind
  <2> QED
    BY <2>5 DEF left
<1> QED
  BY <1>4, <1>5, <1>8, <1>9 DEF Stalled

(* The bytes that were read are dropped.                                   *)
LEMMA DropStalls ==
  ASSUME Line, Line', Stalled, Damage(0), chunk' = <<>>, UNCHANGED <<unsent, wire>>
  PROVE  Stalled'
<1> DEFINE o == Owed(unsent)
           rest == wire \o o
           a == Ahead(stall)
           s == receiver
           q == queue
<1>1. /\ unsent \in [Writers -> Seq(Byte)] /\ wire \in Seq(Byte) /\ chunk \in Seq(Byte)
      /\ q \in Seq(Frames) /\ stall \in Int
  BY DEF Line, LineTyped
<1>2. o \in Seq(Byte) /\ rest \in Seq(Byte) /\ Len(chunk) \in Nat
  BY <1>1, OwedIs, ConcatIsBytes, LenProperties
<1>3. Left = chunk \o rest /\ Left' = rest
  <2>1. (chunk \o wire) \o o = chunk \o rest
    <3> HIDE DEF o
    <3> QED
      BY <1>1, <1>2, Regroup
  <2>2. <<>> \o wire = wire
    BY <1>1, NoBytes
  <2>3. unsent' = unsent /\ wire' = wire
    OBVIOUS
  <2>4. Left' = LeftOf(<<>>, wire, unsent)
    BY <2>3, LeftIs
  <2> QED
    BY <2>1, <2>2, <2>4, LeftIs, Zenon DEF LeftOf
<1>4. a \in Nat /\ Worse(0) = a
  BY <1>1 DEF Ahead, Worse
<1> HIDE DEF rest, a
<1>5. ASSUME Fits(s, q), AllPlain(q), InFrames(s, After(chunk \o rest, a), q)
      PROVE  InFrames(s, After(rest, a), q)
  <2> DEFINE more == chunk \o rest
             m == Len(chunk) + a
  <2>1. more \in Seq(Byte) /\ m \in Nat /\ a <= m /\ After(more, m) = After(rest, a)
    <3>1. After(chunk \o rest, Len(chunk) + a) = After(rest, a)
      BY <1>1, <1>2, <1>4, AfterBehind
    <3>2. more \in Seq(Byte)
      BY <1>1, <1>2, ConcatIsBytes
    <3>3. m \in Nat /\ a <= m
      BY <1>2, <1>4
    <3> QED
      BY <3>1, <3>2, <3>3
  <2>2. InFrames(s, After(more, a), q)
    BY <1>5
  <2> HIDE DEF more, m, s, q
  <2>3. InFrames(s, After(more, m), q)
    BY <1>1, <1>4, <1>5, <2>1, <2>2, ManyTaken
  <2> QED
    BY <2>1, <2>3
<1>6. LeavesFrames(0)
  <2> SUFFICES ASSUME Fits(s, q), AllPlain(q), InFrames(s, After(Left, Ahead(stall)), q)
               PROVE  InFrames(s, After(Left', Worse(0)), q)
    BY DEF LeavesFrames
  <2>1. InFrames(s, After(chunk \o rest, a), q)
    BY <1>3 DEF a
  <2>2. InFrames(s, After(rest, a), q)
    BY <1>5, <2>1
  <2> HIDE DEF s, q
  <2> QED
    BY <1>3, <1>4, <2>2
<1>7. 0 \in Nat
  OBVIOUS
<1> QED
  BY <1>6, <1>7, DamageStalls

(* The rest of a frame is not written.                                     *)
LEMMA WriteFailsStalls ==
  ASSUME Line, Line', Stalled, NEW w \in Writers, WriteFails(w)
  PROVE  Stalled'
<1> DEFINE n == Len(chunk) + Len(wire)
<1>1. /\ unsent' = [unsent EXCEPT ![w] = <<>>] /\ chunk' = chunk /\ wire' = wire
      /\ unsent[w] # <<>> /\ Damage(n)
  BY DEF WriteFails
<1>2. /\ unsent \in [Writers -> Seq(Byte)] /\ wire \in Seq(Byte) /\ chunk \in Seq(Byte)
      /\ queue \in Seq(Frames) /\ stall \in Int /\ OneWriter
      /\ unsent' \in [Writers -> Seq(Byte)]
  BY DEF Line, LineTyped
<1>3. \A u \in Writers : unsent'[u] = <<>>
  BY <1>1, <1>2 DEF OneWriter
<1>4. Owed(unsent') = <<>>
  BY <1>2, <1>3, OwedIs
<1>5. Left' = chunk \o wire /\ Len(Left') = n /\ n \in Nat
  <2> DEFINE x == chunk \o wire
  <2>1. x \in Seq(Byte) /\ Len(x) = n /\ n \in Nat
    BY <1>2, ConcatProperties, LenProperties
  <2>2. Left' = x \o <<>>
    BY <1>1, <1>4, LeftIs, Zenon DEF LeftOf
  <2> HIDE DEF x
  <2>3. Left' = x
    BY <2>1, <2>2, ConcatEmptySeq
  <2> QED
    BY <2>1, <2>3 DEF x
<1>6. Worse(n) \in Nat /\ Worse(n) >= n
  <2> HIDE DEF n
  <2> QED
    BY <1>2, <1>5 DEF Worse, Ahead
<1>7. InFrames(receiver, After(Left', Worse(n)), queue)
  <2> DEFINE left == Left'
             m == Worse(n)
  <2>1. left \in Seq(Byte) /\ Len(left) = n /\ m \in Nat /\ m >= n
    BY <1>2, <1>5, <1>6, ConcatIsBytes
  <2> HIDE DEF left, m, n
  <2>2. After(left, m) = <<>>
    BY <2>1, AfterIs
  <2>3. InFrames(receiver, After(left, m), queue)
    BY <1>2, <2>2, NothingLeft DEF InFrames
  <2> QED
    BY <2>3 DEF left, m
<1>8. LeavesFrames(n)
  BY <1>7 DEF LeavesFrames
<1> QED
  BY <1>1, <1>5, <1>8, DamageStalls

(* A byte is lost on the line.                                             *)
LEMMA LoseByteStalls ==
  ASSUME Line, Line', Stalled, NEW i \in DOMAIN wire, LoseByte(i)
  PROVE  Stalled'
<1> DEFINE o == Owed(unsent)
           pre == SubSeq(wire, 1, i - 1)
           post == SubSeq(wire, i + 1, Len(wire))
           b == wire[i]
           u == chunk \o pre
           v == post \o o
           n == (Len(chunk) + i) - 1
           s == receiver
           q == queue
           a == Ahead(stall)
<1>1. wire' = pre \o post /\ UNCHANGED <<unsent, chunk, parser>> /\ Damage(n)
  BY DEF LoseByte, RemoveAt
<1>2. /\ unsent \in [Writers -> Seq(Byte)] /\ wire \in Seq(Byte) /\ chunk \in Seq(Byte)
      /\ q \in Seq(Frames) /\ stall \in Int /\ o \in Seq(Byte)
      /\ Len(chunk) \in Nat /\ Len(wire) \in Nat /\ i \in 1..Len(wire)
  BY OwedIs, LenProperties DEF Line, LineTyped
<1>3. /\ pre \in Seq(Byte) /\ post \in Seq(Byte) /\ b \in Byte /\ Len(pre) = i - 1
      /\ wire = pre \o Cons(b, post)
  <2> DEFINE all == SubSeq(wire, i, Len(wire))
             l == Len(wire)
  <2>1. i - 1 \in Nat /\ i - 1 <= l /\ (i - 1) + 1 = i /\ l \in i..l
    BY <1>2
  <2>2. pre \in Seq(Byte) /\ all \in Seq(Byte) /\ pre \o all = wire
    <3>1. /\ SubSeq(wire, 1, i - 1) \in Seq(Byte)
          /\ SubSeq(wire, (i - 1) + 1, l) \in Seq(Byte)
          /\ SubSeq(wire, 1, i - 1) \o SubSeq(wire, (i - 1) + 1, l) = wire
      BY <1>2, <2>1, SplitAt
    <3> QED
      BY <2>1, <3>1
  <2>3. all = <<b>> \o post
    BY <1>2, <2>1, SubSeqRecursiveFirst
  <2>4. i \in Nat /\ i <= l
    BY <1>2
  <2>5. post \in Seq(Byte)
    BY <1>2, <2>4, SplitAt
  <2>6. b \in Byte
    BY <1>2, LenProperties
  <2>7. Len(pre) = i - 1
    <3>1. 1 \in Int /\ i - 1 \in Int /\ \A j \in 1..(i - 1) : wire[j] \in Byte
      BY <1>2, LenProperties
    <3>2. Len(pre) = IF 1 <= i - 1 THEN (i - 1) - 1 + 1 ELSE 0
      BY <3>1, SubSeqProperties
    <3> HIDE DEF pre
    <3> QED
      BY <2>1, <3>2
  <2> HIDE DEF pre, post, all, b
  <2> QED
    BY <2>2, <2>3, <2>5, <2>6, <2>7 DEF Cons
<1> HIDE DEF pre, post, b
<1>4. u \in Seq(Byte) /\ v \in Seq(Byte) /\ Len(u) = n /\ n \in Nat
  <2>1. u \in Seq(Byte) /\ Len(u) = Len(chunk) + Len(pre)
    BY <1>2, <1>3, ConcatProperties
  <2>2. v \in Seq(Byte)
    BY <1>2, <1>3, ConcatIsBytes
  <2> HIDE DEF u, v
  <2> QED
    BY <1>2, <1>3, <2>1, <2>2
<1> HIDE DEF o, n
<1>5. Left' = u \o v
  <2>1. Left' = (chunk \o (pre \o post)) \o o
    BY <1>1, LeftIs, Zenon DEF LeftOf, o
  <2>2. u \in Seq(Byte) /\ post \in Seq(Byte) /\ o \in Seq(Byte) /\ chunk \in Seq(Byte)
        /\ pre \in Seq(Byte)
    BY <1>2, <1>3, <1>4, Zenon
  <2>3. chunk \o (pre \o post) = u \o post
    BY <2>2, Regroup, Zenon
  <2> HIDE DEF u
  <2>4. (u \o post) \o o = u \o (post \o o)
    BY <2>2, Regroup
  <2> QED
    BY <2>1, <2>3, <2>4, Zenon
<1>6. Left = u \o Cons(b, v)
  <2> DEFINE c == Cons(b, post)
  <2>1. Left = (chunk \o (pre \o c)) \o o
    BY <1>3, LeftIs, Zenon DEF LeftOf, o
  <2>2. c \in Seq(Byte) /\ c \o o = Cons(b, v)
    BY <1>2, <1>3, ConsIs, ConsConcat
  <2> HIDE DEF c, v
  <2>3. u \in Seq(Byte) /\ c \in Seq(Byte) /\ o \in Seq(Byte) /\ chunk \in Seq(Byte)
        /\ pre \in Seq(Byte)
    BY <1>2, <1>3, <1>4, <2>2, Zenon
  <2>4. chunk \o (pre \o c) = u \o c
    BY <2>3, Regroup, Zenon
  <2> HIDE DEF u
  <2>5. (u \o c) \o o = u \o (c \o o)
    BY <2>3, Regroup, Zenon
  <2> QED
    BY <2>1, <2>2, <2>4, <2>5, Zenon
<1> HIDE DEF u, v
<1>7. a \in Nat /\ Worse(n) = IF a < n THEN n ELSE a
  BY <1>2 DEF Ahead, Worse
<1> HIDE DEF a
<1>8. ASSUME Fits(s, q), AllPlain(q), InFrames(s, After(u \o Cons(b, v), a), q)
      PROVE  InFrames(s, After(u \o v, Worse(n)), q)
  <2> DEFINE m == Worse(n)
             j == m - n
             c == Cons(b, v)
             more == u \o c
  <2>1. m \in Nat /\ j \in Nat /\ n + j = m /\ n + (j + 1) = m + 1 /\ a <= m + 1
        /\ m + 1 \in Nat /\ j + 1 \in Nat
    BY <1>4, <1>7
  <2> HIDE DEF m, j
  <2>2. c \in Seq(Byte) /\ After(c, j + 1) = After(v, j)
    BY <1>3, <1>4, <2>1, ConsIs, AfterFirst
  <2>3. InFrames(s, After(more, a), q)
    BY <1>8
  <2> HIDE DEF c
  <2>4. more \in Seq(Byte)
    BY <1>4, <2>2, ConcatIsBytes
  <2>5. After(more, m + 1) = After(c, j + 1)
    <3>1. After(u \o c, Len(u) + (j + 1)) = After(c, j + 1)
      BY <1>4, <2>1, <2>2, AfterBehind
    <3> HIDE DEF more
    <3> QED
      BY <1>4, <2>1, <3>1 DEF more
  <2>6. After(u \o v, m) = After(v, j)
    BY <1>4, <2>1, AfterBehind
  <2> HIDE DEF more, s, q
  <2>7. InFrames(s, After(more, m + 1), q)
    BY <1>2, <1>7, <1>8, <2>1, <2>3, <2>4, ManyTaken
  <2>8. InFrames(s, After(u \o v, m), q)
    BY <2>2, <2>5, <2>6, <2>7
  <2> QED
    BY <2>8 DEF m
<1>9. LeavesFrames(n)
  <2> SUFFICES ASSUME Fits(s, q), AllPlain(q), InFrames(s, After(Left, Ahead(stall)), q)
               PROVE  InFrames(s, After(Left', Worse(n)), q)
    BY DEF LeavesFrames
  <2>1. InFrames(s, After(u \o Cons(b, v), a), q)
    BY <1>6 DEF a
  <2>2. InFrames(s, After(u \o v, Worse(n)), q)
    BY <1>8, <2>1
  <2> HIDE DEF s, q
  <2> QED
    BY <1>5, <2>2
<1> QED
  BY <1>1, <1>4, <1>9, DamageStalls

LEMMA NextStalls ==
  ASSUME Line, Stalled, [Next]_vars
  PROVE  Stalled'
<1>1. Line'
  BY NextKeeps
<1>2. ASSUME NEW w \in Writers, NEW f \in Frames, NEW n \in Cuts \cup {Len(Code[f])},
             BeginWrite(w, f, n)
      PROVE  Stalled'
  <2>1. n \in Nat
    BY Limits, CodeIs, LenProperties
  <2> QED
    BY <1>1, <1>2, <2>1, BeginWriteStalls
<1>3. ASSUME NEW w \in Writers, FinishWrite(w)
      PROVE  Stalled'
  BY <1>3, FinishWriteKeeps, MovingStalls DEF FinishWrite
<1>4. ASSUME NEW w \in Writers, WriteFails(w)
      PROVE  Stalled'
  BY <1>1, <1>4, WriteFailsStalls
<1>5. ASSUME NEW n \in 1..Len(wire), Read(n)
      PROVE  Stalled'
  BY <1>5, ReadKeeps, MovingStalls DEF Read
<1>6. CASE Feed
  BY <1>6, FeedStalls
<1>7. CASE HandlerRaises
  BY <1>1, <1>7, DropStalls DEF HandlerRaises
<1>8. CASE Restart
  BY <1>1, <1>8, DropStalls DEF Restart
<1>9. ASSUME NEW i \in DOMAIN wire, LoseByte(i)
      PROVE  Stalled'
  BY <1>1, <1>9, LoseByteStalls
<1>10. CASE UNCHANGED vars
  <2>1. UNCHANGED <<receiver, unsent, wire, chunk, parser, sent, queue, got, whole, faults, stall>>
    BY <1>10 DEF vars
  <2>2. Left' = Left
    BY <2>1, LeftIs, Zenon
  <2> QED
    BY <2>1, <2>2, MovingStalls
<1> QED
  BY <1>2, <1>3, <1>4, <1>5, <1>6, <1>7, <1>8, <1>9, <1>10, Zenon DEF Next

(* A parser that lost its step on a line of plain frames is in step again  *)
(* within the bytes of two of the longest frames, whatever was damaged and *)
(* how often (FrameParser, processSerialByte).                             *)
THEOREM StallIsBounded == Spec => []StallBounded
<1>1. ASSUME Line, Stalled
      PROVE  StallBounded
  <2> SUFFICES ASSUME ~whole, PlainSoFar
               PROVE  stall <= 2 * Longest
    BY DEF StallBounded
  <2>1. Behind(receiver, Left, parser, queue, stall)
    BY <1>1 DEF Stalled
  <2>2. PICK r, k : /\ Ends(receiver, After(Left, Ahead(stall)), queue, r, k)
                    /\ Within(receiver, parser, r, stall)
    BY <2>1 DEF Behind
  <2>3. ParserTyped(receiver, parser) /\ stall \in Int
    BY <1>1 DEF Line, LineTyped
  <2>4. Remaining(receiver, parser) \in 1..(5 + MaxLen(receiver)) /\ MaxLen(receiver) \in Nat
    BY <2>3, RemainingIs
  <2>5. Len(r) \in Nat
    BY <2>2, LenProperties DEF Ends, Startless
  <2>6. Longest = 6 + MaxLen(receiver) /\ Span(receiver) = Longest
    BY DEF Longest, Span
  <2>7. \/ stall + Len(r) <= 2 * Longest
        \/ stall + Remaining(receiver, parser) <= Longest + 1
    BY <2>2, <2>6 DEF Within
  <2> DEFINE left == Remaining(receiver, parser)
             max == MaxLen(receiver)
  <2>8. left \in 1..(5 + max) /\ max \in Nat
    BY <2>4
  <2> HIDE DEF left, max
  <2>9. \/ stall + Len(r) <= 2 * Longest
        \/ stall + left <= Longest + 1
    BY <2>7 DEF left
  <2>10. Longest = 6 + max
    BY <2>6 DEF max
  <2> QED
    BY <2>3, <2>5, <2>8, <2>9, <2>10
<1> QED
  BY <1>1, LineAtStart, NextKeeps, StalledAtStart, NextStalls, PTL DEF Spec
=============================================================================
