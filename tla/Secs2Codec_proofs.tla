-------------------------- MODULE Secs2Codec_proofs --------------------------
(***************************************************************************)
(* The packet format for every base of the bytes above 2, packet size and  *)
(* number of sensors that fit, ids, values and timestamps: the decoder     *)
(* gets back what the encoder was given, whatever the lengths of the       *)
(* length fields.                                                          *)
(***************************************************************************)
EXTENDS Secs2Codec, SequenceTheorems, WellFoundedInduction, TLAPS

(* The bytes of p from at on are s.                                        *)
At(p, at, s) == \A i \in 1 .. Len(s) : p[at + i - 1] = s[i]

Front == BodyHead(msg)
Numbers == Len(msg.sensors)
ItemStart(j) == Len(Front) + (j - 1) * ItemSize

TypeOK ==
  /\ msg \in Message /\ sys \in 0 .. SysWrap - 1
  /\ written \in Seq(Int)

(* What the encoder has written, what is in the packet, and how far the    *)
(* decoder is: after k readings both are at the same place.                *)
Built ==
  pc = "build" =>
    \E k \in 0 .. Numbers :
      /\ Len(written) = Len(Front) + k * ItemSize
      /\ At(written, 1, Front)
      /\ \A j \in 1 .. k : At(written, 1 + ItemStart(j), SensorItem(msg.sensors[j]))
Sent ==
  pc # "build" =>
    /\ packet[6] = 6 /\ packet[7] = 1
    /\ \E s \in 0 .. SysWrap - 1 :
         At(packet, 10, BigEndian(s, 4)) /\ sys = (s + 1) % SysWrap
    /\ At(packet, HeaderSize, Front)
    /\ \A j \in 1 .. Numbers :
         At(packet, HeaderSize + ItemStart(j), SensorItem(msg.sensors[j]))
HeaderRead ==
  pc \in {"head", "sensors", "parsed"} =>
    /\ header.stream = 6 /\ header.function = 1
    /\ (header.system_bytes + 1) % SysWrap = sys
HeadNext == pc = "head" => offset = HeaderSize
SensorsRead ==
  pc = "sensors" =>
    \E k \in 0 .. Numbers :
      /\ pkt = [timestamp |-> msg.timestamp, sensors |-> SubSeq(msg.sensors, 1, k)]
      /\ offset = HeaderSize + Len(Front) + k * ItemSize
      /\ pending = Numbers
PcOK == pc \in {"build", "send", "head", "sensors", "parsed"}
CodecInv ==
  /\ TypeOK /\ PcOK /\ Built /\ Sent
  /\ HeaderRead /\ HeadNext /\ SensorsRead /\ DecodedIsSent

-----------------------------------------------------------------------------
(* Arithmetic.                                                             *)
LEMMA ModDiv ==
  ASSUME NEW n \in Nat, NEW p \in Nat \ {0}
  PROVE  n \div p \in Nat /\ n % p \in 0 .. p - 1 /\ n = (p * (n \div p)) + (n % p)
BY Z3

LEMMA MulNat == ASSUME NEW a \in Nat, NEW b \in Nat PROVE a * b \in Nat
BY Z3

LEMMA MulPos == ASSUME NEW a \in Nat \ {0}, NEW b \in Nat \ {0} PROVE a * b \in Nat \ {0}
BY Z3

LEMMA MulMonotone ==
  ASSUME NEW a \in Nat, NEW b \in Nat, NEW c \in Nat, a <= b
  PROVE  a * c <= b * c
<1>1. (b - a) * c >= 0 /\ b * c = (a * c) + ((b - a) * c)
  BY Z3
<1>2. a * c \in Nat /\ b * c \in Nat /\ (b - a) * c \in Nat
  BY Z3
<1> QED BY <1>1, <1>2

(* A quotient is determined by its remainder's bounds.                     *)
LEMMA DivUnique ==
  ASSUME NEW n \in Nat, NEW p \in Nat \ {0}, NEW q \in Nat, NEW r \in 0 .. p - 1,
         n = (p * q) + r
  PROVE  n \div p = q
BY Z3

LEMMA DivExact ==
  ASSUME NEW k \in Nat, NEW p \in Nat \ {0}
  PROVE  (k * p) \div p = k
<1>1. k * p \in Nat /\ k * p = (p * k) + 0
  BY Z3
<1> QED BY <1>1, DivUnique

LEMMA DivDiv ==
  ASSUME NEW n \in Nat, NEW p \in Nat \ {0}, NEW b \in Nat \ {0}
  PROVE  (n \div p) \div b = n \div (b * p)
<1> DEFINE m == n \div p  s == n % p
<1>1. m \in Nat /\ s \in 0 .. p - 1 /\ n = (p * m) + s
  BY ModDiv
<1> HIDE DEF m, s
<1> DEFINE q == m \div b  r == m % b
<1>2. q \in Nat /\ r \in 0 .. b - 1 /\ m = (b * q) + r
  BY <1>1, ModDiv
<1> HIDE DEF q, r
<1> DEFINE t == (p * r) + s  c == b * p
<1>3. p * r \in Nat /\ t \in Nat /\ c \in Nat \ {0}
  BY <1>1, <1>2, MulNat, MulPos
<1>4. n = (c * q) + t
  <2>1. p * ((b * q) + r) = ((b * p) * q) + (p * r)
    BY <1>2, Z3
  <2> QED BY <1>1, <1>2, <1>3, <2>1
<1>5. t \in 0 .. c - 1
  <2>1. p * r <= p * (b - 1)
    <3>1. r * p <= (b - 1) * p
      BY <1>2, MulMonotone
    <3> QED BY <1>2, <3>1, Z3
  <2>2. p * (b - 1) = (b * p) - p /\ b * p \in Nat
    BY Z3
  <2> QED BY <1>1, <1>3, <2>1, <2>2
<1> HIDE DEF t, c
<1>6. n \div c = q
  BY <1>2, <1>3, <1>4, <1>5, DivUnique
<1> QED BY <1>6 DEF m, q, c

LEMMA DivOne == ASSUME NEW n \in Nat PROVE n \div 1 = n
BY Z3

LEMMA DivSmall == ASSUME NEW p \in Nat \ {0}, NEW n \in 0 .. p - 1 PROVE n \div p = 0
BY Z3

(* A set of numbers that is not empty has a least element.                 *)
LEMMA LeastOf ==
  ASSUME NEW T, T \subseteq Nat, T # {}
  PROVE  \E m \in T : \A j \in T : m <= j
<1>1. PICK m \in T : \A j \in T : ~ (<<j, m>> \in OpToRel(<, Nat))
  BY WFMin, NatLessThanWellFounded
<1>2. ASSUME NEW j \in T PROVE m <= j
  <2>1. m \in Nat /\ j \in Nat
    OBVIOUS
  <2>2. <<j, m>> \in Nat \X Nat /\ ~ (<<j, m>> \in OpToRel(<, Nat))
    BY <1>1, <2>1
  <2>3. ~ (j < m)
    BY <2>1, <2>2, Zenon DEF OpToRel
  <2> QED BY <2>1, <2>3
<1> QED BY <1>2

-----------------------------------------------------------------------------
(* Numbers: the powers of the base, and digits read back.  HornerTo is the *)
(* recursion of both, as a predicate of the function.                      *)
HornerTo(n, first, b, w) ==
  w = [k \in 0 .. n |-> IF k = 0 THEN first ELSE w[k - 1] * Base + b[k]]

LEMMA HornerReaches ==
  ASSUME NEW n \in Nat, NEW first, NEW b
  PROVE  \E w : HornerTo(n, first, b, w)
<1> DEFINE T == {k \in Nat : ~ \E w : HornerTo(k, first, b, w)}
<1> SUFFICES ASSUME T # {} PROVE FALSE
  OBVIOUS
<1>1. PICK m \in T : \A j \in T : m <= j
  BY LeastOf, T \subseteq Nat
<1>2. m \in Nat /\ ~ \E w : HornerTo(m, first, b, w)
  OBVIOUS
<1>3. m # 0
  <2>1. HornerTo(0, first, b, [k \in 0 .. 0 |-> first])
    BY DEF HornerTo
  <2> QED BY <1>2, <2>1
<1>4. m - 1 \in Nat /\ ~ (m <= m - 1)
  BY <1>2, <1>3
<1>5. PICK w : HornerTo(m - 1, first, b, w)
  BY <1>1, <1>4
<1> DEFINE x == [k \in 0 .. m |-> IF k = m THEN w[m - 1] * Base + b[m] ELSE w[k]]
<1>6. \A k \in 0 .. m - 1 : x[k] = w[k]
  BY <1>2, <1>4
<1>7. x[m] = w[m - 1] * Base + b[m]
  BY <1>2
<1>8. x = [k \in 0 .. m |-> x[k]]
  OBVIOUS
<1> HIDE DEF x
<1>9. ASSUME NEW k \in 0 .. m
      PROVE  x[k] = IF k = 0 THEN first ELSE x[k - 1] * Base + b[k]
  <2>1. CASE k = m
    <3>1. x[m - 1] = w[m - 1]
      BY <1>4, <1>6
    <3>2. x[m] = x[m - 1] * Base + b[m]
      BY <1>7, <3>1
    <3> QED BY <1>3, <2>1, <3>2
  <2>2. CASE k # m
    <3>1. k \in 0 .. m - 1 /\ x[k] = w[k]
      BY <1>2, <1>6, <2>2
    <3>2. w[k] = IF k = 0 THEN first ELSE w[k - 1] * Base + b[k]
      BY <1>5, <3>1 DEF HornerTo
    <3>3. k # 0 => k - 1 \in 0 .. m - 1
      BY <1>2, <3>1
    <3>4. k # 0 => x[k - 1] = w[k - 1]
      BY <1>6, <3>3
    <3> QED BY <3>1, <3>2, <3>4
  <2> QED BY <2>1, <2>2
<1>10. HornerTo(m, first, b, x)
  BY <1>8, <1>9 DEF HornerTo
<1> QED BY <1>2, <1>10

LEMMA PowerIs ==
  \A k \in 0 .. 8 : Power[k] = IF k = 0 THEN 1 ELSE Base * Power[k - 1]
<1> DEFINE zeros == [k \in 0 .. 8 |-> 0]
<1>1. PICK w : HornerTo(8, 1, zeros, w)
  BY HornerReaches
<1>2. \A k \in 0 .. 8 : w[k] = IF k = 0 THEN 1 ELSE w[k - 1] * Base + 0
  BY <1>1 DEF HornerTo
<1>3. w[0] = 1 /\ Base \in Nat
  BY <1>2, CodecAssumption
<1>4. ASSUME NEW k \in 0 .. 7, w[k] \in Nat PROVE w[k + 1] \in Nat /\ w[k + 1] = Base * w[k]
  <2>1. k + 1 \in 0 .. 8 /\ k + 1 # 0 /\ (k + 1) - 1 = k
    OBVIOUS
  <2>2. w[k + 1] = w[k] * Base + 0
    BY <1>2, <2>1
  <2>3. w[k] * Base \in Nat /\ w[k] * Base = Base * w[k]
    BY <1>3, <1>4, Z3
  <2> QED BY <2>2, <2>3
<1>5. w[1] \in Nat /\ w[2] \in Nat /\ w[3] \in Nat /\ w[4] \in Nat
  <2>1. w[0 + 1] \in Nat
    BY <1>3, <1>4
  <2>2. w[1 + 1] \in Nat
    BY <1>4, <2>1
  <2>3. w[2 + 1] \in Nat
    BY <1>4, <2>2
  <2>4. w[3 + 1] \in Nat
    BY <1>4, <2>3
  <2> QED BY <2>1, <2>2, <2>3, <2>4
<1>6. w[5] \in Nat /\ w[6] \in Nat /\ w[7] \in Nat /\ w[8] \in Nat
  <2>1. w[4 + 1] \in Nat
    BY <1>5, <1>4
  <2>2. w[5 + 1] \in Nat
    BY <1>4, <2>1
  <2>3. w[6 + 1] \in Nat
    BY <1>4, <2>2
  <2>4. w[7 + 1] \in Nat
    BY <1>4, <2>3
  <2> QED BY <2>1, <2>2, <2>3, <2>4
<1>7. \A k \in 0 .. 8 : w[k] \in Nat
  BY <1>3, <1>5, <1>6
<1>8. ASSUME NEW k \in 0 .. 8 PROVE w[k] = IF k = 0 THEN 1 ELSE Base * w[k - 1]
  <2>1. CASE k = 0
    BY <1>3, <2>1
  <2>2. CASE k # 0
    <3>1. k - 1 \in 0 .. 7 /\ (k - 1) + 1 = k /\ k - 1 \in 0 .. 8
      BY <2>2
    <3> QED BY <1>4, <1>7, <3>1, <2>2
  <2> QED BY <2>1, <2>2
<1>9. w = [k \in 0 .. 8 |-> IF k = 0 THEN 1 ELSE Base * w[k - 1]]
  <2>1. w = [k \in 0 .. 8 |-> w[k]]
    BY <1>1 DEF HornerTo
  <2> QED BY <1>8, <2>1
<1>10. Power = [k \in 0 .. 8 |-> IF k = 0 THEN 1 ELSE Base * Power[k - 1]]
  BY <1>9 DEF Power
<1> QED BY <1>10

LEMMA PowerStep ==
  ASSUME NEW k \in 0 .. 7
  PROVE  Power[k + 1] = Base * Power[k]
<1>1. k + 1 \in 0 .. 8 /\ k + 1 # 0 /\ (k + 1) - 1 = k
  OBVIOUS
<1> QED BY <1>1, PowerIs

LEMMA PowerPos == \A k \in 0 .. 8 : Power[k] \in Nat \ {0}
<1> DEFINE T == {k \in 0 .. 8 : Power[k] \notin Nat \ {0}}
<1> SUFFICES ASSUME T # {} PROVE FALSE
  OBVIOUS
<1>1. PICK m \in T : \A j \in T : m <= j
  BY LeastOf, T \subseteq Nat
<1>2. m # 0
  BY PowerIs
<1>3. m - 1 \in 0 .. 7 /\ (m - 1) + 1 = m /\ ~ (m <= m - 1) /\ m - 1 \in 0 .. 8
  BY <1>2
<1>4. Power[m - 1] \in Nat \ {0}
  BY <1>1, <1>3
<1>5. Power[m] = Base * Power[m - 1]
  BY <1>3, PowerStep
<1> QED BY <1>4, <1>5, MulPos, CodecAssumption

LEMMA BaseSquare == Power[1] = Base /\ Power[2] \in Nat /\ Power[2] > 8 /\ Power[2] > Base
<1>1. Power[0] = 1
  BY PowerIs
<1>2. Power[0 + 1] = Base * Power[0] /\ Power[1 + 1] = Base * Power[1]
  BY PowerStep
<1>3. Power[1] = Base /\ Power[2] = Base * Base
  BY <1>1, <1>2, CodecAssumption
<1>4. 3 * 3 <= Base * 3 /\ Base * 3 <= Base * Base
  BY CodecAssumption, MulMonotone, Z3
<1>5. Base * Base \in Nat
  BY CodecAssumption, MulNat
<1> QED BY <1>3, <1>4, <1>5, CodecAssumption

(* The digits of a number below Base^size make the number again.           *)
LEMMA NumberIs ==
  ASSUME NEW at \in Nat, NEW size \in 1 .. 8, NEW n \in 0 .. Power[size] - 1,
         At(packet, at, BigEndian(n, size))
  PROVE  Number(at, size) = n
<1> DEFINE b == [k \in 1 .. size |-> packet[at + k - 1]]
<1>1. PICK d : HornerTo(size, 0, b, d)
  BY HornerReaches, size \in Nat
<1>2. ASSUME NEW k \in 0 .. size
      PROVE  d[k] = IF k = 0 THEN 0 ELSE d[k - 1] * Base + packet[at + k - 1]
  <2>1. d[k] = IF k = 0 THEN 0 ELSE d[k - 1] * Base + b[k]
    <3> HIDE DEF b
    <3> QED BY <1>1 DEF HornerTo
  <2>2. k # 0 => b[k] = packet[at + k - 1]
    OBVIOUS
  <2> HIDE DEF b
  <2> QED BY <2>1, <2>2
<1>3. d = [k \in 0 .. size |-> IF k = 0 THEN 0 ELSE d[k - 1] * Base + packet[at + k - 1]]
  <2>1. d = [k \in 0 .. size |-> d[k]]
    BY <1>1 DEF HornerTo
  <2> QED BY <1>2, <2>1
<1>4. PICK e : /\ e = [k \in 0 .. size |->
                         IF k = 0 THEN 0 ELSE e[k - 1] * Base + packet[at + k - 1]]
               /\ Number(at, size) = e[size]
  BY <1>3 DEF Number
<1>5. ASSUME NEW k \in 0 .. size
      PROVE  e[k] = IF k = 0 THEN 0 ELSE e[k - 1] * Base + packet[at + k - 1]
  BY <1>4
<1> HIDE DEF b
<1>6. ASSUME NEW k \in 1 .. size
      PROVE  packet[at + k - 1] = (n \div Power[size - k]) % Base
  <2>1. k \in 1 .. Len(BigEndian(n, size)) /\ BigEndian(n, size)[k] = (n \div Power[size - k]) % Base
    BY DEF BigEndian
  <2> QED BY <2>1 DEF At
<1> DEFINE T == {k \in 0 .. size : e[k] # n \div Power[size - k]}
<1>7. T = {}
  <2> SUFFICES ASSUME T # {} PROVE FALSE
    OBVIOUS
  <2>1. PICK m \in T : \A j \in T : m <= j
    BY LeastOf, T \subseteq Nat
  <2>2. m # 0
    <3>1. size - 0 = size /\ size \in 0 .. 8
      OBVIOUS
    <3>2. n \div Power[size] = 0
      BY <3>1, PowerPos, DivSmall
    <3> QED BY <1>5, <3>1, <3>2
  <2>3. m - 1 \in 0 .. size /\ ~ (m <= m - 1) /\ m \in 1 .. size
    BY <2>2
  <2> DEFINE j == size - m  p == Power[j]
  <2>4. j \in 0 .. 7 /\ size - (m - 1) = j + 1 /\ j \in 0 .. 8
    BY <2>3
  <2>5. e[m - 1] = n \div Power[j + 1]
    BY <2>1, <2>3, <2>4
  <2> HIDE DEF j
  <2> DEFINE q == n \div p
  <2>6. /\ p \in Nat \ {0} /\ Power[j + 1] = Base * p
        /\ n \in Nat /\ q \in Nat /\ Base \in Nat \ {0}
    <3>1. p \in Nat \ {0} /\ Power[j + 1] = Base * p
      BY <2>4, PowerPos, PowerStep
    <3>2. n \in Nat
      BY PowerPos, size \in 0 .. 8
    <3> HIDE DEF p
    <3>3. q \in Nat
      BY <3>1, <3>2, ModDiv
    <3> QED BY <3>1, <3>2, <3>3, CodecAssumption
  <2>7. e[m - 1] = q \div Base
    <3>1. (n \div p) \div Base = n \div (Base * p)
      <4> HIDE DEF p
      <4> QED BY <2>6, DivDiv
    <3>2. e[m - 1] = n \div (Base * p)
      BY <2>5, <2>6, Zenon
    <3> QED BY <3>1, <3>2, Zenon
  <2>8. e[m] = e[m - 1] * Base + packet[at + m - 1]
    BY <1>5, <2>3
  <2>9. packet[at + m - 1] = q % Base
    BY <1>6, <2>3 DEF j
  <2>10. e[m] = e[m - 1] * Base + (q % Base)
    BY <2>8, <2>9, Zenon
  <2> HIDE DEF q, p
  <2>11. e[m] = ((q \div Base) * Base) + (q % Base)
    BY <2>7, <2>10
  <2>12. e[m] = q
    <3> DEFINE x == q \div Base  y == q % Base
    <3>0. q \in Nat /\ Base \in Nat \ {0}
      BY <2>6
    <3>1. x \in Nat /\ y \in 0 .. Base - 1 /\ q = (Base * x) + y
      BY <3>0, ModDiv, Zenon
    <3> HIDE DEF x, y
    <3>2. e[m] = (x * Base) + y
      BY <2>11 DEF x, y
    <3>3. x * Base = Base * x
      BY <2>6, <3>1, Z3
    <3> QED BY <3>1, <3>2, <3>3
  <2> QED BY <2>3, <2>12 DEF q, j, p
<1>8. e[size] = n \div Power[0]
  BY <1>7
<1> QED BY <1>4, <1>8, PowerIs, DivOne

-----------------------------------------------------------------------------
(* Sequences at a place of the packet.                                     *)
LEMMA ConcatIs ==
  ASSUME NEW s \in Seq(Int), NEW t \in Seq(Int)
  PROVE  /\ s \o t \in Seq(Int) /\ Len(s \o t) = Len(s) + Len(t)
         /\ \A i \in 1 .. Len(s) : (s \o t)[i] = s[i]
         /\ \A i \in 1 .. Len(t) : (s \o t)[Len(s) + i] = t[i]
BY ConcatProperties

LEMMA AtConcat ==
  ASSUME NEW p, NEW at \in Int, NEW s \in Seq(Int), NEW t \in Seq(Int),
         At(p, at, s \o t)
  PROVE  At(p, at, s) /\ At(p, at + Len(s), t)
<1>1. /\ Len(s \o t) = Len(s) + Len(t)
      /\ \A i \in 1 .. Len(s) : (s \o t)[i] = s[i]
      /\ \A i \in 1 .. Len(t) : (s \o t)[Len(s) + i] = t[i]
  BY ConcatProperties
<1>2. Len(s) \in Nat /\ Len(t) \in Nat
  OBVIOUS
<1>3. ASSUME NEW i \in 1 .. Len(s) PROVE p[at + i - 1] = s[i]
  <2>1. i \in 1 .. Len(s \o t)
    BY <1>1, <1>2
  <2> QED BY <1>1, <2>1 DEF At
<1>4. ASSUME NEW i \in 1 .. Len(t) PROVE p[(at + Len(s)) + i - 1] = t[i]
  <2>1. Len(s) + i \in 1 .. Len(s \o t) /\ at + (Len(s) + i) - 1 = (at + Len(s)) + i - 1
    BY <1>1, <1>2
  <2> QED BY <1>1, <2>1 DEF At
<1> QED BY <1>3, <1>4 DEF At

LEMMA AtPrefix ==
  ASSUME NEW w \in Seq(Int), NEW t \in Seq(Int), NEW s, NEW at \in Nat \ {0},
         Len(s) \in Nat, (at + Len(s)) - 1 <= Len(w), At(w, at, s)
  PROVE  At(w \o t, at, s)
<1>1. \A i \in 1 .. Len(w) : (w \o t)[i] = w[i]
  BY ConcatProperties
<1>2. ASSUME NEW i \in 1 .. Len(s) PROVE (w \o t)[at + i - 1] = s[i]
  <2>1. at + i - 1 \in 1 .. Len(w)
    OBVIOUS
  <2> QED BY <1>1, <2>1 DEF At
<1> QED BY <1>2 DEF At

LEMMA AtEnd ==
  ASSUME NEW w \in Seq(Int), NEW t \in Seq(Int)
  PROVE  At(w \o t, 1 + Len(w), t)
<1>1. \A i \in 1 .. Len(t) : (w \o t)[Len(w) + i] = t[i]
  BY ConcatProperties
<1>2. \A i \in 1 .. Len(t) : (1 + Len(w)) + i - 1 = Len(w) + i
  OBVIOUS
<1> QED BY <1>1, <1>2 DEF At

-----------------------------------------------------------------------------
(* Items: how long they are and what the decoder reads of them.            *)
Formats == {SECS_L, SECS_U2, SECS_U8, SECS_F4}
Lengths == 0 .. Power[2] - 1

LEMMA LengthBytesOf ==
  ASSUME NEW len \in Lengths
  PROVE  LengthBytes(len) \in {1, 2} /\ len \in 0 .. Power[LengthBytes(len)] - 1
BY BaseSquare, CodecAssumption DEF LengthBytes, Lengths

LEMMA DigitsSeq ==
  ASSUME NEW n \in Nat, NEW size \in 0 .. 8
  PROVE  BigEndian(n, size) \in Seq(Int) /\ Len(BigEndian(n, size)) = size
<1>1. ASSUME NEW i \in 1 .. size PROVE (n \div Power[size - i]) % Base \in Int
  <2>1. size - i \in 0 .. 8
    OBVIOUS
  <2>2. Power[size - i] \in Nat \ {0}
    BY <2>1, PowerPos
  <2>3. n \div Power[size - i] \in Nat
    BY <2>2, ModDiv
  <2>4. Base \in Nat \ {0}
    BY CodecAssumption
  <2>5. (n \div Power[size - i]) % Base \in 0 .. Base - 1
    BY <2>3, <2>4, ModDiv
  <2> QED BY <2>4, <2>5
<1>2. BigEndian(n, size) \in [1 .. size -> Int]
  BY <1>1 DEF BigEndian
<1> QED BY <1>2, size \in Nat

LEMMA HeaderSeq ==
  ASSUME NEW type \in Formats, NEW len \in Lengths
  PROVE  /\ ItemHeader(type, len) \in Seq(Int)
         /\ Len(ItemHeader(type, len)) = 1 + LengthBytes(len)
<1> DEFINE f == <<type + LengthBytes(len) - 1>>  d == BigEndian(len, LengthBytes(len))
<1>1. type \in Int /\ LengthBytes(len) \in {1, 2} /\ len \in Nat
  BY LengthBytesOf, BaseSquare DEF Formats, Lengths, SECS_L, SECS_U2, SECS_U8, SECS_F4
<1>2. f \in Seq(Int) /\ Len(f) = 1
  BY <1>1
<1>3. d \in Seq(Int) /\ Len(d) = LengthBytes(len)
  <2>1. LengthBytes(len) \in 0 .. 8
    BY <1>1
  <2> QED BY <1>1, <2>1, DigitsSeq
<1> HIDE DEF f, d
<1>4. f \o d \in Seq(Int) /\ Len(f \o d) = 1 + LengthBytes(len)
  <2>1. f \o d \in Seq(Int) /\ Len(f \o d) = Len(f) + Len(d)
    BY <1>2, <1>3, ConcatProperties
  <2> QED BY <1>2, <1>3, <2>1, Zenon
<1> QED BY <1>4 DEF ItemHeader, f, d

LEMMA HeaderAt ==
  ASSUME NEW at \in Nat, NEW type \in Formats, NEW len \in Lengths,
         At(packet, at, ItemHeader(type, len))
  PROVE  /\ GET_LEN_BYTES(packet[at]) = LengthBytes(len)
         /\ Number(at + 1, LengthBytes(len)) = len
         /\ ListHeaderSize(at) = Len(ItemHeader(type, len))
<1> DEFINE f == <<type + LengthBytes(len) - 1>>  d == BigEndian(len, LengthBytes(len))
<1>1. /\ type \in Int /\ LengthBytes(len) \in {1, 2} /\ len \in Nat
      /\ len \in 0 .. Power[LengthBytes(len)] - 1
  BY LengthBytesOf, BaseSquare DEF Formats, Lengths, SECS_L, SECS_U2, SECS_U8, SECS_F4
<1>2. f \in Seq(Int) /\ Len(f) = 1 /\ f[1] = type + LengthBytes(len) - 1
  BY <1>1
<1>3. d \in Seq(Int)
  <2>1. LengthBytes(len) \in 0 .. 8
    BY <1>1
  <2> QED BY <1>1, <2>1, DigitsSeq
<1>4. At(packet, at, f \o d)
  BY DEF ItemHeader
<1> HIDE DEF f
<1>5. At(packet, at, f) /\ At(packet, at + 1, d)
  <2> HIDE DEF d
  <2>1. at \in Int
    OBVIOUS
  <2>2. At(packet, at, f) /\ At(packet, at + Len(f), d)
    BY <1>2, <1>3, <1>4, <2>1, AtConcat, Zenon
  <2> QED BY <1>2, <2>2, Zenon
<1>6. packet[at] = type + LengthBytes(len) - 1
  <2>1. packet[at + 1 - 1] = f[1]
    BY <1>2, <1>5 DEF At
  <2> QED BY <1>2, <2>1
<1>7. GET_LEN_BYTES(packet[at]) = LengthBytes(len)
  <2>1. \/ packet[at] \in {1, 169, 161, 145} /\ LengthBytes(len) = 1
        \/ packet[at] \in {2, 170, 162, 146} /\ LengthBytes(len) = 2
    BY <1>1, <1>6 DEF Formats, SECS_L, SECS_U2, SECS_U8, SECS_F4
  <2>2. 1 % 4 = 1 /\ 169 % 4 = 1 /\ 161 % 4 = 1 /\ 145 % 4 = 1
    BY Z3
  <2>3. 2 % 4 = 2 /\ 170 % 4 = 2 /\ 162 % 4 = 2 /\ 146 % 4 = 2
    BY Z3
  <2> QED BY <2>1, <2>2, <2>3 DEF GET_LEN_BYTES
<1>8. Number(at + 1, LengthBytes(len)) = len
  <2>1. LengthBytes(len) \in 1 .. 8 /\ at + 1 \in Nat
    BY <1>1
  <2> QED BY <1>1, <1>5, <2>1, NumberIs
<1>9. ListHeaderSize(at) = Len(ItemHeader(type, len))
  BY <1>7, HeaderSeq DEF ListHeaderSize
<1> QED BY <1>7, <1>8, <1>9

(* A value of the size the decoder expects.                                *)
LEMMA ItemSeq ==
  ASSUME NEW type \in Formats, NEW size \in {2, 4, 8}, NEW n \in Nat
  PROVE  /\ Item(type, n, size) \in Seq(Int)
         /\ Len(Item(type, n, size)) = 1 + LengthBytes(size) + size
         /\ Len(Item(type, n, size)) \in Nat
<1> DEFINE h == ItemHeader(type, size)  d == BigEndian(n, size)
<1>1. size \in Lengths /\ size \in 0 .. 8
  BY BaseSquare DEF Lengths
<1>2. h \in Seq(Int) /\ Len(h) = 1 + LengthBytes(size)
  BY <1>1, HeaderSeq
<1>3. d \in Seq(Int) /\ Len(d) = size
  BY <1>1, DigitsSeq
<1> HIDE DEF h, d
<1>4. h \o d \in Seq(Int) /\ Len(h \o d) = 1 + LengthBytes(size) + size
  BY <1>2, <1>3, ConcatProperties
<1>5. Len(h \o d) \in Nat
  BY <1>4
<1> QED BY <1>4, <1>5 DEF Item, h, d

LEMMA ItemAt ==
  ASSUME NEW at \in Nat, NEW type \in Formats, NEW size \in {2, 4, 8},
         NEW n \in 0 .. Power[size] - 1, NEW old,
         At(packet, at, Item(type, n, size))
  PROVE  ParsedItem(at, size, old) = [value |-> n, size |-> Len(Item(type, n, size))]
<1> DEFINE h == ItemHeader(type, size)  d == BigEndian(n, size)  lb == LengthBytes(size)
<1>1. size \in Lengths /\ size \in 0 .. 8 /\ size \in 1 .. 8 /\ n \in Nat
  BY BaseSquare, PowerPos DEF Lengths
<1>2. h \in Seq(Int) /\ Len(h) = 1 + lb /\ lb \in {1, 2}
  BY <1>1, HeaderSeq, LengthBytesOf
<1>3. d \in Seq(Int)
  BY <1>1, DigitsSeq
<1>4. At(packet, at, h \o d)
  BY DEF Item
<1>5. At(packet, at, h) /\ At(packet, at + (1 + lb), d)
  <2> HIDE DEF h, d, lb
  <2>1. at \in Int
    OBVIOUS
  <2>2. At(packet, at, h) /\ At(packet, at + Len(h), d)
    BY <1>2, <1>3, <1>4, <2>1, AtConcat, Zenon
  <2> QED BY <1>2, <2>2, Zenon
<1>6. GET_LEN_BYTES(packet[at]) = lb /\ Number(at + 1, lb) = size
  BY <1>1, <1>5, HeaderAt
<1>7. Number(at + (1 + lb), size) = n
  <2>1. at + (1 + lb) \in Nat
    BY <1>2
  <2> QED BY <1>1, <1>5, <2>1, NumberIs
<1>8. at + (1 + lb) = at + 1 + lb
  BY <1>2
<1>9. Len(Item(type, n, size)) = 1 + lb + size
  BY <1>1, ItemSeq
<1> HIDE DEF lb
<1> QED BY <1>6, <1>7, <1>8, <1>9 DEF ParsedItem

-----------------------------------------------------------------------------
(* Messages: the fields, the length of what is written, and that it fits.  *)
LEMMA MessageIs ==
  ASSUME NEW m \in Message
  PROVE  /\ Len(m.sensors) \in 1 .. MaxSensors
         /\ m.sensors \in Seq(Reading)
         /\ m.timestamp \in Timestamps
         /\ m = [timestamp |-> m.timestamp, sensors |-> m.sensors]
<1>1. PICK n \in 1 .. MaxSensors : m \in Messages(n)
  BY DEF Message
<1>2. /\ m.sensors \in [1 .. n -> Reading] /\ m.timestamp \in Timestamps
      /\ m = [timestamp |-> m.timestamp, sensors |-> m.sensors]
  BY <1>1 DEF Messages
<1>3. m.sensors \in Seq(Reading) /\ Len(m.sensors) = n
  <2> DEFINE s == m.sensors
  <2>1. s \in [1 .. n -> Reading] /\ n \in Nat
    BY <1>2
  <2> HIDE DEF s
  <2>2. s \in Seq(Reading) /\ Len(s) = n
    BY <2>1
  <2> QED BY <2>2 DEF s
<1> QED BY <1>1, <1>2, <1>3

LEMMA ReadingIs ==
  ASSUME NEW r \in Reading
  PROVE  /\ r[1] \in 0 .. Power[2] - 1 /\ r[2] \in 0 .. Power[4] - 1
         /\ r[1] \in Nat /\ r[2] \in Nat
         /\ r = <<r[1], r[2]>>
<1>1. r[1] \in Ids /\ r[2] \in Floats /\ r = <<r[1], r[2]>>
  BY DEF Reading
<1>2. Power[2] \in Nat /\ Power[4] \in Nat
  BY PowerPos
<1> QED BY <1>1, <1>2, CodecAssumption

ItemLength == (1 + LengthBytes(2)) + (1 + LengthBytes(2) + 2) + (1 + LengthBytes(4) + 4)

LEMMA SensorItemSeq ==
  ASSUME NEW r, r[1] \in Nat, r[2] \in Nat
  PROVE  /\ SensorItem(r) \in Seq(Int)
         /\ Len(SensorItem(r)) = ItemLength
<1> DEFINE h == ItemHeader(SECS_L, 2)
           i == Item(SECS_U2, r[1], 2)
           v == Item(SECS_F4, r[2], 4)
<1>1. 2 \in Lengths /\ SECS_L \in Formats /\ SECS_U2 \in Formats /\ SECS_F4 \in Formats
  BY BaseSquare DEF Lengths, Formats
<1>2. h \in Seq(Int) /\ Len(h) = 1 + LengthBytes(2)
  BY <1>1, HeaderSeq
<1>3. i \in Seq(Int) /\ Len(i) = 1 + LengthBytes(2) + 2
  BY <1>1, ItemSeq
<1>4. v \in Seq(Int) /\ Len(v) = 1 + LengthBytes(4) + 4
  BY <1>1, ItemSeq
<1> HIDE DEF h, i, v
<1>5. h \o i \in Seq(Int) /\ Len(h \o i) = Len(h) + Len(i)
  BY <1>2, <1>3, ConcatProperties
<1>6. (h \o i) \o v \in Seq(Int) /\ Len((h \o i) \o v) = Len(h \o i) + Len(v)
  BY <1>4, <1>5, ConcatProperties
<1>7. Len((h \o i) \o v) = ItemLength
  BY <1>2, <1>3, <1>4, <1>5, <1>6, Zenon DEF ItemLength
<1> QED BY <1>6, <1>7 DEF SensorItem, h, i, v

LEMMA ItemSizeIs == ItemSize = ItemLength /\ ItemSize \in Nat \ {0}
<1>1. ItemSize = ItemLength
  BY SensorItemSeq DEF ItemSize
<1>2. LengthBytes(2) \in {1, 2} /\ LengthBytes(4) \in {1, 2}
  BY LengthBytesOf, BaseSquare DEF Lengths
<1> QED BY <1>1, <1>2 DEF ItemLength

HeadLength(n) ==
  (1 + LengthBytes(3)) + (1 + LengthBytes(8) + 8) + (1 + LengthBytes(2) + 2)
    + (1 + LengthBytes(n))

LEMMA HeadSeq ==
  ASSUME NEW m, m.timestamp \in Nat, Len(m.sensors) \in Lengths
  PROVE  /\ BodyHead(m) \in Seq(Int)
         /\ Len(BodyHead(m)) = HeadLength(Len(m.sensors))
<1> DEFINE n == Len(m.sensors)
           h == ItemHeader(SECS_L, 3)
           t == Item(SECS_U8, m.timestamp, 8)
           c == Item(SECS_U2, n, 2)
           l == ItemHeader(SECS_L, n)
<1>1. /\ 3 \in Lengths /\ SECS_L \in Formats /\ SECS_U2 \in Formats /\ SECS_U8 \in Formats
      /\ n \in Nat
  BY BaseSquare DEF Lengths, Formats
<1>2. h \in Seq(Int) /\ Len(h) = 1 + LengthBytes(3)
  BY <1>1, HeaderSeq
<1>3. t \in Seq(Int) /\ Len(t) = 1 + LengthBytes(8) + 8
  BY <1>1, ItemSeq
<1>4. c \in Seq(Int) /\ Len(c) = 1 + LengthBytes(2) + 2
  BY <1>1, ItemSeq
<1>5. l \in Seq(Int) /\ Len(l) = 1 + LengthBytes(n)
  BY <1>1, HeaderSeq
<1> HIDE DEF h, t, c, l
<1>6. h \o t \in Seq(Int) /\ Len(h \o t) = Len(h) + Len(t)
  BY <1>2, <1>3, ConcatProperties
<1>7. (h \o t) \o c \in Seq(Int) /\ Len((h \o t) \o c) = Len(h \o t) + Len(c)
  BY <1>4, <1>6, ConcatProperties
<1>8. /\ ((h \o t) \o c) \o l \in Seq(Int)
      /\ Len(((h \o t) \o c) \o l) = Len((h \o t) \o c) + Len(l)
  BY <1>5, <1>7, ConcatProperties
<1>9. Len(((h \o t) \o c) \o l) = HeadLength(n)
  BY <1>2, <1>3, <1>4, <1>5, <1>6, <1>7, <1>8, Zenon DEF HeadLength
<1> QED BY <1>8, <1>9 DEF BodyHead, h, t, c, l

(* A message's timestamp and number of readings fit their fields.          *)
LEMMA MessageFits ==
  ASSUME NEW m \in Message
  PROVE  /\ m.timestamp \in 0 .. Power[8] - 1 /\ m.timestamp \in Nat
         /\ Len(m.sensors) \in Lengths /\ Len(m.sensors) \in Nat
         /\ BodyHead(m) \in Seq(Int)
         /\ Len(BodyHead(m)) = HeadLength(Len(m.sensors))
         /\ Len(BodyHead(m)) \in Nat
<1>1. m.timestamp \in 0 .. Power[8] - 1 /\ m.timestamp \in Nat
  BY MessageIs, CodecAssumption, PowerPos
<1>2. Len(m.sensors) \in Lengths /\ Len(m.sensors) \in Nat
  BY MessageIs, CodecAssumption, BaseSquare DEF Lengths
<1>3. /\ BodyHead(m) \in Seq(Int)
      /\ Len(BodyHead(m)) = HeadLength(Len(m.sensors))
  BY <1>1, <1>2, HeadSeq
<1> QED BY <1>1, <1>2, <1>3

(* A message of any length the program makes fits into the packet.         *)
LEMMA PacketHolds ==
  ASSUME NEW m \in Message
  PROVE  HeaderSize + Len(BodyHead(m)) + Len(m.sensors) * ItemSize <= FixedSize
<1> DEFINE full == [timestamp |-> 0, sensors |-> [i \in 1 .. MaxSensors |-> <<0, 0>>]]
           n == Len(m.sensors)
<1>1. MaxSensors \in Nat /\ n \in 1 .. MaxSensors /\ MaxSensors \in Lengths /\ n \in Nat
  BY MessageIs, CodecAssumption, BaseSquare DEF Lengths
<1>2. full.timestamp \in Nat /\ Len(full.sensors) = MaxSensors
  BY <1>1
<1>3. Len(BodyHead(full)) = HeadLength(MaxSensors)
  <2> HIDE DEF full
  <2> QED BY <1>1, <1>2, HeadSeq
<1>4. Len(BodyHead(m)) = HeadLength(n)
  BY MessageFits
<1>5. HeaderSize + (HeadLength(MaxSensors) + MaxSensors * ItemSize) <= FixedSize
  BY <1>3, CodecAssumption, Zenon DEF BodySize
<1> HIDE DEF full, n
<1>6. n * ItemSize <= MaxSensors * ItemSize
  BY <1>1, ItemSizeIs, MulMonotone
<1>7. n * ItemSize \in Nat /\ MaxSensors * ItemSize \in Nat
  BY <1>1, ItemSizeIs, MulNat
<1>8. LengthBytes(n) <= LengthBytes(MaxSensors)
  BY <1>1, BaseSquare, CodecAssumption DEF LengthBytes, Lengths
<1>9. /\ LengthBytes(n) \in {1, 2} /\ LengthBytes(MaxSensors) \in {1, 2}
      /\ LengthBytes(2) \in {1, 2} /\ LengthBytes(3) \in {1, 2} /\ LengthBytes(8) \in {1, 2}
  <2>1. n \in Lengths /\ 2 \in Lengths /\ 3 \in Lengths /\ 8 \in Lengths
    BY <1>1, BaseSquare, CodecAssumption DEF Lengths
  <2> QED BY <1>1, <2>1, LengthBytesOf
<1>10. HeadLength(n) <= HeadLength(MaxSensors) /\ HeadLength(n) \in Nat /\ HeadLength(MaxSensors) \in Nat
  BY <1>8, <1>9 DEF HeadLength
<1>11. FixedSize \in Int
  BY CodecAssumption
<1> QED BY <1>4, <1>5, <1>6, <1>7, <1>10, <1>11 DEF HeaderSize, n

-----------------------------------------------------------------------------
(* What the decoder reads where the encoder has put a head or a reading.   *)
LEMMA HeadAt ==
  ASSUME NEW at \in Nat, NEW m \in Message, NEW old, NEW none,
         At(packet, at, BodyHead(m))
  PROVE  LET list  == ListHeaderSize(at)
             time  == ParsedItem(at + list, 8, old)
             count == ParsedItem(at + list + time.size, 2, none)
             end   == at + list + time.size + count.size
         IN  /\ time.value = m.timestamp /\ count.value = Len(m.sensors)
             /\ end + ListHeaderSize(end) = at + Len(BodyHead(m))
<1> DEFINE n == Len(m.sensors)
           h == ItemHeader(SECS_L, 3)
           t == Item(SECS_U8, m.timestamp, 8)
           c == Item(SECS_U2, n, 2)
           l == ItemHeader(SECS_L, n)
<1>1. /\ 3 \in Lengths /\ SECS_L \in Formats /\ SECS_U2 \in Formats /\ SECS_U8 \in Formats
      /\ n \in Nat /\ n \in Lengths /\ n \in 0 .. Power[2] - 1
      /\ m.timestamp \in Nat /\ m.timestamp \in 0 .. Power[8] - 1
  BY MessageFits, BaseSquare DEF Lengths, Formats
<1>2. h \in Seq(Int) /\ Len(h) \in Nat
  BY <1>1, HeaderSeq
<1>3. t \in Seq(Int) /\ Len(t) \in Nat
  BY <1>1, ItemSeq
<1>4. c \in Seq(Int) /\ Len(c) \in Nat
  BY <1>1, ItemSeq
<1>5. l \in Seq(Int) /\ Len(l) \in Nat
  BY <1>1, HeaderSeq
<1>6. BodyHead(m) = ((h \o t) \o c) \o l
  BY DEF BodyHead
<1>7. At(packet, at, h) => ListHeaderSize(at) = Len(h)
  BY <1>1, HeaderAt
<1>8. ASSUME NEW p \in Nat, At(packet, p, t)
      PROVE  ParsedItem(p, 8, old) = [value |-> m.timestamp, size |-> Len(t)]
  BY <1>1, <1>8, ItemAt
<1>9. ASSUME NEW p \in Nat, At(packet, p, c)
      PROVE  ParsedItem(p, 2, none) = [value |-> n, size |-> Len(c)]
  BY <1>1, <1>9, ItemAt
<1>10. ASSUME NEW p \in Nat, At(packet, p, l) PROVE ListHeaderSize(p) = Len(l)
  BY <1>1, <1>10, HeaderAt
<1> HIDE DEF n, h, t, c, l
<1>11. /\ h \o t \in Seq(Int) /\ Len(h \o t) = Len(h) + Len(t)
  BY <1>2, <1>3, ConcatProperties
<1>12. /\ (h \o t) \o c \in Seq(Int) /\ Len((h \o t) \o c) = Len(h \o t) + Len(c)
  BY <1>4, <1>11, ConcatProperties
<1>13. Len(((h \o t) \o c) \o l) = Len((h \o t) \o c) + Len(l)
  BY <1>5, <1>12, ConcatProperties
<1>14. at \in Int
  OBVIOUS
<1>15. At(packet, at, (h \o t) \o c) /\ At(packet, at + Len((h \o t) \o c), l)
  BY <1>5, <1>6, <1>12, <1>14, AtConcat, Zenon
<1>16. At(packet, at, h \o t) /\ At(packet, at + Len(h \o t), c)
  BY <1>4, <1>11, <1>14, <1>15, AtConcat, Zenon
<1>17. At(packet, at, h) /\ At(packet, at + Len(h), t)
  BY <1>2, <1>3, <1>14, <1>16, AtConcat, Zenon
<1> DEFINE p1 == at + Len(h)
           p2 == at + Len(h) + Len(t)
           p3 == at + Len(h) + Len(t) + Len(c)
<1>18. /\ p1 \in Nat /\ p2 \in Nat /\ p3 \in Nat
       /\ at + Len(h \o t) = p2 /\ at + Len((h \o t) \o c) = p3
       /\ p3 + Len(l) = at + Len(((h \o t) \o c) \o l)
  BY <1>2, <1>3, <1>4, <1>5, <1>11, <1>12, <1>13
<1>19. At(packet, p1, t) /\ At(packet, p2, c) /\ At(packet, p3, l)
  BY <1>15, <1>16, <1>17, <1>18, Zenon
<1>20. ListHeaderSize(at) = Len(h)
  BY <1>7, <1>17
<1>21. ParsedItem(p1, 8, old) = [value |-> m.timestamp, size |-> Len(t)]
  BY <1>8, <1>18, <1>19, Zenon
<1>22. ParsedItem(p2, 2, none) = [value |-> n, size |-> Len(c)]
  BY <1>9, <1>18, <1>19, Zenon
<1>23. ListHeaderSize(p3) = Len(l)
  BY <1>10, <1>18, <1>19, Zenon
<1> DEFINE list  == ListHeaderSize(at)
           time  == ParsedItem(at + list, 8, old)
           count == ParsedItem(at + list + time.size, 2, none)
           end   == at + list + time.size + count.size
<1>24. time = [value |-> m.timestamp, size |-> Len(t)]
  BY <1>20, <1>21, Zenon
<1>25. time.value = m.timestamp /\ time.size = Len(t)
  BY <1>24
<1>26. count = [value |-> n, size |-> Len(c)]
  <2>1. at + list + time.size = p2
    BY <1>20, <1>25, Zenon
  <2> QED BY <1>22, <2>1, Zenon
<1>27. count.value = n /\ count.size = Len(c)
  BY <1>26
<1>28. end = p3
  BY <1>20, <1>25, <1>27, Zenon
<1>29. end + ListHeaderSize(end) = at + Len(BodyHead(m))
  BY <1>6, <1>18, <1>23, <1>28, Zenon
<1> QED BY <1>25, <1>27, <1>29, Zenon DEF n

LEMMA SensorAt ==
  ASSUME NEW at \in Nat, NEW r \in Reading, At(packet, at, SensorItem(r))
  PROVE  LET list  == ListHeaderSize(at)
             id    == ParsedItem(at + list, 2, 0)
             value == ParsedItem(at + list + id.size, 4, 0)
         IN  /\ <<id.value, value.value>> = r
             /\ at + list + id.size + value.size = at + ItemSize
<1> DEFINE h == ItemHeader(SECS_L, 2)
           i == Item(SECS_U2, r[1], 2)
           v == Item(SECS_F4, r[2], 4)
<1>1. /\ 2 \in Lengths /\ SECS_L \in Formats /\ SECS_U2 \in Formats /\ SECS_F4 \in Formats
      /\ r[1] \in Nat /\ r[1] \in 0 .. Power[2] - 1
      /\ r[2] \in Nat /\ r[2] \in 0 .. Power[4] - 1
  BY ReadingIs, BaseSquare DEF Lengths, Formats
<1>2. h \in Seq(Int) /\ Len(h) \in Nat
  BY <1>1, HeaderSeq
<1>3. i \in Seq(Int) /\ Len(i) \in Nat
  BY <1>1, ItemSeq
<1>4. v \in Seq(Int) /\ Len(v) \in Nat
  BY <1>1, ItemSeq
<1>5. SensorItem(r) = (h \o i) \o v
  BY DEF SensorItem
<1>6. At(packet, at, h) => ListHeaderSize(at) = Len(h)
  BY <1>1, HeaderAt
<1>7. ASSUME NEW p \in Nat, At(packet, p, i)
      PROVE  ParsedItem(p, 2, 0) = [value |-> r[1], size |-> Len(i)]
  BY <1>1, <1>7, ItemAt
<1>8. ASSUME NEW p \in Nat, At(packet, p, v)
      PROVE  ParsedItem(p, 4, 0) = [value |-> r[2], size |-> Len(v)]
  BY <1>1, <1>8, ItemAt
<1> HIDE DEF h, i, v
<1>9. h \o i \in Seq(Int) /\ Len(h \o i) = Len(h) + Len(i)
  BY <1>2, <1>3, ConcatProperties
<1>10. Len((h \o i) \o v) = Len(h \o i) + Len(v)
  BY <1>4, <1>9, ConcatProperties
<1>11. at \in Int
  OBVIOUS
<1>12. At(packet, at, h \o i) /\ At(packet, at + Len(h \o i), v)
  BY <1>4, <1>5, <1>9, <1>11, AtConcat, Zenon
<1>13. At(packet, at, h) /\ At(packet, at + Len(h), i)
  BY <1>2, <1>3, <1>11, <1>12, AtConcat, Zenon
<1> DEFINE p1 == at + Len(h)
           p2 == at + Len(h) + Len(i)
<1>14. /\ p1 \in Nat /\ p2 \in Nat /\ at + Len(h \o i) = p2
       /\ p2 + Len(v) = at + Len((h \o i) \o v)
  BY <1>2, <1>3, <1>4, <1>9, <1>10
<1>15. At(packet, p1, i) /\ At(packet, p2, v)
  BY <1>12, <1>13, <1>14, Zenon
<1>16. ListHeaderSize(at) = Len(h)
  BY <1>6, <1>13
<1>17. ParsedItem(p1, 2, 0) = [value |-> r[1], size |-> Len(i)]
  BY <1>7, <1>14, <1>15, Zenon
<1>18. ParsedItem(p2, 4, 0) = [value |-> r[2], size |-> Len(v)]
  BY <1>8, <1>14, <1>15, Zenon
<1> DEFINE list  == ListHeaderSize(at)
           id    == ParsedItem(at + list, 2, 0)
           value == ParsedItem(at + list + id.size, 4, 0)
<1>19. id = [value |-> r[1], size |-> Len(i)]
  BY <1>16, <1>17, Zenon
<1>20. id.value = r[1] /\ id.size = Len(i)
  BY <1>19
<1>21. value = [value |-> r[2], size |-> Len(v)]
  <2>1. at + list + id.size = p2
    BY <1>16, <1>20, Zenon
  <2> QED BY <1>18, <2>1, Zenon
<1>22. value.value = r[2] /\ value.size = Len(v)
  BY <1>21
<1>23. <<id.value, value.value>> = r
  BY <1>20, <1>22, ReadingIs, Zenon
<1>24. at + list + id.size + value.size = at + ItemSize
  <2>1. Len((h \o i) \o v) = ItemSize
    BY <1>1, <1>5, SensorItemSeq, ItemSizeIs, Zenon
  <2> QED BY <1>14, <1>16, <1>20, <1>22, <2>1, Zenon
<1> QED BY <1>23, <1>24, Zenon

-----------------------------------------------------------------------------
(* The equipment's steps.                                                  *)
LEMMA SensorOf ==
  ASSUME NEW m \in Message, NEW j \in 1 .. Len(m.sensors)
  PROVE  /\ m.sensors[j] \in Reading
         /\ SensorItem(m.sensors[j]) \in Seq(Int)
         /\ Len(SensorItem(m.sensors[j])) = ItemSize
<1>1. m.sensors[j] \in Reading
  BY MessageIs, ElementOfSeq
<1> QED BY <1>1, ReadingIs, SensorItemSeq, ItemSizeIs

(* Where the j-th of k readings lies behind a head of f bytes.             *)
LEMMA ItemFits ==
  ASSUME NEW k \in Nat, NEW j \in 1 .. k, NEW f \in Nat
  PROVE  /\ f + (j - 1) * ItemSize \in Nat
         /\ f + (j - 1) * ItemSize + ItemSize <= f + k * ItemSize
         /\ f + k * ItemSize \in Nat
<1>1. (j - 1) * ItemSize \in Nat /\ j * ItemSize \in Nat /\ k * ItemSize \in Nat
  BY ItemSizeIs, MulNat
<1>2. j * ItemSize <= k * ItemSize
  BY ItemSizeIs, MulMonotone
<1>3. (j - 1) * ItemSize + ItemSize = j * ItemSize
  BY ItemSizeIs, Z3
<1> QED BY <1>1, <1>2, <1>3, ItemSizeIs

LEMMA EncodedIs ==
  ASSUME NEW k \in Nat, msg \in Message, Len(written) = Len(Front) + k * ItemSize
  PROVE  Encoded = k
<1>1. Len(Front) \in Nat /\ k * ItemSize \in Nat
  BY MessageFits, ItemSizeIs, MulNat DEF Front
<1>2. Len(written) - Len(BodyHead(msg)) = k * ItemSize
  BY <1>1 DEF Front
<1> QED BY <1>2, ItemSizeIs, DivExact DEF Encoded

LEMMA InitCodec == Init => CodecInv
<1> SUFFICES ASSUME Init PROVE CodecInv
  OBVIOUS
<1>1. /\ msg \in Message /\ sys = 1 /\ written = BodyHead(msg) /\ pc = "build"
  BY DEF Init
<1>2. Power[4] \in Nat /\ SysWrap \in Nat /\ SysWrap > 1
  BY CodecAssumption, PowerPos
<1>3. TypeOK
  BY <1>1, <1>2, MessageFits DEF TypeOK
<1>4. Built
  <2>1. 0 \in 0 .. Numbers /\ Len(written) = Len(Front) + 0 * ItemSize
    BY <1>1, MessageFits, ItemSizeIs DEF Front, Numbers
  <2>2. At(written, 1, Front)
    <3>1. \A i \in 1 .. Len(Front) : 1 + i - 1 = i
      BY <1>1, MessageFits DEF Front
    <3> QED BY <1>1, <3>1 DEF At, Front
  <2> QED BY <2>1, <2>2 DEF Built
<1> QED BY <1>1, <1>3, <1>4
     DEF CodecInv, PcOK, Sent, HeaderRead, HeadNext, SensorsRead, DecodedIsSent

LEMMA AddSensorStep == CodecInv /\ AddSensor => CodecInv'
<1> SUFFICES ASSUME CodecInv, AddSensor PROVE CodecInv'
  OBVIOUS
<1>1. /\ pc = "build" /\ Encoded < Numbers
      /\ written' = written \o SensorItem(msg.sensors[Encoded + 1])
      /\ UNCHANGED <<msg, sys, packet, offset, pkt, pending, header, pc>>
  BY DEF AddSensor, Numbers
<1>2. msg \in Message /\ sys \in 0 .. SysWrap - 1 /\ written \in Seq(Int) /\ Numbers \in Nat
  BY MessageFits DEF CodecInv, TypeOK, Numbers
<1>3. PICK k \in 0 .. Numbers :
        /\ Len(written) = Len(Front) + k * ItemSize
        /\ At(written, 1, Front)
        /\ \A j \in 1 .. k : At(written, 1 + ItemStart(j), SensorItem(msg.sensors[j]))
  BY <1>1 DEF CodecInv, Built
<1>4. Encoded = k /\ k + 1 \in 1 .. Numbers /\ k \in Nat
  BY <1>1, <1>2, <1>3, EncodedIs
<1> DEFINE t == SensorItem(msg.sensors[k + 1])
<1>5. t \in Seq(Int) /\ Len(t) = ItemSize
  BY <1>2, <1>4, SensorOf DEF Numbers
<1>6. written' = written \o t
  BY <1>1, <1>4
<1>7. Len(Front) \in Nat /\ k * ItemSize \in Nat /\ ItemSize \in Nat
  BY <1>2, MessageFits, ItemSizeIs, MulNat, <1>4 DEF Front
<1> HIDE DEF t
<1>8. written' \in Seq(Int) /\ Len(written') = Len(written) + ItemSize
  BY <1>2, <1>5, <1>6, ConcatProperties
<1>9. Len(written') = Len(Front) + (k + 1) * ItemSize
  <2>1. (k + 1) * ItemSize = k * ItemSize + ItemSize
    BY <1>4, <1>7, Z3
  <2> QED BY <1>3, <1>7, <1>8, <2>1
<1>10. At(written', 1, Front)
  <2>1. (1 + Len(Front)) - 1 <= Len(written)
    BY <1>3, <1>7
  <2> QED BY <1>2, <1>3, <1>5, <1>6, <1>7, <2>1, AtPrefix
<1>11. ASSUME NEW j \in 1 .. k + 1
       PROVE  At(written', 1 + ItemStart(j), SensorItem(msg.sensors[j]))
  <2>1. CASE j = k + 1
    <3>1. ItemStart(j) = Len(written)
      BY <1>3, <1>4, <1>7, <2>1 DEF ItemStart
    <3>2. At(written \o t, 1 + Len(written), t)
      BY <1>2, <1>5, AtEnd
    <3> QED BY <1>6, <2>1, <3>1, <3>2, Zenon DEF t
  <2>2. CASE j # k + 1
    <3>1. j \in 1 .. k /\ j \in 1 .. Len(msg.sensors)
      BY <1>4, <2>2 DEF Numbers
    <3> DEFINE at == 1 + ItemStart(j)  s == SensorItem(msg.sensors[j])
    <3>2. s \in Seq(Int) /\ Len(s) = ItemSize
      BY <1>2, <3>1, SensorOf
    <3>3. At(written, at, s)
      BY <1>3, <3>1
    <3>4. at \in Nat \ {0} /\ (at + ItemSize) - 1 <= Len(written)
      <4>1. /\ ItemStart(j) \in Nat
            /\ ItemStart(j) + ItemSize <= Len(Front) + k * ItemSize
        BY <1>4, <1>7, <3>1, ItemFits DEF ItemStart
      <4> QED BY <1>3, <1>7, <4>1
    <3> HIDE DEF at, s
    <3>5. At(written \o t, at, s)
      BY <1>2, <1>5, <1>7, <3>2, <3>3, <3>4, AtPrefix
    <3> QED BY <1>6, <3>5, Zenon DEF at, s
  <2> QED BY <2>1, <2>2
<1>12. TypeOK'
  BY <1>1, <1>2, <1>8 DEF TypeOK
<1>13. Built'
  <2>1. Front' = Front /\ Numbers' = Numbers /\ msg' = msg
    BY <1>1 DEF Front, Numbers
  <2>2. \A j : ItemStart(j)' = ItemStart(j)
    BY <2>1 DEF ItemStart
  <2>3. k + 1 \in 0 .. Numbers
    BY <1>4
  <2>4. /\ Len(written') = Len(Front') + (k + 1) * ItemSize
        /\ At(written', 1, Front')
        /\ \A j \in 1 .. k + 1 : At(written', 1 + ItemStart(j)', SensorItem(msg'.sensors[j]))
    BY <1>9, <1>10, <1>11, <2>1, <2>2, Zenon
  <2> QED BY <2>1, <2>3, <2>4 DEF Built
<1> QED BY <1>1, <1>12, <1>13
     DEF CodecInv, PcOK, Sent, HeaderRead, HeadNext, SensorsRead, DecodedIsSent

(* The fourteen bytes in front of the body, as far as the decoder uses     *)
(* them.                                                                   *)
LEMMA HeaderIs ==
  ASSUME NEW b \in Nat, sys \in Nat
  PROVE  /\ Header(b) \in Seq(Int) /\ Len(Header(b)) = HeaderSize
         /\ Header(b)[7] = 6 /\ Header(b)[8] = 1
         /\ \A i \in 1 .. 4 : Header(b)[10 + i] = BigEndian(sys, 4)[i]
<1> DEFINE l == BigEndian(b, 4)
           s == BigEndian(0, 2)
           f == <<6, 1, 0, 0>>
           n == BigEndian(sys, 4)
<1>1. l \in Seq(Int) /\ Len(l) = 4 /\ s \in Seq(Int) /\ Len(s) = 2
  BY DigitsSeq
<1>2. n \in Seq(Int) /\ Len(n) = 4
  BY DigitsSeq
<1>3. f \in Seq(Int) /\ Len(f) = 4 /\ f[1] = 6 /\ f[2] = 1
  OBVIOUS
<1> HIDE DEF l, s, f, n
<1>4. l \o s \in Seq(Int) /\ Len(l \o s) = 6
  <2>1. l \o s \in Seq(Int) /\ Len(l \o s) = Len(l) + Len(s)
    BY <1>1, ConcatIs
  <2> QED BY <1>1, <2>1
<1>5. /\ (l \o s) \o f \in Seq(Int) /\ Len((l \o s) \o f) = 10
      /\ ((l \o s) \o f)[7] = 6 /\ ((l \o s) \o f)[8] = 1
  <2>1. /\ (l \o s) \o f \in Seq(Int) /\ Len((l \o s) \o f) = Len(l \o s) + Len(f)
        /\ \A i \in 1 .. Len(f) : ((l \o s) \o f)[Len(l \o s) + i] = f[i]
    BY <1>3, <1>4, ConcatIs, Zenon
  <2>2. \A i \in 1 .. 4 : ((l \o s) \o f)[6 + i] = f[i]
    BY <1>3, <1>4, <2>1, Zenon
  <2> QED BY <1>3, <1>4, <2>1, <2>2
<1> DEFINE g == (l \o s) \o f
<1> HIDE DEF g
<1>6. g \in Seq(Int) /\ Len(g) = 10 /\ g[7] = 6 /\ g[8] = 1
  BY <1>5 DEF g
<1>7. /\ g \o n \in Seq(Int) /\ Len(g \o n) = Len(g) + Len(n)
      /\ \A i \in 1 .. Len(g) : (g \o n)[i] = g[i]
      /\ \A i \in 1 .. Len(n) : (g \o n)[Len(g) + i] = n[i]
  BY <1>2, <1>6, ConcatIs, Zenon
<1>8. /\ Len(g \o n) = 14 /\ (g \o n)[7] = 6 /\ (g \o n)[8] = 1
      /\ \A i \in 1 .. 4 : (g \o n)[10 + i] = n[i]
  <2>1. \A i \in 1 .. 4 : (g \o n)[10 + i] = n[i]
    BY <1>2, <1>6, <1>7, Zenon
  <2>2. 7 \in 1 .. Len(g) /\ 8 \in 1 .. Len(g)
    BY <1>6
  <2>3. (g \o n)[7] = 6 /\ (g \o n)[8] = 1
    BY <1>6, <1>7, <2>2, Zenon
  <2>4. Len(g \o n) = 10 + 4
    BY <1>2, <1>6, <1>7, Zenon
  <2>5. Len(g \o n) = 14
    BY <2>4
  <2> QED BY <2>1, <2>3, <2>5, Zenon
<1>9. Header(b) = g \o n
  BY DEF Header, g, l, s, f, n
<1> QED BY <1>7, <1>8, <1>9 DEF HeaderSize, n

(* A body copied behind the header keeps its parts.                        *)
LEMMA AtBehind ==
  ASSUME NEW p, NEW w \in Seq(Int), NEW s, NEW at \in Nat,
         \A k \in 1 .. Len(w) : p[(HeaderSize + k) - 1] = w[k],
         Len(s) \in Nat, at + Len(s) <= Len(w), At(w, 1 + at, s)
  PROVE  At(p, HeaderSize + at, s)
<1>1. ASSUME NEW i \in 1 .. Len(s) PROVE p[(HeaderSize + at) + i - 1] = s[i]
  <2>1. at + i \in 1 .. Len(w) /\ (1 + at) + i - 1 = at + i
    OBVIOUS
  <2>2. (HeaderSize + at) + i - 1 = (HeaderSize + (at + i)) - 1
    BY DEF HeaderSize
  <2>3. w[(1 + at) + i - 1] = s[i]
    BY DEF At
  <2> QED BY <2>1, <2>2, <2>3
<1> QED BY <1>1 DEF At

LEMMA SendStep == CodecInv /\ SendSensorPacket => CodecInv'
<1> SUFFICES ASSUME CodecInv, SendSensorPacket PROVE CodecInv'
  OBVIOUS
<1> DEFINE head == Header(LengthField)  used == head \o written
<1>1. /\ pc = "build" /\ Encoded = Numbers
      /\ packet' = [i \in Bytes |-> IF i < Len(used) THEN used[i + 1] ELSE Padding[i]]
      /\ sys' = (sys + 1) % SysWrap
      /\ pc' = "send"
      /\ UNCHANGED <<msg, written, offset, pkt, pending, header>>
  BY DEF SendSensorPacket, Numbers
<1>2. msg \in Message /\ sys \in 0 .. SysWrap - 1 /\ written \in Seq(Int) /\ Numbers \in Nat
  BY MessageFits DEF CodecInv, TypeOK, Numbers
<1>3. PICK k \in 0 .. Numbers :
        /\ Len(written) = Len(Front) + k * ItemSize
        /\ At(written, 1, Front)
        /\ \A j \in 1 .. k : At(written, 1 + ItemStart(j), SensorItem(msg.sensors[j]))
  BY <1>1 DEF CodecInv, Built
<1>4. k = Numbers
  BY <1>1, <1>2, <1>3, EncodedIs
<1>5. SysWrap \in Nat /\ SysWrap > 1 /\ SysWrap <= Power[4] /\ sys \in Nat
  <2>1. Power[4] \in Nat
    BY PowerPos
  <2> QED BY <1>2, <2>1, CodecAssumption
<1>6. /\ head \in Seq(Int) /\ Len(head) = HeaderSize /\ head[7] = 6 /\ head[8] = 1
      /\ \A i \in 1 .. 4 : head[10 + i] = BigEndian(sys, 4)[i]
  <2>1. LengthField \in Nat
    BY <1>2 DEF LengthField
  <2> HIDE DEF head
  <2> QED BY <1>5, <2>1, HeaderIs DEF head
<1> HIDE DEF head
<1>7. /\ used \in Seq(Int) /\ Len(used) = HeaderSize + Len(written)
      /\ \A i \in 1 .. HeaderSize : used[i] = head[i]
      /\ \A i \in 1 .. Len(written) : used[HeaderSize + i] = written[i]
  BY <1>2, <1>6, ConcatIs, Zenon
<1> HIDE DEF used
<1>8. Len(written) \in Nat /\ Len(used) <= FixedSize /\ FixedSize \in Nat
  <2>1. HeaderSize + Len(Front) + Numbers * ItemSize <= FixedSize
    BY <1>2, PacketHolds DEF Front, Numbers
  <2>2. Len(Front) \in Nat /\ Numbers * ItemSize \in Nat
    BY <1>2, MessageFits, MulNat, ItemSizeIs DEF Front
  <2>3. Len(used) = HeaderSize + Len(written)
    BY <1>7
  <2>4. Len(written) = Len(Front) + Numbers * ItemSize
    BY <1>3, <1>4
  <2> QED BY <2>1, <2>2, <2>3, <2>4, CodecAssumption DEF HeaderSize
<1>9. Len(used) = HeaderSize + Len(written) /\ HeaderSize = 14
  BY <1>7 DEF HeaderSize
<1>10. \A i \in 1 .. Len(used) : packet'[i - 1] = used[i]
  <2> SUFFICES ASSUME NEW i \in 1 .. Len(used) PROVE packet'[i - 1] = used[i]
    OBVIOUS
  <2>1. i - 1 \in Bytes /\ i - 1 < Len(used) /\ (i - 1) + 1 = i
    BY <1>9, <1>8 DEF Bytes
  <2> QED BY <1>1, <2>1
<1>11. \A i \in 1 .. HeaderSize : packet'[i - 1] = head[i]
  <2> SUFFICES ASSUME NEW i \in 1 .. HeaderSize PROVE packet'[i - 1] = head[i]
    OBVIOUS
  <2>1. i \in 1 .. Len(used)
    BY <1>9, <1>8
  <2> QED BY <1>7, <1>10, <2>1
<1>12. \A i \in 1 .. Len(written) : packet'[(HeaderSize + i) - 1] = written[i]
  <2> SUFFICES ASSUME NEW i \in 1 .. Len(written)
               PROVE  packet'[(HeaderSize + i) - 1] = written[i]
    OBVIOUS
  <2>1. HeaderSize + i \in 1 .. Len(used)
    BY <1>9, <1>8
  <2> QED BY <1>7, <1>10, <2>1
<1>13. packet'[6] = 6 /\ packet'[7] = 1
  <2>1. 7 \in 1 .. HeaderSize /\ 8 \in 1 .. HeaderSize /\ 7 - 1 = 6 /\ 8 - 1 = 7
    BY DEF HeaderSize
  <2> QED BY <1>6, <1>11, <2>1
<1>14. At(packet', 10, BigEndian(sys, 4))
  <2>1. Len(BigEndian(sys, 4)) = 4
    BY <1>5, DigitsSeq
  <2>2. ASSUME NEW i \in 1 .. 4 PROVE packet'[10 + i - 1] = BigEndian(sys, 4)[i]
    <3>1. 10 + i \in 1 .. HeaderSize /\ (10 + i) - 1 = 10 + i - 1
      BY <1>9
    <3>2. packet'[(10 + i) - 1] = head[10 + i]
      BY <1>11, <3>1, Zenon
    <3> QED BY <1>6, <3>1, <3>2, Zenon
  <2> QED BY <2>1, <2>2 DEF At
<1>15. At(packet', HeaderSize, Front)
  <2>1. Len(Front) \in Nat /\ Numbers * ItemSize \in Nat
    BY <1>2, MessageFits, MulNat, ItemSizeIs DEF Front
  <2>2. 0 + Len(Front) <= Len(written) /\ At(written, 1 + 0, Front) /\ HeaderSize + 0 = HeaderSize
    BY <1>3, <1>4, <2>1 DEF HeaderSize
  <2>3. At(packet', HeaderSize + 0, Front)
    BY <1>2, <1>12, <2>1, <2>2, AtBehind
  <2> QED BY <2>2, <2>3, Zenon
<1>16. ASSUME NEW j \in 1 .. Numbers
       PROVE  At(packet', HeaderSize + ItemStart(j), SensorItem(msg.sensors[j]))
  <2> DEFINE at == ItemStart(j)  s == SensorItem(msg.sensors[j])
  <2>1. Len(s) = ItemSize /\ ItemSize \in Nat /\ Len(Front) \in Nat
    BY <1>2, SensorOf, ItemSizeIs, MessageFits DEF Numbers, Front
  <2>2. at \in Nat /\ at + ItemSize <= Len(written)
    BY <1>2, <1>3, <1>4, <2>1, ItemFits DEF ItemStart
  <2>3. At(written, 1 + at, s)
    BY <1>3, <1>4
  <2> HIDE DEF at, s
  <2>4. At(packet', HeaderSize + at, s)
    BY <1>2, <1>12, <2>1, <2>2, <2>3, AtBehind
  <2> QED BY <2>4 DEF at, s
<1>17. TypeOK'
  <2>1. (sys + 1) % SysWrap \in 0 .. SysWrap - 1
    <3>1. sys + 1 \in Nat /\ SysWrap \in Nat \ {0}
      BY <1>5
    <3> QED BY <3>1, ModDiv
  <2> QED BY <1>1, <1>2, <2>1 DEF TypeOK
<1>18. Sent'
  <2>1. Front' = Front /\ Numbers' = Numbers /\ msg' = msg
    BY <1>1 DEF Front, Numbers
  <2>2. \A j : ItemStart(j)' = ItemStart(j)
    BY <2>1 DEF ItemStart
  <2>3. At(packet', HeaderSize, Front')
    BY <1>15, <2>1, Zenon
  <2>4. \A j \in 1 .. Numbers' :
          At(packet', HeaderSize + ItemStart(j)', SensorItem(msg'.sensors[j]))
    BY <1>16, <2>1, <2>2, Zenon
  <2>5. \E s \in 0 .. SysWrap - 1 :
          At(packet', 10, BigEndian(s, 4)) /\ sys' = (s + 1) % SysWrap
    BY <1>1, <1>2, <1>14
  <2> QED BY <1>13, <2>3, <2>4, <2>5 DEF Sent
<1> QED BY <1>1, <1>17, <1>18
     DEF CodecInv, PcOK, Built, HeaderRead, HeadNext, SensorsRead, DecodedIsSent

-----------------------------------------------------------------------------
(* The server's steps.  What the packet holds is left alone by them.       *)
LEMMA SentStays ==
  ASSUME TypeOK, Sent, pc # "build", UNCHANGED <<msg, sys, packet, written>>
  PROVE  TypeOK' /\ Sent'
<1>1. TypeOK'
  BY DEF TypeOK
<1>2. Front' = Front /\ Numbers' = Numbers
  BY DEF Front, Numbers
<1>3. \A j : ItemStart(j)' = ItemStart(j)
  BY <1>2 DEF ItemStart
<1>4. /\ packet'[6] = 6 /\ packet'[7] = 1
      /\ \E s \in 0 .. SysWrap - 1 :
           At(packet', 10, BigEndian(s, 4)) /\ sys' = (s + 1) % SysWrap
      /\ At(packet', HeaderSize, Front')
      /\ \A j \in 1 .. Numbers' :
           At(packet', HeaderSize + ItemStart(j)', SensorItem(msg'.sensors[j]))
  BY <1>2, <1>3 DEF Sent
<1> QED BY <1>1, <1>4 DEF Sent

LEMMA HandleStep == CodecInv /\ HandlePacket => CodecInv'
<1> SUFFICES ASSUME CodecInv, HandlePacket PROVE CodecInv'
  OBVIOUS
<1>1. /\ pc = "send" /\ pc' = "head" /\ offset' = HeaderSize
      /\ header' = [length |-> Number(0, 4), stream |-> packet[6],
                    function |-> packet[7], system_bytes |-> Number(10, 4)]
      /\ UNCHANGED <<msg, sys, packet, written, pending>>
  BY DEF HandlePacket
<1>2. TypeOK /\ Sent
  BY DEF CodecInv
<1>3. TypeOK' /\ Sent'
  BY <1>1, <1>2, SentStays
<1>4. PICK s \in 0 .. SysWrap - 1 :
        At(packet, 10, BigEndian(s, 4)) /\ sys = (s + 1) % SysWrap
  BY <1>1, <1>2 DEF Sent
<1>5. Number(10, 4) = s
  <2>1. s \in 0 .. Power[4] - 1
    BY CodecAssumption, PowerPos
  <2> QED BY <1>4, <2>1, NumberIs
<1>6. header'.stream = 6 /\ header'.function = 1 /\ header'.system_bytes = s
  BY <1>1, <1>2, <1>5 DEF Sent
<1>7. HeaderRead'
  BY <1>1, <1>4, <1>6 DEF HeaderRead
<1> QED BY <1>1, <1>3, <1>7
     DEF CodecInv, PcOK, Built, HeadNext, SensorsRead, DecodedIsSent

LEMMA ParseHeadStep == CodecInv /\ ParseHead => CodecInv'
<1> SUFFICES ASSUME CodecInv, ParseHead PROVE CodecInv'
  OBVIOUS
<1> DEFINE list  == ListHeaderSize(offset)
           time  == ParsedItem(offset + list, 8, pkt.timestamp)
           count == ParsedItem(offset + list + time.size, 2, pending)
           end   == offset + list + time.size + count.size
<1>1. /\ pc = "head" /\ pc' = "sensors"
      /\ pkt' = [timestamp |-> time.value, sensors |-> << >>]
      /\ pending' = count.value
      /\ offset' = end + ListHeaderSize(end)
      /\ UNCHANGED <<msg, sys, packet, written, header>>
  BY DEF ParseHead
<1>2. TypeOK /\ Sent /\ msg \in Message /\ offset = HeaderSize
  BY <1>1 DEF CodecInv, TypeOK, HeadNext
<1>3. TypeOK' /\ Sent'
  BY <1>1, <1>2, SentStays
<1>4. At(packet, offset, BodyHead(msg)) /\ offset \in Nat
  BY <1>1, <1>2 DEF Sent, Front, HeaderSize
<1>5. /\ time.value = msg.timestamp /\ count.value = Len(msg.sensors)
      /\ end + ListHeaderSize(end) = offset + Len(BodyHead(msg))
  BY <1>2, <1>4, HeadAt
<1> HIDE DEF list, time, count, end
<1>6. HeaderRead'
  BY <1>1 DEF CodecInv, HeaderRead
<1>7. SensorsRead'
  <2>1. 0 \in 0 .. Numbers /\ SubSeq(msg.sensors, 1, 0) = << >>
    BY <1>2, MessageFits, MessageIs DEF Numbers
  <2>2. offset' = HeaderSize + Len(Front) + 0 * ItemSize
    BY <1>1, <1>2, <1>5, MessageFits, ItemSizeIs DEF Front, HeaderSize
  <2>3. Front' = Front /\ Numbers' = Numbers /\ pending' = Numbers
    BY <1>1, <1>5 DEF Front, Numbers
  <2>4. pkt' = [timestamp |-> msg'.timestamp, sensors |-> SubSeq(msg'.sensors, 1, 0)]
    BY <1>1, <1>5, <2>1
  <2> QED BY <2>1, <2>2, <2>3, <2>4 DEF SensorsRead
<1> QED BY <1>1, <1>3, <1>6, <1>7 DEF CodecInv, PcOK, Built, HeadNext, DecodedIsSent

LEMMA ParseSensorStep == CodecInv /\ ParseSensor => CodecInv'
<1> SUFFICES ASSUME CodecInv, ParseSensor PROVE CodecInv'
  OBVIOUS
<1> DEFINE list  == ListHeaderSize(offset)
           id    == ParsedItem(offset + list, 2, 0)
           value == ParsedItem(offset + list + id.size, 4, 0)
<1>1. /\ pc = "sensors" /\ MoreSensors
      /\ pkt' = [pkt EXCEPT !.sensors = Append(@, <<id.value, value.value>>)]
      /\ offset' = offset + list + id.size + value.size
      /\ UNCHANGED <<msg, sys, packet, written, pending, header, pc>>
  BY DEF ParseSensor
<1>2. TypeOK /\ Sent /\ msg \in Message
  BY DEF CodecInv, TypeOK
<1>3. TypeOK' /\ Sent'
  BY <1>1, <1>2, SentStays
<1>4. PICK k \in 0 .. Numbers :
        /\ pkt = [timestamp |-> msg.timestamp, sensors |-> SubSeq(msg.sensors, 1, k)]
        /\ offset = HeaderSize + Len(Front) + k * ItemSize
        /\ pending = Numbers
  BY <1>1 DEF CodecInv, SensorsRead
<1> DEFINE s == msg.sensors
<1>5. s \in Seq(Reading) /\ Numbers = Len(s) /\ Numbers \in Nat /\ Len(Front) \in Nat
  BY <1>2, MessageIs, MessageFits DEF Numbers, Front
<1>6. Len(SubSeq(s, 1, k)) = k /\ k \in Nat
  BY <1>5, SubSeqProperties
<1>7. k + 1 \in 1 .. Numbers
  BY <1>1, <1>4, <1>5, <1>6 DEF MoreSensors
<1>8. s[k + 1] \in Reading
  BY <1>5, <1>7, ElementOfSeq
<1>9. At(packet, offset, SensorItem(s[k + 1])) /\ offset \in Nat
  <2>1. At(packet, HeaderSize + ItemStart(k + 1), SensorItem(s[k + 1]))
    BY <1>1, <1>2, <1>7 DEF Sent
  <2>2. k * ItemSize \in Nat /\ (k + 1) - 1 = k
    BY <1>6, ItemSizeIs, MulNat
  <2>3. HeaderSize + ItemStart(k + 1) = offset /\ offset \in Nat
    BY <1>4, <1>5, <2>2 DEF ItemStart, HeaderSize
  <2> QED BY <2>1, <2>3
<1> HIDE DEF s
<1>10. <<id.value, value.value>> = s[k + 1] /\ offset' = offset + ItemSize
  BY <1>1, <1>8, <1>9, SensorAt, Zenon
<1> HIDE DEF list, id, value
<1>11. Append(SubSeq(s, 1, k), s[k + 1]) = SubSeq(s, 1, k + 1)
  BY <1>5, <1>6, <1>7
<1>12. pkt' = [timestamp |-> msg.timestamp, sensors |-> SubSeq(s, 1, k + 1)]
  <2>1. pkt.sensors = SubSeq(s, 1, k)
    BY <1>4 DEF s
  <2>2. pkt' = [pkt EXCEPT !.sensors = SubSeq(s, 1, k + 1)]
    BY <1>1, <1>10, <1>11, <2>1
  <2> QED BY <1>4, <2>2
<1>13. offset' = HeaderSize + Len(Front) + (k + 1) * ItemSize
  <2>1. (k + 1) * ItemSize = k * ItemSize + ItemSize /\ k * ItemSize \in Nat
    BY <1>6, ItemSizeIs, MulNat, Z3
  <2> QED BY <1>4, <1>5, <1>10, <2>1, ItemSizeIs DEF HeaderSize
<1>14. SensorsRead'
  <2>1. Front' = Front /\ Numbers' = Numbers /\ msg' = msg /\ pending' = Numbers
    BY <1>1, <1>4 DEF Front, Numbers
  <2>2. k + 1 \in 0 .. Numbers
    BY <1>7
  <2>3. pkt' = [timestamp |-> msg'.timestamp, sensors |-> SubSeq(msg'.sensors, 1, k + 1)]
    BY <1>12, <2>1 DEF s
  <2> QED BY <1>13, <2>1, <2>2, <2>3 DEF SensorsRead
<1>15. HeaderRead'
  BY <1>1 DEF CodecInv, HeaderRead
<1> QED BY <1>1, <1>3, <1>14, <1>15
     DEF CodecInv, PcOK, Built, HeadNext, DecodedIsSent

LEMMA ParseDoneStep == CodecInv /\ ParseDone => CodecInv'
<1> SUFFICES ASSUME CodecInv, ParseDone PROVE CodecInv'
  OBVIOUS
<1>1. /\ pc = "sensors" /\ ~ MoreSensors /\ pc' = "parsed"
      /\ UNCHANGED <<msg, sys, packet, written, offset, pkt, pending, header>>
  BY DEF ParseDone
<1>2. TypeOK /\ Sent /\ msg \in Message
  BY DEF CodecInv, TypeOK
<1>3. TypeOK' /\ Sent'
  BY <1>1, <1>2, SentStays
<1>4. PICK k \in 0 .. Numbers :
        /\ pkt = [timestamp |-> msg.timestamp, sensors |-> SubSeq(msg.sensors, 1, k)]
        /\ pending = Numbers
  BY <1>1 DEF CodecInv, SensorsRead
<1> DEFINE s == msg.sensors
<1>5. s \in Seq(Reading) /\ Numbers = Len(s) /\ Numbers \in 1 .. MaxSensors
  BY <1>2, MessageIs DEF Numbers
<1>6. k = Numbers
  <2>1. Len(SubSeq(s, 1, k)) = k
    BY <1>5, SubSeqProperties
  <2>2. Len(pkt.sensors) = k
    BY <1>4, <2>1
  <2> QED BY <1>1, <1>4, <1>5, <2>2, CodecAssumption DEF MoreSensors
<1>7. pkt = msg
  <2>1. SubSeq(s, 1, Len(s)) = s
    BY <1>5
  <2> QED BY <1>2, <1>4, <1>5, <1>6, <2>1, MessageIs
<1>8. HeaderRead' /\ DecodedIsSent'
  BY <1>1, <1>7 DEF CodecInv, HeaderRead, DecodedIsSent
<1> QED BY <1>1, <1>3, <1>8 DEF CodecInv, PcOK, Built, HeadNext, SensorsRead

LEMMA NextMessageStep == CodecInv /\ NextMessage => CodecInv'
<1> SUFFICES ASSUME CodecInv, NextMessage PROVE CodecInv'
  OBVIOUS
<1>1. /\ msg' \in Message /\ sys' = sys /\ written' = BodyHead(msg') /\ pc' = "build"
  BY DEF NextMessage
<1> DEFINE m == msg'
<1>2. /\ BodyHead(m) \in Seq(Int) /\ Len(BodyHead(m)) \in Nat /\ Len(m.sensors) \in Nat
  BY <1>1, MessageFits
<1>3. TypeOK'
  BY <1>1, <1>2 DEF CodecInv, TypeOK
<1>4. Built'
  <2>1. Front' = BodyHead(m) /\ Numbers' = Len(m.sensors)
    BY DEF Front, Numbers
  <2>2. 0 \in 0 .. Numbers' /\ Len(written') = Len(Front') + 0 * ItemSize
    BY <1>1, <1>2, <2>1, ItemSizeIs
  <2>3. At(written', 1, Front')
    <3>1. \A i \in 1 .. Len(BodyHead(m)) : 1 + i - 1 = i
      BY <1>2
    <3> QED BY <1>1, <2>1, <3>1 DEF At
  <2> QED BY <2>2, <2>3 DEF Built
<1> QED BY <1>1, <1>3, <1>4
     DEF CodecInv, PcOK, Sent, HeaderRead, HeadNext, SensorsRead, DecodedIsSent

LEMMA CodecStep == CodecInv /\ [Next]_vars => CodecInv'
<1> SUFFICES ASSUME CodecInv, [Next]_vars PROVE CodecInv'
  OBVIOUS
<1>1. CASE UNCHANGED vars
  <2>1. /\ UNCHANGED <<msg, sys, packet, written>>
        /\ UNCHANGED <<offset, pkt, pending, header, pc>>
    BY <1>1 DEF vars
  <2>2. /\ TypeOK' = TypeOK /\ PcOK' = PcOK /\ Built' = Built /\ Sent' = Sent
        /\ HeaderRead' = HeaderRead /\ HeadNext' = HeadNext
        /\ SensorsRead' = SensorsRead /\ DecodedIsSent' = DecodedIsSent
    BY <2>1 DEF TypeOK, PcOK, Built, Sent, HeaderRead, HeadNext, SensorsRead,
                DecodedIsSent, Front, Numbers, ItemStart
  <2> QED BY <2>2 DEF CodecInv
<1> QED BY <1>1, AddSensorStep, SendStep, HandleStep, ParseHeadStep, ParseSensorStep,
           ParseDoneStep, NextMessageStep DEF Next

(* What the server decodes is what the equipment sent: timestamp, number   *)
(* of readings, every id and value, and the system bytes, for every length *)
(* of the length fields (secs2.c:4-42 against secs2_parser.c:57-206).      *)
THEOREM AlwaysDecoded == Spec => []DecodedIsSent
<1>1. CodecInv => DecodedIsSent
  BY DEF CodecInv
<1> QED BY <1>1, InitCodec, CodecStep, PTL DEF Spec

(* Neither side leaves the packet, though neither looks: what is written   *)
(* so far fits behind the header into FIXED_SIZE (packet.c:60-76), and a   *)
(* reading about to be parsed lies in it (secs2_parser.c:198-203).         *)
InsidePacket ==
  /\ pc = "build" => HeaderSize + Len(written) <= FixedSize
  /\ pc = "sensors" /\ MoreSensors => offset + ItemSize <= FixedSize

THEOREM StaysInPacket == Spec => []InsidePacket
<1>1. ASSUME CodecInv PROVE InsidePacket
  <2>1. /\ msg \in Message /\ Len(Front) \in Nat /\ Numbers \in Nat
        /\ HeaderSize + Len(Front) + Numbers * ItemSize <= FixedSize
    BY <1>1, MessageFits, PacketHolds DEF CodecInv, TypeOK, Front, Numbers
  <2>2. Numbers * ItemSize \in Nat /\ ItemSize \in Nat /\ FixedSize \in Nat
    BY <2>1, ItemSizeIs, MulNat, CodecAssumption
  <2>3. ASSUME pc = "build" PROVE HeaderSize + Len(written) <= FixedSize
    <3>1. PICK k \in 0 .. Numbers : Len(written) = Len(Front) + k * ItemSize
      BY <1>1, <2>3 DEF CodecInv, Built
    <3>2. k * ItemSize <= Numbers * ItemSize /\ k * ItemSize \in Nat
      BY <2>1, <2>2, MulMonotone, MulNat
    <3> QED BY <2>1, <2>2, <3>1, <3>2 DEF HeaderSize
  <2>4. ASSUME pc = "sensors", MoreSensors PROVE offset + ItemSize <= FixedSize
    <3>1. PICK k \in 0 .. Numbers :
            /\ pkt = [timestamp |-> msg.timestamp, sensors |-> SubSeq(msg.sensors, 1, k)]
            /\ offset = HeaderSize + Len(Front) + k * ItemSize
            /\ pending = Numbers
      BY <1>1, <2>4 DEF CodecInv, SensorsRead
    <3>2. Len(pkt.sensors) = k /\ k \in Nat
      <4> DEFINE s == msg.sensors
      <4>1. s \in Seq(Reading) /\ Numbers = Len(s)
        BY <2>1, MessageIs DEF Numbers
      <4> HIDE DEF s
      <4>2. Len(SubSeq(s, 1, k)) = k
        BY <4>1, SubSeqProperties
      <4> QED BY <3>1, <4>2 DEF s
    <3>3. k + 1 \in 1 .. Numbers
      BY <2>1, <2>4, <3>1, <3>2 DEF MoreSensors
    <3>4. /\ (k + 1) * ItemSize <= Numbers * ItemSize
          /\ (k + 1) * ItemSize = k * ItemSize + ItemSize /\ k * ItemSize \in Nat
      <4>1. (k + 1) * ItemSize <= Numbers * ItemSize
        BY <2>1, <2>2, <3>3, MulMonotone
      <4>2. (k + 1) * ItemSize = k * ItemSize + ItemSize /\ k * ItemSize \in Nat
        BY <2>2, <3>2, Z3
      <4> QED BY <4>1, <4>2
    <3> QED BY <2>1, <2>2, <3>1, <3>4 DEF HeaderSize
  <2> QED BY <2>3, <2>4 DEF InsidePacket
<1> QED BY <1>1, InitCodec, CodecStep, PTL DEF Spec

=============================================================================
