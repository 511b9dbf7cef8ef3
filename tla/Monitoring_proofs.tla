-------------------------- MODULE Monitoring_proofs --------------------------
(***************************************************************************)
(* The two programs of monitoring/.  bridge.js, for every number and size  *)
(* of reports, however the stream is cut and whenever the server dies: its *)
(* buffer stays in step with the frames, and every browser gets the        *)
(* reports in order, without a gap.  The page, for any layout, any values  *)
(* and limits, and reports and clicks in any order: its three views of a   *)
(* sensor agree and its log is the newest anomalies.                       *)
(***************************************************************************)
EXTENDS Bridge, Dashboard, SequenceTheorems, WellFoundedInduction, TLAPS

(* A set of numbers that is not empty has a least element.                 *)
LEMMA LeastOf ==
  ASSUME NEW T, T \subseteq Nat, T # {}
  PROVE  \E m \in T : \A j \in T : m <= j
<1>1. PICK m \in T : \A j \in T : ~ (<<j, m>> \in OpToRel(<, Nat))
  BY WFMin, NatLessThanWellFounded
<1>2. ASSUME NEW j \in T PROVE m <= j
  <2>1. m \in Nat /\ j \in Nat
    OBVIOUS
  <2>2. <<j, m>> \in Nat \X Nat /\ ~ (<<j, m>> \in OpToRel(<, Nat))
    BY <1>1, <2>1
  <2>3. ~ (j < m)
    BY <2>1, <2>2, Zenon DEF OpToRel
  <2> QED BY <2>1, <2>3
<1> QED BY <1>2

-----------------------------------------------------------------------------
(* The ends of the frames.                                                 *)
EndTo(n, w) ==
  w = [k \in 0 .. n |-> IF k = 0 THEN 0 ELSE w[k - 1] + HeaderSize + BodySize[k]]

LEMMA EndReaches == ASSUME NEW n \in Nat PROVE \E w : EndTo(n, w)
<1> DEFINE T == {k \in Nat : ~ \E w : EndTo(k, w)}
<1> SUFFICES ASSUME T # {} PROVE FALSE
  OBVIOUS
<1>1. PICK m \in T : \A j \in T : m <= j
  BY LeastOf, T \subseteq Nat
<1>2. m \in Nat /\ ~ \E w : EndTo(m, w)
  OBVIOUS
<1>3. m # 0
  <2>1. EndTo(0, [k \in 0 .. 0 |-> 0])
    BY DEF EndTo
  <2> QED BY <1>2, <2>1
<1>4. m - 1 \in Nat /\ ~ (m <= m - 1)
  BY <1>2, <1>3
<1>5. PICK w : EndTo(m - 1, w)
  BY <1>1, <1>4
<1> DEFINE x == [k \in 0 .. m |-> IF k = m THEN w[m - 1] + HeaderSize + BodySize[m] ELSE w[k]]
<1>6. \A k \in 0 .. m - 1 : x[k] = w[k]
  BY <1>2, <1>4
<1>7. x[m] = w[m - 1] + HeaderSize + BodySize[m]
  BY <1>2
<1>8. x = [k \in 0 .. m |-> x[k]]
  OBVIOUS
<1> HIDE DEF x
<1>10. ASSUME NEW k \in 0 .. m
       PROVE  x[k] = IF k = 0 THEN 0 ELSE x[k - 1] + HeaderSize + BodySize[k]
  <2>1. CASE k = m
    <3>1. x[m - 1] = w[m - 1]
      BY <1>4, <1>6
    <3>2. x[m] = x[m - 1] + HeaderSize + BodySize[m]
      BY <1>7, <3>1
    <3> QED BY <1>3, <2>1, <3>2
  <2>2. CASE k = 0
    <3>1. x[0] = w[0]
      BY <1>4, <1>6
    <3>2. w[0] = 0
      BY <1>4, <1>5 DEF EndTo
    <3> QED BY <2>2, <3>1, <3>2
  <2>3. CASE k # m /\ k # 0
    <3>1. k \in 0 .. m - 1 /\ k - 1 \in 0 .. m - 1
      BY <1>2, <2>3
    <3>2. w[k] = IF k = 0 THEN 0 ELSE w[k - 1] + HeaderSize + BodySize[k]
      BY <1>5, <3>1 DEF EndTo
    <3>3. x[k] = w[k] /\ x[k - 1] = w[k - 1]
      BY <1>6, <3>1
    <3> QED BY <2>3, <3>2, <3>3
  <2> QED BY <2>1, <2>2, <2>3
<1>9. EndTo(m, x)
  BY <1>10, <1>8 DEF EndTo
<1> QED BY <1>2, <1>9

LEMMA Bounds ==
  /\ HeaderSize \in Nat /\ HeaderSize >= 1 /\ MaxReports \in Nat
  /\ \A n \in 1 .. MaxReports : BodySize[n] \in Nat
BY BridgeAssumption DEF MaxReports

LEMMA EndSteps ==
  /\ End[0] = 0
  /\ \A n \in 1 .. MaxReports : End[n] = End[n - 1] + HeaderSize + BodySize[n]
<1> DEFINE w == CHOOSE v : EndTo(MaxReports, v)
<1>1. EndTo(MaxReports, w)
  BY Bounds, EndReaches
<1>2. End = w
  BY DEF End, EndTo
<1> HIDE DEF w
<1>3. w[0] = 0
  BY <1>1, Bounds DEF EndTo
<1>4. ASSUME NEW n \in 1 .. MaxReports PROVE w[n] = w[n - 1] + HeaderSize + BodySize[n]
  <2>1. n \in 0 .. MaxReports /\ n # 0
    BY Bounds
  <2> QED BY <1>1, <2>1 DEF EndTo
<1> QED BY <1>2, <1>3, <1>4

LEMMA EndAfter ==
  ASSUME NEW n \in Nat, n + 1 \in 1 .. MaxReports
  PROVE  End[n + 1] = End[n] + HeaderSize + BodySize[n + 1]
<1> DEFINE m == n + 1
<1>1. m - 1 = n
  OBVIOUS
<1>2. End[m] = End[m - 1] + HeaderSize + BodySize[m]
  BY EndSteps
<1> QED BY <1>1, <1>2

LEMMA EndIsNat == \A n \in 0 .. MaxReports : End[n] \in Nat
<1> DEFINE T == {n \in 0 .. MaxReports : End[n] \notin Nat}
<1> SUFFICES ASSUME T # {} PROVE FALSE
  OBVIOUS
<1>1. T \subseteq Nat
  BY Bounds
<1>2. PICK m \in T : \A j \in T : m <= j
  BY <1>1, LeastOf
<1>3. m \in 0 .. MaxReports /\ End[m] \notin Nat /\ m # 0
  BY EndSteps
<1>4. m \in 1 .. MaxReports /\ m - 1 \in 0 .. MaxReports /\ ~(m <= m - 1)
  BY <1>3, Bounds
<1>5. End[m - 1] \in Nat
  BY <1>2, <1>4
<1> QED BY <1>3, <1>4, <1>5, EndSteps, Bounds

(* Later frames end later.                                                 *)
LEMMA EndGrows ==
  \A i, j \in 0 .. MaxReports : i < j => End[i] + HeaderSize <= End[j]
<1> SUFFICES ASSUME NEW i \in 0 .. MaxReports
             PROVE  \A j \in 0 .. MaxReports : i < j => End[i] + HeaderSize <= End[j]
  OBVIOUS
<1> DEFINE T == {j \in 0 .. MaxReports : i < j /\ ~(End[i] + HeaderSize <= End[j])}
<1> SUFFICES ASSUME T # {} PROVE FALSE
  OBVIOUS
<1>1. T \subseteq Nat
  BY Bounds
<1>2. PICK m \in T : \A j \in T : m <= j
  BY <1>1, LeastOf
<1>3. m \in 0 .. MaxReports /\ i < m /\ ~(End[i] + HeaderSize <= End[m])
  OBVIOUS
<1>4. m \in 1 .. MaxReports /\ m - 1 \in 0 .. MaxReports /\ ~(m <= m - 1) /\ i <= m - 1
  BY <1>3, Bounds
<1>5. End[m] = End[m - 1] + HeaderSize + BodySize[m] /\ BodySize[m] \in Nat
      /\ End[m - 1] \in Nat /\ End[i] \in Nat
  BY <1>4, EndSteps, EndIsNat, Bounds
<1>6. ~(End[i] <= End[m - 1])
  BY <1>3, <1>5, Bounds
<1>7. i < m - 1 => End[i] + HeaderSize <= End[m - 1]
  BY <1>2, <1>4
<1>8. i # m - 1
  BY <1>5, <1>6
<1> HIDE DEF T
<1>9. i < m - 1
  BY <1>3, <1>4, <1>8
<1> QED BY <1>5, <1>6, <1>7, <1>9, Bounds

(* Every unit of the stream lies in exactly one frame.                     *)
LEMMA FrameUnique ==
  ASSUME NEW n \in 1 .. MaxReports, NEW p \in Nat, End[n - 1] < p, p <= End[n]
  PROVE  FrameOf(p) = n
<1>1. ASSUME NEW k \in 1 .. MaxReports, End[k - 1] < p, p <= End[k] PROVE k = n
  <2>1. n \in 0 .. MaxReports /\ n - 1 \in 0 .. MaxReports /\ k \in 0 .. MaxReports
        /\ k - 1 \in 0 .. MaxReports
    BY Bounds
  <2>2. End[n] \in Nat /\ End[n - 1] \in Nat /\ End[k] \in Nat /\ End[k - 1] \in Nat
    BY <2>1, EndIsNat
  <2>3. ~(k < n)
    <3>1. k < n => k = n - 1 \/ k < n - 1
      BY <2>1
    <3>2. k < n - 1 => End[k] + HeaderSize <= End[n - 1]
      BY <2>1, EndGrows
    <3> QED BY <1>1, <2>2, <3>1, <3>2, Bounds
  <2>4. ~(n < k)
    <3>1. n < k => n = k - 1 \/ n < k - 1
      BY <2>1
    <3>2. n < k - 1 => End[n] + HeaderSize <= End[k - 1]
      BY <2>1, EndGrows
    <3> QED BY <1>1, <2>2, <3>1, <3>2, Bounds
  <2> QED BY <2>1, <2>3, <2>4
<1> QED BY <1>1 DEF FrameOf

LEMMA UnitAt ==
  ASSUME NEW c, NEW n \in Nat, n + 1 \in 1 .. MaxReports, NEW i \in Nat, i >= 1,
         End[n] + i <= End[n + 1]
  PROVE  Unit(c, End[n] + i) = <<c, n + 1, i - 1>>
<1> DEFINE m == n + 1  p == End[n] + i
<1>1. m \in 1 .. MaxReports /\ m - 1 = n /\ n \in 0 .. MaxReports
  BY Bounds
<1>2. p \in Nat /\ End[m - 1] < p /\ p <= End[m] /\ p - End[m - 1] - 1 = i - 1
  BY <1>1, EndIsNat
<1> HIDE DEF m, p
<1>3. FrameOf(p) = m
  BY <1>1, <1>2, FrameUnique
<1>4. Unit(c, p) = <<c, m, i - 1>>
  BY <1>2, <1>3, Zenon DEF Unit
<1> QED BY <1>4 DEF m, p

LEMMA FrameExists ==
  ASSUME NEW p \in 1 .. End[MaxReports]
  PROVE  FrameOf(p) \in 1 .. MaxReports
<1> DEFINE T == {n \in 0 .. MaxReports : p <= End[n]}
<1>0. MaxReports \in 0 .. MaxReports /\ End[MaxReports] \in Nat /\ p \in Nat /\ p >= 1
  BY Bounds, EndIsNat
<1>1. T \subseteq Nat /\ T # {}
  BY <1>0, Bounds
<1>2. PICK m \in T : \A j \in T : m <= j
  BY <1>1, LeastOf
<1>3. m \in 0 .. MaxReports /\ p <= End[m]
  OBVIOUS
<1>4. m # 0
  BY <1>0, <1>3, EndSteps
<1>5. m \in 1 .. MaxReports /\ m - 1 \in 0 .. MaxReports /\ ~(m <= m - 1)
  BY <1>3, <1>4, Bounds
<1>6. End[m - 1] \in Nat /\ ~(p <= End[m - 1])
  BY <1>2, <1>5, EndIsNat
<1> HIDE DEF T
<1>7. End[m - 1] < p
  BY <1>0, <1>6
<1> QED BY <1>0, <1>3, <1>5, <1>7, FrameUnique

-----------------------------------------------------------------------------
(* Pieces of a connection's stream.                                        *)
Conns == 0 .. MaxConns
Reports == 1 .. MaxReports
UnitSet == Conns \X Reports \X Int
Place == 0 .. End[MaxReports]

LEMMA PlaceIsNat == End[MaxReports] \in Nat /\ Place \subseteq Nat
<1>1. End[MaxReports] \in Nat
  BY Bounds, EndIsNat
<1> QED BY <1>1 DEF Place

LEMMA UnitType ==
  ASSUME NEW c \in Conns, NEW p \in 1 .. End[MaxReports]
  PROVE  Unit(c, p) \in UnitSet
<1>1. FrameOf(p) \in 1 .. MaxReports
  BY FrameExists
<1> DEFINE f == FrameOf(p)
<1>2. f - 1 \in 0 .. MaxReports
  BY <1>1, Bounds
<1>3. End[f - 1] \in Nat /\ p \in Int
  BY <1>2, EndIsNat, PlaceIsNat
<1>4. p - End[f - 1] - 1 \in Int
  BY <1>3
<1> QED BY <1>1, <1>4 DEF Unit, UnitSet, Reports

LEMMA StreamShape ==
  ASSUME NEW c \in Conns, NEW from \in Place, NEW to \in Place, from <= to
  PROVE  /\ Stream(c, from, to) \in Seq(UnitSet)
         /\ Len(Stream(c, from, to)) = to - from
         /\ \A i \in 1 .. to - from : Stream(c, from, to)[i] = Unit(c, from + i)
<1>1. from \in Nat /\ to \in Nat /\ to - from \in Nat /\ to <= End[MaxReports]
      /\ End[MaxReports] \in Nat
  BY PlaceIsNat DEF Place
<1>2. ASSUME NEW i \in 1 .. to - from PROVE Unit(c, from + i) \in UnitSet
  <2>1. from + i \in 1 .. End[MaxReports]
    BY <1>1
  <2> QED BY <2>1, UnitType
<1>3. Stream(c, from, to) = [i \in 1 .. to - from |-> Unit(c, from + i)]
  BY DEF Stream
<1>4. Stream(c, from, to) \in [1 .. to - from -> UnitSet]
  BY <1>2, <1>3
<1>5. Stream(c, from, to) \in Seq(UnitSet) /\ Len(Stream(c, from, to)) = to - from
  BY <1>1, <1>4
<1> QED BY <1>3, <1>5

(* What comes next continues what came before.                             *)
LEMMA StreamJoins ==
  ASSUME NEW c \in Conns, NEW a \in Place, NEW b \in Place, NEW d \in Place, a <= b, b <= d
  PROVE  Stream(c, a, b) \o Stream(c, b, d) = Stream(c, a, d)
<1> DEFINE s == Stream(c, a, b)  t == Stream(c, b, d)  u == Stream(c, a, d)
<1>1. a \in Nat /\ b \in Nat /\ d \in Nat /\ a <= d
  BY PlaceIsNat
<1>2. s \in Seq(UnitSet) /\ Len(s) = b - a /\ \A i \in 1 .. b - a : s[i] = Unit(c, a + i)
  BY StreamShape
<1>3. t \in Seq(UnitSet) /\ Len(t) = d - b /\ \A i \in 1 .. d - b : t[i] = Unit(c, b + i)
  BY StreamShape
<1>4. u \in Seq(UnitSet) /\ Len(u) = d - a /\ \A i \in 1 .. d - a : u[i] = Unit(c, a + i)
  BY <1>1, StreamShape
<1> HIDE DEF s, t, u
<1>5. /\ s \o t \in Seq(UnitSet) /\ Len(s \o t) = Len(s) + Len(t)
      /\ \A i \in 1 .. Len(s) + Len(t) :
           (s \o t)[i] = IF i <= Len(s) THEN s[i] ELSE t[i - Len(s)]
  BY <1>2, <1>3, ConcatProperties
<1>6. Len(s) + Len(t) = d - a
  BY <1>1, <1>2, <1>3
<1>7. ASSUME NEW i \in 1 .. d - a PROVE (s \o t)[i] = u[i]
  <2>1. (s \o t)[i] = IF i <= b - a THEN s[i] ELSE t[i - (b - a)]
    BY <1>2, <1>5, <1>6
  <2>2. CASE i <= b - a
    <3>1. i \in 1 .. b - a
      BY <1>1, <2>2
    <3> QED BY <1>2, <1>4, <2>1, <2>2, <3>1
  <2>3. CASE ~(i <= b - a)
    <3>1. i - (b - a) \in 1 .. d - b /\ b + (i - (b - a)) = a + i
      BY <1>1, <2>3
    <3> QED BY <1>3, <1>4, <2>1, <2>3, <3>1
  <2> QED BY <2>2, <2>3
<1>8. s \o t = u
  BY <1>4, <1>5, <1>6, <1>7, SeqEqual
<1> QED BY <1>8 DEF s, t, u

(* Cutting a whole frame off the front leaves the stream after it.         *)
LEMMA StreamCut ==
  ASSUME NEW c \in Conns, NEW a \in Place, NEW b \in Place, NEW d \in Place, a <= b, b <= d
  PROVE  SubSeq(Stream(c, a, d), b - a + 1, Len(Stream(c, a, d))) = Stream(c, b, d)
<1> DEFINE u == Stream(c, a, d)  t == Stream(c, b, d)  v == SubSeq(u, b - a + 1, Len(u))
<1>1. a \in Nat /\ b \in Nat /\ d \in Nat /\ a <= d
  BY PlaceIsNat
<1>2. t \in Seq(UnitSet) /\ Len(t) = d - b /\ \A i \in 1 .. d - b : t[i] = Unit(c, b + i)
  BY StreamShape
<1>3. u \in Seq(UnitSet) /\ Len(u) = d - a /\ \A i \in 1 .. d - a : u[i] = Unit(c, a + i)
  BY <1>1, StreamShape
<1> HIDE DEF u, t
<1>4. \A i \in b - a + 1 .. d - a : u[i] \in UnitSet
  <2>1. \A i \in b - a + 1 .. d - a : i \in 1 .. Len(u)
    BY <1>1, <1>3
  <2> QED BY <1>3, <2>1, ElementOfSeq
<1>5. /\ v \in Seq(UnitSet)
      /\ Len(v) = IF b - a + 1 <= d - a THEN (d - a) - (b - a + 1) + 1 ELSE 0
      /\ \A i \in 1 .. (d - a) - (b - a + 1) + 1 : v[i] = u[b - a + 1 + i - 1]
  <2>1. b - a + 1 \in Int /\ d - a \in Int
    BY <1>1
  <2> QED BY <1>3, <1>4, <2>1, SubSeqProperties
<1> HIDE DEF v
<1>6. (d - a) - (b - a + 1) + 1 = d - b /\ Len(v) = d - b
  BY <1>1, <1>5
<1>7. ASSUME NEW i \in 1 .. d - b PROVE v[i] = t[i]
  <2>1. b - a + 1 + i - 1 \in 1 .. d - a /\ a + (b - a + 1 + i - 1) = b + i
    BY <1>1
  <2> QED BY <1>2, <1>3, <1>5, <1>6, <2>1
<1>8. v = t
  BY <1>2, <1>5, <1>6, <1>7, SeqEqual
<1> QED BY <1>8 DEF u, t, v

-----------------------------------------------------------------------------
(* The inductive invariant.  On an open connection the buffer is what      *)
(* arrived after the last report forwarded, and what an open browser was   *)
(* sent last is the report forwarded last, or one of an earlier connection *)
(* when nothing was forwarded on this one yet.                             *)
Types ==
  /\ server \in BOOLEAN /\ peer \in BOOLEAN /\ forwarding \in BOOLEAN
  /\ conn \in Conns /\ sock \in {"connecting", "open", "waiting"}
  /\ sent \in Place /\ received \in Place /\ received <= sent
  /\ forwarded \in 0 .. MaxReports
  /\ ws \in [Browsers -> {"away", "open", "gone"}]
  /\ inbox \in [Browsers -> Seq(Conns \X Reports)]
Framed == sock = "open" => End[forwarded] <= received
Looping == forwarding => sock = "open"
LastSeen ==
  \A b \in Browsers :
    /\ ws[b] = "away" => inbox[b] = << >>
    /\ ws[b] = "open" /\ inbox[b] # << >> =>
         \/ inbox[b][Len(inbox[b])] = <<conn, forwarded>>
         \/ inbox[b][Len(inbox[b])][1] < conn /\ forwarded = 0
IInv ==
  /\ Types /\ Framed /\ Looping /\ LastSeen
  /\ InStep /\ BrowsersInOrder

LEMMA InitIInv == Init => IInv
<1> SUFFICES ASSUME Init PROVE IInv
  OBVIOUS
<1>1. MaxConns \in Nat /\ 0 \in Place /\ 0 \in 0 .. MaxReports
  BY BridgeAssumption, Bounds, PlaceIsNat DEF Place
<1>2. ws \in [Browsers -> {"away", "open", "gone"}] /\ \A b \in Browsers : ws[b] = "away"
  BY DEF Init
<1>3. inbox \in [Browsers -> Seq(Conns \X Reports)] /\ \A b \in Browsers : inbox[b] = << >>
  <2>1. << >> \in Seq(Conns \X Reports)
    BY EmptySeq
  <2>2. inbox = [b \in Browsers |-> << >>]
    BY DEF Init
  <2> QED BY <2>1, <2>2
<1>4. Types
  <2>1. server \in BOOLEAN /\ peer \in BOOLEAN /\ forwarding \in BOOLEAN
    BY DEF Init
  <2>2. conn \in Conns /\ sock = "connecting" /\ forwarded = 0
        /\ sent \in Place /\ received \in Place /\ received <= sent
    BY <1>1 DEF Init, Conns
  <2> QED BY <1>1, <1>2, <1>3, <2>1, <2>2 DEF Types
<1>5. Framed /\ Looping /\ InStep
  BY DEF Init, Framed, Looping, InStep
<1>6. LastSeen
  BY <1>2, <1>3 DEF LastSeen
<1>7. BrowsersInOrder
  BY <1>3 DEF BrowsersInOrder
<1> QED BY <1>4, <1>5, <1>6, <1>7 DEF IInv

(* Steps that neither receive nor forward, nor open the connection.        *)
LEMMA QuietStep ==
  ASSUME IInv, Types', UNCHANGED <<conn, received, buffer, forwarded, inbox, ws>>,
         sock' = sock \/ sock' # "open", forwarding' => forwarding /\ sock' = sock
  PROVE  IInv'
<1>1. Framed' /\ Looping' /\ InStep'
  BY DEF IInv, Framed, Looping, InStep
<1>2. LastSeen'
  BY DEF IInv, LastSeen
<1>3. BrowsersInOrder'
  BY DEF IInv, BrowsersInOrder
<1> QED BY <1>1, <1>2, <1>3 DEF IInv

LEMMA ServerIInv == ASSUME IInv, ServerStep PROVE IInv'
<1>0. Types /\ Looping /\ End[MaxReports] \in Nat /\ sent \in Nat /\ received \in Nat
      /\ received <= sent /\ sent <= End[MaxReports]
  BY PlaceIsNat DEF IInv, Types, Place
<1>1. CASE ServerSends
  <2>1. sent' = sent + 1 /\ sent < End[MaxReports]
    BY <1>1 DEF ServerSends
  <2>2. sent' \in Place /\ received <= sent'
    BY <1>0, <2>1 DEF Place
  <2>3. Types'
    BY <1>0, <1>1, <2>2 DEF ServerSends, Types, loopVars, browserVars
  <2> QED BY <1>1, <2>3, QuietStep DEF ServerSends, loopVars, browserVars
<1>2. CASE ServerStops
  <2>1. sent' \in Place /\ received <= sent'
    <3>1. sent' \in received .. sent
      BY <1>2 DEF ServerStops
    <3> QED BY <1>0, <3>1 DEF Place
  <2>2. Types'
    BY <1>0, <1>2, <2>1 DEF ServerStops, Types, loopVars, browserVars
  <2> QED BY <1>2, <2>2, QuietStep DEF ServerStops, loopVars, browserVars
<1>3. CASE ServerStarts
  <2>1. Types'
    BY <1>0, <1>3 DEF ServerStarts, Types, loopVars, browserVars
  <2> QED BY <1>3, <2>1, QuietStep DEF ServerStarts, loopVars, browserVars
<1>4. CASE ServerDrops
  <2>1. sent' \in Place /\ received <= sent'
    <3>1. sent' \in received .. sent
      BY <1>4 DEF ServerDrops
    <3> QED BY <1>0, <3>1 DEF Place
  <2>2. Types'
    BY <1>0, <1>4, <2>1 DEF ServerDrops, Types, loopVars, browserVars
  <2> QED BY <1>4, <2>2, QuietStep DEF ServerDrops, loopVars, browserVars
<1> QED BY <1>1, <1>2, <1>3, <1>4 DEF ServerStep

LEMMA IdleIInv == ASSUME IInv, Refused \/ Closed \/ Retry \/ DataDone PROVE IInv'
<1>0. Types /\ Looping
  BY DEF IInv
<1>1. CASE Refused
  <2>1. Types'
    BY <1>0, <1>1 DEF Refused, AfterRefusal, Types, loopVars, browserVars
  <2> QED BY <1>0, <1>1, <2>1, QuietStep
          DEF Refused, AfterRefusal, Looping, loopVars, browserVars
<1>2. CASE Closed
  <2>1. Types'
    BY <1>0, <1>2 DEF Closed, Types, loopVars, browserVars
  <2> QED BY <1>2, <2>1, QuietStep DEF Closed, loopVars, browserVars
<1>3. CASE Retry
  <2>1. Types'
    BY <1>0, <1>3 DEF Retry, Types, loopVars, browserVars
  <2> QED BY <1>0, <1>3, <2>1, QuietStep DEF Retry, Looping, loopVars, browserVars
<1>4. CASE DataDone
  <2>1. Types'
    BY <1>0, <1>4 DEF DataDone, Types, browserVars
  <2> QED BY <1>4, <2>1, QuietStep DEF DataDone, browserVars
<1> QED BY <1>1, <1>2, <1>3, <1>4

(* A new connection starts with an empty buffer; whatever a browser was    *)
(* sent before belongs to an earlier one.                                  *)
LEMMA ConnectedIInv == ASSUME IInv, Connected PROVE IInv'
<1>0. Types /\ Looping /\ LastSeen /\ BrowsersInOrder
  BY DEF IInv
<1>1. /\ sock = "connecting" /\ conn < MaxConns
      /\ sock' = "open" /\ conn' = conn + 1 /\ peer' = TRUE /\ sent' = 0 /\ received' = 0
      /\ buffer' = << >> /\ forwarded' = 0
      /\ UNCHANGED <<server, forwarding, ws, inbox>>
  BY DEF Connected, NewBuffer, browserVars
<1>2. conn \in Nat /\ MaxConns \in Nat /\ conn' \in Conns /\ End[0] = 0
      /\ 0 \in Place /\ 0 \in 0 .. MaxReports
  BY <1>0, <1>1, BridgeAssumption, EndSteps, Bounds, PlaceIsNat DEF Types, Conns, Place
<1>3. Types'
  BY <1>0, <1>1, <1>2 DEF Types
<1>4. Framed' /\ Looping'
  BY <1>1, <1>2 DEF Framed, Looping
<1>5. InStep'
  <2>1. Stream(conn', 0, 0) = << >>
    BY <1>2, StreamShape, EmptySeq
  <2> QED BY <1>1, <1>2, <2>1 DEF InStep
<1>6. LastSeen'
  <2> SUFFICES ASSUME NEW b \in Browsers
               PROVE  /\ ws[b] = "away" => inbox[b] = << >>
                      /\ ws[b] = "open" /\ inbox[b] # << >> =>
                           inbox[b][Len(inbox[b])][1] < conn'
    BY <1>1 DEF LastSeen
  <2>1. CASE inbox[b] = << >>
    BY <2>1
  <2>2. CASE inbox[b] # << >>
    <3>1. inbox[b] \in Seq(Conns \X Reports) /\ Len(inbox[b]) \in 1 .. Len(inbox[b])
      BY <1>0, <2>2 DEF Types
    <3>2. inbox[b][Len(inbox[b])] \in Conns \X Reports
      BY <3>1, ElementOfSeq
    <3>3. inbox[b][Len(inbox[b])][1] \in Nat
      BY <1>2, <3>2 DEF Conns
    <3>4. ws[b] = "open" => inbox[b][Len(inbox[b])] = <<conn, forwarded>>
                            \/ inbox[b][Len(inbox[b])][1] < conn
      BY <1>0, <2>2 DEF LastSeen
    <3>5. ws[b] = "open" => inbox[b][Len(inbox[b])][1] < conn'
      BY <1>1, <1>2, <3>3, <3>4
    <3> QED BY <1>0, <3>5 DEF LastSeen
  <2> QED BY <2>1, <2>2
<1>7. BrowsersInOrder'
  BY <1>0, <1>1 DEF BrowsersInOrder
<1> QED BY <1>3, <1>4, <1>5, <1>6, <1>7 DEF IInv

LEMMA DataIInv == ASSUME IInv, Data PROVE IInv'
<1>0. Types /\ Framed /\ Looping /\ LastSeen /\ BrowsersInOrder /\ InStep
  BY DEF IInv
<1>1. /\ sock = "open" /\ received' \in received + 1 .. sent
      /\ buffer' = buffer \o Stream(conn, received, received') /\ forwarding' = TRUE
      /\ UNCHANGED <<server, conn, sock, peer, sent, forwarded, ws, inbox>>
  BY DEF Data, browserVars
<1>2. /\ received \in Nat /\ sent \in Nat /\ sent <= End[MaxReports]
      /\ End[forwarded] \in Nat /\ End[forwarded] <= received /\ End[MaxReports] \in Nat
      /\ conn \in Conns
  BY <1>0, <1>1, PlaceIsNat, EndIsNat DEF Types, Framed, Place
<1>3. received' \in Place /\ received <= received' /\ received' <= sent' /\ received \in Place
      /\ End[forwarded] \in Place /\ End[forwarded] <= received'
  BY <1>1, <1>2 DEF Place
<1>4. Types'
  BY <1>0, <1>1, <1>3 DEF Types
<1>5. Framed' /\ Looping'
  BY <1>1, <1>3 DEF Framed, Looping
<1>6. InStep'
  <2>1. buffer = Stream(conn, End[forwarded], received)
    BY <1>0, <1>1 DEF InStep
  <2>2. Stream(conn, End[forwarded], received) \o Stream(conn, received, received')
          = Stream(conn, End[forwarded], received')
    BY <1>2, <1>3, StreamJoins
  <2> QED BY <1>1, <2>1, <2>2 DEF InStep
<1>7. LastSeen' /\ BrowsersInOrder'
  BY <1>0, <1>1 DEF LastSeen, BrowsersInOrder
<1> QED BY <1>4, <1>5, <1>6, <1>7 DEF IInv

LEMMA TabsIInv ==
  ASSUME IInv, NEW b \in Browsers, BrowserOpens(b) \/ BrowserCloses(b)
  PROVE  IInv'
<1>0. Types /\ Framed /\ Looping /\ LastSeen /\ BrowsersInOrder /\ InStep
  BY DEF IInv
<1>1. UNCHANGED <<server, conn, sock, peer, sent, received, buffer, forwarding, forwarded, inbox>>
  BY DEF BrowserOpens, BrowserCloses, loopVars
<1>2. Types'
  BY <1>0, <1>1 DEF Types, BrowserOpens, BrowserCloses
<1>3. Framed' /\ Looping' /\ InStep'
  BY <1>0, <1>1 DEF Framed, Looping, InStep
<1>4. BrowsersInOrder'
  BY <1>0, <1>1 DEF BrowsersInOrder
<1>5. LastSeen'
  <2>1. \A d \in Browsers : d # b => ws'[d] = ws[d]
    BY <1>0 DEF Types, BrowserOpens, BrowserCloses
  <2>2. \/ ws'[b] = "open" /\ inbox[b] = << >>
        \/ ws'[b] = "gone"
    BY <1>0 DEF Types, BrowserOpens, BrowserCloses, LastSeen
  <2> QED BY <1>0, <1>1, <2>1, <2>2 DEF LastSeen
<1> QED BY <1>2, <1>3, <1>4, <1>5 DEF IInv

(* When a whole header is in the buffer it is the header of the report     *)
(* after the last one forwarded, so the length read is that report's.      *)
LEMMA HeaderInFront ==
  ASSUME Types, Framed, InStep, sock = "open", HasHeader
  PROVE  /\ forwarded + 1 \in Reports /\ MsgLens = {BodySize[forwarded + 1]}
         /\ buffer[HeaderSize] = <<conn, forwarded + 1, HeaderSize - 1>>
<1> DEFINE f == forwarded
<1>1. buffer = Stream(conn, End[f], received) /\ End[f] <= received
  BY DEF InStep, Framed
<1>2. /\ conn \in Conns /\ f \in 0 .. MaxReports /\ received \in Nat
      /\ received <= End[MaxReports] /\ End[MaxReports] \in Nat /\ End[f] \in Nat
      /\ HeaderSize \in Nat /\ HeaderSize >= 1 /\ MaxReports \in Nat
  BY PlaceIsNat, EndIsNat, Bounds DEF Types, Place
<1>3. /\ Len(buffer) = received - End[f]
      /\ \A i \in 1 .. received - End[f] : buffer[i] = Unit(conn, End[f] + i)
  <2>1. End[f] \in Place /\ received \in Place
    BY <1>1, <1>2 DEF Place
  <2> QED BY <1>1, <1>2, <2>1, StreamShape
<1>4. received - End[f] >= HeaderSize
  BY <1>3 DEF HasHeader
<1>5. f # MaxReports
  BY <1>2, <1>4
<1>6. f + 1 \in Reports /\ f + 1 - 1 = f
  BY <1>2, <1>5 DEF Reports
<1>7. End[f + 1] = End[f] + HeaderSize + BodySize[f + 1] /\ BodySize[f + 1] \in Nat
  BY <1>2, <1>6, EndAfter, Bounds DEF Reports
<1>8. ASSUME NEW i \in 1 .. HeaderSize PROVE buffer[i] = <<conn, f + 1, i - 1>>
  <2>1. i \in 1 .. received - End[f] /\ End[f] + i \in Nat
        /\ End[f] < End[f] + i /\ End[f] + i <= End[f + 1]
    BY <1>2, <1>4, <1>7
  <2>2. Unit(conn, End[f] + i) = <<conn, f + 1, i - 1>>
    <3>1. f \in Nat /\ f + 1 \in 1 .. MaxReports /\ i \in Nat /\ i >= 1
      BY <1>2, <1>6 DEF Reports
    <3> HIDE DEF f
    <3> QED BY <2>1, <3>1, UnitAt
  <2> QED BY <1>3, <2>1, <2>2
<1>9. HeaderIsWhole
  <2>1. 1 \in 1 .. HeaderSize
    BY <1>2
  <2>2. buffer[1][1] = conn /\ buffer[1][2] = f + 1
    BY <1>8, <2>1
  <2> QED BY <1>8, <2>2 DEF HeaderIsWhole
<1>10. buffer[1][2] = f + 1
  <2>1. 1 \in 1 .. HeaderSize
    BY <1>2
  <2> QED BY <1>8, <2>1
<1>11. HeaderSize \in 1 .. HeaderSize
  BY <1>2
<1> QED BY <1>6, <1>8, <1>9, <1>10, <1>11 DEF MsgLens

(* What follows what in a browser's inbox.                                 *)
Follows(this, next) ==
  \/ next = <<this[1], this[2] + 1>>
  \/ next[1] > this[1] /\ next[2] = 1

LEMMA OrderedInboxes ==
  BrowsersInOrder <=>
    \A b \in Browsers : \A i \in 1 .. Len(inbox[b]) - 1 : Follows(inbox[b][i], inbox[b][i + 1])
BY DEF BrowsersInOrder, Follows

LEMMA ForwardIInv == ASSUME IInv, Forward PROVE IInv'
<1>0. Types /\ Framed /\ Looping /\ LastSeen /\ BrowsersInOrder /\ InStep
  BY DEF IInv
<1> DEFINE f == forwarded  r == <<conn, f + 1>>
<1>1. /\ forwarding /\ HasHeader /\ sock = "open"
      /\ inbox' = ToOpen(<<buffer[HeaderSize][1], buffer[HeaderSize][2]>>)
      /\ forwarded' = f + 1
      /\ UNCHANGED <<server, conn, sock, peer, sent, received, forwarding, ws>>
  BY <1>0 DEF Forward, Looping
<1>2. f + 1 \in Reports /\ MsgLens = {BodySize[f + 1]}
      /\ buffer[HeaderSize] = <<conn, f + 1, HeaderSize - 1>>
  BY <1>0, <1>1, HeaderInFront
<1>3. HasMessage(BodySize[f + 1]) /\ buffer' = Sliced(BodySize[f + 1])
  BY <1>2 DEF Forward
<1>4. inbox' = ToOpen(r)
  BY <1>1, <1>2
<1>5. /\ conn \in Conns /\ f \in 0 .. MaxReports /\ f + 1 \in 0 .. MaxReports
      /\ received \in Nat /\ received <= End[MaxReports] /\ End[MaxReports] \in Nat
      /\ End[f] \in Nat /\ End[f + 1] \in Nat /\ End[f] <= received
      /\ HeaderSize \in Nat /\ BodySize[f + 1] \in Nat
  BY <1>0, <1>1, <1>2, PlaceIsNat, EndIsNat, Bounds DEF Types, Place, Reports, Framed
<1>6. End[f + 1] = End[f] + HeaderSize + BodySize[f + 1]
  BY <1>2, <1>5, EndAfter DEF Reports
<1>7. buffer = Stream(conn, End[f], received)
  BY <1>0, <1>1 DEF InStep
<1>8. End[f] \in Place /\ received \in Place
  BY <1>5 DEF Place
<1>9. End[f + 1] <= received /\ End[f + 1] \in Place /\ End[f] <= End[f + 1]
  <2>1. Len(buffer) = received - End[f]
    BY <1>5, <1>7, <1>8, StreamShape
  <2>2. received - End[f] >= HeaderSize + BodySize[f + 1]
    BY <1>3, <2>1 DEF HasMessage
  <2> QED BY <1>5, <1>6, <2>2 DEF Place
<1>10. InStep' /\ Framed' /\ Looping'
  <2>1. SubSeq(buffer, End[f + 1] - End[f] + 1, Len(buffer)) = Stream(conn, End[f + 1], received)
    BY <1>5, <1>7, <1>8, <1>9, StreamCut
  <2>2. End[f + 1] - End[f] + 1 = HeaderSize + BodySize[f + 1] + 1
    BY <1>5, <1>6
  <2>3. buffer' = Stream(conn, End[f + 1], received)
    BY <1>3, <2>1, <2>2 DEF Sliced
  <2> QED BY <1>1, <1>9, <2>3 DEF InStep, Framed, Looping
<1>11. r \in Conns \X Reports
  BY <1>2, <1>5
<1>12. ASSUME NEW b \in Browsers
       PROVE  /\ inbox'[b] \in Seq(Conns \X Reports)
              /\ ws[b] # "open" => inbox'[b] = inbox[b]
              /\ ws[b] = "open" =>
                   /\ inbox'[b] # << >> /\ inbox'[b][Len(inbox'[b])] = r
                   /\ Len(inbox'[b]) = Len(inbox[b]) + 1
                   /\ \A i \in 1 .. Len(inbox[b]) : inbox'[b][i] = inbox[b][i]
  <2>1. inbox[b] \in Seq(Conns \X Reports)
    BY <1>0 DEF Types
  <2>2. inbox'[b] = IF ws[b] = "open" THEN Append(inbox[b], r) ELSE inbox[b]
    BY <1>4 DEF ToOpen
  <2> HIDE DEF r
  <2> QED BY <1>11, <2>1, <2>2, AppendProperties
<1> HIDE DEF r
<1>13. Types'
  <2>1. DOMAIN inbox' = Browsers /\ inbox' = [b \in Browsers |-> inbox'[b]]
    BY <1>4 DEF ToOpen
  <2>2. inbox' \in [Browsers -> Seq(Conns \X Reports)]
    BY <1>12, <2>1
  <2> QED BY <1>0, <1>1, <1>5, <2>2 DEF Types
<1>14. LastSeen'
  BY <1>0, <1>1, <1>12 DEF LastSeen, r
<1>15. BrowsersInOrder'
  <2> SUFFICES ASSUME NEW b \in Browsers, NEW i \in 1 .. Len(inbox'[b]) - 1
               PROVE  Follows(inbox'[b][i], inbox'[b][i + 1])
    BY DEF BrowsersInOrder, Follows
  <2>1. inbox[b] \in Seq(Conns \X Reports) /\ Len(inbox[b]) \in Nat
    BY <1>0 DEF Types
  <2>2. \A j \in 1 .. Len(inbox[b]) - 1 : Follows(inbox[b][j], inbox[b][j + 1])
    BY <1>0, OrderedInboxes
  <2>3. CASE ws[b] # "open"
    BY <1>12, <2>2, <2>3
  <2>4. CASE ws[b] = "open" /\ i < Len(inbox[b])
    <3>1. i \in 1 .. Len(inbox[b]) - 1 /\ i \in 1 .. Len(inbox[b]) /\ i + 1 \in 1 .. Len(inbox[b])
      BY <1>12, <2>1, <2>4
    <3> QED BY <1>12, <2>2, <2>4, <3>1
  <2>5. CASE ws[b] = "open" /\ ~(i < Len(inbox[b]))
    <3>1. i = Len(inbox[b]) /\ i \in 1 .. Len(inbox[b]) /\ i + 1 = Len(inbox'[b])
          /\ inbox[b] # << >>
      BY <1>12, <2>1, <2>5
    <3>2. inbox'[b][i] = inbox[b][i] /\ inbox'[b][i + 1] = r
      BY <1>12, <2>5, <3>1
    <3>3. inbox[b][i] \in Conns \X Reports
      BY <2>1, <3>1, ElementOfSeq
    <3>4. \/ inbox[b][i] = <<conn, f>>
          \/ inbox[b][i][1] < conn /\ f = 0
      BY <1>0, <2>5, <3>1 DEF LastSeen
    <3>5. conn \in Int /\ inbox[b][i][1] \in Int
      BY <1>5, <3>3 DEF Conns
    <3>6. Follows(inbox[b][i], r)
      BY <3>4, <3>5 DEF Follows, r
    <3> QED BY <3>2, <3>6
  <2> QED BY <2>3, <2>4, <2>5
<1> QED BY <1>10, <1>13, <1>14, <1>15 DEF IInv

LEMMA StepIInv == IInv /\ [Next]_vars => IInv'
<1> SUFFICES ASSUME IInv, [Next]_vars PROVE IInv'
  OBVIOUS
<1>1. CASE BridgeStep
  BY <1>1, ConnectedIInv, IdleIInv, DataIInv, ForwardIInv DEF BridgeStep
<1>2. CASE ServerStep
  BY <1>2, ServerIInv
<1>3. ASSUME NEW b \in Browsers, BrowserOpens(b) \/ BrowserCloses(b) PROVE IInv'
  BY <1>3, TabsIInv
<1>4. CASE UNCHANGED vars
  <2>1. Types'
    BY <1>4 DEF IInv, Types, vars
  <2> QED BY <1>4, <2>1, QuietStep DEF vars
<1> QED BY <1>1, <1>2, <1>3, <1>4 DEF Next

(* The strengthening holds in every state: the frames on the stream, the   *)
(* place of the forwarding loop, and what each browser was sent last.      *)
THEOREM AlwaysIInv == Spec => []IInv
BY InitIInv, StepIInv, PTL DEF Spec

(* The buffer of an open connection is exactly the stream from the end of  *)
(* the last report forwarded to the last unit received, for every size of  *)
(* the reports and every cut of the stream.                                *)
THEOREM AlwaysInStep == Spec => []InStep
<1>1. IInv => InStep
  BY DEF IInv
<1> QED BY <1>1, AlwaysIInv, PTL

(* Every browser gets the reports of a connection one after the other,     *)
(* each once, and after a reconnect those of the new one from its first.   *)
THEOREM AlwaysInOrder == Spec => []BrowsersInOrder
<1>1. IInv => BrowsersInOrder
  BY DEF IInv
<1> QED BY <1>1, AlwaysIInv, PTL

-----------------------------------------------------------------------------
(* The page.                                                               *)

Shown == [avg : Averages, anomaly : BOOLEAN]
Seen(t) == [avg |-> Last(store[t].history), anomaly |-> store[t].anomaly]

PageTypeOK ==
  /\ store \in [Tiles -> [history : Seq(Averages), anomaly : BOOLEAN]]
  /\ tile \in [Tiles -> Shown \cup {NoTile}]
  /\ active \in Tiles \cup {NoTile}
  /\ log \in Seq(Nat \X Tiles) /\ anomalies \in Seq(Nat \X Tiles)
  /\ todo \in Seq(Reading)
  /\ reports \in Nat

(* What ViewsAgree rests on, and what holds inside a callback too: the     *)
(* tiles are never behind the store, and a sensor is selected only when it *)
(* has data.  Only the panel waits for the end of the report.              *)
TilesShowStore == \A t \in Known : tile[t] = Seen(t)
ActiveIsKnown == active # NoTile => active \in Known
PanelShowsActive == todo = << >> /\ active # NoTile => panel = Seen(active)
ViewInv == PageTypeOK /\ TilesShowStore /\ ActiveIsKnown /\ PanelShowsActive

LogInv == PageTypeOK /\ LogIsNewest

(* A report is a finite sequence of readings.                              *)
LEMMA ReportIsSeq == Report \subseteq Seq(Reading)
<1> SUFFICES ASSUME NEW n \in 0 .. 2, NEW r \in [1 .. n -> Reading] PROVE r \in Seq(Reading)
  BY DEF Report
<1> QED OBVIOUS

(* Shifting the history keeps what was appended last.                      *)
LEMMA ShiftedKeepsLast ==
  ASSUME NEW s \in Seq(Averages), NEW a \in Averages
  PROVE  /\ Shifted(Append(s, a)) \in Seq(Averages)
         /\ Shifted(Append(s, a)) # << >>
         /\ Last(Shifted(Append(s, a))) = a
<1> DEFINE s2 == Append(s, a)
<1>1. s2 \in Seq(Averages) /\ Len(s2) = Len(s) + 1 /\ s2[Len(s2)] = a /\ Len(s) \in Nat
  OBVIOUS
<1>2. CASE Len(s2) > MaxHistory
  <2>1. Len(s2) >= 2
    BY <1>1, <1>2, DashboardAssumption
  <2>2. Tail(s2) \in Seq(Averages) /\ Len(Tail(s2)) = Len(s2) - 1
        /\ Tail(s2)[Len(s2) - 1] = s2[Len(s2)]
    BY <1>1, <2>1
  <2>3. Tail(s2) # << >>
    BY <1>1, <2>1, <2>2
  <2> QED BY <1>1, <1>2, <2>2, <2>3 DEF Shifted, Last
<1>3. CASE ~(Len(s2) > MaxHistory)
  BY <1>1, <1>3 DEF Shifted, Last
<1> QED BY <1>2, <1>3

LEMMA ProceedTodo ==
  ASSUME NEW st, NEW rest, Proceed(st, rest)
  PROVE  todo' = rest /\ (rest = << >> => panel' = Rendered(st))
BY DEF Proceed

(* The state after one sensor of a report has been handled.                *)
LEMMA SensorDataEffect ==
  ASSUME PageTypeOK, SensorData
  PROVE  \E t \in Tiles, r \in Reading :
           /\ r.unit = t
           /\ store' \in [Tiles -> [history : Seq(Averages), anomaly : BOOLEAN]]
           /\ store'[t].history # << >> /\ Last(store'[t].history) = r.avg
           /\ store'[t].anomaly = r.anomaly
           /\ \A u \in Tiles \ {t} : store'[u] = store[u]
           /\ tile' = [tile EXCEPT ![t] = [avg |-> r.avg, anomaly |-> r.anomaly]]
           /\ todo' \in Seq(Reading)
           /\ todo' = << >> => panel' = Rendered(store')
<1> DEFINE r == todo[1]  t == r.unit
<1>1. todo \in Seq(Reading) /\ todo # << >> /\ t \in Tiles
  BY DEF PageTypeOK, SensorData
<1>2. r \in Reading
  BY <1>1
<1>3. r.avg \in Averages /\ r.anomaly \in BOOLEAN
  BY <1>2 DEF Reading
<1>4. store[t].history \in Seq(Averages)
  BY <1>1 DEF PageTypeOK
<1> DEFINE h == Shifted(Append(store[t].history, r.avg))
           e == [history |-> h, anomaly |-> r.anomaly]
<1>5. h \in Seq(Averages) /\ h # << >> /\ Last(h) = r.avg
  BY <1>3, <1>4, ShiftedKeepsLast
<1>6. store' = [store EXCEPT ![t] = e]
  BY DEF SensorData, Synced
<1>7. e \in [history : Seq(Averages), anomaly : BOOLEAN]
  BY <1>3, <1>5
<1>8. store' \in [Tiles -> [history : Seq(Averages), anomaly : BOOLEAN]]
      /\ store'[t] = e /\ \A u \in Tiles \ {t} : store'[u] = store[u]
  BY <1>1, <1>6, <1>7 DEF PageTypeOK
<1>9. tile' = [tile EXCEPT ![t] = [avg |-> r.avg, anomaly |-> r.anomaly]]
  BY DEF SensorData, Visual
<1>10. Proceed(store', Tail(todo))
  BY DEF SensorData
<1>11. todo' = Tail(todo) /\ (todo' = << >> => panel' = Rendered(store'))
  BY <1>10, ProceedTodo
<1>12. todo' \in Seq(Reading)
  BY <1>1, <1>11
<1> HIDE DEF h
<1>13. store'[t].history = h /\ store'[t].anomaly = r.anomaly
  BY <1>8
<1> HIDE DEF r, t, e
<1>14. r.unit = t
  BY DEF t
<1> QED BY <1>1, <1>2, <1>5, <1>8, <1>9, <1>11, <1>12, <1>13, <1>14

(* Where an entry of the log comes from.                                   *)
LEMMA SensorDataLog ==
  ASSUME PageTypeOK, SensorData
  PROVE  \/ log' = log /\ anomalies' = anomalies
         \/ \E x \in Nat \X Tiles :
              log' = <<x>> \o Trimmed /\ anomalies' = Append(anomalies, x)
<1>1. todo[1].unit \in Tiles /\ <<reports, todo[1].unit>> \in Nat \X Tiles
  BY DEF PageTypeOK, SensorData
<1>2. CASE todo[1].anomaly
  BY <1>1, <1>2 DEF SensorData
<1>3. CASE ~todo[1].anomaly
  BY <1>3 DEF SensorData
<1> QED BY <1>2, <1>3

(* The first n elements of a sequence.                                     *)
LEMMA FrontOfSeq ==
  ASSUME NEW S, NEW s \in Seq(S), NEW n \in 0 .. Len(s)
  PROVE  /\ SubSeq(s, 1, n) \in Seq(S) /\ Len(SubSeq(s, 1, n)) = n
         /\ \A i \in 1 .. n : SubSeq(s, 1, n)[i] = s[i]
<1>1. SubSeq(s, 1, n) \in Seq(S)
  OBVIOUS
<1>2. Len(SubSeq(s, 1, n)) = n
  OBVIOUS
<1>3. \A i \in 1 .. n : SubSeq(s, 1, n)[i] = s[i]
  OBVIOUS
<1> QED BY <1>1, <1>2, <1>3

LEMMA TrimmedIs ==
  ASSUME PageTypeOK
  PROVE  /\ Trimmed \in Seq(Nat \X Tiles) /\ Len(Trimmed) <= Len(log)
         /\ Len(Trimmed) = IF Len(log) > MaxLog THEN Len(log) - 1 ELSE Len(log)
         /\ \A i \in 1 .. Len(Trimmed) : Trimmed[i] = log[i]
<1>1. log \in Seq(Nat \X Tiles) /\ Len(log) \in Nat
  BY DEF PageTypeOK
<1>2. CASE Len(log) > MaxLog
  <2>1. Len(log) - 1 \in 0 .. Len(log)
    BY <1>1, <1>2, DashboardAssumption
  <2>2. /\ SubSeq(log, 1, Len(log) - 1) \in Seq(Nat \X Tiles)
        /\ Len(SubSeq(log, 1, Len(log) - 1)) = Len(log) - 1
        /\ \A i \in 1 .. Len(log) - 1 : SubSeq(log, 1, Len(log) - 1)[i] = log[i]
    BY <1>1, <2>1, FrontOfSeq
  <2>3. Trimmed = SubSeq(log, 1, Len(log) - 1)
    BY <1>2 DEF Trimmed
  <2>4. Len(log) - 1 <= Len(log)
    BY <1>1
  <2> QED BY <1>2, <2>2, <2>3, <2>4
<1>3. CASE ~(Len(log) > MaxLog)
  BY <1>1, <1>3 DEF Trimmed
<1> QED BY <1>2, <1>3

LEMMA InitTyped == PageInit => PageTypeOK
<1> SUFFICES ASSUME PageInit PROVE PageTypeOK
  OBVIOUS
<1>1. << >> \in Seq(Averages)
  OBVIOUS
<1>2. store \in [Tiles -> [history : Seq(Averages), anomaly : BOOLEAN]]
  BY <1>1 DEF PageInit
<1> QED BY <1>2 DEF PageInit, PageTypeOK

LEMMA TypeStep == PageTypeOK /\ [PageNext]_pageVars => PageTypeOK'
<1> SUFFICES ASSUME PageTypeOK, [PageNext]_pageVars PROVE PageTypeOK'
  OBVIOUS
<1>1. CASE OnMessage
  <2>1. PICK r \in Report : Proceed(store, r)
    BY <1>1 DEF OnMessage
  <2>2. todo' \in Seq(Reading)
    BY <2>1, ProceedTodo, ReportIsSeq
  <2> QED BY <1>1, <2>2 DEF OnMessage, PageTypeOK
<1>2. CASE SkipUnknown
  <2>1. todo' = Tail(todo)
    BY <1>2, ProceedTodo DEF SkipUnknown
  <2> QED BY <1>2, <2>1 DEF SkipUnknown, PageTypeOK
<1>3. CASE SensorData
  <2>1. PICK t \in Tiles, r \in Reading :
          /\ store' \in [Tiles -> [history : Seq(Averages), anomaly : BOOLEAN]]
          /\ tile' = [tile EXCEPT ![t] = [avg |-> r.avg, anomaly |-> r.anomaly]]
          /\ todo' \in Seq(Reading)
    BY <1>3, SensorDataEffect
  <2>2. [avg |-> r.avg, anomaly |-> r.anomaly] \in Shown
    BY DEF Shown, Reading
  <2>3. tile' \in [Tiles -> Shown \cup {NoTile}]
    BY <2>1, <2>2 DEF PageTypeOK
  <2>4. log' \in Seq(Nat \X Tiles) /\ anomalies' \in Seq(Nat \X Tiles)
    <3>1. CASE log' = log /\ anomalies' = anomalies
      BY <3>1 DEF PageTypeOK
    <3>2. ASSUME NEW x \in Nat \X Tiles, log' = <<x>> \o Trimmed,
                 anomalies' = Append(anomalies, x)
          PROVE  log' \in Seq(Nat \X Tiles) /\ anomalies' \in Seq(Nat \X Tiles)
      <4>1. <<x>> \in Seq(Nat \X Tiles) /\ Trimmed \in Seq(Nat \X Tiles)
        BY TrimmedIs
      <4>2. anomalies \in Seq(Nat \X Tiles)
        BY DEF PageTypeOK
      <4> QED BY <3>2, <4>1, <4>2
    <3> QED BY <1>3, <3>1, <3>2, SensorDataLog
  <2>5. active' = active /\ reports' = reports
    BY <1>3 DEF SensorData
  <2> QED BY <2>1, <2>3, <2>4, <2>5 DEF PageTypeOK
<1>4. CASE \E t \in Tiles : HandleSensorSelect(t)
  BY <1>4 DEF HandleSensorSelect, PageTypeOK
<1>5. CASE UNCHANGED pageVars
  BY <1>5 DEF pageVars, PageTypeOK
<1> QED BY <1>1, <1>2, <1>3, <1>4, <1>5 DEF PageNext

-----------------------------------------------------------------------------
LEMMA ViewInit == PageInit => ViewInv
BY InitTyped DEF PageInit, ViewInv, TilesShowStore, ActiveIsKnown, PanelShowsActive, Known

(* What the panel shows once a report is done.                             *)
LEMMA RenderedIsSeen ==
  ASSUME active # NoTile => active \in Known, active # NoTile
  PROVE  Rendered(store) = Seen(active)
BY DEF Rendered, Known, Seen

LEMMA ViewStep == ViewInv /\ [PageNext]_pageVars => ViewInv'
<1> SUFFICES ASSUME ViewInv, [PageNext]_pageVars PROVE ViewInv'
  OBVIOUS
<1>0. PageTypeOK /\ TilesShowStore /\ ActiveIsKnown /\ PanelShowsActive /\ PageTypeOK'
  BY TypeStep DEF ViewInv
<1> SUFFICES TilesShowStore' /\ ActiveIsKnown' /\ PanelShowsActive'
  BY <1>0 DEF ViewInv
<1>1. ASSUME UNCHANGED <<store, tile, active>>
      PROVE  /\ TilesShowStore' /\ ActiveIsKnown'
             /\ panel' = Rendered(store) => PanelShowsActive'
  <2>1. TilesShowStore' /\ ActiveIsKnown'
    BY <1>0, <1>1 DEF TilesShowStore, ActiveIsKnown, Known, Seen
  <2>2. ASSUME panel' = Rendered(store) PROVE PanelShowsActive'
    BY <1>0, <1>1, <2>2, RenderedIsSeen DEF PanelShowsActive, ActiveIsKnown, Seen
  <2> QED BY <2>1, <2>2
<1>2. CASE OnMessage
  <2>1. PICK r \in Report : Proceed(store, r)
    BY <1>2 DEF OnMessage
  <2>2. UNCHANGED <<store, tile, active>>
    BY <1>2 DEF OnMessage
  <2>3. CASE todo' = << >>
    BY <1>1, <2>1, <2>2, <2>3, ProceedTodo
  <2>4. CASE todo' # << >>
    BY <1>1, <2>2, <2>4 DEF PanelShowsActive
  <2> QED BY <2>3, <2>4
<1>3. CASE SkipUnknown
  <2>1. Proceed(store, Tail(todo)) /\ UNCHANGED <<store, tile, active>>
    BY <1>3 DEF SkipUnknown
  <2>2. CASE todo' = << >>
    BY <1>1, <2>1, <2>2, ProceedTodo
  <2>3. CASE todo' # << >>
    BY <1>1, <2>1, <2>3 DEF PanelShowsActive
  <2> QED BY <2>2, <2>3
<1>4. CASE SensorData
  <2>1. PICK t \in Tiles, r \in Reading :
           /\ store'[t].history # << >> /\ Last(store'[t].history) = r.avg
           /\ store'[t].anomaly = r.anomaly
           /\ \A u \in Tiles \ {t} : store'[u] = store[u]
           /\ tile' = [tile EXCEPT ![t] = [avg |-> r.avg, anomaly |-> r.anomaly]]
           /\ todo' = << >> => panel' = Rendered(store')
    BY <1>0, <1>4, SensorDataEffect
  <2>2. Known' = Known \cup {t}
    BY <2>1 DEF Known
  <2>3. active' = active
    BY <1>4 DEF SensorData
  <2>4. tile'[t] = [avg |-> r.avg, anomaly |-> r.anomaly]
        /\ \A u \in Tiles \ {t} : tile'[u] = tile[u]
    BY <1>0, <2>1 DEF PageTypeOK
  <2>5. TilesShowStore'
    <3> SUFFICES ASSUME NEW u \in Known' PROVE tile'[u] = Seen(u)'
      BY DEF TilesShowStore
    <3>1. CASE u = t
      BY <2>1, <2>4, <3>1 DEF Seen
    <3>2. CASE u # t
      <4>1. u \in Known /\ u \in Tiles \ {t}
        BY <2>2, <3>2 DEF Known
      <4> QED BY <1>0, <2>1, <2>4, <4>1 DEF TilesShowStore, Seen
    <3> QED BY <3>1, <3>2
  <2>6. ActiveIsKnown'
    BY <1>0, <2>2, <2>3 DEF ActiveIsKnown
  <2>7. PanelShowsActive'
    <3> SUFFICES ASSUME todo' = << >>, active # NoTile PROVE panel' = Seen(active)'
      BY <2>3 DEF PanelShowsActive, Seen
    <3>1. store'[active].history # << >>
      BY <2>3, <2>6 DEF ActiveIsKnown, Known
    <3> QED BY <2>1, <2>3, <3>1 DEF Rendered, Seen
  <2> QED BY <2>5, <2>6, <2>7
<1>5. ASSUME NEW t \in Tiles, HandleSensorSelect(t)
      PROVE  TilesShowStore' /\ ActiveIsKnown' /\ PanelShowsActive'
  <2>1. UNCHANGED <<store, tile>> /\ active' = t /\ panel' = Seen(t) /\ t \in Known
    BY <1>5 DEF HandleSensorSelect, Known, Seen
  <2> QED BY <1>0, <2>1 DEF TilesShowStore, ActiveIsKnown, PanelShowsActive, Known, Seen
<1>6. CASE UNCHANGED pageVars
  BY <1>0, <1>6 DEF pageVars, TilesShowStore, ActiveIsKnown, PanelShowsActive, Known, Seen
<1> QED BY <1>2, <1>3, <1>4, <1>5, <1>6 DEF PageNext

(* Between two callbacks the store, the tile and the panel show the same   *)
(* of a sensor, whatever reports came and wherever the user clicked        *)
(* (app.js, processIncomingData and handleSensorSelect).                   *)
THEOREM ViewsAlwaysAgree == PageSpec => []ViewsAgree
<1>1. ViewInv => ViewsAgree
  <2> SUFFICES ASSUME ViewInv, todo = << >>
               PROVE  /\ \A t \in Known : tile[t] = Seen(t)
                      /\ active # NoTile => panel = tile[active]
    BY DEF ViewsAgree, Seen
  <2> QED BY DEF ViewInv, TilesShowStore, ActiveIsKnown, PanelShowsActive
<1> QED BY <1>1, ViewInit, ViewStep, PTL DEF PageSpec

-----------------------------------------------------------------------------
(* addAnomalyLog puts the newest in front and takes the oldest away, so    *)
(* the log never has a gap.                                                *)
LEMMA LogStep == LogInv /\ [PageNext]_pageVars => LogInv'
<1> SUFFICES ASSUME LogInv, [PageNext]_pageVars PROVE LogInv'
  OBVIOUS
<1>0. /\ PageTypeOK /\ LogIsNewest /\ PageTypeOK'
      /\ MaxLog \in Nat /\ Len(anomalies) \in Nat /\ Len(log) <= Len(anomalies)
  <2>1. PageTypeOK /\ LogIsNewest /\ PageTypeOK'
    BY TypeStep DEF LogInv
  <2>2. MaxLog \in Nat /\ Len(anomalies) \in Nat
    BY <2>1, DashboardAssumption DEF PageTypeOK
  <2> QED BY <2>1, <2>2 DEF LogIsNewest
<1>1. CASE log' = log /\ anomalies' = anomalies
  BY <1>0, <1>1 DEF LogInv, LogIsNewest
<1>2. ASSUME NEW x \in Nat \X Tiles, log' = <<x>> \o Trimmed, anomalies' = Append(anomalies, x)
      PROVE  LogInv'
  <2>1. Trimmed \in Seq(Nat \X Tiles) /\ Len(Trimmed) <= Len(log)
         /\ \A i \in 1 .. Len(Trimmed) : Trimmed[i] = log[i]
    BY <1>0, TrimmedIs
  <2>2. anomalies \in Seq(Nat \X Tiles) /\ log \in Seq(Nat \X Tiles)
    BY <1>0 DEF PageTypeOK
  <2> DEFINE T == Trimmed
  <2>3. T \in Seq(Nat \X Tiles) /\ Len(T) \in Nat
    BY <2>1
  <2> HIDE DEF T
  <2>4. Len(<<x>> \o T) = Len(T) + 1 /\ (<<x>> \o T)[1] = x
        /\ \A i \in 2 .. Len(T) + 1 : (<<x>> \o T)[i] = T[i - 1]
    BY <2>3
  <2>5. log' = <<x>> \o T
    BY <1>2 DEF T
  <2>6. Len(anomalies') = Len(anomalies) + 1 /\ anomalies'[Len(anomalies) + 1] = x
        /\ \A i \in 1 .. Len(anomalies) : anomalies'[i] = anomalies[i]
        /\ Len(anomalies) \in Nat /\ Len(log) \in Nat
    BY <1>2, <2>2
  <2>7. Len(T) <= Len(log) /\ \A i \in 1 .. Len(T) : T[i] = log[i]
    BY <2>1 DEF T
  <2>8. Len(log') = IF Len(anomalies') > MaxLog THEN MaxLog + 1 ELSE Len(anomalies')
    <3>1. Len(T) = IF Len(log) > MaxLog THEN Len(log) - 1 ELSE Len(log)
      BY <1>0, TrimmedIs DEF T
    <3>2. Len(log) = IF Len(anomalies) > MaxLog THEN MaxLog + 1 ELSE Len(anomalies)
      BY <1>0 DEF LogIsNewest
    <3>3. Len(log') = Len(T) + 1
      BY <2>4, <2>5
    <3> QED BY <1>0, <2>6, <3>1, <3>2, <3>3
  <2>9. LogIsNewest'
    <3> SUFFICES ASSUME NEW i \in 1 .. Len(log')
                 PROVE  log'[i] = anomalies'[Len(anomalies') - i + 1]
      BY <2>8 DEF LogIsNewest
    <3>1. CASE i = 1
      BY <2>4, <2>5, <2>6, <3>1
    <3>2. CASE i # 1
      <4>1. i - 1 \in 1 .. Len(T) /\ i \in 2 .. Len(T) + 1 /\ i - 1 \in 1 .. Len(log)
        BY <2>3, <2>4, <2>5, <2>6, <2>7, <3>2
      <4>2. log'[i] = log[i - 1]
        BY <2>4, <2>5, <2>7, <4>1
      <4>3. log[i - 1] = anomalies[Len(anomalies) - (i - 1) + 1]
        BY <1>0, <4>1 DEF LogIsNewest
      <4>4. Len(anomalies) - (i - 1) + 1 = Len(anomalies') - i + 1
            /\ Len(anomalies) - (i - 1) + 1 \in 1 .. Len(anomalies)
        BY <1>0, <2>6, <4>1
      <4> QED BY <2>6, <4>2, <4>3, <4>4
    <3> QED BY <3>1, <3>2
  <2> QED BY <1>0, <2>9 DEF LogInv
<1>3. CASE OnMessage
  BY <1>1, <1>3 DEF OnMessage
<1>4. CASE SkipUnknown
  BY <1>1, <1>4 DEF SkipUnknown
<1>5. CASE SensorData
  BY <1>0, <1>1, <1>2, <1>5, SensorDataLog
<1>6. CASE \E t \in Tiles : HandleSensorSelect(t)
  BY <1>1, <1>6 DEF HandleSensorSelect
<1>7. CASE UNCHANGED pageVars
  BY <1>1, <1>7 DEF pageVars
<1> QED BY <1>3, <1>4, <1>5, <1>6, <1>7 DEF PageNext

(* The anomaly log is the newest anomalies of all reports, the newest      *)
(* first, without a gap, one more of them than the limit or all, for any   *)
(* limit of the log (app.js, addAnomalyLog).                               *)
THEOREM LogAlwaysNewest == PageSpec => []LogIsNewest
<1>1. PageInit => LogInv
  BY InitTyped, DashboardAssumption DEF PageInit, LogInv, LogIsNewest
<1>2. LogInv => LogIsNewest
  BY DEF LogInv
<1> QED BY <1>1, <1>2, LogStep, PTL DEF PageSpec
=============================================================================
