------------------------ MODULE SensorRegistry_proofs ------------------------
(***************************************************************************)
(* The server's table of sensor states, for any set of sensors that is no  *)
(* larger than the table, any readings, classes and window: it has one     *)
(* entry per sensor, and get_sensor_state never writes behind its end.     *)
(***************************************************************************)
EXTENDS SensorRegistry, FiniteSetTheorems, SequenceTheorems, WellFoundedInduction, TLAPS

(* What makes it inductive: the running sum is that of the readings in the *)
(* window, which fills from its first slot.                                *)
SumsExact ==
  \A i \in Indices :
    /\ states[i].count < WindowSize => states[i].index = states[i].count
    /\ states[i].sum = Abstract!Sum(Ordered(states[i]))

LEMMA AveragedIsState ==
  ASSUME NEW e \in State, NEW v \in Int
  PROVE  Averaged(e, v) \in State
<1>1. NewSum(e, v) \in Int
  BY DEF NewSum, State
<1>2. NextIndex(e.index) \in Positions
  BY RegistryAssumption DEF NextIndex, Positions, State
<1>3. (IF e.count < WindowSize THEN e.count + 1 ELSE e.count) \in 0 .. WindowSize
  BY RegistryAssumption DEF State
<1>4. [e.window EXCEPT ![e.index] = v] \in [Positions -> Int]
  BY DEF State
<1> QED BY <1>1, <1>2, <1>3, <1>4 DEF Averaged, State

LEMMA FlaggedIsState ==
  ASSUME NEW e \in State, NEW s \in SensorIds, NEW v \in Int
  PROVE  Flagged(e, s, v) \in State /\ Flagged(e, s, v).sensor_id = e.sensor_id
BY DEF Flagged, State

LEMMA FreshIsState == ASSUME NEW s \in SensorIds PROVE Fresh(s) \in State /\ Fresh(s).sensor_id = s
BY RegistryAssumption DEF Fresh, State, Positions

(* Each sensor has at most one entry.                                      *)
Distinct == \A i, j \in Indices : states[i].sensor_id = states[j].sensor_id => i = j
IInv == states \in Seq(State) /\ Distinct

LEMMA ReadingStep ==
  ASSUME IInv, NEW s \in SensorIds, NEW v \in Values, Reading(s, v)
  PROVE  IInv' /\ Len(states') >= Len(states)
<1>1. v \in Int
  BY RegistryAssumption
<1>2. Len(states) \in Nat /\ \A i \in Indices : states[i] \in State
  BY DEF IInv, Indices
<1> DEFINE table == Registered(s)  p == Position(s)
<1>3. /\ table \in Seq(State) /\ Len(table) >= Len(states)
      /\ p \in 1 .. Len(table) /\ table[p].sensor_id = s
      /\ \A i, j \in 1 .. Len(table) : table[i].sensor_id = table[j].sensor_id => i = j
  <2>1. CASE EntriesOf(s) = {}
    <3>1. table = Append(states, Fresh(s)) /\ p = Len(states) + 1
      BY <2>1 DEF Registered, Position
    <3>2. table \in Seq(State) /\ Len(table) = Len(states) + 1 /\ table[p] = Fresh(s)
      BY <3>1, FreshIsState DEF IInv
    <3>3. \A i \in Indices : table[i] = states[i] /\ states[i].sensor_id # s
      BY <2>1, <3>1, <1>2 DEF EntriesOf, IsOf, Indices, IInv
    <3>4. \A i \in 1 .. Len(table) : i \in Indices \/ i = p
      BY <3>1, <3>2, <1>2 DEF Indices
    <3> HIDE DEF table, p
    <3>5. \A i, j \in 1 .. Len(table) : table[i].sensor_id = table[j].sensor_id => i = j
      BY <3>2, <3>3, <3>4, FreshIsState DEF IInv, Distinct
    <3>6. p \in 1 .. Len(table)
      BY <1>2, <3>1, <3>2 DEF p
    <3> QED BY <1>2, <3>2, <3>5, <3>6, FreshIsState
  <2>2. CASE EntriesOf(s) # {}
    <3>1. PICK k \in EntriesOf(s) : TRUE
      BY <2>2
    <3>2. k \in Indices /\ states[k].sensor_id = s /\ k \in Nat
      BY <1>2, <3>1 DEF EntriesOf, IsOf, Indices
    <3>3. EntriesOf(s) = {k}
      BY <3>1, <3>2 DEF EntriesOf, IsOf, IInv, Distinct
    <3>4. p = k
      BY <3>2, <3>3 DEF Position
    <3>5. table = states
      BY <2>2 DEF Registered
    <3> QED BY <1>2, <3>2, <3>4, <3>5 DEF IInv, Distinct, Indices
  <2> QED BY <2>1, <2>2
<1>4. states' = [table EXCEPT ![p] = Flagged(Averaged(table[p], v), s, v)]
  BY DEF Reading
<1> HIDE DEF table, p
<1>5. table[p] \in State
  BY <1>3
<1>6. Averaged(table[p], v) \in State /\ Averaged(table[p], v).sensor_id = s
  BY <1>1, <1>3, <1>5, AveragedIsState DEF Averaged, State
<1>7. Flagged(Averaged(table[p], v), s, v) \in State /\ Flagged(Averaged(table[p], v), s, v).sensor_id = s
  BY <1>1, <1>6, FlaggedIsState
<1>8. states' \in Seq(State) /\ Len(states') = Len(table)
  BY <1>3, <1>4, <1>7
<1>9. \A i \in 1 .. Len(table) : states'[i].sensor_id = table[i].sensor_id
  BY <1>3, <1>4, <1>7
<1>10. Distinct'
  BY <1>3, <1>8, <1>9 DEF Distinct, Indices
<1> QED BY <1>2, <1>3, <1>8, <1>10 DEF IInv

LEMMA ReportStep == ASSUME IInv, BuildPeriodicJson PROVE IInv' /\ Len(states') = Len(states)
<1>1. Len(states) \in Nat /\ \A i \in Indices : states[i] \in State
  BY DEF IInv, Indices
<1>2. \A i \in Indices : ClearFlag(states[i]) \in State
                         /\ ClearFlag(states[i]).sensor_id = states[i].sensor_id
  BY <1>1 DEF ClearFlag, State
<1>3. states' = [i \in 1 .. Len(states) |-> ClearFlag(states[i])]
  BY DEF BuildPeriodicJson, Indices
<1>4. states' \in Seq(State) /\ Len(states') = Len(states)
  BY <1>1, <1>2, <1>3 DEF Indices
<1>5. \A i \in Indices : states'[i].sensor_id = states[i].sensor_id
  BY <1>2, <1>3 DEF Indices
<1>6. Distinct'
  BY <1>4, <1>5 DEF IInv, Distinct, Indices
<1> QED BY <1>4, <1>6 DEF IInv

LEMMA InvInit == Init => IInv /\ TypeOK
BY DEF Init, IInv, TypeOK, Distinct, Indices

LEMMA InvStep == IInv /\ TypeOK /\ [Next]_vars => (IInv /\ TypeOK)'
<1> SUFFICES ASSUME IInv, TypeOK, [Next]_vars PROVE (IInv /\ TypeOK)'
  OBVIOUS
<1>1. ASSUME NEW s \in SensorIds, NEW v \in Values, Reading(s, v) PROVE (IInv /\ TypeOK)'
  <2>1. IInv' /\ Len(states') >= Len(states) /\ report' = report
    BY <1>1, ReadingStep DEF Reading
  <2>2. Len(states') \in Nat /\ Len(states) \in Nat /\ Len(report) <= Len(states)
    BY <2>1 DEF IInv, TypeOK
  <2>3. Len(report') <= Len(states')
    BY <2>1, <2>2 DEF TypeOK
  <2> QED BY <2>1, <2>3 DEF IInv, TypeOK
<1>2. CASE BuildPeriodicJson
  <2>1. IInv' /\ Len(states') = Len(states) /\ Len(states) \in Nat
    BY <1>2, ReportStep DEF IInv
  <2>2. report' \in Seq({report'[i] : i \in Indices}) /\ Len(report') = Len(states)
    BY <1>2, <2>1 DEF BuildPeriodicJson, Indices
  <2> QED BY <2>1, <2>2 DEF IInv, TypeOK
<1>3. CASE UNCHANGED vars
  BY <1>3 DEF vars, IInv, TypeOK, Distinct, Indices
<1> QED BY <1>1, <1>2, <1>3 DEF Next

(* The sensor ids of the entries inject into the sensors there are.        *)
LEMMA TableFits == ASSUME IInv PROVE OneEntryPerSensor
<1> DEFINE ids == [i \in Indices |-> states[i].sensor_id]
<1>1. Len(states) \in Nat /\ \A i \in Indices : states[i] \in State
  BY DEF IInv, Indices
<1>2. ids \in Injection(Indices, SensorIds)
  BY <1>1 DEF IInv, Distinct, State, Injection, IsInjective
<1>3. IsFiniteSet(SensorIds) /\ Cardinality(SensorIds) \in Nat
  BY RegistryAssumption, FS_CardinalityType
<1>4. Cardinality(Indices) <= Cardinality(SensorIds)
  BY <1>2, <1>3, FS_Injection
<1>5. Cardinality(Indices) = Len(states)
  <2>1. \A n \in Nat : Cardinality(1 .. n) = IF 1 > n THEN 0 ELSE n - 1 + 1
    BY FS_Interval
  <2>2. Cardinality(1 .. Len(states)) = IF 1 > Len(states) THEN 0 ELSE Len(states) - 1 + 1
    BY <1>1, <2>1
  <2> QED BY <1>1, <2>2 DEF Indices
<1>6. Len(states) <= MaxSensor
  BY <1>1, <1>3, <1>4, <1>5, RegistryAssumption
<1>7. \A i, j \in Indices : IsOf(states[j].sensor_id, i) => i = j
  BY DEF IInv, Distinct, IsOf
<1> QED BY <1>6, <1>7 DEF OneEntryPerSensor

(* Type correctness of the registry.                                       *)
THEOREM TypeCorrect == Spec => []TypeOK
BY InvInit, InvStep, PTL DEF Spec

(* One entry per sensor, and never more entries than states[] has.         *)
THEOREM OneEntryAlways == Spec => []OneEntryPerSensor
BY InvInit, InvStep, TableFits, PTL DEF Spec

-----------------------------------------------------------------------------
(* Sums of sequences.  A set of numbers that is not empty has a least      *)
(* element.                                                                *)
LEMMA LeastOf ==
  ASSUME NEW T, T \subseteq Nat, T # {}
  PROVE  \E m \in T : \A j \in T : m <= j
<1>1. PICK m \in T : \A j \in T : ~ (<<j, m>> \in OpToRel(<, Nat))
  BY WFMin, NatLessThanWellFounded
<1>2. ASSUME NEW j \in T PROVE m <= j
  <2>1. m \in Nat /\ j \in Nat
    OBVIOUS
  <2>2. <<j, m>> \in Nat \X Nat /\ ~ (<<j, m>> \in OpToRel(<, Nat))
    BY <1>1, <2>1
  <2>3. ~ (j < m)
    BY <2>1, <2>2, Zenon DEF OpToRel
  <2> QED BY <2>1, <2>3
<1> QED BY <1>2

SumTo(n, w, q) == w = [i \in 0 .. n |-> IF i = 0 THEN 0 ELSE w[i - 1] + q[i]]

LEMMA SumReaches == ASSUME NEW n \in Nat, NEW q PROVE \E w : SumTo(n, w, q)
<1> DEFINE T == {k \in Nat : ~ \E w : SumTo(k, w, q)}
<1> SUFFICES ASSUME T # {} PROVE FALSE
  OBVIOUS
<1>1. PICK m \in T : \A j \in T : m <= j
  BY LeastOf, T \subseteq Nat
<1>2. m \in Nat /\ ~ \E w : SumTo(m, w, q)
  OBVIOUS
<1>3. m # 0
  <2>1. SumTo(0, [k \in 0 .. 0 |-> 0], q)
    BY DEF SumTo
  <2> QED BY <1>2, <2>1
<1>4. m - 1 \in Nat /\ ~ (m <= m - 1)
  BY <1>2, <1>3
<1>5. PICK w : SumTo(m - 1, w, q)
  BY <1>1, <1>4
<1> DEFINE x == [k \in 0 .. m |-> IF k = m THEN w[m - 1] + q[m] ELSE w[k]]
<1>6. \A k \in 0 .. m - 1 : x[k] = w[k]
  BY <1>2, <1>4
<1>7. x[m] = w[m - 1] + q[m]
  BY <1>2
<1>8. x = [k \in 0 .. m |-> x[k]]
  OBVIOUS
<1> HIDE DEF x
<1>9. ASSUME NEW k \in 0 .. m
      PROVE  x[k] = IF k = 0 THEN 0 ELSE x[k - 1] + q[k]
  <2>1. CASE k = m
    <3>1. x[m - 1] = w[m - 1]
      BY <1>4, <1>6
    <3>2. x[m] = x[m - 1] + q[m]
      BY <1>7, <3>1
    <3> QED BY <1>3, <2>1, <3>2
  <2>2. CASE k = 0
    <3>1. x[0] = w[0]
      BY <1>4, <1>6
    <3>2. w[0] = 0
      BY <1>4, <1>5 DEF SumTo
    <3> QED BY <2>2, <3>1, <3>2
  <2>3. CASE k # m /\ k # 0
    <3>1. k \in 0 .. m - 1 /\ k - 1 \in 0 .. m - 1
      BY <1>2, <2>3
    <3>2. w[k] = IF k = 0 THEN 0 ELSE w[k - 1] + q[k]
      BY <1>5, <3>1 DEF SumTo
    <3>3. x[k] = w[k] /\ x[k - 1] = w[k - 1]
      BY <1>6, <3>1
    <3> QED BY <2>3, <3>2, <3>3
  <2> QED BY <2>1, <2>2, <2>3
<1>10. SumTo(m, x, q)
  BY <1>8, <1>9 DEF SumTo
<1> QED BY <1>2, <1>10

(* The sums of the beginnings of a sequence.                               *)
Sums(q) == CHOOSE w : SumTo(Len(q), w, q)

LEMMA SumSteps ==
  ASSUME NEW q \in Seq(Int)
  PROVE  /\ Abstract!Sum(q) = Sums(q)[Len(q)] /\ Sums(q)[0] = 0
         /\ \A i \in 0 .. Len(q) : Sums(q)[i] \in Int
         /\ \A i \in 1 .. Len(q) : Sums(q)[i] = Sums(q)[i - 1] + q[i]
<1> DEFINE w == Sums(q)
<1>0. Len(q) \in Nat /\ \A i \in 1 .. Len(q) : q[i] \in Int
  OBVIOUS
<1>1. SumTo(Len(q), w, q)
  BY <1>0, SumReaches DEF Sums
<1>2. Abstract!Sum(q) = w[Len(q)]
  BY DEF Abstract!Sum, Sums, SumTo
<1> HIDE DEF w
<1>3. w[0] = 0
  BY <1>0, <1>1 DEF SumTo
<1>4. ASSUME NEW i \in 1 .. Len(q) PROVE w[i] = w[i - 1] + q[i]
  <2>1. i \in 0 .. Len(q) /\ i # 0
    BY <1>0
  <2> QED BY <1>1, <2>1 DEF SumTo
<1> DEFINE T == {i \in 0 .. Len(q) : w[i] \notin Int}
<1>5. T = {}
  <2> SUFFICES ASSUME T # {} PROVE FALSE
    OBVIOUS
  <2>1. T \subseteq Nat
    BY <1>0
  <2>2. PICK m \in T : \A j \in T : m <= j
    BY <2>1, LeastOf
  <2>3. m \in 0 .. Len(q) /\ w[m] \notin Int /\ m # 0
    BY <1>3
  <2>4. m \in 1 .. Len(q) /\ m - 1 \in 0 .. Len(q) /\ ~(m <= m - 1)
    BY <1>0, <2>3
  <2>5. w[m - 1] \in Int
    BY <2>2, <2>4
  <2>6. q[m] \in Int
    BY <1>0, <2>4
  <2>7. w[m] = w[m - 1] + q[m]
    BY <1>4, <2>4
  <2> QED BY <2>3, <2>5, <2>6, <2>7
<1>6. \A i \in 0 .. Len(q) : w[i] \in Int
  BY <1>5
<1> QED BY <1>2, <1>3, <1>4, <1>6 DEF w

(* Two sequences of numbers with the same steps stay as far apart.         *)
LEMMA StayApart ==
  ASSUME NEW n \in Nat, NEW f, NEW g, NEW c \in Int,
         \A i \in 0 .. n : f[i] \in Int /\ g[i] \in Int,
         f[0] = g[0] + c,
         \A i \in 1 .. n : f[i] - f[i - 1] = g[i] - g[i - 1]
  PROVE  f[n] = g[n] + c
<1> DEFINE T == {i \in 0 .. n : f[i] # g[i] + c}
<1>1. T = {}
  <2> SUFFICES ASSUME T # {} PROVE FALSE
    OBVIOUS
  <2>1. T \subseteq Nat
    OBVIOUS
  <2>2. PICK m \in T : \A j \in T : m <= j
    BY <2>1, LeastOf
  <2>3. m \in 0 .. n /\ f[m] # g[m] + c /\ m # 0
    OBVIOUS
  <2>4. m \in 1 .. n /\ m - 1 \in 0 .. n /\ ~(m <= m - 1)
    BY <2>3
  <2>5. f[m - 1] = g[m - 1] + c
    BY <2>2, <2>4
  <2>6. f[m] - f[m - 1] = g[m] - g[m - 1]
    BY <2>4
  <2>7. f[m] \in Int /\ g[m] \in Int /\ f[m - 1] \in Int /\ g[m - 1] \in Int
    BY <2>3, <2>4
  <2> QED BY <2>3, <2>5, <2>6, <2>7
<1>2. n \in 0 .. n
  OBVIOUS
<1> QED BY <1>1, <1>2

LEMMA SumAppend ==
  ASSUME NEW q \in Seq(Int), NEW v \in Int
  PROVE  Abstract!Sum(Append(q, v)) = Abstract!Sum(q) + v
<1> DEFINE r == Append(q, v)  n == Len(q)
<1>1. /\ r \in Seq(Int) /\ Len(r) = n + 1 /\ n \in Nat
      /\ \A i \in 1 .. n : r[i] = q[i]
      /\ r[n + 1] = v
  BY AppendProperties
<1> HIDE DEF r
<1>2. /\ Abstract!Sum(q) = Sums(q)[n] /\ Sums(q)[0] = 0
      /\ \A i \in 0 .. n : Sums(q)[i] \in Int
      /\ \A i \in 1 .. n : Sums(q)[i] = Sums(q)[i - 1] + q[i]
  BY SumSteps
<1>3. /\ Abstract!Sum(r) = Sums(r)[n + 1] /\ Sums(r)[0] = 0
      /\ \A i \in 0 .. n + 1 : Sums(r)[i] \in Int
      /\ \A i \in 1 .. n + 1 : Sums(r)[i] = Sums(r)[i - 1] + r[i]
  BY <1>1, SumSteps
<1>4. Sums(r)[n] = Sums(q)[n] + 0
  <2> DEFINE f == Sums(r)  g == Sums(q)
  <2>1. \A i \in 1 .. n : q[i] \in Int
    OBVIOUS
  <2>2. \A i \in 0 .. n : f[i] \in Int /\ g[i] \in Int
    BY <1>1, <1>2, <1>3
  <2>3. \A i \in 1 .. n : f[i] = f[i - 1] + q[i] /\ g[i] = g[i - 1] + q[i]
    BY <1>1, <1>2, <1>3
  <2>4. f[0] = g[0] + 0
    BY <1>2, <1>3
  <2> HIDE DEF f, g
  <2>5. ASSUME NEW i \in 1 .. n PROVE f[i] - f[i - 1] = g[i] - g[i - 1]
    <3>1. i \in 0 .. n /\ i - 1 \in 0 .. n
      BY <1>1
    <3>2. f[i] = f[i - 1] + q[i] /\ g[i] = g[i - 1] + q[i]
      BY <2>3
    <3>3. q[i] \in Int /\ f[i] \in Int /\ f[i - 1] \in Int /\ g[i] \in Int /\ g[i - 1] \in Int
      BY <2>1, <2>2, <3>1
    <3> QED BY <3>2, <3>3
  <2>6. 0 \in Int /\ n \in Nat
    BY <1>1
  <2> HIDE DEF n
  <2>7. f[n] = g[n] + 0
    BY <2>2, <2>4, <2>5, <2>6, StayApart, Zenon
  <2> QED BY <2>7 DEF f, g
<1>5. n + 1 \in 1 .. n + 1 /\ n + 1 - 1 = n /\ n \in 0 .. n
  BY <1>1
<1>6. Sums(r)[n + 1] = Sums(r)[n] + v
  BY <1>1, <1>3, <1>5
<1>7. Sums(q)[n] \in Int
  BY <1>2, <1>5
<1> QED BY <1>2, <1>3, <1>4, <1>6, <1>7 DEF r

LEMMA SumTail ==
  ASSUME NEW q \in Seq(Int), q # << >>
  PROVE  Abstract!Sum(Tail(q)) = Abstract!Sum(q) - q[1]
<1> DEFINE r == Tail(q)  n == Len(q) - 1
<1>1. /\ r \in Seq(Int) /\ Len(r) = n /\ n \in Nat /\ Len(q) = n + 1
      /\ \A i \in 1 .. n : r[i] = q[i + 1]
  BY HeadTailProperties
<1> HIDE DEF r, n
<1>2. /\ Abstract!Sum(q) = Sums(q)[n + 1] /\ Sums(q)[0] = 0
      /\ \A i \in 0 .. n + 1 : Sums(q)[i] \in Int
      /\ \A i \in 1 .. n + 1 : Sums(q)[i] = Sums(q)[i - 1] + q[i]
  BY <1>1, SumSteps
<1>3. /\ Abstract!Sum(r) = Sums(r)[n] /\ Sums(r)[0] = 0
      /\ \A i \in 0 .. n : Sums(r)[i] \in Int
      /\ \A i \in 1 .. n : Sums(r)[i] = Sums(r)[i - 1] + r[i]
  BY <1>1, SumSteps
<1> DEFINE f == [i \in 0 .. n |-> Sums(q)[i + 1]]  g == Sums(r)
<1>4. 1 \in 1 .. n + 1 /\ n \in 0 .. n /\ q[1] \in Int
  <2>1. 1 \in 1 .. n + 1 /\ n \in 0 .. n
    BY <1>1
  <2> QED BY <1>1, <2>1, ElementOfSeq
<1>5. ASSUME NEW i \in 0 .. n PROVE f[i] = Sums(q)[i + 1] /\ f[i] \in Int /\ g[i] \in Int
  <2>1. i + 1 \in 0 .. n + 1
    BY <1>1
  <2> QED BY <1>2, <1>3, <2>1
<1>6. f[0] = g[0] + q[1]
  <2>1. 0 \in 0 .. n /\ 0 + 1 = 1 /\ 1 - 1 = 0
    BY <1>1
  <2>2. f[0] = Sums(q)[1]
    BY <1>5, <2>1
  <2>3. Sums(q)[1] = Sums(q)[0] + q[1]
    BY <1>2, <1>4, <2>1
  <2> QED BY <1>2, <1>3, <2>2, <2>3
<1> HIDE DEF f
<1>7. ASSUME NEW i \in 1 .. n PROVE f[i] - f[i - 1] = g[i] - g[i - 1]
  <2>1. i \in 0 .. n /\ i - 1 \in 0 .. n /\ i + 1 \in 1 .. n + 1 /\ i + 1 - 1 = i
        /\ i - 1 + 1 = i
    BY <1>1
  <2>2. f[i] = Sums(q)[i + 1] /\ f[i - 1] = Sums(q)[i]
    BY <1>5, <2>1
  <2>3. Sums(q)[i + 1] = Sums(q)[i] + q[i + 1]
    BY <1>2, <2>1
  <2>4. g[i] = g[i - 1] + q[i + 1]
    BY <1>1, <1>3
  <2>5. q[i + 1] \in Int
    BY <1>1, <2>1, ElementOfSeq
  <2>6. f[i] \in Int /\ f[i - 1] \in Int /\ g[i] \in Int /\ g[i - 1] \in Int
    BY <1>5, <2>1
  <2>7. f[i] = f[i - 1] + q[i + 1]
    BY <2>2, <2>3
  <2> QED BY <2>4, <2>5, <2>6, <2>7
<1> HIDE DEF g
<1>8. f[n] = g[n] + q[1]
  <2> DEFINE c == q[1]
  <2>1. n \in Nat /\ c \in Int
    BY <1>1, <1>4
  <2>2. \A i \in 0 .. n : f[i] \in Int /\ g[i] \in Int
    BY <1>5
  <2>3. \A i \in 1 .. n : f[i] - f[i - 1] = g[i] - g[i - 1]
    BY <1>7
  <2>4. f[0] = g[0] + c
    BY <1>6
  <2> HIDE DEF c
  <2>5. f[n] = g[n] + c
    BY <2>1, <2>2, <2>3, <2>4, StayApart, Zenon
  <2> QED BY <2>5 DEF c
<1>9. f[n] = Abstract!Sum(q) /\ g[n] = Abstract!Sum(r) /\ g[n] \in Int
  <2>1. f[n] = Sums(q)[n + 1] /\ g[n] \in Int
    BY <1>4, <1>5
  <2> QED BY <1>2, <1>3, <2>1 DEF g
<1> QED BY <1>4, <1>8, <1>9 DEF r
-----------------------------------------------------------------------------
(* The readings of one entry, oldest first.                                *)
LEMMA PositionOf ==
  ASSUME NEW i \in Positions, NEW j \in 0 .. WindowSize
  PROVE  (i + j) % WindowSize = IF i + j < WindowSize THEN i + j ELSE i + j - WindowSize
BY RegistryAssumption, Z3 DEF Positions

LEMMA NextOf ==
  ASSUME NEW i \in Positions
  PROVE  NextIndex(i) = IF i + 1 < WindowSize THEN i + 1 ELSE 0
<1>1. 1 \in 0 .. WindowSize /\ i \in 0 .. WindowSize - 1 /\ WindowSize \in Nat
  BY RegistryAssumption DEF Positions
<1>2. (i + 1) % WindowSize = IF i + 1 < WindowSize THEN i + 1 ELSE i + 1 - WindowSize
  BY <1>1, PositionOf
<1> QED BY <1>1, <1>2 DEF NextIndex

LEMMA OrderedReadings ==
  ASSUME NEW e \in State
  PROVE  /\ Ordered(e) \in Seq(Int) /\ Len(Ordered(e)) = e.count
         /\ \A k \in 1 .. e.count : Ordered(e)[k] =
              IF e.count < WindowSize THEN e.window[k - 1]
              ELSE e.window[(e.index + (k - 1)) % WindowSize]
<1>1. /\ WindowSize \in Nat \ {0} /\ e.count \in 0 .. WindowSize /\ e.index \in Positions
      /\ \A p \in Positions : e.window[p] \in Int
  BY RegistryAssumption DEF State
<1>2. CASE e.count < WindowSize
  <2>1. \A k \in 1 .. e.count : k - 1 \in Positions
    BY <1>1, <1>2 DEF Positions
  <2>2. Ordered(e) = [k \in 1 .. e.count |-> e.window[k - 1]]
    BY <1>2 DEF Ordered
  <2>3. \A k \in 1 .. e.count : e.window[k - 1] \in Int
    BY <1>1, <2>1
  <2> QED BY <1>1, <1>2, <2>2, <2>3
<1>3. CASE ~(e.count < WindowSize)
  <2>1. e.count = WindowSize
    BY <1>1, <1>3
  <2>2. ASSUME NEW k \in 1 .. WindowSize
        PROVE  /\ e.index + k - 1 = e.index + (k - 1)
               /\ e.window[(e.index + (k - 1)) % WindowSize] \in Int
    <3>1. k - 1 \in 0 .. WindowSize /\ e.index \in Int /\ k \in Int
      BY <1>1 DEF Positions
    <3>2. (e.index + (k - 1)) % WindowSize \in Positions
      <4> DEFINE j == k - 1
      <4>1. j \in 0 .. WindowSize /\ e.index \in Positions
        BY <1>1, <3>1
      <4> HIDE DEF j
      <4>2. (e.index + j) % WindowSize =
              IF e.index + j < WindowSize THEN e.index + j ELSE e.index + j - WindowSize
        BY <4>1, PositionOf
      <4>3. (e.index + j) % WindowSize \in Positions
        BY <1>1, <3>1, <4>1, <4>2 DEF Positions
      <4> QED BY <4>3 DEF j
    <3> QED BY <1>1, <3>1, <3>2
  <2>3. Ordered(e) = [k \in 1 .. WindowSize |-> e.window[(e.index + k - 1) % WindowSize]]
    BY <1>3 DEF Ordered
  <2>4. Ordered(e) = [k \in 1 .. WindowSize |-> e.window[(e.index + (k - 1)) % WindowSize]]
    BY <2>2, <2>3
  <2> QED BY <1>1, <1>3, <2>1, <2>2, <2>4
<1> QED BY <1>2, <1>3

(* What SumsExact says of one entry.                                       *)
Exact(e) ==
  /\ e.count < WindowSize => e.index = e.count
  /\ e.sum = Abstract!Sum(Ordered(e))

(* update_moving_average appends the reading to the last WindowSize ones,  *)
(* drops the one that falls out of the window, and keeps the sum exact.    *)
LEMMA AveragedReadings ==
  ASSUME NEW e \in State, Exact(e), NEW v \in Int
  PROVE  /\ Exact(Averaged(e, v))
         /\ Ordered(Averaged(e, v)) = Abstract!LastReadings(Append(Ordered(e), v))
<1> DEFINE a == Averaged(e, v)  q == Ordered(e)
<1>1. /\ WindowSize \in Nat \ {0} /\ e.count \in 0 .. WindowSize /\ e.index \in Positions
      /\ e.index \in 0 .. WindowSize - 1
      /\ e.window \in [Positions -> Int] /\ e.sum \in Int
  BY RegistryAssumption DEF State, Positions
<1>2. a \in State
  BY AveragedIsState
<1>3. /\ a.window = [e.window EXCEPT ![e.index] = v]
      /\ a.count = IF e.count < WindowSize THEN e.count + 1 ELSE e.count
      /\ a.index = NextIndex(e.index)
      /\ a.sum = NewSum(e, v)
  BY DEF Averaged, State
<1>4. \A p \in Positions : a.window[p] = IF p = e.index THEN v ELSE e.window[p]
  BY <1>1, <1>3
<1>5. /\ q \in Seq(Int) /\ Len(q) = e.count
      /\ \A k \in 1 .. e.count : q[k] =
              IF e.count < WindowSize THEN e.window[k - 1]
              ELSE e.window[(e.index + (k - 1)) % WindowSize]
  BY OrderedReadings
<1>6. /\ Ordered(a) \in Seq(Int) /\ Len(Ordered(a)) = a.count
      /\ \A k \in 1 .. a.count : Ordered(a)[k] =
              IF a.count < WindowSize THEN a.window[k - 1]
              ELSE a.window[(a.index + (k - 1)) % WindowSize]
  BY <1>2, OrderedReadings
<1>7. a.index = IF e.index + 1 < WindowSize THEN e.index + 1 ELSE 0
  BY <1>1, <1>3, NextOf
<1> HIDE DEF a, q
<1>8. /\ Append(q, v) \in Seq(Int) /\ Len(Append(q, v)) = e.count + 1
      /\ \A k \in 1 .. e.count : Append(q, v)[k] = q[k]
      /\ Append(q, v)[e.count + 1] = v
  BY <1>5, AppendProperties
<1>9. CASE e.count < WindowSize
  <2>1. e.index = e.count /\ a.count = e.count + 1
    BY <1>3, <1>9 DEF Exact
  <2>2. Abstract!LastReadings(Append(q, v)) = Append(q, v)
    BY <1>1, <1>8, <1>9 DEF Abstract!LastReadings
  <2>3. ASSUME NEW k \in 1 .. a.count PROVE Ordered(a)[k] = a.window[k - 1]
    <3>1. CASE a.count < WindowSize
      BY <1>6, <3>1
    <3>2. CASE ~(a.count < WindowSize)
      <4>1. a.count = WindowSize /\ a.index = 0 /\ 0 \in Positions
        BY <1>1, <1>7, <1>9, <2>1, <3>2 DEF Positions
      <4>2. k - 1 \in 0 .. WindowSize /\ k - 1 < WindowSize /\ 0 + (k - 1) = k - 1
        BY <1>1, <4>1
      <4>3. (0 + (k - 1)) % WindowSize = k - 1
        BY <4>1, <4>2, PositionOf
      <4> QED BY <1>6, <3>2, <4>1, <4>3
    <3> QED BY <3>1, <3>2
  <2>4. ASSUME NEW k \in 1 .. a.count PROVE Ordered(a)[k] = Append(q, v)[k]
    <3>1. k - 1 \in Positions /\ k \in 1 .. e.count + 1
      BY <1>1, <1>9, <2>1 DEF Positions
    <3>2. CASE k = e.count + 1
      <4>1. k - 1 = e.index
        BY <1>1, <2>1, <3>2
      <4>2. a.window[k - 1] = v
        BY <1>4, <3>1, <4>1
      <4> QED BY <1>8, <2>3, <3>2, <4>2
    <3>3. CASE k # e.count + 1
      <4>1. k \in 1 .. e.count /\ k - 1 # e.index
        BY <1>1, <2>1, <3>1, <3>3
      <4>2. a.window[k - 1] = e.window[k - 1]
        BY <1>4, <3>1, <4>1
      <4> QED BY <1>5, <1>8, <1>9, <2>3, <4>1, <4>2
    <3> QED BY <3>2, <3>3
  <2>5. Ordered(a) = Append(q, v)
    BY <1>6, <1>8, <2>1, <2>4, SeqEqual
  <2>6. a.sum = Abstract!Sum(Ordered(a))
    <3>1. Abstract!Sum(Append(q, v)) = Abstract!Sum(q) + v
      BY <1>5, SumAppend
    <3>2. a.sum = e.sum + v /\ e.sum = Abstract!Sum(q)
      BY <1>3, <1>9 DEF NewSum, Exact, q
    <3> QED BY <2>5, <3>1, <3>2
  <2>7. a.count < WindowSize => a.index = a.count
    BY <1>7, <2>1
  <2> QED BY <2>2, <2>5, <2>6, <2>7 DEF Exact, a, q
<1>10. CASE ~(e.count < WindowSize)
  <2>1. e.count = WindowSize /\ a.count = WindowSize
    BY <1>1, <1>3, <1>10
  <2>2. Abstract!LastReadings(Append(q, v)) = Tail(Append(q, v))
    BY <1>1, <1>8, <2>1 DEF Abstract!LastReadings
  <2>3. /\ Append(q, v) # << >> /\ Tail(Append(q, v)) \in Seq(Int)
        /\ Len(Tail(Append(q, v))) = WindowSize
        /\ \A k \in 1 .. WindowSize : Tail(Append(q, v))[k] = Append(q, v)[k + 1]
    <3>1. Append(q, v) # << >>
      BY <1>5, AppendProperties
    <3>2. Len(Append(q, v)) = WindowSize + 1
      BY <1>8, <2>1
    <3>3. /\ Tail(Append(q, v)) \in Seq(Int)
          /\ Len(Tail(Append(q, v))) = Len(Append(q, v)) - 1
          /\ \A k \in 1 .. Len(Tail(Append(q, v))) : Tail(Append(q, v))[k] = Append(q, v)[k + 1]
      BY <1>8, <3>1, HeadTailProperties
    <3>4. Len(Tail(Append(q, v))) = WindowSize
      BY <1>1, <3>2, <3>3
    <3> QED BY <3>1, <3>3, <3>4
  <2>4. ASSUME NEW k \in 1 .. WindowSize PROVE Ordered(a)[k] = Tail(Append(q, v))[k]
    <3>1. k - 1 \in 0 .. WindowSize /\ k \in 0 .. WindowSize /\ a.index \in Positions
      BY <1>1, <1>7 DEF Positions
    <3>2. Ordered(a)[k] = a.window[(a.index + (k - 1)) % WindowSize]
      BY <1>1, <1>6, <2>1
    <3>3. (a.index + (k - 1)) % WindowSize = (e.index + k) % WindowSize
      <4> DEFINE j == k - 1
      <4>1. j \in 0 .. WindowSize /\ k = j + 1 /\ j < WindowSize /\ e.index \in Positions
        BY <1>1, <3>1
      <4> HIDE DEF j
      <4>2. (a.index + j) % WindowSize =
              IF a.index + j < WindowSize THEN a.index + j ELSE a.index + j - WindowSize
        BY <3>1, <4>1, PositionOf
      <4>3. (e.index + k) % WindowSize =
              IF e.index + k < WindowSize THEN e.index + k ELSE e.index + k - WindowSize
        BY <3>1, <4>1, PositionOf
      <4>4. (a.index + j) % WindowSize = (e.index + k) % WindowSize
        <5>1. CASE e.index + 1 < WindowSize
          <6>1. a.index + j = e.index + k
            BY <1>1, <1>7, <4>1, <5>1
          <6> QED BY <6>1
        <5>2. CASE ~(e.index + 1 < WindowSize)
          <6>1. a.index = 0 /\ e.index = WindowSize - 1
            BY <1>1, <1>7, <5>2
          <6>2. (a.index + j) % WindowSize = j
            BY <4>1, <4>2, <6>1
          <6>3. (e.index + k) % WindowSize = j
            BY <1>1, <4>1, <4>3, <6>1
          <6> QED BY <6>2, <6>3
        <5> QED BY <5>1, <5>2
      <4> QED BY <4>4 DEF j
    <3>4. (e.index + k) % WindowSize =
            IF e.index + k < WindowSize THEN e.index + k ELSE e.index + k - WindowSize
      BY <1>1, <3>1, PositionOf
    <3>5. (e.index + k) % WindowSize \in Positions
      <4>1. e.index + k < WindowSize => e.index + k \in Positions
        BY <1>1, <3>1 DEF Positions
      <4>2. ~(e.index + k < WindowSize) => e.index + k - WindowSize \in Positions
        BY <1>1, <3>1 DEF Positions
      <4> QED BY <3>4, <4>1, <4>2
    <3>6. CASE k = WindowSize
      <4>1. (e.index + k) % WindowSize = e.index
        BY <1>1, <3>4, <3>6
      <4> QED BY <1>4, <1>8, <2>1, <2>3, <3>2, <3>3, <3>5, <3>6, <4>1
    <3>7. CASE k # WindowSize
      <4>1. (e.index + k) % WindowSize # e.index
        BY <1>1, <3>1, <3>4, <3>7
      <4>2. k + 1 \in 1 .. e.count /\ k + 1 - 1 = k
        BY <1>1, <2>1, <3>7
      <4>3. q[k + 1] = e.window[(e.index + k) % WindowSize]
        BY <1>5, <1>10, <4>2
      <4>4. Tail(Append(q, v))[k] = q[k + 1]
        BY <1>8, <2>3, <4>2
      <4> QED BY <1>4, <3>2, <3>3, <3>5, <4>1, <4>3, <4>4
    <3> QED BY <3>6, <3>7
  <2>5. Ordered(a) = Tail(Append(q, v))
    BY <1>6, <2>1, <2>3, <2>4, SeqEqual
  <2>6. a.sum = Abstract!Sum(Ordered(a))
    <3>1. Abstract!Sum(Append(q, v)) = Abstract!Sum(q) + v
      BY <1>5, SumAppend
    <3>2. Abstract!Sum(Tail(Append(q, v))) = Abstract!Sum(Append(q, v)) - Append(q, v)[1]
      BY <1>8, <2>3, SumTail
    <3>3. 1 \in 1 .. e.count /\ 1 - 1 = 0 /\ 0 \in 0 .. WindowSize
      BY <1>1, <2>1
    <3>4. (e.index + 0) % WindowSize = e.index
      BY <1>1, <3>3, PositionOf
    <3>5. q[1] = e.window[e.index] /\ Append(q, v)[1] = q[1] /\ q[1] \in Int
      <4>1. q[1] = e.window[(e.index + (1 - 1)) % WindowSize]
        BY <1>5, <1>10, <3>3
      <4>2. Append(q, v)[1] = q[1]
        BY <1>8, <3>3
      <4>3. q[1] \in Int
        BY <1>5, <3>3, ElementOfSeq
      <4> QED BY <3>3, <3>4, <4>1, <4>2, <4>3
    <3>6. a.sum = e.sum - e.window[e.index] + v /\ e.sum = Abstract!Sum(q)
      BY <1>3, <1>10 DEF NewSum, Exact, q
    <3> QED BY <1>1, <2>5, <3>1, <3>2, <3>5, <3>6
  <2> QED BY <1>1, <2>1, <2>2, <2>5, <2>6 DEF Exact, a, q
<1> QED BY <1>9, <1>10

(* A new entry has no readings.                                            *)
LEMMA FreshReadings == ASSUME NEW s \in SensorIds PROVE Exact(Fresh(s)) /\ Ordered(Fresh(s)) = << >>
<1>1. Fresh(s) \in State /\ Fresh(s).count = 0 /\ Fresh(s).index = 0 /\ Fresh(s).sum = 0
  BY FreshIsState DEF Fresh
<1>2. Ordered(Fresh(s)) \in Seq(Int) /\ Len(Ordered(Fresh(s))) = 0
  BY <1>1, OrderedReadings
<1>3. Ordered(Fresh(s)) = << >>
  BY <1>2
<1>4. << >> \in Seq(Int) /\ Len(<< >>) = 0
  OBVIOUS
<1>5. Abstract!Sum(<< >>) = 0
  BY <1>4, SumSteps
<1> QED BY <1>1, <1>3, <1>5 DEF Exact

(* Neither flag nor its clearing touches the readings.                     *)
LEMMA SameReadings ==
  ASSUME NEW e \in State, NEW f \in State,
         f.window = e.window, f.index = e.index, f.count = e.count, f.sum = e.sum
  PROVE  Ordered(f) = Ordered(e) /\ (Exact(e) => Exact(f))
<1>1. Ordered(f) = Ordered(e)
  BY DEF Ordered
<1> QED BY <1>1 DEF Exact
-----------------------------------------------------------------------------
(* The registry implements the report.  First what a reading does to the   *)
(* table: it appends an entry for a sensor that has none, and then changes *)
(* the entry of that sensor only.                                          *)
TableOf(s, table, p) ==
  \/ /\ \A i \in Indices : states[i].sensor_id # s
     /\ table = Append(states, Fresh(s)) /\ p = Len(states) + 1
  \/ p \in Indices /\ states[p].sensor_id = s /\ table = states

LEMMA EntryOf ==
  ASSUME IInv, NEW s \in SensorIds, NEW k \in Indices, states[k].sensor_id = s
  PROVE  EntriesOf(s) = {k} /\ Position(s) = k
<1>1. Len(states) \in Nat /\ k \in Nat
  BY DEF IInv, Indices
<1>2. EntriesOf(s) = {k}
  BY DEF EntriesOf, IsOf, IInv, Distinct
<1>3. Position(s) = k
  BY <1>1, <1>2 DEF Position
<1> QED BY <1>2, <1>3

LEMMA NoEntryOf ==
  ASSUME NEW s \in SensorIds, \A i \in Indices : states[i].sensor_id # s
  PROVE  EntriesOf(s) = {} /\ Position(s) = Len(states) + 1
BY DEF EntriesOf, IsOf, Position

LEMMA RegisteredTable ==
  ASSUME IInv, NEW s \in SensorIds
  PROVE  TableOf(s, Registered(s), Position(s))
<1>1. CASE \E k \in Indices : states[k].sensor_id = s
  <2>1. PICK k \in Indices : states[k].sensor_id = s
    BY <1>1
  <2>2. EntriesOf(s) = {k} /\ Position(s) = k
    BY <2>1, EntryOf
  <2>3. Registered(s) = states
    BY <2>2 DEF Registered
  <2> QED BY <2>1, <2>2, <2>3 DEF TableOf
<1>2. CASE \A i \in Indices : states[i].sensor_id # s
  <2>1. EntriesOf(s) = {} /\ Position(s) = Len(states) + 1
    BY <1>2, NoEntryOf
  <2>2. Registered(s) = Append(states, Fresh(s))
    BY <2>1 DEF Registered
  <2> QED BY <1>2, <2>1, <2>2 DEF TableOf
<1> QED BY <1>1, <1>2

LEMMA TableEntries ==
  ASSUME IInv, NEW s \in SensorIds, NEW table, NEW p, TableOf(s, table, p)
  PROVE  /\ table \in Seq(State) /\ p \in 1 .. Len(table) /\ table[p].sensor_id = s
         /\ Indices \subseteq 1 .. Len(table)
         /\ \A i \in 1 .. Len(table) : i # p => i \in Indices
         /\ \A i \in Indices : table[i] = states[i]
         /\ \A i \in Indices : i # p => states[i].sensor_id # s
<1>1. Len(states) \in Nat /\ states \in Seq(State) /\ \A i \in Indices : states[i] \in State
  BY DEF IInv, Indices
<1>2. ASSUME \A i \in Indices : states[i].sensor_id # s,
             table = Append(states, Fresh(s)), p = Len(states) + 1
      PROVE  /\ table \in Seq(State) /\ p \in 1 .. Len(table) /\ table[p].sensor_id = s
             /\ Indices \subseteq 1 .. Len(table)
             /\ \A i \in 1 .. Len(table) : i # p => i \in Indices
             /\ \A i \in Indices : table[i] = states[i]
             /\ \A i \in Indices : i # p => states[i].sensor_id # s
  <2>1. /\ table \in Seq(State) /\ Len(table) = Len(states) + 1
        /\ \A i \in Indices : table[i] = states[i]
        /\ table[p] = Fresh(s)
    BY <1>1, <1>2, FreshIsState, AppendProperties DEF Indices
  <2>2. table[p].sensor_id = s
    BY <2>1, FreshIsState
  <2> QED BY <1>1, <1>2, <2>1, <2>2 DEF Indices
<1>3. ASSUME p \in Indices, states[p].sensor_id = s, table = states
      PROVE  /\ table \in Seq(State) /\ p \in 1 .. Len(table) /\ table[p].sensor_id = s
             /\ Indices \subseteq 1 .. Len(table)
             /\ \A i \in 1 .. Len(table) : i # p => i \in Indices
             /\ \A i \in Indices : table[i] = states[i]
             /\ \A i \in Indices : i # p => states[i].sensor_id # s
  BY <1>1, <1>3 DEF Indices, IInv, Distinct
<1> QED BY <1>2, <1>3 DEF TableOf

(* What the sensors show of the table.                                     *)
Value(e) == IF e.has_anomaly THEN e.anomaly_value ELSE NoValue

Views ==
  /\ \A i \in Indices : /\ Recent[states[i].sensor_id] = Ordered(states[i])
                        /\ Abnormal[states[i].sensor_id] = Value(states[i])
  /\ \A s \in SensorIds :
       (\A i \in Indices : states[i].sensor_id # s) => Recent[s] = << >> /\ Abnormal[s] = NoValue

LEMMA IdOf == ASSUME NEW e \in State PROVE e.sensor_id \in SensorIds
BY DEF State

LEMMA ViewsHold == IInv => Views
<1> SUFFICES ASSUME IInv PROVE Views
  OBVIOUS
<1>1. ASSUME NEW i \in Indices, NEW s, s = states[i].sensor_id
      PROVE  Recent[s] = Ordered(states[i]) /\ Abnormal[s] = Value(states[i])
  <2>1. s \in SensorIds
    <3>1. states[i] \in State
      BY DEF IInv, Indices
    <3> QED BY <1>1, <3>1, IdOf
  <2>2. EntriesOf(s) = {i} /\ Position(s) = i
    BY <1>1, <2>1, EntryOf
  <2>3. Recent[s] = Ordered(states[i])
    BY <2>1, <2>2 DEF Recent
  <2>4. Abnormal[s] = Value(states[i])
    BY <2>1, <2>2 DEF Abnormal, Value
  <2> QED BY <2>3, <2>4
<1>2. ASSUME NEW s \in SensorIds, \A i \in Indices : states[i].sensor_id # s
      PROVE  Recent[s] = << >> /\ Abnormal[s] = NoValue
  <2>1. EntriesOf(s) = {}
    BY <1>2, NoEntryOf
  <2> QED BY <2>1 DEF Recent, Abnormal
<1> QED BY <1>1, <1>2 DEF Views

AllExact == \A i \in Indices : Exact(states[i])

LEMMA ExactIsSumsExact == AllExact <=> SumsExact
BY DEF AllExact, Exact, SumsExact

(* A reading changes one entry, and what it shows, as the report's does.   *)
LEMMA ReadingEntry ==
  ASSUME IInv, AllExact, NEW s \in SensorIds, NEW v \in Values, NEW table, NEW p,
         TableOf(s, table, p)
  PROVE  LET e == table[p]  f == Flagged(Averaged(e, v), s, v)
         IN  /\ e \in State /\ f \in State /\ f.sensor_id = s /\ Exact(e) /\ Exact(f)
             /\ Ordered(f) = Abstract!LastReadings(Append(Ordered(e), v))
             /\ Value(f) = IF DetectAnomaly(s, v) THEN v ELSE Value(e)
<1> DEFINE e == table[p]  a == Averaged(e, v)  f == Flagged(a, s, v)
<1>1. v \in Int
  BY RegistryAssumption
<1>2. e \in State /\ e.sensor_id = s
  BY TableEntries
<1>3. Exact(e)
  <2>1. CASE p \in Indices /\ table = states
    BY <2>1 DEF AllExact
  <2>2. CASE table = Append(states, Fresh(s)) /\ p = Len(states) + 1
    <3>1. e = Fresh(s)
      <4>1. states \in Seq(State) /\ Fresh(s) \in State
        BY FreshIsState DEF IInv
      <4>2. Append(states, Fresh(s))[Len(states) + 1] = Fresh(s)
        BY <4>1, AppendProperties
      <4> QED BY <2>2, <4>2
    <3> QED BY <3>1, FreshReadings
  <2> QED BY <2>1, <2>2 DEF TableOf
<1>4. a \in State /\ a.sensor_id = s /\ a.has_anomaly = e.has_anomaly
      /\ a.anomaly_value = e.anomaly_value
  BY <1>1, <1>2, AveragedIsState DEF Averaged, State
<1>5. Exact(a) /\ Ordered(a) = Abstract!LastReadings(Append(Ordered(e), v))
  BY <1>1, <1>2, <1>3, AveragedReadings
<1> HIDE DEF e, a
<1>6. f \in State /\ f.sensor_id = s
  BY <1>1, <1>4, FlaggedIsState
<1>7. f.window = a.window /\ f.index = a.index /\ f.count = a.count /\ f.sum = a.sum
  BY <1>4 DEF Flagged, State
<1>8. Value(f) = IF DetectAnomaly(s, v) THEN v ELSE Value(e)
  BY <1>1, <1>4 DEF Flagged, Value, State
<1>9. Ordered(f) = Ordered(a) /\ Exact(f)
  BY <1>4, <1>5, <1>6, <1>7, SameReadings
<1> QED BY <1>2, <1>3, <1>5, <1>6, <1>8, <1>9 DEF e, a

LEMMA ReadingMaps ==
  ASSUME IInv, IInv', Views, Views', AllExact, NEW s \in SensorIds, NEW v \in Values, Reading(s, v)
  PROVE  AllExact' /\ Abstract!Reading(s, v)
<1> DEFINE table == Registered(s)  p == Position(s)
           e == table[p]  f == Flagged(Averaged(e, v), s, v)
<1>1. TableOf(s, table, p)
  BY RegisteredTable
<1>2. states' = [table EXCEPT ![p] = f] /\ report' = report
  BY DEF Reading
<1> HIDE DEF table, p
<1>3. /\ table \in Seq(State) /\ p \in 1 .. Len(table) /\ table[p].sensor_id = s
      /\ Indices \subseteq 1 .. Len(table)
      /\ \A i \in 1 .. Len(table) : i # p => i \in Indices
      /\ \A i \in Indices : table[i] = states[i]
      /\ \A i \in Indices : i # p => states[i].sensor_id # s
  BY <1>1, TableEntries
<1>4. /\ e \in State /\ f \in State /\ f.sensor_id = s /\ Exact(e) /\ Exact(f)
      /\ Ordered(f) = Abstract!LastReadings(Append(Ordered(e), v))
      /\ Value(f) = IF DetectAnomaly(s, v) THEN v ELSE Value(e)
  BY <1>1, ReadingEntry
<1> HIDE DEF e, f
<1>5. /\ Indices' = 1 .. Len(table) /\ p \in Indices' /\ states'[p] = f
      /\ \A i \in Indices' : i # p => i \in Indices /\ states'[i] = states[i]
      /\ \A i \in Indices : i \in Indices' /\ (i # p => states'[i] = states[i])
  <2>1. states' \in Seq(State) /\ Len(states') = Len(table)
    BY <1>2, <1>3, <1>4
  <2> QED BY <1>2, <1>3, <2>1 DEF Indices
<1>6. AllExact'
  <2> SUFFICES ASSUME NEW i \in Indices' PROVE Exact(states'[i])
    BY DEF AllExact, Exact
  <2>1. CASE i = p
    BY <1>4, <1>5, <2>1
  <2>2. CASE i # p
    BY <1>5, <2>2 DEF AllExact
  <2> QED BY <2>1, <2>2
<1>7. Recent[s] = Ordered(e) /\ Abnormal[s] = Value(e)
  <2>1. CASE p \in Indices /\ states[p].sensor_id = s /\ table = states
    BY <2>1 DEF Views, e
  <2>2. CASE (\A i \in Indices : states[i].sensor_id # s) /\ table = Append(states, Fresh(s))
             /\ p = Len(states) + 1
    <3>1. e = Fresh(s)
      <4>1. states \in Seq(State) /\ Fresh(s) \in State
        BY FreshIsState DEF IInv
      <4>2. Append(states, Fresh(s))[Len(states) + 1] = Fresh(s)
        BY <4>1, AppendProperties
      <4> QED BY <2>2, <4>2 DEF e
    <3>2. Value(Fresh(s)) = NoValue
      BY DEF Value, Fresh
    <3> QED BY <2>2, <3>1, <3>2, FreshReadings DEF Views
  <2> QED BY <1>1, <2>1, <2>2 DEF TableOf
<1>8. Recent'[s] = Ordered(f) /\ Abnormal'[s] = Value(f)
  BY <1>4, <1>5 DEF Views, Ordered, Value
<1>9. ASSUME NEW t \in SensorIds, t # s
      PROVE  Recent'[t] = Recent[t] /\ Abnormal'[t] = Abnormal[t]
  <2>1. CASE \E i \in Indices : states[i].sensor_id = t
    <3>1. PICK i \in Indices : states[i].sensor_id = t
      BY <2>1
    <3>2. i # p
      BY <1>3, <1>9, <3>1 DEF TableOf
    <3>3. i \in Indices' /\ states'[i] = states[i]
      BY <1>5, <3>1, <3>2
    <3>4. Recent[t] = Ordered(states[i]) /\ Abnormal[t] = Value(states[i])
      BY <3>1 DEF Views
    <3>5. /\ Recent'[states'[i].sensor_id] = Ordered(states'[i])
          /\ Abnormal'[states'[i].sensor_id] = Value(states'[i])
      BY <3>3 DEF Views, Ordered, Value
    <3> QED BY <3>1, <3>3, <3>4, <3>5
  <2>2. CASE \A i \in Indices : states[i].sensor_id # t
    <3>1. \A i \in Indices' : states'[i].sensor_id # t
      BY <1>4, <1>5, <1>9, <2>2
    <3> QED BY <2>2, <3>1 DEF Views
  <2> QED BY <2>1, <2>2
<1>10. Recent' = [Recent EXCEPT ![s] = Abstract!LastReadings(Append(Recent[s], v))]
  <2>1. /\ Recent = [t \in SensorIds |-> Recent[t]]
        /\ Recent' = [t \in SensorIds |-> Recent'[t]]
    BY DEF Recent
  <2>2. Recent'[s] = Abstract!LastReadings(Append(Recent[s], v))
    BY <1>4, <1>7, <1>8
  <2> QED BY <1>9, <2>1, <2>2
<1>11. Abnormal' = [Abnormal EXCEPT ![s] = IF DetectAnomaly(s, v) THEN v ELSE Abnormal[s]]
  <2>1. /\ Abnormal = [t \in SensorIds |-> Abnormal[t]]
        /\ Abnormal' = [t \in SensorIds |-> Abnormal'[t]]
    BY DEF Abnormal
  <2>2. Abnormal'[s] = IF DetectAnomaly(s, v) THEN v ELSE Abnormal[s]
    BY <1>4, <1>7, <1>8
  <2> QED BY <1>9, <2>1, <2>2
<1>12. Known' = IF \E i \in 1 .. Len(Known) : Known[i] = s THEN Known ELSE Append(Known, s)
  <2>1. /\ Len(states) \in Nat /\ Known \in Seq(SensorIds) /\ Len(Known) = Len(states)
        /\ \A i \in Indices : Known[i] = states[i].sensor_id
    <3>1. \A i \in Indices : states[i].sensor_id \in SensorIds
      BY IdOf DEF IInv, Indices
    <3>2. Len(states) \in Nat
      BY DEF IInv
    <3> QED BY <3>1, <3>2 DEF Known, Indices
  <2>2. /\ Len(table) \in Nat /\ Known' \in Seq(SensorIds) /\ Len(Known') = Len(table)
        /\ \A i \in Indices' : Known'[i] = states'[i].sensor_id
    <3>1. states' \in Seq(State) /\ Len(states') = Len(table) /\ Len(table) \in Nat
      BY <1>2, <1>3, <1>4
    <3>2. \A i \in 1 .. Len(table) : states'[i].sensor_id \in SensorIds
      BY <3>1, IdOf
    <3>3. Known' = [i \in 1 .. Len(table) |-> states'[i].sensor_id]
      BY <1>5 DEF Known
    <3> QED BY <1>5, <3>1, <3>2, <3>3
  <2>3. CASE p \in Indices /\ states[p].sensor_id = s /\ table = states
    <3>1. \A i \in Indices : Known'[i] = Known[i]
      BY <1>4, <1>5, <2>1, <2>2, <2>3
    <3>2. Known' = Known
      BY <2>1, <2>2, <2>3, <3>1, SeqEqual DEF Indices
    <3>3. \E i \in 1 .. Len(Known) : Known[i] = s
      BY <2>1, <2>3 DEF Indices
    <3> QED BY <3>2, <3>3
  <2>4. CASE /\ \A i \in Indices : states[i].sensor_id # s
             /\ table = Append(states, Fresh(s)) /\ p = Len(states) + 1
    <3>1. ~ \E i \in 1 .. Len(Known) : Known[i] = s
      BY <2>1, <2>4 DEF Indices
    <3>2. Len(table) = Len(states) + 1
      <4>1. states \in Seq(State) /\ Fresh(s) \in State
        BY FreshIsState DEF IInv
      <4> QED BY <2>4, <4>1, AppendProperties
    <3>3. /\ Append(Known, s) \in Seq(SensorIds) /\ Len(Append(Known, s)) = Len(states) + 1
          /\ \A i \in Indices : Append(Known, s)[i] = states[i].sensor_id
          /\ Append(Known, s)[p] = s
      BY <2>1, <2>4, AppendProperties DEF Indices
    <3>4. \A i \in 1 .. Len(table) : Known'[i] = Append(Known, s)[i]
      BY <1>4, <1>5, <2>2, <3>3
    <3>5. Known' = Append(Known, s)
      BY <2>2, <3>2, <3>3, <3>4, SeqEqual
    <3> QED BY <3>1, <3>5
  <2> QED BY <1>1, <2>3, <2>4 DEF TableOf
<1> QED BY <1>2, <1>6, <1>10, <1>11, <1>12 DEF Abstract!Reading

LEMMA ReportMaps ==
  ASSUME IInv, IInv', Views, Views', AllExact, BuildPeriodicJson
  PROVE  AllExact' /\ Abstract!Report
<1>1. /\ Len(states) \in Nat /\ states \in Seq(State)
      /\ \A i \in Indices : states[i] \in State
  BY DEF IInv, Indices
<1>2. states' = [i \in 1 .. Len(states) |-> ClearFlag(states[i])]
  BY DEF BuildPeriodicJson, Indices
<1>3. ASSUME NEW e \in State
      PROVE  /\ ClearFlag(e) \in State /\ ClearFlag(e).sensor_id = e.sensor_id
             /\ Ordered(ClearFlag(e)) = Ordered(e) /\ (Exact(e) => Exact(ClearFlag(e)))
             /\ Value(ClearFlag(e)) = NoValue
  <2> DEFINE f == ClearFlag(e)
  <2>1. /\ f \in State /\ f.sensor_id = e.sensor_id /\ ~f.has_anomaly
        /\ f.window = e.window /\ f.index = e.index /\ f.count = e.count /\ f.sum = e.sum
    BY DEF ClearFlag, State
  <2> HIDE DEF f
  <2>2. Ordered(f) = Ordered(e) /\ (Exact(e) => Exact(f))
    BY <2>1, SameReadings
  <2>3. Value(f) = NoValue
    BY <2>1 DEF Value
  <2> QED BY <2>1, <2>2, <2>3 DEF f
<1>4. Indices' = Indices
  BY <1>1, <1>2, <1>3 DEF Indices
<1>5. \A i \in Indices : /\ states'[i].sensor_id = states[i].sensor_id
                         /\ Ordered(states'[i]) = Ordered(states[i])
                         /\ Exact(states[i]) => Exact(states'[i])
                         /\ Value(states'[i]) = NoValue
  BY <1>1, <1>2, <1>3 DEF Indices
<1>6. AllExact'
  <2> SUFFICES ASSUME NEW i \in Indices' PROVE Exact(states'[i])
    BY DEF AllExact, Exact
  <2> QED BY <1>4, <1>5 DEF AllExact
<1>7. Known' = Known
  BY <1>4, <1>5 DEF Known
<1>8. ASSUME NEW t \in SensorIds PROVE Recent'[t] = Recent[t] /\ Abnormal'[t] = NoValue
  <2>1. CASE \E i \in Indices : states[i].sensor_id = t
    <3>1. PICK i \in Indices : states[i].sensor_id = t
      BY <2>1
    <3>2. i \in Indices' /\ states'[i].sensor_id = t
      BY <1>4, <1>5, <3>1
    <3>3. Recent[t] = Ordered(states[i])
      BY <3>1 DEF Views
    <3>4. /\ Recent'[states'[i].sensor_id] = Ordered(states'[i])
          /\ Abnormal'[states'[i].sensor_id] = Value(states'[i])
      BY <3>2 DEF Views, Ordered, Value
    <3> QED BY <1>5, <3>1, <3>2, <3>3, <3>4
  <2>2. CASE \A i \in Indices : states[i].sensor_id # t
    <3>1. \A i \in Indices' : states'[i].sensor_id # t
      BY <1>4, <1>5, <2>2
    <3> QED BY <2>2, <3>1 DEF Views
  <2> QED BY <2>1, <2>2
<1>9. Recent' = Recent
  <2>1. /\ Recent = [t \in SensorIds |-> Recent[t]]
        /\ Recent' = [t \in SensorIds |-> Recent'[t]]
    BY DEF Recent
  <2> QED BY <1>8, <2>1
<1>10. Abnormal' = [t \in SensorIds |-> NoValue]
  <2>1. Abnormal' = [t \in SensorIds |-> Abnormal'[t]]
    BY DEF Abnormal
  <2> QED BY <1>8, <2>1
<1>11. /\ Len(Known) = Len(states)
       /\ \A i \in Indices : Known[i] = states[i].sensor_id
  BY <1>1 DEF Known, Indices
<1>12. ASSUME NEW i \in Indices
       PROVE  [sensor |-> states[i].sensor_id, sum |-> states[i].sum, count |-> states[i].count,
               value |-> IF states[i].has_anomaly THEN states[i].anomaly_value ELSE NoValue]
              = [sensor |-> Known[i], sum |-> Abstract!Sum(Recent[Known[i]]),
                 count |-> Len(Recent[Known[i]]), value |-> Abnormal[Known[i]]]
  <2>1. Known[i] = states[i].sensor_id
    BY <1>11
  <2>2. Recent[Known[i]] = Ordered(states[i]) /\ Abnormal[Known[i]] = Value(states[i])
    BY <2>1 DEF Views
  <2>3. states[i].sum = Abstract!Sum(Ordered(states[i]))
    BY DEF AllExact, Exact
  <2>4. Len(Ordered(states[i])) = states[i].count
    BY <1>1, OrderedReadings
  <2>5. Value(states[i]) = IF states[i].has_anomaly THEN states[i].anomaly_value ELSE NoValue
    BY DEF Value
  <2> QED BY <2>1, <2>2, <2>3, <2>4, <2>5
<1>13. report' = [i \in 1 .. Len(Known) |->
         [sensor |-> Known[i], sum |-> Abstract!Sum(Recent[Known[i]]),
          count |-> Len(Recent[Known[i]]), value |-> Abnormal[Known[i]]]]
  BY <1>11, <1>12 DEF BuildPeriodicJson, Indices
<1> QED BY <1>6, <1>7, <1>9, <1>10, <1>13 DEF Abstract!Report

LEMMA InitMaps == Init => AllExact /\ Abstract!Init
<1> SUFFICES ASSUME Init PROVE AllExact /\ Abstract!Init
  OBVIOUS
<1>1. Indices = {} /\ states = << >> /\ report = << >>
  BY DEF Init, Indices
<1>2. AllExact
  BY <1>1 DEF AllExact
<1>3. \A s \in SensorIds : EntriesOf(s) = {}
  BY <1>1 DEF EntriesOf
<1>4. Recent = [s \in SensorIds |-> << >>]
  BY <1>3 DEF Recent
<1>5. Abnormal = [s \in SensorIds |-> NoValue]
  BY <1>3 DEF Abnormal
<1>6. Known = << >>
  <2>1. Known \in Seq({}) /\ Len(Known) = 0
    BY <1>1 DEF Known
  <2> QED BY <2>1
<1> QED BY <1>1, <1>2, <1>4, <1>5, <1>6 DEF Abstract!Init

LEMMA StepMaps ==
  IInv /\ IInv' /\ Views /\ Views' /\ AllExact /\ [Next]_vars
    => AllExact' /\ [Abstract!Next]_(Abstract!vars)
<1> SUFFICES ASSUME IInv, IInv', Views, Views', AllExact, [Next]_vars
             PROVE  AllExact' /\ [Abstract!Next]_(Abstract!vars)
  OBVIOUS
<1>1. ASSUME NEW s \in SensorIds, NEW v \in Values, Reading(s, v)
      PROVE  AllExact' /\ [Abstract!Next]_(Abstract!vars)
  BY <1>1, ReadingMaps DEF Abstract!Next
<1>2. CASE BuildPeriodicJson
  BY <1>2, ReportMaps DEF Abstract!Next
<1>3. CASE UNCHANGED vars
  <2>1. states' = states /\ report' = report
    BY <1>3 DEF vars
  <2>2. Indices' = Indices /\ AllExact'
    BY <2>1 DEF Indices, AllExact, Exact
  <2>3. Known' = Known /\ Recent' = Recent /\ Abnormal' = Abnormal
    BY <2>1, <2>2 DEF Known, Recent, Abnormal, EntriesOf, Position, IsOf, Ordered
  <2> QED BY <2>1, <2>2, <2>3 DEF Abstract!vars
<1> QED BY <1>1, <1>2, <1>3 DEF Next

(* The running sum is exact in every state, however often the ring of an   *)
(* entry wrapped.                                                          *)
THEOREM SumsAlwaysExact == Spec => []SumsExact
<1>1. Init => IInv /\ TypeOK /\ AllExact
  BY InvInit, InitMaps
<1>2. IInv /\ TypeOK /\ [Next]_vars => (IInv /\ TypeOK)'
  BY InvStep
<1>3. IInv => Views
  BY ViewsHold
<1>4. IInv /\ IInv' /\ Views /\ Views' /\ AllExact /\ [Next]_vars => AllExact'
  BY StepMaps
<1> QED BY <1>1, <1>2, <1>3, <1>4, ExactIsSumsExact, PTL DEF Spec

(* The table of sensor states implements the report: the sensors in order  *)
(* of appearance, each with the sum and number of its last WindowSize      *)
(* readings and its last abnormal value since the report before.           *)
THEOREM ImplementsReport == Spec => ReportSpec
<1>1. Init => IInv /\ TypeOK /\ AllExact /\ Abstract!Init
  BY InvInit, InitMaps
<1>2. IInv /\ TypeOK /\ [Next]_vars => (IInv /\ TypeOK)'
  BY InvStep
<1>3. IInv => Views
  BY ViewsHold
<1>4. IInv /\ IInv' /\ Views /\ Views' /\ AllExact /\ [Next]_vars
        => AllExact' /\ [Abstract!Next]_(Abstract!vars)
  BY StepMaps
<1> QED BY <1>1, <1>2, <1>3, <1>4, PTL DEF Spec, ReportSpec, Abstract!Spec
=============================================================================
