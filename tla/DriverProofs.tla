---------------------------- MODULE DriverProofs ----------------------------
(***************************************************************************)
(* The driver's running sums are the schedule's, for any command line and  *)
(* however far each frame brings the time; and what it saves of a grid of  *)
(* any size, for any registry of elements, is restored by reading it,      *)
(* whatever the user has done at the interface before.                     *)
(***************************************************************************)
EXTENDS GuiDriver, FoldProofs, SequenceTheorems

\* What an epoch adds to the next length is what the schedule says of it.
DriverInv ==
  /\ options \in Options
  /\ epochCount \in Nat
  /\ AEPS \in Int
  /\ acceleration = AccelerationIn(epochCount)
  /\ EpochSchedule
-----------------------------------------------------------------------------
(* Words *)

LEMMA Division ==
  ASSUME NEW w \in Nat \ {0}, NEW a \in Int
  PROVE  /\ a % w \in 0..w - 1 /\ a \div w \in Int
         /\ a = w * (a \div w) + (a % w)
  OBVIOUS

LEMMA Remainder ==
  ASSUME NEW w \in Nat \ {0}, NEW q \in Int, NEW r \in 0..w - 1
  PROVE  (w * q + r) % w = r
  OBVIOUS

\* What is added to the low bits of a number might as well be added to it.
LEMMA SumOfLowBits ==
  ASSUME NEW w \in Nat \ {0}, NEW a \in Int, NEW b \in Int
  PROVE  ((a % w) + b) % w = (a + b) % w
  <1> DEFINE q == a \div w
             s == (a % w) + b
             p == s \div w
             r == s % w
  <1>1. q \in Int /\ a % w \in Int /\ a = w * q + (a % w)  BY Division
  <1>2. s \in Int  BY <1>1
  <1>3. p \in Int /\ r \in 0..w - 1 /\ s = w * p + r  BY <1>2, Division
  <1>4. a + b = w * q + s  BY <1>1
  <1>5. a + b = w * (q + p) + r
    <2> DEFINE x == w * q
               y == w * p
               z == w * (q + p)
    <2>1. x \in Int /\ y \in Int /\ z = x + y  BY <1>1, <1>3
    <2>2. a + b = x + s /\ s = y + r /\ r \in Int  BY <1>3, <1>4
    <2> HIDE DEF q, p, r, s, x, y, z
    <2>3. a + b = z + r  BY <2>1, <2>2
    <2>4. QED  BY <2>3 DEF z
  <1>6. (w * (q + p) + r) % w = r
    <2>1. q + p \in Int  BY <1>1, <1>3
    <2> HIDE DEF q, p, r, s
    <2>2. QED  BY <2>1, <1>3, Remainder
  <1>7. QED  BY <1>5, <1>6

LEMMA SumOfS32 ==
  ASSUME NEW a \in Int, NEW b \in Int
  PROVE  S32(S32(a) + b) = S32(a + b)
  <1> DEFINE h == U32 \div 2
             c == a + h
             low == c % U32
  <1>1. U32 \in Nat \ {0}  BY DriverAssumption
  <1>2. h \in Int  BY <1>1
  <1> HIDE DEF h
  <1>3. c \in Int  BY <1>2
  <1>4. S32(a) = low - h  BY DEF S32, h
  <1> HIDE DEF c
  <1>5. low \in Int  BY <1>1, <1>3, Division
  <1>6. (low + b) % U32 = (c + b) % U32  BY <1>1, <1>3, SumOfLowBits
  <1> HIDE DEF low
  <1>7. (low - h) + b + h = low + b  BY <1>2, <1>5
  <1>8. a + b + h = c + b  BY <1>2 DEF c
  <1>9. S32(S32(a) + b) = (((low - h) + b + h) % U32) - h  BY <1>4 DEF S32, h
  <1>10. S32(a + b) = ((a + b + h) % U32) - h  BY DEF S32, h
  <1>11. QED  BY <1>6, <1>7, <1>8, <1>9, <1>10

\* A number's low bits and those of another's s32 have the low bits of the sum.
LEMMA SumOfWords ==
  ASSUME NEW a \in Int, NEW b \in Int
  PROVE  ((a % U32) + S32(b)) % U32 = (a + b) % U32
  <1> DEFINE h == U32 \div 2
             c == b + h
             low == c % U32
             d == low - h
             e == a - h
  <1>1. U32 \in Nat \ {0}  BY DriverAssumption
  <1>2. h \in Int  BY <1>1
  <1> HIDE DEF h
  <1>3. c \in Int /\ e \in Int  BY <1>2
  <1>4. S32(b) = d  BY DEF S32, h
  <1>5. c + e = a + b  BY <1>2
  <1> HIDE DEF c
  <1>6. low \in Int  BY <1>1, <1>3, Division
  <1> HIDE DEF e
  <1>7. (low + e) % U32 = (c + e) % U32  BY <1>1, <1>3, SumOfLowBits
  <1> HIDE DEF low
  <1>8. d \in Int  BY <1>2, <1>6
  <1>9. a + d = low + e  BY <1>2, <1>6 DEF e
  <1> HIDE DEF d
  <1>10. ((a % U32) + d) % U32 = (a + d) % U32  BY <1>1, <1>8, SumOfLowBits
  <1>11. QED  BY <1>4, <1>5, <1>7, <1>9, <1>10
-----------------------------------------------------------------------------
(* The schedule, one epoch further *)

LEMMA OptionTypes ==
  ASSUME options \in Options
  PROVE  options.epoch \in Int /\ options.accelerate \in Nat /\ options.surge \in Nat
  BY DriverAssumption

\* Multiples among one number more.
LEMMA MoreMultiples ==
  ASSUME NEW n \in Nat, NEW k \in Nat
  PROVE  /\ IsFiniteSet(Multiples(n, 0..k - 1))
         /\ IsFiniteSet(Multiples(n, 0..k))
         /\ k \notin Multiples(n, 0..k - 1)
         /\ Multiples(n, 0..k) = Multiples(n, 0..k - 1)
                                   \cup (IF n > 0 /\ k % n = 0 THEN {k} ELSE {})
  <1>1. IsFiniteSet(0..k - 1) /\ IsFiniteSet(0..k)  BY FS_Interval
  <1>2. /\ Multiples(n, 0..k - 1) \in SUBSET (0..k - 1)
        /\ Multiples(n, 0..k) \in SUBSET (0..k)
    BY DEF Multiples
  <1>3. 0..k = (0..k - 1) \cup {k}  OBVIOUS
  <1>4. QED  BY <1>1, <1>2, <1>3, FS_Subset DEF Multiples

LEMMA MultiplesGrow ==
  ASSUME NEW n \in Nat, n > 0, NEW k \in Nat
  PROVE  Cardinality(Multiples(n, 0..k)) =
           IF k % n = 0 THEN Cardinality(Multiples(n, 0..k - 1)) + 1
                        ELSE Cardinality(Multiples(n, 0..k - 1))
  <1> DEFINE A == Multiples(n, 0..k - 1)
             B == Multiples(n, 0..k)
  <1>1. /\ IsFiniteSet(A) /\ k \notin A
        /\ B = A \cup (IF k % n = 0 THEN {k} ELSE {})
    BY MoreMultiples
  <1> HIDE DEF A, B
  <1>2. Cardinality(A \cup {k}) = Cardinality(A) + 1  BY <1>1, FS_AddElement
  <1>3. CASE k % n = 0  BY <1>1, <1>2, <1>3 DEF A, B
  <1>4. CASE k % n # 0
    <2>1. B = A  BY <1>1, <1>4
    <2>2. QED  BY <2>1, <1>4 DEF A, B
  <1>5. QED  BY <1>3, <1>4

LEMMA AccelerationType ==
  ASSUME options \in Options, NEW k \in Nat
  PROVE  AccelerationIn(k) \in Int
  <1>1. Cardinality(Multiples(options.surge, 0..k - 1)) \in Nat
    BY OptionTypes, MoreMultiples, FS_CardinalityType
  <1>2. QED  BY <1>1 DEF AccelerationIn

\* DoEpochEvents' surge.
LEMMA NextAcceleration ==
  ASSUME options \in Options, NEW k \in Nat
  PROVE  AccelerationIn(k + 1) =
           IF options.accelerate > 0 /\ options.surge > 0 /\ k % options.surge = 0
           THEN AccelerationIn(k) + 1 ELSE AccelerationIn(k)
  <1> SUFFICES ASSUME options.surge > 0, options.accelerate > 0
               PROVE  Cardinality(Multiples(options.surge, 0..k)) =
                        IF k % options.surge = 0
                        THEN Cardinality(Multiples(options.surge, 0..k - 1)) + 1
                        ELSE Cardinality(Multiples(options.surge, 0..k - 1))
    <2>1. k + 1 - 1 = k  OBVIOUS
    <2>2. options.surge \in Nat /\ options.accelerate \in Nat  BY OptionTypes
    <2>3. QED  BY <2>1, <2>2 DEF AccelerationIn
  <1>1. QED  BY OptionTypes, MultiplesGrow

\* An epoch's length is of the one before, with the acceleration if it is its turn.
LEMMA NextLength ==
  ASSUME options \in Options, NEW k \in Nat
  PROVE  /\ EpochLength(k - 1) \in Int
         /\ EpochLength(k) = EpochLength(k - 1) +
              IF options.accelerate > 0 /\ k % options.accelerate = 0
              THEN AccelerationIn(k) ELSE 0
  <1> DEFINE n == options.accelerate
             f == Accelerations(k)
             h == Accelerations(k - 1)
             U == 0..k
             V == 0..k - 1
             S == Multiples(n, 0..k)
             Z == Multiples(n, 0..k - 1)
  <1>1. n \in Nat /\ options.epoch \in Int  BY OptionTypes
  <1>2. /\ f \in [U -> Int] /\ f[k] = AccelerationIn(k)
        /\ h \in [V -> Int]
        /\ \A i \in V : f[i] = h[i]
    BY AccelerationType DEF Accelerations
  <1>3. /\ k \in U
        /\ IsFiniteSet(Z) /\ Z \subseteq V /\ Z \subseteq U
        /\ S \subseteq U
    <2>1. IsFiniteSet(Z)  BY <1>1, MoreMultiples
    <2>2. Z \subseteq V /\ S \subseteq U  BY DEF Multiples
    <2>3. V \subseteq U /\ k \in U  OBVIOUS
    <2>4. QED  BY <2>1, <2>2, <2>3
  <1>4. IsFiniteSet(U) /\ IsFiniteSet(V)  BY FS_Interval
  <1>5. S = Z \cup (IF n > 0 /\ k % n = 0 THEN {k} ELSE {}) /\ k \notin Z
    BY <1>1, MoreMultiples
  <1>6. /\ EpochLength(k) = options.epoch + SumFunctionOnSet(f, S)
        /\ EpochLength(k - 1) = options.epoch + SumFunctionOnSet(h, Z)
    BY DEF EpochLength
  <1> HIDE DEF n, f, h, S, Z, U, V
  <1>7. SumFunctionOnSet(f, Z) = SumFunctionOnSet(h, Z)
    <2>1. \A i \in Z : f[i] = h[i]  BY <1>2, <1>3
    <2>2. QED  BY <1>2, <1>3, <1>4, <2>1, SumDepends
  <1>8. SumFunctionOnSet(h, Z) \in Int  BY <1>2, <1>3, <1>4, SumType
  <1>9. CASE n > 0 /\ k % n = 0
    <2>1. k \in S /\ S \ {k} = Z  BY <1>5, <1>9
    <2>2. SumFunctionOnSet(f, S) = f[k] + SumFunctionOnSet(f, Z)
      <3>1. SumFunctionOnSet(f, S) = f[k] + SumFunctionOnSet(f, S \ {k})
        <4>1. TakenFirst(f, S, k)
          <5>1. f \in [U -> Int] /\ IsFiniteSet(U) /\ S \in SUBSET U /\ k \in S
            BY <1>2, <1>3, <1>4, <2>1
          <5>2. QED  BY <5>1, SumTakes
        <4>2. QED  BY <4>1 DEF TakenFirst
      <3>2. QED  BY <2>1, <3>1
    <2>3. f[k] \in Int  BY <1>2, <1>3
    <2>4. QED  BY <1>1, <1>2, <1>6, <1>7, <1>8, <1>9, <2>2, <2>3 DEF n
  <1>10. CASE ~(n > 0 /\ k % n = 0)
    <2>1. S = Z  BY <1>5, <1>10
    <2>2. QED  BY <1>1, <1>6, <1>7, <1>8, <1>10, <2>1 DEF n
  <1>11. QED  BY <1>9, <1>10

LEMMA LengthType ==
  ASSUME options \in Options, NEW k \in Nat
  PROVE  EpochLength(k) \in Int
  BY NextLength, AccelerationType

LEMMA FirstLength ==
  ASSUME options \in Options
  PROVE  EpochLength(-1) = options.epoch /\ Boundary(0) = 0
  <1>1. Multiples(options.accelerate, 0..-1) = {}  BY DEF Multiples
  <1>2. EpochLength(-1) = options.epoch + 0  BY <1>1, SumOfNone DEF EpochLength
  <1>3. DOMAIN [i \in 0..0 - 1 |-> EpochLength(i)] = {}  OBVIOUS
  <1>4. Boundary(0) = 0  BY <1>3, SumOfNone DEF Boundary, SumFunction
  <1>5. QED  BY <1>2, <1>4, OptionTypes

\* An epoch begins when the one before has run its length.
LEMMA NextBoundary ==
  ASSUME options \in Options, NEW k \in Nat
  PROVE  /\ Boundary(k) \in Int
         /\ Boundary(k + 1) = Boundary(k) + EpochLength(k)
  <1> DEFINE f == [i \in 0..k |-> EpochLength(i)]
             h == [i \in 0..k - 1 |-> EpochLength(i)]
  <1>1. /\ f \in [0..k -> Int] /\ f[k] = EpochLength(k)
        /\ h \in [0..k - 1 -> Int]
        /\ \A i \in 0..k - 1 : f[i] = h[i]
    BY LengthType
  <1>2. /\ IsFiniteSet(0..k) /\ IsFiniteSet(0..k - 1)
        /\ k \in 0..k /\ (0..k) \ {k} = 0..k - 1
    BY FS_Interval
  <1>3. /\ Boundary(k + 1) = SumFunctionOnSet(f, 0..k)
        /\ Boundary(k) = SumFunctionOnSet(h, 0..k - 1)
    <2>1. k + 1 - 1 = k  OBVIOUS
    <2>2. QED  BY <2>1 DEF Boundary, SumFunction
  <1> HIDE DEF f, h
  <1>4. SumFunctionOnSet(f, 0..k - 1) = SumFunctionOnSet(h, 0..k - 1)
    BY <1>1, <1>2, SumDepends
  <1>5. SumFunctionOnSet(h, 0..k - 1) \in Int  BY <1>1, <1>2, SumType
  <1>6. SumFunctionOnSet(f, 0..k) = f[k] + SumFunctionOnSet(f, 0..k - 1)
    BY <1>1, <1>2, SumTakes DEF TakenFirst
  <1>7. f[k] \in Int  BY <1>1, <1>2
  <1>8. QED  BY <1>1, <1>3, <1>4, <1>5, <1>6, <1>7
-----------------------------------------------------------------------------
(* The frames *)

LEMMA DriverStarts == DriverInit => DriverInv
  <1> SUFFICES ASSUME DriverInit  PROVE DriverInv
    OBVIOUS
  <1>1. options \in Options  BY DEF DriverInit
  <1>2. acceleration = AccelerationIn(0)
    <2>1. Multiples(options.surge, 0..0 - 1) = {}  BY DEF Multiples
    <2>2. QED  BY <1>1, <2>1, OptionTypes, FS_EmptySet DEF DriverInit, AccelerationIn
  <1>3. EpochSchedule
    <2>1. 0 % U32 = 0  BY DriverAssumption
    <2>2. QED  BY <1>1, <2>1, FirstLength DEF DriverInit, EpochSchedule
  <1>4. QED  BY <1>1, <1>2, <1>3 DEF DriverInit, DriverInv

LEMMA DriverStep == DriverInv /\ [UpdateGrid]_driver => DriverInv'
  <1> SUFFICES ASSUME DriverInv, UpdateGrid  PROVE DriverInv'
    BY DEF driver, epochs, DriverInv, EpochSchedule, AccelerationIn, Boundary,
           EpochLength, Accelerations, Multiples, SumFunction
  <1> DEFINE k == epochCount
  <1>1. options \in Options /\ options' = options /\ k \in Nat /\ AEPS \in Int
    BY DEF DriverInv, UpdateGrid
  <1>2. /\ \A i \in Int : AccelerationIn(i)' = AccelerationIn(i)
        /\ \A i \in Int : EpochLength(i)' = EpochLength(i)
        /\ \A i \in Int : Boundary(i)' = Boundary(i)
    BY <1>1 DEF AccelerationIn, Boundary, EpochLength, Accelerations
  <1>3. AEPS' \in Int /\ AEPS' >= AEPS
    BY <1>1, DriverAssumption DEF UpdateGrid
  <1>4. /\ nextEpochAEPS = Boundary(k) % U32 /\ Boundary(k) \in Int
        /\ AEPSPerEpoch = S32(EpochLength(k - 1)) /\ EpochLength(k - 1) \in Int
        /\ EpochLength(k) \in Int
        /\ acceleration = AccelerationIn(k) /\ AccelerationIn(k) \in Int
        /\ U32 \in Nat \ {0}
    BY <1>1, NextLength, NextBoundary, LengthType, AccelerationType, DriverAssumption
    DEF DriverInv, EpochSchedule
  <1>5. CASE ~EpochDue
    <2>1. UNCHANGED epochs  BY <1>5 DEF UpdateGrid, CheckEpochProcessing
    <2>2. k' = k  BY <2>1 DEF epochs
    <2>3. k > 0 => AEPS' >= Boundary(k - 1) % U32
      <3> SUFFICES ASSUME k > 0  PROVE AEPS' >= Boundary(k - 1) % U32
        OBVIOUS
      <3>1. AEPS >= Boundary(k - 1) % U32  BY DEF DriverInv, EpochSchedule
      <3>2. Boundary(k - 1) % U32 \in Int
        <4>1. k - 1 \in Nat  BY <1>1
        <4>2. QED  BY <1>1, <1>4, <4>1, NextBoundary, Division
      <3>3. QED  BY <1>1, <1>3, <3>1, <3>2
    <2>4. QED  BY <1>1, <1>2, <1>3, <1>4, <2>1, <2>2, <2>3
             DEF DriverInv, EpochSchedule, epochs
  <1>6. CASE EpochDue
    <2>1. /\ k' = k + 1
          /\ nextEpochAEPS' = (nextEpochAEPS + AEPSPerEpoch') % U32
          /\ AEPS' >= nextEpochAEPS
          /\ DoEpochEvents
      BY <1>6 DEF UpdateGrid, CheckEpochProcessing, EpochDue
    <2>2. AEPSPerEpoch' = S32(EpochLength(k))
      <3>1. S32(AEPSPerEpoch + acceleration) = S32(EpochLength(k - 1) + AccelerationIn(k))
        BY <1>4, SumOfS32
      <3>2. EpochLength(k - 1) + 0 = EpochLength(k - 1)  BY <1>4
      <3>3. QED  BY <1>1, <1>4, <2>1, <3>1, <3>2, NextLength, OptionTypes DEF DoEpochEvents, Every
    <2>3. acceleration' = AccelerationIn(k + 1)
      BY <1>1, <1>4, <2>1, NextAcceleration, OptionTypes DEF DoEpochEvents, Every
    <2>4. nextEpochAEPS' = Boundary(k + 1) % U32
      <3>1. Boundary(k + 1) = Boundary(k) + EpochLength(k)  BY <1>1, NextBoundary
      <3>2. ((Boundary(k) % U32) + S32(EpochLength(k))) % U32 = (Boundary(k) + EpochLength(k)) % U32
        BY <1>4, SumOfWords
      <3>3. QED  BY <1>4, <2>1, <2>2, <3>1, <3>2
    <2>5. k' - 1 = k /\ k + 1 \in Nat  BY <1>1, <2>1
    <2>6. QED  BY <1>1, <1>2, <1>3, <1>4, <2>1, <2>2, <2>3, <2>4, <2>5
             DEF DriverInv, EpochSchedule
  <1>7. QED  BY <1>5, <1>6

\* CheckEpochProcessing keeps to the schedule of the command line: no epoch is
\* left out, done twice or done before its time, however long the run.
THEOREM EpochsKeepSchedule == DriverSpec => []EpochSchedule
  <1>1. DriverInv => EpochSchedule  BY DEF DriverInv
  <1>2. QED  BY <1>1, DriverStarts, DriverStep, PTL DEF DriverSpec

-----------------------------------------------------------------------------
(* Reading a file, call by call *)

\* Reading the calls of a file takes r to q.
Goes(at, registry, r, file, q) ==
  /\ at[0] = r /\ at[Len(file)] = q
  /\ \A i \in 1..Len(file) : at[i] = Parse(registry, at[i - 1], file[i])
Reads(registry, r, file, q) == \E at : Goes(at, registry, r, file, q)

\* Read folds over the calls; "at" is how far it has come after each.
CallStep(x, r, call) == Parse(x.registry, r, call)
CallHolds(x, r, m) == r = x.at[m]
Calling == INSTANCE FoldProofs WITH FoldStep <- CallStep, FoldHolds <- CallHolds

LEMMA ReadsAll ==
  ASSUME NEW registry, NEW u, NEW S, NEW file \in Seq(S), NEW q,
         Reads(registry, Reading(Clear(u)), file, q)
  PROVE  Read(registry, u, file) = q
  <1> DEFINE n == Len(file)
             r == Reading(Clear(u))
  <1>1. n \in Nat /\ DOMAIN file = 1..n  BY LenProperties
  <1>2. PICK at : Goes(at, registry, r, file, q)  BY DEF Reads
  <1>3. PICK x : x = [registry |-> registry, at |-> at]  OBVIOUS
  <1>4. Read(registry, u, file) = Calling!Folded(x, r, file)
    BY <1>3 DEF Read, FoldLeft, MapThenFoldSet, Max, Calling!Folded, Calling!FoldLeft,
                Calling!MapThenFoldSet, Calling!Max, CallStep
  <1> HIDE DEF r
  <1>5. CallHolds(x, r, 0)  BY <1>2, <1>3 DEF Goes, CallHolds
  <1>6. Calling!KeepsTo(x, file, n)
    <2> SUFFICES ASSUME NEW m \in Nat, NEW v, m + 1 \in 1..n, CallHolds(x, v, m)
                 PROVE  CallHolds(x, CallStep(x, v, file[m + 1]), m + 1)
      BY DEF Calling!KeepsTo
    <2>1. (m + 1) - 1 = m  OBVIOUS
    <2>2. at[m + 1] = Parse(registry, at[m], file[m + 1])  BY <1>2, <2>1 DEF Goes
    <2>3. QED  BY <1>3, <2>2 DEF CallHolds, CallStep
  <1>7. CallHolds(x, Calling!Folded(x, r, file), n)  BY <1>1, <1>5, <1>6, Calling!FoldKeeps
  <1>8. QED  BY <1>2, <1>3, <1>4, <1>7 DEF CallHolds, Goes

\* Files one after the other.
LEMMA ReadsOn ==
  ASSUME NEW registry, NEW S, NEW f \in Seq(S), NEW g \in Seq(S), NEW p, NEW q, NEW r,
         Reads(registry, p, f, q), Reads(registry, q, g, r)
  PROVE  f \o g \in Seq(S) /\ Reads(registry, p, f \o g, r)
  <1> DEFINE m == Len(f)
             n == Len(g)
             h == f \o g
  <1>1. /\ m \in Nat /\ n \in Nat /\ h \in Seq(S) /\ Len(h) = m + n
        /\ \A i \in 1..(m + n) : h[i] = IF i <= m THEN f[i] ELSE g[i - m]
    BY LenProperties, ConcatProperties
  <1>2. PICK a : Goes(a, registry, p, f, q)  BY DEF Reads
  <1>3. PICK b : Goes(b, registry, q, g, r)  BY DEF Reads
  <1> DEFINE at == [i \in 0..(m + n) |-> IF i <= m THEN a[i] ELSE b[i - m]]
  <1>4. /\ a[0] = p /\ a[m] = q /\ \A i \in 1..m : a[i] = Parse(registry, a[i - 1], f[i])
        /\ b[0] = q /\ b[n] = r /\ \A i \in 1..n : b[i] = Parse(registry, b[i - 1], g[i])
    BY <1>2, <1>3 DEF Goes
  <1> HIDE DEF m, n, h
  <1>5. at[0] = p  BY <1>1, <1>4
  <1>6. at[m + n] = r
    <2>1. CASE n = 0  BY <1>1, <1>4, <2>1
    <2>2. CASE n # 0
      <3>1. m + n \in 0..(m + n) /\ ~ (m + n <= m) /\ (m + n) - m = n  BY <1>1, <2>2
      <3>2. QED  BY <1>4, <3>1
    <2>3. QED  BY <2>1, <2>2
  <1>7. ASSUME NEW i \in 1..(m + n)  PROVE at[i] = Parse(registry, at[i - 1], h[i])
    <2>1. CASE i <= m
      <3>1. i \in 1..m /\ i - 1 <= m /\ i - 1 \in 0..(m + n) /\ i \in 0..(m + n)
        BY <1>1, <2>1
      <3>2. at[i] = a[i] /\ at[i - 1] = a[i - 1] /\ h[i] = f[i]  BY <1>1, <2>1, <3>1
      <3>3. QED  BY <1>4, <3>1, <3>2
    <2>2. CASE ~ (i <= m)
      <3> DEFINE k == i - m
      <3>1. k \in 1..n /\ i \in 0..(m + n) /\ i - 1 \in 0..(m + n) /\ (i - 1) - m = k - 1
        BY <1>1, <2>2
      <3>2. at[i] = b[k] /\ h[i] = g[k]  BY <1>1, <2>2, <3>1
      <3>3. at[i - 1] = b[k - 1]
        <4>1. CASE i - 1 <= m
          <5>1. i - 1 = m /\ k - 1 = 0  BY <1>1, <2>2, <4>1
          <5>2. QED  BY <1>4, <3>1, <4>1, <5>1
        <4>2. CASE ~ (i - 1 <= m)  BY <3>1, <4>2
        <4>3. QED  BY <4>1, <4>2
      <3> HIDE DEF k
      <3>4. QED  BY <1>4, <3>1, <3>2, <3>3
    <2>3. QED  BY <2>1, <2>2
  <1> HIDE DEF at
  <1>8. Goes(at, registry, p, h, r)  BY <1>1, <1>5, <1>6, <1>7 DEF Goes
  <1>9. QED  BY <1>1, <1>8 DEF Reads, h

-----------------------------------------------------------------------------
(* What Write enumerates *)

Rank(points, pt) == Cardinality({p \in points : Before(p, pt)})

\* The points are ranked one by one.
LEMMA RankIsPlace ==
  ASSUME NEW points \in SUBSET (Int \X Int), IsFiniteSet(points)
  PROVE  /\ \A p \in points : Rank(points, p) \in 0..Cardinality(points) - 1
         /\ \A p, q \in points : Rank(points, p) = Rank(points, q) => p = q
  <1> DEFINE Below(p) == {q \in points : Before(q, p)}
  <1>1. ASSUME NEW p \in points  PROVE ~ Before(p, p)
    BY DEF Before
  <1>2. ASSUME NEW p \in points, NEW q \in points, NEW r \in points, Before(p, q), Before(q, r)
        PROVE  Before(p, r)
    <2>1. /\ p[1] \in Int /\ p[2] \in Int /\ q[1] \in Int /\ q[2] \in Int
          /\ r[1] \in Int /\ r[2] \in Int
      OBVIOUS
    <2>2. QED  BY <1>2, <2>1 DEF Before
  <1>3. ASSUME NEW p \in points, NEW q \in points, ~ Before(p, q), ~ Before(q, p)
        PROVE  p = q
    <2>1. p[1] \in Int /\ p[2] \in Int /\ q[1] \in Int /\ q[2] \in Int
      OBVIOUS
    <2>2. p[1] = q[1] /\ p[2] = q[2]  BY <1>3, <2>1 DEF Before
    <2>3. p = <<p[1], p[2]>> /\ q = <<q[1], q[2]>>  OBVIOUS
    <2>4. QED  BY <2>2, <2>3
  <1>4. ASSUME NEW p \in points
        PROVE  /\ IsFiniteSet(Below(p)) /\ Rank(points, p) = Cardinality(Below(p))
               /\ Rank(points, p) \in 0..Cardinality(points) - 1
    <2>1. Below(p) \in SUBSET points /\ p \notin Below(p)  BY <1>1
    <2>2. Cardinality(Below(p)) # Cardinality(points)  BY <2>1, FS_Subset
    <2>3. Rank(points, p) = Cardinality(Below(p))  BY DEF Rank
    <2>4. IsFiniteSet(Below(p)) /\ Cardinality(Below(p)) <= Cardinality(points)
      BY <2>1, FS_Subset
    <2>5. Cardinality(Below(p)) \in Nat /\ Cardinality(points) \in Nat
      BY <2>4, FS_CardinalityType
    <2> HIDE DEF Below
    <2>6. QED  BY <2>2, <2>3, <2>4, <2>5
  <1>5. ASSUME NEW p \in points, NEW q \in points, Before(p, q)
        PROVE  Rank(points, p) # Rank(points, q)
    <2>1. Below(p) \in SUBSET Below(q)  BY <1>2, <1>5
    <2>2. p \in Below(q) /\ p \notin Below(p)  BY <1>1, <1>5
    <2>3. QED  BY <1>4, <2>1, <2>2, FS_Subset
  <1>6. QED  BY <1>3, <1>4, <1>5

\* Each point is one of the rows'.
LEMMA RowsEnumerate ==
  ASSUME NEW points \in SUBSET (Int \X Int), IsFiniteSet(points)
  PROVE  /\ Cardinality(points) \in Nat
         /\ Rows(points) \in Seq(points) /\ DOMAIN Rows(points) = 1..Cardinality(points)
         /\ Len(Rows(points)) = Cardinality(points)
         /\ \A p \in points : \E i \in 1..Cardinality(points) : Rows(points)[i] = p
  <1> DEFINE n == Cardinality(points)
             P == 0..n - 1
             f == [p \in points |-> Rank(points, p)]
  <1>1. n \in Nat  BY FS_CardinalityType
  <1>2. IsFiniteSet(P) /\ Cardinality(P) = n
    <2>1. IsFiniteSet(P) /\ Cardinality(P) = IF 0 > n - 1 THEN 0 ELSE (n - 1) - 0 + 1
      BY <1>1, FS_Interval
    <2> HIDE DEF n
    <2>2. (IF 0 > n - 1 THEN 0 ELSE (n - 1) - 0 + 1) = n  BY <1>1
    <2>3. QED  BY <2>1, <2>2
  <1>3. f \in Injection(points, P)  BY RankIsPlace DEF Injection, IsInjective
  <1>4. f \in Surjection(points, P)  BY <1>2, <1>3, FS_Injection
  <1>5. \A m \in P : \E p \in points : Rank(points, p) = m  BY <1>4 DEF Surjection
  <1> DEFINE At(i) == CHOOSE pt \in points : Rank(points, pt) = i - 1
  <1>6. Rows(points) = [i \in 1..n |-> At(i)]  BY DEF Rows, Rank
  <1> HIDE DEF n
  <1>7. \A i \in 1..n : At(i) \in points /\ Rank(points, At(i)) = i - 1
    <2> TAKE i \in 1..n
    <2>1. i - 1 \in P  BY <1>1
    <2>2. \E p \in points : Rank(points, p) = i - 1  BY <1>5, <2>1
    <2>3. QED  BY <2>2
  <1>8. ASSUME NEW p \in points  PROVE \E i \in 1..n : Rows(points)[i] = p
    <2> DEFINE i == Rank(points, p) + 1
    <2>1. Rank(points, p) \in 0..n - 1  BY RankIsPlace DEF n
    <2>2. i \in 1..n /\ i - 1 = Rank(points, p)  BY <1>1, <2>1
    <2> HIDE DEF i
    <2>3. At(i) = p  BY <1>7, <2>2, RankIsPlace
    <2>4. QED  BY <1>6, <2>2, <2>3
  <1> HIDE DEF At
  <1>9. Rows(points) \in [1..n -> points]  BY <1>6, <1>7
  <1>10. Rows(points) \in Seq(points) /\ Len(Rows(points)) = n
    BY <1>1, <1>6, <1>9, LenProperties, SeqDef
  <1>11. QED  BY <1>1, <1>6, <1>8, <1>10 DEF n

-----------------------------------------------------------------------------
(* What reading has restored so far *)

Holds(r, names, grid, param, disabled) ==
  /\ r = [u |-> r.u, registered |-> names, result |-> "reading"]
  /\ {"grid", "param", "disabledTiles"} \subseteq DOMAIN r.u
  /\ r.u.grid = grid /\ r.u.param = param /\ r.u.disabledTiles = disabled

\* The first k elements of the registry are registered, each by its number, or restored.
Names(registry, k) == [i \in 1..k |-> [uuid |-> registry[i].uuid, nick |-> i]]
Params(registry, fresh, u, k) ==
  [e \in DOMAIN u.param |->
     IF \E i \in 1..k : registry[i].uuid = e THEN u.param[e] ELSE fresh.param[e]]

LEMMA RegistryIs ==
  ASSUME NEW registry, NEW fresh, NEW u, StatesOf(registry, fresh, u)
  PROVE  /\ Len(registry) \in Nat /\ DOMAIN registry = 1..Len(registry)
         /\ \A j, k \in 1..Len(registry) : registry[j].uuid = registry[k].uuid => j = k
  BY LenProperties DEF StatesOf

LEMMA Registers ==
  ASSUME NEW registry, NEW fresh, NEW u, StatesOf(registry, fresh, u), Savable(registry, u),
         NEW k \in 1..Len(registry), NEW r, NEW g, NEW p, NEW d,
         Holds(r, Names(registry, k - 1), g, p, d)
  PROVE  Holds(Parse(registry, r, RegisterElementCall(registry[k].uuid, k)),
               Names(registry, k), g, p, d)
  <1> DEFINE uuid == registry[k].uuid
             c == RegisterElementCall(uuid, k)
             names == Names(registry, k - 1)
             S == {[uuid |-> registry[i].uuid, nick |-> i] : i \in 1..k}
             e == [uuid |-> uuid, nick |-> k]
  <1>1. /\ Len(registry) \in Nat /\ DOMAIN registry = 1..Len(registry)
        /\ \A i, j \in 1..Len(registry) : registry[i].uuid = registry[j].uuid => i = j
    BY RegistryIs
  <1>2. Lookup(registry, uuid) = {k}
    <2>1. Loaded(registry) = 1..Len(registry)  BY <1>1 DEF Savable, CannotWrite
    <2>2. {i \in Loaded(registry) : registry[i].uuid = uuid} = {k}  BY <1>1, <2>1
    <2>3. QED  BY <2>2 DEF Lookup
  <1>3. Min({k}) = k  BY <1>1 DEF Min
  <1>4. /\ names \in Seq(S) /\ Len(names) = k - 1
        /\ \A i \in 1..k - 1 : names[i] = [uuid |-> registry[i].uuid, nick |-> i]
    <2>1. k - 1 \in Nat /\ \A i \in 1..k - 1 : i \in 1..k  BY <1>1
    <2>2. names \in [1..k - 1 -> S]  BY <2>1 DEF Names
    <2>3. names \in Seq(S)  BY <2>1, <2>2, SeqDef
    <2>4. Len(names) = k - 1  BY <2>1, <2>2, <2>3, LenProperties
    <2>5. QED  BY <2>3, <2>4 DEF Names
  <1>5. r.registered = names /\ r.result = "reading" /\ r.u.grid = g /\ r.u.param = p
        /\ r.u.disabledTiles = d
    BY DEF Holds
  <1>6. ~ \E i \in DOMAIN r.registered :
            r.registered[i].uuid = uuid \/ r.registered[i].nick = k
    <2>1. DOMAIN names = 1..k - 1  BY DEF Names
    <2>2. \A i \in 1..k - 1 : i \in 1..Len(registry) /\ i # k  BY <1>1
    <2>3. \A i \in 1..k - 1 : registry[i].uuid # uuid  BY <1>1, <2>2
    <2>4. \A i \in 1..k - 1 : names[i].uuid # uuid /\ names[i].nick # k
      <3> TAKE i \in 1..k - 1
      <3>1. names[i] = [uuid |-> registry[i].uuid, nick |-> i]  BY <1>4
      <3>2. names[i].uuid = registry[i].uuid /\ names[i].nick = i  BY <3>1
      <3> HIDE DEF names, uuid
      <3>3. QED  BY <2>2, <2>3, <3>2
    <2>5. QED  BY <1>5, <2>1, <2>4
  <1>7. ~ (Len(r.registered) >= MAX_REGISTERED_ELEMENTS)
    <2>1. Len(registry) <= MAX_REGISTERED_ELEMENTS  BY DEF Savable
    <2>2. QED  BY <1>1, <1>4, <1>5, <2>1, FilesHoldElements
  <1>8. c.call = "RegisterElement" /\ c.uuid = uuid /\ c.nick = k  BY DEF RegisterElementCall
  <1>9. RegisterElement(registry, r, c) =
          [r EXCEPT !.registered = Append(@, [uuid |-> uuid, nick |-> k])]
    BY <1>2, <1>3, <1>6, <1>7, <1>8 DEF RegisterElement
  <1>10. Append(names, e) = Names(registry, k)
    <2>1. e \in S /\ k \in Nat  BY <1>1
    <2> HIDE DEF e, S
    <2>2. /\ Append(names, e) \in Seq(S) /\ Len(Append(names, e)) = k
          /\ \A i \in 1..k : Append(names, e)[i] = IF i = k THEN e ELSE names[i]
      BY <1>4, <2>1, AppendProperties
    <2>3. Names(registry, k) \in Seq(S) /\ Len(Names(registry, k)) = k
      <3>1. Names(registry, k) \in [1..k -> S]  BY DEF Names, S
      <3>2. Names(registry, k) \in Seq(S)  BY <2>1, <3>1, SeqDef
      <3>3. QED  BY <2>1, <3>1, <3>2, LenProperties
    <2>4. \A i \in 1..k : Append(names, e)[i] = Names(registry, k)[i]
      <3> TAKE i \in 1..k
      <3>1. CASE i = k  BY <2>2, <3>1 DEF Names, e
      <3>2. CASE i # k
        <4>1. i \in 1..k - 1  BY <2>1, <3>2
        <4>2. QED  BY <1>4, <2>2, <3>2, <4>1 DEF Names
      <3>3. QED  BY <3>1, <3>2
    <2>5. QED  BY <2>2, <2>3, <2>4, SeqEqual
  <1>11. Parse(registry, r, c) = [r EXCEPT !.registered = Names(registry, k)]
    BY <1>5, <1>8, <1>9, <1>10 DEF Parse
  <1>12. [r EXCEPT !.registered = Names(registry, k)]
           = [u |-> r.u, registered |-> Names(registry, k), result |-> "reading"]
    BY DEF Holds
  <1> HIDE DEF c, names
  <1>13. Holds(Parse(registry, r, c), Names(registry, k), g, p, d)
    BY <1>11, <1>12 DEF Holds
  <1>14. QED  BY <1>13 DEF c

LEMMA NamesAreUsed ==
  ASSUME NEW registry, NEW fresh, NEW u, StatesOf(registry, fresh, u),
         NEW m \in 1..Len(registry), NEW k \in 1..m, NEW r, NEW g, NEW p, NEW d,
         Holds(r, Names(registry, m), g, p, d)
  PROVE  Named(r, k) = {registry[k].uuid} /\ LookupElement(r, k) = registry[k].uuid
  <1>1. r.registered = Names(registry, m) /\ DOMAIN Names(registry, m) = 1..m
    BY DEF Holds, Names
  <1>2. {j \in DOMAIN r.registered : r.registered[j].nick = k} = {k}
    BY <1>1 DEF Names
  <1>3. r.registered[k].uuid = registry[k].uuid  BY <1>1 DEF Names
  <1>4. Named(r, k) = {registry[k].uuid}  BY <1>2, <1>3 DEF Named
  <1>5. QED  BY <1>4 DEF LookupElement

LEMMA ParametersAreSet ==
  ASSUME NEW registry, NEW fresh, NEW u, StatesOf(registry, fresh, u),
         NEW k \in 1..Len(registry), NEW r, NEW g, NEW d, registry[k].uuid \in DOMAIN u.param,
         Holds(r, Names(registry, k), g, Params(registry, fresh, u, k - 1), d)
  PROVE  Holds(Parse(registry, r, SetElementParameterCall(k, u.param[registry[k].uuid])),
               Names(registry, k), g, Params(registry, fresh, u, k), d)
  <1> DEFINE uuid == registry[k].uuid
             c == SetElementParameterCall(k, u.param[uuid])
             before == Params(registry, fresh, u, k - 1)
             q == [r EXCEPT !.u.param[uuid] = u.param[uuid]]
  <1>1. Named(r, k) = {uuid} /\ LookupElement(r, k) = uuid
    <2>1. k \in 1..k  BY RegistryIs
    <2>2. QED  BY <2>1, NamesAreUsed
  <1>2. c.call = "SetElementParameter" /\ c.nick = k /\ c.value = u.param[uuid]
    BY DEF SetElementParameterCall
  <1>3. r.result = "reading" /\ r.u.param = before /\ DOMAIN before = DOMAIN u.param
    BY DEF Holds, Params
  <1>4. Parse(registry, r, c) = q
    <2>1. Named(r, c.nick) \cap DOMAIN r.u.param # {}  BY <1>1, <1>2, <1>3
    <2>2. SetElementParameter(r, c) = q  BY <1>1, <1>2, <2>1 DEF SetElementParameter
    <2>3. QED  BY <1>2, <1>3, <2>2 DEF Parse
  <1>5. [before EXCEPT ![uuid] = u.param[uuid]] = Params(registry, fresh, u, k)
    <2>1. \A i \in 1..k : i = k \/ i \in 1..k - 1  BY RegistryIs
    <2>2. \A i \in 1..k - 1 : i \in 1..k  BY RegistryIs
    <2>3. k \in 1..k  BY RegistryIs
    <2>4. \A e \in DOMAIN u.param :
            (\E i \in 1..k : registry[i].uuid = e)
              <=> (e = uuid \/ \E i \in 1..k - 1 : registry[i].uuid = e)
      BY <2>1, <2>2, <2>3
    <2>5. QED  BY <2>4 DEF Params
  <1>6. /\ q = [u |-> [r.u EXCEPT !.param = [before EXCEPT ![uuid] = u.param[uuid]]],
                registered |-> Names(registry, k), result |-> "reading"]
    BY <1>3 DEF Holds
  <1> DEFINE v == [r.u EXCEPT !.param = Params(registry, fresh, u, k)]
  <1>7. q = [u |-> v, registered |-> Names(registry, k), result |-> "reading"]
    BY <1>5, <1>6
  <1>8. /\ DOMAIN v = DOMAIN r.u /\ v.param = Params(registry, fresh, u, k)
        /\ v.grid = r.u.grid /\ v.disabledTiles = r.u.disabledTiles
    BY DEF Holds
  <1> HIDE DEF c, q, v
  <1>9. Holds(q, Names(registry, k), g, Params(registry, fresh, u, k), d)
    BY <1>7, <1>8 DEF Holds
  <1>10. QED  BY <1>4, <1>9 DEF c

\* Reading a call GA puts the atom back.
LEMMA AtomsArePut ==
  ASSUME NEW registry, NEW fresh, NEW u, StatesOf(registry, fresh, u), Savable(registry, u),
         NEW pt \in DOMAIN u.grid, u.grid[pt].type # Empty,
         NEW r, NEW g, NEW p, NEW d, g = [q \in DOMAIN u.grid |-> g[q]],
         Holds(r, Names(registry, Len(registry)), g, p, d)
  PROVE  Holds(Parse(registry, r,
                     GACall(NickOf(registry, u.grid[pt].type), pt, u.grid[pt].bits)),
               Names(registry, Len(registry)), [g EXCEPT ![pt] = u.grid[pt]], p, d)
  <1> DEFINE n == Len(registry)
             type == u.grid[pt].type
             k == NickOf(registry, type)
             c == GACall(k, pt, u.grid[pt].bits)
             h == [g EXCEPT ![pt] = u.grid[pt]]
  <1>1. /\ n \in Nat /\ DOMAIN registry = 1..n
        /\ \A i, j \in 1..n : registry[i].uuid = registry[j].uuid => i = j
    BY RegistryIs
  <1>2. PICK i \in 1..n : registry[i].uuid = type  BY <1>1 DEF Savable
  <1>3. k = i
    <2>1. {j \in DOMAIN registry : registry[j].uuid = type} = {i}  BY <1>1, <1>2
    <2>2. Min({i}) = i  BY <1>1 DEF Min
    <2>3. QED  BY <2>1, <2>2 DEF NickOf
  <1>4. Named(r, k) = {type} /\ LookupElement(r, k) = type
    <2>1. n \in 1..n  BY <1>1, <1>2
    <2>2. QED  BY <1>2, <1>3, <2>1, NamesAreUsed
  <1>5. c.call = "GA" /\ c.nick = k /\ c.at = pt /\ c.bits = u.grid[pt].bits  BY DEF GACall
  <1>6. r.result = "reading" /\ r.u.grid = g /\ DOMAIN g = DOMAIN u.grid  BY DEF Holds
  <1> DEFINE placed == PlaceAtom(r.u, GetDefaultAtom(type), pt)
             v == [placed EXCEPT !.grid[pt].bits = u.grid[pt].bits]
  <1> HIDE DEF n, k, c
  <1>7. Parse(registry, r, c) = [r EXCEPT !.u = v]
    <2>1. GA(r, c) = [r EXCEPT !.u = v]  BY <1>4, <1>5, <1>6 DEF GA
    <2>2. QED  BY <1>5, <1>6, <2>1 DEF Parse
  <1>8. /\ DOMAIN v = DOMAIN r.u /\ v.grid = h
        /\ v.param = r.u.param /\ v.disabledTiles = r.u.disabledTiles
    <2>1. /\ DOMAIN placed = DOMAIN r.u
          /\ placed.grid = [g EXCEPT ![pt] = GetDefaultAtom(type)]
          /\ placed.param = r.u.param /\ placed.disabledTiles = r.u.disabledTiles
      BY <1>6 DEF PlaceAtom, Holds
    <2> DEFINE set == [placed.grid EXCEPT ![pt].bits = u.grid[pt].bits]
    <2> HIDE DEF placed
    <2>2. /\ DOMAIN v = DOMAIN r.u /\ v.grid = set
          /\ v.param = r.u.param /\ v.disabledTiles = r.u.disabledTiles
      BY <2>1 DEF Holds
    <2>3. u.grid[pt] = [type |-> type, bits |-> u.grid[pt].bits]  BY DEF StatesOf
    <2>4. [GetDefaultAtom(type) EXCEPT !.bits = u.grid[pt].bits] = u.grid[pt]
      BY <2>3 DEF GetDefaultAtom
    <2>5. set = h
      <3>1. placed.grid[pt] = GetDefaultAtom(type)  BY <1>6, <2>1
      <3>2. set = [placed.grid EXCEPT ![pt] = [placed.grid[pt] EXCEPT !.bits = u.grid[pt].bits]]
        OBVIOUS
      <3>3. set = [placed.grid EXCEPT ![pt] = u.grid[pt]]  BY <2>4, <3>1, <3>2
      <3> HIDE DEF set
      <3>4. QED  BY <1>6, <2>1, <3>3
    <2>6. QED  BY <2>2, <2>5
  <1>9. [r EXCEPT !.u = v]
          = [u |-> v, registered |-> Names(registry, n), result |-> "reading"]
    BY DEF Holds, n
  <1> HIDE DEF v
  <1>10. Holds([r EXCEPT !.u = v], Names(registry, n), h, p, d)
    BY <1>8, <1>9 DEF Holds
  <1>11. QED  BY <1>7, <1>10 DEF n, k, c

\* Reading a call DisableTile halts the tile.
LEMMA TilesAreHalted ==
  ASSUME NEW registry, NEW g, NEW t \in TilesOf(g),
         NEW r, NEW names, NEW p, NEW d, Holds(r, names, g, p, d)
  PROVE  Holds(Parse(registry, r, DisableTileCall(t)), names, g, p, d \cup {t})
  <1> DEFINE c == DisableTileCall(t)
             v == [r.u EXCEPT !.disabledTiles = d \cup {t}]
  <1>1. c.call = "DisableTile" /\ c.tile = t  BY DEF DisableTileCall
  <1>2. r.result = "reading" /\ r.u.grid = g /\ r.u.disabledTiles = d  BY DEF Holds
  <1>3. {t} \cap TilesOf(r.u.grid) = {t}  BY <1>2
  <1>4. Parse(registry, r, c) = [r EXCEPT !.u.disabledTiles = @ \cup {t}]
    BY <1>1, <1>2, <1>3 DEF Parse, DisableTile
  <1>5. Parse(registry, r, c) = [u |-> v, registered |-> names, result |-> "reading"]
    BY <1>2, <1>4 DEF Holds
  <1>6. /\ DOMAIN v = DOMAIN r.u /\ v.disabledTiles = d \cup {t}
        /\ v.grid = r.u.grid /\ v.param = r.u.param
    BY DEF Holds
  <1> HIDE DEF c, v
  <1>7. Holds(Parse(registry, r, c), names, g, p, d \cup {t})  BY <1>5, <1>6 DEF Holds
  <1>8. QED  BY <1>7 DEF c

-----------------------------------------------------------------------------
(* What is written is read *)

OfElement(registry, u, k) ==
  <<RegisterElementCall(registry[k].uuid, k)>>
  \o (IF registry[k].uuid \in DOMAIN u.param
      THEN <<SetElementParameterCall(k, u.param[registry[k].uuid])>> ELSE <<>>)
Elements(registry, u) == [k \in DOMAIN registry |-> OfElement(registry, u, k)]
Filled(u) == Rows({pt \in DOMAIN u.grid : u.grid[pt].type # Empty})
OfAtom(registry, u, pt) == GACall(NickOf(registry, u.grid[pt].type), pt, u.grid[pt].bits)
OfAtoms(registry, u) == [i \in DOMAIN Filled(u) |-> OfAtom(registry, u, Filled(u)[i])]
OfTiles(u) == [i \in DOMAIN Rows(u.disabledTiles) |-> DisableTileCall(Rows(u.disabledTiles)[i])]

Calls(registry, u) ==
  {RegisterElementCall(registry[k].uuid, k) : k \in DOMAIN registry}
  \cup {SetElementParameterCall(k, u.param[registry[k].uuid]) : k \in DOMAIN registry}
  \cup {OfAtom(registry, u, pt) : pt \in DOMAIN u.grid}
  \cup {DisableTileCall(t) : t \in TilesOf(u.grid)}

LEMMA WriteIs ==
  ASSUME NEW registry, NEW u
  PROVE  Write(registry, u) = FlattenSeq(Elements(registry, u)) \o OfAtoms(registry, u) \o OfTiles(u)
  BY DEF Write, Elements, OfElement, OfAtoms, OfAtom, Filled, OfTiles

LEMMA ReadsOne ==
  ASSUME NEW registry, NEW S, NEW c \in S, NEW r
  PROVE  <<c>> \in Seq(S) /\ Reads(registry, r, <<c>>, Parse(registry, r, c))
  <1> DEFINE at == [i \in 0..1 |-> IF i = 0 THEN r ELSE Parse(registry, r, c)]
  <1>1. <<c>> \in Seq(S) /\ Len(<<c>>) = 1 /\ <<c>>[1] = c  OBVIOUS
  <1>2. \A i \in 1..1 : i = 1  OBVIOUS
  <1>3. at[0] = r /\ at[1] = Parse(registry, r, c)  OBVIOUS
  <1> HIDE DEF at
  <1>4. Goes(at, registry, r, <<c>>, Parse(registry, r, c))  BY <1>1, <1>2, <1>3 DEF Goes
  <1>5. QED  BY <1>1, <1>4 DEF Reads

LEMMA ReadsNone ==
  ASSUME NEW registry, NEW file, Len(file) = 0, NEW r
  PROVE  Reads(registry, r, file, r)
  <1>1. Goes([i \in {0} |-> r], registry, r, file, r)  BY DEF Goes
  <1>2. QED  BY <1>1 DEF Reads

\* Any file takes what is read somewhere.
LEMMA ReadsSomewhere ==
  ASSUME NEW registry, NEW S, NEW file \in Seq(S), NEW r
  PROVE  \E at : Goes(at, registry, r, file, at[Len(file)])
  <1> DEFINE n == Len(file)
  <1>1. n \in Nat  BY LenProperties
  <1>2. PICK x : x = [registry |-> registry, at |-> <<>>]  OBVIOUS
  <1>3. PICK g : Calling!Solves(g, x, r, file, SUBSET (1..n))  BY <1>1, Calling!FoldIsThere
  <1>4. Calling!InOrder(g, x, r, file, n)  BY <1>1, <1>3, Calling!FoldTakesAll
  <1> DEFINE at == [i \in 0..n |-> g[1..i]]
  <1> HIDE DEF n
  <1>5. at[0] = r  BY <1>1, <1>4 DEF Calling!InOrder
  <1>6. ASSUME NEW i \in 1..n  PROVE at[i] = Parse(registry, at[i - 1], file[i])
    <2>1. PICK m \in Nat : m = i - 1 /\ i = m + 1 /\ m \in 0..n /\ i \in 0..n  BY <1>1
    <2>2. g[1..i] = Parse(registry, g[1..m], file[i])
      BY <1>2, <1>4, <2>1 DEF Calling!InOrder, CallStep
    <2>3. QED  BY <2>1, <2>2
  <1>7. QED  BY <1>5, <1>6 DEF Goes, n

LEMMA ElementIsRead ==
  ASSUME NEW registry, NEW fresh, NEW u, StatesOf(registry, fresh, u), Savable(registry, u),
         NEW k \in 1..Len(registry), NEW r, NEW g, NEW d,
         Holds(r, Names(registry, k - 1), g, Params(registry, fresh, u, k - 1), d)
  PROVE  /\ OfElement(registry, u, k) \in Seq(Calls(registry, u))
         /\ \E q : /\ Reads(registry, r, OfElement(registry, u, k), q)
                   /\ Holds(q, Names(registry, k), g, Params(registry, fresh, u, k), d)
  <1> DEFINE uuid == registry[k].uuid
             c == RegisterElementCall(uuid, k)
             e == SetElementParameterCall(k, u.param[uuid])
             p == Parse(registry, r, c)
             S == Calls(registry, u)
  <1>1. k \in DOMAIN registry  BY RegistryIs
  <1>2. c \in S /\ e \in S  BY <1>1 DEF Calls
  <1>3. Holds(p, Names(registry, k), g, Params(registry, fresh, u, k - 1), d)  BY Registers
  <1> HIDE DEF S
  <1>4. <<c>> \in Seq(S) /\ Reads(registry, r, <<c>>, p)  BY <1>2, ReadsOne
  <1>5. CASE uuid \in DOMAIN u.param
    <2> DEFINE q == Parse(registry, p, e)
    <2>1. Holds(q, Names(registry, k), g, Params(registry, fresh, u, k), d)
      BY <1>3, <1>5, ParametersAreSet
    <2>2. OfElement(registry, u, k) = <<c>> \o <<e>>  BY <1>5 DEF OfElement
    <2> HIDE DEF c, e, p
    <2>3. <<e>> \in Seq(S) /\ Reads(registry, p, <<e>>, q)  BY <1>2, ReadsOne
    <2> HIDE DEF q
    <2>4. <<c>> \o <<e>> \in Seq(S) /\ Reads(registry, r, <<c>> \o <<e>>, q)
      BY <1>4, <2>3, ReadsOn
    <2>5. QED  BY <2>1, <2>2, <2>4 DEF S
  <1>6. CASE uuid \notin DOMAIN u.param
    <2>1. OfElement(registry, u, k) = <<c>>
      <3>1. OfElement(registry, u, k) = <<c>> \o <<>>  BY <1>6 DEF OfElement
      <3> HIDE DEF c
      <3>2. QED  BY <1>4, <3>1, ConcatEmptySeq
    <2>2. Params(registry, fresh, u, k) = Params(registry, fresh, u, k - 1)
      <3>1. \A i \in 1..k : i = k \/ i \in 1..k - 1  BY RegistryIs
      <3>2. \A i \in 1..k - 1 : i \in 1..k  BY RegistryIs
      <3>3. \A a \in DOMAIN u.param :
              (\E i \in 1..k : registry[i].uuid = a) <=> (\E i \in 1..k - 1 : registry[i].uuid = a)
        BY <1>6, <3>1, <3>2
      <3>4. QED  BY <3>3 DEF Params
    <2> HIDE DEF c, p
    <2>3. QED  BY <1>3, <1>4, <2>1, <2>2 DEF S
  <1>7. QED  BY <1>5, <1>6

LEMMA ElementsAreRead ==
  ASSUME NEW registry, NEW fresh, NEW u, StatesOf(registry, fresh, u), Savable(registry, u),
         NEW r, NEW g, NEW d,
         Holds(r, Names(registry, 0), g, Params(registry, fresh, u, 0), d)
  PROVE  /\ FlattenSeq(Elements(registry, u)) \in Seq(Calls(registry, u))
         /\ \E q : /\ Reads(registry, r, FlattenSeq(Elements(registry, u)), q)
                   /\ Holds(q, Names(registry, Len(registry)), g,
                            Params(registry, fresh, u, Len(registry)), d)
  <1> DEFINE n == Len(registry)
             S == Calls(registry, u)
             seqs == Elements(registry, u)
             Reached(file, k) ==
               /\ file \in Seq(S)
               /\ \E q : /\ Reads(registry, r, file, q)
                         /\ Holds(q, Names(registry, k), g, Params(registry, fresh, u, k), d)
  <1>1. n \in Nat /\ DOMAIN registry = 1..n  BY RegistryIs
  <1>2. /\ DOMAIN seqs = 1..n
        /\ \A k \in 1..n : seqs[k] = OfElement(registry, u, k)
    BY <1>1 DEF Elements
  <1>3. Len(seqs) = n
    <2> DEFINE X == {OfElement(registry, u, k) : k \in 1..n}
    <2>1. seqs \in [1..n -> X]  BY <1>1 DEF Elements
    <2> HIDE DEF n, X, seqs
    <2>2. seqs \in Seq(X)  BY <1>1, <2>1, SeqDef
    <2>3. DOMAIN seqs = 1..n /\ DOMAIN seqs = 1..Len(seqs) /\ Len(seqs) \in Nat
      BY <2>1, <2>2, LenProperties
    <2>4. QED  BY <1>1, <2>3
  <1>4. CASE n = 0
    <2>1. 1..n = {}  BY <1>4
    <2>2. seqs \in [1..0 -> S]  BY <1>1, <1>4, <2>1 DEF Elements
    <2>3. FlattenSeq(seqs) = seqs  BY <1>3, <1>4 DEF FlattenSeq
    <2>4. seqs \in Seq(S)  BY <2>2, SeqDef
    <2>5. Reads(registry, r, seqs, r)  BY <1>3, <1>4, ReadsNone
    <2>6. QED  BY <1>4, <2>3, <2>4, <2>5
  <1>5. CASE n # 0
    <2>1. PICK f : Flattens(f, seqs, n) /\ FlattenSeq(seqs) = f[n]
      BY <1>1, <1>3, <1>5, FlattenIs
    <2> HIDE DEF seqs
    <2> DEFINE T == {m \in Nat : m + 1 \in 1..n => Reached(f[m + 1], m + 1)}
    <2>2. 0 \in T
      <3>1. 1 \in 1..n  BY <1>1, <1>5
      <3>2. f[1] = OfElement(registry, u, 1)  BY <1>2, <2>1, <3>1 DEF Flattens
      <3>3. Reached(OfElement(registry, u, 1), 1)
        <4>1. 1 - 1 = 0  OBVIOUS
        <4>2. QED  BY <3>1, <4>1, ElementIsRead
      <3>4. QED  BY <3>2, <3>3
    <2>3. ASSUME NEW m \in T  PROVE m + 1 \in T
      <3> DEFINE k == (m + 1) + 1
      <3> SUFFICES ASSUME k \in 1..n  PROVE Reached(f[k], k)
        OBVIOUS
      <3>1. m + 1 \in 1..n /\ k - 1 = m + 1 /\ k # 1  BY <1>1
      <3>2. Reached(f[k - 1], k - 1)  BY <3>1
      <3> HIDE DEF k
      <3>3. f[k] = f[k - 1] \o OfElement(registry, u, k)
        BY <1>2, <2>1, <3>1 DEF Flattens
      <3>4. PICK p : /\ Reads(registry, r, f[k - 1], p)
                     /\ Holds(p, Names(registry, k - 1), g, Params(registry, fresh, u, k - 1), d)
        BY <3>2
      <3>5. /\ OfElement(registry, u, k) \in Seq(S)
            /\ \E q : /\ Reads(registry, p, OfElement(registry, u, k), q)
                      /\ Holds(q, Names(registry, k), g, Params(registry, fresh, u, k), d)
        BY <3>4, ElementIsRead
      <3>6. PICK q : /\ Reads(registry, p, OfElement(registry, u, k), q)
                     /\ Holds(q, Names(registry, k), g, Params(registry, fresh, u, k), d)
        BY <3>5
      <3> HIDE DEF S
      <3>7. f[k - 1] \in Seq(S)  BY <3>2
      <3>8. /\ f[k - 1] \o OfElement(registry, u, k) \in Seq(S)
            /\ Reads(registry, r, f[k - 1] \o OfElement(registry, u, k), q)
        BY <3>4, <3>5, <3>6, <3>7, ReadsOn
      <3>9. QED  BY <3>3, <3>6, <3>8
    <2>4. T = Nat
      <3>1. T \in SUBSET Nat  OBVIOUS
      <3> HIDE DEF T
      <3>2. QED  BY <2>2, <2>3, <3>1, Induction
    <2>5. Reached(f[n], n)
      <3>1. n - 1 \in Nat /\ (n - 1) + 1 = n /\ n \in 1..n  BY <1>1, <1>5
      <3>2. n - 1 \in T  BY <2>4, <3>1
      <3> HIDE DEF n, Reached
      <3>3. QED  BY <3>1, <3>2
    <2>6. QED  BY <2>1, <2>5 DEF seqs
  <1>6. QED  BY <1>4, <1>5

Restored(u, i) ==
  [pt \in DOMAIN u.grid |->
     IF \E j \in 1..i : Filled(u)[j] = pt THEN u.grid[pt] ELSE GetDefaultAtom(Empty)]

LEMMA AtomsAreRead ==
  ASSUME NEW registry, NEW fresh, NEW u, StatesOf(registry, fresh, u), Savable(registry, u),
         NEW r, NEW p, NEW d,
         Holds(r, Names(registry, Len(registry)), Restored(u, 0), p, d)
  PROVE  /\ OfAtoms(registry, u) \in Seq(Calls(registry, u))
         /\ \E q : /\ Reads(registry, r, OfAtoms(registry, u), q)
                   /\ Holds(q, Names(registry, Len(registry)), Saved(u.grid), p, d)
  <1> DEFINE points == {pt \in DOMAIN u.grid : u.grid[pt].type # Empty}
             n == Cardinality(points)
             S == Calls(registry, u)
             file == OfAtoms(registry, u)
             names == Names(registry, Len(registry))
  <1>1. points \in SUBSET (Int \X Int) /\ IsFiniteSet(points)
    <2>1. points \in SUBSET DOMAIN u.grid  OBVIOUS
    <2>2. QED  BY <2>1, FS_Subset DEF StatesOf
  <1>2. /\ n \in Nat /\ DOMAIN Filled(u) = 1..n
        /\ \A i \in 1..n : Filled(u)[i] \in points
        /\ \A q \in points : \E i \in 1..n : Filled(u)[i] = q
    <2> HIDE DEF points
    <2>1. /\ Rows(points) \in Seq(points) /\ Len(Rows(points)) = n
          /\ n \in Nat /\ DOMAIN Rows(points) = 1..n
          /\ \A q \in points : \E i \in 1..n : Rows(points)[i] = q
      BY <1>1, RowsEnumerate
    <2>2. \A i \in 1..n : Rows(points)[i] \in points  BY <2>1, ElementOfSeq
    <2>3. Filled(u) = Rows(points)  BY DEF Filled, points
    <2>4. QED  BY <2>1, <2>2, <2>3
  <1> HIDE DEF n
  <1>3. /\ file = [i \in 1..n |-> OfAtom(registry, u, Filled(u)[i])]
        /\ file \in Seq(S) /\ Len(file) = n
    <2>1. file = [i \in 1..n |-> OfAtom(registry, u, Filled(u)[i])]  BY <1>2 DEF OfAtoms
    <2>2. \A i \in 1..n : OfAtom(registry, u, Filled(u)[i]) \in S  BY <1>2 DEF Calls
    <2> HIDE DEF S, file
    <2>3. file \in [1..n -> S]  BY <2>1, <2>2
    <2>4. file \in Seq(S)  BY <1>2, <2>3, SeqDef
    <2>5. DOMAIN file = 1..n /\ DOMAIN file = 1..Len(file) /\ Len(file) \in Nat
      BY <2>3, <2>4, LenProperties
    <2>6. QED  BY <1>2, <2>1, <2>4, <2>5
  <1> HIDE DEF S, file
  <1>4. PICK at : Goes(at, registry, r, file, at[Len(file)])  BY <1>3, ReadsSomewhere
  <1> DEFINE T == {m \in Nat : m \in 0..n => Holds(at[m], names, Restored(u, m), p, d)}
  <1>5. 0 \in T  BY <1>4 DEF Goes
  <1>6. ASSUME NEW m \in T  PROVE m + 1 \in T
    <2> DEFINE k == m + 1
    <2> SUFFICES ASSUME k \in 0..n  PROVE Holds(at[k], names, Restored(u, k), p, d)
      OBVIOUS
    <2>1. k \in 1..n /\ k - 1 = m /\ m \in 0..n  BY <1>2
    <2> DEFINE pt == Filled(u)[k]
               g == Restored(u, m)
    <2>2. Holds(at[m], names, g, p, d)  BY <2>1
    <2>3. pt \in DOMAIN u.grid /\ u.grid[pt].type # Empty  BY <1>2, <2>1
    <2>4. g = [q \in DOMAIN u.grid |-> g[q]]  BY DEF Restored
    <2>5. Restored(u, k) = [g EXCEPT ![pt] = u.grid[pt]]
      <3>1. \A i \in 1..k : i = k \/ i \in 1..m  BY <2>1
      <3>2. k \in 1..k /\ \A i \in 1..m : i \in 1..k  BY <2>1
      <3>3. \A q \in DOMAIN u.grid :
              (\E i \in 1..k : Filled(u)[i] = q) <=> (q = pt \/ \E i \in 1..m : Filled(u)[i] = q)
        BY <3>1, <3>2
      <3>4. QED  BY <3>3 DEF Restored
    <2>6. at[k] = Parse(registry, at[m], OfAtom(registry, u, pt))
      <3>1. file[k] = OfAtom(registry, u, pt)  BY <1>3, <2>1
      <3>2. at[k] = Parse(registry, at[k - 1], file[k])  BY <1>3, <1>4, <2>1 DEF Goes
      <3> HIDE DEF k, pt
      <3>3. QED  BY <2>1, <3>1, <3>2
    <2> HIDE DEF k, pt, g
    <2>7. Holds(Parse(registry, at[m], OfAtom(registry, u, pt)), names,
                [g EXCEPT ![pt] = u.grid[pt]], p, d)
      BY <2>2, <2>3, <2>4, AtomsArePut DEF OfAtom
    <2>8. QED  BY <2>5, <2>6, <2>7
  <1>7. T = Nat
    <2>1. T \in SUBSET Nat  OBVIOUS
    <2> HIDE DEF T
    <2>2. QED  BY <1>5, <1>6, <2>1, Induction
  <1>8. Holds(at[n], names, Restored(u, n), p, d)
    <2>1. n \in T  BY <1>2, <1>7
    <2>2. QED  BY <1>2, <2>1
  <1>9. Restored(u, n) = Saved(u.grid)
    <2> SUFFICES ASSUME NEW q \in DOMAIN u.grid
                 PROVE  (\E i \in 1..n : Filled(u)[i] = q) <=> u.grid[q].type # Empty
      BY DEF Restored, Saved
    <2>1. QED  BY <1>2
  <1>10. Reads(registry, r, file, at[n])  BY <1>3, <1>4 DEF Reads
  <1>11. QED  BY <1>3, <1>8, <1>9, <1>10 DEF S, file

LEMMA TilesAreFinite ==
  ASSUME NEW registry, NEW fresh, NEW u, StatesOf(registry, fresh, u)
  PROVE  u.disabledTiles \in SUBSET (Int \X Int) /\ IsFiniteSet(u.disabledTiles)
  <1> DEFINE P == DOMAIN u.grid
             Ts == TilesOf(u.grid)
             f == [pt \in P |-> TileOf(pt)]
  <1>1. IsFiniteSet(P) /\ P \in SUBSET (Int \X Int) /\ u.disabledTiles \in SUBSET Ts
    BY DEF StatesOf
  <1>2. f \in Surjection(P, Ts)
    <2>1. Ts = {TileOf(pt) : pt \in P}  BY DEF TilesOf
    <2> HIDE DEF Ts, P
    <2>2. QED  BY <2>1 DEF Surjection
  <1> HIDE DEF f
  <1>3. IsFiniteSet(Ts)  BY <1>1, <1>2, FS_Surjection
  <1>4. Ts \in SUBSET (Int \X Int)
    <2>1. ASSUME NEW pt \in Int \X Int  PROVE TileOf(pt) \in Int \X Int
      <3>1. pt[1] \in Int /\ pt[2] \in Int  OBVIOUS
      <3>2. pt[1] \div TileSide \in Int /\ pt[2] \div TileSide \in Int
        BY <3>1, TilesHaveSites
      <3>3. QED  BY <3>2 DEF TileOf
    <2>2. QED  BY <1>1, <2>1 DEF TilesOf
  <1>5. QED  BY <1>1, <1>3, <1>4, FS_Subset

LEMMA TilesAreRead ==
  ASSUME NEW registry, NEW fresh, NEW u, StatesOf(registry, fresh, u),
         NEW r, NEW names, NEW p, Holds(r, names, Saved(u.grid), p, fresh.disabledTiles)
  PROVE  /\ OfTiles(u) \in Seq(Calls(registry, u))
         /\ \E q : /\ Reads(registry, r, OfTiles(u), q)
                   /\ Holds(q, names, Saved(u.grid), p, u.disabledTiles)
  <1> DEFINE tiles == u.disabledTiles
             rows == Rows(tiles)
             n == Cardinality(tiles)
             S == Calls(registry, u)
             file == OfTiles(u)
             Halted(i) == fresh.disabledTiles \cup {rows[j] : j \in 1..i}
  <1>1. /\ n \in Nat /\ DOMAIN rows = 1..n
        /\ \A i \in 1..n : rows[i] \in tiles
        /\ \A t \in tiles : \E i \in 1..n : rows[i] = t
    <2>1. tiles \in SUBSET (Int \X Int) /\ IsFiniteSet(tiles)  BY TilesAreFinite
    <2> HIDE DEF tiles
    <2>2. /\ rows \in Seq(tiles) /\ Len(rows) = n /\ n \in Nat /\ DOMAIN rows = 1..n
          /\ \A t \in tiles : \E i \in 1..n : rows[i] = t
      BY <2>1, RowsEnumerate
    <2>3. \A i \in 1..n : rows[i] \in tiles  BY <2>2, ElementOfSeq
    <2>4. QED  BY <2>2, <2>3
  <1>2. fresh.disabledTiles \in SUBSET tiles /\ tiles \in SUBSET TilesOf(u.grid)
    BY DEF StatesOf
  <1> HIDE DEF n
  <1>3. /\ file = [i \in 1..n |-> DisableTileCall(rows[i])]
        /\ file \in Seq(S) /\ Len(file) = n
    <2>1. file = [i \in 1..n |-> DisableTileCall(rows[i])]  BY <1>1 DEF OfTiles
    <2>2. \A i \in 1..n : DisableTileCall(rows[i]) \in S  BY <1>1, <1>2 DEF Calls
    <2> HIDE DEF S, file, rows
    <2>3. file \in [1..n -> S]  BY <2>1, <2>2
    <2>4. file \in Seq(S)  BY <1>1, <2>3, SeqDef
    <2>5. DOMAIN file = 1..n /\ DOMAIN file = 1..Len(file) /\ Len(file) \in Nat
      BY <2>3, <2>4, LenProperties
    <2>6. QED  BY <1>1, <2>1, <2>4, <2>5
  <1> HIDE DEF S, file, rows
  <1>4. PICK at : Goes(at, registry, r, file, at[Len(file)])  BY <1>3, ReadsSomewhere
  <1> DEFINE T == {m \in Nat : m \in 0..n => Holds(at[m], names, Saved(u.grid), p, Halted(m))}
  <1>5. 0 \in T
    <2>1. Halted(0) = fresh.disabledTiles  OBVIOUS
    <2> HIDE DEF Halted
    <2>2. QED  BY <1>4, <2>1 DEF Goes
  <1>6. ASSUME NEW m \in T  PROVE m + 1 \in T
    <2> DEFINE k == m + 1
    <2> SUFFICES ASSUME k \in 0..n  PROVE Holds(at[k], names, Saved(u.grid), p, Halted(k))
      OBVIOUS
    <2>1. k \in 1..n /\ k - 1 = m /\ m \in 0..n  BY <1>1
    <2> DEFINE t == rows[k]
               d == Halted(m)
    <2>2. Holds(at[m], names, Saved(u.grid), p, d)  BY <2>1
    <2>3. t \in TilesOf(Saved(u.grid))  BY <1>1, <1>2, <2>1 DEF Saved, TilesOf
    <2>4. Halted(k) = d \cup {t}
      <3>1. \A i \in 1..k : i = k \/ i \in 1..m  BY <2>1
      <3>2. k \in 1..k /\ \A i \in 1..m : i \in 1..k  BY <2>1
      <3>3. QED  BY <3>1, <3>2
    <2>5. at[k] = Parse(registry, at[m], DisableTileCall(t))
      <3>1. file[k] = DisableTileCall(t)  BY <1>3, <2>1
      <3>2. at[k] = Parse(registry, at[k - 1], file[k])  BY <1>3, <1>4, <2>1 DEF Goes
      <3> HIDE DEF k, t
      <3>3. QED  BY <2>1, <3>1, <3>2
    <2> HIDE DEF k, t, d, Halted
    <2>6. Holds(Parse(registry, at[m], DisableTileCall(t)), names, Saved(u.grid), p, d \cup {t})
      BY <2>2, <2>3, TilesAreHalted
    <2>7. QED  BY <2>4, <2>5, <2>6
  <1>7. T = Nat
    <2>1. T \in SUBSET Nat  OBVIOUS
    <2> HIDE DEF T
    <2>2. QED  BY <1>5, <1>6, <2>1, Induction
  <1>8. Holds(at[n], names, Saved(u.grid), p, Halted(n))
    <2>1. n \in T  BY <1>1, <1>7
    <2> HIDE DEF Halted
    <2>2. QED  BY <1>1, <2>1
  <1>9. Halted(n) = tiles  BY <1>1, <1>2
  <1>10. Reads(registry, r, file, at[n])  BY <1>3, <1>4 DEF Reads
  <1> HIDE DEF Halted
  <1>11. QED  BY <1>3, <1>8, <1>9, <1>10 DEF S, file

\* A saved state is restored: of any grid and registry, reading what Write writes of a state
\* into a fresh program gives the state's atoms, parameters and halted tiles again.
THEOREM SavedStateIsRestored ==
  ASSUME NEW registry, NEW fresh, NEW u, StatesOf(registry, fresh, u), Savable(registry, u)
  PROVE  Restores(Read(registry, fresh, Write(registry, u)), u)
  <1> DEFINE n == Len(registry)
             S == Calls(registry, u)
             none == fresh.disabledTiles
             set == Params(registry, fresh, u, n)
             r == Reading(Clear(fresh))
             elements == FlattenSeq(Elements(registry, u))
             atoms == OfAtoms(registry, u)
             tiles == OfTiles(u)
  <1>1. Holds(r, Names(registry, 0), Restored(u, 0), Params(registry, fresh, u, 0), none)
    <2>1. 1..0 = {}  OBVIOUS
    <2>2. Names(registry, 0) = <<>>  BY <2>1 DEF Names
    <2>3. Params(registry, fresh, u, 0) = fresh.param  BY <2>1 DEF Params, StatesOf
    <2>4. Restored(u, 0) = [pt \in DOMAIN fresh.grid |-> GetDefaultAtom(Empty)]
      BY <2>1 DEF Restored, StatesOf
    <2>5. {"grid", "param", "disabledTiles"} \subseteq DOMAIN fresh  BY DEF StatesOf
    <2>6. /\ DOMAIN Clear(fresh) = DOMAIN fresh /\ Clear(fresh).grid = Restored(u, 0)
          /\ Clear(fresh).param = fresh.param /\ Clear(fresh).disabledTiles = none
      BY <2>4, <2>5 DEF Clear
    <2>7. r = [u |-> Clear(fresh), registered |-> <<>>, result |-> "reading"]
      BY DEF Reading
    <2> HIDE DEF r, none
    <2>8. QED  BY <2>2, <2>3, <2>5, <2>6, <2>7 DEF Holds
  <1>2. elements \in Seq(S)  BY <1>1, ElementsAreRead
  <1>3. PICK a : /\ Reads(registry, r, elements, a)
                 /\ Holds(a, Names(registry, n), Restored(u, 0), set, none)
    BY <1>1, ElementsAreRead
  <1>4. atoms \in Seq(S)  BY <1>3, AtomsAreRead
  <1>5. PICK b : /\ Reads(registry, a, atoms, b)
                 /\ Holds(b, Names(registry, n), Saved(u.grid), set, none)
    BY <1>3, AtomsAreRead
  <1>6. tiles \in Seq(S)  BY <1>5, TilesAreRead
  <1>7. PICK c : /\ Reads(registry, b, tiles, c)
                 /\ Holds(c, Names(registry, n), Saved(u.grid), set, u.disabledTiles)
    BY <1>5, TilesAreRead
  <1>8. set = u.param
    <2>1. /\ n \in Nat /\ DOMAIN registry = 1..n
      BY RegistryIs
    <2>2. \A e \in DOMAIN u.param : set[e] = u.param[e]
      BY <2>1 DEF Params, StatesOf
    <2>3. u.param = [e \in DOMAIN u.param |-> u.param[e]]  BY DEF StatesOf
    <2>4. set = [e \in DOMAIN u.param |-> set[e]]  BY DEF Params
    <2> HIDE DEF set
    <2>5. QED  BY <2>2, <2>3, <2>4
  <1> HIDE DEF S, r, elements, atoms, tiles
  <1>9. elements \o atoms \in Seq(S) /\ Reads(registry, r, elements \o atoms, b)
    BY <1>2, <1>3, <1>4, <1>5, ReadsOn
  <1>10. (elements \o atoms) \o tiles \in Seq(S) /\ Reads(registry, r, (elements \o atoms) \o tiles, c)
    BY <1>6, <1>7, <1>9, ReadsOn
  <1>11. Write(registry, u) = (elements \o atoms) \o tiles
    BY WriteIs DEF elements, atoms, tiles
  <1>12. Read(registry, fresh, Write(registry, u)) = c
    BY <1>10, <1>11, ReadsAll DEF r
  <1>13. c.result = "reading" /\ c.u.grid = Saved(u.grid) /\ c.u.param = u.param
         /\ c.u.disabledTiles = u.disabledTiles
    BY <1>7, <1>8 DEF Holds
  <1>14. QED  BY <1>12, <1>13 DEF Restores
-----------------------------------------------------------------------------
(* What the interface works on stays a state of the simulation it started from *)

\* A list of the program is a sequence of what is in it.
LEMMA ListIsSequence ==
  ASSUME NEW list, IsSequence(list)
  PROVE  list \in Seq(Range(list))
  <1>1. \A k \in 1..Len(list) : list[k] \in Range(list)  BY DEF IsSequence, Range
  <1>2. list \in [1..Len(list) -> Range(list)]  BY <1>1 DEF IsSequence
  <1>3. QED  BY <1>2 DEF IsSequence

\* The fields of ui that are the simulation's, and a record that differs elsewhere only.
SimFields == {"grid", "param", "disabledTiles", "currentPath"}
Same(u, v) == DOMAIN v = DOMAIN u /\ \A f \in SimFields : v[f] = u[f]

IsAtom(a) == a = [type |-> a.type, bits |-> a.bits]
GoodGrid(w, grid) ==
  /\ grid = [pt \in DOMAIN w.grid |-> grid[pt]]
  /\ \A pt \in DOMAIN w.grid : IsAtom(grid[pt])
GoodUi(w, u) ==
  /\ SimFields \subseteq DOMAIN u
  /\ GoodGrid(w, u.grid)
  /\ u.param = [e \in DOMAIN w.param |-> u.param[e]]
  /\ u.disabledTiles \subseteq TilesOf(w.grid)
  /\ u.currentPath \in Int

LEMMA SameIsGood == ASSUME NEW w, NEW u, NEW v, GoodUi(w, u), Same(u, v) PROVE GoodUi(w, v)
  BY DEF GoodUi, Same, SimFields
LEMMA SameOn == ASSUME NEW u, NEW v, NEW x, Same(u, v), Same(v, x) PROVE Same(u, x)
  BY DEF Same
LEMMA SameIsSame == \A u : Same(u, u)
  BY DEF Same

\* Looking around.
LEMMA ViewsAreSame ==
  ASSUME NEW u
  PROVE  /\ \A at : Same(u, SelectTile(u, at)) /\ Same(u, SelectAtom(u, at))
         /\ \A at : Same(u, BeginDrag(u, at)) /\ Same(u, DragGrid(u, at))
         /\ \A up, at : Same(u, ChangeAtomSize(u, up, at))
         /\ \A down : Same(u, MoveCamera(u, down))
         /\ \A cp : Same(u, SetCloneOrigin(u, cp))
         /\ \A at : Same(u, HandleAtomSelectorTool(u, at))
  <1>1. \A x : Same(u, [u EXCEPT !.selectedTile = x])  BY DEF Same, SimFields
  <1>2. \A x : Same(u, [u EXCEPT !.selectedAtom = x])  BY DEF Same, SimFields
  <1>3. \A x, y : Same(u, [u EXCEPT !.dragStart = x, !.gridStart = y])  BY DEF Same, SimFields
  <1>4. \A x : Same(u, [u EXCEPT !.windowTL = x])  BY DEF Same, SimFields
  <1>5. \A x, y : Same(u, [u EXCEPT !.atomSize = x, !.windowTL = y])  BY DEF Same, SimFields
  <1>6. \A x : Same(u, [u EXCEPT !.cloneOrigin = x])  BY DEF Same, SimFields
  <1>7. \A v, x : Same(v, [v EXCEPT !.viewed = x])  BY DEF Same, SimFields
  <1>8. \A at : Same(u, SelectTile(u, at))  BY <1>1 DEF SelectTile
  <1>9. \A at : Same(u, SelectAtom(u, at))  BY <1>2, SameIsSame DEF SelectAtom
  <1>10. \A at : Same(u, BeginDrag(u, at)) /\ Same(u, DragGrid(u, at))
    BY <1>3, <1>4 DEF BeginDrag, DragGrid
  <1>11. \A up, at : Same(u, ChangeAtomSize(u, up, at))  BY <1>5 DEF ChangeAtomSize
  <1>12. \A down : Same(u, MoveCamera(u, down))  BY <1>4 DEF MoveCamera
  <1>13. \A cp : Same(u, SetCloneOrigin(u, cp))  BY <1>6, SameIsSame DEF SetCloneOrigin
  <1>14. \A at : Same(u, HandleAtomSelectorTool(u, at))
    BY <1>7, <1>9, SameOn DEF HandleAtomSelectorTool
  <1>15. QED  BY <1>8, <1>9, <1>10, <1>11, <1>12, <1>13, <1>14

\* Panels, where they are and what they show.
LEMMA PanelsAreSame ==
  ASSUME NEW u
  PROVE  /\ \A p : Same(u, OnMouseExit(u, p))
         /\ \A p, parent : Same(u, HandleResize(u, p, parent))
         /\ \A p, anchor : Same(u, SetAnchor(u, p, anchor))
         /\ \A p, e : Same(u, HandleMovable(u, p, e).u)
  <1>1. \A p, x : Same(u, [u EXCEPT !.drag[p] = x])  BY DEF Same, SimFields
  <1>2. \A p, x, y : Same(u, [u EXCEPT !.at[p] = x, !.size[p] = y])  BY DEF Same, SimFields
  <1>3. \A p, x, y : Same(u, [u EXCEPT !.at[p] = x, !.desiredLocation[p] = y])
    BY DEF Same, SimFields
  <1>4. \A x : Same(u, [u EXCEPT !.brush = x])  BY DEF Same, SimFields
  <1>5. \A p : Same(u, OnMouseExit(u, p))  BY <1>1, SameIsSame DEF OnMouseExit
  <1>6. \A p, parent : Same(u, HandleResize(u, p, parent))
    <2> TAKE p, parent
    <2>1. PICK x, y : HandleResize(u, p, parent) = [u EXCEPT !.at[p] = x, !.size[p] = y]
      BY DEF HandleResize
    <2> DEFINE v == [u EXCEPT !.at[p] = x, !.size[p] = y]
    <2>2. Same(u, v)  BY <1>2
    <2> HIDE DEF v
    <2>3. QED  BY <2>1, <2>2 DEF v
  <1>7. \A p, anchor : Same(u, SetAnchor(u, p, anchor))
    <2>1. \A x : Same(u, [u EXCEPT !.desiredLocation = x])  BY DEF Same, SimFields
    <2> TAKE p, anchor
    <2>2. \A i, x : Same(u, [u EXCEPT !.desiredLocation[p][i] = x])
      <3> TAKE i, x
      <3>1. [u EXCEPT !.desiredLocation[p][i] = x]
              = [u EXCEPT !.desiredLocation = [u.desiredLocation EXCEPT ![p][i] = x]]
        OBVIOUS
      <3>2. QED  BY <2>1, <3>1
    <2>3. QED  BY <2>2 DEF SetAnchor
  <1>8. \A p, e : Same(u, PostDragHandle(u, p, e).u)
    BY <1>4, SameIsSame DEF PostDragHandle, Refuses, Takes
  <1>9. \A p, e : Same(u, HandleMovable(u, p, e).u)
    BY <1>1, <1>3, <1>8 DEF HandleMovable, Takes
  <1>10. QED  BY <1>5, <1>6, <1>7, <1>9
LEMMA SetScreenSizeSame == \A u, size : Same(u, SetScreenSize(u, size))
  <1> TAKE u, size
  <1> DEFINE a == [u EXCEPT !.screen = size]
             b == HandleResize(a, "statistics", size)
             c == HandleResize(b, "buttons", b.size["statistics"])
             d == HandleResize(c, "toolbox", size)
  <1>1. Same(u, a)  BY DEF Same, SimFields
  <1> HIDE DEF a
  <1>2. Same(u, b)  BY <1>1, PanelsAreSame, SameOn
  <1> HIDE DEF b
  <1>3. Same(u, c)  BY <1>2, PanelsAreSame, SameOn
  <1> HIDE DEF c
  <1>4. Same(u, d)  BY <1>3, PanelsAreSame, SameOn
  <1>5. QED  BY <1>4 DEF SetScreenSize, a, b, c, d
LEMMA TakesAndRefuses == \A u : Takes(u).u = u /\ Refuses(u).u = u
  BY DEF Takes, Refuses

\* What keys and buttons set.
LEMMA SettingsAreSame ==
  ASSUME NEW u
  PROVE  /\ Same(u, Step(u)) /\ Same(u, TogglePause(u)) /\ Same(u, SaveGrid(u))
         /\ \A tool : Same(u, ActivateButton(u, tool))
         /\ Same(u, AddButtons(u))
         /\ Same(u, ToggleStatsView(u)) /\ Same(u, ToggleToolbox(u))
         /\ Same(u, DeselectAtomAndTile(u)) /\ Same(u, ToggleTileSeparation(u))
         /\ Same(u, Unpaused(u)) /\ Same(u, Kept(u))
         /\ Same(u, [u EXCEPT !.status = "quit"])
  <1>1. Same(u, Step(u)) /\ Same(u, TogglePause(u))  BY DEF Same, SimFields, Step, TogglePause
  <1>2. Same(u, SaveGrid(u))  BY DEF Same, SimFields, SaveGrid
  <1>3. \A v, tool : Same(v, ActivateButton(v, tool))  BY DEF Same, SimFields, ActivateButton
  <1>4. \A x, y, z : Same(u, [u EXCEPT !.primary = x, !.secondary = y, !.size["toolbox"] = z])
    BY DEF Same, SimFields
  <1>5. Same(u, AddButtons(u))  BY <1>3, <1>4, SameOn DEF AddButtons
  <1>6. Same(u, ToggleStatsView(u)) /\ Same(u, ToggleToolbox(u))
    BY DEF Same, SimFields, ToggleStatsView, ToggleToolbox
  <1>7. Same(u, DeselectAtomAndTile(u)) /\ Same(u, ToggleTileSeparation(u))
    BY DEF Same, SimFields, DeselectAtomAndTile, ToggleTileSeparation
  <1>8. Same(u, Unpaused(u)) /\ Same(u, Kept(u)) /\ Same(u, [u EXCEPT !.status = "quit"])
    BY DEF Same, SimFields, Unpaused, Kept
  <1>9. QED  BY <1>1, <1>2, <1>3, <1>5, <1>6, <1>7, <1>8
LEMMA ChooseElementSame == \A u, element, button : Same(u, ChooseElement(u, element, button))
  <1>1. ASSUME NEW v  PROVE Same(v, RebuildControllers(v))
    <2>1. \A x : Same(v, [v EXCEPT !.slider = x])  BY DEF Same, SimFields
    <2>2. \A x, y : Same(x, [x EXCEPT !.size["toolbox"] = y])  BY DEF Same, SimFields
    <2>3. \A x : Same(x, HandleResize(x, "toolbox", v.screen))  BY PanelsAreSame
    <2>4. QED  BY <2>1, <2>2, PanelsAreSame, SameOn DEF RebuildControllers
  <1>2. \A u, x : Same(u, [u EXCEPT !.primary = x]) /\ Same(u, [u EXCEPT !.secondary = x])
    BY DEF Same, SimFields
  <1>3. QED  BY <1>1, <1>2, SameIsSame, SameOn DEF ChooseElement
LEMMA KeyboardUpdateSame == \A u : Same(u, KeyboardUpdate(u))
  <1> TAKE u
  <1> DEFINE a == When("i", ToggleStatsView, u)
             b == When("p", ToggleTileSeparation, a)
             c == When("escape", DeselectAtomAndTile, b)
             d == When("t", ToggleToolbox, c)
             e == MoveCamera(d, keys)
             f == When("space", TogglePause, e)
  <1>1. Same(u, a)  BY SettingsAreSame, SameIsSame DEF When
  <1>2. Same(a, b)  BY SettingsAreSame, SameIsSame DEF When
  <1>3. Same(b, c)  BY SettingsAreSame, SameIsSame DEF When
  <1>4. Same(c, d)  BY SettingsAreSame, SameIsSame DEF When
  <1>5. Same(d, e)  BY ViewsAreSame
  <1>6. Same(e, f)  BY SettingsAreSame, SameIsSame DEF When
  <1>7. Same(f, When("s", Step, f))  BY SettingsAreSame, SameIsSame DEF When
  <1>8. KeyboardUpdate(u) = When("s", Step, f)  BY DEF KeyboardUpdate
  <1> HIDE DEF a, b, c, d, e, f
  <1>9. QED  BY <1>1, <1>2, <1>3, <1>4, <1>5, <1>6, <1>7, <1>8, SameOn

\* Atoms are given and parameters set, and they stay what they are.
LEMMA DefaultIsAtom == \A type : IsAtom(GetDefaultAtom(type))
  BY DEF IsAtom, GetDefaultAtom
LEMMA SameTiles ==
  ASSUME NEW w, NEW u, GoodUi(w, u)
  PROVE  DOMAIN u.grid = DOMAIN w.grid /\ TilesOf(u.grid) = TilesOf(w.grid)
  BY DEF GoodUi, GoodGrid, TilesOf
LEMMA NewGridIsGood ==
  ASSUME NEW w, NEW u, GoodUi(w, u), NEW grid, GoodGrid(w, grid)
  PROVE  GoodUi(w, [u EXCEPT !.grid = grid])
  BY DEF GoodUi, SimFields
LEMMA PlaceAtomGood ==
  ASSUME NEW w, NEW u, GoodUi(w, u), NEW atom, IsAtom(atom), NEW pt
  PROVE  GoodUi(w, PlaceAtom(u, atom, pt))
  <1>1. GoodGrid(w, [u.grid EXCEPT ![pt] = atom])  BY DEF GoodUi, GoodGrid
  <1>2. PlaceAtom(u, atom, pt) = [u EXCEPT !.grid = [u.grid EXCEPT ![pt] = atom]]
    BY DEF PlaceAtom
  <1>3. QED  BY <1>1, <1>2, NewGridIsGood
LEMMA HitGood ==
  ASSUME NEW w, NEW u, GoodUi(w, u), NEW hit, NEW atom, IsAtom(atom)
  PROVE  GoodUi(w, Hit(u, hit, atom))
  <1>1. GoodGrid(w, [pt \in DOMAIN u.grid |-> IF pt \in hit THEN atom ELSE u.grid[pt]])
    BY SameTiles DEF GoodUi, GoodGrid
  <1>2. QED  BY <1>1, NewGridIsGood DEF Hit
LEMMA ClearGood ==
  ASSUME NEW w, NEW u, GoodUi(w, u)
  PROVE  GoodUi(w, Clear(u)) /\ \A tile : GoodUi(w, EmptyTile(u, tile))
  <1>1. GoodGrid(w, [pt \in DOMAIN u.grid |-> GetDefaultAtom(Empty)])
    BY SameTiles, DefaultIsAtom DEF GoodGrid
  <1>2. \A tile : GoodGrid(w, [pt \in DOMAIN u.grid |->
                     IF TileOf(pt) = tile THEN GetDefaultAtom(Empty) ELSE u.grid[pt]])
    BY SameTiles, DefaultIsAtom DEF GoodUi, GoodGrid
  <1>3. QED  BY <1>1, <1>2, NewGridIsGood DEF Clear, EmptyTile
LEMMA CloneGood ==
  ASSUME NEW w, NEW u, GoodUi(w, u), NEW pt
  PROVE  GoodUi(w, Clone(u, pt))
  <1>1. \A at \in DOMAIN u.grid : IsAtom(u.grid[at])  BY SameTiles DEF GoodUi, GoodGrid
  <1>2. QED  BY <1>1, PlaceAtomGood DEF Clone
LEMMA TouchGood ==
  ASSUME NEW w, NEW u, GoodUi(w, u), NEW tool, NEW atom, IsAtom(atom), NEW pt, NEW chance
  PROVE  GoodUi(w, Touch(u, tool, atom, pt, chance))
  BY PlaceAtomGood, CloneGood, DefaultIsAtom DEF Touch
LEMMA BucketFillGood ==
  ASSUME NEW w, NEW u, GoodUi(w, u), NEW atom, IsAtom(atom), NEW type, NEW cp
  PROVE  GoodUi(w, BucketFill(u, atom, type, cp))
  BY HitGood DEF BucketFill
LEMMA PauseTileGood ==
  ASSUME NEW w, NEW u, GoodUi(w, u)
  PROVE  GoodUi(w, PauseTile(u))
  <1> DEFINE tiles == SymDiff(u.disabledTiles, {u.selectedTile} \cap TilesOf(u.grid))
  <1>1. tiles \subseteq TilesOf(w.grid)  BY SameTiles DEF SymDiff, GoodUi
  <1>2. PauseTile(u) = [u EXCEPT !.disabledTiles = tiles]  BY DEF PauseTile
  <1> HIDE DEF tiles
  <1>3. QED  BY <1>1, <1>2 DEF GoodUi, SimFields
LEMMA SetParameterGood ==
  ASSUME NEW w, NEW u, GoodUi(w, u), NEW e, NEW value
  PROVE  GoodUi(w, [u EXCEPT !.param[e] = value])
  <1>1. [u EXCEPT !.param[e] = value] = [u EXCEPT !.param = [u.param EXCEPT ![e] = value]]
    OBVIOUS
  <1>2. [u.param EXCEPT ![e] = value] = [f \in DOMAIN w.param |-> [u.param EXCEPT ![e] = value][f]]
    BY DEF GoodUi
  <1>3. QED  BY <1>1, <1>2 DEF GoodUi, SimFields
LEMMA HandleSliderGood ==
  ASSUME NEW w, NEW u, GoodUi(w, u), NEW e
  PROVE  GoodUi(w, HandleSlider(u, e).u)
  <1>1. \A x : Same(u, [u EXCEPT !.drag["slider"] = x])  BY DEF Same, SimFields
  <1>2. \A x : GoodUi(w, [u EXCEPT !.drag["slider"] = x])  BY <1>1, SameIsGood
  <1>3. QED  BY <1>2, SetParameterGood DEF HandleSlider, Takes, Refuses

\* PaintAtom goes over the sites under the brush row by row.
Touched(u, tool, atom, chance, rows) ==
  FoldLeft(LAMBDA v, pt : Touch(v, tool, atom, pt, chance), u, rows)
TouchStep(x, u, pt) == Touch(u, x.tool, x.atom, pt, x.chance)
TouchHolds(x, u, m) == GoodUi(x.w, u)
Touching == INSTANCE FoldProofs WITH FoldStep <- TouchStep, FoldHolds <- TouchHolds
LEMMA TouchedGood ==
  ASSUME NEW w, NEW u, GoodUi(w, u), NEW tool, NEW atom, IsAtom(atom), NEW chance,
         NEW rows, NEW n \in Nat, DOMAIN rows = 1..n
  PROVE  GoodUi(w, Touched(u, tool, atom, chance, rows))
  <1>1. PICK x : x = [w |-> w, tool |-> tool, atom |-> atom, chance |-> chance]  OBVIOUS
  <1>2. Touched(u, tool, atom, chance, rows) = Touching!Folded(x, u, rows)
    BY <1>1 DEF Touched, FoldLeft, MapThenFoldSet, Max, Touching!Folded, Touching!FoldLeft,
                Touching!MapThenFoldSet, Touching!Max, TouchStep
  <1>3. TouchHolds(x, u, 0)  BY <1>1 DEF TouchHolds
  <1>4. Touching!KeepsTo(x, rows, n)
    BY <1>1, TouchGood DEF Touching!KeepsTo, TouchStep, TouchHolds
  <1>5. TouchHolds(x, Touching!Folded(x, u, rows), n)  BY <1>3, <1>4, Touching!FoldKeeps
  <1>6. QED  BY <1>1, <1>2, <1>5 DEF TouchHolds
LEMMA PaintAtomGood ==
  ASSUME NEW w, IsFiniteSet(DOMAIN w.grid), DOMAIN w.grid \subseteq Int \X Int,
         NEW u, GoodUi(w, u), NEW tool, NEW button, NEW atom, IsAtom(atom), NEW cp, NEW chance
  PROVE  GoodUi(w, PaintAtom(u, tool, button, atom, cp, chance))
  <1> DEFINE onGrid == Disc(cp, BrushSize(u, tool)) \cap DOMAIN u.grid
  <1>1. GoodUi(w, SetCloneOrigin(u, cp))  BY ViewsAreSame, SameIsGood
  <1>2. GoodUi(w, Touched(u, tool, atom, chance, Rows(onGrid)))
    <2>1. onGrid \in SUBSET (Int \X Int) /\ IsFiniteSet(onGrid)
      <3>1. onGrid \in SUBSET DOMAIN w.grid  BY SameTiles
      <3>2. QED  BY <3>1, FS_Subset
    <2> HIDE DEF onGrid
    <2>2. Cardinality(onGrid) \in Nat /\ DOMAIN Rows(onGrid) = 1..Cardinality(onGrid)
      BY <2>1, RowsEnumerate
    <2>3. QED  BY <2>2, TouchedGood
  <1>3. \A type : GoodUi(w, BucketFill(u, atom, type, cp))  BY BucketFillGood
  <1>4. GoodUi(w, Clone(u, cp)) /\ GoodUi(w, PlaceAtom(u, atom, cp))  BY CloneGood, PlaceAtomGood
  <1>5. PaintAtom(u, tool, button, atom, cp, chance) \in
          {u, SetCloneOrigin(u, cp), Touched(u, tool, atom, chance, Rows(onGrid)),
           BucketFill(u, atom, u.grid[cp].type, cp), Clone(u, cp), PlaceAtom(u, atom, cp)}
    BY DEF PaintAtom, Touched
  <1>6. QED  BY <1>1, <1>2, <1>3, <1>4, <1>5

\* The tools, and what the grid's panel does with the mouse.
LegalGrid(w) == IsFiniteSet(DOMAIN w.grid) /\ DOMAIN w.grid \subseteq Int \X Int
LEMMA UseToolGood ==
  ASSUME NEW w, LegalGrid(w), NEW u, GoodUi(w, u), NEW button, NEW e
  PROVE  GoodUi(w, UseTool(u, button, e))
  <1>1. \A at : GoodUi(w, SelectTile(u, at)) /\ GoodUi(w, HandleAtomSelectorTool(u, at))
    BY ViewsAreSame, SameIsGood
  <1>2. \A tool, cp, chance : GoodUi(w, PaintAtom(u, tool, button, Paint(u, tool, button), cp, chance))
    BY PaintAtomGood, DefaultIsAtom DEF Paint, LegalGrid
  <1>3. QED  BY <1>1, <1>2 DEF UseTool
LEMMA GridPressedGood ==
  ASSUME NEW w, LegalGrid(w), NEW u, GoodUi(w, u), NEW e
  PROVE  GoodUi(w, GridPressed(u, e))
  <1> DEFINE begun == IF e.button = "left" THEN BeginDrag(u, e.at) ELSE u
             v == IF u.tool = "clone" /\ e.button = "left"
                  THEN [begun EXCEPT !.cloneDestination = ClickPointToAtom(u, e.at)] ELSE begun
  <1>1. GoodUi(w, begun)  BY ViewsAreSame, SameIsGood
  <1>2. \A up, at : GoodUi(w, ChangeAtomSize(u, up, at))  BY ViewsAreSame, SameIsGood
  <1> HIDE DEF begun
  <1>3. GoodUi(w, v)
    <2>1. \A x : Same(begun, [begun EXCEPT !.cloneDestination = x])  BY DEF Same, SimFields
    <2>2. QED  BY <1>1, <2>1, SameIsGood
  <1>4. GoodUi(w, UseTool(v, e.button, e))  BY <1>3, UseToolGood
  <1>5. GoodUi(w, ChangeAtomSize(u, e.button = "wheel up", e.at))  BY <1>2
  <1>6. QED  BY <1>1, <1>4, <1>5 DEF GridPressed, begun, v
LEMMA GridDraggedGood ==
  ASSUME NEW w, LegalGrid(w), NEW u, GoodUi(w, u), NEW e
  PROVE  GoodUi(w, GridDragged(u, e))
  <1>1. GoodUi(w, DragGrid(u, e.at))  BY ViewsAreSame, SameIsGood
  <1>2. GridDragged(u, e) \in {u, DragGrid(u, e.at), UseTool(u, "left", e), UseTool(u, "right", e)}
    BY DEF GridDragged
  <1>3. QED  BY <1>1, <1>2, UseToolGood

\* Whatever file is read, and however far.
LEMMA ParseGood ==
  ASSUME NEW w, NEW registry, NEW r, GoodUi(w, r.u), "u" \in DOMAIN r, NEW c
  PROVE  GoodUi(w, Parse(registry, r, c).u) /\ "u" \in DOMAIN Parse(registry, r, c)
  <1> DEFINE Stays(q) == GoodUi(w, q.u) /\ "u" \in DOMAIN q
  <1>1. Stays(r)  OBVIOUS
  <1>2. \A v : GoodUi(w, v) => Stays([r EXCEPT !.u = v])  OBVIOUS
  <1>3. \A x : Stays([r EXCEPT !.result = x]) /\ Stays([r EXCEPT !.registered = x])  BY <1>1
  <1>4. Stays(RegisterElement(registry, r, c))  BY <1>3 DEF RegisterElement, Refused
  <1>5. Stays(SetElementParameter(r, c))
    <2>1. \A e, x : [r EXCEPT !.u.param[e] = x] = [r EXCEPT !.u = [r.u EXCEPT !.param[e] = x]]
      OBVIOUS
    <2>2. \A e, x : Stays([r EXCEPT !.u.param[e] = x])  BY <1>2, <2>1, SetParameterGood
    <2>3. QED  BY <1>3, <2>2 DEF SetElementParameter, Refused
  <1>6. Stays(GA(r, c))
    <2> DEFINE placed == PlaceAtom(r.u, GetDefaultAtom(LookupElement(r, c.nick)), c.at)
               atom == [placed.grid[c.at] EXCEPT !.bits = c.bits]
               v == [placed EXCEPT !.grid[c.at].bits = c.bits]
    <2> SUFFICES ASSUME c.at \in DOMAIN r.u.grid  PROVE Stays([r EXCEPT !.u = v])
      BY <1>3 DEF GA, Refused
    <2>1. GoodUi(w, placed)  BY PlaceAtomGood, DefaultIsAtom
    <2> HIDE DEF placed
    <2>2. IsAtom(placed.grid[c.at])  BY <2>1, SameTiles DEF GoodUi, GoodGrid
    <2>3. IsAtom(atom)  BY <2>2 DEF IsAtom
    <2>4. v = [placed EXCEPT !.grid[c.at] = atom]  OBVIOUS
    <2>5. v = PlaceAtom(placed, atom, c.at)  BY <2>4 DEF PlaceAtom
    <2> HIDE DEF v, atom
    <2>6. GoodUi(w, v)  BY <2>1, <2>3, <2>5, PlaceAtomGood
    <2>7. QED  BY <1>2, <2>6
  <1>7. Stays(DisableTile(r, c))
    <2> DEFINE tiles == r.u.disabledTiles \cup ({c.tile} \cap TilesOf(r.u.grid))
    <2>1. DisableTile(r, c) = [r EXCEPT !.u = [r.u EXCEPT !.disabledTiles = tiles]]  BY DEF DisableTile
    <2>2. tiles \subseteq TilesOf(w.grid)  BY SameTiles DEF GoodUi
    <2> HIDE DEF tiles
    <2>3. GoodUi(w, [r.u EXCEPT !.disabledTiles = tiles])  BY <2>2 DEF GoodUi, SimFields
    <2>4. QED  BY <1>2, <2>1, <2>3
  <1>8. Parse(registry, r, c) \in
          {r, RegisterElement(registry, r, c), SetElementParameter(r, c), GA(r, c), DisableTile(r, c),
           [r EXCEPT !.result = "refused"]}
    BY DEF Parse, Refused
  <1>9. QED  BY <1>1, <1>3, <1>4, <1>5, <1>6, <1>7, <1>8
ReadHolds(x, r, m) == GoodUi(x.w, r.u) /\ "u" \in DOMAIN r
Readings == INSTANCE FoldProofs WITH FoldStep <- CallStep, FoldHolds <- ReadHolds
LEMMA ReadGood ==
  ASSUME NEW w, NEW registry, NEW u, GoodUi(w, u), NEW S, NEW file \in Seq(S)
  PROVE  GoodUi(w, Read(registry, u, file).u)
  <1> DEFINE r == Reading(Clear(u))
  <1>1. Len(file) \in Nat /\ DOMAIN file = 1..Len(file)  BY LenProperties
  <1>2. PICK x : x = [w |-> w, registry |-> registry]  OBVIOUS
  <1>3. Read(registry, u, file) = Readings!Folded(x, r, file)
    BY <1>2 DEF Read, FoldLeft, MapThenFoldSet, Max, Readings!Folded, Readings!FoldLeft,
                Readings!MapThenFoldSet, Readings!Max, CallStep
  <1>4. ReadHolds(x, r, 0)  BY <1>2, ClearGood DEF ReadHolds, Reading
  <1> HIDE DEF r
  <1>5. Readings!KeepsTo(x, file, Len(file))
    BY <1>2, ParseGood DEF Readings!KeepsTo, CallStep, ReadHolds
  <1>6. ReadHolds(x, Readings!Folded(x, r, file), Len(file))
    BY <1>1, <1>4, <1>5, Readings!FoldKeeps
  <1>7. QED  BY <1>2, <1>3, <1>6 DEF ReadHolds

\* What buttons do.
LEMMA LoadGood ==
  ASSUME NEW w, w = world, LegalWorld(w), NEW u, GoodUi(w, u)
  PROVE  GoodUi(w, LoadFromConfigurationPath(u))
  <1> DEFINE n == Len(w.files)
             next == (u.currentPath + 1) % n
             v == [u EXCEPT !.currentPath = next]
             r == Read(w.registry, v, w.files[next + 1])
  <1> SUFFICES ASSUME w.files # <<>>
               PROVE  GoodUi(w, [r.u EXCEPT !.status = IF r.result = "failed" THEN "failed" ELSE @])
    BY DEF LoadFromConfigurationPath
  <1>1. w.files \in Seq(Range(w.files))  BY ListIsSequence DEF LegalWorld
  <1>2. n \in Nat \ {0} /\ DOMAIN w.files = 1..n  BY <1>1, LenProperties
  <1>3. next \in Int /\ next + 1 \in 1..n  BY <1>2 DEF GoodUi
  <1>4. w.files[next + 1] \in Seq(Range(w.files[next + 1]))
    BY <1>2, <1>3, ListIsSequence DEF LegalWorld
  <1> HIDE DEF n, next
  <1>5. GoodUi(w, v)  BY <1>3 DEF GoodUi, SimFields
  <1> HIDE DEF v
  <1>6. GoodUi(w, r.u)  BY <1>4, <1>5, ReadGood
  <1> HIDE DEF r
  <1>7. \A x : Same(r.u, [r.u EXCEPT !.status = x])  BY DEF Same, SimFields
  <1>8. QED  BY <1>6, <1>7, SameIsGood
LEMMA OnClickGood ==
  ASSUME NEW w, w = world, LegalWorld(w), NEW u, GoodUi(w, u), NEW what, NEW e
  PROVE  GoodUi(w, OnClick(u, what, e))
  <1>1. \A v : Same(u, v) => GoodUi(w, v)  BY SameIsGood
  <1>2. /\ GoodUi(w, Step(u)) /\ GoodUi(w, TogglePause(u)) /\ GoodUi(w, SaveGrid(u))
        /\ \A tool : GoodUi(w, ActivateButton(u, tool))
        /\ GoodUi(w, [u EXCEPT !.status = "quit"])
    BY <1>1, SettingsAreSame
  <1>3. \A element, button : GoodUi(w, ChooseElement(u, element, button))
    BY <1>1, ChooseElementSame
  <1>4. GoodUi(w, Clear(u)) /\ GoodUi(w, ClearTile(u))  BY ClearGood DEF ClearTile
  <1>5. \A hit : GoodUi(w, RandomNuke(u, hit)) /\ GoodUi(w, XRay(u, hit))
    BY HitGood, DefaultIsAtom DEF RandomNuke, XRay
  <1>6. GoodUi(w, PauseTile(u)) /\ GoodUi(w, LoadFromConfigurationPath(u))
    BY PauseTileGood, LoadGood
  <1>7. QED  BY <1>2, <1>3, <1>4, <1>5, <1>6 DEF OnClick
LEMMA HandleGood ==
  ASSUME NEW w, w = world, LegalWorld(w), NEW u, GoodUi(w, u), NEW p, NEW e
  PROVE  GoodUi(w, Handle(u, p, e).u)
  <1>1. GoodUi(w, GridDragged(u, e)) /\ GoodUi(w, GridPressed(u, e))
    BY GridDraggedGood, GridPressedGood DEF LegalGrid, LegalWorld
  <1>2. GoodUi(w, HandleMovable(u, p, e).u)  BY PanelsAreSame, SameIsGood
  <1>3. GoodUi(w, HandleSlider(u, e).u)  BY HandleSliderGood
  <1>4. GoodUi(w, HandleButton(u, p, e).u)
    BY OnClickGood, TakesAndRefuses DEF HandleButton
  <1>5. QED  BY <1>1, <1>2, <1>3, <1>4, TakesAndRefuses DEF Handle

\* An event goes through the panels, and each keeps to it.
GoodAnswer(w, answer) == GoodUi(w, answer.u)
LEMMA AnsweredGood ==
  ASSUME NEW w, w = world, LegalWorld(w), NEW u, GoodUi(w, u), NEW p, NEW e,
         NEW answer, GoodAnswer(w, answer)
  PROVE  GoodAnswer(w, Answered(u, p, e, answer))
  <1> DEFINE old == IF p \in DOMAIN u.focus THEN u.focus[p] ELSE NoPanel
             told == IF old \in {NoPanel, answer.by} THEN answer.u ELSE OnMouseExit(answer.u, old)
             v == IF p \in DOMAIN u.focus THEN [told EXCEPT !.focus[p] = answer.by] ELSE answer.u
  <1>1. GoodUi(w, told)  BY PanelsAreSame, SameIsGood DEF GoodAnswer
  <1> HIDE DEF told
  <1>2. \A x : Same(told, [told EXCEPT !.focus[p] = x])  BY DEF Same, SimFields
  <1>3. GoodUi(w, v)  BY <1>1, <1>2, SameIsGood DEF GoodAnswer
  <1>4. Answered(u, p, e, answer) \in {Refuses(u), Takes(v), Handle(v, p, e)}
    BY DEF Answered, told
  <1> HIDE DEF v
  <1>5. GoodUi(w, Handle(v, p, e).u)  BY <1>3, HandleGood
  <1>6. QED  BY <1>3, <1>4, <1>5, TakesAndRefuses DEF GoodAnswer
LEMMA UnaskedGood == ASSUME NEW w, NEW u, GoodUi(w, u) PROVE GoodAnswer(w, Unasked(u))
  BY DEF GoodAnswer, Unasked
LEMMA DispatchLeafGood ==
  ASSUME NEW w, w = world, LegalWorld(w), NEW u, GoodUi(w, u), NEW p, NEW e
  PROVE  GoodAnswer(w, DispatchLeaf(u, p, e))
  BY AnsweredGood, UnaskedGood DEF DispatchLeaf
AskLeaf(answer, child, e) == Ask(DispatchLeaf, answer, child, e)
LEMMA AskLeafGood ==
  ASSUME NEW w, w = world, LegalWorld(w), NEW answer, GoodAnswer(w, answer), NEW child, NEW e
  PROVE  GoodAnswer(w, AskLeaf(answer, child, e))
  <1>1. GoodAnswer(w, DispatchLeaf(answer.u, child, e))  BY DispatchLeafGood DEF GoodAnswer
  <1>2. QED  BY <1>1 DEF AskLeaf, Ask, GoodAnswer

\* A panel asks its children in their order.
Asked(u, e, children) ==
  FoldLeft(LAMBDA answer, child : Ask(DispatchLeaf, answer, child, e), Unasked(u), children)
AskStep(x, answer, child) == AskLeaf(answer, child, x.e)
AskHolds(x, answer, m) == GoodAnswer(x.w, answer)
Asking == INSTANCE FoldProofs WITH FoldStep <- AskStep, FoldHolds <- AskHolds
LEMMA AskedGood ==
  ASSUME NEW w, w = world, LegalWorld(w), NEW u, GoodUi(w, u), NEW e,
         NEW children, NEW n \in Nat, DOMAIN children = 1..n
  PROVE  GoodAnswer(w, Asked(u, e, children))
  <1> DEFINE first == Unasked(u)
  <1>1. PICK x : x = [w |-> w, e |-> e]  OBVIOUS
  <1>2. Asked(u, e, children) = Asking!Folded(x, first, children)
    BY <1>1 DEF Asked, FoldLeft, MapThenFoldSet, Max, Asking!Folded, Asking!FoldLeft,
                Asking!MapThenFoldSet, Asking!Max, AskStep, AskLeaf
  <1>3. AskHolds(x, first, 0)  BY <1>1, UnaskedGood DEF AskHolds
  <1> HIDE DEF first
  <1>4. Asking!KeepsTo(x, children, n)
    BY <1>1, AskLeafGood DEF Asking!KeepsTo, AskStep, AskHolds
  <1>5. AskHolds(x, Asking!Folded(x, first, children), n)  BY <1>3, <1>4, Asking!FoldKeeps
  <1>6. QED  BY <1>1, <1>2, <1>5 DEF AskHolds
LEMMA DispatchInnerGood ==
  ASSUME NEW w, w = world, LegalWorld(w), NEW u, GoodUi(w, u), NEW p, NEW e
  PROVE  GoodAnswer(w, DispatchInner(u, p, e))
  <1> DEFINE children == Children(u, p)
  <1>1. \E S : children \in Seq(S)
    <2>1. w.driverButtons \in Seq(Range(w.driverButtons)) /\ w.toolButtons \in Seq(Range(w.toolButtons))
      BY ListIsSequence DEF LegalWorld
    <2> DEFINE S == Range(w.toolButtons) \cup {"slider"}
               last == IF u.slider = {} THEN <<>> ELSE <<"slider">>
    <2>2. last \in Seq(S) /\ w.toolButtons \in Seq(S)  BY <2>1, SeqMonotonic
    <2> HIDE DEF last
    <2>3. w.toolButtons \o last \in Seq(S)  BY <2>2, ConcatProperties
    <2>4. QED  BY <2>1, <2>3 DEF Children, last
  <1>2. Len(children) \in Nat /\ DOMAIN children = 1..Len(children)  BY <1>1, LenProperties
  <1> HIDE DEF children
  <1>3. GoodAnswer(w, Asked(u, e, children))  BY <1>2, AskedGood
  <1>4. DispatchInner(u, p, e) = Answered(u, p, e, Asked(u, e, children))
    BY DEF DispatchInner, Asked, children
  <1>5. QED  BY <1>3, <1>4, AnsweredGood
LEMMA DispatchGood ==
  ASSUME NEW w, w = world, LegalWorld(w), NEW u, GoodUi(w, u), NEW e
  PROVE  GoodUi(w, Dispatch(u, e).u)
  <1>1. ASSUME NEW v, GoodUi(w, v)  PROVE GoodAnswer(w, DispatchStatistics(v, "statistics", e))
    <2> DEFINE answer == Ask(DispatchInner, Unasked(v), "buttons", e)
    <2>1. Unasked(v).u = v /\ GoodAnswer(w, Unasked(v))  BY <1>1, UnaskedGood DEF Unasked
    <2>2. GoodAnswer(w, DispatchInner(v, "buttons", e))  BY <1>1, DispatchInnerGood
    <2>3. GoodAnswer(w, answer)  BY <2>1, <2>2 DEF Ask, GoodAnswer
    <2>4. DispatchStatistics(v, "statistics", e) = Answered(v, "statistics", e, answer)
      BY DEF DispatchStatistics
    <2> HIDE DEF answer
    <2>5. QED  BY <1>1, <2>3, <2>4, AnsweredGood
  <1> DEFINE first == Ask(DispatchStatistics, Unasked(u), "statistics", e)
             answer == Ask(DispatchInner, first, "toolbox", e)
  <1>2. GoodAnswer(w, first)
    <2>1. Unasked(u).u = u /\ GoodAnswer(w, Unasked(u))  BY UnaskedGood DEF Unasked
    <2>2. GoodAnswer(w, DispatchStatistics(u, "statistics", e))  BY <1>1
    <2>3. QED  BY <2>1, <2>2 DEF Ask, GoodAnswer
  <1> HIDE DEF first
  <1>3. GoodAnswer(w, answer)
    <2>1. GoodAnswer(w, DispatchInner(first.u, "toolbox", e))  BY <1>2, DispatchInnerGood DEF GoodAnswer
    <2>2. QED  BY <1>2, <2>1 DEF Ask, GoodAnswer
  <1>4. Dispatch(u, e) = Answered(u, "grid", e, answer)  BY DEF Dispatch, first
  <1> HIDE DEF answer
  <1>5. QED  BY <1>3, <1>4, AnsweredGood DEF GoodAnswer

\* The state a world starts in.
LEMMA StartingSame ==
  /\ SimFields \subseteq DOMAIN StartingUi
  /\ StartingUi.grid = world.grid /\ StartingUi.param = world.param
  /\ StartingUi.disabledTiles = {} /\ StartingUi.currentPath = -1
  <1> DEFINE Starts(u) == /\ SimFields \subseteq DOMAIN u
                          /\ u.grid = world.grid /\ u.param = world.param
                          /\ u.disabledTiles = {} /\ u.currentPath = -1
             Follows(u, v) == Starts(u) => Starts(v)
  <1>1. \A u, v : Same(u, v) => Follows(u, v)  BY DEF Same, SimFields
  <1>2. Starts(OnceOnly)
    <2> DEFINE u == [grid |-> world.grid, disabledTiles |-> {}, param |-> world.param,
            selectedTile |-> Nowhere, currentPath |-> -1, status |-> "running",
            keyboardPaused |-> world.startPaused, singleStep |-> FALSE,
            hidden |-> {"statistics", "toolbox"}, paintingEnabled |-> FALSE,
            screen |-> world.screen, at |-> [p \in Placed |-> <<0, 0>>],
            size |-> [p \in Placed |-> world.extent[p].size],
            desiredLocation |-> [p \in Placed |-> <<0, 0>>], slider |-> {},
            drag |-> [p \in Movable \cup {"slider"} |-> NoDrag],
            focus |-> [p \in {"grid", "toolbox"} |-> NoPanel],
            tool |-> "selector", primary |-> Empty, secondary |-> Empty, brush |-> world.brush,
            cloneOrigin |-> Nowhere, cloneDestination |-> Nowhere,
            atomSize |-> world.atomSize, windowTL |-> <<0, 0>>, separated |-> FALSE,
            dragStart |-> <<0, 0>>, gridStart |-> <<0, 0>>, selectedAtom |-> Nowhere, viewed |-> {}]
               a == SetAnchor(u, "toolbox", "west")
               b == SetAnchor(a, "toolbox", "north")
               c == SetAnchor(b, "statistics", "east")
               d == SetAnchor(c, "buttons", "south")
               anchored == SetAnchor(d, "buttons", "east")
               f == SetScreenSize(anchored, world.screen)
    <2>1. Starts(u)  BY DEF SimFields
    <2>2. OnceOnly = AddButtons(f)  BY DEF OnceOnly
    <2> HIDE DEF u
    <2>3. Same(u, a)  BY PanelsAreSame
    <2> HIDE DEF a
    <2>4. Same(a, b)  BY PanelsAreSame
    <2> HIDE DEF b
    <2>5. Same(b, c)  BY PanelsAreSame
    <2> HIDE DEF c
    <2>6. Same(c, d)  BY PanelsAreSame
    <2> HIDE DEF d
    <2>7. Same(d, anchored)  BY PanelsAreSame
    <2> HIDE DEF anchored
    <2>8. Same(anchored, f)  BY SetScreenSizeSame
    <2> HIDE DEF f
    <2>9. Same(f, AddButtons(f))  BY SettingsAreSame
    <2>10. Same(u, OnceOnly)  BY <2>2, <2>3, <2>4, <2>5, <2>6, <2>7, <2>8, <2>9, SameOn
    <2> HIDE DEF Starts
    <2>11. QED  BY <1>1, <2>1, <2>10
  <1> DEFINE shown == [OnceOnly EXCEPT !.hidden = @ \ world.shown,
                                       !.paintingEnabled = "toolbox" \in world.shown]
             at == world.dragged @@ shown.at
             desired == world.dragged @@ shown.desiredLocation
             dragged == [shown EXCEPT !.at = at, !.desiredLocation = desired]
  <1>3. StartingUi = ActivateButton(dragged, world.tool)  BY DEF StartingUi
  <1>4. Same(OnceOnly, shown)  BY DEF Same, SimFields
  <1> HIDE DEF shown, at, desired
  <1>5. Same(shown, dragged)  BY DEF Same, SimFields
  <1> HIDE DEF dragged
  <1>6. Same(dragged, ActivateButton(dragged, world.tool))  BY SettingsAreSame
  <1> HIDE DEF Starts
  <1>7. Starts(StartingUi)  BY <1>1, <1>2, <1>3, <1>4, <1>5, <1>6
  <1>8. QED  BY <1>7 DEF Starts

\* What a world starts from is legal, and the interface works on a state of it.
GuiInv == LegalWorld(world) /\ GoodUi(world, ui)

LEMMA GuiStarts ==
  ASSUME NEW Worlds, \A w \in Worlds : LegalWorld(w), GuiInit(Worlds)
  PROVE  GuiInv
  <1>1. LegalWorld(world)  BY DEF GuiInit
  <1>2. GoodUi(world, StartingUi)
    <2>1. world.param = [e \in DOMAIN world.param |-> world.param[e]]
          /\ world.grid = [pt \in DOMAIN world.grid |->
                             [type |-> world.grid[pt].type, bits |-> world.grid[pt].bits]]
      BY <1>1 DEF LegalWorld
    <2>2. GoodGrid(world, world.grid)  BY <2>1 DEF GoodGrid, IsAtom
    <2>3. QED  BY <2>1, <2>2, StartingSame DEF GoodUi
  <1>3. ui = LoadFromConfigurationPath(StartingUi)  BY DEF GuiInit
  <1>4. QED  BY <1>1, <1>2, <1>3, LoadGood DEF GuiInv

LEMMA FrameGood ==
  ASSUME GuiInv, Frame
  PROVE  GoodUi(world, ui')
  <1> DEFINE u == Unpaused(KeyboardUpdate(ui))
  <1>1. GoodUi(world, u)
    <2>1. Same(ui, KeyboardUpdate(ui))  BY KeyboardUpdateSame
    <2>2. Same(KeyboardUpdate(ui), u)  BY SettingsAreSame
    <2>3. QED  BY <2>1, <2>2, SameIsGood DEF GuiInv
  <1>2. CASE ui' = u  BY <1>1, <1>2
  <1>3. CASE \E grid \in GridRuns(u.grid) : ui' = AfterFrame([u EXCEPT !.grid = grid])
    <2> HIDE DEF u
    <2>1. PICK grid \in GridRuns(u.grid) : ui' = AfterFrame([u EXCEPT !.grid = grid])  BY <1>3
    <2> DEFINE run == [u EXCEPT !.grid = grid]
               v == IF run.singleStep
                    THEN [run EXCEPT !.singleStep = FALSE, !.keyboardPaused = TRUE] ELSE run
               saved == SavedInFrame(v)
    <2>2. GoodGrid(world, grid)
      <3>1. grid = u.grid \/ \E pt, born : grid = [u.grid EXCEPT ![pt] = GetDefaultAtom(born)]
        BY DEF GridRuns
      <3>2. QED  BY <1>1, <3>1, DefaultIsAtom DEF GoodUi, GoodGrid
    <2>3. GoodUi(world, run)  BY <1>1, <2>2, NewGridIsGood
    <2> HIDE DEF run
    <2>4. Same(run, v)  BY DEF Same, SimFields
    <2>5. ui' = IF Halts /\ saved.status = "running"
                THEN [saved EXCEPT !.status = "halted"] ELSE saved
      BY <2>1 DEF AfterFrame, run
    <2> HIDE DEF v
    <2>6. Same(v, saved)  BY SettingsAreSame, SameIsSame DEF SavedInFrame
    <2> HIDE DEF saved
    <2>7. Same(saved, ui')
      <3>1. Same(saved, [saved EXCEPT !.status = "halted"])  BY DEF Same, SimFields
      <3>2. QED  BY <2>5, <3>1, SameIsSame
    <2>8. QED  BY <2>3, <2>4, <2>6, <2>7, SameIsGood
  <1>4. QED  BY <1>2, <1>3 DEF Frame

LEMMA GuiStep == GuiInv /\ [GuiNext]_gui => GuiInv'
  <1> SUFFICES ASSUME GuiInv, [GuiNext]_gui  PROVE GuiInv'
    OBVIOUS
  <1>1. world' = world
    BY DEF GuiNext, gui, KeyDown, KeyUp, MouseMotion, MouseButtonDown, MouseButtonUp,
           Handled, VideoResize, Frame
  <1> SUFFICES GoodUi(world, ui')
    BY <1>1 DEF GuiInv
  <1>2. CASE UNCHANGED gui  BY <1>2 DEF gui, GuiInv
  <1>3. ASSUME NEW e, Handled(e)  PROVE GoodUi(world, ui')
    <2> DEFINE v == Dispatch(ui, e).u
    <2>1. GoodUi(world, v)  BY DispatchGood DEF GuiInv
    <2>2. ui' = Kept(v)  BY <1>3 DEF Handled
    <2> HIDE DEF v
    <2>3. QED  BY <2>1, <2>2, SettingsAreSame, SameIsGood
  <1>4. ASSUME NEW k, KeyDown(k) \/ KeyUp(k)  PROVE GoodUi(world, ui')
    BY <1>4 DEF KeyDown, KeyUp, GuiInv
  <1>5. ASSUME NEW to, MouseMotion(to)  PROVE GoodUi(world, ui')
    BY <1>3, <1>5 DEF MouseMotion
  <1>6. ASSUME NEW b, MouseButtonDown(b) \/ MouseButtonUp(b)  PROVE GoodUi(world, ui')
    BY <1>3, <1>6 DEF MouseButtonDown, MouseButtonUp
  <1>7. ASSUME NEW size, VideoResize(size)  PROVE GoodUi(world, ui')
    BY <1>7, SetScreenSizeSame, SameIsGood DEF VideoResize, GuiInv
  <1>8. CASE Frame  BY <1>8, FrameGood
  <1>9. QED  BY <1>2, <1>4, <1>5, <1>6, <1>7, <1>8 DEF GuiNext

LEMMA GuiStatesRoundTrip == GuiInv => RoundTrip
  <1> SUFFICES ASSUME GuiInv  PROVE RoundTrip
    OBVIOUS
  <1>1. DOMAIN ui.grid = DOMAIN world.grid /\ TilesOf(ui.grid) = TilesOf(world.grid)
    BY SameTiles DEF GuiInv
  <1>2. ui.grid = [pt \in DOMAIN ui.grid |-> [type |-> ui.grid[pt].type, bits |-> ui.grid[pt].bits]]
    BY DEF GuiInv, GoodUi, GoodGrid, IsAtom
  <1>3. /\ ui.param = [e \in DOMAIN ui.param |-> ui.param[e]]
        /\ StartingUi.param = [e \in DOMAIN ui.param |-> StartingUi.param[e]]
        /\ \A e \in DOMAIN ui.param : \E k \in DOMAIN world.registry : world.registry[k].uuid = e
    BY StartingSame DEF GuiInv, GoodUi, LegalWorld
  <1>4. StatesOf(world.registry, StartingUi, ui)
    BY <1>1, <1>2, <1>3, ListIsSequence, StartingSame
       DEF StatesOf, GuiInv, GoodUi, LegalWorld, SimFields
  <1>5. QED  BY <1>4, SavedStateIsRestored DEF RoundTrip

\* Whatever the user and the grid do, in a simulation of any grid, registry and files, the
\* interface is in a state that can be saved and loaded: RoundTrip.
THEOREM InterfaceStatesAreRestored ==
  ASSUME NEW Worlds, \A w \in Worlds : LegalWorld(w)
  PROVE  GuiInit(Worlds) /\ [][GuiNext]_gui => []RoundTrip
  <1>1. GuiInit(Worlds) => GuiInv  BY GuiStarts
  <1>2. QED  BY <1>1, GuiStep, GuiStatesRoundTrip, PTL
=============================================================================
