------------------------- MODULE BenchBudgetProofs --------------------------
(***************************************************************************)
(* Proof that a verdict of the benchmark gate is earned: what the gate     *)
(* reads was written by one recording, and half the runs are on the side   *)
(* of the median.                                                          *)
(***************************************************************************)
EXTENDS BenchBudget, FiniteSetTheorems, WellFoundedInduction, TLAPS

-----------------------------------------------------------------------------
(* The median *)

\* A set of natural numbers that is not empty has a least element.
LEMMA LeastNumber ==
    ASSUME NEW S \in SUBSET Nat, S # {}
    PROVE  \E x \in S : \A y \in S : x <= y
<1> DEFINE R == {x \in Nat \X Nat : x[1] < x[2]}
<1>1. IsWellFoundedOn(R, Nat)
  BY NatLessThanWellFounded DEF OpToRel
<1>2. PICK x \in S : \A y \in S : ~(<<y, x>> \in R)
  <2> HIDE DEF R
  <2> QED  BY <1>1, WFMin
<1>3. \A y \in S : ~(y < x)
  BY <1>2
<1> QED  BY <1>3

\* Positions of a sequence are counted by numbers, and a part by fewer.
LEMMA PositionsCounted ==
    ASSUME NEW n \in Nat
    PROVE  /\ \A S \in SUBSET (1..n) :
                /\ IsFiniteSet(S) /\ Cardinality(S) \in Nat /\ Cardinality(S) <= n
                /\ Cardinality((1..n) \ S) = n - Cardinality(S)
           /\ \A S, T \in SUBSET (1..n) : S \subseteq T => Cardinality(S) <= Cardinality(T)
           /\ \A S, T \in SUBSET (1..n) :
                S \subseteq T /\ Cardinality(S) = Cardinality(T) => S = T
<1>1. IsFiniteSet(1..n) /\ Cardinality(1..n) = n
  BY FS_Interval
<1>2. ASSUME NEW S \in SUBSET (1..n)
      PROVE  IsFiniteSet(S) /\ Cardinality(S) \in Nat /\ Cardinality(S) <= n
  BY <1>1, FS_Subset, FS_CardinalityType
<1>3. ASSUME NEW S \in SUBSET (1..n) PROVE Cardinality((1..n) \ S) = n - Cardinality(S)
  <2>1. (1..n) \cap S = S
    OBVIOUS
  <2>2. Cardinality((1..n) \ S) = Cardinality(1..n) - Cardinality((1..n) \cap S)
    BY <1>1, FS_Difference
  <2> QED  BY <1>1, <2>1, <2>2
<1>4. ASSUME NEW S \in SUBSET (1..n), NEW T \in SUBSET (1..n), S \subseteq T
      PROVE  Cardinality(S) <= Cardinality(T) /\ (Cardinality(S) = Cardinality(T) => S = T)
  BY <1>2, <1>4, FS_Subset
<1> QED  BY <1>2, <1>3, <1>4

\* Among the values that have a property some value has, one has the most others up to it.
LEMMA GreatestExists ==
    ASSUME NEW n \in Nat, NEW values \in [1..n -> Int], Len(values) = n,
           NEW S \in SUBSET (1..n), S # {}
    PROVE  \E i \in S : \A j \in S : values[j] <= values[i]
<1> DEFINE count(v) == Cardinality(UpTo(values, v))
           left == {n - count(values[i]) : i \in S}
<1>1. \A v : UpTo(values, v) \in SUBSET (1..n)
  BY DEF UpTo
<1>2. \A v : count(v) \in Nat /\ count(v) <= n
  BY <1>1, PositionsCounted
<1>3. left \in SUBSET Nat /\ left # {}
  <2>1. \A v : n - count(v) \in Nat
    <3> HIDE DEF count
    <3> QED  BY <1>2
  <2> HIDE DEF count
  <2> QED  BY <2>1
<1>4. PICK x \in left : \A y \in left : x <= y
  <2> HIDE DEF left
  <2> QED  BY <1>3, LeastNumber
<1>5. PICK i \in S : x = n - count(values[i])
  BY <1>4
<1>6. ASSUME NEW j \in S PROVE values[j] <= values[i]
  <2> SUFFICES ASSUME values[i] < values[j] PROVE FALSE
    OBVIOUS
  <2>1. UpTo(values, values[i]) \subseteq UpTo(values, values[j])
    BY DEF UpTo
  <2>2. j \in UpTo(values, values[j]) /\ j \notin UpTo(values, values[i])
    BY DEF UpTo
  <2>3. count(values[i]) <= count(values[j]) /\ count(values[i]) # count(values[j])
    BY <1>1, <2>1, <2>2, PositionsCounted
  <2>4. n - count(values[j]) \in left
    OBVIOUS
  <2> HIDE DEF count, left
  <2> QED  BY <1>2, <1>4, <1>5, <2>3, <2>4
<1> QED  BY <1>6

\* Sorting finds a value for every place.
LEMMA SortedFacts ==
    ASSUME NEW n \in Nat, NEW values \in [1..n -> Int], Len(values) = n, NEW k \in 1..n
    PROVE  LET v == Sorted(values)[k]
           IN  /\ v \in Int
               /\ Cardinality(Below(values, v)) < k /\ k <= Cardinality(UpTo(values, v))
<1> DEFINE below(v) == Cardinality(Below(values, v))
           count(v) == Cardinality(UpTo(values, v))
           enough == {i \in 1..n : k <= count(values[i])}
           counts == {count(values[i]) : i \in enough}
<1>1. \A v : UpTo(values, v) \in SUBSET (1..n) /\ Below(values, v) \in SUBSET (1..n)
  BY DEF UpTo, Below
<1>2. \A v : count(v) \in Nat /\ below(v) \in Nat
  BY <1>1, PositionsCounted
<1>3. enough # {}
  <2>1. 1..n # {} /\ 1..n \in SUBSET (1..n)
    OBVIOUS
  <2>2. PICK i \in 1..n : \A j \in 1..n : values[j] <= values[i]
    BY <2>1, GreatestExists
  <2>3. UpTo(values, values[i]) = 1..n
    BY <2>2 DEF UpTo
  <2>4. count(values[i]) = n
    BY <2>3, FS_Interval
  <2> QED  BY <2>2, <2>4
<1>4. counts \in SUBSET Nat /\ counts # {}
  <2> HIDE DEF count
  <2> QED  BY <1>2, <1>3
<1>5. PICK x \in counts : \A y \in counts : x <= y
  <2> HIDE DEF counts
  <2> QED  BY <1>4, LeastNumber
<1>6. PICK i \in 1..n : k <= count(values[i]) /\ x = count(values[i])
  BY <1>5
<1>7. below(values[i]) < k
  <2> SUFFICES ASSUME k <= below(values[i]) PROVE FALSE
    BY <1>2
  <2>1. Below(values, values[i]) # {}
    <3> SUFFICES ASSUME Below(values, values[i]) = {} PROVE FALSE
      OBVIOUS
    <3> QED  BY FS_EmptySet
  <2>2. PICK j \in Below(values, values[i]) : \A m \in Below(values, values[i]) : values[m] <= values[j]
    BY <1>1, <2>1, GreatestExists
  <2>3. j \in 1..n /\ values[j] < values[i]
    BY DEF Below
  <2>4. UpTo(values, values[j]) = Below(values, values[i])
    BY <2>2, <2>3 DEF UpTo, Below
  <2>5. i \in UpTo(values, values[i]) /\ i \notin UpTo(values, values[j])
    BY <2>3 DEF UpTo
  <2>6. UpTo(values, values[j]) \subseteq UpTo(values, values[i])
    BY <2>3 DEF UpTo
  <2>7. count(values[j]) <= count(values[i]) /\ count(values[j]) # count(values[i])
    BY <1>1, <2>5, <2>6, PositionsCounted
  <2>8. k <= count(values[j])
    BY <2>4
  <2>9. count(values[j]) \in counts
    BY <2>3, <2>8
  <2> HIDE DEF count, below, counts
  <2> QED  BY <1>2, <1>5, <1>6, <2>7, <2>9
<1>8. values[i] \in ToSet(values) /\ \A v \in ToSet(values) : v \in Int
  BY DEF ToSet
<1>9. \E v \in ToSet(values) : below(v) < k /\ k <= count(v)
  BY <1>6, <1>7, <1>8
<1>10. Sorted(values)[k] = CHOOSE v \in ToSet(values) : below(v) < k /\ k <= count(v)
  BY DEF Sorted
<1> HIDE DEF below, count
<1>11. Sorted(values)[k] \in ToSet(values) /\ below(Sorted(values)[k]) < k /\ k <= count(Sorted(values)[k])
  BY <1>9, <1>10
<1> QED  BY <1>8, <1>11 DEF below, count

\* Half the values are on the side of the budget the median is on.
LEMMA MedianFacts ==
    ASSUME NEW n \in Nat \ {0}, NEW values \in [1..n -> Int], Len(values) = n
    PROVE  LET over == {i \in 1..n : values[i] > Budget}
           IN  IF TwiceMedian(values) <= 2 * Budget THEN 2 * Cardinality(over) <= n
                                                    ELSE 2 * Cardinality(over) >= n
<1> DEFINE over == {i \in 1..n : values[i] > Budget}
           half == n \div 2
           sorted == Sorted(values)
<1>1. Budget \in Int
  BY BenchAssumption
<1>2. half \in Nat /\ (n = 2 * half \/ n = 2 * half + 1) /\ (n % 2 = 0 <=> n = 2 * half)
  OBVIOUS
<1>3. Len(sorted) = n
  <2>1. sorted \in [1..n -> Int]
    <3>1. \A k \in 1..n : sorted[k] \in Int
      BY SortedFacts
    <3>2. sorted = [k \in 1..n |-> sorted[k]]
      BY DEF Sorted
    <3> HIDE DEF sorted
    <3> QED  BY <3>1, <3>2
  <2> HIDE DEF sorted
  <2> QED  BY <2>1
<1>4. TwiceMedian(values) = IF n % 2 = 0 THEN sorted[half] + sorted[half + 1] ELSE 2 * sorted[half + 1]
  BY <1>3 DEF TwiceMedian
<1>5. ASSUME NEW k \in 1..n
      PROVE  /\ sorted[k] \in Int
             /\ sorted[k] <= Budget => Cardinality(over) <= n - k
             /\ sorted[k] > Budget => Cardinality(over) >= n - k + 1
             /\ Cardinality(over) \in Nat
  <2> DEFINE v == sorted[k]
             lower == Below(values, v)
             upTo == UpTo(values, v)
  <2>1. v \in Int /\ Cardinality(lower) < k /\ k <= Cardinality(upTo)
    BY SortedFacts
  <2>2. lower \in SUBSET (1..n) /\ upTo \in SUBSET (1..n) /\ over \in SUBSET (1..n)
    BY DEF Below, UpTo
  <2>3. v <= Budget => over \subseteq (1..n) \ upTo
    BY <1>1, <2>1 DEF UpTo
  <2>4. v > Budget => (1..n) \ lower \subseteq over
    BY <1>1, <2>1 DEF Below
  <2> HIDE DEF v, lower, upTo, over
  <2>5. /\ Cardinality((1..n) \ upTo) = n - Cardinality(upTo)
        /\ Cardinality((1..n) \ lower) = n - Cardinality(lower)
        /\ Cardinality(upTo) \in Nat /\ Cardinality(lower) \in Nat /\ Cardinality(over) \in Nat
    BY <2>2, PositionsCounted
  <2>6. /\ v <= Budget => Cardinality(over) <= Cardinality((1..n) \ upTo)
        /\ v > Budget => Cardinality((1..n) \ lower) <= Cardinality(over)
    <3>1. (1..n) \ upTo \in SUBSET (1..n) /\ (1..n) \ lower \in SUBSET (1..n)
      OBVIOUS
    <3> QED  BY <2>2, <2>3, <2>4, <3>1, PositionsCounted
  <2>7. /\ v \in Int
        /\ v <= Budget => Cardinality(over) <= n - k
        /\ v > Budget => Cardinality(over) >= n - k + 1
        /\ Cardinality(over) \in Nat
    BY <2>1, <2>5, <2>6
  <2> QED  BY <2>7 DEF v
<1> HIDE DEF over, sorted, half
<1>6. half + 1 \in 1..n \/ n = 2 * half
  BY <1>2
<1>7. CASE n = 2 * half
  <2>1. half \in 1..n /\ half + 1 \in 1..n
    BY <1>2, <1>7
  <2>2. sorted[half] <= sorted[half + 1]
    <3>1. Cardinality(over) \in Nat
      BY <1>5, <2>1
    <3> DEFINE a == sorted[half]
               b == sorted[half + 1]
    <3>2. /\ a \in Int /\ Cardinality(Below(values, a)) < half
          /\ b \in Int /\ half + 1 <= Cardinality(UpTo(values, b))
      BY <2>1, SortedFacts DEF sorted
    <3>3. b < a => UpTo(values, b) \subseteq Below(values, a)
      BY <3>2 DEF UpTo, Below
    <3>4. UpTo(values, b) \in SUBSET (1..n) /\ Below(values, a) \in SUBSET (1..n)
      BY DEF UpTo, Below
    <3> HIDE DEF a, b
    <3>5. b < a => Cardinality(UpTo(values, b)) <= Cardinality(Below(values, a))
      BY <3>3, <3>4, PositionsCounted
    <3>6. Cardinality(UpTo(values, b)) \in Nat /\ Cardinality(Below(values, a)) \in Nat
      BY <3>4, PositionsCounted
    <3>7. a <= b
      BY <1>2, <3>2, <3>5, <3>6
    <3> QED  BY <3>7 DEF a, b
  <2>3. /\ sorted[half] \in Int /\ sorted[half + 1] \in Int
        /\ sorted[half] <= Budget => Cardinality(over) <= half
        /\ sorted[half + 1] > Budget => Cardinality(over) >= half
    BY <1>2, <1>5, <1>7, <2>1
  <2>4. TwiceMedian(values) = sorted[half] + sorted[half + 1] /\ Cardinality(over) \in Nat
    BY <1>2, <1>4, <1>5, <1>7, <2>1
  <2>5. /\ TwiceMedian(values) <= 2 * Budget => sorted[half] <= Budget
        /\ ~(TwiceMedian(values) <= 2 * Budget) => sorted[half + 1] > Budget
    <3> DEFINE a == sorted[half]
               b == sorted[half + 1]
               t == TwiceMedian(values)
    <3>1. a \in Int /\ b \in Int /\ a <= b /\ t = a + b
      BY <2>2, <2>3, <2>4
    <3> HIDE DEF a, b, t
    <3>2. (t <= 2 * Budget => a <= Budget) /\ (~(t <= 2 * Budget) => b > Budget)
      BY <1>1, <3>1
    <3> QED  BY <3>2 DEF a, b, t
  <2>6. /\ TwiceMedian(values) <= 2 * Budget => 2 * Cardinality(over) <= n
        /\ ~(TwiceMedian(values) <= 2 * Budget) => 2 * Cardinality(over) >= n
    <3> DEFINE o == Cardinality(over)
    <3>1. o \in Nat /\ (o <= half => 2 * o <= n) /\ (o >= half => 2 * o >= n)
      <4> HIDE DEF o
      <4>1. o \in Nat
        BY <2>4 DEF o
      <4> QED  BY <1>2, <1>7, <4>1
    <3> HIDE DEF o
    <3>2. (sorted[half] <= Budget => o <= half) /\ (sorted[half + 1] > Budget => o >= half)
      BY <2>3 DEF o
    <3>3. /\ TwiceMedian(values) <= 2 * Budget => 2 * o <= n
          /\ ~(TwiceMedian(values) <= 2 * Budget) => 2 * o >= n
      BY <2>5, <3>1, <3>2
    <3> QED  BY <3>3 DEF o
  <2> QED  BY <2>6 DEF over
<1>8. CASE n = 2 * half + 1
  <2>1. half + 1 \in 1..n /\ n % 2 # 0
    BY <1>2, <1>8
  <2>2. /\ sorted[half + 1] \in Int /\ Cardinality(over) \in Nat
        /\ sorted[half + 1] <= Budget => Cardinality(over) <= half
        /\ sorted[half + 1] > Budget => Cardinality(over) >= half + 1
    BY <1>2, <1>5, <1>8, <2>1
  <2>3. TwiceMedian(values) = 2 * sorted[half + 1]
    BY <1>4, <2>1
  <2>4. /\ TwiceMedian(values) <= 2 * Budget => 2 * Cardinality(over) <= n
        /\ ~(TwiceMedian(values) <= 2 * Budget) => 2 * Cardinality(over) >= n
    BY <1>1, <1>2, <1>8, <2>2, <2>3
  <2> QED  BY <2>4 DEF over
<1> QED  BY <1>2, <1>7, <1>8

-----------------------------------------------------------------------------
(* The invariant: recordings do not interleave in the directory *)

Place == (Nat \ {0}) \X Sides
Position(slot) == 2 * slot[1] - (IF slot[2] = "direct" THEN 1 ELSE 0)

Recorder == [state : {"Idle", "Done", "Clearing", "Recording"}, dir : Dirs, runs : Nat, left : Seq(Place)]

ClockInv ==
    /\ home \in Dirs /\ clock \in Nat /\ recording \in Nat
    /\ started \in Seq(Nat) /\ Len(started) = recording
    /\ \A r \in 1..recording : started[r] <= clock

FileInv ==
    /\ DOMAIN files \subseteq Place
    /\ \A s \in DOMAIN files :
         /\ files[s].point \in Int
         /\ files[s].recording \in 1..recording /\ files[s].modified \in Nat
         /\ files[s].modified <= clock /\ started[files[s].recording] <= files[s].modified

\* A later recording overwrites from the first run on, so it is never behind an
\* earlier one in the order of the runs; and it writes later.
LayerInv ==
    \A s, t \in DOMAIN files :
        /\ Position(s) < Position(t) => files[t].recording <= files[s].recording
        /\ files[t].recording < files[s].recording => files[t].modified <= files[s].modified

\* What the recorder has still to write; what comes before is its own.
RecorderInv ==
    /\ recorder \in Recorder
    /\ recorder.state \in {"Clearing", "Recording"} => verdict = << >> /\ recording > 0
    /\ recorder.state = "Clearing" => Len(recorder.left) = 2 * recorder.runs
    /\ Len(recorder.left) <= 2 * recorder.runs
    /\ \A j \in 1..Len(recorder.left) :
         Position(recorder.left[j]) = (2 * recorder.runs - Len(recorder.left)) + j
    /\ recorder.state = "Recording" =>
         \A s \in DOMAIN files : Position(s) <= 2 * recorder.runs - Len(recorder.left) =>
             files[s].recording = recording

BInv == ClockInv /\ FileInv /\ LayerInv /\ RecorderInv /\ VerdictIsEarned

\* Slots have different positions, the first of which is 1.
LEMMA PositionFacts ==
    /\ \A s \in Place : Position(s) \in Nat /\ Position(s) >= 1
    /\ \A s, t \in Place : Position(s) = Position(t) => s = t
<1>1. ASSUME NEW s \in Place
      PROVE  s = <<s[1], s[2]>> /\ s[1] \in Nat /\ s[1] >= 1 /\ s[2] \in {"direct", "kernox"}
  BY DEF Place, Sides
<1>2. ASSUME NEW s \in Place PROVE Position(s) \in Nat /\ Position(s) >= 1
  BY <1>1 DEF Position
<1>3. ASSUME NEW s \in Place, NEW t \in Place, Position(s) = Position(t) PROVE s = t
  <2>1. s[1] = t[1] /\ s[2] = t[2]
    BY <1>1, <1>3 DEF Position
  <2> QED  BY <1>1, <2>1
<1> QED  BY <1>2, <1>3

\* The sequence of a recording takes the positions one after the other.
LEMMA SequenceFacts ==
    ASSUME NEW runs \in Nat
    PROVE  /\ Sequence(runs) \in Seq(Place) /\ Len(Sequence(runs)) = 2 * runs
           /\ \A j \in 1..(2 * runs) : Position(Sequence(runs)[j]) = j
<1>1. ASSUME NEW j \in 1..(2 * runs)
      PROVE  Sequence(runs)[j] \in Place /\ Position(Sequence(runs)[j]) = j
  <2> DEFINE h == (j + 1) \div 2
             side == IF j % 2 = 1 THEN "direct" ELSE "kernox"
  <2>1. Sequence(runs)[j] = <<h, side>>
    BY DEF Sequence
  <2>2. h \in Nat \ {0} /\ side \in Sides /\ j = 2 * h - (IF side = "direct" THEN 1 ELSE 0)
    BY DEF Sides
  <2> HIDE DEF h, side
  <2>3. <<h, side>> \in Place /\ Position(<<h, side>>) = j
    BY <2>2 DEF Place, Position
  <2> QED  BY <2>1, <2>3
<1>2. \A j \in 1..(2 * runs) : Sequence(runs)[j] \in Place
  BY <1>1
<1>3. Sequence(runs) \in [1..(2 * runs) -> Place]
  <2>1. Sequence(runs) = [j \in 1..(2 * runs) |-> Sequence(runs)[j]]
    BY DEF Sequence
  <2> QED  BY <1>2, <2>1
<1>4. 2 * runs \in Nat
  OBVIOUS
<1> QED  BY <1>1, <1>3, <1>4

\* An empty directory, or a part of what was there, is no worse.
LEMMA Subtree ==
    ASSUME FileInv, LayerInv, UNCHANGED <<clock, recording, started>>,
           DOMAIN files' \subseteq DOMAIN files, \A s \in DOMAIN files' : files'[s] = files[s]
    PROVE  FileInv' /\ LayerInv'
<1>1. FileInv'
  BY DEF FileInv
<1>2. LayerInv'
  BY DEF LayerInv
<1> QED  BY <1>1, <1>2

\* Without a verdict nothing has to be earned.
LEMMA NoVerdict == ASSUME verdict' = << >> PROVE VerdictIsEarned'
<1>1. ToSet(verdict') = {}
  BY DEF ToSet
<1> QED  BY <1>1 DEF VerdictIsEarned

\* The recorder is called.
LEMMA BeginRecordStep ==
    ASSUME BInv, NEW dir \in Dirs, NEW runs \in 1..MaxRuns, BeginRecord(dir, runs) PROVE BInv'
<1> USE DEF BInv
<1>1. runs \in Nat /\ MaxRuns \in Nat
  BY BenchAssumption
<1>2. /\ recorder' = [state |-> "Clearing", dir |-> dir, runs |-> runs, left |-> Sequence(runs)]
      /\ recording' = recording + 1 /\ started' = Append(started, clock) /\ verdict' = << >>
      /\ UNCHANGED <<home, files, clock, ties>>
  BY DEF BeginRecord
<1>3. /\ started' \in Seq(Nat) /\ Len(started') = recording'
      /\ \A r \in 1..recording : started'[r] = started[r]
      /\ started'[recording'] = clock
  BY <1>2 DEF ClockInv
<1>4. ClockInv'
  BY <1>2, <1>3 DEF ClockInv
<1>5. FileInv'
  <2> SUFFICES ASSUME NEW s \in DOMAIN files
               PROVE  /\ s \in Place /\ files[s].point \in Int
                      /\ files[s].recording \in 1..(recording + 1) /\ files[s].modified \in Nat
                      /\ files[s].modified <= clock /\ started'[files[s].recording] <= files[s].modified
    BY <1>2 DEF FileInv
  <2> QED  BY <1>3 DEF FileInv, ClockInv
<1>6. LayerInv'
  BY <1>2 DEF LayerInv
<1>7. RecorderInv'
  <2> DEFINE left == Sequence(runs)
  <2>1. left \in Seq(Place) /\ Len(left) = 2 * runs /\ \A j \in 1..Len(left) : Position(left[j]) = j
    BY <1>1, SequenceFacts
  <2> HIDE DEF left
  <2>2. /\ recorder'.state = "Clearing" /\ recorder'.runs = runs /\ recorder'.left = left
        /\ recorder' \in Recorder
    BY <1>1, <1>2, <2>1 DEF Recorder, left
  <2>3. \A j \in 1..Len(left) : Position(left[j]) = (2 * runs - Len(left)) + j
    BY <1>1, <2>1
  <2> QED  BY <1>1, <1>2, <2>1, <2>2, <2>3 DEF RecorderInv, ClockInv
<1> QED  BY <1>2, <1>4, <1>5, <1>6, <1>7, NoVerdict

\* The directory is cleared, if it is the one that is written.
LEMMA ClearStep == BInv /\ Clear => BInv'
<1> SUFFICES ASSUME BInv, Clear PROVE BInv'
  OBVIOUS
<1> USE DEF BInv
<1>1. /\ recorder.state = "Clearing" /\ recorder' = [recorder EXCEPT !.state = "Recording"]
      /\ files' = (IF recorder.dir = home THEN NoFiles ELSE files)
      /\ UNCHANGED <<home, clock, ties, recording, started, verdict>>
  BY DEF Clear
<1>2. DOMAIN files' \subseteq DOMAIN files /\ \A s \in DOMAIN files' : files'[s] = files[s]
  BY <1>1 DEF NoFiles
<1>3. FileInv' /\ LayerInv' /\ ClockInv'
  BY <1>1, <1>2, Subtree DEF ClockInv
<1>4. /\ recorder'.state = "Recording" /\ recorder'.runs = recorder.runs
      /\ recorder'.left = recorder.left /\ recorder' \in Recorder
  BY <1>1 DEF RecorderInv, Recorder
<1>5. verdict' = << >> /\ recording' > 0
  BY <1>1 DEF RecorderInv
<1>6. \A s \in DOMAIN files' : ~(Position(s) <= 2 * recorder.runs - Len(recorder.left))
  BY <1>1, <1>3, PositionFacts DEF FileInv, RecorderInv, Recorder
<1>7. RecorderInv'
  BY <1>1, <1>4, <1>5, <1>6 DEF RecorderInv
<1> QED  BY <1>3, <1>5, <1>7, NoVerdict

\* The recorder ends without writing: a clear that fails, a stop, or the return.
LEMMA EndRecordStep == BInv /\ (ClearFails \/ StopRecording \/ RecordReturns) => BInv'
<1> SUFFICES ASSUME BInv, ClearFails \/ StopRecording \/ RecordReturns PROVE BInv'
  OBVIOUS
<1> USE DEF BInv
<1>1. PICK next \in {"Idle", "Done"} : recorder' = [recorder EXCEPT !.state = next]
  BY DEF ClearFails, StopRecording, RecordReturns
<1>2. /\ recorder.state \in {"Clearing", "Recording"}
      /\ UNCHANGED <<home, clock, ties, recording, started, verdict>>
  BY DEF ClearFails, StopRecording, RecordReturns
<1>3. DOMAIN files' \subseteq DOMAIN files /\ \A s \in DOMAIN files' : files'[s] = files[s]
  BY DEF ClearFails, StopRecording, RecordReturns
<1>4. FileInv' /\ LayerInv' /\ ClockInv'
  BY <1>2, <1>3, Subtree DEF ClockInv
<1>5. /\ recorder'.state = next /\ recorder'.runs = recorder.runs
      /\ recorder'.left = recorder.left /\ recorder' \in Recorder
  BY <1>1 DEF RecorderInv, Recorder
<1>6. RecorderInv'
  BY <1>1, <1>5 DEF RecorderInv
<1>7. verdict' = << >>
  BY <1>2 DEF RecorderInv
<1> QED  BY <1>4, <1>6, <1>7, NoVerdict

\* A benchmark writes the estimate of the next slot.
LEMMA BenchStep ==
    ASSUME BInv, NEW point \in Points["direct"] \cup Points["kernox"], Bench(point) PROVE BInv'
<1> USE DEF BInv
<1> DEFINE left == recorder.left
           slot == Head(left)
           done == 2 * recorder.runs - Len(left)
<1>1. /\ recorder.state = "Recording" /\ left # << >>
      /\ recorder' = [recorder EXCEPT !.left = Tail(@)]
      /\ files' = [s \in DOMAIN files \cup {slot} |->
           IF s = slot THEN [point |-> point, modified |-> clock, recording |-> recording]
                       ELSE files[s]]
      /\ clock' = clock \/ clock' = clock + 1
      /\ UNCHANGED <<home, recording, started, verdict>>
  BY DEF Bench
<1>2. /\ left \in Seq(Place) /\ Len(left) \in Nat /\ Len(left) > 0 /\ recorder.runs \in Nat
      /\ slot \in Place /\ slot = left[1] /\ done \in Nat
      /\ Tail(left) \in Seq(Place) /\ Len(Tail(left)) = Len(left) - 1
      /\ \A j \in 1..(Len(left) - 1) : Tail(left)[j] = left[j + 1]
  BY <1>1 DEF RecorderInv, Recorder
<1>3. Position(slot) = done + 1
  BY <1>2 DEF RecorderInv
<1>4. point \in Int
  BY BenchAssumption DEF Sides
<1>5. /\ clock \in Nat /\ clock' \in Nat /\ clock <= clock' /\ recording \in Nat /\ recording > 0
      /\ recording' = recording /\ started' = started /\ started[recording] <= clock
  BY <1>1 DEF ClockInv, RecorderInv
<1>6. ClockInv'
  BY <1>1, <1>5 DEF ClockInv
<1>7. /\ DOMAIN files' = DOMAIN files \cup {slot}
      /\ files'[slot].point = point /\ files'[slot].modified = clock
      /\ files'[slot].recording = recording
      /\ \A s \in DOMAIN files \ {slot} : files'[s] = files[s]
  BY <1>1
<1> HIDE DEF slot, left
<1>8. FileInv'
  <2> SUFFICES ASSUME NEW s \in DOMAIN files'
               PROVE  /\ s \in Place /\ files'[s].point \in Int
                      /\ files'[s].recording \in 1..recording /\ files'[s].modified \in Nat
                      /\ files'[s].modified <= clock' /\ started[files'[s].recording] <= files'[s].modified
    BY <1>5 DEF FileInv
  <2>1. CASE s = slot
    BY <1>2, <1>4, <1>5, <1>7, <2>1
  <2>2. CASE s # slot
    BY <1>5, <1>7, <2>2 DEF FileInv
  <2> QED  BY <2>1, <2>2
<1>9. LayerInv'
  <2> SUFFICES ASSUME NEW s \in DOMAIN files', NEW t \in DOMAIN files'
               PROVE  /\ Position(s) < Position(t) => files'[t].recording <= files'[s].recording
                      /\ files'[t].recording < files'[s].recording => files'[t].modified <= files'[s].modified
    BY DEF LayerInv
  <2>1. CASE s = slot
    BY <1>5, <1>7, <1>8, <2>1 DEF FileInv
  <2>2. CASE s # slot /\ t = slot
    <3>1. Position(s) < Position(t) => files[s].recording = recording
      BY <1>1, <1>2, <1>3, <1>7, <2>2, PositionFacts DEF RecorderInv, left, FileInv
    <3> QED  BY <1>5, <1>7, <1>8, <2>2, <3>1 DEF FileInv
  <2>3. CASE s # slot /\ t # slot
    BY <1>7, <2>3 DEF LayerInv
  <2> QED  BY <2>1, <2>2, <2>3
<1>10. /\ recorder'.state = "Recording" /\ recorder'.runs = recorder.runs
       /\ recorder'.left = Tail(left) /\ recorder' \in Recorder
  BY <1>1, <1>2 DEF RecorderInv, Recorder, left
<1>11. RecorderInv'
  <2>1. verdict' = << >> /\ recording' > 0
    BY <1>1, <1>5 DEF RecorderInv
  <2>2. 2 * recorder.runs - Len(Tail(left)) = done + 1
    BY <1>2
  <2>3. \A j \in 1..Len(Tail(left)) : Position(Tail(left)[j]) = (done + 1) + j
    <3> SUFFICES ASSUME NEW j \in 1..(Len(left) - 1) PROVE Position(left[j + 1]) = (done + 1) + j
      BY <1>2
    <3>1. j + 1 \in 1..Len(left)
      BY <1>2
    <3>2. Position(left[j + 1]) = done + (j + 1)
      BY <3>1 DEF RecorderInv, left
    <3> QED  BY <1>2, <3>2
  <2>4. ASSUME NEW s \in DOMAIN files', Position(s) <= done + 1 PROVE files'[s].recording = recording
    <3>1. CASE s = slot
      BY <1>7, <3>1
    <3>2. CASE s # slot
      <4>1. s \in DOMAIN files /\ s \in Place /\ files'[s] = files[s]
        BY <1>7, <3>2 DEF FileInv
      <4>2. Position(s) # done + 1
        BY <1>2, <1>3, <3>2, <4>1, PositionFacts
      <4>3. Position(s) <= done
        BY <1>2, <2>4, <4>1, <4>2, PositionFacts
      <4> QED  BY <1>1, <4>1, <4>3 DEF RecorderInv, left
    <3> QED  BY <3>1, <3>2
  <2>5. Len(Tail(left)) <= 2 * recorder.runs
    BY <1>2
  <2> HIDE DEF done
  <2> QED  BY <1>5, <1>10, <2>1, <2>2, <2>3, <2>4, <2>5 DEF RecorderInv
<1>12. verdict' = << >>
  BY <1>1 DEF RecorderInv
<1> QED  BY <1>6, <1>8, <1>9, <1>11, <1>12, NoVerdict

\* Files written strictly one after the other are of one recording.
LEMMA OneRecording ==
    ASSUME FileInv, LayerInv, NEW runs \in Nat \ {0},
           (1..runs) \X Sides \subseteq DOMAIN files, Ordered(files, runs)
    PROVE  \A s \in (1..runs) \X Sides : files[s].recording = files[<<1, "direct">>].recording
<1> DEFINE read == (1..runs) \X Sides
           first == files[<<1, "direct">>].recording
           stray == {s \in read : files[s].recording # first}
           places == {Position(s) : s \in stray}
<1> SUFFICES ASSUME stray # {} PROVE FALSE
  OBVIOUS
<1>1. \A s \in read : s \in Place /\ s \in DOMAIN files
  BY DEF FileInv
<1>2. places \in SUBSET Nat /\ places # {}
  BY <1>1, PositionFacts
<1>3. PICK x \in places : \A y \in places : x <= y
  <2> HIDE DEF places
  <2> QED  BY <1>2, LeastNumber
<1>4. PICK s \in stray : x = Position(s)
  BY <1>3
<1>5. PICK i \in 1..runs, side \in {"direct", "kernox"} : s = <<i, side>>
  BY <1>4 DEF Sides
<1>6. i \in Nat /\ i >= 1 /\ i <= runs
  BY <1>5
<1>7. PICK t \in read : Position(t) = Position(s) - 1 /\ files[t].modified < files[s].modified
  <2>1. CASE side = "kernox"
    <3>1. <<i, "direct">> \in read
      BY DEF Sides
    <3>2. Position(<<i, "direct">>) = Position(s) - 1
      BY <1>5, <1>6, <2>1 DEF Position
    <3>3. files[<<i, "kernox">>].modified > files[<<i, "direct">>].modified
      BY DEF Ordered
    <3> QED  BY <1>5, <2>1, <3>1, <3>2, <3>3
  <2>2. CASE side = "direct"
    <3>1. i > 1
      BY <1>4, <1>5, <1>6, <2>2
    <3>2. <<i - 1, "kernox">> \in read
      BY <1>6, <3>1 DEF Sides
    <3>3. Position(<<i - 1, "kernox">>) = Position(s) - 1
      BY <1>5, <1>6, <2>2 DEF Position
    <3>4. files[<<i, "direct">>].modified > files[<<i - 1, "kernox">>].modified
      BY <3>1 DEF Ordered
    <3> QED  BY <1>5, <2>2, <3>2, <3>3, <3>4
  <2> QED  BY <1>5, <2>1, <2>2
<1>8. Position(s) \in Nat /\ Position(t) \in Nat
  BY <1>1, <1>4, <1>7, PositionFacts
<1>9. t \notin stray
  <2> SUFFICES ASSUME t \in stray PROVE FALSE
    OBVIOUS
  <2>1. Position(t) \in places
    OBVIOUS
  <2> HIDE DEF places
  <2> QED  BY <1>3, <1>4, <1>7, <1>8, <2>1
<1>10. files[t].recording = first
  BY <1>7, <1>9
<1>11. files[s].recording <= files[t].recording
  BY <1>1, <1>4, <1>7, <1>8 DEF LayerInv
<1>12. ~(files[s].recording < files[t].recording)
  BY <1>1, <1>4, <1>7 DEF LayerInv, FileInv
<1>13. files[s].recording \in Nat /\ files[t].recording \in Nat
  BY <1>1, <1>4, <1>7 DEF FileInv
<1> QED  BY <1>4, <1>10, <1>11, <1>12, <1>13

\* The gate is called.
LEMMA GateStep ==
    ASSUME BInv, NEW dir \in Dirs, NEW runs \in 1..MaxRuns, NEW not_before \in InvocationStarts,
           Gate(dir, runs, not_before)
    PROVE  BInv'
<1> USE DEF BInv
<1> DEFINE result == Evaluate(Under(dir), runs, not_before)
           v == [runs |-> runs, not_before |-> not_before, result |-> result]
           read == (1..runs) \X Sides
<1>1. /\ recorder.state \in {"Idle", "Done"} /\ verdict' = <<v>>
      /\ UNCHANGED <<home, files, clock, ties, recorder, recording, started>>
  BY DEF Gate, Idle
<1>2. ClockInv' /\ FileInv' /\ LayerInv' /\ RecorderInv'
  BY <1>1 DEF ClockInv, FileInv, LayerInv, RecorderInv
<1>3. runs \in Nat \ {0} /\ MinRuns \in Nat \ {0} /\ Budget \in Int
  BY BenchAssumption
<1>4. not_before \in Nat
  <2>1. CASE not_before = 0
    BY <2>1
  <2>2. CASE \E r \in DOMAIN started : not_before = (started[r] \div Second) * Second
    <3>1. PICK r \in DOMAIN started : not_before = (started[r] \div Second) * Second
      BY <2>2
    <3>2. started[r] \in Nat /\ Second \in Nat \ {0}
      BY <3>1, BenchAssumption DEF ClockInv
    <3>3. started[r] \div Second \in Nat
      BY <3>2
    <3> QED  BY <3>1, <3>2, <3>3
  <2> QED  BY <2>1, <2>2 DEF InvocationStarts
<1>5. ASSUME result \in {"Pass", "Fail"}
      PROVE  /\ runs >= MinRuns
             /\ \E r \in 1..recording : \A s \in read :
                  files[s].recording = r /\ files[s].modified >= started[r]
             /\ \A s \in read : files[s].modified >= not_before
             /\ LET over == {i \in 1..runs : Delta(files, i) > Budget}
                IN  IF result = "Pass" THEN 2 * Cardinality(over) <= runs
                                       ELSE 2 * Cardinality(over) >= runs
  <2> DEFINE tree == Under(dir)
             values == [i \in 1..runs |-> Delta(tree, i)]
  <2>1. /\ runs >= MinRuns /\ \A s \in read : Readable(tree, s)
        /\ \A s \in read : ~(tree[s].modified < not_before)
        /\ Ordered(tree, runs)
        /\ result = IF TwiceMedian(values) <= 2 * Budget THEN "Pass" ELSE "Fail"
    <3> HIDE DEF tree
    <3>1. result = (IF runs < MinRuns THEN "TooFew"
                    ELSE IF \E s \in read : ~Readable(tree, s) THEN "Unreadable"
                    ELSE IF \E s \in read : tree[s].modified < not_before THEN "Stale"
                    ELSE IF ~Ordered(tree, runs) THEN "OutOfOrder"
                    ELSE IF TwiceMedian(values) <= 2 * Budget THEN "Pass" ELSE "Fail")
      BY DEF Evaluate, tree
    <3> HIDE DEF result, values, read
    <3> QED  BY <1>3, <1>5, <3>1
  <2>2. <<1, "direct">> \in read
    BY <1>3 DEF Sides
  <2>3. tree = files
    BY <2>1, <2>2 DEF Under, NoFiles, Readable
  <2>4. \A s \in read : s \in DOMAIN files /\ files[s].point > 0
    BY <2>1, <2>3 DEF Readable
  <2>5. \A s \in read : files[s].recording = files[<<1, "direct">>].recording
    BY <1>3, <2>1, <2>3, <2>4, OneRecording
  <2>6. \E r \in 1..recording : \A s \in read :
           files[s].recording = r /\ files[s].modified >= started[r]
    <3>1. files[<<1, "direct">>].recording \in 1..recording
      BY <2>2, <2>4 DEF FileInv
    <3>2. \A s \in read : started[files[s].recording] <= files[s].modified /\ files[s].modified \in Nat
      BY <2>4 DEF FileInv
    <3>3. \A r \in 1..recording : started[r] \in Nat
      BY DEF ClockInv
    <3> HIDE DEF read
    <3> QED  BY <2>5, <3>1, <3>2, <3>3
  <2>7. \A s \in read : files[s].modified >= not_before
    BY <1>4, <2>1, <2>3, <2>4 DEF FileInv
  <2>8. values \in [1..runs -> Int] /\ Len(values) = runs
    <3>1. ASSUME NEW i \in 1..runs PROVE Delta(tree, i) \in Int
      <4>1. <<i, "direct">> \in read /\ <<i, "kernox">> \in read
        BY DEF Sides
      <4>2. files[<<i, "direct">>].point \in Nat \ {0} /\ files[<<i, "kernox">>].point \in Int
        BY <2>4, <4>1 DEF FileInv
      <4> DEFINE d == files[<<i, "direct">>].point
                 k == files[<<i, "kernox">>].point
      <4>3. Delta(tree, i) = ((k - d) * 100) \div d
        BY <2>3 DEF Delta
      <4>4. d \in Nat \ {0} /\ k \in Int
        BY <4>2
      <4> HIDE DEF d, k
      <4>5. (k - d) * 100 \in Int
        BY <4>4
      <4> QED  BY <4>3, <4>4, <4>5
    <3> HIDE DEF tree
    <3> QED  BY <1>3, <3>1
  <2>9. {i \in 1..runs : values[i] > Budget} = {i \in 1..runs : Delta(files, i) > Budget}
    BY <2>3
  <2> HIDE DEF values, tree
  <2>10. LET over == {i \in 1..runs : values[i] > Budget}
         IN  IF TwiceMedian(values) <= 2 * Budget THEN 2 * Cardinality(over) <= runs
                                                  ELSE 2 * Cardinality(over) >= runs
    BY <1>3, <2>8, MedianFacts
  <2> QED  BY <2>1, <2>6, <2>7, <2>9, <2>10
<1>6. VerdictIsEarned'
  <2>1. ToSet(verdict') = {v}
    BY <1>1 DEF ToSet
  <2>2. v.runs = runs /\ v.not_before = not_before /\ v.result = result
    OBVIOUS
  <2> HIDE DEF v, result
  <2>3. \A i : Delta(files', i) = Delta(files, i)
    BY <1>1
  <2> SUFFICES ASSUME v.result \in {"Pass", "Fail"}
               PROVE  /\ v.runs >= MinRuns
                      /\ \E r \in 1..recording' : \A s \in (1..v.runs) \X Sides :
                           files'[s].recording = r /\ files'[s].modified >= started'[r]
                      /\ \A s \in (1..v.runs) \X Sides : files'[s].modified >= v.not_before
                      /\ LET over == {i \in 1..v.runs : Delta(files', i) > Budget}
                         IN  IF v.result = "Pass" THEN 2 * Cardinality(over) <= v.runs
                                                  ELSE 2 * Cardinality(over) >= v.runs
    BY <2>1 DEF VerdictIsEarned
  <2> QED  BY <1>1, <1>5, <2>2
<1> QED  BY <1>2, <1>6

\* The gate and the recorder together: whatever was recorded, interrupted,
\* repeated with other arguments or only partly removed, and whatever the clock's
\* resolution, a verdict rests on enough complete runs of one recording that are
\* not older than asked, and at least half of them are on its side.
THEOREM VerdictsAreEarned == Spec => []VerdictIsEarned
<1>1. Init => BInv
  <2> SUFFICES ASSUME Init PROVE BInv
    OBVIOUS
  <2>1. ClockInv /\ FileInv /\ LayerInv
    BY DEF Init, ClockInv, FileInv, LayerInv, NoFiles
  <2>2. RecorderInv
    BY DEF Init, RecorderInv, Recorder
  <2>3. ToSet(verdict) = {}
    BY DEF Init, ToSet
  <2> QED  BY <2>1, <2>2, <2>3 DEF BInv, VerdictIsEarned
<1>2. BInv /\ [Next]_vars => BInv'
  <2> SUFFICES ASSUME BInv, [Next]_vars PROVE BInv'
    OBVIOUS
  <2>1. CASE UNCHANGED vars
    <3>1. UNCHANGED <<home, files, clock, ties, recorder, recording, started, verdict>>
      BY <2>1 DEF vars
    <3>2. ClockInv' /\ FileInv' /\ LayerInv' /\ RecorderInv'
      BY <3>1 DEF BInv, ClockInv, FileInv, LayerInv, RecorderInv
    <3>3. VerdictIsEarned'
      BY <3>1 DEF BInv, VerdictIsEarned
    <3> QED  BY <3>2, <3>3 DEF BInv
  <2>2. CASE Next
    BY <2>2, BeginRecordStep, ClearStep, EndRecordStep, BenchStep, GateStep DEF Next
  <2> QED  BY <2>1, <2>2
<1>3. BInv => VerdictIsEarned
  BY DEF BInv
<1> QED  BY <1>1, <1>2, <1>3, PTL DEF Spec
=============================================================================
