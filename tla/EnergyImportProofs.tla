------------------------ MODULE EnergyImportProofs ------------------------
(***************************************************************************)
(* Proofs about EnergyImport, for any meters, messages, calendars and      *)
(* schedules of the goroutines of a message.                               *)
(*                                                                         *)
(* Types and Copies are inductive whatever happens: the goroutines of a    *)
(* message change the meta record in one way only, by adding the meter of  *)
(* the message in a column that they all agree on (Grows).  What they make *)
(* of the lines needs more: the copies of lines that a part writes back    *)
(* must not be older than the database (Fresh), which holds if the parts   *)
(* have days of their own (DaysApart), as they do while every day has 24   *)
(* hours (RegularDays).  From there a part writes in place (WriteInPlace), *)
(* what it has written stays (Written), and every step of the import is a  *)
(* step of EnergyStore, since a column that no meter has is empty          *)
(* (NobodysEmpty).                                                         *)
(*                                                                         *)
(* The periods need none of this.  A value may be in the database or in a  *)
(* copy of the lines (HasValue); wherever it is, it is in the period of    *)
(* its meter or a part has still to save one that has it (Covered), as     *)
(* what a part knows of the record differs from it in one entry only, and  *)
(* in that one no more than other parts have written (EntriesCopied).      *)
(***************************************************************************)
EXTENDS MeterPeriods, FiniteSetTheorems, TLAPS

-----------------------------------------------------------------------------
(* Numbers.                                                                *)

(* A finite set of numbers has a largest one, which is what the loops over *)
(* midnights and meta entries look for (dayStart, CalcMetaInfo).           *)
LEMMA Largest ==
  ASSUME NEW S \in SUBSET Nat, IsFiniteSet(S), S # {}
  PROVE  Max(S) \in S /\ \A y \in S : Max(S) >= y
<1> DEFINE Above(x) == {y \in S : y >= x}
           F == {Above(x) : x \in S}
<1>1. F \subseteq FiniteSubsetsOf(S) /\ F # {}
  <2>1. FiniteSubsetsOf(S) = SUBSET S
    BY FS_FiniteSubsetsOfFinite
  <2>2. \A x \in S : Above(x) \in SUBSET S /\ Above(x) \in F
    OBVIOUS
  <2>3. PICK x \in S : TRUE
    OBVIOUS
  <2>4. \A U \in F : U \in SUBSET S
    BY <2>2, Zenon
  <2> HIDE DEF F
  <2> QED
    BY <2>1, <2>2, <2>3, <2>4
<1>2. PICK U \in F : \A V \in F : ~ (<<V, U>> \in StrictSubsetOrdering(S))
  <2>1. IsWellFoundedOn(StrictSubsetOrdering(S), FiniteSubsetsOf(S))
    BY FS_StrictSubsetOrderingWellFounded
  <2> HIDE DEF F
  <2> QED
    BY <1>1, <2>1, WFMin
<1>3. PICK x \in S : U = Above(x)
  OBVIOUS
<1>4. ASSUME NEW y \in S, ~ (x >= y) PROVE FALSE
  <2>0. x \in Nat /\ y \in Nat /\ \A z \in S : z \in Nat
    OBVIOUS
  <2>3. \A z \in S : z >= y => z >= x
    BY <1>4, <2>0
  <2>4. ~ (x >= y) /\ x >= x
    BY <1>4, <2>0
  <2>1. Above(y) \subseteq Above(x) /\ x \notin Above(y) /\ x \in Above(x)
    BY <2>3, <2>4, Zenon
  <2>2. <<Above(y), Above(x)>> \in StrictSubsetOrdering(S)
    BY <2>1 DEF StrictSubsetOrdering
  <2> QED
    BY <2>2, <1>2, <1>3
<1> QED
  BY <1>4 DEF Max

(* And any set of numbers has a smallest one.                              *)
LEMMA Smallest ==
  ASSUME NEW S \in SUBSET Nat, S # {}
  PROVE  Min(S) \in S /\ \A y \in S : Min(S) =< y
<1> DEFINE Below(x) == {y \in S : y =< x}
           F == {Below(x) : x \in S}
<1>1. \A x \in S : Below(x) \in FiniteSubsetsOf(Nat) /\ Below(x) \in F
  <2> SUFFICES ASSUME NEW x \in S PROVE IsFiniteSet(Below(x))
    BY DEF FiniteSubsetsOf
  <2>1. x \in Nat /\ \A y \in Below(x) : y \in 0 .. x
    <3>1. x \in Nat /\ \A y \in S : y \in Nat
      OBVIOUS
    <3> QED
      BY <3>1
  <2>2. Below(x) \in SUBSET (0 .. x)
    BY <2>1, Zenon
  <2>3. 0 \in Int /\ x \in Int
    BY <2>1
  <2> QED
    BY <2>2, <2>3, FS_Interval, FS_Subset
<1>2. PICK U \in F : \A V \in F : ~ (<<V, U>> \in StrictSubsetOrdering(Nat))
  <2>1. IsWellFoundedOn(StrictSubsetOrdering(Nat), FiniteSubsetsOf(Nat))
    BY FS_StrictSubsetOrderingWellFounded
  <2>2. F \subseteq FiniteSubsetsOf(Nat)
    BY <1>1, Zenon
  <2>3. F # {}
    BY <1>1
  <2> HIDE DEF F
  <2> QED
    BY <2>1, <2>2, <2>3, WFMin
<1>3. PICK x \in S : U = Below(x)
  OBVIOUS
<1>4. ASSUME NEW y \in S, ~ (x =< y) PROVE FALSE
  <2>1. x \in Nat /\ y \in Nat /\ \A z \in S : z \in Nat
    OBVIOUS
  <2>2. (\A z \in S : z =< y => z =< x) /\ x =< x
    BY <1>4, <2>1
  <2>3. Below(y) \subseteq Below(x) /\ x \notin Below(y) /\ x \in Below(x)
    BY <1>4, <2>2, Zenon
  <2>4. <<Below(y), Below(x)>> \in StrictSubsetOrdering(Nat)
    BY <2>3, <1>1 DEF StrictSubsetOrdering, FiniteSubsetsOf
  <2> QED
    BY <2>4, <1>2, <1>3
<1> QED
  BY <1>4 DEF Min

(* Products of natural numbers, as the ids of rows are (RowOf).            *)
LEMMA TimesMonotone ==
  ASSUME NEW i \in Nat, NEW j \in Nat, NEW n \in Nat, i =< j
  PROVE  i * n \in Nat /\ j * n \in Nat /\ i * n =< j * n
<1>1. PICK k \in Nat : j = i + k
  <2>1. j - i \in Nat /\ j = i + (j - i)
    OBVIOUS
  <2> QED
    BY <2>1
<1>2. j * n = i * n + k * n
  BY <1>1
<1>3. i * n \in Nat /\ k * n \in Nat
  BY <1>1
<1> QED
  BY <1>2, <1>3

(* A day has at least one interval.                                        *)
LEMMA TimesGrows ==
  ASSUME NEW i \in Nat, NEW n \in Nat \ {0}
  PROVE  i =< i * n
<1>1. 1 * i =< n * i
  BY TimesMonotone
<1>2. 1 * i = i /\ n * i = i * n
  OBVIOUS
<1> QED
  BY <1>1, <1>2

(* A row id is a day and a time of day (ConvertUnixTimeToRowId).           *)
LEMMA Quotient ==
  ASSUME NEW n \in Nat \ {0}, NEW d \in Nat, NEW c \in 0 .. n - 1
  PROVE  (d * n + c) \div n = d
<1> DEFINE x == d * n + c
           q == x \div n
<1>1. d * n \in Nat /\ x \in Nat
  OBVIOUS
<1>2. q \in Nat /\ q * n =< x /\ x < q * n + n
  <2>1. x = n * (x \div n) + (x % n) /\ x % n \in 0 .. n - 1 /\ x \div n \in Nat
    BY <1>1
  <2> HIDE DEF x
  <2>2. n * (x \div n) = q * n /\ q * n \in Nat
    BY <2>1
  <2> HIDE DEF q
  <2> QED
    BY <1>1, <2>1, <2>2 DEF q
<1> HIDE DEF q
<1>3. ~ (d + 1 =< q)
  <2> SUFFICES ASSUME d + 1 =< q PROVE FALSE
    OBVIOUS
  <2>1. (d + 1) * n =< q * n /\ (d + 1) * n = d * n + n
    BY <1>2, TimesMonotone
  <2> QED
    BY <1>1, <1>2, <2>1
<1>4. ~ (q + 1 =< d)
  <2> SUFFICES ASSUME q + 1 =< d PROVE FALSE
    OBVIOUS
  <2>1. (q + 1) * n =< d * n /\ (q + 1) * n = q * n + n
    BY <1>2, TimesMonotone
  <2> QED
    BY <1>1, <1>2, <2>1
<1> QED
  BY <1>2, <1>3, <1>4 DEF q

-----------------------------------------------------------------------------
(* The calendar.                                                           *)

Days == 0 .. Cardinality(Midnights) - 1
Until(t) == {d \in Midnights : d =< t}

(* The day of an interval is the number of midnights up to it, less one.   *)
LEMMA DayOfType ==
  ASSUME NEW t \in Nat
  PROVE  /\ DayOf(t) \in Days
         /\ Until(t) \in SUBSET Nat /\ IsFiniteSet(Until(t)) /\ Until(t) # {}
         /\ Cardinality(Until(t)) \in Nat /\ DayOf(t) = Cardinality(Until(t)) - 1
<1>1. /\ Until(t) \in SUBSET Midnights /\ 0 \in Until(t) /\ IsFiniteSet(Midnights)
      /\ Midnights \subseteq Nat
  BY ImportAssumption DEF Until
<1>2. /\ IsFiniteSet(Until(t)) /\ Cardinality(Until(t)) =< Cardinality(Midnights)
      /\ Cardinality(Until(t)) \in Nat /\ Cardinality(Midnights) \in Nat
  BY <1>1, FS_Subset, FS_CardinalityType
<1>3. Cardinality(Until(t)) # 0
  BY <1>1, <1>2, FS_EmptySet
<1>4. DayOf(t) = Cardinality(Until(t)) - 1
  BY DEF DayOf, Until
<1>5. DayOf(t) \in Days
  BY <1>2, <1>3, <1>4 DEF Days
<1>6. Until(t) \in SUBSET Nat /\ Until(t) # {}
  BY <1>1
<1> QED
  BY <1>2, <1>4, <1>5, <1>6

(* The local midnights count the days in the order of time.                *)
LEMMA DayOfMonotone ==
  ASSUME NEW s \in Nat, NEW t \in Nat, s =< t
  PROVE  /\ DayOf(s) =< DayOf(t)
         /\ DayOf(s) = DayOf(t) => Until(s) = Until(t)
<1>1. Until(s) \in SUBSET Until(t)
  <2>1. \A d \in Midnights : d \in Nat
    BY ImportAssumption
  <2>2. \A d \in Nat : d =< s => d =< t
    OBVIOUS
  <2> QED
    BY <2>1, <2>2, Zenon DEF Until
<1>2. /\ IsFiniteSet(Until(t)) /\ Cardinality(Until(s)) \in Nat /\ Cardinality(Until(t)) \in Nat
      /\ DayOf(t) = Cardinality(Until(t)) - 1 /\ DayOf(s) = Cardinality(Until(s)) - 1
  BY DayOfType
<1>3. /\ Cardinality(Until(s)) =< Cardinality(Until(t))
      /\ Cardinality(Until(s)) = Cardinality(Until(t)) => Until(s) = Until(t)
  BY <1>1, <1>2, FS_Subset
<1> HIDE DEF Until
<1> QED
  BY <1>2, <1>3

(* ConvertUnixTimeToRowId: a row id tells its day.                         *)
LEMMA RowOfType ==
  ASSUME NEW t \in Intervals
  PROVE  /\ t \in Nat
         /\ RowOf(t) \in Rows /\ RowOf(t) \in Nat
         /\ RowOf(t) \div DayLen = DayOf(t)
<1>1. t \in Nat /\ DayLen \in Nat \ {0}
  BY ImportAssumption DEF Intervals
<1>2. DayOf(t) \in Days /\ Clock(t) \in 0 .. DayLen - 1 /\ Cardinality(Midnights) \in Nat
  BY <1>1, DayOfType, ClockAssumption, ImportAssumption, FS_CardinalityType
<1>3. DayOf(t) \in Nat /\ DayOf(t) + 1 =< Cardinality(Midnights)
  BY <1>2 DEF Days
<1>4. RowOf(t) = DayOf(t) * DayLen + Clock(t)
  BY DEF RowOf
<1>5. RowOf(t) \div DayLen = DayOf(t)
  BY <1>1, <1>2, <1>3, <1>4, Quotient
<1>6. /\ (DayOf(t) + 1) * DayLen =< Cardinality(Midnights) * DayLen
      /\ Cardinality(Midnights) * DayLen \in Nat
  BY <1>1, <1>2, <1>3, TimesMonotone
<1>7. (DayOf(t) + 1) * DayLen = DayOf(t) * DayLen + DayLen /\ DayOf(t) * DayLen \in Nat
  BY <1>1, <1>3
<1> HIDE DEF Days
<1>8. RowOf(t) \in Nat /\ RowOf(t) =< Cardinality(Midnights) * DayLen - 1
  BY <1>1, <1>2, <1>4, <1>6, <1>7
<1>9. RowOf(t) \in Rows
  BY <1>6, <1>8 DEF Rows
<1> QED
  BY <1>1, <1>5, <1>8, <1>9

-----------------------------------------------------------------------------
(* The parts of a message.                                                 *)

Message == [meter : Meters, from : Nat, until : 1 .. Horizon]

(* A message is of a meter and has an interval (model.MqttEnergy).         *)
LEMMA BatchType ==
  ASSUME NEW b \in Batches, NEW i \in 1 .. Len(b)
  PROVE  b \in Seq(Message) /\ b[i] \in Message /\ b[i].from < b[i].until
<1>1. b \in Seq(Message) /\ \A j \in DOMAIN b : b[j].from < b[j].until
  BY ImportAssumption DEF Message
<1> QED
  BY <1>1

(* dayStart: the last midnight that is not after the interval.             *)
LEMMA StartType ==
  ASSUME NEW t \in Nat
  PROVE  DayStart(t) \in Midnights /\ DayStart(t) \in Nat /\ DayStart(t) =< t
         /\ DayStart(t) \in Until(t) /\ \A d \in Until(t) : d =< DayStart(t)
<1>1. DayStart(t) = Max(Until(t))
  BY DEF DayStart, Until
<1>2. Max(Until(t)) \in Until(t) /\ \A d \in Until(t) : Max(Until(t)) >= d
  BY DayOfType, Largest
<1>3. Until(t) \subseteq Midnights /\ \A d \in Until(t) : d \in Nat /\ d =< t
  BY ImportAssumption DEF Until
<1> QED
  BY <1>1, <1>2, <1>3

(* SplitEnergyByDay: a part has an interval, and only those of the message.*)
LEMMA PartType ==
  ASSUME NEW m \in Message, NEW p \in Split(m)
  PROVE  /\ p.lo \in Intervals /\ p.hi \in Nat /\ p.hi - 1 \in Intervals /\ p.lo < p.hi
         /\ m.from =< p.lo /\ p.hi =< m.until
         /\ PartIntervals(p) \subseteq Intervals
         /\ p.lo \in PartIntervals(p) /\ p.hi - 1 \in PartIntervals(p)
<1>1. m.from \in Nat /\ m.until \in 1 .. Horizon /\ Horizon \in Nat /\ DayLen \in Nat \ {0}
  BY ImportAssumption DEF Message
<1>2. PICK k \in Steps(m) : p = Part(m, k)
  BY DEF Split
<1>3. p.lo < p.hi
  BY DEF Split
<1> DEFINE day == DayStart(m.from) + k * DayLen
<1>4. day \in Nat
  <2>1. k \in Nat /\ DayStart(m.from) \in Nat
    BY <1>1, <1>2, StartType DEF Steps
  <2>2. k * DayLen \in Nat
    BY <1>1, <2>1
  <2> QED
    BY <2>1, <2>2
<1>5. p.lo = MaxOf(day, m.from) /\ p.hi = MinOf(day + DayLen, m.until)
  BY <1>2 DEF Part
<1> HIDE DEF day
<1>6. /\ p.lo \in Nat /\ m.from =< p.lo /\ p.hi \in Nat /\ p.hi =< m.until
  BY <1>1, <1>4, <1>5 DEF MaxOf, MinOf
<1> QED
  BY <1>1, <1>3, <1>6 DEF Intervals, PartIntervals

(* What a part stores is in the lines of its days.                         *)
LEMMA ValueType ==
  ASSUME NEW m \in Message, NEW p \in Split(m), NEW i \in Nat
  PROVE  /\ DOMAIN ValueOf(i, p) \subseteq Rows
         /\ \A r \in DOMAIN ValueOf(i, p) : r \div DayLen \in FetchedDays(p)
         /\ ValueOf(i, p) \in [DOMAIN ValueOf(i, p) -> SUBSET (Nat \X Intervals)]
<1>1. /\ p.lo \in Intervals /\ p.hi \in Nat /\ p.hi - 1 \in Intervals
      /\ PartIntervals(p) \subseteq Intervals
  BY PartType
<1>2. DOMAIN ValueOf(i, p) = {RowOf(t) : t \in PartIntervals(p)}
  BY DEF ValueOf
<1>3. ASSUME NEW t \in PartIntervals(p)
      PROVE  RowOf(t) \in Rows /\ RowOf(t) \div DayLen \in FetchedDays(p)
  <2>1. /\ t \in Intervals /\ t \in Nat /\ p.lo \in Nat /\ p.hi - 1 \in Nat
        /\ p.lo =< t /\ t =< p.hi - 1
    BY <1>1, <1>3 DEF PartIntervals, Intervals
  <2>2. DayOf(p.lo) =< DayOf(t) /\ DayOf(t) =< DayOf(p.hi - 1)
    BY <2>1, DayOfMonotone
  <2>3. DayOf(t) \in Int /\ DayOf(p.lo) \in Int /\ DayOf(p.hi - 1) \in Int
    BY <2>1, DayOfType DEF Days
  <2>4. RowOf(t) \in Rows /\ RowOf(t) \div DayLen = DayOf(t)
    BY <2>1, RowOfType
  <2> QED
    BY <2>2, <2>3, <2>4 DEF FetchedDays
<1>4. \A r \in DOMAIN ValueOf(i, p) :
        ValueOf(i, p)[r] = {<<i, t>> : t \in {u \in PartIntervals(p) : RowOf(u) = r}}
  BY DEF ValueOf
<1>5. \A r \in DOMAIN ValueOf(i, p) : ValueOf(i, p)[r] \in SUBSET (Nat \X Intervals)
  BY <1>1, <1>4
<1>6. ValueOf(i, p) = [r \in DOMAIN ValueOf(i, p) |-> ValueOf(i, p)[r]]
  BY DEF ValueOf
<1> QED
  BY <1>2, <1>3, <1>5, <1>6

-----------------------------------------------------------------------------
(* The meta record: a meter has an index below the number of the meters of *)
(* its direction, and no two meters a column.                              *)

SameDir(mt, m) == {x \in DOMAIN mt : Dir[x] = Dir[m]}
Indexed(mt) ==
  /\ \A n \in DOMAIN mt : mt[n].idx < Cardinality(SameDir(mt, n))
  /\ \A n, x \in DOMAIN mt : n # x => Column(n, mt[n].idx) # Column(x, mt[x].idx)

IsRecord(mt) ==
  DOMAIN mt \subseteq Meters /\ mt \in [DOMAIN mt -> Entries] /\ Indexed(mt)

(* The meters of a direction are at most all meters.                       *)
LEMMA SameDirType ==
  ASSUME NEW mt, NEW m, DOMAIN mt \subseteq Meters
  PROVE  /\ IsFiniteSet(SameDir(mt, m))
         /\ Cardinality(SameDir(mt, m)) \in Nat
         /\ Cardinality(SameDir(mt, m)) =< Cardinality(Meters)
         /\ Cardinality(Meters) \in Nat
<1>1. SameDir(mt, m) \in SUBSET Meters
  BY DEF SameDir
<1> QED
  BY <1>1, ImportAssumption, FS_Subset, FS_CardinalityType

(* The image of a finite set is finite.                                    *)
LEMMA ImageFinite ==
  ASSUME NEW T, IsFiniteSet(T), NEW f
  PROVE  IsFiniteSet({f[x] : x \in T})
<1> DEFINE S == {f[x] : x \in T}
           g == [x \in T |-> f[x]]
<1>1. g \in Surjection(T, S)
  BY DEF Surjection
<1> HIDE DEF S, g
<1> QED
  BY <1>1, FS_Surjection DEF S

(* CalcMetaInfo: the next index of a direction is larger than those in     *)
(* use, and not larger than the number of its meters.                      *)
LEMMA NewIdxType ==
  ASSUME NEW mt, IsRecord(mt), NEW m \in Meters
  PROVE  /\ NewIdx(mt, m) \in Nat
         /\ NewIdx(mt, m) =< Cardinality(SameDir(mt, m))
         /\ \A n \in SameDir(mt, m) : mt[n].idx < NewIdx(mt, m)
<1> DEFINE same == SameDir(mt, m)
           f    == [n \in DOMAIN mt |-> mt[n].idx]
           used == {f[n] : n \in same}
<1>1. /\ IsFiniteSet(same) /\ Cardinality(same) \in Nat
      /\ Cardinality(Meters) \in Nat /\ same \subseteq DOMAIN mt
  <2>1. DOMAIN mt \subseteq Meters
    BY DEF IsRecord
  <2> QED
    BY <2>1, SameDirType DEF SameDir
<1>2. \A n \in same : f[n] = mt[n].idx /\ f[n] \in Nat /\ f[n] < Cardinality(same)
  <2> TAKE n \in same
  <2>1. n \in DOMAIN mt /\ mt[n] \in Entries /\ SameDir(mt, n) = SameDir(mt, m)
    BY DEF IsRecord, SameDir
  <2>2. mt[n].idx < Cardinality(SameDir(mt, n))
    BY <2>1 DEF IsRecord, Indexed
  <2>3. mt[n].idx \in Nat
    BY <1>1, <2>1 DEF Entries
  <2> QED
    BY <2>1, <2>2, <2>3
<1>3. NewIdx(mt, m) = IF used = {} THEN 0 ELSE Max(used) + 1
  <2>1. used = {mt[n].idx : n \in same}
    BY <1>2
  <2>2. NewIdx(mt, m) = IF {mt[n].idx : n \in same} = {} THEN 0
                        ELSE Max({mt[n].idx : n \in same}) + 1
    BY DEF NewIdx, SameDir
  <2> HIDE DEF used, same
  <2> QED
    BY <2>1, <2>2, Zenon
<1>4. IsFiniteSet(used)
  <2> HIDE DEF f, same
  <2> QED
    BY <1>1, ImageFinite
<1>5. /\ used \in SUBSET Nat /\ (\A n \in same : f[n] \in used)
      /\ \A i \in used : i < Cardinality(same)
  <2> HIDE DEF f, same
  <2> QED
    BY <1>2
<1> HIDE DEF used
<1>6. CASE used = {}
  <2>1. same = {}
    BY <1>5, <1>6
  <2> QED
    BY <1>1, <1>3, <1>6, <2>1
<1>7. CASE used # {}
  <2>1. Max(used) \in used /\ \A i \in used : Max(used) >= i
    BY <1>4, <1>5, <1>7, Largest
  <2>2. Max(used) \in Nat /\ Max(used) < Cardinality(same) /\ NewIdx(mt, m) = Max(used) + 1
    BY <1>3, <1>5, <1>7, <2>1
  <2>3. \A i \in used : i < Max(used) + 1
    BY <1>5, <2>1, <2>2
  <2> HIDE DEF f, same
  <2>4. \A n \in same : mt[n].idx \in used
    BY <1>2, <1>5
  <2>5. NewIdx(mt, m) \in Nat /\ NewIdx(mt, m) =< Cardinality(same)
    BY <1>1, <2>2
  <2> QED
    BY <2>2, <2>3, <2>4, <2>5 DEF same
<1> QED
  BY <1>6, <1>7

(* PrepareMetaInfoMap *)
LEMMA WithMeterType ==
  ASSUME NEW mt, IsRecord(mt), NEW m \in Meters
  PROVE  /\ IsRecord(WithMeter(mt, m))
         /\ DOMAIN WithMeter(mt, m) = DOMAIN mt \cup {m}
         /\ WithMeter(mt, m)[m] \in Entries
<1> DEFINE new == WithMeter(mt, m)
           S   == DOMAIN mt
<1>1. /\ S \subseteq Meters /\ mt \in [S -> Entries] /\ Indexed(mt)
  BY DEF IsRecord
<1>2. DOMAIN new = S \cup {m}
  BY DEF WithMeter
<1>3. CASE m \in S
  <2>1. new = mt
    BY <1>1, <1>3 DEF WithMeter
  <2> QED
    BY <1>1, <1>2, <1>3, <2>1
<1>4. CASE m \notin S
  <2>1. /\ NewIdx(mt, m) \in Nat /\ NewIdx(mt, m) =< Cardinality(SameDir(mt, m))
        /\ \A n \in SameDir(mt, m) : mt[n].idx < NewIdx(mt, m)
    BY NewIdxType
  <2>2. /\ IsFiniteSet(SameDir(mt, m)) /\ Cardinality(SameDir(mt, m)) \in Nat
        /\ SameDir(new, m) = SameDir(mt, m) \cup {m} /\ m \notin SameDir(mt, m)
    BY <1>1, <1>2, <1>4, SameDirType DEF SameDir
  <2>3. Cardinality(SameDir(new, m)) = Cardinality(SameDir(mt, m)) + 1
    BY <2>2, FS_AddElement
  <2>4. /\ Cardinality(SameDir(new, m)) =< Cardinality(Meters) /\ Cardinality(Meters) \in Nat
    BY <1>1, <1>2, SameDirType
  <2>5. NewIdx(mt, m) < Cardinality(SameDir(new, m)) /\ NewIdx(mt, m) < Cardinality(Meters)
    BY <2>1, <2>2, <2>3, <2>4
  <2>6. /\ \A n \in S : n # m /\ new[n] = mt[n]
        /\ new[m] = [idx |-> NewIdx(mt, m), first |-> Never, last |-> Never]
        /\ new = [n \in S \cup {m} |-> new[n]]
    BY <1>4 DEF WithMeter
  <2>7. new[m] \in Entries /\ new[m].idx = NewIdx(mt, m)
    BY <2>1, <2>4, <2>5, <2>6 DEF Entries
  <2>8. new \in [DOMAIN new -> Entries]
    BY <1>1, <1>2, <2>6, <2>7
  <2>9. \A n \in DOMAIN new : new[n].idx < Cardinality(SameDir(new, n))
    <3> SUFFICES ASSUME NEW n \in S PROVE new[n].idx < Cardinality(SameDir(new, n))
      BY <1>2, <2>5, <2>7
    <3>1. /\ SameDir(mt, n) \in SUBSET SameDir(new, n)
          /\ DOMAIN new \subseteq Meters
      BY <1>1, <1>2 DEF SameDir
    <3>2. /\ Cardinality(SameDir(mt, n)) =< Cardinality(SameDir(new, n))
          /\ Cardinality(SameDir(mt, n)) \in Nat /\ Cardinality(SameDir(new, n)) \in Nat
      BY <1>1, <3>1, SameDirType, FS_Subset
    <3>3. mt[n].idx < Cardinality(SameDir(mt, n)) /\ new[n] = mt[n] /\ mt[n].idx \in Nat
      BY <1>1, <2>4, <2>6 DEF Indexed, Entries
    <3> QED
      BY <3>2, <3>3
  <2>10. \A n, x \in DOMAIN new : n # x => Column(n, new[n].idx) # Column(x, new[x].idx)
    <3>1. \A n \in S : Column(n, mt[n].idx) # Column(m, NewIdx(mt, m))
      <4>1. \A n \in SameDir(mt, m) : mt[n].idx # NewIdx(mt, m)
        BY <1>1, <2>1, <2>4 DEF SameDir, Entries
      <4> QED
        BY <4>1 DEF Column, SameDir
    <3>2. \A n, x \in S : n # x => Column(n, mt[n].idx) # Column(x, mt[x].idx)
      BY <1>1 DEF Indexed
    <3> HIDE DEF new
    <3> QED
      BY <1>2, <2>6, <2>7, <3>1, <3>2
  <2> QED
    BY <1>1, <1>2, <2>7, <2>8, <2>9, <2>10 DEF IsRecord, Indexed
<1> QED
  BY <1>3, <1>4

(* A record with the same columns is one, too.                             *)
LEMMA SameColumnsType ==
  ASSUME NEW mt, IsRecord(mt), NEW other, other \in [DOMAIN mt -> Entries],
         \A n \in DOMAIN mt : other[n].idx = mt[n].idx
  PROVE  IsRecord(other)
<1>1. DOMAIN other = DOMAIN mt /\ \A n : SameDir(other, n) = SameDir(mt, n)
  BY DEF SameDir
<1>2. Indexed(other)
  BY <1>1 DEF IsRecord, Indexed
<1> QED
  BY <1>1, <1>2 DEF IsRecord

(* What the import of a message for a meter makes of a record: the record  *)
(* itself, or the record with the meter in it.                             *)
Grows(mt, other, m) ==
  /\ DOMAIN mt \subseteq DOMAIN other /\ DOMAIN other \subseteq DOMAIN mt \cup {m}
  /\ \A n \in DOMAIN other : other[n].idx = WithMeter(mt, m)[n].idx

(* Reading the record after it has grown gives the same columns.           *)
LEMMA GrowsKeepsColumns ==
  ASSUME NEW mt, NEW other, NEW m, Grows(mt, other, m)
  PROVE  \A n \in DOMAIN mt \cup {m} : WithMeter(other, m)[n].idx = WithMeter(mt, m)[n].idx
<1>1. CASE m \in DOMAIN other
  <2>1. DOMAIN other = DOMAIN mt \cup {m}
    BY <1>1 DEF Grows
  <2>2. \A n \in DOMAIN other : WithMeter(other, m)[n] = other[n]
    BY <1>1 DEF WithMeter
  <2> QED
    BY <2>1, <2>2 DEF Grows
<1>2. CASE m \notin DOMAIN other
  <2>1. DOMAIN other = DOMAIN mt /\ m \notin DOMAIN mt
    BY <1>2 DEF Grows
  <2>2. \A n \in DOMAIN mt : WithMeter(mt, m)[n] = mt[n] /\ WithMeter(other, m)[n] = other[n]
    BY <2>1 DEF WithMeter
  <2>3. \A n \in DOMAIN mt : other[n].idx = mt[n].idx
    BY <2>1, <2>2 DEF Grows
  <2>4. NewIdx(other, m) = NewIdx(mt, m)
    <3>1. {other[n].idx : n \in {x \in DOMAIN other : Dir[x] = Dir[m]}}
            = {mt[n].idx : n \in {x \in DOMAIN mt : Dir[x] = Dir[m]}}
      BY <2>1, <2>3
    <3> QED
      BY <3>1, Zenon DEF NewIdx
  <2>5. WithMeter(other, m)[m].idx = NewIdx(other, m) /\ WithMeter(mt, m)[m].idx = NewIdx(mt, m)
    BY <2>1 DEF WithMeter
  <2> QED
    BY <2>2, <2>3, <2>4, <2>5
<1> QED
  BY <1>1, <1>2

(* A record that grew twice grew by the meter of the message.              *)
LEMMA GrowsTransitive ==
  ASSUME NEW mt, NEW other, NEW third, NEW m, Grows(mt, other, m), Grows(other, third, m)
  PROVE  Grows(mt, third, m)
BY GrowsKeepsColumns DEF Grows

(* A record that was read before stays one step ahead.                     *)
LEMMA GrowsAhead ==
  ASSUME NEW mt, NEW other, NEW ahead, NEW m,
         Grows(mt, other, m), Grows(mt, ahead, m), m \in DOMAIN ahead
  PROVE  Grows(other, ahead, m)
BY GrowsKeepsColumns DEF Grows

(* PrepareMetaInfoMap adds at most the meter of the message.               *)
LEMMA GrowsItself ==
  ASSUME NEW mt, NEW m
  PROVE  Grows(mt, mt, m) /\ Grows(mt, WithMeter(mt, m), m)
BY DEF Grows, WithMeter

-----------------------------------------------------------------------------
(* The invariant.                                                          *)

Line == [Columns -> SUBSET (Nat \X Intervals)]
AreLines(ls) == DOMAIN ls \subseteq Rows /\ ls \in [DOMAIN ls -> Line]

Types ==
  /\ IsRecord(meta) /\ AreLines(lines)
  /\ batch \in Batches /\ number \in 0 .. Len(batch)
  /\ number = 0 => DOMAIN pc = {}
  /\ number > 0 => DOMAIN pc = Split(msg)
  /\ pc \in [DOMAIN pc -> Labels] /\ cp \in [DOMAIN pc -> Entries]
  /\ DOMAIN view = DOMAIN pc /\ view = [p \in DOMAIN pc |-> view[p]]
  /\ DOMAIN fetched = DOMAIN pc /\ fetched = [p \in DOMAIN pc |-> fetched[p]]
  /\ \A p \in DOMAIN pc : IsRecord(view[p]) /\ AreLines(fetched[p])
  /\ failed \subseteq DOMAIN pc

(* The column of the meter that is imported: its own, or the next one.     *)
Idx(m) == WithMeter(meta, m)[m].idx

(* Whatever the goroutines of a message do, the record changes in one way  *)
(* only: the meter of the message is added, in a column that they agree on.*)
Copies ==
  \A p \in DOMAIN pc :
    /\ pc[p] \notin {"meta", "done"} => cp[p].idx = Idx(msg.meter)
    /\ pc[p] = "create" => Grows(meta, view[p], msg.meter) /\ msg.meter \in DOMAIN view[p]
    /\ pc[p] = "save" => Grows(view[p], meta, msg.meter)
    /\ p \notin failed /\ pc[p] \notin {"meta", "create"} => msg.meter \in DOMAIN meta

(* The lines of its days are as a part has read them until it writes them. *)
Fresh ==
  \A p \in DOMAIN pc : pc[p] = "write" =>
    /\ \A r \in DOMAIN fetched[p] :
         r \div DayLen \in FetchedDays(p) /\ r \in DOMAIN lines /\ fetched[p][r] = lines[r]
    /\ \A r \in DOMAIN lines : r \div DayLen \in FetchedDays(p) => r \in DOMAIN fetched[p]

(* And what it has written stays.                                          *)
Written ==
  \A p \in DOMAIN pc \ failed : pc[p] \in {"reread", "save", "done"} =>
    \A r \in DOMAIN ValueOf(number, p) :
      /\ r \in DOMAIN lines
      /\ lines[r][Column(msg.meter, Idx(msg.meter))] = ValueOf(number, p)[r]

(* The columns of a message.                                               *)
LEMMA MessageType ==
  ASSUME Types, NEW p \in DOMAIN pc
  PROVE  /\ number \in 1 .. Len(batch) /\ number \in Nat
         /\ msg \in Message /\ msg.meter \in Meters /\ p \in Split(msg)
<1>1. number \in 1 .. Len(batch) /\ batch \in Batches /\ p \in Split(msg)
  <2>1. number # 0 /\ number \in 0 .. Len(batch) /\ batch \in Batches
    BY DEF Types
  <2>2. Len(batch) \in Nat
    BY <2>1, ImportAssumption
  <2>3. number > 0 /\ number \in 1 .. Len(batch)
    BY <2>1, <2>2
  <2> QED
    BY <2>1, <2>3 DEF Types
<1>2. msg \in Message
  BY <1>1, BatchType DEF msg
<1> QED
  BY <1>1, <1>2 DEF Message

(* The rows of a part are rows of the community.                           *)
LEMMA RowIsRow ==
  ASSUME NEW t \in Intervals PROVE RowOf(t) \in Rows
BY RowOfType

(* updateMetaCP *)
LEMMA ExtendedType ==
  ASSUME NEW entry \in Entries, NEW m \in Message, NEW p \in Split(m)
  PROVE  Extended(entry, p) \in Entries /\ Extended(entry, p).idx = entry.idx
<1>1. RowOf(p.lo) \in Rows /\ RowOf(p.hi - 1) \in Rows
  BY PartType, RowIsRow
<1> QED
  BY <1>1 DEF Extended, Entries

(* importEnergyValuesV2: lines with the values of a part in a column.      *)
Imports(new, old, p, col) ==
  /\ AreLines(new)
  /\ DOMAIN new = DOMAIN old \cup DOMAIN ValueOf(number, p)
  /\ \A r \in DOMAIN old \ DOMAIN ValueOf(number, p) : new[r] = old[r]
  /\ \A r \in DOMAIN ValueOf(number, p) :
       new[r] = [(IF r \in DOMAIN old THEN old[r] ELSE EmptyLine)
                   EXCEPT ![col] = ValueOf(number, p)[r]]

LEMMA ImportedType ==
  ASSUME NEW old, AreLines(old), NEW m \in Message, NEW p \in Split(m), NEW col \in Columns,
         number \in Nat
  PROVE  Imports(Imported(old, p, col), old, p, col)
<1> DEFINE new == ValueOf(number, p)
           line(r) == IF r \in DOMAIN old THEN old[r] ELSE EmptyLine
           made == Imported(old, p, col)
<1>1. DOMAIN new \subseteq Rows /\ new \in [DOMAIN new -> SUBSET (Nat \X Intervals)]
  BY ValueType
<1>2. EmptyLine \in Line
  BY DEF EmptyLine, Line
<1>3. \A r \in DOMAIN old \cup DOMAIN new : line(r) \in Line
  BY <1>2 DEF AreLines
<1> HIDE DEF new
<1>4. made = [r \in DOMAIN old \cup DOMAIN new |->
                IF r \in DOMAIN new THEN [line(r) EXCEPT ![col] = new[r]] ELSE line(r)]
  BY Zenon DEF Imported, new
<1> HIDE DEF made
<1>5. /\ DOMAIN made = DOMAIN old \cup DOMAIN new
      /\ \A r \in DOMAIN new : made[r] = [line(r) EXCEPT ![col] = new[r]]
      /\ \A r \in DOMAIN old \ DOMAIN new : made[r] = old[r]
  BY <1>4
<1>6. \A r \in DOMAIN new : made[r] \in Line
  <2> TAKE r \in DOMAIN new
  <2>1. line(r) \in Line /\ new[r] \in SUBSET (Nat \X Intervals)
    BY <1>1, <1>3
  <2> HIDE DEF line
  <2> QED
    BY <1>5, <2>1 DEF Line
<1>7. \A r \in DOMAIN old \ DOMAIN new : made[r] \in Line
  BY <1>5 DEF AreLines
<1>8. AreLines(made)
  <2>1. DOMAIN made \subseteq Rows
    BY <1>1, <1>5 DEF AreLines
  <2>2. made \in [DOMAIN made -> Line]
    <3> HIDE DEF line
    <3>1. made = [r \in DOMAIN made |-> made[r]]
      BY <1>4
    <3> QED
      BY <1>5, <1>6, <1>7, <3>1
  <2> QED
    BY <2>1, <2>2 DEF AreLines
<1> QED
  BY <1>5, <1>8 DEF made, new, line, Imports

-----------------------------------------------------------------------------
(* The types.                                                              *)

(* Before the first message there is nothing that could be wrong.          *)
LEMMA InitTypes == Init => Types /\ Copies /\ Fresh /\ Written
<1> SUFFICES ASSUME Init PROVE Types /\ Copies /\ Fresh /\ Written
  OBVIOUS
<1>1. /\ DOMAIN meta = {} /\ meta = [m \in {} |-> 0]
      /\ DOMAIN lines = {} /\ lines = [r \in {} |-> EmptyLine]
      /\ batch \in Batches /\ number = 0
      /\ DOMAIN pc = {} /\ pc = [p \in {} |-> "meta"]
      /\ cp = [p \in {} |-> NoEntry]
      /\ DOMAIN view = {} /\ DOMAIN fetched = {}
      /\ view = [p \in {} |-> NoMeta] /\ fetched = [p \in {} |-> NoLines] /\ failed = {}
  BY DEF Init, NoMeta, NoLines
<1>2. IsRecord(meta) /\ AreLines(lines)
  BY <1>1 DEF IsRecord, AreLines, Indexed
<1>3. number \in 0 .. Len(batch)
  <2>1. Len(batch) \in Nat
    BY <1>1, ImportAssumption
  <2> QED
    BY <1>1, <2>1
<1>4. /\ pc \in [DOMAIN pc -> Labels] /\ cp \in [DOMAIN pc -> Entries]
      /\ view = [p \in DOMAIN pc |-> view[p]] /\ fetched = [p \in DOMAIN pc |-> fetched[p]]
  BY <1>1
<1>5. Types
  BY <1>1, <1>2, <1>3, <1>4 DEF Types
<1> QED
  BY <1>1, <1>5 DEF Copies, Fresh, Written

(* What the goroutines of a message begin with.                            *)
LEMMA EmptyTypes ==
  /\ IsRecord(NoMeta) /\ AreLines(NoLines)
  /\ \A m \in Meters : NoEntry \in Entries
<1>1. DOMAIN NoMeta = {} /\ NoMeta \in [{} -> Entries] /\ DOMAIN NoLines = {}
      /\ NoLines \in [{} -> Line]
  BY DEF NoMeta, NoLines
<1>2. IsRecord(NoMeta) /\ AreLines(NoLines)
  BY <1>1 DEF IsRecord, AreLines, Indexed
<1>3. ASSUME NEW m \in Meters PROVE NoEntry \in Entries
  <2>1. Cardinality(Meters) \in Nat /\ Cardinality(Meters) # 0
    BY ImportAssumption, FS_CardinalityType, FS_EmptySet
  <2> QED
    BY <2>1 DEF NoEntry, Entries
<1> QED
  BY <1>2, <1>3

(* Import: the next message                                                *)
LEMMA NextMessageStep ==
  ASSUME Types, NextMessage
  PROVE  Types' /\ Copies' /\ Fresh' /\ Written'
<1> DEFINE parts == Split(batch[number + 1])
<1>1. /\ number < Len(batch) /\ number' = number + 1 /\ batch' = batch
      /\ pc' = [p \in parts |-> "meta"] /\ cp' = [p \in parts |-> NoEntry]
      /\ view' = [p \in parts |-> NoMeta] /\ fetched' = [p \in parts |-> NoLines]
      /\ failed' = {} /\ meta' = meta /\ lines' = lines
  BY DEF NextMessage
<1>2. batch \in Batches /\ number \in Nat /\ Len(batch) \in Nat
  BY ImportAssumption DEF Types
<1>3. number' \in 1 .. Len(batch) /\ number' > 0
  BY <1>1, <1>2
<1>4. NoEntry \in Entries /\ IsRecord(NoMeta) /\ AreLines(NoLines)
  <2>1. batch[number'] \in Message
    BY <1>2, <1>3, BatchType
  <2> QED
    BY <2>1, EmptyTypes DEF Message
<1>5. msg' = batch[number + 1]
  BY <1>1 DEF msg
<1> HIDE DEF parts
<1>6. /\ DOMAIN pc' = parts /\ pc' \in [parts -> Labels] /\ cp' \in [parts -> Entries]
      /\ DOMAIN view' = parts /\ view' = [p \in parts |-> view'[p]]
      /\ DOMAIN fetched' = parts /\ fetched' = [p \in parts |-> fetched'[p]]
      /\ \A p \in parts : view'[p] = NoMeta /\ fetched'[p] = NoLines /\ pc'[p] = "meta"
  BY <1>1, <1>4 DEF Labels
<1>7. Types'
  <2>1. IsRecord(meta') /\ AreLines(lines')
    BY <1>1 DEF Types
  <2>2. \A p \in DOMAIN pc' : IsRecord(view'[p]) /\ AreLines(fetched'[p])
    BY <1>4, <1>6
  <2>3. batch' \in Batches /\ number' \in 0 .. Len(batch') /\ number' # 0
    BY <1>1, <1>2, <1>3
  <2>4. DOMAIN pc' = Split(msg')
    BY <1>5, <1>6 DEF parts
  <2>5. failed' \subseteq DOMAIN pc'
    BY <1>1
  <2> QED
    BY <1>6, <2>1, <2>2, <2>3, <2>4, <2>5 DEF Types
<1>8. Copies' /\ Fresh' /\ Written'
  BY <1>6 DEF Copies, Fresh, Written
<1> QED
  BY <1>7, <1>8

(* The steps of a part leave the others where they are.                    *)
LEMMA PartFrame ==
  ASSUME Types, NEW p \in DOMAIN pc, StorePart(p)
  PROVE  /\ input' = input /\ msg' = msg /\ number' = number /\ batch' = batch
         /\ DOMAIN pc' = DOMAIN pc /\ pc' \in [DOMAIN pc -> Labels]
         /\ \A q \in DOMAIN pc \ {p} : /\ pc'[q] = pc[q] /\ cp'[q] = cp[q]
                                       /\ view'[q] = view[q] /\ fetched'[q] = fetched[q]
                                       /\ q \in failed' <=> q \in failed
<1>1. input' = input /\ number' = number /\ batch' = batch
  BY DEF StorePart, MetaFails, ReadMeta, CreateMeta, CreateFails, FetchLines, WriteLines, WriteFails,
         RereadMeta, SaveMeta, input
<1>2. msg' = msg
  BY <1>1 DEF msg
<1>3. \E to \in Labels : pc' = [pc EXCEPT ![p] = to]
  BY DEF StorePart, MetaFails, ReadMeta, CreateMeta, CreateFails, FetchLines, WriteLines, WriteFails,
         RereadMeta, SaveMeta, Goto, Labels
<1>4. /\ DOMAIN pc' = DOMAIN pc /\ pc' \in [DOMAIN pc -> Labels]
      /\ \A q \in DOMAIN pc \ {p} : pc'[q] = pc[q]
  BY <1>3 DEF Types
<1>5. /\ \A q \in DOMAIN pc \ {p} : /\ cp'[q] = cp[q] /\ view'[q] = view[q]
                                    /\ fetched'[q] = fetched[q]
  BY DEF StorePart, MetaFails, ReadMeta, CreateMeta, CreateFails, FetchLines, WriteLines, WriteFails,
         RereadMeta, SaveMeta, locals, Types
<1>6. \A q \in DOMAIN pc \ {p} : q \in failed' <=> q \in failed
  BY DEF StorePart, MetaFails, ReadMeta, CreateMeta, CreateFails, FetchLines, WriteLines, WriteFails,
         RereadMeta, SaveMeta
<1> QED
  BY <1>1, <1>2, <1>4, <1>5, <1>6

(* The record grows by the meter of the message at most (CreateMeta,       *)
(* SaveMeta), and keeps its columns.                                       *)
LEMMA RecordGrows ==
  ASSUME Types, Copies, NEW p \in DOMAIN pc, StorePart(p)
  PROVE  /\ Grows(meta, meta', msg.meter)
         /\ IsRecord(meta')
         /\ CreateMeta(p) => msg.meter \in DOMAIN meta'
<1>1. IsRecord(meta) /\ IsRecord(view[p]) /\ cp[p] \in Entries
  BY DEF Types
<1>2. CASE CreateMeta(p)
  <2>1. pc[p] = "create" /\ meta' = view[p]
    BY <1>2 DEF CreateMeta, Goto
  <2> QED
    BY <1>1, <2>1 DEF Copies
<1>3. CASE SaveMeta(p)
  <2> DEFINE m == msg.meter
             saved == [view[p] EXCEPT ![m].first = cp[p].first, ![m].last = cp[p].last]
  <2>1. /\ pc[p] = "save" /\ meta' = IF m \in DOMAIN view[p] THEN saved ELSE meta
        /\ Grows(view[p], meta, m)
    BY <1>3 DEF SaveMeta, Goto, Copies
  <2>2. CASE m \notin DOMAIN view[p]
    <3>1. ~ CreateMeta(p)
      BY <2>1 DEF CreateMeta, Goto
    <3> QED
      BY <1>1, <2>1, <2>2, <3>1, GrowsItself
  <2>3. CASE m \in DOMAIN view[p]
    <3>1. DOMAIN meta = DOMAIN view[p] /\ \A n \in DOMAIN meta : meta[n].idx = view[p][n].idx
      BY <2>1, <2>3, ZenonT(40) DEF Grows, WithMeter
    <3>2. /\ saved \in [DOMAIN view[p] -> Entries]
          /\ \A n \in DOMAIN view[p] : saved[n].idx = view[p][n].idx
      <4>1. view[p] \in [DOMAIN view[p] -> Entries]
        BY <1>1 DEF IsRecord
      <4>2. cp[p].first \in Rows \cup {Never} /\ cp[p].last \in Rows \cup {Never}
        BY <1>1 DEF Entries
      <4> HIDE DEF m
      <4> QED
        BY <2>3, <4>1, <4>2 DEF Entries
    <3>3. DOMAIN saved = DOMAIN view[p]
      OBVIOUS
    <3> HIDE DEF saved
    <3>4. IsRecord(saved)
      BY <1>1, <3>2, SameColumnsType
    <3>5. Grows(meta, saved, m)
      BY <2>3, <3>1, <3>2, <3>3 DEF Grows, WithMeter
    <3>6. ~ CreateMeta(p)
      BY <2>1 DEF CreateMeta, Goto
    <3> QED
      BY <2>1, <2>3, <3>4, <3>5, <3>6
  <2> QED
    BY <2>2, <2>3
<1>4. CASE ~ CreateMeta(p) /\ ~ SaveMeta(p)
  <2>1. meta' = meta
    BY <1>4 DEF StorePart, MetaFails, ReadMeta, CreateFails, FetchLines, WriteLines, WriteFails, RereadMeta
  <2> QED
    BY <1>1, <1>4, <2>1, GrowsItself
<1> QED
  BY <1>2, <1>3, <1>4

(* So the parts of a message agree on the column of its meter.             *)
LEMMA IdxStays ==
  ASSUME NEW m \in Meters, Grows(meta, meta', m)
  PROVE  Idx(m)' = Idx(m)
BY GrowsKeepsColumns DEF Idx

(* What a part writes back, row by row (importEnergyValuesV2).             *)
LEMMA WriteType ==
  ASSUME Types, NEW p \in DOMAIN pc
  PROVE  LET col == Column(msg.meter, cp[p].idx)
         IN  col \in Columns /\ Imports(UpdatedLines(p), fetched[p], p, col)
<1> DEFINE col == Column(msg.meter, cp[p].idx)
<1>1. number \in Nat /\ msg \in Message /\ msg.meter \in Meters /\ p \in Split(msg)
  BY MessageType
<1>2. col \in Columns
  <2>1. cp[p].idx \in 0 .. Cardinality(Meters) - 1
    BY DEF Types, Entries
  <2> QED
    BY <1>1, <2>1 DEF Columns
<1>3. AreLines(fetched[p])
  BY DEF Types
<1> HIDE DEF col
<1>4. Imports(Imported(fetched[p], p, col), fetched[p], p, col)
  <2>1. PICK c \in Columns : c = col
    BY <1>2
  <2>2. PICK m \in Message : m = msg
    BY <1>1
  <2>3. PICK old : old = fetched[p]
    OBVIOUS
  <2>4. AreLines(old) /\ p \in Split(m) /\ number \in Nat
    BY <1>1, <1>3, <2>2, <2>3
  <2>5. Imports(Imported(old, p, c), old, p, c)
    BY <2>4, ImportedType
  <2> QED
    BY <2>1, <2>3, <2>5, Zenon
<1>5. UpdatedLines(p) = Imported(fetched[p], p, col)
  BY DEF UpdatedLines, col
<1> QED
  BY <1>2, <1>4, <1>5, Zenon DEF col

(* PutBatch: the write of a part stores the rows before some row, all of   *)
(* them if it does not fail.                                               *)
EndOfRows == Cardinality(Midnights) * DayLen
Stores(p, n) ==
  /\ pc[p] = "write" /\ n \in 0 .. EndOfRows
  /\ Put(UpdatedLines(p), {r \in DOMAIN UpdatedLines(p) : r < n})

LEMMA WriteStores ==
  ASSUME Types, NEW p \in DOMAIN pc, WriteLines(p) \/ WriteFails(p)
  PROVE  \E n : Stores(p, n) /\ (WriteLines(p) => n = EndOfRows)
<1> DEFINE rows == DOMAIN UpdatedLines(p)
<1>1. pc[p] = "write" /\ pc' = [pc EXCEPT ![p] = pc'[p]] /\ pc'[p] # "write"
  BY DEF WriteLines, WriteFails, Goto, Types
<1>2. EndOfRows \in Nat /\ Rows = 0 .. EndOfRows - 1
  BY ImportAssumption, FS_CardinalityType DEF EndOfRows, Rows
<1>3. rows \subseteq Rows
  BY WriteType DEF AreLines, Imports
<1> HIDE DEF rows
<1>4. rows = {r \in rows : r < EndOfRows} /\ EndOfRows \in 0 .. EndOfRows
  <2>1. EndOfRows \in 0 .. EndOfRows /\ \A r \in Rows : r < EndOfRows
    BY <1>2
  <2>2. rows = {r \in rows : r < EndOfRows}
    BY <1>3, <2>1, Zenon
  <2> QED
    BY <2>1, <2>2
<1>5. CASE WriteLines(p)
  BY <1>1, <1>4, <1>5 DEF WriteLines, Stores, rows
<1>6. CASE WriteFails(p) /\ ~ WriteLines(p)
  <2>1. PICK some \in FirstBatches(rows) : Put(UpdatedLines(p), some)
    BY <1>6 DEF WriteFails, rows
  <2>2. PICK n \in rows \cup {EndOfRows} : some = {r \in rows : r < n}
    BY <2>1 DEF FirstBatches, EndOfRows
  <2>3. n \in 0 .. EndOfRows
    BY <1>2, <1>3
  <2> QED
    BY <1>1, <1>6, <2>1, <2>2, <2>3 DEF Stores, rows
<1> QED
  BY <1>5, <1>6

(* Each step of StoreEnergyV2 leaves records and lines well formed.        *)
LEMMA TypesStep ==
  ASSUME Types, Copies, NEW p \in DOMAIN pc, StorePart(p)
  PROVE  Types'
<1>1. /\ msg' = msg /\ number' = number /\ batch' = batch
      /\ DOMAIN pc' = DOMAIN pc /\ pc' \in [DOMAIN pc' -> Labels]
  BY PartFrame
<1>2. msg \in Message /\ msg.meter \in Meters /\ p \in Split(msg)
  BY MessageType
<1>3. IsRecord(meta')
  BY RecordGrows
<1>4. WithMeter(meta, msg.meter)[msg.meter] \in Entries /\ IsRecord(WithMeter(meta, msg.meter))
  BY <1>2, WithMeterType DEF Types
<1>5. cp' \in [DOMAIN pc -> Entries]
  <2>1. CASE ReadMeta(p)
    BY <1>4, <2>1 DEF ReadMeta, Types
  <2>2. CASE WriteLines(p)
    <3>1. Extended(cp[p], p) \in Entries
      BY <1>2, ExtendedType DEF Types
    <3> QED
      BY <2>2, <3>1 DEF WriteLines, Types
  <2>3. CASE ~ ReadMeta(p) /\ ~ WriteLines(p)
    BY <2>3 DEF StorePart, MetaFails, CreateMeta, CreateFails, FetchLines, WriteFails, RereadMeta, SaveMeta,
                locals, Types
  <2> QED
    BY <2>1, <2>2, <2>3
<1>6. /\ DOMAIN view' = DOMAIN pc /\ view' = [q \in DOMAIN pc |-> view'[q]]
      /\ \A q \in DOMAIN pc : IsRecord(view'[q])
  <2>1. CASE ReadMeta(p)
    BY <1>4, <2>1 DEF ReadMeta, Types
  <2>2. CASE RereadMeta(p)
    BY <2>2 DEF RereadMeta, Types
  <2>3. CASE ~ ReadMeta(p) /\ ~ RereadMeta(p)
    BY <2>3 DEF StorePart, MetaFails, CreateMeta, CreateFails, FetchLines, WriteLines, WriteFails, SaveMeta,
                locals, Types
  <2> QED
    BY <2>1, <2>2, <2>3
<1>7. /\ DOMAIN fetched' = DOMAIN pc /\ fetched' = [q \in DOMAIN pc |-> fetched'[q]]
      /\ \A q \in DOMAIN pc : AreLines(fetched'[q])
  <2>1. CASE FetchLines(p)
    <3> DEFINE read == [r \in {x \in DOMAIN lines : x \div DayLen \in FetchedDays(p)} |-> lines[r]]
    <3>1. AreLines(read)
      BY DEF AreLines, Types
    <3>2. fetched' = [fetched EXCEPT ![p] = read]
      BY <2>1 DEF FetchLines
    <3> HIDE DEF read
    <3> QED
      BY <3>1, <3>2 DEF Types
  <2>2. CASE ~ FetchLines(p)
    BY <2>2 DEF StorePart, MetaFails, ReadMeta, CreateMeta, CreateFails, WriteLines, WriteFails, RereadMeta,
                SaveMeta, locals, Types
  <2> QED
    BY <2>1, <2>2
<1>8. AreLines(lines')
  <2>1. CASE WriteLines(p) \/ WriteFails(p)
    <3> DEFINE written == UpdatedLines(p)
    <3>1. AreLines(written)
      BY WriteType DEF Imports
    <3>2. PICK n : Stores(p, n)
      BY <2>1, WriteStores
    <3> DEFINE rows == {r \in DOMAIN written : r < n}
    <3>3. lines' = [r \in DOMAIN lines \cup rows |->
                      IF r \in rows THEN written[r] ELSE lines[r]]
      BY <3>2 DEF Stores, Put
    <3>4. rows \subseteq DOMAIN written
      OBVIOUS
    <3> HIDE DEF written, rows
    <3> QED
      BY <3>1, <3>3, <3>4 DEF AreLines, Types
  <2>2. CASE ~ WriteLines(p) /\ ~ WriteFails(p)
    BY <2>2 DEF StorePart, MetaFails, ReadMeta, CreateMeta, CreateFails, FetchLines, WriteFails, RereadMeta,
                SaveMeta, Types
  <2> QED
    BY <2>1, <2>2
<1>9. failed' \subseteq DOMAIN pc
  BY DEF StorePart, MetaFails, ReadMeta, CreateMeta, CreateFails, FetchLines, WriteLines, WriteFails,
         RereadMeta, SaveMeta, Types
<1>10. /\ batch' \in Batches /\ number' \in 0 .. Len(batch')
       /\ number' = 0 => DOMAIN pc' = {}
       /\ number' > 0 => DOMAIN pc' = Split(msg')
  BY <1>1 DEF Types
<1> QED
  BY <1>1, <1>3, <1>5, <1>6, <1>7, <1>8, <1>9, <1>10 DEF Types

(* Each step keeps the goroutines' copies of the record up to date.        *)
LEMMA CopiesStep ==
  ASSUME Types, Copies, NEW p \in DOMAIN pc, StorePart(p)
  PROVE  Copies'
<1> DEFINE m == msg.meter
<1>1. /\ msg' = msg /\ DOMAIN pc' = DOMAIN pc
      /\ \A q \in DOMAIN pc \ {p} : /\ pc'[q] = pc[q] /\ cp'[q] = cp[q] /\ view'[q] = view[q]
                                    /\ q \in failed' <=> q \in failed
  BY PartFrame
<1>2. m \in Meters /\ msg \in Message /\ p \in Split(msg)
  BY MessageType
<1>3. Grows(meta, meta', m) /\ DOMAIN meta \subseteq DOMAIN meta'
      /\ (CreateMeta(p) => m \in DOMAIN meta')
  BY RecordGrows DEF Grows
<1>4. Idx(m)' = Idx(m)
  <2>1. PICK c \in Meters : c = m
    BY <1>2
  <2>2. Idx(c)' = Idx(c)
    BY <1>3, <2>1, IdxStays
  <2>3. m' = c
    BY <1>1, <2>1
  <2> QED
    BY <2>1, <2>2, <2>3 DEF Idx
<1>5. ASSUME NEW q \in DOMAIN pc, q # p
      PROVE  /\ pc'[q] \notin {"meta", "done"} => cp'[q].idx = Idx(m)
             /\ pc'[q] = "create" => Grows(meta', view'[q], m) /\ m \in DOMAIN view'[q]
             /\ pc'[q] = "save" => Grows(view'[q], meta', m)
             /\ q \notin failed' /\ pc'[q] \notin {"meta", "create"} => m \in DOMAIN meta'
  <2>1. /\ pc'[q] = pc[q] /\ cp'[q] = cp[q] /\ view'[q] = view[q]
        /\ q \in failed' <=> q \in failed
    BY <1>1, <1>5
  <2>2. /\ pc[q] \notin {"meta", "done"} => cp[q].idx = Idx(m)
        /\ pc[q] = "create" => Grows(meta, view[q], m) /\ m \in DOMAIN view[q]
        /\ pc[q] = "save" => Grows(view[q], meta, m)
        /\ q \notin failed /\ pc[q] \notin {"meta", "create"} => m \in DOMAIN meta
    BY DEF Copies
  <2>3. pc[q] = "create" => Grows(meta', view[q], m)
    BY <1>3, <2>2, GrowsAhead
  <2>4. pc[q] = "save" => Grows(view[q], meta', m)
    BY <1>3, <2>2, GrowsTransitive
  <2> HIDE DEF m
  <2> QED
    BY <1>3, <2>1, <2>2, <2>3, <2>4
<1>6. /\ pc'[p] \notin {"meta", "done"} => cp'[p].idx = Idx(m)
      /\ pc'[p] = "create" => Grows(meta', view'[p], m) /\ m \in DOMAIN view'[p]
      /\ pc'[p] = "save" => Grows(view'[p], meta', m)
      /\ p \notin failed' /\ pc'[p] \notin {"meta", "create"} => m \in DOMAIN meta'
  <2>0. /\ pc[p] \notin {"meta", "done"} => cp[p].idx = Idx(m)
        /\ p \notin failed /\ pc[p] \notin {"meta", "create"} => m \in DOMAIN meta
    BY DEF Copies
  <2>1. CASE ReadMeta(p)
    <3>1. /\ pc'[p] = IF m \in DOMAIN meta THEN "fetch" ELSE "create"
          /\ view'[p] = WithMeter(meta, m) /\ cp'[p] = WithMeter(meta, m)[m] /\ meta' = meta
      BY <2>1 DEF ReadMeta, Goto, Types
    <3>2. Grows(meta, WithMeter(meta, m), m) /\ m \in DOMAIN WithMeter(meta, m)
      BY GrowsItself DEF WithMeter
    <3> QED
      BY <3>1, <3>2 DEF Idx
  <2>2. CASE CreateMeta(p)
    <3>1. pc[p] = "create" /\ pc'[p] = "fetch" /\ cp' = cp
      BY <2>2 DEF CreateMeta, Goto, Types, locals
    <3> QED
      BY <1>3, <2>0, <2>2, <3>1
  <2>3. CASE CreateFails(p)
    <3>1. pc[p] = "create" /\ pc'[p] = "fetch" /\ cp' = cp /\ p \in failed'
      BY <2>3 DEF CreateFails, Goto, Types, locals
    <3> QED
      BY <2>0, <3>1
  <2>4. CASE FetchLines(p)
    <3>1. pc[p] = "fetch" /\ pc'[p] = "write" /\ cp' = cp /\ failed' = failed /\ meta' = meta
      BY <2>4 DEF FetchLines, Goto, Types
    <3> QED
      BY <2>0, <3>1
  <2>5. CASE WriteLines(p)
    <3>1. /\ pc[p] = "write" /\ pc'[p] \in {"reread", "done"} /\ failed' = failed /\ meta' = meta
          /\ cp'[p] = Extended(cp[p], p)
      BY <2>5 DEF WriteLines, Goto, Types
    <3>2. cp'[p].idx = cp[p].idx
      BY <1>2, <3>1, ExtendedType DEF Types
    <3> QED
      BY <2>0, <3>1, <3>2
  <2>6. CASE WriteFails(p)
    <3>1. pc[p] = "write" /\ pc'[p] = "done" /\ cp' = cp /\ p \in failed'
      BY <2>6 DEF WriteFails, Goto, Types, locals
    <3> QED
      BY <2>0, <3>1
  <2>7. CASE RereadMeta(p)
    <3>1. /\ pc[p] = "reread" /\ pc'[p] = "save" /\ cp' = cp /\ failed' = failed /\ meta' = meta
          /\ view'[p] = meta
      BY <2>7 DEF RereadMeta, Goto, Types
    <3> QED
      BY <2>0, <3>1, GrowsItself
  <2>8. CASE SaveMeta(p)
    <3>1. pc[p] = "save" /\ pc'[p] = "done" /\ cp' = cp /\ failed' = failed
      BY <2>8 DEF SaveMeta, Goto, Types, locals
    <3> QED
      BY <1>3, <2>0, <3>1
  <2>9. CASE MetaFails(p)
    <3>1. /\ pc[p] \in {"meta", "reread", "save"} /\ pc'[p] = "done"
          /\ failed' = failed \cup {q \in {p} : pc[q] = "meta"} /\ meta' = meta
      BY <2>9 DEF MetaFails, Types
    <3> QED
      BY <2>0, <3>1
  <2> QED
    BY <2>1, <2>2, <2>3, <2>4, <2>5, <2>6, <2>7, <2>8, <2>9 DEF StorePart
<1> QED
  BY <1>1, <1>4, <1>5, <1>6 DEF Copies

-----------------------------------------------------------------------------
(* The lines.  The parts of a message read and write days of their own, so *)
(* that none writes back what another has written in the meantime.         *)

DaysApart ==
  \A b \in Batches : \A i \in DOMAIN b : \A p, q \in Split(b[i]) :
    p # q => FetchedDays(p) \cap FetchedDays(q) = {}

(* The parts of the message that is imported have days of their own.       *)
LEMMA PartsApart ==
  ASSUME DaysApart, Types, NEW p \in DOMAIN pc, NEW q \in DOMAIN pc, p # q
  PROVE  FetchedDays(p) \cap FetchedDays(q) = {}
<1>1. /\ batch \in Batches /\ number \in 1 .. Len(batch)
      /\ p \in Split(batch[number]) /\ q \in Split(batch[number])
  BY MessageType DEF Types, msg
<1>2. number \in DOMAIN batch
  BY <1>1, BatchType
<1> QED
  BY <1>1, <1>2 DEF DaysApart

(* importEnergyValuesV2 and SetLines: as the lines read are the ones in    *)
(* the database, writing them back changes the cells of the part only.     *)
LEMMA WriteInPlace ==
  ASSUME Types, Fresh, NEW p \in DOMAIN pc, NEW n, Stores(p, n)
  PROVE  LET value == FirstRows(ValueOf(number, p), n)
             col   == Column(msg.meter, cp[p].idx)
         IN  /\ DOMAIN lines' = DOMAIN lines \cup DOMAIN value
             /\ \A r \in DOMAIN lines \ DOMAIN value : lines'[r] = lines[r]
             /\ \A r \in DOMAIN value : \A c \in Columns :
                  lines'[r][c] = IF c = col THEN value[r]
                                 ELSE IF r \in DOMAIN lines THEN lines[r][c] ELSE {}
<1> DEFINE all == ValueOf(number, p)
           value == FirstRows(all, n)
           col == Column(msg.meter, cp[p].idx)
           written == UpdatedLines(p)
           rows == {r \in DOMAIN written : r < n}
           put(ls, r) == [(IF r \in DOMAIN ls THEN ls[r] ELSE EmptyLine) EXCEPT ![col] = value[r]]
<1>1. /\ lines' = [r \in DOMAIN lines \cup rows |-> IF r \in rows THEN written[r] ELSE lines[r]]
      /\ pc[p] = "write"
  BY DEF Stores, Put
<1>0. /\ DOMAIN value = {r \in DOMAIN all : r < n}
      /\ \A r \in DOMAIN value : value[r] = all[r]
  BY DEF FirstRows
<1>2. /\ rows = {r \in DOMAIN fetched[p] : r < n} \cup DOMAIN value
      /\ \A r \in rows \ DOMAIN value : r \in DOMAIN fetched[p] /\ written[r] = fetched[p][r]
      /\ \A r \in DOMAIN value : written[r] = put(fetched[p], r)
  <2>1. /\ DOMAIN written = DOMAIN fetched[p] \cup DOMAIN all
        /\ \A r \in DOMAIN fetched[p] \ DOMAIN all : written[r] = fetched[p][r]
        /\ \A r \in DOMAIN all :
             written[r] = [(IF r \in DOMAIN fetched[p] THEN fetched[p][r] ELSE EmptyLine)
                             EXCEPT ![col] = all[r]]
    BY WriteType, Zenon DEF Imports, all, col, written
  <2> HIDE DEF all, value, col, written
  <2> QED
    BY <1>0, <2>1
<1>3. /\ \A r \in DOMAIN fetched[p] : r \in DOMAIN lines /\ fetched[p][r] = lines[r]
      /\ \A r \in DOMAIN lines : r \div DayLen \in FetchedDays(p) => r \in DOMAIN fetched[p]
  BY <1>1 DEF Fresh
<1>4. \A r \in DOMAIN value : r \div DayLen \in FetchedDays(p)
  BY <1>0, MessageType, ValueType
<1> HIDE DEF all, value, col, written, rows
<1>5. \A r \in DOMAIN value : put(fetched[p], r) = put(lines, r)
  <2> TAKE r \in DOMAIN value
  <2>1. r \in DOMAIN fetched[p] <=> r \in DOMAIN lines
    BY <1>3, <1>4
  <2>2. r \in DOMAIN fetched[p] => fetched[p][r] = lines[r]
    BY <1>3
  <2> QED
    BY <2>1, <2>2
<1>6. ASSUME NEW r \in DOMAIN value, NEW c \in Columns
      PROVE  put(lines, r)[c] = IF c = col THEN value[r]
                                ELSE IF r \in DOMAIN lines THEN lines[r][c] ELSE {}
  <2>1. (IF r \in DOMAIN lines THEN lines[r] ELSE EmptyLine) \in Line
    BY DEF Types, AreLines, EmptyLine, Line
  <2>2. EmptyLine[c] = {}
    BY DEF EmptyLine
  <2> QED
    BY <2>1, <2>2 DEF Line
<1> HIDE DEF put
<1>7. /\ DOMAIN lines' = DOMAIN lines \cup DOMAIN value
      /\ \A r \in DOMAIN lines \ DOMAIN value : lines'[r] = lines[r]
      /\ \A r \in DOMAIN value : lines'[r] = put(lines, r)
  BY <1>1, <1>2, <1>3, <1>5
<1>8. \A r \in DOMAIN value : \A c \in Columns :
        lines'[r][c] = IF c = col THEN value[r]
                       ELSE IF r \in DOMAIN lines THEN lines[r][c] ELSE {}
  BY <1>6, <1>7, Zenon
<1> QED
  BY <1>7, <1>8, Zenon DEF all, value, col

(* A write that does not fail stores all rows of the part.                 *)
LEMMA AllRows ==
  ASSUME Types, NEW p \in DOMAIN pc
  PROVE  FirstRows(ValueOf(number, p), EndOfRows) = ValueOf(number, p)
<1> DEFINE V == ValueOf(number, p)
<1>1. DOMAIN V \subseteq Rows /\ V = [r \in DOMAIN V |-> V[r]]
  BY MessageType, ValueType DEF ValueOf
<1>2. EndOfRows \in Nat /\ Rows = 0 .. EndOfRows - 1
  BY ImportAssumption, FS_CardinalityType DEF EndOfRows, Rows
<1> HIDE DEF V
<1>3. {r \in DOMAIN V : r < EndOfRows} = DOMAIN V
  <2>1. \A r \in Rows : r < EndOfRows
    BY <1>2
  <2> QED
    BY <1>1, <2>1, Zenon
<1> QED
  BY <1>1, <1>3 DEF FirstRows, V

(* A part leaves the lines of all days but its own alone.                  *)
LEMMA OtherDaysStay ==
  ASSUME Types, Fresh, NEW p \in DOMAIN pc, StorePart(p),
         NEW r, r \div DayLen \notin FetchedDays(p)
  PROVE  /\ r \in DOMAIN lines' <=> r \in DOMAIN lines
         /\ r \in DOMAIN lines => lines'[r] = lines[r]
<1>1. CASE WriteLines(p) \/ WriteFails(p)
  <2>0. PICK n : Stores(p, n)
    BY <1>1, WriteStores
  <2> DEFINE value == FirstRows(ValueOf(number, p), n)
  <2>1. r \notin DOMAIN value
    BY MessageType, ValueType DEF FirstRows
  <2>2. /\ DOMAIN lines' = DOMAIN lines \cup DOMAIN value
        /\ \A x \in DOMAIN lines \ DOMAIN value : lines'[x] = lines[x]
    BY <2>0, WriteInPlace
  <2> QED
    BY <2>1, <2>2
<1>2. CASE ~ WriteLines(p) /\ ~ WriteFails(p)
  BY <1>2 DEF StorePart, MetaFails, ReadMeta, CreateMeta, CreateFails, FetchLines, WriteFails, RereadMeta,
              SaveMeta
<1> QED
  BY <1>1, <1>2

(* fetchSourceRange: no other part writes a day that this one has read.    *)
LEMMA FreshStep ==
  ASSUME Types, Fresh, NEW p \in DOMAIN pc, StorePart(p),
         \A q \in DOMAIN pc : q # p => FetchedDays(p) \cap FetchedDays(q) = {}
  PROVE  Fresh'
<1>1. /\ DOMAIN pc' = DOMAIN pc
      /\ \A q \in DOMAIN pc \ {p} : pc'[q] = pc[q] /\ fetched'[q] = fetched[q]
  BY PartFrame
<1>2. ASSUME NEW q \in DOMAIN pc, q # p, pc'[q] = "write"
      PROVE  /\ \A r \in DOMAIN fetched'[q] : /\ r \div DayLen \in FetchedDays(q)
                                              /\ r \in DOMAIN lines' /\ fetched'[q][r] = lines'[r]
             /\ \A r \in DOMAIN lines' : r \div DayLen \in FetchedDays(q) =>
                  r \in DOMAIN fetched'[q]
  <2>1. pc[q] = "write" /\ fetched'[q] = fetched[q]
    BY <1>1, <1>2
  <2>2. /\ \A r \in DOMAIN fetched[q] : /\ r \div DayLen \in FetchedDays(q)
                                        /\ r \in DOMAIN lines /\ fetched[q][r] = lines[r]
        /\ \A r \in DOMAIN lines : r \div DayLen \in FetchedDays(q) => r \in DOMAIN fetched[q]
    BY <2>1 DEF Fresh
  <2>3. FetchedDays(p) \cap FetchedDays(q) = {}
    BY <1>2
  <2>4. \A r : r \div DayLen \in FetchedDays(q) =>
          /\ r \in DOMAIN lines' <=> r \in DOMAIN lines
          /\ r \in DOMAIN lines => lines'[r] = lines[r]
    BY <2>3, OtherDaysStay
  <2> QED
    BY <2>1, <2>2, <2>4
<1>3. ASSUME pc'[p] = "write"
      PROVE  /\ \A r \in DOMAIN fetched'[p] : /\ r \div DayLen \in FetchedDays(p)
                                              /\ r \in DOMAIN lines' /\ fetched'[p][r] = lines'[r]
             /\ \A r \in DOMAIN lines' : r \div DayLen \in FetchedDays(p) =>
                  r \in DOMAIN fetched'[p]
  <2>1. FetchLines(p)
    BY <1>3 DEF StorePart, MetaFails, ReadMeta, CreateMeta, CreateFails, WriteLines, WriteFails, RereadMeta,
                SaveMeta, Goto, Types
  <2> DEFINE read == [r \in {x \in DOMAIN lines : x \div DayLen \in FetchedDays(p)} |-> lines[r]]
  <2>2. fetched' = [fetched EXCEPT ![p] = read] /\ lines' = lines
    BY <2>1 DEF FetchLines
  <2>3. fetched'[p] = read
    BY <2>2 DEF Types
  <2> QED
    BY <2>2, <2>3
<1> QED
  BY <1>1, <1>2, <1>3 DEF Fresh

(* SetLines: what one part has written, no other part overwrites.          *)
LEMMA WrittenStep ==
  ASSUME DaysApart, Types, Copies, Fresh, Written, NEW p \in DOMAIN pc, StorePart(p)
  PROVE  Written'
<1> DEFINE value(q) == ValueOf(number, q)
           col == Column(msg.meter, Idx(msg.meter))
<1>1. /\ DOMAIN pc' = DOMAIN pc /\ number' = number /\ msg' = msg
      /\ \A q \in DOMAIN pc \ {p} : pc'[q] = pc[q] /\ (q \in failed' <=> q \in failed)
  BY PartFrame
<1>2. col' = col
  <2>1. PICK c \in Meters : c = msg.meter
    BY MessageType
  <2>2. Idx(c)' = Idx(c)
    BY <2>1, RecordGrows, IdxStays
  <2> QED
    BY <1>1, <2>1, <2>2 DEF Idx
<1>3. ASSUME NEW q \in DOMAIN pc, q \notin failed, pc[q] \in {"reread", "save", "done"},
             ~ (q = p /\ (WriteLines(p) \/ WriteFails(p))), NEW r \in DOMAIN value(q)
      PROVE  r \in DOMAIN lines' /\ lines'[r][col] = value(q)[r]
  <2>1. r \in DOMAIN lines /\ lines[r][col] = value(q)[r]
    BY <1>3 DEF Written
  <2>2. CASE q = p
    <3>1. lines' = lines
      BY <1>3, <2>2 DEF StorePart, MetaFails, ReadMeta, CreateMeta, CreateFails, FetchLines, WriteFails,
                        RereadMeta, SaveMeta
    <3> QED
      BY <2>1, <3>1
  <2>3. CASE q # p
    <3>1. r \div DayLen \in FetchedDays(q)
      BY MessageType, ValueType
    <3>2. r \div DayLen \notin FetchedDays(p)
      BY <2>3, <3>1, PartsApart
    <3> QED
      BY <2>1, <3>2, OtherDaysStay
  <2> QED
    BY <2>2, <2>3
<1>4. ASSUME WriteLines(p), NEW r \in DOMAIN value(p)
      PROVE  r \in DOMAIN lines' /\ lines'[r][col] = value(p)[r]
  <2>1. pc[p] = "write" /\ cp[p].idx = Idx(msg.meter)
    BY <1>4 DEF WriteLines, Goto, Copies
  <2>2. col \in Columns
    BY <2>1, WriteType
  <2>3. PICK n : Stores(p, n) /\ n = EndOfRows
    BY <1>4, WriteStores
  <2>4. FirstRows(value(p), n) = value(p)
    BY <2>3, AllRows
  <2>5. r \in DOMAIN FirstRows(value(p), n) /\ FirstRows(value(p), n)[r] = value(p)[r]
    BY <1>4, <2>4
  <2>6. r \in DOMAIN lines' /\ lines'[r][col] = FirstRows(value(p), n)[r]
    BY <2>1, <2>2, <2>3, <2>5, WriteInPlace, ZenonT(40)
  <2> QED
    BY <2>5, <2>6
<1>5. ASSUME NEW q \in DOMAIN pc', q \notin failed', pc'[q] \in {"reread", "save", "done"},
             NEW r \in DOMAIN value(q)
      PROVE  r \in DOMAIN lines' /\ lines'[r][col] = value(q)[r]
  <2>1. CASE q = p /\ WriteLines(p)
    BY <1>4, <1>5, <2>1
  <2>2. CASE q # p
    BY <1>1, <1>3, <1>5, <2>2
  <2>3. CASE q = p /\ ~ WriteLines(p)
    <3>0. ~ WriteFails(p)
      BY <1>5, <2>3 DEF WriteFails
    <3>1. q \notin failed /\ pc[q] \in {"reread", "save", "done"}
      BY <1>5, <2>3 DEF StorePart, MetaFails, ReadMeta, CreateMeta, CreateFails, FetchLines, WriteFails,
                        RereadMeta, SaveMeta, Goto, Types
    <3> QED
      BY <1>1, <1>3, <1>5, <2>3, <3>0, <3>1
  <2> QED
    BY <2>1, <2>2, <2>3
<1>6. \A q : value(q)' = value(q)
  BY <1>1 DEF ValueOf
<1> QED
  BY <1>1, <1>2, <1>5, <1>6 DEF Written

-----------------------------------------------------------------------------
(* The types of the import, whatever its messages and faults are.          *)

IInv == Types /\ Copies

(* The inductive invariant implies TypeOK.                                 *)
LEMMA TypesHold == IInv => TypeOK
<1> SUFFICES ASSUME IInv PROVE TypeOK
  OBVIOUS
<1>1. ASSUME NEW mt, IsRecord(mt) PROVE IsMeta(mt)
  BY <1>1 DEF IsRecord, IsMeta
<1>2. ASSUME NEW ls, AreLines(ls) PROVE IsLines(ls)
  BY <1>2 DEF AreLines, IsLines, Line
<1>3. \A p \in DOMAIN pc : p.lo \in Intervals /\ p.hi \in Nat
  BY MessageType, PartType DEF IInv
<1>4. number \in Nat
  BY ImportAssumption DEF IInv, Types
<1> QED
  BY <1>1, <1>2, <1>3, <1>4 DEF IInv, Types, TypeOK

(* A step that changes nothing.                                            *)
LEMMA UnchangedInv ==
  ASSUME UNCHANGED vars
  PROVE  /\ IInv => IInv'
         /\ Fresh => Fresh'
         /\ Written => Written'
<1>1. /\ meta' = meta /\ lines' = lines /\ batch' = batch /\ number' = number /\ pc' = pc
      /\ cp' = cp /\ view' = view /\ fetched' = fetched /\ failed' = failed
  BY DEF vars, input, locals
<1>2. msg' = msg /\ \A p : ValueOf(number, p)' = ValueOf(number, p)
  BY <1>1 DEF msg, ValueOf
<1>3. Types => Types'
  BY <1>1, <1>2 DEF Types
<1>4. Idx(msg.meter)' = Idx(msg.meter)
  BY <1>1, <1>2 DEF Idx
<1>5. Copies => Copies'
  BY <1>1, <1>2, <1>4 DEF Copies
<1>6. Fresh => Fresh'
  BY <1>1 DEF Fresh
<1>7. Written => Written'
  BY <1>1, <1>2, <1>4 DEF Written
<1> QED
  BY <1>3, <1>5, <1>6, <1>7 DEF IInv

(* No interleaving of the goroutines takes the import out of its types.    *)
THEOREM ImportInductive ==
  /\ Init => IInv
  /\ IInv /\ [Next]_vars => IInv'
  /\ IInv => TypeOK
<1>1. Init => IInv
  BY InitTypes DEF IInv
<1>2. ASSUME IInv, [Next]_vars PROVE IInv'
  <2>1. CASE NextMessage
    BY <1>2, <2>1, NextMessageStep DEF IInv
  <2>2. ASSUME NEW p \in DOMAIN pc, StorePart(p) PROVE IInv'
    BY <1>2, <2>2, TypesStep, CopiesStep DEF IInv
  <2>3. CASE UNCHANGED vars
    BY <1>2, <2>3, UnchangedInv
  <2> QED
    BY <1>2, <2>1, <2>2, <2>3 DEF Next
<1> QED
  BY <1>1, <1>2, TypesHold

(* Every record and line that the goroutines of StoreEnergyV2 read, keep   *)
(* or write is well formed, and every column a column of the community.    *)
THEOREM ImportTypeCorrect == Spec => []TypeOK
<1>1. IInv => TypeOK
  BY TypesHold
<1> QED
  BY <1>1, ImportInductive, PTL DEF Spec

-----------------------------------------------------------------------------
(* Values are stored if the parts of a message have days of their own.     *)

SInv == IInv /\ Fresh /\ Written

(* Fresh and Written, on top of the types.                                 *)
LEMMA StoredInductive ==
  ASSUME DaysApart
  PROVE  /\ Init => SInv
         /\ SInv /\ [Next]_vars => SInv'
<1>1. Init => SInv
  BY InitTypes DEF IInv, SInv
<1>2. ASSUME SInv, [Next]_vars PROVE SInv'
  <2>0. IInv' /\ Types /\ Copies /\ Fresh /\ Written
    BY <1>2, ImportInductive DEF SInv, IInv
  <2>1. CASE NextMessage
    BY <2>0, <2>1, NextMessageStep DEF SInv
  <2>2. ASSUME NEW p \in DOMAIN pc, StorePart(p) PROVE SInv'
    <3>1. \A q \in DOMAIN pc : q # p => FetchedDays(p) \cap FetchedDays(q) = {}
      BY <2>0, PartsApart
    <3> QED
      BY <2>0, <2>2, <3>1, FreshStep, WrittenStep DEF SInv
  <2>3. CASE UNCHANGED vars
    BY <2>0, <2>3, UnchangedInv DEF SInv
  <2> QED
    BY <1>2, <2>1, <2>2, <2>3 DEF Next
<1> QED
  BY <1>1, <1>2

(* Import: when the goroutines are done, the values are there.             *)
LEMMA StoredHolds == SInv => ValuesStored
<1> SUFFICES ASSUME SInv, Waiting, NEW p \in DOMAIN pc \ failed, NEW r \in DOMAIN ValueOf(number, p)
             PROVE  Cell(msg.meter, r) = ValueOf(number, p)[r]
  BY DEF ValuesStored
<1>1. pc[p] = "done"
  BY DEF Waiting
<1>2. msg.meter \in DOMAIN meta
  BY <1>1 DEF SInv, IInv, Copies
<1>3. r \in DOMAIN lines /\ lines[r][Column(msg.meter, Idx(msg.meter))] = ValueOf(number, p)[r]
  BY <1>1 DEF SInv, Written
<1>4. Idx(msg.meter) = meta[msg.meter].idx
  BY <1>2 DEF Idx, WithMeter
<1> QED
  BY <1>2, <1>3, <1>4 DEF Cell

(* Import waits for the goroutines of a message, and then the reports see  *)
(* every value of it that could be written, for every schedule of them.    *)
THEOREM ValuesAreStored ==
  ASSUME DaysApart
  PROVE  Spec => []ValuesStored
<1>1. /\ Init => SInv
      /\ SInv /\ [Next]_vars => SInv'
  BY StoredInductive
<1>2. SInv => ValuesStored
  BY StoredHolds
<1> QED
  BY <1>1, <1>2, PTL DEF Spec

-----------------------------------------------------------------------------
(* Between two changes of the clock every day has 24 hours, and a step of  *)
(* SplitEnergyByDay is a day.                                              *)

RegularDays ==
  /\ \A d \in Midnights : d % DayLen = 0
  /\ \A t \in 0 .. Horizon : (t \div DayLen) * DayLen \in Midnights

(* Steps of 24 hours: an interval is in exactly one of them.               *)
LEMMA Blocks ==
  ASSUME NEW t \in Nat, NEW k \in Nat
  PROVE  /\ t \div DayLen \in Nat /\ (t \div DayLen) * DayLen \in Nat
         /\ (t \div DayLen) * DayLen =< t /\ t < (t \div DayLen) * DayLen + DayLen
         /\ k * DayLen =< t /\ t < k * DayLen + DayLen => t \div DayLen = k
         /\ (k + 1) * DayLen = k * DayLen + DayLen /\ k * DayLen \in Nat
<1> DEFINE n == DayLen
           q == t \div n
<1>1. n \in Nat \ {0}
  BY ImportAssumption
<1> HIDE DEF n
<1>2. q \in Nat /\ t = n * q + (t % n) /\ t % n \in 0 .. n - 1
  BY <1>1
<1> HIDE DEF q
<1>3. q * n \in Nat /\ n * q = q * n
  BY <1>1, <1>2
<1>4. q * n =< t /\ t < q * n + n
  BY <1>1, <1>2, <1>3
<1>5. ASSUME k * n =< t, t < k * n + n PROVE q = k
  <2>1. k * n \in Nat /\ t - k * n \in 0 .. n - 1
    BY <1>1, <1>5
  <2>2. (k * n + (t - k * n)) \div n = k
    BY <1>1, <2>1, Quotient
  <2>3. k * n + (t - k * n) = t
    BY <2>1
  <2> QED
    BY <2>2, <2>3 DEF q
<1>6. (k + 1) * n = k * n + n /\ k * n \in Nat
  BY <1>1
<1> QED
  BY <1>2, <1>3, <1>4, <1>5, <1>6 DEF q, n

(* dayStart *)
LEMMA RegularStart ==
  ASSUME RegularDays, NEW t \in 0 .. Horizon
  PROVE  t \in Nat /\ DayStart(t) = (t \div DayLen) * DayLen
<1> DEFINE q == t \div DayLen
           s == DayStart(t)
           b == s \div DayLen
<1>1. t \in Nat /\ DayLen \in Nat \ {0}
  BY ImportAssumption
<1>2. q \in Nat /\ q * DayLen \in Nat /\ q * DayLen =< t /\ t < q * DayLen + DayLen
  BY <1>1, Blocks
<1>3. s \in Nat /\ s =< t /\ s \in Midnights /\ \A d \in Until(t) : d =< s
  BY <1>1, StartType
<1>4. q * DayLen =< s
  <2>1. q * DayLen \in Until(t)
    BY <1>2 DEF RegularDays, Until
  <2> QED
    BY <1>3, <2>1
<1> HIDE DEF q, s
<1>5. b = q
  BY <1>1, <1>2, <1>3, <1>4, Blocks
<1>6. s % DayLen = 0
  BY <1>3 DEF RegularDays
<1>7. s = DayLen * b + (s % DayLen) /\ b \in Nat
  BY <1>1, <1>3
<1> HIDE DEF b
<1>8. DayLen * b = b * DayLen /\ b * DayLen \in Nat
  BY <1>1, <1>7
<1>9. s = q * DayLen
  BY <1>5, <1>6, <1>7, <1>8
<1> QED
  BY <1>1, <1>9 DEF q, s

(* A step is the intervals of the message in one day.                      *)
LEMMA RegularPart ==
  ASSUME RegularDays, NEW m \in Message, m.from < m.until, NEW k \in Steps(m)
  PROVE  /\ k \in Nat /\ m.from \div DayLen + k \in Nat
         /\ \A t \in Nat : t \in PartIntervals(Part(m, k)) <=>
              /\ m.from =< t /\ t < m.until
              /\ t \div DayLen = m.from \div DayLen + k
<1> DEFINE a == m.from \div DayLen
           n == DayLen
           p == Part(m, k)
<1>1. /\ m.from \in Nat /\ m.until \in Nat /\ m.from \in 0 .. Horizon /\ k \in Nat
      /\ n \in Nat \ {0}
  BY ImportAssumption DEF Message, Steps
<1>2. a \in Nat /\ DayStart(m.from) = a * n
  BY <1>1, RegularStart, Blocks
<1>3. a * n + k * n = (a + k) * n /\ (a + k) * n \in Nat /\ a + k \in Nat
  BY <1>1, <1>2
<1>4. p.lo = MaxOf((a + k) * n, m.from) /\ p.hi = MinOf((a + k) * n + n, m.until)
  BY <1>2, <1>3 DEF Part
<1> HIDE DEF a, p
<1>5. ASSUME NEW t \in Nat
      PROVE  t \in PartIntervals(p) <=> /\ m.from =< t /\ t < m.until
                                        /\ (a + k) * n =< t /\ t < (a + k) * n + n
  BY <1>1, <1>3, <1>4, <1>5 DEF PartIntervals, MaxOf, MinOf
<1>6. ASSUME NEW t \in Nat
      PROVE  (a + k) * n =< t /\ t < (a + k) * n + n <=> t \div n = a + k
  BY <1>3, <1>6, Blocks
<1> QED
  BY <1>1, <1>3, <1>5, <1>6 DEF a, p

(* Every interval of a message is in one part of it, and in one only.      *)
LEMMA RegularSplit ==
  ASSUME RegularDays, NEW m \in Message, m.from < m.until
  PROVE  /\ UNION {PartIntervals(p) : p \in Split(m)} = m.from .. m.until - 1
         /\ \A p, q \in Split(m) : p # q =>
              PartIntervals(p) \cap PartIntervals(q) = {} /\ FetchedDays(p) \cap FetchedDays(q) = {}
<1> DEFINE a == m.from \div DayLen
<1>1. /\ m.from \in Nat /\ m.until \in 1 .. Horizon /\ DayLen \in Nat \ {0} /\ Horizon \in Nat
      /\ m.from \in 0 .. Horizon
  BY ImportAssumption DEF Message
<1>2. ASSUME NEW t \in m.from .. m.until - 1
      PROVE  \E p \in Split(m) : t \in PartIntervals(p)
  <2> DEFINE k == t \div DayLen - a
             e == m.until \div DayLen
  <2>1. t \in Nat /\ t \in 0 .. Horizon /\ m.from =< t /\ t < m.until
    BY <1>1, <1>2
  <2>2. /\ a \in Nat /\ a * DayLen =< m.from /\ a * DayLen \in Nat
        /\ t \div DayLen \in Nat /\ t < (t \div DayLen) * DayLen + DayLen
        /\ (t \div DayLen) * DayLen =< t /\ (t \div DayLen) * DayLen \in Nat
        /\ e \in Nat /\ m.until < e * DayLen + DayLen /\ e * DayLen \in Nat
    BY <1>1, <2>1, Blocks
  <2>3. a =< t \div DayLen
    <3> SUFFICES ASSUME t \div DayLen + 1 =< a PROVE FALSE
      BY <2>2
    <3>1. (t \div DayLen + 1) * DayLen =< a * DayLen
      BY <1>1, <2>2, TimesMonotone
    <3>2. (t \div DayLen + 1) * DayLen = (t \div DayLen) * DayLen + DayLen
      BY <2>2, Blocks
    <3> QED
      BY <1>1, <2>1, <2>2, <3>1, <3>2
  <2>4. t \div DayLen =< e
    <3> SUFFICES ASSUME e + 1 =< t \div DayLen PROVE FALSE
      BY <2>2
    <3>1. (e + 1) * DayLen =< (t \div DayLen) * DayLen
      BY <1>1, <2>2, TimesMonotone
    <3>2. (e + 1) * DayLen = e * DayLen + DayLen
      BY <2>2, Blocks
    <3> QED
      BY <1>1, <2>1, <2>2, <3>1, <3>2
  <2>5. k \in Nat /\ a + k = t \div DayLen
    BY <2>2, <2>3
  <2>6. k \in 0 .. Horizon
    <3>1. PICK q \in Nat : q = t \div DayLen
      BY <2>2
    <3>2. q =< q * DayLen /\ q * DayLen =< t
      BY <1>1, <2>2, <3>1, TimesGrows
    <3>3. PICK c \in Nat : c = a
      BY <2>2
    <3>4. q * DayLen \in Nat /\ k = q - c
      BY <2>2, <3>1, <3>3
    <3>5. k =< q /\ q =< t
      BY <2>1, <2>5, <3>2, <3>4
    <3>6. t =< Horizon /\ t \in Nat
      BY <1>1, <2>1
    <3>7. k \in Nat /\ q \in Nat
      BY <2>5, <3>1
    <3> HIDE DEF k
    <3>8. k =< Horizon
      BY <1>1, <3>5, <3>6, <3>7
    <3> QED
      BY <1>1, <3>7, <3>8
  <2>7. k \in Steps(m)
    <3>1. DayStart(m.from) = a * DayLen /\ DayStart(m.until) = e * DayLen
      <4>1. m.until \in 0 .. Horizon
        BY <1>1
      <4>2. DayStart(m.from) = (m.from \div DayLen) * DayLen
        BY <1>1, RegularStart
      <4>3. DayStart(m.until) = (m.until \div DayLen) * DayLen
        BY <4>1, RegularStart
      <4> QED
        BY <4>2, <4>3
    <3>2. a * DayLen + k * DayLen = (t \div DayLen) * DayLen
      <4> HIDE DEF k, a
      <4>1. a * DayLen + k * DayLen = (a + k) * DayLen
        BY <1>1, <2>2, <2>5
      <4> QED
        BY <2>5, <4>1
    <3>3. (t \div DayLen) * DayLen =< e * DayLen
      BY <1>1, <2>2, <2>4, TimesMonotone
    <3> QED
      BY <2>6, <3>1, <3>2, <3>3 DEF Steps
  <2> HIDE DEF k
  <2>8. t \in PartIntervals(Part(m, k))
    BY <2>1, <2>5, <2>7, RegularPart
  <2>9. Part(m, k).lo < Part(m, k).hi
    <3>1. Part(m, k).lo \in Nat /\ Part(m, k).hi \in Nat
      <4>1. DayStart(m.from) \in Nat /\ k * DayLen \in Nat
        BY <1>1, <2>5, StartType, Blocks
      <4> QED
        BY <1>1, <4>1 DEF Part, MaxOf, MinOf
    <3> QED
      BY <2>1, <2>8, <3>1 DEF PartIntervals
  <2>10. Part(m, k) \in Split(m)
    BY <2>7, <2>9 DEF Split
  <2> QED
    BY <2>8, <2>10
<1>3. ASSUME NEW p \in Split(m)
      PROVE  PartIntervals(p) \subseteq m.from .. m.until - 1
  <2>1. /\ p.lo \in Nat /\ p.hi \in Nat /\ m.from =< p.lo /\ p.hi =< m.until
    BY PartType DEF Intervals
  <2> QED
    BY <1>1, <2>1 DEF PartIntervals
<1>4. ASSUME NEW p \in Split(m)
      PROVE  \E k \in Nat : /\ p = Part(m, k)
                            /\ \A t \in PartIntervals(p) : t \in Nat /\ t \div DayLen = a + k
  <2>1. PICK k \in Steps(m) : p = Part(m, k)
    BY DEF Split
  <2>2. PartIntervals(p) \subseteq Nat
    BY PartType DEF Intervals
  <2> QED
    BY <2>1, <2>2, RegularPart
<1>5. ASSUME NEW p \in Split(m), NEW q \in Split(m), p # q
      PROVE  /\ PartIntervals(p) \cap PartIntervals(q) = {}
             /\ DayStart(p.lo) # DayStart(q.lo)
  <2>1. PICK k \in Nat : /\ p = Part(m, k)
                         /\ \A t \in PartIntervals(p) : t \in Nat /\ t \div DayLen = a + k
    BY <1>4
  <2>2. PICK j \in Nat : /\ q = Part(m, j)
                         /\ \A t \in PartIntervals(q) : t \in Nat /\ t \div DayLen = a + j
    BY <1>4
  <2>3. k # j /\ a \in Nat
    BY <1>1, <1>5, <2>1, <2>2, Blocks
  <2>4. a + k # a + j
    BY <2>3
  <2>5. /\ p.lo \in PartIntervals(p) /\ q.lo \in PartIntervals(q)
        /\ p.lo \in 0 .. Horizon /\ q.lo \in 0 .. Horizon /\ p.lo \in Nat /\ q.lo \in Nat
    BY <1>1, PartType DEF Intervals
  <2>6. DayStart(p.lo) = (a + k) * DayLen /\ DayStart(q.lo) = (a + j) * DayLen
    BY <2>1, <2>2, <2>5, RegularStart
  <2> HIDE DEF a
  <2>7. (a + k) * DayLen # (a + j) * DayLen
    <3> SUFFICES ASSUME (a + k) * DayLen = (a + j) * DayLen PROVE FALSE
      OBVIOUS
    <3>1. (p.lo) \div DayLen = a + k /\ (q.lo) \div DayLen = a + j
      BY <2>1, <2>2, <2>5
    <3>2. (a + k) * DayLen =< p.lo /\ p.lo < (a + k) * DayLen + DayLen
      BY <2>5, <3>1, Blocks
    <3>3. p.lo \div DayLen = a + j
      BY <2>3, <2>5, <3>2, Blocks, SMTT(30)
    <3> QED
      BY <2>4, <3>1, <3>3
  <2> QED
    BY <2>1, <2>2, <2>4, <2>6, <2>7
<1>6. ASSUME NEW p \in Split(m)
      PROVE  DayOf(p.hi - 1) = DayOf(p.lo) /\ p.lo \in Nat
  <2>1. PICK k \in Nat : \A t \in PartIntervals(p) : t \in Nat /\ t \div DayLen = a + k
    BY <1>4
  <2>2. /\ p.lo \in Nat /\ p.hi - 1 \in Nat /\ p.lo =< p.hi - 1
        /\ p.lo \in 0 .. Horizon /\ p.hi - 1 \in 0 .. Horizon
        /\ p.lo \in PartIntervals(p) /\ p.hi - 1 \in PartIntervals(p)
    BY <1>1, PartType DEF Intervals
  <2>3. DayStart(p.lo) = DayStart(p.hi - 1)
    BY <2>1, <2>2, RegularStart
  <2>4. DayStart(p.lo) =< p.lo /\ DayStart(p.lo) \in Nat
        /\ \A d \in Until(p.hi - 1) : d =< DayStart(p.lo)
    BY <2>2, <2>3, StartType
  <2>5. \A d \in Midnights : d \in Nat
    BY ImportAssumption
  <2>6. Until(p.lo) = Until(p.hi - 1)
    <3>1. \A d \in Midnights : d =< p.lo <=> d =< p.hi - 1
      BY <2>2, <2>4, <2>5 DEF Until
    <3> QED
      BY <3>1 DEF Until
  <2> QED
    BY <2>2, <2>6, Zenon DEF DayOf, Until
<1>7. ASSUME NEW p \in Split(m), NEW q \in Split(m), p # q
      PROVE  FetchedDays(p) \cap FetchedDays(q) = {}
  <2>1. /\ p.lo \in Nat /\ q.lo \in Nat
        /\ FetchedDays(p) = {DayOf(p.lo)} /\ FetchedDays(q) = {DayOf(q.lo)}
    <3>1. /\ p.lo \in Nat /\ q.lo \in Nat
          /\ DayOf(p.hi - 1) = DayOf(p.lo) /\ DayOf(q.hi - 1) = DayOf(q.lo)
      BY <1>6
    <3>2. DayOf(p.lo) \in Nat /\ DayOf(q.lo) \in Nat
      BY <3>1, DayOfType DEF Days
    <3> QED
      BY <3>1, <3>2 DEF FetchedDays
  <2>2. DayStart(p.lo) # DayStart(q.lo)
    BY <1>5, <1>7
  <2>3. Until(p.lo) # Until(q.lo)
    BY <2>2, Zenon DEF DayStart, Until
  <2>4. DayOf(p.lo) # DayOf(q.lo)
    BY <2>1, <2>3, DayOfMonotone
  <2> QED
    BY <2>1, <2>4
<1> QED
  BY <1>2, <1>3, <1>5, <1>7

(* On days of 24 hours the parts of a message never share a day.           *)
LEMMA RegularApart ==
  ASSUME RegularDays
  PROVE  DaysApart
<1> SUFFICES ASSUME NEW b \in Batches, NEW i \in DOMAIN b, NEW p \in Split(b[i]),
                    NEW q \in Split(b[i]), p # q
             PROVE  FetchedDays(p) \cap FetchedDays(q) = {}
  BY DEF DaysApart
<1>1. b \in Seq(Message)
  BY ImportAssumption DEF Message
<1>2. i \in 1 .. Len(b)
  BY <1>1
<1>3. b[i] \in Message /\ b[i].from < b[i].until
  BY <1>2, BatchType
<1> QED
  BY <1>3, RegularSplit

(* A message of days of 24 hours is split without a loss, and all of it    *)
(* that could be written is in the database when Import goes on.           *)
THEOREM MessagesAreStored ==
  ASSUME RegularDays
  PROVE  Spec => []MessageStored
<1>1. /\ Init => SInv
      /\ SInv /\ [Next]_vars => SInv'
  BY RegularApart, StoredInductive
<1>2. SInv => MessageStored
  <2> SUFFICES ASSUME SInv, number > 0 PROVE SplitIsPartition
    BY StoredHolds DEF MessageStored, SplitIsPartition
  <2>1. number \in 1 .. Len(batch) /\ batch \in Batches /\ DOMAIN pc = Split(msg)
    <3>1. number \in 0 .. Len(batch) /\ batch \in Batches /\ DOMAIN pc = Split(msg)
      BY DEF SInv, IInv, Types
    <3>2. Len(batch) \in Nat
      BY <3>1, ImportAssumption
    <3> QED
      BY <3>1, <3>2
  <2>2. msg \in Message /\ msg.from < msg.until
    BY <2>1, BatchType DEF msg
  <2> QED
    BY <2>1, <2>2, RegularSplit DEF SplitIsPartition
<1> QED
  BY <1>1, <1>2, PTL DEF Spec

-----------------------------------------------------------------------------
(* The import implements EnergyStore, as long as a new meter can be        *)
(* written to the meta record: otherwise its values go to a column that    *)
(* the next new meter gets.                                                *)

(* A goroutine that works on the lines has its meter in the record.        *)
Known ==
  \A p \in DOMAIN pc : pc[p] \notin {"meta", "create", "done"} => msg.meter \in DOMAIN meta

(* A column that no meter of the record has is empty.                      *)
NobodysEmpty ==
  \A r \in DOMAIN lines, c \in Columns :
    (\A n \in DOMAIN meta : Column(n, meta[n].idx) # c) => lines[r][c] = {}

RInv == SInv /\ Known /\ NobodysEmpty

(* StoreEnergyV2 goes on to the lines after the record is written.         *)
LEMMA KnownStep ==
  ASSUME "meta" \notin Faults, IInv, Known, NEW p \in DOMAIN pc, StorePart(p)
  PROVE  Known'
<1>1. /\ msg' = msg /\ DOMAIN pc' = DOMAIN pc
      /\ \A q \in DOMAIN pc \ {p} : pc'[q] = pc[q]
  BY PartFrame DEF IInv
<1>2. DOMAIN meta \subseteq DOMAIN meta' /\ (CreateMeta(p) => msg.meter \in DOMAIN meta')
  BY RecordGrows DEF IInv, Grows
<1>3. ASSUME pc'[p] \notin {"meta", "create", "done"} PROVE msg.meter \in DOMAIN meta'
  <2>1. CASE pc[p] = "meta"
    <3>1. pc'[p] = "done" \/ pc'[p] = IF msg.meter \in DOMAIN meta THEN "fetch" ELSE "create"
      BY <2>1 DEF IInv, Types, StorePart, MetaFails, ReadMeta, CreateMeta, CreateFails, FetchLines,
                  WriteLines, WriteFails, RereadMeta, SaveMeta, Goto
    <3> QED
      BY <1>2, <1>3, <3>1
  <2>2. CASE pc[p] = "create"
    <3>1. CreateMeta(p)
      BY <2>2 DEF StorePart, MetaFails, ReadMeta, CreateFails, FetchLines,
                  WriteLines, WriteFails, RereadMeta, SaveMeta, Goto
    <3> QED
      BY <1>2, <3>1
  <2>3. CASE pc[p] \notin {"meta", "create"}
    <3>1. pc[p] # "done"
      BY <2>3 DEF StorePart, MetaFails, ReadMeta, CreateMeta, CreateFails, FetchLines,
                  WriteLines, WriteFails, RereadMeta, SaveMeta, Goto
    <3> QED
      BY <1>2, <2>3, <3>1 DEF Known
  <2> QED
    BY <2>1, <2>2, <2>3
<1> QED
  BY <1>1, <1>2, <1>3 DEF Known

(* A meter that the record has keeps its column.                           *)
LEMMA ColumnsStay ==
  ASSUME IInv, NEW p \in DOMAIN pc, StorePart(p)
  PROVE  /\ DOMAIN meta \subseteq DOMAIN meta' /\ IsRecord(meta) /\ IsRecord(meta')
         /\ \A n \in DOMAIN meta : meta'[n].idx = meta[n].idx
<1>1. Grows(meta, meta', msg.meter) /\ IsRecord(meta') /\ IsRecord(meta)
  BY RecordGrows DEF IInv, Types
<1>2. \A n \in DOMAIN meta : n \in DOMAIN meta' /\ meta'[n].idx = WithMeter(meta, msg.meter)[n].idx
  BY <1>1 DEF Grows
<1>3. \A n \in DOMAIN meta : WithMeter(meta, msg.meter)[n] = meta[n]
  BY DEF WithMeter
<1> QED
  BY <1>1, <1>2, <1>3

(* Once the meter is known, the part writes to the column of its meter.    *)
LEMMA OwnColumn ==
  ASSUME IInv, Known, NEW p \in DOMAIN pc, WriteLines(p) \/ WriteFails(p)
  PROVE  /\ msg.meter \in DOMAIN meta /\ meta' = meta
         /\ cp[p].idx = meta[msg.meter].idx
<1>1. pc[p] = "write" /\ meta' = meta
  BY DEF WriteLines, WriteFails, Goto
<1>2. msg.meter \in DOMAIN meta /\ cp[p].idx = Idx(msg.meter)
  BY <1>1 DEF IInv, Known, Copies
<1>3. Idx(msg.meter) = meta[msg.meter].idx
  BY <1>2 DEF Idx, WithMeter
<1> QED
  BY <1>1, <1>2, <1>3

(* Only columns of known meters are written (importEnergyValuesV2).        *)
LEMMA NobodysEmptyStep ==
  ASSUME IInv, Fresh, Known, NobodysEmpty, NEW p \in DOMAIN pc, StorePart(p)
  PROVE  NobodysEmpty'
<1> SUFFICES ASSUME NEW r \in DOMAIN lines', NEW c \in Columns,
                    \A n \in DOMAIN meta' : Column(n, meta'[n].idx) # c
             PROVE  lines'[r][c] = {}
  BY DEF NobodysEmpty
<1>1. \A n \in DOMAIN meta : Column(n, meta[n].idx) # c
  BY ColumnsStay
<1>2. CASE WriteLines(p) \/ WriteFails(p)
  <2>0. PICK n : Stores(p, n)
    BY <1>2, WriteStores DEF IInv
  <2> DEFINE V == FirstRows(ValueOf(number, p), n)
  <2>1. Column(msg.meter, cp[p].idx) # c
    BY <1>1, <1>2, OwnColumn
  <2>2. CASE r \in DOMAIN V
    <3>1. lines'[r][c] = IF r \in DOMAIN lines THEN lines[r][c] ELSE {}
      <4>1. \A x \in DOMAIN V : \A d \in Columns :
              lines'[x][d] = IF d = Column(msg.meter, cp[p].idx) THEN V[x]
                             ELSE IF x \in DOMAIN lines THEN lines[x][d] ELSE {}
        BY <2>0, WriteInPlace DEF IInv
      <4> QED
        BY <2>1, <2>2, <4>1
    <3> QED
      BY <1>1, <3>1 DEF NobodysEmpty
  <2>3. CASE r \notin DOMAIN V
    <3>1. r \in DOMAIN lines /\ lines'[r] = lines[r]
      <4>1. /\ DOMAIN lines' = DOMAIN lines \cup DOMAIN V
            /\ \A x \in DOMAIN lines \ DOMAIN V : lines'[x] = lines[x]
        BY <2>0, WriteInPlace DEF IInv
      <4> QED
        BY <2>3, <4>1
    <3> QED
      BY <1>1, <3>1 DEF NobodysEmpty
  <2> QED
    BY <2>2, <2>3
<1>3. CASE ~ WriteLines(p) /\ ~ WriteFails(p)
  <2>1. lines' = lines
    BY <1>3 DEF StorePart, MetaFails, ReadMeta, CreateMeta, CreateFails, FetchLines, WriteFails,
                RereadMeta, SaveMeta
  <2> QED
    BY <1>1, <2>1 DEF NobodysEmpty
<1> QED
  BY <1>2, <1>3

(* What the refinement rests on.                                           *)
LEMMA RefinementInductive ==
  ASSUME DaysApart, "meta" \notin Faults
  PROVE  /\ Init => RInv
         /\ RInv /\ [Next]_vars => RInv'
<1>1. ASSUME Init PROVE RInv
  <2>1. DOMAIN pc = {} /\ DOMAIN lines = {}
    BY <1>1 DEF Init, NoLines
  <2> QED
    BY <1>1, <2>1, StoredInductive DEF RInv, Known, NobodysEmpty
<1>2. ASSUME RInv, [Next]_vars PROVE RInv'
  <2>0. SInv' /\ IInv /\ Fresh /\ Known /\ NobodysEmpty
    BY <1>2, StoredInductive DEF RInv, SInv
  <2>1. CASE NextMessage
    <3>1. /\ meta' = meta /\ lines' = lines
          /\ pc' = [p \in Split(batch[number + 1]) |-> "meta"]
      BY <2>1 DEF NextMessage
    <3>2. Known'
      BY <3>1 DEF Known
    <3>3. NobodysEmpty'
      BY <2>0, <3>1 DEF NobodysEmpty
    <3> QED
      BY <2>0, <3>2, <3>3 DEF RInv
  <2>2. ASSUME NEW p \in DOMAIN pc, StorePart(p) PROVE RInv'
    BY <2>0, <2>2, KnownStep, NobodysEmptyStep DEF RInv
  <2>3. CASE UNCHANGED vars
    <3>1. meta' = meta /\ lines' = lines /\ pc' = pc /\ msg' = msg
      BY <2>3 DEF vars, input, msg
    <3> QED
      BY <2>0, <3>1 DEF RInv, Known, NobodysEmpty
  <2> QED
    BY <1>2, <2>1, <2>2, <2>3 DEF Next
<1> QED
  BY <1>1, <1>2

(* Adding a meter or saving its period shows no energy and hides none.     *)
LEMMA CellsStay ==
  ASSUME IInv, NobodysEmpty, NEW p \in DOMAIN pc, StorePart(p), ~ WriteLines(p), ~ WriteFails(p)
  PROVE  \A n \in Meters : \A r \in Rows : Cell(n, r)' = Cell(n, r)
<1>1. lines' = lines
  BY DEF StorePart, MetaFails, ReadMeta, CreateMeta, CreateFails, FetchLines, WriteFails, RereadMeta, SaveMeta
<1>2. /\ DOMAIN meta \subseteq DOMAIN meta' /\ IsRecord(meta')
      /\ \A n \in DOMAIN meta : meta'[n].idx = meta[n].idx
  BY ColumnsStay
<1>3. ASSUME NEW n \in Meters, NEW r \in Rows PROVE Cell(n, r)' = Cell(n, r)
  <2>1. CASE n \in DOMAIN meta
    BY <1>1, <1>2, <2>1 DEF Cell
  <2>2. CASE n \notin DOMAIN meta'
    BY <1>1, <1>2, <2>2 DEF Cell
  <2>3. CASE n \in DOMAIN meta' /\ n \notin DOMAIN meta
    <3> DEFINE c == Column(n, meta'[n].idx)
    <3>1. c \in Columns
      <4>1. meta'[n].idx \in 0 .. Cardinality(Meters) - 1
        BY <1>2, <2>3 DEF IsRecord, Entries
      <4> QED
        BY <4>1 DEF Columns
    <3>2. \A x \in DOMAIN meta : Column(x, meta[x].idx) # c
      BY <1>2, <2>3 DEF IsRecord, Indexed
    <3>3. r \in DOMAIN lines => lines[r][c] = {}
      BY <3>1, <3>2 DEF NobodysEmpty
    <3> QED
      BY <1>1, <2>3, <3>3 DEF Cell
  <2> QED
    BY <2>1, <2>2, <2>3
<1> QED
  BY <1>3

(* The write of a part sets its cells of the meter of the message only.    *)
LEMMA CellsWritten ==
  ASSUME IInv, Fresh, Known, NEW p \in DOMAIN pc, WriteLines(p) \/ WriteFails(p),
         NEW rows, Stores(p, rows)
  PROVE  \A n \in Meters : \A r \in Rows :
           Cell(n, r)' = IF n = msg.meter /\ r \in DOMAIN FirstRows(ValueOf(number, p), rows)
                         THEN FirstRows(ValueOf(number, p), rows)[r] ELSE Cell(n, r)
<1> DEFINE V == FirstRows(ValueOf(number, p), rows)
<1>1. /\ msg.meter \in DOMAIN meta /\ meta' = meta /\ cp[p].idx = meta[msg.meter].idx
      /\ IsRecord(meta)
  BY OwnColumn DEF IInv, Types
<1>2. /\ DOMAIN lines' = DOMAIN lines \cup DOMAIN V
      /\ \A r \in DOMAIN lines \ DOMAIN V : lines'[r] = lines[r]
      /\ \A r \in DOMAIN V : \A c \in Columns :
           lines'[r][c] = IF c = Column(msg.meter, meta[msg.meter].idx) THEN V[r]
                          ELSE IF r \in DOMAIN lines THEN lines[r][c] ELSE {}
  <2>1. /\ DOMAIN lines' = DOMAIN lines \cup DOMAIN V
        /\ \A r \in DOMAIN lines \ DOMAIN V : lines'[r] = lines[r]
        /\ \A r \in DOMAIN V : \A c \in Columns :
             lines'[r][c] = IF c = Column(msg.meter, cp[p].idx) THEN V[r]
                            ELSE IF r \in DOMAIN lines THEN lines[r][c] ELSE {}
    BY WriteInPlace DEF IInv
  <2> HIDE DEF V
  <2> QED
    BY <1>1, <2>1
<1>3. \A n \in DOMAIN meta : Column(n, meta[n].idx) \in Columns
  <2>1. \A n \in DOMAIN meta : n \in Meters /\ meta[n].idx \in 0 .. Cardinality(Meters) - 1
    BY <1>1 DEF IsRecord, Entries
  <2> QED
    BY <2>1 DEF Columns
<1>4. \A n \in DOMAIN meta : n # msg.meter =>
        Column(n, meta[n].idx) # Column(msg.meter, meta[msg.meter].idx)
  BY <1>1 DEF IsRecord, Indexed
<1> HIDE DEF V
<1>5. ASSUME NEW n \in Meters, NEW r \in Rows
      PROVE  Cell(n, r)' = IF n = msg.meter /\ r \in DOMAIN V THEN V[r] ELSE Cell(n, r)
  <2>1. CASE n \notin DOMAIN meta
    BY <1>1, <2>1 DEF Cell
  <2>2. CASE n \in DOMAIN meta
    <3> DEFINE c == Column(n, meta[n].idx)
    <3>1. /\ c \in Columns
          /\ Cell(n, r)' = IF r \in DOMAIN lines' THEN lines'[r][c] ELSE {}
          /\ Cell(n, r) = IF r \in DOMAIN lines THEN lines[r][c] ELSE {}
      BY <1>1, <1>3, <2>2 DEF Cell
    <3>2. c = Column(msg.meter, meta[msg.meter].idx) <=> n = msg.meter
      BY <1>4, <2>2
    <3> HIDE DEF c
    <3> QED
      BY <1>2, <3>1, <3>2
  <2> QED
    BY <2>1, <2>2
<1> QED
  BY <1>5 DEF V

(* The write of a part is the step of EnergyStore for its meter.           *)
LEMMA WriteIsStorePart ==
  ASSUME IInv, Fresh, Known, NEW p \in DOMAIN pc, WriteLines(p) \/ WriteFails(p)
  PROVE  Store!EnergyNext
<1>0. PICK rows : Stores(p, rows)
  BY WriteStores DEF IInv
<1> DEFINE V == FirstRows(ValueOf(number, p), rows)
           stored == [meter |-> msg.meter, value |-> V]
<1>1. msg.meter \in Meters /\ p \in Split(msg) /\ number \in 1 .. Len(batch) /\ batch \in Batches
  BY MessageType DEF IInv, Types
<1>2. stored \in Parts
  <2>1. number \in DOMAIN batch /\ msg = batch[number]
    BY <1>1, BatchType DEF msg
  <2> QED
    BY <1>0, <1>1, <2>1 DEF Parts, Stores, EndOfRows
<1>3. \A n \in Meters : \A r \in Rows :
        Cell(n, r)' = IF n = msg.meter /\ r \in DOMAIN V THEN V[r] ELSE Cell(n, r)
  BY <1>0, CellsWritten
<1> HIDE DEF V
<1>4. Store!StorePart(stored)
  <2> DEFINE new(n) == [r \in Rows |-> IF r \in DOMAIN V THEN V[r] ELSE Cell(n, r)]
  <2>1. Energy' = [n \in Meters |-> IF n = msg.meter THEN new(n) ELSE [r \in Rows |-> Cell(n, r)]]
    <3>1. Energy' = [n \in Meters |-> [r \in Rows |-> Cell(n, r)']]
      BY DEF Energy
    <3>2. \A n \in Meters : [r \in Rows |-> Cell(n, r)'] =
            IF n = msg.meter THEN new(n) ELSE [r \in Rows |-> Cell(n, r)]
      BY <1>3
    <3> HIDE DEF new
    <3> QED
      BY <3>1, <3>2
  <2>2. Energy[msg.meter] = [r \in Rows |-> Cell(msg.meter, r)]
    BY <1>1 DEF Energy
  <2>3. [r \in Rows |-> IF r \in DOMAIN stored.value THEN stored.value[r]
                        ELSE Energy[stored.meter][r]]
          = new(msg.meter)
    BY <2>2
  <2> HIDE DEF new
  <2>4. Energy' = [Energy EXCEPT ![msg.meter] = new(msg.meter)]
    BY <1>1, <2>1 DEF Energy
  <2>5. Store!StorePart(stored) <=>
          Energy' = [Energy EXCEPT ![stored.meter] =
            [r \in Rows |-> IF r \in DOMAIN stored.value THEN stored.value[r] ELSE @[r]]]
    BY DEF Store!StorePart
  <2> QED
    BY <2>3, <2>4, <2>5
<1> QED
  BY <1>2, <1>4 DEF Store!EnergyNext

(* However the goroutines of a message interleave, what the reports see    *)
(* of the energies changes by one write of one part of the meter of the    *)
(* message at a time (StoreEnergyV2).                                      *)
THEOREM ImportIsStore ==
  ASSUME DaysApart, "meta" \notin Faults
  PROVE  Spec => ImplementsEnergyStore
<1>1. Init => Store!EnergyInit
  <2> SUFFICES ASSUME Init PROVE Store!EnergyInit
    OBVIOUS
  <2>1. DOMAIN meta = {}
    BY DEF Init, NoMeta
  <2> QED
    BY <2>1 DEF Store!EnergyInit, Store!EmptyCell, Energy, Cell
<1>2. /\ Init => RInv
      /\ RInv /\ [Next]_vars => RInv'
  BY RefinementInductive
<1>3. ASSUME RInv, [Next]_vars PROVE [Store!EnergyNext]_Energy
  <2>0. IInv /\ Fresh /\ Known /\ NobodysEmpty
    BY <1>3 DEF RInv, SInv
  <2>1. CASE NextMessage \/ UNCHANGED vars
    <3>1. meta' = meta /\ lines' = lines
      BY <2>1 DEF NextMessage, vars
    <3> QED
      BY <3>1 DEF Energy, Cell
  <2>2. ASSUME NEW p \in DOMAIN pc, StorePart(p) PROVE [Store!EnergyNext]_Energy
    <3>1. CASE WriteLines(p) \/ WriteFails(p)
      BY <2>0, <2>2, <3>1, WriteIsStorePart
    <3>2. CASE ~ WriteLines(p) /\ ~ WriteFails(p)
      <4>1. \A n \in Meters : \A r \in Rows : Cell(n, r)' = Cell(n, r)
        BY <2>0, <2>2, <3>2, CellsStay
      <4> QED
        BY <4>1 DEF Energy
    <3> QED
      BY <3>1, <3>2
  <2> QED
    BY <1>3, <2>1, <2>2 DEF Next
<1> QED
  BY <1>1, <1>2, <1>3, PTL DEF Spec, ImplementsEnergyStore, Store!EnergySpec

-----------------------------------------------------------------------------
(* The period of a meter in the meta record.                               *)

(* The days of the calendar may be of any length.                          *)
LEMMA LengthType ==
  ASSUME NEW t \in Nat
  PROVE  LengthOf(DayOf(t)) \in Int
<1> DEFINE start == CHOOSE d \in Midnights : DayOf(d) = DayOf(t)
           later == {d \in Midnights : d > start}
<1>1. DayStart(t) \in Midnights /\ DayOf(DayStart(t)) = DayOf(t)
  <2>1. DayStart(t) \in Midnights /\ DayStart(t) \in Nat /\ DayStart(t) =< t
        /\ \A d \in Until(t) : d =< DayStart(t)
    BY StartType
  <2>2. Until(DayStart(t)) = Until(t)
    <3>1. \A d \in Midnights : d =< DayStart(t) <=> d =< t
      <4>1. \A d \in Midnights : d \in Nat
        BY ImportAssumption
      <4>2. \A d \in Nat : d =< DayStart(t) => d =< t
        BY <2>1
      <4>3. \A d \in Midnights : d =< t => d =< DayStart(t)
        BY <2>1 DEF Until
      <4> QED
        BY <4>1, <4>2, <4>3
    <3> QED
      BY <3>1, Zenon DEF Until
  <2> QED
    BY <2>1, <2>2, Zenon DEF DayOf, Until
<1>2. start \in Midnights
  BY <1>1, Zenon
<1> HIDE DEF start
<1>3. start \in Nat /\ later \in SUBSET Nat /\ DayLen \in Nat
  BY <1>2, ImportAssumption
<1>4. LengthOf(DayOf(t)) = IF later = {} THEN DayLen ELSE Min(later) - start
  BY Zenon DEF LengthOf, start
<1> HIDE DEF later
<1>5. later # {} => Min(later) \in Nat
  BY <1>3, Smallest
<1> QED
  BY <1>3, <1>4, <1>5

(* Rows of an earlier day come first, whatever the clock says.             *)
LEMMA EarlierDay ==
  ASSUME NEW s \in Intervals, NEW t \in Intervals, DayOf(s) < DayOf(t)
  PROVE  RowOf(s) =< RowOf(t)
<1>1. /\ DayLen \in Nat \ {0} /\ s \in Nat /\ t \in Nat
      /\ RowOf(s) = DayOf(s) * DayLen + Clock(s) /\ RowOf(t) = DayOf(t) * DayLen + Clock(t)
      /\ Clock(s) \in 0 .. DayLen - 1 /\ Clock(t) \in 0 .. DayLen - 1
  BY ImportAssumption, ClockAssumption DEF Intervals, RowOf
<1>2. DayOf(s) \in Nat /\ DayOf(t) \in Nat /\ DayOf(s) + 1 =< DayOf(t)
  BY <1>1, DayOfType DEF Days
<1>3. /\ (DayOf(s) + 1) * DayLen =< DayOf(t) * DayLen
      /\ (DayOf(s) + 1) * DayLen = DayOf(s) * DayLen + DayLen
      /\ DayOf(s) * DayLen \in Nat /\ DayOf(t) * DayLen \in Nat
  BY <1>1, <1>2, TimesMonotone
<1> QED
  BY <1>1, <1>3

(* Rows of a day are in the order of time, unless the first interval is    *)
(* inside the hour that comes twice or the last one is.                    *)
LEMMA SameDay ==
  ASSUME NEW s \in Intervals, NEW t \in Intervals, s =< t, DayOf(s) = DayOf(t),
         ~ BeginsInside(s) \/ ~ EndsInside(t)
  PROVE  RowOf(s) =< RowOf(t)
<1> DEFINE length == LengthOf(DayOf(t))
           tick(x) == IF x + DayLen < ChangeAt + MaxOf(length, DayLen)
                      THEN x ELSE x + DayLen - length
<1>1. /\ DayLen \in Nat /\ ChangeAt \in Nat /\ s \in Nat /\ t \in Nat
      /\ RowOf(s) = DayOf(s) * DayLen + Clock(s) /\ RowOf(t) = DayOf(t) * DayLen + Clock(t)
      /\ Clock(s) \in 0 .. DayLen - 1 /\ Clock(t) \in 0 .. DayLen - 1
  BY ImportAssumption, ClockAssumption DEF Intervals, RowOf
<1>2. length \in Int /\ DayStart(t) \in Nat /\ DayStart(s) \in Nat /\ DayOf(t) \in Nat
  BY <1>1, LengthType, StartType, DayOfType DEF Days
<1>3. DayStart(s) = DayStart(t)
  <2>1. Until(s) = Until(t)
    BY <1>1, DayOfMonotone
  <2> QED
    BY <2>1, Zenon DEF DayStart, Until
<1>4. Since(s) \in Int /\ Since(t) \in Int /\ Since(s) =< Since(t)
  BY <1>1, <1>2, <1>3 DEF Since
<1>5. Clock(s) = tick(Since(s)) /\ Clock(t) = tick(Since(t))
  BY Zenon DEF Clock, Since
<1>6. \/ ~ (/\ ChangeAt < Since(s)
            /\ Since(s) + DayLen < ChangeAt + length)
      \/ ~ (/\ ChangeAt + length =< Since(t) + DayLen
            /\ Since(t) + 2 * DayLen + 1 < ChangeAt + 2 * length)
  BY DEF BeginsInside, EndsInside
<1> HIDE DEF length
<1>7. tick(Since(s)) =< tick(Since(t))
  BY <1>1, <1>2, <1>4, <1>6 DEF MaxOf
<1>8. DayOf(t) * DayLen \in Nat
  BY <1>1, <1>2
<1> QED
  BY <1>1, <1>5, <1>7, <1>8

(* updateMetaCP: the first interval of a part has its smallest row and the *)
(* last one its largest.                                                   *)
LEMMA PartInOrder ==
  ASSUME NEW m \in Message, NEW p \in Split(m), ~ CutsChange(p), NEW t \in PartIntervals(p)
  PROVE  RowOf(p.lo) =< RowOf(t) /\ RowOf(t) =< RowOf(p.hi - 1)
<1>1. /\ p.lo \in Intervals /\ p.hi - 1 \in Intervals /\ t \in Intervals
      /\ ~ BeginsInside(p.lo) /\ ~ EndsInside(p.hi - 1)
  BY PartType DEF CutsChange
<1>2. p.lo \in Nat /\ p.hi - 1 \in Nat /\ t \in Nat /\ p.lo =< t /\ t =< p.hi - 1
  BY <1>1, PartType DEF PartIntervals, Intervals
<1>3. ASSUME NEW x \in Intervals, NEW y \in Intervals, x \in Nat, y \in Nat, x =< y,
             ~ BeginsInside(x) \/ ~ EndsInside(y)
      PROVE  RowOf(x) =< RowOf(y)
  <2>1. DayOf(x) =< DayOf(y) /\ DayOf(x) \in Nat /\ DayOf(y) \in Nat
    BY <1>3, DayOfMonotone, DayOfType DEF Days
  <2>2. CASE DayOf(x) < DayOf(y)
    BY <2>2, EarlierDay
  <2>3. CASE DayOf(x) = DayOf(y)
    BY <1>3, <2>3, SameDay
  <2> QED
    BY <2>1, <2>2, <2>3
<1> QED
  BY <1>1, <1>2, <1>3

(* A longer period has the rows of a shorter one.                          *)
LEMMA Longer ==
  ASSUME NEW old \in Entries, NEW new \in Entries, Within(old, new)
  PROVE  /\ \A r \in Rows : InPeriod(r, old) => InPeriod(r, new)
         /\ \A third \in Entries : Within(new, third) => Within(old, third)
<1>1. /\ Never \notin Nat /\ Rows \subseteq Nat
      /\ \A e \in Entries : e.first \in Rows \cup {Never} /\ e.last \in Rows \cup {Never}
  BY ImportAssumption DEF Entries, Rows
<1>2. /\ old.first = Never \/ (new.first # Never /\ new.first =< old.first)
      /\ old.last = Never \/ (new.last # Never /\ old.last =< new.last)
  BY DEF Within
<1>3. ASSUME NEW r \in Rows, InPeriod(r, old) PROVE InPeriod(r, new)
  <2>1. old.first # Never /\ old.first =< r /\ old.last # Never /\ r =< old.last
    BY <1>3 DEF InPeriod
  <2>2. /\ r \in Nat /\ old.first \in Nat /\ old.last \in Nat
        /\ new.first \in Nat /\ new.last \in Nat
    BY <1>1, <1>2, <2>1
  <2>3. new.first =< r /\ r =< new.last
    BY <1>2, <2>1, <2>2
  <2> QED
    BY <1>1, <2>2, <2>3 DEF InPeriod
<1>4. ASSUME NEW third \in Entries, Within(new, third) PROVE Within(old, third)
  <2>1. /\ new.first = Never \/ (third.first # Never /\ third.first =< new.first)
        /\ new.last = Never \/ (third.last # Never /\ new.last =< third.last)
    BY <1>4 DEF Within
  <2> DEFINE known(x) == x = Never \/ x \in Nat
  <2>2. /\ known(old.first) /\ known(new.first) /\ known(third.first)
        /\ known(old.last) /\ known(new.last) /\ known(third.last)
    BY <1>1
  <2>3. old.first = Never \/ (third.first # Never /\ third.first =< old.first)
    BY <1>2, <2>1, <2>2
  <2>4. old.last = Never \/ (third.last # Never /\ old.last =< third.last)
    BY <1>2, <2>1, <2>2
  <2> QED
    BY <2>3, <2>4 DEF Within
<1> QED
  BY <1>3, <1>4

(* A period is part of itself.                                             *)
LEMMA WithinItself ==
  ASSUME NEW entry \in Entries
  PROVE  Within(entry, entry)
<1>1. /\ Rows \subseteq Nat
      /\ entry.first \in Rows \cup {Never} /\ entry.last \in Rows \cup {Never}
  BY DEF Entries, Rows
<1>2. /\ entry.first = Never \/ entry.first \in Nat
      /\ entry.last = Never \/ entry.last \in Nat
  BY <1>1
<1> QED
  BY <1>2 DEF Within

(* updateMetaCP: the period is extended to the rows of the part.           *)
LEMMA ExtendedCovers ==
  ASSUME NEW entry \in Entries, NEW m \in Message, NEW p \in Split(m), NEW i \in Nat
  PROVE  /\ Within(entry, Extended(entry, p))
         /\ ~ CutsChange(p) =>
              \A r \in DOMAIN ValueOf(i, p) : InPeriod(r, Extended(entry, p))
         /\ ~ StartsBefore(p, entry) /\ ~ EndsAfter(p, entry) => Extended(entry, p) = entry
<1> DEFINE lo == RowOf(p.lo)
           hi == RowOf(p.hi - 1)
           new == Extended(entry, p)
<1>1. /\ p.lo \in Intervals /\ p.hi - 1 \in Intervals /\ PartIntervals(p) \subseteq Intervals
      /\ p.hi \in Nat
  BY PartType
<1>2. lo \in Nat /\ hi \in Nat
  BY <1>1, RowOfType
<1>3. /\ Rows \subseteq Nat /\ Never \notin Nat
      /\ entry.first \in Rows \cup {Never} /\ entry.last \in Rows \cup {Never}
  BY ImportAssumption DEF Entries, Rows
<1>4. /\ new.first = IF entry.first = Never \/ lo < entry.first THEN lo ELSE entry.first
      /\ new.last = IF entry.last = Never \/ hi > entry.last THEN hi ELSE entry.last
  BY DEF Extended, Entries, StartsBefore, EndsAfter
<1>5. ~ CutsChange(p) => \A r \in DOMAIN ValueOf(i, p) : r \in Nat /\ lo =< r /\ r =< hi
  <2>1. ASSUME ~ CutsChange(p), NEW t \in PartIntervals(p)
        PROVE  lo =< RowOf(t) /\ RowOf(t) =< hi /\ RowOf(t) \in Nat
    BY <1>1, <2>1, PartInOrder, RowOfType
  <2> QED
    BY <2>1 DEF ValueOf
<1>6. ~ StartsBefore(p, entry) /\ ~ EndsAfter(p, entry) => new = entry
  BY DEF Extended, Entries
<1> HIDE DEF lo, hi, new
<1>7. /\ new.first \in Nat /\ new.first =< lo /\ (entry.first # Never => new.first =< entry.first)
      /\ new.last \in Nat /\ hi =< new.last /\ (entry.last # Never => entry.last =< new.last)
  <2>1. new.first \in Nat /\ new.first =< lo /\ (entry.first # Never => new.first =< entry.first)
    <3>1. CASE entry.first = Never
      BY <1>2, <1>4, <3>1
    <3>2. CASE entry.first \in Nat
      BY <1>2, <1>3, <1>4, <3>2
    <3> QED
      BY <1>3, <3>1, <3>2
  <2>2. new.last \in Nat /\ hi =< new.last /\ (entry.last # Never => entry.last =< new.last)
    <3>1. CASE entry.last = Never
      BY <1>2, <1>4, <3>1
    <3>2. CASE entry.last \in Nat
      BY <1>2, <1>3, <1>4, <3>2
    <3> QED
      BY <1>3, <3>1, <3>2
  <2> QED
    BY <2>1, <2>2
<1>8. ~ CutsChange(p) => \A r \in DOMAIN ValueOf(i, p) : InPeriod(r, new)
  BY <1>2, <1>3, <1>5, <1>7 DEF InPeriod
<1>9. Within(entry, new)
  BY <1>3, <1>7 DEF Within
<1> QED
  BY <1>6, <1>8, <1>9 DEF new

(* No other goroutine of the message can have changed the record since     *)
(* this one has read it (PrepareMetaInfoMap).                              *)
Sole(p) == \A q \in DOMAIN pc \ {p} : pc[q] \in {"meta", "create"}

(* The copies of the record differ from it in the meter of the message     *)
(* only.  The copy of its period is part of the period in the record until *)
(* it is extended, and has that period in it if nobody else has written.   *)
EntryCopied(p, m) ==
  /\ pc[p] \in {"create", "save"} => \A n \in DOMAIN meta \ {m} : view[p][n] = meta[n]
  /\ pc[p] = "create" => view[p][m] = cp[p]
  /\ pc[p] = "create" => (Sole(p) => m \notin DOMAIN meta)
  /\ pc[p] = "save" => m \in DOMAIN view[p]
  /\ pc[p] \in {"fetch", "write"} => (m \notin behind => Within(cp[p], meta[m]))
  /\ pc[p] \in {"fetch", "write", "reread", "save"} => (Sole(p) => Within(meta[m], cp[p]))

EntriesCopied == \A p \in DOMAIN pc : EntryCopied(p, msg.meter)

(* updateMeta: the record read again, with the period of the copy.         *)
LEMMA SaveStep ==
  ASSUME IInv, EntriesCopied, NEW p \in DOMAIN pc, SaveMeta(p), NEW c \in Meters, c = msg.meter
  PROVE  /\ pc[p] = "save" /\ pc'[p] = "done" /\ c \in DOMAIN view[p]
         /\ \A n \in DOMAIN view[p] \ {c} : meta'[n] = view[p][n]
         /\ meta'[c].first = cp[p].first /\ meta'[c].last = cp[p].last
<1>1. pc[p] = "save" /\ pc'[p] = "done" /\ c \in DOMAIN view[p]
  BY DEF SaveMeta, Goto, IInv, Types, EntriesCopied, EntryCopied
<1>2. meta' = [view[p] EXCEPT ![c].first = cp[p].first, ![c].last = cp[p].last]
  BY <1>1 DEF SaveMeta
<1>3. view[p] \in [DOMAIN view[p] -> Entries]
  BY DEF IInv, Types, IsRecord
<1> QED
  BY <1>1, <1>2, <1>3 DEF Entries

(* A step of a part leaves the entries of other meters alone.  It takes    *)
(* nothing from the period of its own meter, or the meter is behind.       *)
LEMMA EntriesGrow ==
  ASSUME IInv, Known, EntriesCopied, NEW p \in DOMAIN pc, PeriodStep(p),
         NEW c \in Meters, c = msg.meter
  PROVE  /\ behind \subseteq behind'
         /\ \A n \in DOMAIN meta \ {c} : meta'[n] = meta[n]
         /\ c \in DOMAIN meta => (c \notin behind' => Within(meta[c], meta'[c]))
<1>0. EntryCopied(p, c) /\ StorePart(p) /\ behind \subseteq behind' /\ SetBack(p) \subseteq behind'
  BY DEF EntriesCopied, PeriodStep
<1>1. /\ IsRecord(meta) /\ IsRecord(view[p]) /\ cp[p] \in Entries
      /\ \A n \in DOMAIN meta : meta[n] \in Entries
  BY DEF IInv, Types, IsRecord
<1>2. \A n \in DOMAIN meta \ {c} : meta'[n] = meta[n]
  <2>1. CASE CreateMeta(p)
    BY <1>0, <2>1 DEF CreateMeta, Goto, EntryCopied
  <2>2. CASE SaveMeta(p)
    <3>1. DOMAIN meta \subseteq DOMAIN view[p] \cup {c}
      BY <2>2 DEF SaveMeta, Goto, IInv, Copies, Grows
    <3> QED
      BY <1>0, <2>2, <3>1, SaveStep DEF EntryCopied
  <2>3. CASE ~ CreateMeta(p) /\ ~ SaveMeta(p)
    BY <1>0, <2>3 DEF StorePart, MetaFails, ReadMeta, CreateFails, FetchLines, WriteLines, WriteFails,
                      RereadMeta
  <2> QED
    BY <2>1, <2>2, <2>3
<1>3. ASSUME c \in DOMAIN meta, Sole(p) PROVE Within(meta[c], meta'[c])
  <2>1. CASE CreateMeta(p)
    BY <1>0, <1>3, <2>1 DEF CreateMeta, Goto, EntryCopied
  <2>2. CASE SaveMeta(p)
    <3>1. Within(meta[c], cp[p]) /\ meta'[c].first = cp[p].first /\ meta'[c].last = cp[p].last
      BY <1>0, <1>3, <2>2, SaveStep DEF EntryCopied
    <3> QED
      BY <3>1 DEF Within
  <2>3. CASE ~ CreateMeta(p) /\ ~ SaveMeta(p)
    <3>1. meta' = meta
      BY <1>0, <2>3 DEF StorePart, MetaFails, ReadMeta, CreateFails, FetchLines, WriteLines,
                        WriteFails, RereadMeta
    <3>2. PICK entry \in Entries : entry = meta[c]
      BY <1>1, <1>3
    <3> QED
      BY <3>1, <3>2, WithinItself
  <2> QED
    BY <2>1, <2>2, <2>3
<1>4. ASSUME c \in DOMAIN meta, ~ Sole(p), ~ Within(meta[c], meta'[c]) PROVE c \in behind'
  BY <1>0, <1>4 DEF Sole, SetBack
<1> QED
  BY <1>0, <1>2, <1>3, <1>4

(* Each step of a part keeps what the copies have of the record.           *)
LEMMA EntriesCopiedStep ==
  ASSUME "meta" \notin Faults, IInv, IInv', Known, Known', EntriesCopied,
         NEW p \in DOMAIN pc, PeriodStep(p)
  PROVE  EntriesCopied'
<1>0. PICK c \in Meters : c = msg.meter
  BY MessageType DEF IInv
<1>1. /\ StorePart(p) /\ c = msg'.meter /\ DOMAIN pc' = DOMAIN pc /\ p \in Split(msg) /\ msg \in Message
      /\ \A q \in DOMAIN pc \ {p} : pc'[q] = pc[q] /\ cp'[q] = cp[q] /\ view'[q] = view[q]
  BY <1>0, PartFrame, MessageType DEF PeriodStep, IInv
<1>2. /\ behind \subseteq behind'
      /\ \A n \in DOMAIN meta \ {c} : meta'[n] = meta[n]
      /\ c \in DOMAIN meta => (c \notin behind' => Within(meta[c], meta'[c]))
  BY <1>0, EntriesGrow
<1>3. /\ DOMAIN meta' \subseteq DOMAIN meta \cup {c} /\ DOMAIN meta \subseteq DOMAIN meta'
      /\ \A n \in DOMAIN meta : meta[n] \in Entries
      /\ \A n \in DOMAIN meta' : meta'[n] \in Entries
      /\ \A q \in DOMAIN pc : cp[q] \in Entries /\ cp'[q] \in Entries
  BY <1>0, <1>1, RecordGrows DEF Grows, IInv, Types, IsRecord
<1>4. ASSUME NEW q \in DOMAIN pc, q # p PROVE EntryCopied(q, c)'
  <2>1. EntryCopied(q, c) /\ pc'[q] = pc[q] /\ cp'[q] = cp[q] /\ view'[q] = view[q]
    BY <1>0, <1>1, <1>4 DEF EntriesCopied
  <2>2. pc[q] \in {"create", "save"} => \A n \in DOMAIN meta' \ {c} : view[q][n] = meta'[n]
    BY <1>2, <1>3, <2>1 DEF EntryCopied
  <2>3. /\ pc[q] = "create" => view[q][c] = cp[q]
        /\ pc[q] = "save" => c \in DOMAIN view[q]
    BY <2>1 DEF EntryCopied
  <2>4. ASSUME Sole(q)' PROVE Sole(q) /\ meta' = meta
    <3>1. pc'[p] \in {"meta", "create"}
      BY <1>1, <1>4, <2>4 DEF Sole
    <3>2. ReadMeta(p)
      BY <1>1, <3>1 DEF StorePart, MetaFails, ReadMeta, CreateMeta, CreateFails, FetchLines, WriteLines,
                        WriteFails, RereadMeta, SaveMeta, Goto, IInv, Types
    <3>3. pc[p] = "meta" /\ meta' = meta
      BY <3>2 DEF ReadMeta, Goto
    <3> QED
      BY <1>1, <2>4, <3>3 DEF Sole
  <2>5. pc[q] \in {"fetch", "write"} => (c \notin behind' => Within(cp[q], meta'[c]))
    <3> SUFFICES ASSUME pc[q] \in {"fetch", "write"}, c \notin behind'
                 PROVE  Within(cp[q], meta'[c])
      OBVIOUS
    <3>1. c \in DOMAIN meta /\ c \notin behind
      BY <1>0, <1>2 DEF Known
    <3>2. Within(cp[q], meta[c]) /\ Within(meta[c], meta'[c])
      BY <1>2, <2>1, <3>1 DEF EntryCopied
    <3>3. PICK copy \in Entries, old \in Entries, new \in Entries :
            copy = cp[q] /\ old = meta[c] /\ new = meta'[c]
      BY <1>3, <3>1
    <3> QED
      BY <3>2, <3>3, Longer
  <2>6. pc[q] = "create" => (Sole(q)' => c \notin DOMAIN meta')
    BY <2>1, <2>4 DEF EntryCopied
  <2>7. pc[q] \in {"fetch", "write", "reread", "save"} => (Sole(q)' => Within(meta'[c], cp[q]))
    BY <2>1, <2>4 DEF EntryCopied
  <2> QED
    BY <2>1, <2>2, <2>3, <2>5, <2>6, <2>7 DEF EntryCopied
<1>5. EntryCopied(p, c)'
  <2>0. EntryCopied(p, c) /\ (Sole(p)' => Sole(p))
    BY <1>0, <1>1 DEF EntriesCopied, Sole
  <2>1. CASE ReadMeta(p)
    <3>1. /\ pc'[p] = IF c \in DOMAIN meta THEN "fetch" ELSE "create"
          /\ view'[p] = WithMeter(meta, c) /\ cp'[p] = WithMeter(meta, c)[c] /\ meta' = meta
      BY <1>0, <2>1 DEF ReadMeta, Goto, IInv, Types
    <3>2. \A n \in DOMAIN meta : WithMeter(meta, c)[n] = meta[n]
      BY DEF WithMeter
    <3>3. c \in DOMAIN meta => Within(meta[c], meta[c])
      <4>1. ASSUME c \in DOMAIN meta PROVE Within(meta[c], meta[c])
        <5>1. PICK entry \in Entries : entry = meta[c]
          BY <1>3, <4>1
        <5> QED
          BY <5>1, WithinItself
      <4> QED
        BY <4>1
    <3> QED
      BY <3>1, <3>2, <3>3 DEF EntryCopied
  <2>2. CASE CreateMeta(p)
    <3>1. pc'[p] = "fetch" /\ cp' = cp /\ meta' = view[p] /\ view[p][c] = cp[p]
      BY <2>0, <2>2 DEF CreateMeta, Goto, IInv, Types, locals, EntryCopied
    <3>2. PICK entry \in Entries : entry = cp[p]
      BY <1>3
    <3>3. Within(entry, entry)
      BY WithinItself
    <3> QED
      BY <3>1, <3>2, <3>3 DEF EntryCopied
  <2>3. CASE CreateFails(p)
    BY <2>3 DEF CreateFails
  <2>4. CASE FetchLines(p)
    <3>1. pc[p] = "fetch" /\ pc'[p] = "write" /\ cp' = cp /\ meta' = meta
      BY <2>4 DEF FetchLines, Goto, IInv, Types
    <3> QED
      BY <1>2, <2>0, <3>1 DEF EntryCopied
  <2>5. CASE WriteLines(p)
    <3>1. /\ pc[p] = "write" /\ pc'[p] \in {"reread", "done"} /\ meta' = meta
          /\ cp'[p] = Extended(cp[p], p)
      BY <2>5 DEF WriteLines, Goto, IInv, Types
    <3>2. ASSUME Sole(p)' PROVE Within(meta'[c], cp'[p])
      <4>1. Within(meta[c], cp[p]) /\ c \in DOMAIN meta
        BY <1>0, <2>0, <3>1, <3>2 DEF EntryCopied, Known
      <4>2. PICK old \in Entries, copy \in Entries, new \in Entries :
              old = meta[c] /\ copy = cp[p] /\ new = cp'[p]
        BY <1>3, <4>1
      <4>3. Within(copy, new)
        BY <1>1, <3>1, <4>2, MessageType, ExtendedCovers DEF IInv
      <4> QED
        BY <3>1, <4>1, <4>2, <4>3, Longer
    <3> QED
      BY <3>1, <3>2 DEF EntryCopied
  <2>6. CASE RereadMeta(p)
    <3>1. /\ pc[p] = "reread" /\ pc'[p] = "save" /\ cp' = cp /\ meta' = meta /\ view'[p] = meta
          /\ c \in DOMAIN meta
      BY <1>0, <2>6 DEF RereadMeta, Goto, IInv, Types, Known
    <3> QED
      BY <2>0, <3>1 DEF EntryCopied
  <2>7. CASE WriteFails(p) \/ SaveMeta(p) \/ MetaFails(p)
    <3>1. pc'[p] = "done"
      BY <2>7 DEF WriteFails, SaveMeta, MetaFails, Goto, IInv, Types
    <3> QED
      BY <3>1 DEF EntryCopied
  <2> QED
    BY <1>1, <2>1, <2>2, <2>3, <2>4, <2>5, <2>6, <2>7 DEF StorePart
<1> QED
  BY <1>1, <1>4, <1>5 DEF EntriesCopied

(* The column has a value in the row, in the database or in the copy of    *)
(* the lines that a part is about to write back.                           *)
HasValue(d, r) ==
  \/ r \in DOMAIN lines /\ lines[r][d] # {}
  \/ \E p \in DOMAIN pc : pc[p] = "write" /\ r \in DOMAIN fetched[p] /\ fetched[p][r][d] # {}

(* A column with a value is that of a meter.                               *)
ColumnsKnown ==
  \A d \in Columns : \A r \in Rows :
    HasValue(d, r) => \E n \in DOMAIN meta : d = Column(n, meta[n].idx)

(* A part has stored the value, and has still to save its period.          *)
Saving(m, r) ==
  \E p \in DOMAIN pc : m = msg.meter /\ pc[p] \in {"reread", "save"} /\ InPeriod(r, cp[p])

(* The values of a meter are in its period, or will be.                    *)
Covered ==
  \A m \in DOMAIN meta \ behind : \A r \in Rows :
    HasValue(Column(m, meta[m].idx), r) => InPeriod(r, meta[m]) \/ Saving(m, r)

Uncut == \A i \in 1 .. number : \A p \in Split(batch[i]) : ~CutsChange(p)

(* SetLines: a value is new only if it is one of the part, in the column   *)
(* of its meter, however old the lines are that are written back.          *)
LEMMA NewValues ==
  ASSUME IInv, NEW p \in DOMAIN pc, StorePart(p), NEW d \in Columns, NEW r \in Rows, HasValue(d, r)'
  PROVE  \/ HasValue(d, r)
         \/ /\ WriteLines(p) \/ (WriteFails(p) /\ lines' # lines)
            /\ d = Column(msg.meter, cp[p].idx)
            /\ r \in DOMAIN ValueOf(number, p)
<1> DEFINE V == ValueOf(number, p)
           col == Column(msg.meter, cp[p].idx)
<1>1. /\ DOMAIN pc' = DOMAIN pc
      /\ \A q \in DOMAIN pc \ {p} : pc'[q] = pc[q] /\ fetched'[q] = fetched[q]
  BY PartFrame DEF IInv
<1>2. CASE \E q \in DOMAIN pc \ {p} :
             pc'[q] = "write" /\ r \in DOMAIN fetched'[q] /\ fetched'[q][r][d] # {}
  BY <1>1, <1>2 DEF HasValue
<1>3. CASE pc'[p] = "write" /\ r \in DOMAIN fetched'[p] /\ fetched'[p][r][d] # {}
  <2>1. FetchLines(p)
    BY <1>3 DEF StorePart, MetaFails, ReadMeta, CreateMeta, CreateFails, WriteLines, WriteFails,
                RereadMeta, SaveMeta, Goto, IInv, Types
  <2>2. fetched'[p] = [x \in {y \in DOMAIN lines : y \div DayLen \in FetchedDays(p)} |-> lines[x]]
    BY <2>1 DEF FetchLines, IInv, Types
  <2> QED
    BY <1>3, <2>2 DEF HasValue
<1>4. CASE r \in DOMAIN lines' /\ lines'[r][d] # {}
  <2>1. CASE lines' = lines /\ ~ WriteLines(p)
    BY <1>4, <2>1 DEF HasValue
  <2>2. CASE ~ (lines' = lines /\ ~ WriteLines(p))
    <3>1. WriteLines(p) \/ (WriteFails(p) /\ lines' # lines)
      BY <2>2 DEF StorePart, MetaFails, ReadMeta, CreateMeta, CreateFails, FetchLines, RereadMeta, SaveMeta
    <3>2. PICK n : Stores(p, n)
      BY <3>1, WriteStores DEF IInv
    <3> DEFINE written == UpdatedLines(p)
               rows == {x \in DOMAIN written : x < n}
    <3>3. lines'[r] = (IF r \in rows THEN written[r] ELSE lines[r]) /\ r \in DOMAIN lines \cup rows
      BY <1>4, <3>2 DEF Stores, Put
    <3>4. /\ DOMAIN written = DOMAIN fetched[p] \cup DOMAIN V
          /\ \A x \in DOMAIN fetched[p] \ DOMAIN V : written[x] = fetched[p][x]
          /\ \A x \in DOMAIN V :
               written[x] = [(IF x \in DOMAIN fetched[p] THEN fetched[p][x] ELSE EmptyLine)
                               EXCEPT ![col] = V[x]]
      BY WriteType, Zenon DEF Imports, V, col, written, IInv
    <3>5. pc[p] = "write"
      BY <3>2 DEF Stores
    <3>6. /\ EmptyLine \in Line /\ EmptyLine[d] = {}
          /\ \A x \in DOMAIN fetched[p] : fetched[p][x] \in Line
      BY DEF EmptyLine, Line, IInv, Types, AreLines
    <3> HIDE DEF V, col, written
    <3>7. CASE r \notin rows
      <4>1. r \in DOMAIN lines /\ lines[r][d] # {}
        BY <1>4, <3>3, <3>7
      <4> QED
        BY <4>1 DEF HasValue
    <3>8. CASE r \in rows /\ r \in DOMAIN V /\ d = col
      BY <3>1, <3>8 DEF V, col
    <3>9. CASE r \in rows /\ ~ (r \in DOMAIN V /\ d = col)
      <4>1. r \in DOMAIN fetched[p] /\ fetched[p][r][d] # {}
        <5>1. written[r][d] # {} /\ r \in DOMAIN written
          BY <1>4, <3>3, <3>9
        <5>2. CASE r \notin DOMAIN V
          BY <3>4, <5>1, <5>2
        <5>3. CASE r \in DOMAIN V
          <6>1. d # col
            BY <3>9, <5>3
          <6>2. PICK line \in Line :
                  line = IF r \in DOMAIN fetched[p] THEN fetched[p][r] ELSE EmptyLine
            BY <3>6
          <6>3. written[r] = [line EXCEPT ![col] = V[r]]
            BY <3>4, <5>3, <6>2
          <6>4. line[d] # {}
            BY <5>1, <6>1, <6>3 DEF Line
          <6> QED
            BY <3>6, <6>2, <6>4
        <5> QED
          BY <5>2, <5>3
      <4> QED
        BY <3>5, <4>1 DEF HasValue
    <3> QED
      BY <3>7, <3>8, <3>9
  <2> QED
    BY <2>1, <2>2
<1> QED
  BY <1>1, <1>2, <1>3, <1>4 DEF HasValue

(* Only columns of known meters are written (importEnergyValuesV2).        *)
LEMMA ColumnsKnownStep ==
  ASSUME IInv, Known, ColumnsKnown, NEW p \in DOMAIN pc, StorePart(p)
  PROVE  ColumnsKnown'
<1> SUFFICES ASSUME NEW d \in Columns, NEW r \in Rows, HasValue(d, r)'
             PROVE  \E n \in DOMAIN meta' : d = Column(n, meta'[n].idx)
  BY DEF ColumnsKnown
<1>1. \E n \in DOMAIN meta : d = Column(n, meta[n].idx)
  <2>1. CASE HasValue(d, r)
    BY <2>1 DEF ColumnsKnown
  <2>2. CASE ~ HasValue(d, r)
    <3>1. (WriteLines(p) \/ WriteFails(p)) /\ d = Column(msg.meter, cp[p].idx)
      BY <2>2, NewValues
    <3> QED
      BY <3>1, OwnColumn
  <2> QED
    BY <2>1, <2>2
<1>2. \A n \in DOMAIN meta : n \in DOMAIN meta' /\ meta'[n].idx = meta[n].idx
  BY ColumnsStay
<1> QED
  BY <1>1, <1>2

(* A value whose period has still to be saved gets it, or its meter is     *)
(* behind (updateMeta).                                                    *)
LEMMA SavingStep ==
  ASSUME IInv, IInv', Known, EntriesCopied, NEW p \in DOMAIN pc, PeriodStep(p),
         NEW m \in DOMAIN meta, m \notin behind', NEW r \in Rows, Saving(m, r)
  PROVE  InPeriod(r, meta'[m]) \/ Saving(m, r)'
<1>1. PICK q \in DOMAIN pc : m = msg.meter /\ pc[q] \in {"reread", "save"} /\ InPeriod(r, cp[q])
  BY DEF Saving
<1>2. /\ StorePart(p) /\ m = msg'.meter /\ DOMAIN pc' = DOMAIN pc /\ m \in Meters
      /\ \A x \in DOMAIN pc \ {p} : pc'[x] = pc[x] /\ cp'[x] = cp[x]
  BY <1>1, PartFrame, MessageType DEF PeriodStep, IInv
<1>3. CASE q # p
  BY <1>1, <1>2, <1>3 DEF Saving
<1>4. CASE q = p
  <2>1. RereadMeta(p) \/ SaveMeta(p) \/ MetaFails(p)
    BY <1>1, <1>2, <1>4 DEF StorePart, ReadMeta, CreateMeta, CreateFails, FetchLines, WriteLines,
                            WriteFails, Goto
  <2>2. CASE RereadMeta(p)
    <3>1. pc'[p] = "save" /\ cp' = cp
      BY <2>2 DEF RereadMeta, Goto, IInv, Types
    <3> QED
      BY <1>1, <1>2, <1>4, <3>1 DEF Saving
  <2>3. CASE SaveMeta(p)
    <3>1. meta'[m].first = cp[p].first /\ meta'[m].last = cp[p].last
      BY <1>1, <1>2, <2>3, SaveStep
    <3> QED
      BY <1>1, <1>4, <3>1 DEF InPeriod
  <2>4. CASE MetaFails(p)
    <3>1. pc'[p] = "done" /\ meta' = meta
      BY <2>4 DEF MetaFails, IInv, Types
    <3>2. NotSaved(p) => m \in behind'
      BY <1>1 DEF PeriodStep
    <3>3. Within(cp[p], meta[m])
      BY <1>1, <1>4, <3>1, <3>2 DEF NotSaved
    <3>4. PICK copy \in Entries, entry \in Entries : copy = cp[p] /\ entry = meta[m]
      BY DEF IInv, Types, IsRecord
    <3> QED
      BY <1>1, <1>4, <3>1, <3>3, <3>4, Longer
  <2> QED
    BY <2>1, <2>2, <2>3, <2>4
<1> QED
  BY <1>3, <1>4

(* Whatever the other goroutines do, a part leaves the values of the       *)
(* meters in their periods.                                                *)
LEMMA CoveredStep ==
  ASSUME "meta" \notin Faults, IInv, IInv', Known, EntriesCopied, ColumnsKnown, Covered,
         NEW p \in DOMAIN pc, PeriodStep(p), ~ CutsChange(p)
  PROVE  Covered'
<1> SUFFICES ASSUME NEW m \in DOMAIN meta', m \notin behind', NEW r \in Rows,
                    NEW d, d = Column(m, meta'[m].idx), HasValue(d, r)'
             PROVE  InPeriod(r, meta'[m]) \/ Saving(m, r)'
  BY DEF Covered, HasValue
<1>0. PICK c \in Meters : c = msg.meter
  BY MessageType DEF IInv
<1>1. /\ StorePart(p) /\ behind \subseteq behind' /\ msg \in Message /\ p \in Split(msg)
      /\ number \in Nat /\ c = msg'.meter /\ DOMAIN pc' = DOMAIN pc
  BY <1>0, PartFrame, MessageType DEF PeriodStep, IInv
<1>2. /\ DOMAIN meta \subseteq DOMAIN meta' /\ IsRecord(meta) /\ IsRecord(meta')
      /\ \A n \in DOMAIN meta : meta'[n].idx = meta[n].idx
  BY <1>1, ColumnsStay
<1>3. d \in Columns
  <2>1. m \in Meters /\ meta'[m].idx \in 0 .. Cardinality(Meters) - 1
    BY <1>2 DEF IsRecord, Entries
  <2> QED
    BY <2>1 DEF Columns
<1>4. m \in DOMAIN meta
  <2> SUFFICES ASSUME m \notin DOMAIN meta PROVE FALSE
    OBVIOUS
  <2>1. \A n \in DOMAIN meta : d # Column(n, meta[n].idx)
    BY <1>2 DEF IsRecord, Indexed
  <2>2. ~ HasValue(d, r)
    BY <1>3, <2>1 DEF ColumnsKnown
  <2>3. (WriteLines(p) \/ WriteFails(p)) /\ d = Column(msg.meter, cp[p].idx)
    BY <1>1, <1>3, <2>2, NewValues
  <2> QED
    BY <2>1, <2>3, OwnColumn
<1>5. d = Column(m, meta[m].idx) /\ m \notin behind
  BY <1>1, <1>2, <1>4
<1>6. ASSUME InPeriod(r, meta[m]) PROVE InPeriod(r, meta'[m])
  <2>1. CASE m # c
    BY <1>0, <1>4, <1>6, <2>1, EntriesGrow
  <2>2. CASE m = c
    <3>1. Within(meta[m], meta'[m])
      BY <1>0, <1>4, <2>2, EntriesGrow
    <3>2. PICK old \in Entries, new \in Entries : old = meta[m] /\ new = meta'[m]
      BY <1>2, <1>4 DEF IsRecord
    <3> QED
      BY <1>6, <3>1, <3>2, Longer
  <2> QED
    BY <2>1, <2>2
<1>7. CASE HasValue(d, r)
  <2>1. InPeriod(r, meta[m]) \/ Saving(m, r)
    BY <1>4, <1>5, <1>7 DEF Covered
  <2> QED
    BY <1>4, <1>6, <2>1, SavingStep
<1>8. CASE ~ HasValue(d, r)
  <2>1. /\ WriteLines(p) \/ (WriteFails(p) /\ lines' # lines)
        /\ d = Column(msg.meter, cp[p].idx) /\ r \in DOMAIN ValueOf(number, p)
    BY <1>1, <1>3, <1>8, NewValues
  <2>2. m = c /\ c \in DOMAIN meta /\ meta' = meta
    <3>1. c \in DOMAIN meta /\ meta' = meta /\ cp[p].idx = meta[c].idx
      BY <1>0, <2>1, OwnColumn
    <3> QED
      BY <1>0, <1>2, <1>4, <1>5, <2>1, <3>1, ZenonT(40) DEF IsRecord, Indexed
  <2>3. WriteLines(p)
    <3>1. NotSaved(p) => c \in behind'
      BY <1>0 DEF PeriodStep
    <3>2. WriteFails(p) /\ lines' # lines => NotSaved(p)
      BY DEF NotSaved, WriteFails, Goto, IInv, Types
    <3> QED
      BY <2>1, <2>2, <3>1, <3>2
  <2>4. /\ pc[p] = "write" /\ cp'[p] = Extended(cp[p], p)
        /\ pc'[p] = IF StartsBefore(p, cp[p]) \/ EndsAfter(p, cp[p]) THEN "reread" ELSE "done"
    BY <2>3 DEF WriteLines, Goto, IInv, Types
  <2>5. PICK copy \in Entries : copy = cp[p]
    BY DEF IInv, Types
  <2>6. /\ InPeriod(r, Extended(copy, p))
        /\ ~ StartsBefore(p, copy) /\ ~ EndsAfter(p, copy) => Extended(copy, p) = copy
    BY <1>1, <2>1, ExtendedCovers
  <2>7. CASE pc'[p] = "reread"
    BY <1>0, <1>1, <2>2, <2>4, <2>5, <2>6, <2>7 DEF Saving
  <2>8. CASE pc'[p] = "done"
    <3>1. InPeriod(r, copy)
      BY <2>4, <2>5, <2>6, <2>8
    <3>2. Within(copy, meta[m])
      BY <1>0, <1>5, <2>2, <2>4, <2>5 DEF EntriesCopied, EntryCopied
    <3>3. PICK entry \in Entries : entry = meta[m]
      BY <1>2, <1>4 DEF IsRecord
    <3> QED
      BY <2>2, <3>1, <3>2, <3>3, Longer
  <2> QED
    BY <2>4, <2>7, <2>8
<1> QED
  BY <1>7, <1>8

PInv == IInv /\ Known /\ EntriesCopied /\ ColumnsKnown /\ (Uncut => Covered)

(* The periods, however the parts of a message interleave or fail.         *)
LEMMA PeriodInductive ==
  ASSUME "meta" \notin Faults
  PROVE  /\ PeriodInit => PInv
         /\ PInv /\ [PeriodNext]_periodVars => PInv'
<1>1. ASSUME PeriodInit PROVE PInv
  <2>1. Init /\ DOMAIN pc = {} /\ DOMAIN lines = {} /\ DOMAIN meta = {}
    BY <1>1 DEF PeriodInit, Init, NoLines, NoMeta
  <2> QED
    BY <2>1, InitTypes DEF PInv, IInv, Known, EntriesCopied, ColumnsKnown, Covered, HasValue
<1>2. ASSUME PInv, [PeriodNext]_periodVars PROVE PInv'
  <2>0. IInv /\ Known /\ EntriesCopied /\ ColumnsKnown /\ [Next]_vars
    BY <1>2 DEF PInv, PeriodNext, PeriodStep, periodVars, Next
  <2>1. IInv'
    BY <2>0, ImportInductive
  <2>2. CASE NextMessage /\ UNCHANGED behind
    <3>1. /\ meta' = meta /\ lines' = lines /\ batch' = batch /\ number' = number + 1
          /\ pc' = [p \in Split(batch[number + 1]) |-> "meta"] /\ Waiting /\ behind' = behind
      BY <2>2 DEF NextMessage
    <3>2. \A p \in DOMAIN pc' : pc'[p] = "meta"
      BY <3>1
    <3>3. Known' /\ EntriesCopied'
      BY <3>2 DEF Known, EntriesCopied, EntryCopied
    <3>4. \A d, r : HasValue(d, r)' => HasValue(d, r)
      BY <3>1, <3>2 DEF HasValue
    <3>5. ColumnsKnown'
      BY <2>0, <3>1, <3>4 DEF ColumnsKnown
    <3>6. ASSUME Uncut' PROVE Covered'
      <4>1. number \in Nat
        BY <2>0, ImportAssumption DEF IInv, Types
      <4>2. Uncut
        <5>1. 1 .. number \subseteq 1 .. number'
          BY <3>1, <4>1
        <5> QED
          BY <3>1, <3>6, <5>1 DEF Uncut
      <4>3. \A m, r : ~ Saving(m, r)
        BY <3>1 DEF Saving, Waiting
      <4>4. ASSUME NEW m \in DOMAIN meta', m \notin behind', NEW r \in Rows,
                   NEW d, d = Column(m, meta'[m].idx), HasValue(d, r)'
            PROVE  InPeriod(r, meta'[m])
        BY <1>2, <3>1, <3>4, <4>2, <4>3, <4>4 DEF PInv, Covered
      <4> QED
        BY <4>4 DEF Covered, HasValue
    <3> QED
      BY <2>1, <3>3, <3>5, <3>6 DEF PInv
  <2>3. ASSUME NEW p \in DOMAIN pc, PeriodStep(p) PROVE PInv'
    <3>1. StorePart(p)
      BY <2>3 DEF PeriodStep
    <3>2. Known' /\ ColumnsKnown'
      BY <2>0, <3>1, KnownStep, ColumnsKnownStep
    <3>3. EntriesCopied'
      BY <2>0, <2>1, <2>3, <3>2, EntriesCopiedStep
    <3>4. ASSUME Uncut' PROVE Covered'
      <4>1. Uncut
        BY <2>0, <3>1, <3>4, PartFrame DEF Uncut, IInv
      <4>2. ~ CutsChange(p)
        <5>1. number \in Nat /\ number \in 1 .. Len(batch) /\ p \in Split(msg)
          BY <2>0, MessageType DEF IInv
        <5>2. number \in 1 .. number
          BY <5>1
        <5> QED
          BY <4>1, <5>1, <5>2 DEF Uncut, msg
      <4>3. Covered
        BY <1>2, <4>1 DEF PInv
      <4> QED
        BY <2>0, <2>1, <2>3, <4>2, <4>3, CoveredStep
    <3> QED
      BY <2>1, <3>2, <3>3, <3>4 DEF PInv
  <2>4. CASE UNCHANGED periodVars
    <3>1. /\ meta' = meta /\ lines' = lines /\ pc' = pc /\ msg' = msg /\ cp' = cp /\ view' = view
          /\ number' = number /\ batch' = batch /\ fetched' = fetched /\ behind' = behind
      BY <2>4 DEF periodVars, vars, input, locals, msg
    <3>2. Known' /\ EntriesCopied' /\ (Uncut' => Uncut)
      BY <2>0, <3>1 DEF Known, EntriesCopied, EntryCopied, Sole, Uncut
    <3>3. \A d, r : HasValue(d, r)' <=> HasValue(d, r)
      BY <3>1 DEF HasValue
    <3>4. ColumnsKnown'
      BY <2>0, <3>1, <3>3 DEF ColumnsKnown
    <3>5. \A m, r : Saving(m, r) => Saving(m, r)'
      BY <3>1 DEF Saving
    <3>6. Covered => Covered'
      <4> SUFFICES ASSUME Covered, NEW m \in DOMAIN meta', m \notin behind', NEW r \in Rows,
                          NEW d, d = Column(m, meta'[m].idx), HasValue(d, r)'
                   PROVE  InPeriod(r, meta'[m]) \/ Saving(m, r)'
        BY DEF Covered, HasValue
      <4> QED
        BY <3>1, <3>3, <3>5 DEF Covered
    <3> QED
      BY <1>2, <2>1, <3>2, <3>4, <3>6 DEF PInv
  <2> QED
    BY <1>2, <2>2, <2>3, <2>4 DEF PeriodNext
<1> QED
  BY <1>1, <1>2

(* updateMetaCP, updateMeta: between two messages the first and the last   *)
(* line of a meter are found by its period in the meta record, in however  *)
(* many parts its values came and whatever lines they have shared, unless  *)
(* another part has set the period back or it could not be written.        *)
THEOREM PeriodsCover ==
  ASSUME "meta" \notin Faults
  PROVE  PeriodSpec => []PeriodCovers
<1>1. /\ PeriodInit => PInv
      /\ PInv /\ [PeriodNext]_periodVars => PInv'
  BY PeriodInductive
<1>2. PInv => PeriodCovers
  <2> SUFFICES ASSUME PInv, Waiting, Uncut, NEW m \in DOMAIN meta \ behind, NEW r \in DOMAIN lines,
                      Cell(m, r) # {}
               PROVE  InPeriod(r, meta[m])
    BY DEF PeriodCovers, Uncut
  <2>1. Covered /\ r \in Rows
    BY DEF PInv, IInv, Types, AreLines
  <2>2. ~ Saving(m, r)
    BY DEF Saving, Waiting
  <2>3. HasValue(Column(m, meta[m].idx), r)
    BY DEF HasValue, Cell
  <2> QED
    BY <2>1, <2>2, <2>3 DEF Covered
<1> QED
  BY <1>1, <1>2, PTL DEF PeriodSpec
=============================================================================
