-------------------------- MODULE HistoryImportProofs --------------------------
(***************************************************************************)
(* Proofs about HistoryImport, for any statistics, zones and days: however *)
(* an import is cut off, its statistic keeps one zone or what the snapshot *)
(* says, and no committed day is lost.                                     *)
(***************************************************************************)
EXTENDS HistoryImport, FiniteSetTheorems, SequenceTheorems, TLAPS

\* The row at t is one of the zone z.
At(t, z) == t = Midnight(TrueDay(t), z)

AllAt(rows, z) == \A t \in rows : At(t, z)

HoldsDays(rows, days) == \A d \in days : \E t \in rows : TrueDay(t) = d

Plausible == {t \in Starts : TrueDay(t) \in 0..LastDay}

Regular == {t \in Starts : TrueDay(t) \in Days}

\* What is queued of a statistic.
NoneQueued(s) == \A n \in DOMAIN queue : queue[n].series # s

\* Only the import that holds _TZ_MARKER_LOCK has copies of the stores to save.
Locking(s) == job[s].phase \notin {"idle", "fetching", "resolved", "draining"}

LockHeld ==
    /\ \A s, u \in Series : Locking(s) /\ Locking(u) => s = u
    /\ \A s \in Series :
        /\ Locking(s) => job[s].snaps = snapshots
        /\ Locking(s) /\ job[s].phase # "dropping" => job[s].marks = markers

\* The recorder has one task of a statistic at most, and none where the import
\* has waited for it; only an excused one has a task put off.
TasksAwaited ==
    /\ \A n \in DOMAIN queue : queue[n].late => queue[n].series \in excused
    /\ \A s \in Series \ excused :
        /\ \A n, k \in DOMAIN queue : queue[n].series = s /\ queue[k].series = s => n = k
        /\ job[s].phase \in {"resolved", "deciding", "writing", "dropping"} => NoneQueued(s)
        /\ job[s].phase = "marking" /\ job[s].verify => NoneQueued(s)

\* The zone of an import is one that the database of zones has, and nothing is
\* to be verified before the stores are loaded.
JobsFresh ==
    /\ zone \notin lost
    /\ \A s \in Series : job[s].phase \in {"idle", "fetching", "resolved"} => ~job[s].verify
    /\ \A s \in Series : job[s].phase \notin {"idle", "fetching"} => job[s].zone \in Zones \ lost

\* The days of all rows that are there, queued or kept are days of the import;
\* of an excused statistic, up to the last time they are loaded.
RowsPlausible ==
    \A s \in Series :
        /\ RowsOf(s) \subseteq Plausible
        /\ \A n \in DOMAIN queue : queue[n].series = s => queue[n].rows \subseteq Plausible
        /\ job[s].base \subseteq Plausible
        /\ job[s].phase \in {"reclearing", "deciding"} => job[s].base \subseteq Regular
        /\ s \notin excused => job[s].base \subseteq Regular
        /\ s \notin excused \/ job[s].phase \in {"fetching", "resolved"} =>
              /\ RowsOf(s) \subseteq Regular
              /\ \A n \in DOMAIN queue : queue[n].series = s => queue[n].rows \subseteq Regular
              /\ snapshots[s].days \subseteq Days

\* The sums of each zone's rows count these.
SumsRight(s) ==
    \A z \in Zones : \A t \in RowsOf(s) :
        At(t, z) => db[s][t] = SumAt({u \in RowsOf(s) : At(u, z)}, t)

\* Without a snapshot all rows, there or queued, are of one zone: the marker's,
\* or that of the import that is about to save it.
OneZone(s, y) ==
    LET j == job[s]
    IN  /\ AllAt(RowsOf(s), y)
        /\ \A n \in DOMAIN queue : queue[n].series = s =>
              /\ queue[n].op = "write" /\ AllAt(queue[n].rows, y)
              /\ RowsOf(s) \subseteq queue[n].rows
        /\ j.phase = "marking" => Offset[y] = Offset[j.zone]
        /\ j.phase # "marking" /\ markers[s] # None => Offset[y] = Offset[markers[s]]

Merging(s) ==
    LET j == job[s]
    IN  /\ \E y \in Zones : OneZone(s, y)
        /\ HoldsDays(RowsOf(s), committed[s] \ exposed[s])
        /\ j.phase \notin {"reclearing", "clearing", "verifying", "dropping"}
        /\ j.verify => j.phase = "draining"
        /\ j.phase \in {"deciding", "writing"} => j.base = RowsOf(s)
        /\ j.phase = "deciding" => j.previous = markers[s]
        /\ j.phase = "writing" => AllAt(j.base, j.zone)

\* With a snapshot every row is of its zone or of a day that it has.
Moving(s) ==
    LET j == job[s]
        snap == snapshots[s]
    IN  /\ snap.zone \in Zones /\ snap.days # {}
        /\ committed[s] \ exposed[s] \subseteq snap.days
        /\ \A t \in RowsOf(s) : At(t, snap.zone) \/ TrueDay(t) \in snap.days
        /\ \A n \in DOMAIN queue : queue[n].series = s /\ queue[n].op = "write" =>
              /\ AllAt(queue[n].rows, snap.zone)
              /\ \A t \in RowsOf(s) : At(t, snap.zone) => t \in queue[n].rows
        /\ j.phase \in {"reclearing", "clearing"} =>
              \A n \in DOMAIN queue : queue[n].series = s => queue[n].op = "clear"
        /\ Locking(s) => j.verify
        /\ j.phase \in {"reclearing", "deciding"} =>
              /\ j.previous = snap.zone /\ snap.zone \notin lost
              /\ AllAt(j.base, snap.zone) /\ HoldsDays(j.base, snap.days)
              /\ \A t \in RowsOf(s) : At(t, snap.zone) => t \in j.base
        /\ j.phase \in {"clearing", "writing"} =>
              /\ AllAt(j.base, j.zone) /\ Offset[j.zone] = Offset[snap.zone]
              /\ HoldsDays(j.base, snap.days \ j.days)
              /\ \A t \in RowsOf(s) : At(t, snap.zone) => t \in j.base
        /\ j.phase = "verifying" =>
              /\ AllAt(j.base, j.zone) /\ Offset[j.zone] = Offset[snap.zone]
              /\ HoldsDays(j.base, snap.days)
        /\ j.phase \in {"marking", "dropping"} =>
              /\ AllAt(RowsOf(s), j.zone) /\ Offset[j.zone] = Offset[snap.zone]
              /\ HoldsDays(RowsOf(s), snap.days)
        /\ j.phase = "dropping" => markers[s] = j.zone

Followed(s) ==
    /\ SumsRight(s)
    /\ snapshots[s] = NoSnapshot => Merging(s)
    /\ snapshots[s] # NoSnapshot => Moving(s)

HistoryInv ==
    /\ HistoryTypeOK
    /\ LockHeld
    /\ TasksAwaited
    /\ JobsFresh
    /\ RowsPlausible
    /\ \A s \in Series \ excused : Followed(s)

-----------------------------------------------------------------------------
(* Days and starts                                                         *)

LEMMA DayFacts ==
    /\ LastDay \in Nat /\ DayLength \in Nat /\ DayLength > 0 /\ None \notin Zones
    /\ \A z \in Zones : Offset[z] \in Nat /\ Offset[z] < DayLength
    /\ Days = 1..LastDay
BY HistoryAssumption DEF HistoryAssumption, Days

\* The part of a product that a remainder does not reach.
LEMMA Quotient ==
    ASSUME NEW d \in Int, NEW n \in Nat, n > 0, NEW r \in Nat, r < n
    PROVE  (d * n + r) \div n = d
OBVIOUS

LEMMA Product ==
    ASSUME NEW a \in Nat, NEW d \in Nat, NEW n \in Nat, d <= a
    PROVE  d * n <= a * n
OBVIOUS

\* A midnight is of the day that it begins, however far from UTC.
LEMMA MidnightDay ==
    ASSUME NEW d \in Int, NEW z \in Zones
    PROVE  /\ Midnight(d, z) \in Int
           /\ TrueDay(Midnight(d, z)) = d
           /\ DayOf(Midnight(d, z), z) = d
<1>1. /\ d * DayLength + Offset[z] \in Int /\ (d * DayLength + Offset[z]) \div DayLength = d
    BY DayFacts, Quotient
<1>2. DayOf(Midnight(d, z), z) = d
    <2>1. (d * DayLength + 0) \div DayLength = d
        BY DayFacts, Quotient
    <2>2. (d * DayLength + Offset[z]) - Offset[z] = d * DayLength + 0
        BY DayFacts
    <2>3. DayOf(Midnight(d, z), z) = ((d * DayLength + Offset[z]) - Offset[z]) \div DayLength
        BY Zenon DEF Midnight, DayOf
    <2> QED
        BY <2>1, <2>2, <2>3
<1>3. Midnight(d, z) \in Int
    BY <1>1 DEF Midnight
<1>4. TrueDay(Midnight(d, z)) = d
    BY <1>1 DEF Midnight, TrueDay
<1> QED
    BY <1>2, <1>3, <1>4

LEMMA MidnightStarts ==
    ASSUME NEW d \in 0..LastDay, NEW z \in Zones
    PROVE  Midnight(d, z) \in Starts
<1>1. d * DayLength \in Nat /\ d * DayLength <= LastDay * DayLength
    BY DayFacts, Product
<1>2. (LastDay + 1) * DayLength = LastDay * DayLength + DayLength
    BY DayFacts
<1>3. LastDay * DayLength \in Nat
    BY DayFacts
<1> QED
    BY <1>1, <1>2, <1>3, DayFacts DEF Midnight, Starts

\* A row that is a midnight of z is of the day z gives it, and no other zone's
\* but for the same offset.
LEMMA AtFacts ==
    ASSUME NEW d \in Int, NEW t \in Int, NEW y \in Zones, NEW z \in Zones
    PROVE  /\ At(Midnight(d, z), z)
           /\ At(t, z) => DayOf(t, z) = TrueDay(t)
           /\ t = Midnight(DayOf(t, z), z) <=> At(t, z)
           /\ Offset[y] = Offset[z] => (At(t, y) <=> At(t, z))
           /\ At(t, y) /\ At(t, z) => Offset[y] = Offset[z]
           /\ TrueDay(t) \in Int /\ DayOf(t, z) \in Int
<1>1. TrueDay(t) \in Int /\ DayOf(t, z) \in Int
    BY DayFacts DEF TrueDay, DayOf
<1>2. At(Midnight(d, z), z)
    BY MidnightDay DEF At
<1>3. At(t, z) => DayOf(t, z) = TrueDay(t)
    BY <1>1, MidnightDay DEF At
<1>4. t = Midnight(DayOf(t, z), z) <=> At(t, z)
    BY <1>1, <1>3, MidnightDay DEF At
<1>5. Offset[y] = Offset[z] => (At(t, y) <=> At(t, z))
    BY DEF At, Midnight
<1>6. At(t, y) /\ At(t, z) => Offset[y] = Offset[z]
    <2>1. TrueDay(t) * DayLength \in Int
        BY <1>1, DayFacts
    <2> QED
        BY <2>1, DayFacts DEF At, Midnight
<1> QED
    BY <1>1, <1>2, <1>3, <1>4, <1>5, <1>6

\* The offset moves a row by less than a day.
LEMMA DayOfNear ==
    ASSUME NEW t \in Int, NEW z \in Zones, TrueDay(t) \in Days
    PROVE  DayOf(t, z) \in 0..LastDay
<1> DEFINE a == t - Offset[z]
           e == a \div DayLength
<1>1. /\ t \in Int /\ Offset[z] \in Nat /\ Offset[z] < DayLength /\ a \in Int
      /\ DayLength \in Nat /\ DayLength > 0
    BY DayFacts
<1>2. /\ TrueDay(t) \in Int /\ TrueDay(t) * DayLength <= t
      /\ t < TrueDay(t) * DayLength + DayLength
    BY <1>1 DEF TrueDay
<1> HIDE DEF a
<1>3. e \in Int /\ e * DayLength <= a /\ a < e * DayLength + DayLength
    BY <1>1 DEF e
<1> HIDE DEF e
<1>4. e <= TrueDay(t)
    <2> SUFFICES ASSUME e >= TrueDay(t) + 1 PROVE FALSE
        BY <1>2, <1>3
    <2>1. e * DayLength >= (TrueDay(t) + 1) * DayLength
        BY <1>1, <1>2, <1>3
    <2>2. (TrueDay(t) + 1) * DayLength = TrueDay(t) * DayLength + DayLength
        BY <1>1, <1>2
    <2> QED
        BY <1>1, <1>2, <1>3, <2>1, <2>2 DEF a
<1>5. e >= TrueDay(t) - 1
    <2> SUFFICES ASSUME e + 2 <= TrueDay(t) PROVE FALSE
        BY <1>2, <1>3
    <2>1. (e + 2) * DayLength <= TrueDay(t) * DayLength
        BY <1>1, <1>2, <1>3
    <2>2. (e + 2) * DayLength = e * DayLength + DayLength + DayLength
        BY <1>1, <1>3
    <2> QED
        BY <1>1, <1>2, <1>3, <2>1, <2>2 DEF a
<1>6. DayOf(t, z) = e
    BY DEF DayOf, e, a
<1> QED
    BY <1>2, <1>3, <1>4, <1>5, <1>6, DayFacts

LEMMA SameOffset ==
    ASSUME NEW t \in Int, NEW y \in Zones, NEW z \in Zones
    PROVE  /\ Offset[y] = Offset[z] => (At(t, y) <=> At(t, z))
           /\ At(t, y) /\ At(t, z) => Offset[y] = Offset[z]
BY AtFacts

-----------------------------------------------------------------------------
(* Rows, sums and the queue                                                *)

LEMMA StartsFinite == IsFiniteSet(Starts) /\ Starts \subseteq Nat
<1>1. (LastDay + 1) * DayLength \in Nat
    BY DayFacts
<1> QED
    BY <1>1, FS_Interval DEF Starts

\* A sum counts a row itself, so that it is not 0.
LEMMA SumFacts ==
    ASSUME NEW rows \in SUBSET Starts, NEW t \in Starts
    PROVE  /\ SumAt(rows, t) \in 0..Cardinality(Starts)
           /\ SumAt(rows, t) # 0 <=> t \in rows
<1> DEFINE upTo == {u \in rows : u <= t}
<1>1. upTo \in SUBSET Starts
    OBVIOUS
<1>2. /\ IsFiniteSet(upTo) /\ Cardinality(upTo) <= Cardinality(Starts)
      /\ Cardinality(upTo) \in Nat /\ Cardinality(Starts) \in Nat
    BY <1>1, StartsFinite, FS_Subset, FS_CardinalityType
<1>3. t \in rows => upTo # {}
    BY StartsFinite
<1>4. t \in rows => Cardinality(upTo) # 0
    BY <1>2, <1>3, FS_EmptySet
<1>5. SumAt(rows, t) = IF t \in rows THEN Cardinality(upTo) ELSE 0
    BY DEF SumAt
<1> QED
    BY <1>2, <1>4, <1>5

TaskType == [op : {"clear", "write"}, series : Series, rows : SUBSET Starts, late : BOOLEAN]

Single(s, q) == \A n, k \in DOMAIN q : q[n].series = s /\ q[k].series = s => n = k

\* The tasks of s in the queue q are all in the queue p.
TasksIn(s, q, p) ==
    \A n \in DOMAIN q : q[n].series = s => \E k \in DOMAIN p : p[k] = q[n]

\* What a head that leaves the queue does to it.
LEMMA TailTasks ==
    ASSUME NEW q \in Seq(TaskType), q # <<>>
    PROVE  /\ Head(q) = q[1] /\ 1 \in DOMAIN q /\ q[1] \in TaskType
           /\ Tail(q) \in Seq(TaskType)
           /\ \A n \in DOMAIN Tail(q) : n + 1 \in DOMAIN q /\ Tail(q)[n] = q[n + 1] /\ n \in Nat
<1>1. /\ Len(q) \in Nat /\ DOMAIN q = 1..Len(q) /\ q \in [1..Len(q) -> TaskType]
    BY LenProperties
<1>2. Len(q) # 0
    BY EmptySeq
<1>3. /\ Tail(q) \in Seq(TaskType) /\ Len(Tail(q)) = Len(q) - 1
      /\ \A i \in 1..Len(Tail(q)) : Tail(q)[i] = q[i + 1]
    BY HeadTailProperties
<1>4. DOMAIN Tail(q) = 1..Len(q) - 1
    BY <1>3, LenProperties
<1>5. Head(q) = q[1]
    OBVIOUS
<1> QED
    BY <1>1, <1>2, <1>3, <1>4, <1>5

\* ... and a task that joins it.
LEMMA AppendTasks ==
    ASSUME NEW q \in Seq(TaskType), NEW w \in TaskType
    PROVE  /\ Append(q, w) \in Seq(TaskType)
           /\ DOMAIN Append(q, w) = DOMAIN q \cup {Len(q) + 1} /\ Len(q) + 1 \notin DOMAIN q
           /\ \A n \in DOMAIN q : Append(q, w)[n] = q[n]
           /\ Append(q, w)[Len(q) + 1] = w
<1>1. /\ Len(q) \in Nat /\ DOMAIN q = 1..Len(q)
    BY LenProperties
<1>2. /\ Append(q, w) \in Seq(TaskType) /\ Len(Append(q, w)) = Len(q) + 1
      /\ \A i \in 1..Len(q) : Append(q, w)[i] = q[i]
      /\ Append(q, w)[Len(q) + 1] = w
    BY AppendProperties
<1>3. DOMAIN Append(q, w) = 1..Len(q) + 1
    BY <1>2, LenProperties
<1> QED
    BY <1>1, <1>2, <1>3

-----------------------------------------------------------------------------
(* Steps of an import                                                      *)

\* What an import of s may do to the recorder's queue: enqueue one task, where
\* none of s is left in it.
Enqueues(s) ==
    \E w \in TaskType :
        /\ queue' = Append(queue, w)
        /\ w.series = s /\ ~w.late /\ w.rows \subseteq Plausible
        /\ s \notin excused' => NoneQueued(s) /\ w.rows \subseteq Regular

\* A step of the import of s leaves the rows and all that is of other imports.
OthersRest(s) ==
    /\ UNCHANGED <<db, committed, lost, zone>> /\ faults' \in 0..MaxFaults
    /\ job' \in [Series -> Jobs] /\ markers' \in [Series -> Zones \cup {None}]
    /\ snapshots' \in [Series -> Migrations] /\ exposed' \in [Series -> SUBSET (0..LastDay)]
    /\ excused \subseteq excused' /\ excused' \subseteq excused \cup {s}
    /\ \A u \in Series \ {s} :
        /\ job'[u] = job[u] /\ markers'[u] = markers[u]
        /\ snapshots'[u] = snapshots[u] /\ exposed'[u] = exposed[u]
    /\ queue' = queue \/ Enqueues(s)

\* It saves a store only while it holds the lock, and what it has loaded.
LocksRight(s) ==
    /\ Locking(s)' => Locking(s) \/ \A u \in Series : ~Locking(u)
    /\ Locking(s)' => job'[s].snaps = snapshots'
    /\ Locking(s)' /\ job'[s].phase # "dropping" => job'[s].marks = markers'
    /\ Locking(s) \/ UNCHANGED <<markers, snapshots>>

\* Where it goes, it has waited for its tasks, and knows its zone and its rows.
ArrivesRight(s) ==
    LET j == job'[s]
    IN  /\ s \notin excused' =>
              /\ j.phase \in {"resolved", "deciding", "writing", "dropping"} => NoneQueued(s)'
              /\ j.phase = "marking" /\ j.verify => NoneQueued(s)'
              /\ j.base \subseteq Regular /\ snapshots'[s].days \subseteq Days
        /\ j.phase \notin {"idle", "fetching"} => j.zone \in Zones \ lost
        /\ j.phase \in {"idle", "fetching", "resolved"} => ~j.verify
        /\ j.base \subseteq Plausible
        /\ j.phase \in {"reclearing", "deciding"} => j.base \subseteq Regular
        /\ j.phase \in {"fetching", "resolved"} =>
              /\ s \notin excused \/ job[s].phase \in {"fetching", "resolved"}
              /\ UNCHANGED <<queue, snapshots>>

ImportMoves(s) ==
    /\ OthersRest(s) /\ LocksRight(s) /\ ArrivesRight(s)
    /\ s \notin excused' => Followed(s)'

\* A statistic that a step leaves alone stays as it was; tasks of it may go.
Untouched(u) ==
    /\ db'[u] = db[u] /\ markers'[u] = markers[u] /\ snapshots'[u] = snapshots[u]
    /\ committed'[u] = committed[u] /\ exposed'[u] = exposed[u]
    /\ TasksIn(u, queue', queue)

LEMMA UntouchedStays ==
    ASSUME NEW u \in Series, Followed(u), Untouched(u), job'[u] = job[u], lost' = lost
    PROVE  Followed(u)'
<1>1. RowsOf(u)' = RowsOf(u)
    BY DEF Untouched, RowsOf
<1>2. SumsRight(u)'
    BY <1>1 DEF Untouched, Followed, SumsRight
<1>3. \A y \in Zones : OneZone(u, y) => OneZone(u, y)'
    BY <1>1 DEF Untouched, TasksIn, OneZone
<1>4. Merging(u) => Merging(u)'
    BY <1>1, <1>3 DEF Untouched, Merging
<1>5. Locking(u)' <=> Locking(u)
    BY DEF Locking
<1>6. Moving(u) => Moving(u)'
    BY <1>1, <1>5 DEF Untouched, TasksIn, Moving
<1> QED
    BY <1>2, <1>4, <1>6 DEF Followed, Untouched

\* So it does when its import is over, or has not decided anything yet.
LEMMA LooseStays ==
    ASSUME NEW u \in Series, Followed(u), Untouched(u), ~Unmarked(u),
           job'[u].phase \in {"idle", "fetching", "resolved", "draining"},
           job'[u].verify => job'[u].phase = "draining"
    PROVE  Followed(u)'
<1>1. RowsOf(u)' = RowsOf(u)
    BY DEF Untouched, RowsOf
<1>2. SumsRight(u)'
    BY <1>1 DEF Untouched, Followed, SumsRight
<1>3. ASSUME Merging(u) PROVE Merging(u)'
    <2>1. PICK y \in Zones : OneZone(u, y)
        BY <1>3 DEF Merging
    <2>2. job[u].phase = "marking" => ~job[u].verify
        BY <1>3 DEF Merging
    <2>3. markers[u] # None => Offset[y] = Offset[markers[u]]
        BY <2>1, <2>2 DEF OneZone, Unmarked, SameStarts
    <2>4. OneZone(u, y)'
        BY <1>1, <2>1, <2>3 DEF Untouched, TasksIn, OneZone
    <2> QED
        BY <1>1, <1>3, <2>4 DEF Untouched, Merging
<1>4. ~Locking(u)'
    BY DEF Locking
<1>5. Moving(u) => Moving(u)'
    BY <1>1, <1>4 DEF Untouched, TasksIn, Moving
<1> QED
    BY <1>2, <1>3, <1>5 DEF Followed, Untouched

LEMMA ImportKeeps ==
    ASSUME HistoryInv, NEW s \in Series, ImportMoves(s)
    PROVE  HistoryInv'
<1>1. /\ OthersRest(s) /\ LocksRight(s) /\ ArrivesRight(s)
      /\ HistoryTypeOK /\ LockHeld /\ TasksAwaited /\ JobsFresh /\ RowsPlausible
    BY DEF ImportMoves, HistoryInv
<1>2. /\ queue \in Seq(TaskType) /\ excused \in SUBSET Series /\ lost' = lost /\ zone' = zone
      /\ excused \subseteq excused' /\ excused' \subseteq excused \cup {s}
    BY <1>1 DEF HistoryTypeOK, TaskType, OthersRest
<1>3. /\ queue' \in Seq(TaskType)
      /\ \A u \in Series \ {s} : TasksIn(u, queue', queue)
      /\ \A n \in DOMAIN queue' : queue'[n].late => queue'[n].series \in excused
      /\ \A n \in DOMAIN queue' : queue'[n].series = s =>
            \/ \E k \in DOMAIN queue : queue[k] = queue'[n]
            \/ /\ queue'[n].rows \subseteq Plausible /\ queue' # queue
               /\ s \notin excused' => queue'[n].rows \subseteq Regular
      /\ \A u \in Series \ excused' : Single(u, queue')
    <2>1. /\ \A n \in DOMAIN queue : queue[n].late => queue[n].series \in excused
          /\ \A u \in Series \ excused : Single(u, queue)
        BY <1>1 DEF TasksAwaited, Single
    <2>2. CASE queue' = queue
        BY <1>2, <2>1, <2>2 DEF TasksIn
    <2>3. CASE Enqueues(s)
        <3>1. PICK w \in TaskType : /\ queue' = Append(queue, w)
                                    /\ w.series = s /\ ~w.late /\ w.rows \subseteq Plausible
                                    /\ s \notin excused' =>
                                           NoneQueued(s) /\ w.rows \subseteq Regular
            BY <2>3 DEF Enqueues
        <3>2. /\ queue' \in Seq(TaskType)
              /\ DOMAIN queue' = DOMAIN queue \cup {Len(queue) + 1}
              /\ Len(queue) + 1 \notin DOMAIN queue
              /\ \A n \in DOMAIN queue : queue'[n] = queue[n]
              /\ queue'[Len(queue) + 1] = w
            BY <1>2, <3>1, AppendTasks
        <3>3. queue' # queue
            BY <3>2
        <3>4. \A u \in Series \ {s} : TasksIn(u, queue', queue)
            BY <3>1, <3>2 DEF TasksIn
        <3>5. \A u \in Series \ excused' : Single(u, queue')
            BY <1>2, <2>1, <3>1, <3>2 DEF Single, NoneQueued
        <3> QED
            BY <2>1, <3>1, <3>2, <3>3, <3>4, <3>5
    <2> QED
        BY <1>1, <2>2, <2>3 DEF OthersRest
<1>4. HistoryTypeOK'
    BY <1>1, <1>2, <1>3 DEF HistoryTypeOK, TaskType, OthersRest
<1>5. \A u \in Series \ {s} : /\ job'[u] = job[u] /\ RowsOf(u)' = RowsOf(u)
                              /\ snapshots'[u] = snapshots[u]
                              /\ Locking(u)' <=> Locking(u)
    BY <1>1 DEF OthersRest, RowsOf, Locking
<1>6. LockHeld'
    <2>1. ASSUME NEW u \in Series, NEW v \in Series, Locking(u)', Locking(v)'
          PROVE  u = v
        BY <1>1, <1>5, <2>1 DEF LockHeld, LocksRight
    <2>2. ASSUME NEW u \in Series, Locking(u)'
          PROVE  /\ job'[u].snaps = snapshots'
                 /\ job'[u].phase # "dropping" => job'[u].marks = markers'
        <3>1. CASE u = s
            BY <1>1, <2>2, <3>1 DEF LocksRight
        <3>2. CASE u # s
            <4>1. Locking(u) /\ job'[u] = job[u]
                BY <1>5, <2>2, <3>2
            <4>2. ~Locking(s)
                BY <1>1, <3>2, <4>1 DEF LockHeld
            <4> QED
                BY <1>1, <4>1, <4>2 DEF LockHeld, LocksRight
        <3> QED
            BY <3>1, <3>2
    <2> QED
        BY <2>1, <2>2 DEF LockHeld
<1>7. TasksAwaited'
    <2>1. ASSUME NEW u \in Series \ excused'
          PROVE  /\ job'[u].phase \in {"resolved", "deciding", "writing", "dropping"} =>
                        NoneQueued(u)'
                 /\ job'[u].phase = "marking" /\ job'[u].verify => NoneQueued(u)'
        <3>1. CASE u = s
            BY <1>1, <2>1, <3>1 DEF ArrivesRight
        <3>2. CASE u # s
            <4>1. NoneQueued(u) => NoneQueued(u)'
                BY <1>3, <3>2 DEF NoneQueued, TasksIn
            <4> QED
                BY <1>1, <1>2, <1>5, <3>2, <4>1 DEF TasksAwaited
        <3> QED
            BY <3>1, <3>2
    <2> QED
        BY <1>2, <1>3, <2>1 DEF TasksAwaited, Single
<1>8. JobsFresh'
    BY <1>1, <1>2, <1>5 DEF JobsFresh, ArrivesRight
<1>9. RowsPlausible'
    <2>1. ASSUME NEW u \in Series \ {s}
          PROVE  /\ RowsOf(u)' \subseteq Plausible
                 /\ \A n \in DOMAIN queue' : queue'[n].series = u =>
                        queue'[n].rows \subseteq Plausible
                 /\ job'[u].base \subseteq Plausible
                 /\ job'[u].phase \in {"reclearing", "deciding"} =>
                        job'[u].base \subseteq Regular
                 /\ u \notin excused' => job'[u].base \subseteq Regular
                 /\ u \notin excused' \/ job'[u].phase \in {"fetching", "resolved"} =>
                       /\ RowsOf(u)' \subseteq Regular
                       /\ \A n \in DOMAIN queue' : queue'[n].series = u =>
                              queue'[n].rows \subseteq Regular
                       /\ snapshots'[u].days \subseteq Days
        BY <1>1, <1>2, <1>3, <1>5 DEF RowsPlausible, TasksIn
    <2>2. /\ RowsOf(s)' = RowsOf(s) /\ RowsOf(s) \subseteq Plausible
          /\ s \notin excused' => RowsOf(s) \subseteq Regular
        BY <1>1, <1>2 DEF RowsPlausible, OthersRest, RowsOf
    <2>3. \A n \in DOMAIN queue' : queue'[n].series = s =>
            /\ queue'[n].rows \subseteq Plausible
            /\ s \notin excused' => queue'[n].rows \subseteq Regular
        BY <1>1, <1>2, <1>3 DEF RowsPlausible
    <2>4. job'[s].phase \in {"fetching", "resolved"} =>
            /\ RowsOf(s) \subseteq Regular
            /\ \A n \in DOMAIN queue' : queue'[n].series = s => queue'[n].rows \subseteq Regular
            /\ snapshots'[s].days \subseteq Days
        BY <1>1 DEF RowsPlausible, ArrivesRight
    <2>5. /\ job'[s].base \subseteq Plausible
          /\ job'[s].phase \in {"reclearing", "deciding"} => job'[s].base \subseteq Regular
          /\ s \notin excused' =>
                 job'[s].base \subseteq Regular /\ snapshots'[s].days \subseteq Days
        BY <1>1 DEF ArrivesRight
    <2> QED
        BY <2>1, <2>2, <2>3, <2>4, <2>5 DEF RowsPlausible
<1>10. \A u \in Series \ excused' : Followed(u)'
    <2> SUFFICES ASSUME NEW u \in Series \ excused' PROVE Followed(u)'
        OBVIOUS
    <2>1. CASE u = s
        BY <2>1 DEF ImportMoves
    <2>2. CASE u # s
        <3>1. Followed(u) /\ Untouched(u) /\ job'[u] = job[u]
            BY <1>1, <1>2, <1>3, <2>2 DEF HistoryInv, Untouched, OthersRest
        <3> QED
            BY <1>2, <3>1, UntouchedStays
    <2> QED
        BY <2>1, <2>2
<1> QED
    BY <1>4, <1>6, <1>7, <1>8, <1>9, <1>10 DEF HistoryInv

LEMMA JobAdvances ==
    ASSUME HistoryTypeOK, NEW s \in Series, NEW j \in Jobs, Advance(s, j)
    PROVE  job' \in [Series -> Jobs] /\ job'[s] = j /\ \A u \in Series \ {s} : job'[u] = job[u]
BY DEF HistoryTypeOK, Advance

LEMMA NoJobFacts ==
    /\ NoJob \in Jobs /\ NoJob.phase = "idle" /\ NoJob.verify = FALSE /\ NoJob.base = {}
    /\ NoJob.zone = None
BY DEF NoJob, Jobs, Phases, Migrations, NoSnapshot

LEMMA FlushedNone ==
    ASSUME HistoryInv, NEW s \in Series \ excused, Flushed
    PROVE  NoneQueued(s)
BY DEF HistoryInv, TasksAwaited, Flushed, NoneQueued

\* Steps that save nothing, and after which nothing is decided.
LEMMA LooseKeeps ==
    ASSUME HistoryInv, NEW s \in Series, NEW j \in Jobs, Advance(s, j),
           UNCHANGED <<zone, lost, db, queue, markers, snapshots, committed, exposed>>,
           faults' \in 0..MaxFaults, excused' \in {excused, excused \cup {s}},
           s \notin excused' => ~Unmarked(s) /\ j.base \subseteq Regular,
           j.phase \in {"idle", "fetching", "resolved", "draining"},
           j.verify => j.phase = "draining",
           j.phase = "resolved" => Flushed,
           j.phase \in {"resolved", "draining"} => j.zone \in Zones \ lost,
           j.phase \in {"fetching", "resolved"} =>
                s \notin excused \/ job[s].phase \in {"fetching", "resolved"},
           j.base \subseteq Plausible
    PROVE  HistoryInv'
<1>1. /\ HistoryTypeOK /\ RowsPlausible
      /\ \A u \in Series \ excused : Followed(u)
    BY DEF HistoryInv
<1>2. job' \in [Series -> Jobs] /\ job'[s] = j /\ \A u \in Series \ {s} : job'[u] = job[u]
    BY <1>1, JobAdvances
<1>3. ~Locking(s)'
    BY <1>2 DEF Locking
<1>4. OthersRest(s)
    BY <1>1, <1>2 DEF OthersRest, HistoryTypeOK
<1>5. LocksRight(s)
    BY <1>3 DEF LocksRight
<1>6. ArrivesRight(s)
    <2>1. s \notin excused' => snapshots'[s].days \subseteq Days
        BY <1>1 DEF RowsPlausible
    <2>2. s \notin excused' /\ j.phase = "resolved" => NoneQueued(s)'
        <3>1. s \notin excused' /\ j.phase = "resolved" => NoneQueued(s)
            BY FlushedNone
        <3> QED
            BY <3>1 DEF NoneQueued
    <2> QED
        BY <1>2, <2>1, <2>2 DEF ArrivesRight
<1>7. s \notin excused' => Followed(s)'
    <2> SUFFICES ASSUME s \notin excused' PROVE Followed(s)'
        OBVIOUS
    <2>1. Followed(s) /\ Untouched(s)
        BY <1>1 DEF Untouched, TasksIn
    <2> QED
        BY <1>2, <2>1, LooseStays
<1> QED
    BY <1>4, <1>5, <1>6, <1>7, ImportKeeps DEF ImportMoves

LEMMA StartKeeps ==
    ASSUME HistoryInv, NEW s \in Series, NEW ds \in SUBSET Days, Start(s, ds)
    PROVE  HistoryInv'
<1> DEFINE j == [NoJob EXCEPT !.phase = "fetching", !.days = ds]
<1>1. j \in Jobs /\ j.phase = "fetching" /\ j.verify = FALSE /\ j.base = {}
    BY DEF NoJob, Jobs, Phases, Migrations, NoSnapshot
<1>2. /\ Advance(s, j) /\ s \notin excused /\ ~Unmarked(s)
      /\ UNCHANGED <<zone, lost, db, queue, markers, snapshots, committed, exposed, faults,
                     excused>>
    BY DEF Start, Unmarked
<1>3. faults' \in 0..MaxFaults
    BY <1>2 DEF HistoryInv, HistoryTypeOK
<1> HIDE DEF j
<1> QED
    BY <1>1, <1>2, <1>3, LooseKeeps

LEMMA ResolveKeeps ==
    ASSUME HistoryInv, NEW s \in Series, Resolve(s)
    PROVE  HistoryInv'
<1> DEFINE j == [job[s] EXCEPT !.phase = "resolved", !.zone = zone]
<1>1. /\ job[s] \in Jobs /\ zone \in Zones \ lost /\ faults \in 0..MaxFaults
    BY DEF HistoryInv, HistoryTypeOK, JobsFresh
<1>2. /\ j \in Jobs /\ j.phase = "resolved" /\ j.base = job[s].base /\ j.zone = zone
      /\ j.verify = job[s].verify
    BY <1>1 DEF Jobs, Phases
<1>3. /\ Advance(s, j) /\ job[s].phase = "fetching" /\ Flushed /\ ~Unmarked(s)
      /\ UNCHANGED <<zone, lost, db, queue, markers, snapshots, committed, exposed, faults,
                     excused>>
    BY DEF Resolve, Unmarked
<1>4. /\ ~job[s].verify /\ job[s].base \subseteq Plausible
      /\ (s \notin excused => job[s].base \subseteq Regular)
    BY <1>3 DEF HistoryInv, RowsPlausible, JobsFresh
<1> HIDE DEF j
<1> QED
    BY <1>1, <1>2, <1>3, <1>4, LooseKeeps

\* An import that ends by itself, by a refusal or because it is cancelled.
LEMMA EndKeeps ==
    ASSUME HistoryInv, NEW s \in Series, Advance(s, NoJob),
           UNCHANGED <<zone, lost, db, queue, markers, snapshots, committed, exposed>>,
           faults' \in 0..MaxFaults, excused' \in {excused, excused \cup {s}},
           s \notin excused' => ~Unmarked(s)
    PROVE  HistoryInv'
BY NoJobFacts, LooseKeeps

LEMMA RefuseKeeps ==
    ASSUME HistoryInv, NEW s \in Series, Refuse(s) \/ Finish(s)
    PROVE  HistoryInv'
<1>1. faults \in 0..MaxFaults
    BY DEF HistoryInv, HistoryTypeOK
<1> QED
    BY <1>1, EndKeeps DEF Refuse, Finish, Unmarked

LEMMA ImportCancelledKeeps ==
    ASSUME HistoryInv, NEW s \in Series, ImportCancelled(s)
    PROVE  HistoryInv'
<1>1. faults' \in 0..MaxFaults
    BY HistoryAssumption DEF HistoryInv, HistoryTypeOK, ImportCancelled, Faulty
<1>2. s \notin excused' => ~Unmarked(s)
    BY DEF ImportCancelled
<1> QED
    BY <1>1, <1>2, EndKeeps DEF ImportCancelled

LEMMA AlignedIs ==
    ASSUME NEW rows \in SUBSET Starts, NEW z \in Zones
    PROVE  /\ Aligned(rows, z) \subseteq rows
           /\ \A t \in rows : t \in Aligned(rows, z) <=> At(t, z)
<1>1. \A t \in rows : t = Midnight(DayOf(t, z), z) <=> At(t, z)
    BY StartsFinite, AtFacts
<1> QED
    BY <1>1 DEF Aligned

\* The midnights of days are rows of these days and of the zone.
LEMMA MidnightsOf ==
    ASSUME NEW days \in SUBSET (0..LastDay), NEW z \in Zones
    PROVE  /\ {Midnight(d, z) : d \in days} \subseteq Plausible
           /\ days \subseteq Days => {Midnight(d, z) : d \in days} \subseteq Regular
           /\ \A d \in days : Midnight(d, z) \in Starts /\ TrueDay(Midnight(d, z)) = d
                                 /\ At(Midnight(d, z), z)
<1>1. \A d \in days : Midnight(d, z) \in Starts /\ TrueDay(Midnight(d, z)) = d
    BY MidnightStarts, MidnightDay
<1>2. \A d \in days : At(Midnight(d, z), z)
    BY <1>1 DEF At
<1> QED
    BY <1>1, <1>2 DEF Plausible, Regular

LEMMA LoadKeeps ==
    ASSUME HistoryInv, NEW s \in Series, Load(s)
    PROVE  HistoryInv'
<1> DEFINE loaded == [job[s] EXCEPT !.phase = "deciding", !.marks = markers, !.snaps = snapshots]
           snap == snapshots[s]
           own == Trusted(RowsOf(s), snap.zone)
           left == LeftBehind(RowsOf(s), own)
           base == {Midnight(d, snap.zone) : d \in snap.days} \cup own
           plain == [loaded EXCEPT !.base = RowsOf(s), !.previous = markers[s]]
           retried == [loaded EXCEPT !.base = base, !.previous = snap.zone, !.verify = TRUE,
                                     !.phase = IF left THEN "reclearing" ELSE "deciding"]
<1>1. /\ HistoryTypeOK /\ RowsPlausible /\ JobsFresh
      /\ \A u \in Series \ excused : Followed(u)
      /\ job[s] \in Jobs /\ markers \in [Series -> Zones \cup {None}]
      /\ snapshots \in [Series -> Migrations] /\ RowsOf(s) \subseteq Starts
    BY DEF HistoryInv, HistoryTypeOK, RowsOf
<1>2. /\ job[s].phase = "resolved" /\ (\A u \in Series : ~Locking(u))
      /\ UNCHANGED <<zone, lost, db, markers, snapshots, faults, committed, exposed>>
    BY DEF Load, MarkerLockFree, Locking
<1>3. /\ RowsOf(s) \subseteq Regular /\ snap.days \subseteq Days /\ RowsOf(s) \subseteq Plausible
      /\ ~job[s].verify /\ job[s].zone \in Zones \ lost /\ RowsOf(s)' = RowsOf(s)
    BY <1>1, <1>2 DEF RowsPlausible, JobsFresh, RowsOf
<1>4. s \notin excused => NoneQueued(s)
    BY <1>2 DEF HistoryInv, TasksAwaited
<1>5. CASE snap = NoSnapshot \/ snap.zone \in lost
    <2>1. /\ Advance(s, plain) /\ queue' = queue
          /\ excused' = IF snap = NoSnapshot THEN excused ELSE excused \cup {s}
        BY <1>5 DEF Load
    <2>2. /\ plain \in Jobs /\ plain.phase = "deciding" /\ plain.base = RowsOf(s)
          /\ plain.previous = markers[s] /\ plain.verify = job[s].verify
          /\ plain.zone = job[s].zone
          /\ plain.marks = markers /\ plain.snaps = snapshots
        BY <1>1 DEF Jobs, Phases
    <2> HIDE DEF plain
    <2>3. job' \in [Series -> Jobs] /\ job'[s] = plain /\ \A u \in Series \ {s} :
              job'[u] = job[u]
        BY <1>1, <2>1, <2>2, JobAdvances
    <2>4. OthersRest(s)
        BY <1>1, <1>2, <2>1, <2>3 DEF OthersRest, HistoryTypeOK
    <2>5. LocksRight(s)
        BY <1>2, <2>2, <2>3 DEF LocksRight
    <2>6. s \notin excused' => NoneQueued(s)'
        BY <1>4, <2>1 DEF NoneQueued
    <2>7. ArrivesRight(s)
        BY <1>2, <1>3, <2>2, <2>3, <2>6 DEF ArrivesRight
    <2>8. ASSUME s \notin excused' PROVE Followed(s)'
        <3>1. snap = NoSnapshot /\ s \notin excused
            BY <2>1, <2>8
        <3>2. Merging(s) /\ SumsRight(s)
            BY <1>1, <3>1 DEF Followed
        <3>3. SumsRight(s)'
            BY <1>2, <1>3, <3>2 DEF SumsRight
        <3>4. PICK y \in Zones : OneZone(s, y)
            BY <3>2 DEF Merging
        <3>5. OneZone(s, y)'
            BY <1>2, <1>3, <2>1, <2>2, <2>3, <3>4 DEF OneZone
        <3>6. Merging(s)'
            BY <1>2, <1>3, <2>2, <2>3, <3>2, <3>5 DEF Merging
        <3> QED
            BY <1>2, <3>1, <3>3, <3>6 DEF Followed
    <2> QED
        BY <2>4, <2>5, <2>7, <2>8, ImportKeeps DEF ImportMoves
<1>6. CASE ~(snap = NoSnapshot \/ snap.zone \in lost)
    <2>1. /\ Advance(s, retried) /\ excused' = excused
          /\ queue' = IF left THEN Append(queue, Task("clear", s, {})) ELSE queue
        BY <1>6 DEF Load
    <2>2. snap.zone \in Zones \ lost /\ snap.days \in SUBSET (0..LastDay)
        BY <1>1, <1>6 DEF Migrations
    <2>3. /\ own \subseteq RowsOf(s)
          /\ \A t \in RowsOf(s) : t \in own <=> At(t, snap.zone)
        BY <1>1, <2>2, AlignedIs DEF Trusted
    <2>4. /\ base \subseteq Regular /\ base \subseteq Plausible /\ base \subseteq Starts
          /\ AllAt(base, snap.zone) /\ HoldsDays(base, snap.days)
          /\ \A t \in RowsOf(s) : At(t, snap.zone) => t \in base
        <3>1. {Midnight(d, snap.zone) : d \in snap.days} \subseteq Regular
            BY <1>3, <2>2, MidnightsOf
        <3>2. \A d \in snap.days :
                  TrueDay(Midnight(d, snap.zone)) = d /\ At(Midnight(d, snap.zone), snap.zone)
            BY <2>2, MidnightsOf
        <3>3. Regular \subseteq Plausible /\ Regular \subseteq Starts
            BY DayFacts DEF Regular, Plausible
        <3>4. base \subseteq Regular
            BY <1>3, <2>3, <3>1
        <3>5. AllAt(base, snap.zone)
            BY <2>3, <3>2 DEF AllAt
        <3>6. HoldsDays(base, snap.days)
            BY <3>2 DEF HoldsDays
        <3> QED
            BY <2>3, <3>3, <3>4, <3>5, <3>6
    <2> HIDE DEF base, own, left
    <2>5. /\ retried \in Jobs /\ retried.phase = (IF left THEN "reclearing" ELSE "deciding")
          /\ retried.base = base /\ retried.previous = snap.zone /\ retried.verify
          /\ retried.zone = job[s].zone /\ retried.marks = markers /\ retried.snaps = snapshots
        BY <1>1, <2>2, <2>4 DEF Jobs, Phases
    <2> HIDE DEF retried
    <2>6. job' \in [Series -> Jobs] /\ job'[s] = retried /\ \A u \in Series \ {s} :
              job'[u] = job[u]
        BY <1>1, <2>1, <2>5, JobAdvances
    <2>7. queue' = queue \/ Enqueues(s)
        <3>1. CASE left
            <4>1. /\ Task("clear", s, {}) \in TaskType /\ Task("clear", s, {}).series = s
                  /\ ~Task("clear", s, {}).late /\ Task("clear", s, {}).rows = {}
                BY DEF Task, TaskType
            <4> QED
                BY <1>4, <2>1, <3>1, <4>1 DEF Enqueues
        <3> QED
            BY <2>1, <3>1
    <2>8. OthersRest(s)
        BY <1>1, <1>2, <2>1, <2>6, <2>7 DEF OthersRest, HistoryTypeOK
    <2>9. LocksRight(s)
        BY <1>2, <2>5, <2>6 DEF LocksRight
    <2>10. s \notin excused' /\ ~left => NoneQueued(s)'
        BY <1>4, <2>1 DEF NoneQueued
    <2>11. ArrivesRight(s)
        BY <1>2, <1>3, <2>4, <2>5, <2>6, <2>10 DEF ArrivesRight
    <2>12. ASSUME s \notin excused' PROVE Followed(s)'
        <3>1. Moving(s) /\ SumsRight(s) /\ NoneQueued(s)
            BY <1>1, <1>4, <1>6, <2>1, <2>12 DEF Followed
        <3>2. SumsRight(s)'
            BY <1>2, <1>3, <3>1 DEF SumsRight
        <3>3. \A n \in DOMAIN queue' : queue'[n].series = s => queue'[n].op = "clear"
            <4>1. CASE left
                <5>1. Task("clear", s, {}) \in TaskType /\ Task("clear", s, {}).op = "clear"
                    BY DEF Task, TaskType
                <5>2. queue \in Seq(TaskType)
                    BY <1>1 DEF HistoryTypeOK, TaskType
                <5> QED
                    BY <2>1, <3>1, <4>1, <5>1, <5>2, AppendTasks DEF NoneQueued
            <4>2. CASE ~left
                BY <2>1, <3>1, <4>2 DEF NoneQueued
            <4> QED
                BY <4>1, <4>2
        <3>4. Moving(s)'
            BY <1>2, <1>3, <2>2, <2>4, <2>5, <2>6, <3>1, <3>3 DEF Moving, Locking
        <3> QED
            BY <1>2, <1>6, <3>2, <3>4 DEF Followed
    <2> QED
        BY <2>8, <2>9, <2>11, <2>12, ImportKeeps DEF ImportMoves
<1> QED
    BY <1>5, <1>6

\* A step that only goes on to the next phase, with the lock held.
LEMMA PhaseKeeps ==
    ASSUME HistoryInv, NEW s \in Series,
           NEW ph \in {"deciding", "writing", "marking", "draining"},
           Advance(s, [job[s] EXCEPT !.phase = ph]),
           Locking(s), job[s].phase # "dropping",
           UNCHANGED <<zone, lost, db, queue, markers, snapshots, faults, committed, exposed,
                       excused>>,
           s \notin excused => (ph = "draining" \/ NoneQueued(s)),
           ph = "deciding" => job[s].phase = "reclearing",
           s \notin excused => Followed(s)'
    PROVE  HistoryInv'
<1> DEFINE j == [job[s] EXCEPT !.phase = ph]
<1>1. /\ HistoryTypeOK /\ RowsPlausible /\ JobsFresh /\ LockHeld
      /\ job[s] \in Jobs
    BY DEF HistoryInv, HistoryTypeOK
<1>2. /\ j \in Jobs /\ j.phase = ph /\ j.base = job[s].base /\ j.zone = job[s].zone
      /\ j.marks = job[s].marks /\ j.snaps = job[s].snaps /\ j.verify = job[s].verify
    BY <1>1 DEF Jobs, Phases
<1> HIDE DEF j
<1>3. job' \in [Series -> Jobs] /\ job'[s] = j /\ \A u \in Series \ {s} : job'[u] = job[u]
    BY <1>1, <1>2, JobAdvances DEF j
<1>4. OthersRest(s)
    BY <1>1, <1>3 DEF OthersRest, HistoryTypeOK
<1>5. LocksRight(s)
    BY <1>1, <1>2, <1>3 DEF LocksRight, LockHeld
<1>6. ArrivesRight(s)
    <2>1. /\ s \notin excused =>
                job[s].base \subseteq Regular /\ snapshots[s].days \subseteq Days
          /\ job[s].base \subseteq Plausible
          /\ ph = "deciding" => job[s].base \subseteq Regular
        BY <1>1 DEF RowsPlausible
    <2>2. job[s].zone \in Zones \ lost
        BY <1>1 DEF JobsFresh, Locking
    <2>3. NoneQueued(s) => NoneQueued(s)'
        BY DEF NoneQueued
    <2> QED
        BY <1>2, <1>3, <2>1, <2>2, <2>3 DEF ArrivesRight
<1> QED
    BY <1>4, <1>5, <1>6, ImportKeeps DEF ImportMoves

LEMMA FollowedFacts ==
    ASSUME HistoryInv, NEW s \in Series \ excused
    PROVE  /\ SumsRight(s)
           /\ snapshots[s] = NoSnapshot => Merging(s)
           /\ snapshots[s] # NoSnapshot => Moving(s)
           /\ job[s] \in Jobs /\ snapshots[s] \in Migrations
           /\ RowsOf(s) \subseteq Regular /\ job[s].base \subseteq Regular
           /\ snapshots[s].days \subseteq Days
BY DEF HistoryInv, Followed, HistoryTypeOK, RowsPlausible

\* What a job is whose phase alone has changed.
LEMMA PhaseAdvances ==
    ASSUME HistoryTypeOK, NEW s \in Series, NEW ph \in Phases,
           Advance(s, [job[s] EXCEPT !.phase = ph])
    PROVE  /\ job'[s].phase = ph /\ job'[s].base = job[s].base /\ job'[s].zone = job[s].zone
           /\ job'[s].verify = job[s].verify /\ job'[s].days = job[s].days
           /\ job'[s].previous = job[s].previous
<1>1. job[s] \in Jobs
    BY DEF HistoryTypeOK
<1>2. job'[s] = [job[s] EXCEPT !.phase = ph]
    BY DEF HistoryTypeOK, Advance
<1> QED
    BY <1>1, <1>2 DEF Jobs

LEMMA ClearedKeeps ==
    ASSUME HistoryInv, NEW s \in Series, Cleared(s)
    PROVE  HistoryInv'
<1> DEFINE ph == IF job[s].phase = "reclearing" THEN "deciding" ELSE "writing"
<1>1. /\ job[s].phase \in {"reclearing", "clearing"} /\ Flushed
      /\ UNCHANGED <<zone, lost, db, queue, markers, snapshots, faults, committed, exposed,
                     excused>>
    BY DEF Cleared
<1>2. Advance(s, [job[s] EXCEPT !.phase = ph])
    BY DEF Cleared
<1>3. ph \in {"deciding", "writing"} /\ (ph = "deciding" <=> job[s].phase = "reclearing")
    OBVIOUS
<1> HIDE DEF ph
<1>4. s \notin excused => NoneQueued(s)
    BY <1>1, FlushedNone
<1>5. /\ job'[s].phase = ph /\ job'[s].base = job[s].base /\ job'[s].zone = job[s].zone
      /\ job'[s].verify = job[s].verify /\ job'[s].days = job[s].days
      /\ job'[s].previous = job[s].previous
    BY <1>2, <1>3, PhaseAdvances DEF HistoryInv, Phases
<1>6. ASSUME s \notin excused PROVE Followed(s)'
    <2>1. RowsOf(s)' = RowsOf(s)
        BY <1>1 DEF RowsOf
    <2>2. snapshots[s] # NoSnapshot /\ Moving(s) /\ SumsRight(s)
        BY <1>1, <1>6, FollowedFacts DEF Merging
    <2>3. SumsRight(s)'
        BY <1>1, <2>1, <2>2 DEF SumsRight
    <2>4. Moving(s)'
        BY <1>1, <1>3, <1>5, <2>1, <2>2 DEF Moving, Locking
    <2> QED
        BY <1>1, <2>2, <2>3, <2>4 DEF Followed
<1> QED
    BY <1>1, <1>2, <1>3, <1>4, <1>6, PhaseKeeps DEF Locking

\* Rows that are not to be moved are of the zone of the import.
LEMMA MergeKeeps ==
    ASSUME HistoryInv, NEW s \in Series, Merge(s)
    PROVE  HistoryInv'
<1>1. /\ job[s].phase = "deciding" /\ ~Refused(job[s]) /\ ~Moved(job[s])
      /\ Advance(s, [job[s] EXCEPT !.phase = "writing"])
      /\ UNCHANGED <<zone, lost, db, queue, markers, snapshots, faults, committed, exposed,
                     excused>>
    BY DEF Merge
<1>2. s \notin excused => NoneQueued(s)
    BY <1>1 DEF HistoryInv, TasksAwaited
<1>3. /\ job'[s].phase = "writing" /\ job'[s].base = job[s].base /\ job'[s].zone = job[s].zone
      /\ job'[s].verify = job[s].verify /\ job'[s].days = job[s].days
      /\ job'[s].previous = job[s].previous
    BY <1>1, PhaseAdvances DEF HistoryInv, Phases
<1>4. job[s].zone \in Zones \ lost
    BY <1>1 DEF HistoryInv, JobsFresh
<1>5. ASSUME s \notin excused PROVE Followed(s)'
    <2>1. RowsOf(s)' = RowsOf(s) /\ Regular \subseteq Starts
        BY <1>1 DEF RowsOf, Regular
    <2>2. SumsRight(s)'
        BY <1>1, <1>5, <2>1, FollowedFacts DEF SumsRight
    <2>3. \A y \in Zones : \A t \in job[s].base :
                Offset[y] = Offset[job[s].zone] /\ At(t, y) => At(t, job[s].zone)
        <3>1. job[s].base \subseteq Regular
            BY <1>5, FollowedFacts
        <3>2. Starts \subseteq Int
            BY StartsFinite
        <3>3. job[s].base \subseteq Int
            BY <2>1, <3>1, <3>2
        <3> QED
            BY <1>4, <3>3, SameOffset
    <2>4. job[s].base # {} /\ job[s].previous # None /\ job[s].previous \in Zones =>
                Offset[job[s].previous] = Offset[job[s].zone]
        BY <1>1, <1>4 DEF Refused, Moved, SameStarts
    <2>5. CASE snapshots[s] = NoSnapshot
        <3>1. Merging(s)
            BY <1>5, <2>5, FollowedFacts
        <3>2. PICK y \in Zones : OneZone(s, y)
            BY <3>1 DEF Merging
        <3>3. /\ job[s].base = RowsOf(s) /\ job[s].previous = markers[s]
            BY <1>1, <3>1 DEF Merging
        <3>4. OneZone(s, y)'
            BY <1>1, <1>3, <2>1, <3>2 DEF OneZone
        <3>5. AllAt(job[s].base, job[s].zone)
            <4>1. CASE job[s].previous = None
                <5>1. Aligned(job[s].base, job[s].zone) = job[s].base \/ job[s].base = {}
                    BY <1>1, <4>1 DEF Refused
                <5> QED
                    BY <1>4, <1>5, <2>1, <5>1, AlignedIs, FollowedFacts DEF AllAt
            <4>2. CASE job[s].previous # None
                <5>1. job[s].previous \in Zones
                    BY <1>5, <4>2, FollowedFacts DEF Jobs
                <5>2. AllAt(job[s].base, y) /\ Offset[y] = Offset[job[s].previous]
                    BY <1>1, <3>2, <3>3, <4>2 DEF OneZone
                <5> QED
                    BY <2>3, <2>4, <4>2, <5>1, <5>2 DEF AllAt
            <4> QED
                BY <4>1, <4>2
        <3>6. Merging(s)'
            BY <1>1, <1>3, <2>1, <3>1, <3>3, <3>4, <3>5 DEF Merging
        <3> QED
            BY <1>1, <2>2, <2>5, <3>6 DEF Followed
    <2>6. CASE snapshots[s] # NoSnapshot
        <3>1. Moving(s) /\ snapshots[s].zone \in Zones
            BY <1>5, <2>6, FollowedFacts DEF Moving
        <3>2. /\ job[s].previous = snapshots[s].zone /\ HoldsDays(job[s].base, snapshots[s].days)
              /\ AllAt(job[s].base, snapshots[s].zone) /\ snapshots[s].days # {}
              /\ \A t \in RowsOf(s) : At(t, snapshots[s].zone) => t \in job[s].base
            BY <1>1, <3>1 DEF Moving
        <3>3. job[s].base # {} /\ job[s].previous # None
            BY <3>1, <3>2, DayFacts DEF HoldsDays
        <3>4. Offset[job[s].zone] = Offset[snapshots[s].zone]
            BY <2>4, <3>1, <3>2, <3>3
        <3>5. AllAt(job[s].base, job[s].zone)
            BY <2>3, <3>1, <3>2, <3>4 DEF AllAt
        <3>6. HoldsDays(job[s].base, snapshots[s].days \ job[s].days)
            BY <3>2 DEF HoldsDays
        <3>7. Moving(s)'
            BY <1>1, <1>3, <2>1, <3>1, <3>2, <3>4, <3>5, <3>6 DEF Moving, Locking
        <3> QED
            BY <1>1, <2>2, <2>6, <3>7 DEF Followed
    <2> QED
        BY <2>5, <2>6
<1> QED
    BY <1>1, <1>2, <1>5, PhaseKeeps DEF Locking

LEMMA PlausibleIs ==
    /\ Regular \subseteq Plausible /\ Regular \subseteq Starts /\ Plausible \subseteq Starts
    /\ Starts \subseteq Int
    /\ \A t \in Regular : TrueDay(t) \in Days
    /\ \A t \in Plausible : TrueDay(t) \in 0..LastDay
<1>1. Days \subseteq 0..LastDay
    BY DayFacts
<1>2. Starts \subseteq Int
    BY StartsFinite
<1> QED
    BY <1>1, <1>2 DEF Regular, Plausible

LEMMA VerifyKeeps ==
    ASSUME HistoryInv, NEW s \in Series, Verify(s)
    PROVE  HistoryInv'
<1> DEFINE ph == IF Verified(s) THEN "marking" ELSE "draining"
<1>1. /\ job[s].phase = "verifying" /\ Flushed
      /\ UNCHANGED <<zone, lost, db, queue, markers, snapshots, faults, committed, exposed,
                     excused>>
    BY DEF Verify
<1>2. Advance(s, [job[s] EXCEPT !.phase = ph])
    BY DEF Verify
<1>3. ph \in {"marking", "draining"} /\ (ph = "marking" => job[s].base = RowsOf(s))
    BY DEF Verified
<1> HIDE DEF ph
<1>4. s \notin excused => NoneQueued(s)
    BY <1>1, FlushedNone
<1>5. /\ job'[s].phase = ph /\ job'[s].base = job[s].base /\ job'[s].zone = job[s].zone
      /\ job'[s].verify = job[s].verify /\ job'[s].days = job[s].days
      /\ job'[s].previous = job[s].previous
    BY <1>2, <1>3, PhaseAdvances DEF HistoryInv, Phases
<1>6. ASSUME s \notin excused PROVE Followed(s)'
    <2>1. RowsOf(s)' = RowsOf(s)
        BY <1>1 DEF RowsOf
    <2>2. snapshots[s] # NoSnapshot /\ Moving(s) /\ SumsRight(s)
        BY <1>1, <1>6, FollowedFacts DEF Merging
    <2>3. SumsRight(s)'
        BY <1>1, <2>1, <2>2 DEF SumsRight
    <2>4. Moving(s)'
        BY <1>1, <1>3, <1>5, <2>1, <2>2 DEF Moving, Locking
    <2> QED
        BY <1>1, <2>2, <2>3, <2>4 DEF Followed
<1> QED
    BY <1>1, <1>2, <1>3, <1>4, <1>6, PhaseKeeps DEF Locking

\* The write of all rows: those that are to be there, or the whole picture.
LEMMA WriteKeeps ==
    ASSUME HistoryInv, NEW s \in Series, Write(s)
    PROVE  HistoryInv'
<1> DEFINE rows == job[s].base \cup NewRows(s)
           ph == IF job[s].verify THEN "verifying" ELSE "marking"
           j == [job[s] EXCEPT !.base = rows, !.phase = ph]
           w == Task("write", s, rows)
<1>1. /\ job[s].phase = "writing" /\ queue' = Append(queue, w) /\ Advance(s, j)
      /\ UNCHANGED <<zone, lost, db, markers, snapshots, faults, committed, exposed, excused>>
    BY DEF Write
<1>2. /\ HistoryTypeOK /\ RowsPlausible /\ JobsFresh /\ LockHeld
      /\ job[s] \in Jobs /\ queue \in Seq(TaskType) /\ RowsOf(s)' = RowsOf(s)
    BY <1>1 DEF HistoryInv, HistoryTypeOK, TaskType, RowsOf
<1>3. /\ job[s].zone \in Zones \ lost /\ job[s].days \in SUBSET Days
    BY <1>1, <1>2 DEF JobsFresh, Jobs
<1>4. /\ NewRows(s) \subseteq Regular
      /\ \A d \in job[s].days : /\ Midnight(d, job[s].zone) \in NewRows(s)
                                /\ TrueDay(Midnight(d, job[s].zone)) = d
      /\ \A t \in NewRows(s) : At(t, job[s].zone)
    <2>1. job[s].days \in SUBSET (0..LastDay)
        BY <1>3, DayFacts
    <2> QED
        BY <1>3, <2>1, MidnightsOf DEF NewRows
<1>5. /\ rows \subseteq Plausible /\ rows \subseteq Starts /\ (s \notin excused =>
             rows \subseteq Regular)
      /\ job[s].base \subseteq rows
    BY <1>2, <1>4, PlausibleIs DEF RowsPlausible
<1>6. /\ AllAt(job[s].base, job[s].zone) => AllAt(rows, job[s].zone)
      /\ \A days : HoldsDays(job[s].base, days \ job[s].days) => HoldsDays(rows, days)
    BY <1>4 DEF AllAt, HoldsDays
<1> HIDE DEF rows
<1>7. /\ w \in TaskType /\ w.series = s /\ ~w.late /\ w.rows = rows /\ w.op = "write"
    BY <1>5 DEF Task, TaskType
<1>8. /\ j \in Jobs /\ j.phase = ph /\ j.base = rows /\ j.zone = job[s].zone
      /\ j.marks = job[s].marks /\ j.snaps = job[s].snaps /\ j.verify = job[s].verify
      /\ ph = (IF job[s].verify THEN "verifying" ELSE "marking")
    BY <1>2, <1>5 DEF Jobs, Phases
<1> HIDE DEF j, ph, w
<1>9. job' \in [Series -> Jobs] /\ job'[s] = j /\ \A u \in Series \ {s} : job'[u] = job[u]
    BY <1>1, <1>2, <1>8, JobAdvances
<1>10. s \notin excused => NoneQueued(s)
    BY <1>1 DEF HistoryInv, TasksAwaited
<1>11. Enqueues(s)
    BY <1>1, <1>5, <1>7, <1>10 DEF Enqueues
<1>12. OthersRest(s)
    BY <1>1, <1>2, <1>9, <1>11 DEF OthersRest, HistoryTypeOK
<1>13. LocksRight(s)
    BY <1>1, <1>2, <1>8, <1>9 DEF LocksRight, LockHeld, Locking
<1>14. ArrivesRight(s)
    BY <1>1, <1>2, <1>3, <1>5, <1>8, <1>9 DEF ArrivesRight, RowsPlausible
<1>15. ASSUME s \notin excused' PROVE Followed(s)'
    <2>1. s \notin excused /\ SumsRight(s)
        BY <1>1, <1>15, FollowedFacts
    <2>2. SumsRight(s)'
        BY <1>1, <1>2, <2>1 DEF SumsRight
    <2>3. /\ \A n \in DOMAIN queue' : queue'[n].series = s => queue'[n] = w
        BY <1>1, <1>2, <1>7, <1>10, <2>1, AppendTasks DEF NoneQueued
    <2>4. CASE snapshots[s] = NoSnapshot
        <3>1. /\ Merging(s) /\ job[s].base = RowsOf(s) /\ ~job[s].verify
              /\ AllAt(job[s].base, job[s].zone)
            BY <1>1, <2>1, <2>4, FollowedFacts DEF Merging
        <3>2. OneZone(s, job[s].zone)'
            BY <1>2, <1>5, <1>6, <1>7, <1>8, <1>9, <2>3, <3>1 DEF OneZone
        <3>3. job[s].zone \in Zones /\ job'[s].zone = job[s].zone
            BY <1>3, <1>8, <1>9
        <3>4. HoldsDays(RowsOf(s), committed[s] \ exposed[s])'
            BY <1>1, <1>2, <3>1 DEF Merging, HoldsDays
        <3>5. Merging(s)'
            BY <1>8, <1>9, <3>1, <3>2, <3>3, <3>4 DEF Merging
        <3> QED
            BY <1>1, <2>2, <2>4, <3>5 DEF Followed
    <2>5. CASE snapshots[s] # NoSnapshot
        <3>1. Moving(s) /\ snapshots[s].zone \in Zones
            BY <2>1, <2>5, FollowedFacts DEF Moving
        <3>2. /\ job[s].verify
              /\ AllAt(job[s].base, job[s].zone)
              /\ Offset[job[s].zone] = Offset[snapshots[s].zone]
              /\ HoldsDays(job[s].base, snapshots[s].days \ job[s].days)
              /\ \A t \in RowsOf(s) : At(t, snapshots[s].zone) => t \in job[s].base
            BY <1>1, <3>1 DEF Moving, Locking
        <3>3. AllAt(rows, job[s].zone) /\ HoldsDays(rows, snapshots[s].days)
            BY <1>6, <3>2
        <3>4. AllAt(rows, snapshots[s].zone)
            BY <1>3, <1>5, <3>1, <3>2, <3>3, SameOffset, StartsFinite DEF AllAt
        <3>5. /\ job'[s].phase = "verifying" /\ job'[s].verify /\ job'[s].base = rows
              /\ job'[s].zone = job[s].zone
            BY <1>8, <1>9, <3>2
        <3>6. \A n \in DOMAIN queue' : queue'[n].series = s => queue'[n].rows = rows
            BY <1>7, <2>3
        <3>7. \A t \in RowsOf(s) : At(t, snapshots[s].zone) => t \in rows
            BY <1>5, <3>2
        <3>8. Moving(s)'
            BY <1>1, <1>2, <3>1, <3>2, <3>3, <3>4, <3>5, <3>6, <3>7 DEF Moving
        <3> QED
            BY <1>1, <2>2, <2>5, <3>8 DEF Followed
    <2> QED
        BY <2>4, <2>5
<1> QED
    BY <1>12, <1>13, <1>14, <1>15, ImportKeeps DEF ImportMoves

\* Rows moved to another zone are of the days they had, as far as these are right.
LEMMA RekeyedFacts ==
    ASSUME NEW rows \in SUBSET Regular, NEW y \in Zones, NEW z \in Zones
    PROVE  /\ Rekeyed(rows, y, z) \subseteq Plausible
           /\ \A r \in Rekeyed(rows, y, z) : At(r, z) /\ DayOf(r, z) \in 0..LastDay
                                             /\ DayOf(r, z) = TrueDay(r)
           /\ AllAt(rows, y) =>
                /\ Rekeyed(rows, y, z) \subseteq Regular
                /\ \A t \in rows : \E r \in Rekeyed(rows, y, z) :
                                        TrueDay(r) = TrueDay(t) /\ r = Midnight(TrueDay(t), z)
                /\ \A r \in Rekeyed(rows, y, z) : \E t \in rows : TrueDay(r) = TrueDay(t)
<1>1. \A t \in rows : t \in Int /\ TrueDay(t) \in Days /\ DayOf(t, y) \in 0..LastDay
    <2>1. \A t \in rows : t \in Int /\ TrueDay(t) \in Days
        BY PlausibleIs
    <2> QED
        BY <2>1, DayOfNear
<1>2. ASSUME NEW t \in rows
      PROVE  LET r == Midnight(DayOf(t, y), z)
             IN  /\ r \in Starts /\ TrueDay(r) = DayOf(t, y) /\ DayOf(r, z) = DayOf(t, y)
                 /\ At(r, z)
    <2>1. DayOf(t, y) \in 0..LastDay /\ DayOf(t, y) \in Int
        BY <1>1, DayFacts
    <2> QED
        BY <2>1, MidnightStarts, MidnightDay, AtFacts
<1>3. \A t \in rows : AllAt(rows, y) => DayOf(t, y) = TrueDay(t)
    BY <1>1, AtFacts DEF AllAt
<1>4. \A r \in Rekeyed(rows, y, z) : \E t \in rows : r = Midnight(DayOf(t, y), z)
    BY DEF Rekeyed
<1>5. \A t \in rows : Midnight(DayOf(t, y), z) \in Rekeyed(rows, y, z)
    BY DEF Rekeyed
<1>6. \A r \in Rekeyed(rows, y, z) :
            r \in Plausible /\ At(r, z) /\ DayOf(r, z) \in 0..LastDay /\ DayOf(r, z) = TrueDay(r)
    BY <1>1, <1>2, <1>4 DEF Plausible
<1>7. ASSUME AllAt(rows, y)
      PROVE  /\ \A r \in Rekeyed(rows, y, z) :
                    r \in Regular /\ \E t \in rows : TrueDay(r) = TrueDay(t)
             /\ \A t \in rows : LET r == Midnight(DayOf(t, y), z)
                                IN  /\ r \in Rekeyed(rows, y, z) /\ TrueDay(r) = TrueDay(t)
                                    /\ r = Midnight(TrueDay(t), z)
    <2>1. \A t \in rows : LET r == Midnight(DayOf(t, y), z)
                          IN  /\ r \in Regular /\ TrueDay(r) = TrueDay(t)
                              /\ r = Midnight(TrueDay(t), z)
        BY <1>1, <1>2, <1>3, <1>7 DEF Regular
    <2> QED
        BY <1>4, <1>5, <2>1
<1> QED
    BY <1>6, <1>7

\* A migration saves all that it is about to clear.
LEMMA MigrateKeeps ==
    ASSUME HistoryInv, NEW s \in Series, Migrate(s)
    PROVE  HistoryInv'
<1> DEFINE rows == Rekeyed(job[s].base, job[s].previous, job[s].zone)
           days == Picture(job[s], rows)
           snaps == [job[s].snaps EXCEPT ![s] = [zone |-> job[s].zone, days |-> days]]
           j == [job[s] EXCEPT !.phase = "clearing", !.base = rows, !.snaps = snaps,
                               !.verify = TRUE]
           w == Task("clear", s, {})
<1>1. /\ job[s].phase = "deciding" /\ Moved(job[s]) /\ snapshots' = snaps /\ Advance(s, j)
      /\ queue' = Append(queue, w)
      /\ UNCHANGED <<zone, lost, db, markers, faults, committed, exposed, excused>>
    BY DEF Migrate
<1>2. /\ HistoryTypeOK /\ RowsPlausible /\ JobsFresh /\ LockHeld
      /\ job[s] \in Jobs /\ queue \in Seq(TaskType) /\ RowsOf(s)' = RowsOf(s)
      /\ snapshots \in [Series -> Migrations] /\ faults \in 0..MaxFaults
    BY <1>1 DEF HistoryInv, HistoryTypeOK, TaskType, RowsOf
<1>3. /\ job[s].zone \in Zones \ lost /\ job[s].days \in SUBSET Days
      /\ job[s].previous \in Zones \ lost /\ job[s].base # {}
      /\ Offset[job[s].previous] # Offset[job[s].zone]
      /\ job[s].base \subseteq Regular /\ job[s].snaps = snapshots /\ job[s].marks = markers
    BY <1>1, <1>2 DEF JobsFresh, Jobs, Moved, SameStarts, RowsPlausible, LockHeld, Locking
<1>4. /\ rows \subseteq Plausible /\ rows \subseteq Starts
      /\ \A r \in rows : At(r, job[s].zone) /\ DayOf(r, job[s].zone) \in 0..LastDay
                         /\ DayOf(r, job[s].zone) = TrueDay(r)
      /\ AllAt(job[s].base, job[s].previous) =>
            /\ rows \subseteq Regular
            /\ \A t \in job[s].base : \E r \in rows :
                    TrueDay(r) = TrueDay(t) /\ r = Midnight(TrueDay(t), job[s].zone)
            /\ \A r \in rows : \E t \in job[s].base : TrueDay(r) = TrueDay(t)
    <2>1. /\ job[s].base \in SUBSET Regular /\ job[s].previous \in Zones /\ job[s].zone \in Zones
        BY <1>3
    <2>2. Plausible \subseteq Starts
        BY PlausibleIs
    <2>3. rows \subseteq Plausible
        BY <2>1, RekeyedFacts
    <2>4. \A r \in rows : At(r, job[s].zone) /\ DayOf(r, job[s].zone) \in 0..LastDay
                         /\ DayOf(r, job[s].zone) = TrueDay(r)
        BY <2>1, RekeyedFacts
    <2>5. AllAt(job[s].base, job[s].previous) =>
            /\ rows \subseteq Regular
            /\ \A t \in job[s].base : \E r \in rows :
                    TrueDay(r) = TrueDay(t) /\ r = Midnight(TrueDay(t), job[s].zone)
            /\ \A r \in rows : \E t \in job[s].base : TrueDay(r) = TrueDay(t)
        BY <2>1, RekeyedFacts
    <2> HIDE DEF rows
    <2> QED
        BY <2>2, <2>3, <2>4, <2>5
<1> HIDE DEF rows
<1>5. /\ days \in SUBSET (0..LastDay)
      /\ \A r \in rows : TrueDay(r) \in days
      /\ \A d \in days : d \in job[s].days \/ \E r \in rows : TrueDay(r) = d
    <2>1. \A d \in days : d \in job[s].days \/ \E r \in rows : DayOf(r, job[s].zone) = d
        BY DEF Picture
    <2>2. \A r \in rows : DayOf(r, job[s].zone) \in days
        BY DEF Picture
    <2> HIDE DEF days
    <2> QED
        BY <1>3, <1>4, <2>1, <2>2, DayFacts
<1> HIDE DEF days
<1>6. [zone |-> job[s].zone, days |-> days] \in Migrations
    BY <1>3, <1>5 DEF Migrations
<1>7. /\ snaps \in [Series -> Migrations]
      /\ snaps[s] = [zone |-> job[s].zone, days |-> days]
      /\ \A u \in Series \ {s} : snaps[u] = snapshots[u]
    BY <1>2, <1>3, <1>6
<1> HIDE DEF snaps
<1>8. /\ j \in Jobs /\ j.phase = "clearing" /\ j.base = rows /\ j.zone = job[s].zone
      /\ j.marks = markers /\ j.snaps = snaps /\ j.verify /\ j.days = job[s].days
    BY <1>2, <1>3, <1>4, <1>7 DEF Jobs, Phases
<1>9. /\ w \in TaskType /\ w.series = s /\ ~w.late /\ w.rows = {} /\ w.op = "clear"
    BY DEF Task, TaskType
<1> HIDE DEF j, w
<1>10. job' \in [Series -> Jobs] /\ job'[s] = j /\ \A u \in Series \ {s} : job'[u] = job[u]
    BY <1>1, <1>2, <1>8, JobAdvances
<1>11. s \notin excused => NoneQueued(s)
    BY <1>1 DEF HistoryInv, TasksAwaited
<1>12. Enqueues(s)
    BY <1>1, <1>9, <1>11 DEF Enqueues
<1>13. OthersRest(s)
    <2>1. \A u \in Series \ {s} : snapshots'[u] = snapshots[u]
        BY <1>1, <1>7
    <2> QED
        BY <1>1, <1>2, <1>7, <1>10, <1>12, <2>1 DEF OthersRest, HistoryTypeOK
<1>14. LocksRight(s)
    BY <1>1, <1>8, <1>10 DEF LocksRight, Locking
<1>15. ASSUME s \notin excused PROVE AllAt(job[s].base, job[s].previous)
    <2>1. CASE snapshots[s] = NoSnapshot
        <3>1. /\ Merging(s) /\ job[s].base = RowsOf(s) /\ job[s].previous = markers[s]
            BY <1>1, <1>15, <2>1, FollowedFacts DEF Merging
        <3>2. PICK y \in Zones : OneZone(s, y)
            BY <3>1 DEF Merging
        <3>3. AllAt(job[s].base, y) /\ Offset[y] = Offset[job[s].previous]
            BY <1>1, <1>3, <3>1, <3>2, DayFacts DEF OneZone
        <3> QED
            BY <1>3, <3>3, PlausibleIs, SameOffset DEF AllAt
    <2>2. CASE snapshots[s] # NoSnapshot
        BY <1>1, <1>15, <2>2, FollowedFacts DEF Moving
    <2> QED
        BY <2>1, <2>2
<1>16. s \notin excused => rows \subseteq Regular /\ days \subseteq Days
    <2>1. s \notin excused => rows \subseteq Regular
        BY <1>4, <1>15
    <2> QED
        BY <1>3, <1>5, <2>1, PlausibleIs
<1>17. ArrivesRight(s)
    BY <1>1, <1>3, <1>4, <1>7, <1>8, <1>10, <1>16 DEF ArrivesRight
<1>18. ASSUME s \notin excused' PROVE Followed(s)'
    <2>1. /\ s \notin excused /\ SumsRight(s)
          /\ \A t \in job[s].base : \E r \in rows :
                    TrueDay(r) = TrueDay(t) /\ r = Midnight(TrueDay(t), job[s].zone)
        BY <1>1, <1>4, <1>15, <1>18, FollowedFacts
    <2>2. SumsRight(s)'
        BY <1>1, <1>2, <2>1 DEF SumsRight
    <2>3. \A n \in DOMAIN queue' : queue'[n].series = s => queue'[n].op = "clear"
        BY <1>1, <1>2, <1>9, <1>11, <2>1, AppendTasks DEF NoneQueued
    <2>4. \A t \in job[s].base : TrueDay(t) \in days
        BY <1>5, <2>1
    <2>5. /\ committed[s] \ exposed[s] \subseteq days
          /\ \A t \in RowsOf(s) : TrueDay(t) \in days \/ At(t, job[s].zone)
          /\ \A t \in RowsOf(s) : At(t, job[s].zone) => t \in rows
        <3>1. RowsOf(s) \subseteq Int
            BY <2>1, FollowedFacts, PlausibleIs
        <3>2. CASE snapshots[s] = NoSnapshot
            <4>1. job[s].base = RowsOf(s) /\ HoldsDays(RowsOf(s), committed[s] \ exposed[s])
                BY <1>1, <2>1, <3>2, FollowedFacts DEF Merging
            <4>2. \A t \in RowsOf(s) : ~At(t, job[s].zone)
                BY <1>3, <1>15, <2>1, <3>1, <4>1, SameOffset DEF AllAt
            <4> QED
                BY <2>4, <4>1, <4>2 DEF HoldsDays
        <3>3. CASE snapshots[s] # NoSnapshot
            <4>1. /\ committed[s] \ exposed[s] \subseteq snapshots[s].days
                  /\ HoldsDays(job[s].base, snapshots[s].days)
                  /\ \A t \in RowsOf(s) :
                         At(t, snapshots[s].zone) \/ TrueDay(t) \in snapshots[s].days
                  /\ \A t \in RowsOf(s) : At(t, snapshots[s].zone) => t \in job[s].base
                  /\ job[s].previous = snapshots[s].zone
                BY <1>1, <2>1, <3>3, FollowedFacts DEF Moving
            <4>2. snapshots[s].days \subseteq days
                BY <2>4, <4>1 DEF HoldsDays
            <4>3. \A t \in RowsOf(s) : At(t, job[s].zone) => TrueDay(t) \in snapshots[s].days
                BY <1>3, <3>1, <4>1, SameOffset
            <4>4. ASSUME NEW t \in RowsOf(s), At(t, job[s].zone) PROVE t \in rows
                <5>1. PICK u \in job[s].base : TrueDay(u) = TrueDay(t)
                    BY <4>1, <4>3, <4>4 DEF HoldsDays
                <5>2. t = Midnight(TrueDay(t), job[s].zone)
                    BY <4>4 DEF At
                <5> QED
                    BY <2>1, <5>1, <5>2
            <4>5. \A t \in RowsOf(s) : TrueDay(t) \in days
                BY <2>4, <4>1, <4>2
            <4> QED
                BY <4>1, <4>2, <4>4, <4>5
        <3> QED
            BY <3>2, <3>3
    <2>6. days # {}
        BY <1>3, <2>4
    <2>7. AllAt(rows, job[s].zone) /\ HoldsDays(rows, days \ job[s].days)
        BY <1>4, <1>5 DEF AllAt, HoldsDays
    <2>8. /\ snapshots'[s].zone = job[s].zone /\ snapshots'[s].days = days
          /\ snapshots'[s] # NoSnapshot
        BY <1>1, <1>3, <1>7, DayFacts DEF NoSnapshot
    <2>9. Moving(s)'
        BY <1>1, <1>2, <1>3, <1>8, <1>10, <2>3, <2>5, <2>6, <2>7, <2>8 DEF Moving, Locking
    <2> QED
        BY <2>2, <2>8, <2>9 DEF Followed
<1> QED
    BY <1>13, <1>14, <1>17, <1>18, ImportKeeps DEF ImportMoves

LEMMA MarkKeeps ==
    ASSUME HistoryInv, NEW s \in Series, Mark(s)
    PROVE  HistoryInv'
<1> DEFINE ph == IF job[s].verify /\ job[s].snaps[s] # NoSnapshot THEN "dropping" ELSE "draining"
           j == [job[s] EXCEPT !.phase = ph]
<1>1. /\ job[s].phase = "marking" /\ markers' = [job[s].marks EXCEPT ![s] = job[s].zone]
      /\ Advance(s, j)
      /\ UNCHANGED <<zone, lost, db, queue, snapshots, faults, committed, exposed, excused>>
    BY DEF Mark
<1>2. /\ HistoryTypeOK /\ RowsPlausible /\ JobsFresh /\ LockHeld
      /\ job[s] \in Jobs /\ RowsOf(s)' = RowsOf(s)
      /\ markers \in [Series -> Zones \cup {None}]
    BY <1>1 DEF HistoryInv, HistoryTypeOK, RowsOf
<1>3. /\ job[s].zone \in Zones \ lost /\ job[s].marks = markers /\ job[s].snaps = snapshots
      /\ Locking(s)
    BY <1>1, <1>2 DEF JobsFresh, LockHeld, Locking
<1>4. /\ j \in Jobs /\ j.phase = ph /\ j.base = job[s].base /\ j.zone = job[s].zone
      /\ j.marks = job[s].marks /\ j.snaps = job[s].snaps /\ j.verify = job[s].verify
      /\ ph = IF job[s].verify /\ snapshots[s] # NoSnapshot THEN "dropping" ELSE "draining"
    BY <1>2, <1>3 DEF Jobs, Phases
<1> HIDE DEF j, ph
<1>5. job' \in [Series -> Jobs] /\ job'[s] = j /\ \A u \in Series \ {s} : job'[u] = job[u]
    BY <1>1, <1>2, <1>4, JobAdvances
<1>6. /\ markers' \in [Series -> Zones \cup {None}] /\ markers'[s] = job[s].zone
      /\ \A u \in Series \ {s} : markers'[u] = markers[u]
    BY <1>1, <1>2, <1>3
<1>7. OthersRest(s)
    BY <1>1, <1>2, <1>5, <1>6 DEF OthersRest, HistoryTypeOK
<1>8. LocksRight(s)
    BY <1>1, <1>3, <1>4, <1>5 DEF LocksRight, Locking
<1>9. s \notin excused /\ job[s].verify => NoneQueued(s)'
    BY <1>1 DEF HistoryInv, TasksAwaited, NoneQueued
<1>10. ArrivesRight(s)
    BY <1>1, <1>2, <1>3, <1>4, <1>5, <1>9 DEF ArrivesRight, RowsPlausible
<1>11. ASSUME s \notin excused' PROVE Followed(s)'
    <2>1. s \notin excused /\ SumsRight(s)
        BY <1>1, <1>11, FollowedFacts
    <2>2. SumsRight(s)'
        BY <1>1, <1>2, <2>1 DEF SumsRight
    <2>3. CASE snapshots[s] = NoSnapshot
        <3>1. Merging(s) /\ ~job[s].verify
            BY <1>1, <2>1, <2>3, FollowedFacts DEF Merging
        <3>2. PICK y \in Zones : OneZone(s, y)
            BY <3>1 DEF Merging
        <3>3. OneZone(s, y)'
            BY <1>1, <1>2, <1>4, <1>5, <1>6, <3>1, <3>2 DEF OneZone
        <3>4. Merging(s)'
            BY <1>1, <1>2, <1>4, <1>5, <3>1, <3>3 DEF Merging
        <3> QED
            BY <1>1, <2>2, <2>3, <3>4 DEF Followed
    <2>4. CASE snapshots[s] # NoSnapshot
        <3>1. Moving(s) /\ job[s].verify
            BY <1>3, <2>1, <2>4, FollowedFacts DEF Moving
        <3>2. Moving(s)'
            BY <1>1, <1>2, <1>4, <1>5, <1>6, <2>4, <3>1 DEF Moving, Locking
        <3> QED
            BY <1>1, <2>2, <2>4, <3>2 DEF Followed
    <2> QED
        BY <2>3, <2>4
<1> QED
    BY <1>7, <1>8, <1>10, <1>11, ImportKeeps DEF ImportMoves

LEMMA DropSnapshotKeeps ==
    ASSUME HistoryInv, NEW s \in Series, DropSnapshot(s)
    PROVE  HistoryInv'
<1> DEFINE j == [job[s] EXCEPT !.phase = "draining"]
<1>1. /\ job[s].phase = "dropping" /\ snapshots' = [job[s].snaps EXCEPT ![s] = NoSnapshot]
      /\ exposed' = [exposed EXCEPT ![s] = @ \ {TrueDay(t) : t \in RowsOf(s)}]
      /\ Advance(s, j)
      /\ UNCHANGED <<zone, lost, db, queue, markers, faults, committed, excused>>
    BY DEF DropSnapshot
<1>2. /\ HistoryTypeOK /\ RowsPlausible /\ JobsFresh /\ LockHeld
      /\ job[s] \in Jobs /\ RowsOf(s)' = RowsOf(s) /\ snapshots \in [Series -> Migrations]
      /\ exposed \in [Series -> SUBSET (0..LastDay)]
    BY <1>1 DEF HistoryInv, HistoryTypeOK, RowsOf
<1>3. /\ job[s].zone \in Zones \ lost /\ job[s].snaps = snapshots /\ Locking(s)
    BY <1>1, <1>2 DEF JobsFresh, LockHeld, Locking
<1>4. /\ j \in Jobs /\ j.phase = "draining" /\ j.base = job[s].base /\ j.zone = job[s].zone
      /\ j.verify = job[s].verify
    BY <1>2 DEF Jobs, Phases
<1> HIDE DEF j
<1>5. job' \in [Series -> Jobs] /\ job'[s] = j /\ \A u \in Series \ {s} : job'[u] = job[u]
    BY <1>1, <1>2, <1>4, JobAdvances
<1>6. NoSnapshot \in Migrations /\ NoSnapshot.days = {}
    BY DEF Migrations, NoSnapshot
<1>7. /\ snapshots' \in [Series -> Migrations] /\ snapshots'[s] = NoSnapshot
      /\ \A u \in Series \ {s} : snapshots'[u] = snapshots[u]
    BY <1>1, <1>2, <1>3, <1>6
<1>8. /\ exposed' \in [Series -> SUBSET (0..LastDay)]
      /\ \A u \in Series \ {s} : exposed'[u] = exposed[u]
      /\ exposed'[s] = exposed[s] \ {TrueDay(t) : t \in RowsOf(s)}
    BY <1>1, <1>2
<1>9. OthersRest(s)
    BY <1>1, <1>2, <1>5, <1>7, <1>8 DEF OthersRest, HistoryTypeOK
<1>10. LocksRight(s)
    BY <1>3, <1>4, <1>5 DEF LocksRight, Locking
<1>11. ArrivesRight(s)
    BY <1>1, <1>2, <1>3, <1>4, <1>5, <1>6, <1>7 DEF ArrivesRight, RowsPlausible
<1>12. ASSUME s \notin excused' PROVE Followed(s)'
    <2>1. s \notin excused /\ SumsRight(s) /\ NoneQueued(s)
        BY <1>1, <1>12, FollowedFacts DEF HistoryInv, TasksAwaited
    <2>2. SumsRight(s)'
        BY <1>1, <1>2, <2>1 DEF SumsRight
    <2>3. snapshots[s] # NoSnapshot /\ Moving(s)
        BY <1>1, <2>1, FollowedFacts DEF Merging
    <2>4. /\ AllAt(RowsOf(s), job[s].zone) /\ markers[s] = job[s].zone
          /\ HoldsDays(RowsOf(s), snapshots[s].days)
          /\ committed[s] \ exposed[s] \subseteq snapshots[s].days
        BY <1>1, <2>3 DEF Moving
    <2>5. OneZone(s, job[s].zone)'
        BY <1>1, <1>2, <1>4, <1>5, <2>1, <2>4 DEF OneZone, NoneQueued
    <2>6. HoldsDays(RowsOf(s), committed[s] \ exposed'[s])
        <3>1. \A d \in committed[s] \ exposed'[s] :
                    d \in snapshots[s].days \/ \E t \in RowsOf(s) : TrueDay(t) = d
            BY <1>8, <2>4
        <3> QED
            BY <2>4, <3>1 DEF HoldsDays
    <2>7. job'[s].zone \in Zones /\ job'[s].zone = job[s].zone
        BY <1>3, <1>4, <1>5
    <2>8. Merging(s)'
        BY <1>1, <1>2, <1>4, <1>5, <2>5, <2>6, <2>7 DEF Merging
    <2> QED
        BY <1>7, <2>2, <2>8 DEF Followed
<1> QED
    BY <1>9, <1>10, <1>11, <1>12, ImportKeeps DEF ImportMoves

LEMMA ImportStepKeeps ==
    ASSUME HistoryInv, NEW s \in Series, ImportStep(s)
    PROVE  HistoryInv'
BY ResolveKeeps, LoadKeeps, ClearedKeeps, RefuseKeeps, MigrateKeeps, MergeKeeps, WriteKeeps,
   VerifyKeeps, MarkKeeps, DropSnapshotKeeps DEF ImportStep

-----------------------------------------------------------------------------
(* Steps of the recorder and around it                                     *)

\* A step that leaves the imports and the stores, and enqueues nothing new.
LEMMA RecorderKeeps ==
    ASSUME HistoryInv, UNCHANGED <<job, markers, snapshots, lost>>,
           zone' \in Zones \ lost, faults' \in 0..MaxFaults,
           excused \subseteq excused', excused' \subseteq Series,
           db' \in [Series -> [Starts -> 0..Cardinality(Starts)]],
           committed' \in [Series -> SUBSET (0..LastDay)],
           exposed' \in [Series -> SUBSET (0..LastDay)],
           queue' \in Seq(TaskType),
           \A n \in DOMAIN queue' :
                /\ queue'[n].late => queue'[n].series \in excused'
                /\ \E k \in DOMAIN queue : /\ queue[k].series = queue'[n].series
                                           /\ queue[k].rows = queue'[n].rows,
           \A u \in Series \ excused' : Single(u, queue'),
           \A u \in Series : \A t \in RowsOf(u)' :
                \/ t \in RowsOf(u)
                \/ \E k \in DOMAIN queue : queue[k].series = u /\ t \in queue[k].rows,
           \A u \in Series \ excused' : Followed(u)'
    PROVE  HistoryInv'
<1>1. /\ HistoryTypeOK /\ LockHeld /\ TasksAwaited /\ JobsFresh /\ RowsPlausible
    BY DEF HistoryInv
<1>2. HistoryTypeOK'
    BY <1>1 DEF HistoryTypeOK, TaskType
<1>3. LockHeld'
    BY <1>1 DEF LockHeld, Locking
<1>4. \A u \in Series : NoneQueued(u) => NoneQueued(u)'
    BY DEF NoneQueued
<1>5. TasksAwaited'
    BY <1>1, <1>4 DEF TasksAwaited, Single
<1>6. JobsFresh'
    BY <1>1 DEF JobsFresh
<1>7. RowsPlausible'
    <2> SUFFICES ASSUME NEW u \in Series
                 PROVE  /\ RowsOf(u)' \subseteq Plausible
                        /\ \A n \in DOMAIN queue' : queue'[n].series = u =>
                                queue'[n].rows \subseteq Plausible
                        /\ u \notin excused' \/ job'[u].phase \in {"fetching", "resolved"} =>
                             /\ RowsOf(u)' \subseteq Regular
                             /\ \A n \in DOMAIN queue' : queue'[n].series = u =>
                                    queue'[n].rows \subseteq Regular
        BY <1>1 DEF RowsPlausible
    <2>1. /\ RowsOf(u) \subseteq Plausible
          /\ \A n \in DOMAIN queue : queue[n].series = u => queue[n].rows \subseteq Plausible
        BY <1>1 DEF RowsPlausible
    <2>2. u \notin excused' \/ job'[u].phase \in {"fetching", "resolved"} =>
            /\ RowsOf(u) \subseteq Regular
            /\ \A n \in DOMAIN queue : queue[n].series = u => queue[n].rows \subseteq Regular
        BY <1>1 DEF RowsPlausible
    <2>3. RowsOf(u)' \subseteq Plausible
        <3> SUFFICES ASSUME NEW t \in RowsOf(u)' PROVE t \in Plausible
            OBVIOUS
        <3>1. \/ t \in RowsOf(u)
              \/ \E k \in DOMAIN queue : queue[k].series = u /\ t \in queue[k].rows
            OBVIOUS
        <3> QED
            BY <2>1, <3>1
    <2>4. \A n \in DOMAIN queue' : queue'[n].series = u => queue'[n].rows \subseteq Plausible
        BY <2>1
    <2>5. ASSUME u \notin excused' \/ job'[u].phase \in {"fetching", "resolved"}
          PROVE  /\ RowsOf(u)' \subseteq Regular
                 /\ \A n \in DOMAIN queue' : queue'[n].series = u =>
                        queue'[n].rows \subseteq Regular
        <3>1. RowsOf(u)' \subseteq Regular
            <4> SUFFICES ASSUME NEW t \in RowsOf(u)' PROVE t \in Regular
                OBVIOUS
            <4>1. \/ t \in RowsOf(u)
                  \/ \E k \in DOMAIN queue : queue[k].series = u /\ t \in queue[k].rows
                OBVIOUS
            <4> QED
                BY <2>2, <2>5, <4>1
        <3>2. ASSUME NEW n \in DOMAIN queue', queue'[n].series = u
              PROVE  queue'[n].rows \subseteq Regular
            <4>1. PICK k \in DOMAIN queue : /\ queue[k].series = queue'[n].series
                                            /\ queue[k].rows = queue'[n].rows
                OBVIOUS
            <4>2. queue[k].rows \subseteq Regular
                BY <2>2, <2>5, <3>2, <4>1
            <4> QED
                BY <4>1, <4>2
        <3> QED
            BY <3>1, <3>2
    <2> QED
        BY <2>3, <2>4, <2>5
<1> QED
    BY <1>2, <1>3, <1>5, <1>6, <1>7 DEF HistoryInv

\* What the queue is when its head has left.
LEMMA TailRests ==
    ASSUME HistoryInv, queue # <<>>, NEW q \in Seq(TaskType), q = Tail(queue)
    PROVE  /\ queue[1] = Head(queue) /\ 1 \in DOMAIN queue /\ Head(queue) \in TaskType
           /\ \A n \in DOMAIN q :
                /\ q[n].late => q[n].series \in excused
                /\ \E k \in DOMAIN queue : queue[k] = q[n]
           /\ \A u \in Series \ excused : Single(u, q)
           /\ \A u \in Series : TasksIn(u, q, queue)
           /\ \A u \in Series \ excused : u = Head(queue).series =>
                \A n \in DOMAIN q : q[n].series # u
<1>1. /\ queue \in Seq(TaskType)
      /\ \A n \in DOMAIN queue : queue[n].late => queue[n].series \in excused
      /\ \A u \in Series \ excused : Single(u, queue)
    BY DEF HistoryInv, HistoryTypeOK, TasksAwaited, Single, TaskType
<1>2. /\ Head(queue) = queue[1] /\ 1 \in DOMAIN queue /\ queue[1] \in TaskType
      /\ \A n \in DOMAIN q : n + 1 \in DOMAIN queue /\ q[n] = queue[n + 1] /\ n \in Nat
    BY <1>1, TailTasks
<1>3. \A n \in DOMAIN q : \E k \in DOMAIN queue : queue[k] = q[n]
    BY <1>2
<1>4. \A n \in DOMAIN q : q[n].late => q[n].series \in excused
    BY <1>1, <1>2
<1>5. ASSUME NEW u \in Series \ excused PROVE Single(u, q)
    <2>1. ASSUME NEW n \in DOMAIN q, NEW k \in DOMAIN q, q[n].series = u, q[k].series = u
          PROVE  n = k
        <3>1. n + 1 = k + 1
            BY <1>1, <1>2, <2>1 DEF Single
        <3> QED
            BY <1>2, <3>1
    <2> QED
        BY <2>1 DEF Single
<1>6. ASSUME NEW u \in Series \ excused, u = Head(queue).series, NEW n \in DOMAIN q
      PROVE  q[n].series # u
    <2>1. n + 1 # 1
        BY <1>2
    <2> QED
        BY <1>1, <1>2, <1>6, <2>1 DEF Single
<1> QED
    BY <1>2, <1>3, <1>4, <1>5, <1>6 DEF TasksIn

LEMMA TaskFailsKeeps ==
    ASSUME HistoryInv, TaskFails
    PROVE  HistoryInv'
<1>1. /\ HistoryTypeOK /\ JobsFresh /\ queue # <<>> /\ queue' = Tail(queue)
      /\ UNCHANGED <<zone, lost, db, markers, snapshots, job, committed, exposed, excused>>
    BY DEF HistoryInv, TaskFails
<1>2. queue' \in Seq(TaskType) /\ faults' \in 0..MaxFaults
    <2>1. queue \in Seq(TaskType)
        BY <1>1 DEF HistoryTypeOK, TaskType
    <2>2. faults' \in 0..MaxFaults
        BY <1>1, HistoryAssumption DEF HistoryTypeOK, TaskFails, Faulty
    <2> QED
        BY <1>1, <2>1, <2>2, TailTasks
<1>3. \A u \in Series \ excused : Followed(u)'
    <2> SUFFICES ASSUME NEW u \in Series \ excused PROVE Followed(u)'
        OBVIOUS
    <2>1. Untouched(u) /\ Followed(u)
        BY <1>1, <1>2, TailRests DEF Untouched, HistoryInv
    <2> QED
        BY <1>1, <2>1, UntouchedStays
<1>4. \A u \in Series : RowsOf(u)' = RowsOf(u)
    BY <1>1 DEF RowsOf
<1>5. /\ \A n \in DOMAIN queue' :
            /\ queue'[n].late => queue'[n].series \in excused'
            /\ \E k \in DOMAIN queue : queue[k].series = queue'[n].series
                                       /\ queue[k].rows = queue'[n].rows
      /\ \A u \in Series \ excused' : Single(u, queue')
    BY <1>1, <1>2, TailRests
<1>6. /\ zone' \in Zones \ lost /\ excused' \subseteq Series
      /\ db' \in [Series -> [Starts -> 0..Cardinality(Starts)]]
      /\ committed' \in [Series -> SUBSET (0..LastDay)]
      /\ exposed' \in [Series -> SUBSET (0..LastDay)]
    BY <1>1 DEF HistoryTypeOK, JobsFresh
<1> QED
    BY <1>1, <1>2, <1>3, <1>4, <1>5, <1>6, RecorderKeeps

LEMMA WritePutOffKeeps ==
    ASSUME HistoryInv, WritePutOff
    PROVE  HistoryInv'
<1> DEFINE w == [Head(queue) EXCEPT !.late = TRUE]
           q == Tail(queue)
<1>1. /\ HistoryTypeOK /\ JobsFresh /\ queue # <<>> /\ queue' = Append(q, w)
      /\ excused' = excused \cup {Head(queue).series}
      /\ UNCHANGED <<zone, lost, db, markers, snapshots, job, committed, exposed>>
    BY DEF HistoryInv, WritePutOff
<1>2. q \in Seq(TaskType) /\ faults' \in 0..MaxFaults /\ queue \in Seq(TaskType)
    <2>1. queue \in Seq(TaskType)
        BY <1>1 DEF HistoryTypeOK, TaskType
    <2>2. faults' \in 0..MaxFaults
        BY <1>1, HistoryAssumption DEF HistoryTypeOK, WritePutOff, Faulty
    <2> QED
        BY <1>1, <2>1, <2>2, TailTasks
<1>3. /\ queue[1] = Head(queue) /\ 1 \in DOMAIN queue /\ Head(queue) \in TaskType
      /\ \A n \in DOMAIN q :
            /\ q[n].late => q[n].series \in excused
            /\ \E k \in DOMAIN queue : queue[k] = q[n]
      /\ \A u \in Series \ excused : Single(u, q)
      /\ \A u \in Series : TasksIn(u, q, queue)
    BY <1>1, <1>2, TailRests
<1>4. /\ w \in TaskType /\ w.series = Head(queue).series /\ w.rows = Head(queue).rows
      /\ w.series \in Series
    BY <1>3 DEF TaskType
<1> HIDE DEF w, q
<1>5. /\ queue' \in Seq(TaskType)
      /\ DOMAIN queue' = DOMAIN q \cup {Len(q) + 1} /\ Len(q) + 1 \notin DOMAIN q
      /\ \A n \in DOMAIN q : queue'[n] = q[n]
      /\ queue'[Len(q) + 1] = w
    BY <1>1, <1>2, <1>4, AppendTasks
<1>6. /\ \A n \in DOMAIN queue' :
            /\ queue'[n].late => queue'[n].series \in excused'
            /\ \E k \in DOMAIN queue : queue[k].series = queue'[n].series
                                       /\ queue[k].rows = queue'[n].rows
      /\ \A u \in Series \ excused' : Single(u, queue') /\ TasksIn(u, queue', queue)
    <2>1. ASSUME NEW n \in DOMAIN queue'
          PROVE  /\ queue'[n].late => queue'[n].series \in excused'
                 /\ \E k \in DOMAIN queue : queue[k].series = queue'[n].series
                                            /\ queue[k].rows = queue'[n].rows
        <3>1. CASE n \in DOMAIN q
            BY <1>1, <1>3, <1>5, <3>1
        <3>2. CASE n = Len(q) + 1
            BY <1>1, <1>3, <1>4, <1>5, <3>2
        <3> QED
            BY <1>5, <3>1, <3>2
    <2>2. ASSUME NEW u \in Series \ excused'
          PROVE  Single(u, queue') /\ TasksIn(u, queue', queue)
        <3>1. \A n \in DOMAIN queue' : queue'[n].series = u => n \in DOMAIN q /\ queue'[n] = q[n]
            BY <1>1, <1>4, <1>5
        <3> QED
            BY <1>1, <1>3, <3>1 DEF Single, TasksIn
    <2> QED
        BY <2>1, <2>2
<1>7. \A u \in Series \ excused' : Followed(u)'
    <2> SUFFICES ASSUME NEW u \in Series \ excused' PROVE Followed(u)'
        OBVIOUS
    <2>1. Untouched(u) /\ Followed(u)
        BY <1>1, <1>6 DEF Untouched, HistoryInv
    <2> QED
        BY <1>1, <2>1, UntouchedStays
<1>8. \A u \in Series : RowsOf(u)' = RowsOf(u)
    BY <1>1 DEF RowsOf
<1>9. /\ zone' \in Zones \ lost /\ excused \subseteq excused' /\ excused' \subseteq Series
      /\ db' \in [Series -> [Starts -> 0..Cardinality(Starts)]]
      /\ committed' \in [Series -> SUBSET (0..LastDay)]
      /\ exposed' \in [Series -> SUBSET (0..LastDay)]
    BY <1>1, <1>4 DEF HistoryTypeOK, JobsFresh
<1> QED
    BY <1>1, <1>2, <1>5, <1>6, <1>7, <1>8, <1>9, RecorderKeeps

\* The rows of a task that has run.
LEMMA TaskDoneFacts ==
    ASSUME HistoryInv, TaskDone, NEW s \in Series, NEW task \in TaskType,
           s = Head(queue).series, task = Head(queue)
    PROVE  /\ \A u \in Series \ {s} : /\ db'[u] = db[u] /\ committed'[u] = committed[u]
                                      /\ exposed'[u] = exposed[u]
           /\ db' \in [Series -> [Starts -> 0..Cardinality(Starts)]]
           /\ committed' \in [Series -> SUBSET (0..LastDay)]
           /\ exposed' \in [Series -> SUBSET (0..LastDay)]
           /\ task.op = "clear" => RowsOf(s)' = {}
           /\ task.op = "write" =>
                /\ RowsOf(s)' = RowsOf(s) \cup task.rows
                /\ \A t \in task.rows : db'[s][t] = SumAt(task.rows, t)
                /\ \A t \in RowsOf(s) \ task.rows : db'[s][t] = db[s][t]
           /\ \A d \in committed'[s] : d \in committed[s] \/ \E t \in task.rows : TrueDay(t) = d
           /\ snapshots[s] = NoSnapshot => exposed'[s] = exposed[s]
           /\ snapshots[s] # NoSnapshot =>
                /\ exposed[s] \subseteq exposed'[s]
                /\ \A d \in committed'[s] \ exposed'[s] :
                        d \in committed[s] \/ d \in snapshots[s].days
           /\ task.op \in {"clear", "write"} /\ task.rows \subseteq Plausible
           /\ task.rows \subseteq Starts
<1> DEFINE days == {TrueDay(t) : t \in task.rows}
           written == [t \in Starts |->
                        IF task.op = "write" /\ t \in task.rows THEN SumAt(task.rows, t)
                        ELSE IF task.op = "write" THEN db[s][t] ELSE 0]
<1>1. /\ HistoryTypeOK /\ RowsPlausible /\ queue # <<>>
      /\ db' = [db EXCEPT ![s] = written]
      /\ committed' = [committed EXCEPT ![s] = @ \cup days]
      /\ exposed' = [exposed EXCEPT ![s] =
                        IF snapshots[s] = NoSnapshot THEN @
                        ELSE @ \cup (days \ (committed[s] \cup snapshots[s].days))]
    BY DEF HistoryInv, TaskDone
<1>2. /\ task.op \in {"clear", "write"} /\ task.rows \subseteq Starts
      /\ task.rows \subseteq Plausible
    <2>1. queue \in Seq(TaskType)
        BY <1>1 DEF HistoryTypeOK, TaskType
    <2>2. task = queue[1] /\ 1 \in DOMAIN queue
        BY <1>1, <2>1, TailTasks
    <2>3. task.rows \subseteq Plausible
        BY <1>1, <2>2 DEF RowsPlausible
    <2> QED
        BY <2>3 DEF TaskType
<1>3. /\ db \in [Series -> [Starts -> 0..Cardinality(Starts)]]
      /\ committed \in [Series -> SUBSET (0..LastDay)]
      /\ exposed \in [Series -> SUBSET (0..LastDay)]
    BY <1>1 DEF HistoryTypeOK
<1>4. /\ days \in SUBSET (0..LastDay)
      /\ \A d \in days : \E t \in task.rows : TrueDay(t) = d
    <2>1. \A t \in task.rows : TrueDay(t) \in 0..LastDay
        BY <1>2, PlausibleIs
    <2> QED
        BY <2>1
<1> HIDE DEF days
<1>5. written \in [Starts -> 0..Cardinality(Starts)]
    <2>1. /\ \A t \in Starts : SumAt(task.rows, t) \in 0..Cardinality(Starts)
          /\ \A t \in Starts : db[s][t] \in 0..Cardinality(Starts)
          /\ 0 \in 0..Cardinality(Starts)
        BY <1>2, <1>3, SumFacts, StartsFinite, FS_CardinalityType
    <2> QED
        BY <2>1
<1>6. \A t \in Starts : SumAt(task.rows, t) # 0 <=> t \in task.rows
    BY <1>2, SumFacts
<1>7. db'[s] = written
    BY <1>1, <1>3
<1>8. /\ RowsOf(s) = {t \in Starts : db[s][t] # 0}
      /\ RowsOf(s)' = {t \in Starts : written[t] # 0}
    BY <1>7 DEF RowsOf
<1>9. task.op = "clear" => RowsOf(s)' = {}
    BY <1>8
<1>10. task.op = "write" =>
            /\ RowsOf(s)' = RowsOf(s) \cup task.rows
            /\ \A t \in task.rows : db'[s][t] = SumAt(task.rows, t)
            /\ \A t \in RowsOf(s) \ task.rows : db'[s][t] = db[s][t]
    <2> SUFFICES ASSUME task.op = "write"
                 PROVE  /\ RowsOf(s)' = RowsOf(s) \cup task.rows
                        /\ \A t \in task.rows : db'[s][t] = SumAt(task.rows, t)
                        /\ \A t \in RowsOf(s) \ task.rows : db'[s][t] = db[s][t]
        OBVIOUS
    <2>1. \A t \in Starts : written[t] =
              IF t \in task.rows THEN SumAt(task.rows, t) ELSE db[s][t]
        OBVIOUS
    <2> HIDE DEF written
    <2> QED
        BY <1>2, <1>6, <1>7, <1>8, <2>1
<1>11. db' \in [Series -> [Starts -> 0..Cardinality(Starts)]]
    BY <1>1, <1>3, <1>5
<1> HIDE DEF written
<1>12. /\ committed' \in [Series -> SUBSET (0..LastDay)]
       /\ committed'[s] = committed[s] \cup days
       /\ \A u \in Series \ {s} : /\ db'[u] = db[u] /\ committed'[u] = committed[u]
                                  /\ exposed'[u] = exposed[u]
    BY <1>1, <1>3, <1>4
<1>13. /\ exposed' \in [Series -> SUBSET (0..LastDay)]
       /\ exposed'[s] = IF snapshots[s] = NoSnapshot THEN exposed[s]
                        ELSE exposed[s] \cup (days \ (committed[s] \cup snapshots[s].days))
    BY <1>1, <1>3, <1>4
<1> QED
    BY <1>2, <1>4, <1>9, <1>10, <1>11, <1>12, <1>13

\* The statistic whose task has run.
LEMMA TaskDoneFollowed ==
    ASSUME HistoryInv, TaskDone, NEW s \in Series, s \notin excused, s = Head(queue).series,
           queue' \in Seq(TaskType)
    PROVE  Followed(s)'
<1> DEFINE task == Head(queue)
<1>1. /\ queue # <<>> /\ queue' = Tail(queue)
      /\ UNCHANGED <<zone, lost, markers, snapshots, job, faults, excused>>
    BY DEF TaskDone
<1>2. /\ task \in TaskType /\ 1 \in DOMAIN queue /\ queue[1] = task /\ NoneQueued(s)'
    BY <1>1, TailRests DEF NoneQueued
<1>3. ~NoneQueued(s)
    BY <1>2 DEF NoneQueued
<1>4. /\ job[s].phase \notin {"resolved", "deciding", "writing", "dropping"}
      /\ ~(job[s].phase = "marking" /\ job[s].verify)
    BY <1>3 DEF HistoryInv, TasksAwaited
<1> DEFINE rows == task.rows
<1>5. /\ task.op = "clear" => RowsOf(s)' = {}
      /\ task.op = "write" =>
            /\ RowsOf(s)' = RowsOf(s) \cup rows
            /\ \A t \in rows : db'[s][t] = SumAt(rows, t)
            /\ \A t \in RowsOf(s) \ rows : db'[s][t] = db[s][t]
      /\ \A d \in committed'[s] : d \in committed[s] \/ \E t \in rows : TrueDay(t) = d
      /\ snapshots[s] = NoSnapshot => exposed'[s] = exposed[s]
      /\ snapshots[s] # NoSnapshot =>
            /\ exposed[s] \subseteq exposed'[s]
            /\ \A d \in committed'[s] \ exposed'[s] :
                    d \in committed[s] \/ d \in snapshots[s].days
      /\ task.op \in {"clear", "write"} /\ rows \subseteq Starts
    BY <1>2, TaskDoneFacts
<1> HIDE DEF task, rows
<1>6. rows \subseteq Int /\ RowsOf(s) \subseteq Int /\ SumsRight(s)
    BY <1>5, PlausibleIs, FollowedFacts
<1>7. CASE snapshots[s] = NoSnapshot
    <2>1. Merging(s)
        BY <1>7, FollowedFacts
    <2>2. PICK y \in Zones : OneZone(s, y)
        BY <2>1 DEF Merging
    <2>3. task.op = "write" /\ AllAt(rows, y) /\ RowsOf(s) \subseteq rows
        BY <1>2, <2>2 DEF OneZone, rows
    <2>4. /\ RowsOf(s)' = rows /\ \A t \in rows : db'[s][t] = SumAt(rows, t)
        BY <1>5, <2>3
    <2>5. SumsRight(s)'
        <3> SUFFICES ASSUME NEW z \in Zones, NEW t \in rows, At(t, z)
                     PROVE  db'[s][t] = SumAt({u \in rows : At(u, z)}, t)
            BY <2>4 DEF SumsRight
        <3>1. Offset[y] = Offset[z]
            BY <1>6, <2>3, SameOffset DEF AllAt
        <3>2. {u \in rows : At(u, z)} = rows
            BY <1>6, <2>3, <3>1, SameOffset DEF AllAt
        <3> QED
            BY <2>4, <3>2
    <2>6. OneZone(s, y)'
        BY <1>1, <1>2, <2>2, <2>3, <2>4 DEF OneZone, NoneQueued
    <2>7. HoldsDays(rows, committed'[s] \ exposed'[s])
        <3> SUFFICES ASSUME NEW d \in committed'[s] \ exposed[s]
                     PROVE  \E t \in rows : TrueDay(t) = d
            BY <1>5, <1>7 DEF HoldsDays
        <3>1. d \in committed[s] => \E t \in RowsOf(s) : TrueDay(t) = d
            BY <2>1 DEF Merging, HoldsDays
        <3> QED
            BY <1>5, <2>3, <3>1
    <2>8. Merging(s)'
        BY <1>1, <1>4, <2>1, <2>4, <2>6, <2>7 DEF Merging
    <2> QED
        BY <1>1, <1>7, <2>5, <2>8 DEF Followed
<1>8. CASE snapshots[s] # NoSnapshot
    <2>1. Moving(s) /\ snapshots[s].zone \in Zones
        BY <1>8, FollowedFacts DEF Moving
    <2>2. task.op = "write" =>
            /\ AllAt(rows, snapshots[s].zone)
            /\ \A t \in RowsOf(s) : At(t, snapshots[s].zone) => t \in rows
            /\ job[s].phase \notin {"reclearing", "clearing"}
        BY <1>2, <2>1 DEF Moving, rows
    <2>3. SumsRight(s)'
        <3>1. CASE task.op = "clear"
            BY <1>5, <3>1 DEF SumsRight
        <3>2. CASE task.op = "write"
            <4>1. RowsOf(s)' = RowsOf(s) \cup rows
                BY <1>5, <3>2
            <4> SUFFICES ASSUME NEW z \in Zones, NEW t \in RowsOf(s) \cup rows, At(t, z)
                         PROVE  db'[s][t] = SumAt({u \in RowsOf(s) \cup rows : At(u, z)}, t)
                BY <4>1 DEF SumsRight
            <4>2. CASE Offset[z] = Offset[snapshots[s].zone]
                <5>1. \A u \in RowsOf(s) \cup rows : At(u, z) <=> At(u, snapshots[s].zone)
                    BY <1>6, <2>1, <4>2, SameOffset
                <5>2. {u \in RowsOf(s) \cup rows : At(u, z)} = rows /\ t \in rows
                    BY <2>2, <3>2, <5>1 DEF AllAt
                <5> QED
                    BY <1>5, <3>2, <5>2
            <4>3. CASE Offset[z] # Offset[snapshots[s].zone]
                <5>1. ASSUME NEW u \in rows, At(u, z) PROVE FALSE
                    <6>1. At(u, snapshots[s].zone) /\ u \in Int
                        BY <1>6, <2>2, <3>2 DEF AllAt
                    <6> QED
                        BY <2>1, <4>3, <5>1, <6>1, SameOffset
                <5>2. /\ {u \in RowsOf(s) \cup rows : At(u, z)} = {u \in RowsOf(s) : At(u, z)}
                      /\ t \in RowsOf(s) \ rows
                    BY <5>1
                <5>3. db[s][t] = SumAt({u \in RowsOf(s) : At(u, z)}, t)
                    BY <1>6, <5>2 DEF SumsRight
                <5> QED
                    BY <1>5, <3>2, <5>2, <5>3
            <4> QED
                BY <4>2, <4>3
        <3> QED
            BY <1>5, <3>1, <3>2
    <2>4. /\ committed'[s] \ exposed'[s] \subseteq snapshots[s].days
          /\ \A t \in RowsOf(s)' : At(t, snapshots[s].zone) \/ TrueDay(t) \in snapshots[s].days
        <3>1. committed[s] \ exposed[s] \subseteq snapshots[s].days
            BY <2>1 DEF Moving
        <3>2. \A t \in RowsOf(s) : At(t, snapshots[s].zone) \/ TrueDay(t) \in snapshots[s].days
            BY <2>1 DEF Moving
        <3>3. committed'[s] \ exposed'[s] \subseteq snapshots[s].days
            BY <1>5, <1>8, <3>1
        <3> QED
            BY <1>5, <2>2, <3>2, <3>3 DEF AllAt
    <2>5. job[s].phase \notin {"deciding", "writing", "marking", "dropping", "resolved"}
        BY <1>4, <2>1 DEF Moving, Locking
    <2>6. job[s].phase \in {"reclearing", "clearing"} => RowsOf(s)' = {}
        BY <1>5, <2>2
    <2>7. Moving(s)'
        BY <1>1, <1>2, <2>1, <2>4, <2>5, <2>6 DEF Moving, Locking, NoneQueued
    <2> QED
        BY <1>1, <1>8, <2>3, <2>7 DEF Followed
<1> QED
    BY <1>7, <1>8

LEMMA TaskDoneKeeps ==
    ASSUME HistoryInv, TaskDone
    PROVE  HistoryInv'
<1>1. /\ HistoryTypeOK /\ JobsFresh /\ queue # <<>> /\ queue' = Tail(queue)
      /\ UNCHANGED <<zone, lost, markers, snapshots, job, faults, excused>>
    BY DEF HistoryInv, TaskDone
<1>2. queue' \in Seq(TaskType)
    <2>1. queue \in Seq(TaskType)
        BY <1>1 DEF HistoryTypeOK, TaskType
    <2> QED
        BY <1>1, <2>1, TailTasks
<1>3. /\ queue[1] = Head(queue) /\ 1 \in DOMAIN queue /\ Head(queue) \in TaskType
      /\ \A n \in DOMAIN queue' :
            /\ queue'[n].late => queue'[n].series \in excused'
            /\ \E k \in DOMAIN queue : queue[k].series = queue'[n].series
                                       /\ queue[k].rows = queue'[n].rows
      /\ \A u \in Series \ excused' : Single(u, queue')
      /\ \A u \in Series : TasksIn(u, queue', queue)
    BY <1>1, <1>2, TailRests
<1>4. PICK task \in TaskType : task = Head(queue)
    BY <1>3
<1>5. PICK s \in Series : s = Head(queue).series /\ s = task.series
    BY <1>4 DEF TaskType
<1>6. /\ \A u \in Series \ {s} : /\ db'[u] = db[u] /\ committed'[u] = committed[u]
                                 /\ exposed'[u] = exposed[u]
      /\ db' \in [Series -> [Starts -> 0..Cardinality(Starts)]]
      /\ committed' \in [Series -> SUBSET (0..LastDay)]
      /\ exposed' \in [Series -> SUBSET (0..LastDay)]
      /\ task.op = "clear" => RowsOf(s)' = {}
      /\ task.op = "write" => RowsOf(s)' = RowsOf(s) \cup task.rows
      /\ task.op \in {"clear", "write"}
    <2>1. \A u \in Series \ {s} : /\ db'[u] = db[u] /\ committed'[u] = committed[u]
                                 /\ exposed'[u] = exposed[u]
        BY <1>4, <1>5, TaskDoneFacts
    <2>2. /\ db' \in [Series -> [Starts -> 0..Cardinality(Starts)]]
          /\ committed' \in [Series -> SUBSET (0..LastDay)]
          /\ exposed' \in [Series -> SUBSET (0..LastDay)]
        BY <1>4, <1>5, TaskDoneFacts
    <2>3. /\ task.op = "clear" => RowsOf(s)' = {}
          /\ task.op = "write" => RowsOf(s)' = RowsOf(s) \cup task.rows
          /\ task.op \in {"clear", "write"}
        BY <1>4, <1>5, TaskDoneFacts
    <2> QED
        BY <2>1, <2>2, <2>3
<1>7. \A u \in Series \ {s} : RowsOf(u)' = RowsOf(u)
    BY <1>6 DEF RowsOf
<1>8. \A u \in Series : \A t \in RowsOf(u)' :
            \/ t \in RowsOf(u)
            \/ \E k \in DOMAIN queue : queue[k].series = u /\ t \in queue[k].rows
    <2> SUFFICES ASSUME NEW u \in Series, NEW t \in RowsOf(u)'
                 PROVE  \/ t \in RowsOf(u)
                        \/ \E k \in DOMAIN queue : queue[k].series = u /\ t \in queue[k].rows
        OBVIOUS
    <2>1. CASE u # s
        BY <1>7, <2>1
    <2>2. CASE u = s
        <3>1. t \in RowsOf(s) \/ t \in task.rows
            BY <1>6, <2>2
        <3> QED
            BY <1>3, <1>4, <1>5, <2>2, <3>1
    <2> QED
        BY <2>1, <2>2
<1>9. \A u \in Series \ excused' : Followed(u)'
    <2> SUFFICES ASSUME NEW u \in Series \ excused PROVE Followed(u)'
        BY <1>1
    <2>1. CASE u = s
        BY <1>2, <1>5, <2>1, TaskDoneFollowed
    <2>2. CASE u # s
        <3>1. Untouched(u) /\ Followed(u)
            BY <1>1, <1>3, <1>6, <2>2 DEF Untouched, HistoryInv
        <3> QED
            BY <1>1, <3>1, UntouchedStays
    <2> QED
        BY <2>1, <2>2
<1>10. zone' \in Zones \ lost /\ excused' \subseteq Series /\ faults' \in 0..MaxFaults
    BY <1>1 DEF HistoryTypeOK, JobsFresh
<1> QED
    BY <1>1, <1>2, <1>3, <1>6, <1>8, <1>9, <1>10, RecorderKeeps

\* Neither rows nor tasks nor imports are touched.
LEMMA ZoneKeeps ==
    ASSUME HistoryInv, zone' \in Zones \ lost, faults' \in 0..MaxFaults,
           UNCHANGED <<lost, db, queue, markers, snapshots, job, committed, exposed, excused>>
    PROVE  HistoryInv'
<1>1. HistoryTypeOK /\ TasksAwaited
    BY DEF HistoryInv
<1>2. /\ excused' \subseteq Series /\ queue' \in Seq(TaskType)
      /\ db' \in [Series -> [Starts -> 0..Cardinality(Starts)]]
      /\ committed' \in [Series -> SUBSET (0..LastDay)]
      /\ exposed' \in [Series -> SUBSET (0..LastDay)]
    BY <1>1 DEF HistoryTypeOK, TaskType
<1>3. /\ \A n \in DOMAIN queue' :
            /\ queue'[n].late => queue'[n].series \in excused'
            /\ \E k \in DOMAIN queue : queue[k].series = queue'[n].series
                                       /\ queue[k].rows = queue'[n].rows
      /\ \A u \in Series \ excused' : Single(u, queue')
    BY <1>1 DEF TasksAwaited, Single
<1>4. \A u \in Series : RowsOf(u)' = RowsOf(u)
    BY DEF RowsOf
<1>5. \A u \in Series \ excused' : Followed(u)'
    <2> SUFFICES ASSUME NEW u \in Series \ excused PROVE Followed(u)'
        OBVIOUS
    <2>1. Untouched(u) /\ Followed(u)
        BY DEF Untouched, TasksIn, HistoryInv
    <2> QED
        BY <2>1, UntouchedStays
<1> QED
    BY <1>2, <1>3, <1>4, <1>5, RecorderKeeps

LEMMA RecorderRestartKeeps ==
    ASSUME HistoryInv, NEW gone \in SUBSET Zones, RecorderRestart(gone)
    PROVE  HistoryInv'
<1>1. /\ HistoryTypeOK /\ LockHeld /\ JobsFresh /\ RowsPlausible
      /\ zone \notin gone /\ lost' = lost \cup gone /\ queue' = <<>>
      /\ job' = [s \in Series |-> NoJob]
      /\ excused' = excused \cup {s \in Series : Unmarked(s)}
      /\ UNCHANGED <<zone, db, markers, snapshots, committed, exposed>>
    BY DEF RecorderRestart, HistoryInv
<1>2. faults' \in 0..MaxFaults
    BY <1>1, HistoryAssumption DEF HistoryTypeOK, RecorderRestart, Faulty
<1>3. \A u \in Series : job'[u] = NoJob
    BY <1>1
<1>4. /\ NoJob \in Jobs /\ NoJob.phase = "idle" /\ NoJob.verify = FALSE /\ NoJob.base = {}
    BY NoJobFacts
<1>5. /\ queue' \in Seq(TaskType) /\ DOMAIN queue' = {}
    BY <1>1
<1>6. \A u \in Series : RowsOf(u)' = RowsOf(u)
    BY <1>1 DEF RowsOf
<1>7. HistoryTypeOK'
    BY <1>1, <1>2, <1>4, <1>5 DEF HistoryTypeOK, TaskType
<1>8. LockHeld'
    BY <1>3, <1>4 DEF LockHeld, Locking
<1>9. TasksAwaited'
    BY <1>3, <1>4, <1>5 DEF TasksAwaited, NoneQueued
<1>10. JobsFresh'
    BY <1>1, <1>3, <1>4 DEF JobsFresh
<1>11. RowsPlausible'
    BY <1>1, <1>3, <1>4, <1>5, <1>6 DEF RowsPlausible
<1>12. ASSUME NEW u \in Series \ excused' PROVE Followed(u)'
    <2>1. /\ ~Unmarked(u) /\ Followed(u) /\ Untouched(u)
        BY <1>1, <1>5 DEF HistoryInv, Untouched, TasksIn
    <2> QED
        BY <1>3, <1>4, <2>1, LooseStays
<1> QED
    BY <1>7, <1>8, <1>9, <1>10, <1>11, <1>12 DEF HistoryInv

LEMMA HistoryInits ==
    ASSUME HistoryInit
    PROVE  HistoryInv
<1>1. PICK z \in Zones, ds \in SUBSET Days :
            /\ db = [s \in Series |->
                        [t \in Starts |-> SumAt({Midnight(d, z) : d \in ds}, t)]]
            /\ markers \in [Series -> {z, None}]
            /\ committed = [s \in Series |-> ds]
    BY DEF HistoryInit
<1>2. /\ zone \in Zones /\ lost = {} /\ queue = <<>> /\ faults = 0 /\ excused = {}
      /\ snapshots = [s \in Series |-> NoSnapshot] /\ job = [s \in Series |-> NoJob]
      /\ exposed = [s \in Series |-> {}]
    BY DEF HistoryInit
<1> DEFINE rows == {Midnight(d, z) : d \in ds}
<1>3. /\ ds \in SUBSET (0..LastDay) /\ rows \subseteq Regular /\ rows \subseteq Starts
      /\ rows \subseteq Plausible /\ rows \subseteq Int
      /\ AllAt(rows, z) /\ HoldsDays(rows, ds)
    <2>1. ds \in SUBSET (0..LastDay)
        BY DayFacts
    <2>2. /\ rows \subseteq Regular
          /\ \A d \in ds : TrueDay(Midnight(d, z)) = d /\ At(Midnight(d, z), z)
        BY <2>1, MidnightsOf
    <2>3. AllAt(rows, z) /\ HoldsDays(rows, ds)
        BY <2>2 DEF AllAt, HoldsDays
    <2> HIDE DEF rows
    <2> QED
        BY <2>1, <2>2, <2>3, PlausibleIs
<1>4. /\ \A s \in Series, t \in Starts : db[s][t] = SumAt(rows, t)
      /\ db = [s \in Series |-> [t \in Starts |-> SumAt(rows, t)]]
    BY <1>1
<1> HIDE DEF rows
<1>5. \A t \in Starts : /\ SumAt(rows, t) \in 0..Cardinality(Starts)
                        /\ SumAt(rows, t) # 0 <=> t \in rows
    BY <1>3, SumFacts
<1>6. \A s \in Series : RowsOf(s) = rows
    BY <1>3, <1>4, <1>5 DEF RowsOf
<1>7. \A s \in Series : /\ job[s] = NoJob /\ snapshots[s] = NoSnapshot /\ exposed[s] = {}
                        /\ committed[s] = ds /\ markers[s] \in {z, None}
    BY <1>1, <1>2
<1>8. /\ NoJob \in Jobs /\ NoJob.phase = "idle" /\ NoJob.verify = FALSE /\ NoJob.base = {}
      /\ NoSnapshot \in Migrations /\ NoSnapshot.days = {}
    BY NoJobFacts DEF NoSnapshot, Migrations
<1>9. queue \in Seq(TaskType) /\ DOMAIN queue = {}
    BY <1>2
<1>10. HistoryTypeOK
    <2>1. db \in [Series -> [Starts -> 0..Cardinality(Starts)]]
        BY <1>4, <1>5
    <2>2. markers \in [Series -> Zones \cup {None}]
        BY <1>1
    <2>3. faults \in 0..MaxFaults
        BY <1>2, HistoryAssumption
    <2>4. committed \in [Series -> SUBSET (0..LastDay)]
        BY <1>1, <1>3
    <2> QED
        BY <1>2, <1>8, <1>9, <2>1, <2>2, <2>3, <2>4 DEF HistoryTypeOK, TaskType
<1>11. LockHeld
    BY <1>7, <1>8 DEF LockHeld, Locking
<1>12. TasksAwaited
    BY <1>7, <1>8, <1>9 DEF TasksAwaited, NoneQueued
<1>13. JobsFresh
    BY <1>2, <1>7, <1>8 DEF JobsFresh
<1>14. RowsPlausible
    BY <1>3, <1>6, <1>7, <1>8, <1>9 DEF RowsPlausible
<1>15. ASSUME NEW s \in Series PROVE Followed(s)
    <2>1. SumsRight(s)
        <3> SUFFICES ASSUME NEW y \in Zones, NEW t \in rows, At(t, y)
                     PROVE  db[s][t] = SumAt({u \in rows : At(u, y)}, t)
            BY <1>6 DEF SumsRight
        <3>1. Offset[y] = Offset[z]
            BY <1>3, SameOffset DEF AllAt
        <3>2. {u \in rows : At(u, y)} = rows
            BY <1>3, <3>1, SameOffset DEF AllAt
        <3> QED
            BY <1>3, <1>4, <3>2
    <2>2. OneZone(s, z)
        BY <1>3, <1>6, <1>7, <1>8, <1>9 DEF OneZone
    <2>3. HoldsDays(RowsOf(s), committed[s] \ exposed[s])
        BY <1>3, <1>6, <1>7 DEF HoldsDays
    <2>4. Merging(s)
        BY <1>7, <1>8, <2>2, <2>3 DEF Merging
    <2> QED
        BY <1>7, <2>1, <2>4 DEF Followed
<1> QED
    BY <1>10, <1>11, <1>12, <1>13, <1>14, <1>15 DEF HistoryInv

LEMMA HistoryInvariant == HistorySpec => []HistoryInv
<1>1. HistoryInit => HistoryInv
    BY HistoryInits
<1>2. ASSUME HistoryInv, [HistoryNext]_historyVars PROVE HistoryInv'
    <2>1. ASSUME NEW s \in Series, NEW ds \in SUBSET Days, Start(s, ds) PROVE HistoryInv'
        BY <1>2, <2>1, StartKeeps
    <2>2. ASSUME NEW s \in Series, ImportStep(s) PROVE HistoryInv'
        BY <1>2, <2>2, ImportStepKeeps
    <2>3. ASSUME NEW s \in Series, ImportCancelled(s) PROVE HistoryInv'
        BY <1>2, <2>3, ImportCancelledKeeps
    <2>4. ASSUME NEW z \in Zones, ZoneChanges(z) PROVE HistoryInv'
        <3>1. z \notin lost /\ zone' = z /\ faults' \in 0..MaxFaults
            BY <1>2, <2>4, HistoryAssumption
            DEF HistoryInv, HistoryTypeOK, ZoneChanges, Faulty
        <3> QED
            BY <1>2, <2>4, <3>1, ZoneKeeps DEF ZoneChanges
    <2>5. ASSUME NEW gone \in SUBSET Zones, RecorderRestart(gone) PROVE HistoryInv'
        BY <1>2, <2>5, RecorderRestartKeeps
    <2>6. CASE UNCHANGED historyVars
        BY <1>2, <2>6, ZoneKeeps DEF historyVars, HistoryInv, HistoryTypeOK, JobsFresh
    <2> QED
        BY <1>2, <2>1, <2>2, <2>3, <2>4, <2>5, <2>6,
           TaskDoneKeeps, TaskFailsKeeps, WritePutOffKeeps DEF HistoryNext
<1> QED
    BY <1>1, <1>2, PTL DEF HistorySpec

\* Whatever fails, is cancelled or cut off, and however the zone changes: a
\* settled statistic has one row a day, at the midnight of its marker's zone,
\* and its sums count the rows (async_import_history).
THEOREM HistoryAlwaysSound == HistorySpec => []SeriesSound
<1>1. ASSUME HistoryInv PROVE SeriesSound
    <2> SUFFICES ASSUME NEW s \in Series, Settled(s), s \notin excused
                 PROVE  /\ \A t, u \in RowsOf(s) : TrueDay(t) = TrueDay(u) => t = u
                        /\ markers[s] # None => Aligned(RowsOf(s), markers[s]) = RowsOf(s)
                        /\ \A t \in Starts : db[s][t] = SumAt(RowsOf(s), t)
        BY <1>1 DEF SeriesSound, HistoryInv
    <2>1. SumsRight(s) /\ Merging(s) /\ RowsOf(s) \subseteq Int
        BY <1>1, FollowedFacts, PlausibleIs DEF Settled
    <2>2. PICK y \in Zones : OneZone(s, y)
        BY <2>1 DEF Merging
    <2>3. AllAt(RowsOf(s), y)
        BY <2>2 DEF OneZone
    <2>4. \A t, u \in RowsOf(s) : TrueDay(t) = TrueDay(u) => t = u
        BY <2>3 DEF AllAt, At
    <2>5. ASSUME markers[s] # None PROVE Aligned(RowsOf(s), markers[s]) = RowsOf(s)
        <3>1. Offset[y] = Offset[markers[s]] /\ markers[s] \in Zones
            BY <1>1, <2>2, <2>5 DEF OneZone, Settled, HistoryInv, HistoryTypeOK
        <3>2. AllAt(RowsOf(s), markers[s])
            BY <2>1, <2>3, <3>1, SameOffset DEF AllAt
        <3>3. RowsOf(s) \in SUBSET Starts
            BY DEF RowsOf
        <3>4. \A t \in RowsOf(s) : t \in Aligned(RowsOf(s), markers[s])
            BY <3>1, <3>2, <3>3, AlignedIs DEF AllAt
        <3>5. Aligned(RowsOf(s), markers[s]) \subseteq RowsOf(s)
            BY <3>1, <3>3, AlignedIs
        <3> QED
            BY <3>4, <3>5
    <2>6. ASSUME NEW t \in Starts PROVE db[s][t] = SumAt(RowsOf(s), t)
        <3>1. CASE t \in RowsOf(s)
            <4>1. {u \in RowsOf(s) : At(u, y)} = RowsOf(s)
                BY <2>3 DEF AllAt
            <4>2. db[s][t] = SumAt({u \in RowsOf(s) : At(u, y)}, t)
                BY <2>1, <2>3, <3>1 DEF SumsRight, AllAt
            <4> QED
                BY <4>1, <4>2
        <3>2. CASE t \notin RowsOf(s)
            BY <3>2 DEF RowsOf, SumAt
        <3> QED
            BY <3>1, <3>2
    <2> QED
        BY <2>4, <2>5, <2>6
<1> QED
    BY <1>1, HistoryInvariant, PTL

\* No day once committed leaves both the database and the snapshot, between a
\* clear and the write that follows it, or when one of them fails
\* (async_import_history, _load_pending_migration).
THEOREM DaysAlwaysKept == HistorySpec => []DaysKept
<1>1. ASSUME HistoryInv PROVE DaysKept
    <2> SUFFICES ASSUME NEW s \in Series \ excused,
                        NEW d \in committed[s] \ exposed[s]
                 PROVE  d \in DaysOf(s)
        BY DEF DaysKept
    <2>1. CASE snapshots[s] = NoSnapshot
        BY <1>1, <2>1, FollowedFacts DEF Merging, HoldsDays, DaysOf
    <2>2. CASE snapshots[s] # NoSnapshot
        BY <1>1, <2>2, FollowedFacts DEF Moving, DaysOf
    <2> QED
        BY <2>1, <2>2
<1> QED
    BY <1>1, HistoryInvariant, PTL

================================================================================
