---------------------------- MODULE HistoryImport ----------------------------
(***************************************************************************)
(* The service that imports past daily energies into the recorder's        *)
(* long-term statistics (history_import.py): one row per day, at the local *)
(* midnight of the zone the statistic is written under, with a running sum *)
(* over all rows.  When that zone changes, every row is moved: the new     *)
(* rows are saved as a snapshot, the statistic is cleared, written again   *)
(* and compared, and only then the zone's marker advances and the snapshot *)
(* goes.  The recorder's calls only enqueue; a task may fail there unseen. *)
(* Every day has the energy 1, so that a sum counts rows.                  *)
(***************************************************************************)
EXTENDS Integers, FiniteSets, Sequences

CONSTANTS
    Series,         \* statistics, one per plant; imports of a plant take turns
    LastDay,        \* days are 1..LastDay
    Zones,          \* time zones
    Offset,         \* how long after the UTC day each zone's day begins
    DayLength,      \* in the unit of Offset
    None,           \* no marker
    MaxFaults       \* bound on crashes, cancellations, failed tasks and zone changes

ASSUME HistoryAssumption ==
    /\ LastDay \in Nat /\ DayLength \in Nat \ {0} /\ MaxFaults \in Nat
    /\ Offset \in [Zones -> 0..(DayLength - 1)]
    /\ None \notin Zones

VARIABLES
    zone,           \* _resolve_statistics_timezone(): the zone in force
    lost,           \* zones that the database of zones no longer has
    db,             \* the committed rows: the sum at each start, 0 for no row
    queue,          \* the recorder's tasks
    markers,        \* the marker store: the zone of each statistic
    snapshots,      \* the migration store: days and zone, or NoSnapshot
    job,            \* the import of each plant
    faults,         \* faults so far
    committed,      \* history: the days that ever had a row
    exposed,        \* history: ... of them, those whose only row was written by
                    \* the retry of a migration, which does not save a snapshot
    excused         \* history: statistics with a write that the recorder put off or a
                    \* snapshot whose zone was lost (the documented limits), or with an
                    \* import cut off before it replaced the marker of a former zone

historyVars == <<zone, lost, db, queue, markers, snapshots, job, faults, committed, exposed,
                 excused>>

Days == 1..LastDay

Starts == 0..((LastDay + 1) * DayLength)

NoSnapshot == [zone |-> None, days |-> {}]

Migrations == [zone : Zones, days : SUBSET (0..LastDay)] \cup {NoSnapshot}

Phases == {"idle", "fetching", "resolved", "reclearing", "deciding", "clearing", "writing",
           "verifying", "marking", "dropping", "draining"}

NoJob == [phase |-> "idle", days |-> {}, zone |-> None, base |-> {}, previous |-> None,
          verify |-> FALSE, marks |-> [s \in Series |-> None],
          snaps |-> [s \in Series |-> NoSnapshot]]

Jobs == [phase : Phases, days : SUBSET Days, zone : Zones \cup {None}, base : SUBSET Starts,
         previous : Zones \cup {None}, verify : BOOLEAN,
         marks : [Series -> Zones \cup {None}], snaps : [Series -> Migrations]]

-----------------------------------------------------------------------------
(* Days and starts                                                         *)

\* datetime(day, tzinfo = z) in UTC.
Midnight(d, z) == d * DayLength + Offset[z]

\* start.astimezone(z).date()
DayOf(t, z) == (t - Offset[z]) \div DayLength

\* The day a row was written for: with no zone more than a day from UTC.
TrueDay(t) == t \div DayLength

\* _existing_rows_aligned_to_tz()
Aligned(rows, z) == {t \in rows : t = Midnight(DayOf(t, z), z)}

\* _tz_produces_same_utc_starts()
SameStarts(y, z) == Offset[y] = Offset[z]

\* _rekey_rows_to_new_tz()
Rekeyed(rows, from, to) == {Midnight(DayOf(t, from), to) : t \in rows}

RowsOf(s) == {t \in Starts : db[s][t] # 0}

\* _build_statistics(): the running sum over the rows in order.
SumAt(rows, t) == IF t \in rows THEN Cardinality({u \in rows : u <= t}) ELSE 0

HistoryTypeOK ==
    /\ zone \in Zones /\ lost \subseteq Zones
    /\ db \in [Series -> [Starts -> 0..Cardinality(Starts)]]
    /\ queue \in Seq([op : {"clear", "write"}, series : Series, rows : SUBSET Starts,
                      late : BOOLEAN])
    /\ markers \in [Series -> Zones \cup {None}]
    /\ snapshots \in [Series -> Migrations]
    /\ job \in [Series -> Jobs]
    /\ faults \in 0..MaxFaults
    /\ {committed, exposed} \subseteq [Series -> SUBSET (0..LastDay)]
    /\ excused \subseteq Series

\* A statistic may have rows of an earlier import, with its marker or from the
\* time before there were markers.
HistoryInit ==
    /\ zone \in Zones
    /\ lost = {}
    /\ \E z \in Zones, ds \in SUBSET Days :
        /\ db = [s \in Series |->
                    [t \in Starts |-> SumAt({Midnight(d, z) : d \in ds}, t)]]
        /\ markers \in [Series -> {z, None}]
        /\ committed = [s \in Series |-> ds]
    /\ queue = <<>>
    /\ snapshots = [s \in Series |-> NoSnapshot]
    /\ job = [s \in Series |-> NoJob]
    /\ faults = 0
    /\ exposed = [s \in Series |-> {}]
    /\ excused = {}

-----------------------------------------------------------------------------
(* The recorder                                                            *)

Task(op, s, rows) == [op |-> op, series |-> s, rows |-> rows, late |-> FALSE]

\* async_block_till_done() returns; it does not wait for a task that was put
\* back into the queue behind it.
Flushed == \A n \in DOMAIN queue : queue[n].late

Faulty == faults < MaxFaults /\ faults' = faults + 1

\* A task runs: a clear takes every row, a write upserts.
TaskDone ==
    /\ queue # <<>>
    /\ LET task == Head(queue)
           s == task.series
           days == {TrueDay(t) : t \in task.rows}
       IN  /\ db' = [db EXCEPT ![s] = [t \in Starts |->
                        IF task.op = "write" /\ t \in task.rows THEN SumAt(task.rows, t)
                        ELSE IF task.op = "write" THEN @[t] ELSE 0]]
           /\ committed' = [committed EXCEPT ![s] = @ \cup days]
           /\ exposed' = [exposed EXCEPT ![s] =
                IF snapshots[s] = NoSnapshot THEN @
                ELSE @ \cup (days \ (committed[s] \cup snapshots[s].days))]
    /\ queue' = Tail(queue)
    /\ UNCHANGED <<zone, lost, markers, snapshots, job, faults, excused>>

\* A task fails; nobody is told.
TaskFails ==
    /\ queue # <<>>
    /\ Faulty
    /\ queue' = Tail(queue)
    /\ UNCHANGED <<zone, lost, db, markers, snapshots, job, committed, exposed, excused>>

\* A write meets a locked database and queues itself again.
WritePutOff ==
    /\ queue # <<>> /\ Head(queue).op = "write"
    /\ Faulty
    /\ queue' = Append(Tail(queue), [Head(queue) EXCEPT !.late = TRUE])
    /\ excused' = excused \cup {Head(queue).series}
    /\ UNCHANGED <<zone, lost, db, markers, snapshots, job, committed, exposed>>

-----------------------------------------------------------------------------
(* An import                                                               *)

Advance(s, j) == job' = [job EXCEPT ![s] = j]

\* The lock of the plant is taken and the recorder's queue left to drain; the
\* cloud will report some days.  Bound: an excused statistic is not followed
\* into its next import.
Start(s, ds) ==
    /\ job[s].phase = "idle" /\ s \notin excused
    /\ Advance(s, [NoJob EXCEPT !.phase = "fetching", !.days = ds])
    /\ UNCHANGED <<zone, lost, db, queue, markers, snapshots, faults, committed, exposed,
                   excused>>

\* The days are fetched.  The zone is resolved before the wait for the lock.
Resolve(s) ==
    /\ job[s].phase = "fetching"
    /\ Flushed
    /\ Advance(s, [job[s] EXCEPT !.phase = "resolved", !.zone = zone])
    /\ UNCHANGED <<zone, lost, db, queue, markers, snapshots, faults, committed, exposed,
                   excused>>

\* Mutant of MarkerLockFree: two imports load and save the stores side by side.
NoMarkerLock == TRUE

\* _TZ_MARKER_LOCK, which the imports of all plants share.
MarkerLockFree ==
    \A s \in Series : job[s].phase \in {"idle", "fetching", "resolved", "draining"}

\* Mutant of Trusted: whatever the database holds is merged with the snapshot.
TrustAll(rows, z) == rows

\* Of the rows in the database an interrupted migration keeps its own only.
Trusted(rows, z) == Aligned(rows, z)

\* Mutant of LeftBehind: the retry of a migration does not clear again.
NothingLeft(rows, own) == FALSE

\* Rows of the old zone are still there.
LeftBehind(rows, own) == own # rows

\* Both stores and the rows are loaded.  An interrupted migration goes on from
\* its snapshot; when rows of the old zone are still there their clear has
\* failed, and it is issued again.
Load(s) ==
    /\ job[s].phase = "resolved"
    /\ MarkerLockFree
    /\ LET loaded == [job[s] EXCEPT !.phase = "deciding", !.marks = markers,
                                    !.snaps = snapshots]
           snap == snapshots[s]
           own == Trusted(RowsOf(s), snap.zone)
           left == LeftBehind(RowsOf(s), own)
       IN  IF snap = NoSnapshot \/ snap.zone \in lost
           THEN /\ Advance(s, [loaded EXCEPT !.base = RowsOf(s), !.previous = markers[s]])
                /\ excused' = IF snap = NoSnapshot THEN excused ELSE excused \cup {s}
                /\ UNCHANGED queue
           ELSE /\ Advance(s, [loaded EXCEPT
                        !.base = {Midnight(d, snap.zone) : d \in snap.days} \cup own,
                        !.previous = snap.zone, !.verify = TRUE,
                        !.phase = IF left THEN "reclearing" ELSE "deciding"])
                /\ queue' = IF left THEN Append(queue, Task("clear", s, {})) ELSE queue
                /\ UNCHANGED excused
    /\ UNCHANGED <<zone, lost, db, markers, snapshots, faults, committed, exposed>>

Cleared(s) ==
    /\ job[s].phase \in {"reclearing", "clearing"}
    /\ Flushed
    /\ Advance(s, [job[s] EXCEPT
            !.phase = IF @ = "reclearing" THEN "deciding" ELSE "writing"])
    /\ UNCHANGED <<zone, lost, db, queue, markers, snapshots, faults, committed, exposed,
                   excused>>

NewRows(s) == {Midnight(d, job[s].zone) : d \in job[s].days}

\* Rows that cannot be moved, or not be told from others, are left alone: the
\* service raises.
Refused(j) ==
    /\ j.base # {}
    /\ \/ j.previous = None /\ Aligned(j.base, j.zone) # j.base
       \/ j.previous # None /\ j.previous # j.zone /\ j.previous \in lost

\* The zone has changed so that midnight has moved.
Moved(j) ==
    /\ j.base # {} /\ j.previous \notin {None, j.zone} \cup lost
    /\ ~SameStarts(j.previous, j.zone)

Refuse(s) ==
    /\ job[s].phase = "deciding" /\ Refused(job[s])
    /\ Advance(s, NoJob)
    /\ UNCHANGED <<zone, lost, db, queue, markers, snapshots, faults, committed, exposed,
                   excused>>

\* The complete intended picture.
Picture(j, rows) == {DayOf(t, j.zone) : t \in rows} \cup j.days

\* A migration: every row is moved, the snapshot saved, the clear enqueued.
Migrate(s) ==
    /\ job[s].phase = "deciding" /\ ~Refused(job[s]) /\ Moved(job[s])
    /\ LET j == job[s]
           rows == Rekeyed(j.base, j.previous, j.zone)
           snaps == [j.snaps EXCEPT ![s] = [zone |-> j.zone, days |-> Picture(j, rows)]]
       IN  /\ snapshots' = snaps
           /\ Advance(s, [j EXCEPT !.phase = "clearing", !.base = rows, !.snaps = snaps,
                                   !.verify = TRUE])
    /\ queue' = Append(queue, Task("clear", s, {}))
    /\ UNCHANGED <<zone, lost, db, markers, faults, committed, exposed, excused>>

\* No migration, or none any more.
Merge(s) ==
    /\ job[s].phase = "deciding" /\ ~Refused(job[s]) /\ ~Moved(job[s])
    /\ Advance(s, [job[s] EXCEPT !.phase = "writing"])
    /\ UNCHANGED <<zone, lost, db, queue, markers, snapshots, faults, committed, exposed,
                   excused>>

\* async_add_external_statistics() of all rows, old and new.
Write(s) ==
    /\ job[s].phase = "writing"
    /\ LET rows == job[s].base \cup NewRows(s)
       IN  /\ queue' = Append(queue, Task("write", s, rows))
           /\ Advance(s, [job[s] EXCEPT !.base = rows,
                            !.phase = IF job[s].verify THEN "verifying" ELSE "marking"])
    /\ UNCHANGED <<zone, lost, db, markers, snapshots, faults, committed, exposed, excused>>

Verified(s) == job[s].base = RowsOf(s)

\* A migration is compared with what the recorder now has; when they differ
\* the marker stays and so does the snapshot.
Verify(s) ==
    /\ job[s].phase = "verifying"
    /\ Flushed
    /\ Advance(s, [job[s] EXCEPT !.phase = IF Verified(s) THEN "marking" ELSE "draining"])
    /\ UNCHANGED <<zone, lost, db, queue, markers, snapshots, faults, committed, exposed,
                   excused>>

\* The marker is saved, then the snapshot dropped.
Mark(s) ==
    /\ job[s].phase = "marking"
    /\ markers' = [job[s].marks EXCEPT ![s] = job[s].zone]
    /\ Advance(s, [job[s] EXCEPT
            !.phase = IF job[s].verify /\ job[s].snaps[s] # NoSnapshot
                      THEN "dropping" ELSE "draining"])
    /\ UNCHANGED <<zone, lost, db, queue, snapshots, faults, committed, exposed, excused>>

DropSnapshot(s) ==
    /\ job[s].phase = "dropping"
    /\ snapshots' = [job[s].snaps EXCEPT ![s] = NoSnapshot]
    /\ exposed' = [exposed EXCEPT ![s] = @ \ {TrueDay(t) : t \in RowsOf(s)}]
    /\ Advance(s, [job[s] EXCEPT !.phase = "draining"])
    /\ UNCHANGED <<zone, lost, db, queue, markers, faults, committed, excused>>

\* The import's own writes have left the queue; the plant's lock is released.
Finish(s) ==
    /\ job[s].phase = "draining"
    /\ Flushed
    /\ Advance(s, NoJob)
    /\ UNCHANGED <<zone, lost, db, queue, markers, snapshots, faults, committed, exposed,
                   excused>>

\* Rows of a new zone are written to a statistic that had none, under a marker
\* that still names the zone of the rows it once had.
Unmarked(s) ==
    /\ job[s].phase = "marking" /\ ~job[s].verify
    /\ markers[s] # None /\ ~SameStarts(markers[s], job[s].zone)

\* The service call is cancelled, or its fetch fails: its tasks stay queued.
ImportCancelled(s) ==
    /\ job[s].phase # "idle"
    /\ Faulty
    /\ excused' = IF Unmarked(s) THEN excused \cup {s} ELSE excused
    /\ Advance(s, NoJob)
    /\ UNCHANGED <<zone, lost, db, queue, markers, snapshots, committed, exposed>>

-----------------------------------------------------------------------------
(* Around it                                                               *)

\* Home Assistant is set to another zone, or the station reports one.
ZoneChanges(z) ==
    /\ z \notin {zone} \cup lost
    /\ Faulty
    /\ zone' = z
    /\ UNCHANGED <<lost, db, queue, markers, snapshots, job, committed, exposed, excused>>

\* The process dies, with the queue, and starts again, maybe on a database of
\* zones that lacks some.
RecorderRestart(gone) ==
    /\ Faulty
    /\ zone \notin gone
    /\ lost' = lost \cup gone
    /\ queue' = <<>>
    /\ job' = [s \in Series |-> NoJob]
    /\ excused' = excused \cup {s \in Series : Unmarked(s)}
    /\ UNCHANGED <<zone, db, markers, snapshots, committed, exposed>>

ImportStep(s) ==
    \/ Resolve(s)
    \/ Load(s)
    \/ Cleared(s)
    \/ Refuse(s)
    \/ Migrate(s)
    \/ Merge(s)
    \/ Write(s)
    \/ Verify(s)
    \/ Mark(s)
    \/ DropSnapshot(s)
    \/ Finish(s)

HistoryNext ==
    \/ TaskDone
    \/ TaskFails
    \/ WritePutOff
    \/ \E s \in Series, ds \in SUBSET Days \ {{}} : Start(s, ds)
    \/ \E s \in Series : ImportStep(s)
    \/ \E s \in Series : ImportCancelled(s)
    \/ \E z \in Zones : ZoneChanges(z)
    \/ \E gone \in SUBSET Zones : RecorderRestart(gone)

HistorySpec == HistoryInit /\ [][HistoryNext]_historyVars

-----------------------------------------------------------------------------
(* Properties                                                              *)

\* No import of the statistic is under way, nothing of it is queued, and no
\* migration is left unfinished.
Settled(s) ==
    /\ job[s].phase = "idle"
    /\ \A n \in DOMAIN queue : queue[n].series # s
    /\ snapshots[s] = NoSnapshot

\* Whenever a statistic is settled each day has one row, at the midnight of the
\* zone of the marker, and its sum counts the rows up to it: no day is counted
\* twice and none falls out of the sums, whatever failed, was cancelled or was
\* cut off by a crash on the way, and however the zone went back and forth.
SeriesSound ==
    /\ HistoryTypeOK
    /\ \A s \in Series : (Settled(s) /\ s \notin excused) =>
        /\ \A t, u \in RowsOf(s) : TrueDay(t) = TrueDay(u) => t = u
        /\ markers[s] # None => Aligned(RowsOf(s), markers[s]) = RowsOf(s)
        /\ \A t \in Starts : db[s][t] = SumAt(RowsOf(s), t)

DaysOf(s) == {TrueDay(t) : t \in RowsOf(s)} \cup snapshots[s].days

\* A day once committed is in the database or in the snapshot at every moment,
\* even between a clear and the write that follows it, whichever of its tasks
\* fail and whoever else saves to the store; but for the days that the retry
\* of a migration added.
DaysKept == \A s \in Series \ excused : committed[s] \ exposed[s] \subseteq DaysOf(s)

\* "This preserves every known day regardless of series length or response
\* gaps" (history_import.py:33): when nothing is under way any more, every day
\* that was ever committed is there, those of a retried migration as well.
EveryDayKept ==
    \A s \in Series \ excused : Settled(s) => committed[s] \subseteq DaysOf(s)

\* Once faults have ceased a migration that was interrupted is brought to its
\* end by the imports that follow.
MigrationEnds ==
    \A s \in Series : []<>(snapshots[s] = NoSnapshot \/ s \in excused)

=============================================================================
