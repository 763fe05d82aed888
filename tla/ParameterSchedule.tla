-------------------------- MODULE ParameterSchedule --------------------------
(***************************************************************************)
(* When the parameters of local inverters are read (coordinator_local.py,  *)
(* _async_update_local_data): for all of them once an interval, under one  *)
(* pair of timestamps, and for those that missed their turn again every    *)
(* few minutes.  A cycle polls the inverters whose transport is due; it    *)
(* decides at its start what it reads, in attributes of the coordinator    *)
(* that a second cycle beside it overwrites, and stamps at its end.        *)
(***************************************************************************)
EXTENDS FiniteSets

CONSTANTS
    Inverters,      \* the local devices with parameters
    Cycles          \* update cycles that may run side by side

VARIABLES
    loaded,         \* _local_parameters_loaded
    attempt,        \* age of _last_parameter_attempt: "never", "recent" or "old"
    refresh,        \* age of _last_parameter_refresh
    pending,        \* _param_retry_pending
    include,        \* _include_params_this_cycle
    retryDue,       \* _param_retry_due
    completed,      \* _param_completed_this_cycle
    attempted,      \* _param_attempted_this_cycle
    running,        \* the cycles under way
    todo,           \* the inverters each has still to process
    reading,        \* those whose parameters it is reading
    available,      \* those it has found available, or has skipped
    covered,        \* history: complete reads since each cycle began ...
    since           \* ... and since the cycle began that stamped last

scheduleVars == <<loaded, attempt, refresh, pending, include, retryDue, completed, attempted,
                  running, todo, reading, available, covered, since>>

cycleVars == <<running, todo, reading, available>>

Stamps == {"never", "recent", "old"}

ScheduleTypeOK ==
    /\ {loaded, include, retryDue, attempted} \subseteq BOOLEAN
    /\ {attempt, refresh} \subseteq Stamps
    /\ {pending, completed, since} \subseteq SUBSET Inverters
    /\ running \subseteq Cycles
    /\ {todo, reading, available, covered} \subseteq [Cycles -> SUBSET Inverters]

Nothing == [c \in Cycles |-> {}]

ScheduleInit ==
    /\ loaded = FALSE
    /\ attempt = "never"
    /\ refresh = "never"
    /\ pending = {}
    /\ include = FALSE
    /\ retryDue = FALSE
    /\ completed = {}
    /\ attempted = FALSE
    /\ running = {}
    /\ todo = Nothing
    /\ reading = Nothing
    /\ available = Nothing
    /\ covered = Nothing
    /\ since = {}

-----------------------------------------------------------------------------

\* _should_refresh_parameters(): the floor between attempts, then the interval.
ShouldRefresh == attempt # "recent" /\ refresh # "recent"

\* Mutant of NoneCompleted: what the cycle before completed still counts.
KeepCompleted == UNCHANGED completed

NoneCompleted == completed' = {}

\* A cycle decides what it reads.  With no transport due it returns the cache.
BeginCycle(c, due) ==
    /\ c \notin running
    /\ include' = (loaded /\ ShouldRefresh)
    /\ retryDue' = (loaded /\ pending # {} /\ attempt # "recent")
    /\ NoneCompleted
    /\ attempted' = FALSE
    /\ IF due = {}
       THEN UNCHANGED <<cycleVars, covered>>
       ELSE /\ running' = running \cup {c}
            /\ todo' = [todo EXCEPT ![c] = due]
            /\ available' = [available EXCEPT ![c] = Inverters \ due]
            /\ covered' = [covered EXCEPT ![c] = {}]
            /\ UNCHANGED reading
    /\ UNCHANGED <<loaded, attempt, refresh, pending, since>>

\* An inverter answers, and its parameters are to be read.
ReadBegins(c, i) ==
    /\ i \in todo[c] \ reading[c]
    /\ include \/ (retryDue /\ i \in pending)
    /\ attempted' = TRUE
    /\ reading' = [reading EXCEPT ![c] = @ \cup {i}]
    /\ available' = [available EXCEPT ![c] = @ \cup {i}]
    /\ UNCHANGED <<loaded, attempt, refresh, pending, include, retryDue, completed, running, todo,
                   covered, since>>

Processed(c, i) ==
    /\ todo' = [todo EXCEPT ![c] = @ \ {i}]
    /\ reading' = [reading EXCEPT ![c] = @ \ {i}]
    /\ UNCHANGED running

\* It answers, but is not due or has no transport for parameters.
NotRead(c, i) ==
    /\ i \in todo[c] \ reading[c]
    /\ Processed(c, i)
    /\ available' = [available EXCEPT ![c] = @ \cup {i}]
    /\ UNCHANGED <<loaded, attempt, refresh, pending, include, retryDue, completed, attempted,
                   covered, since>>

\* It fails, before its parameters or in them.
InverterFails(c, i) ==
    /\ i \in todo[c]
    /\ Processed(c, i)
    /\ available' = [available EXCEPT ![c] = @ \ {i}]
    /\ UNCHANGED <<loaded, attempt, refresh, pending, include, retryDue, completed, attempted,
                   covered, since>>

ReadCompletes(c, i) ==
    /\ i \in reading[c]
    /\ Processed(c, i)
    /\ completed' = completed \cup {i}
    /\ pending' = pending \ {i}
    /\ covered' = [d \in Cycles |-> IF d \in running THEN covered[d] \cup {i} ELSE covered[d]]
    /\ since' = since \cup {i}
    /\ UNCHANGED <<loaded, attempt, refresh, include, retryDue, attempted, available>>

\* A partial read is carried forward, and queued.
ReadPartial(c, i) ==
    /\ i \in reading[c]
    /\ Processed(c, i)
    /\ pending' = pending \cup {i}
    /\ UNCHANGED <<loaded, attempt, refresh, include, retryDue, completed, attempted, available,
                   covered, since>>

CycleOver(c) ==
    /\ running' = running \ {c}
    /\ todo' = [todo EXCEPT ![c] = {}]
    /\ reading' = [reading EXCEPT ![c] = {}]
    /\ available' = [available EXCEPT ![c] = {}]
    /\ covered' = [covered EXCEPT ![c] = {}]

\* The end of a cycle.  The inverters that have not completed their read, those
\* it skipped included, are queued; "others" says that a device without parameters, a
\* GridBOSS, was available.  If nothing was, the update fails.
EndCycle(c, others) ==
    /\ c \in running /\ todo[c] = {}
    /\ CycleOver(c)
    /\ LET succeeded == others \/ available[c] # {} IN
       /\ IF succeeded /\ include
          THEN /\ attempt' = "recent"
               /\ refresh' = "recent"
               /\ pending' = pending \cup (Inverters \ completed)
               /\ since' = covered[c]
          ELSE /\ attempt' = IF succeeded /\ retryDue /\ attempted THEN "recent" ELSE attempt
               /\ UNCHANGED <<refresh, pending, since>>
       /\ loaded' = (loaded \/ succeeded)
    /\ UNCHANGED <<include, retryDue, completed, attempted>>

CycleCancelled(c) ==
    /\ c \in running
    /\ CycleOver(c)
    /\ UNCHANGED <<loaded, attempt, refresh, pending, include, retryDue, completed, attempted,
                   since>>

-----------------------------------------------------------------------------

\* note_parameter_verification_pending()
NotePending(i) ==
    /\ pending' = pending \cup {i}
    /\ refresh' = "never"
    /\ UNCHANGED <<loaded, attempt, include, retryDue, completed, attempted, cycleVars, covered,
                   since>>

\* The parameters of an inverter that was attached again could not be loaded.
ReloadFailed ==
    /\ refresh' = "never"
    /\ UNCHANGED <<loaded, attempt, pending, include, retryDue, completed, attempted, cycleVars,
                   covered, since>>

\* _PARAMETER_RETRY_INTERVAL, and the longer refresh interval, run out.
FloorEnds ==
    /\ attempt = "recent"
    /\ attempt' = "old"
    /\ UNCHANGED <<loaded, refresh, pending, include, retryDue, completed, attempted, cycleVars,
                   covered, since>>

IntervalEnds ==
    /\ refresh = "recent"
    /\ refresh' = "old"
    /\ UNCHANGED <<loaded, attempt, pending, include, retryDue, completed, attempted, cycleVars,
                   covered, since>>

ScheduleNext ==
    \/ \E c \in Cycles, due \in SUBSET Inverters : BeginCycle(c, due)
    \/ \E c \in Cycles, i \in Inverters : ReadBegins(c, i)
    \/ \E c \in Cycles, i \in Inverters : NotRead(c, i)
    \/ \E c \in Cycles, i \in Inverters : InverterFails(c, i)
    \/ \E c \in Cycles, i \in Inverters : ReadCompletes(c, i)
    \/ \E c \in Cycles, i \in Inverters : ReadPartial(c, i)
    \/ \E c \in Cycles, others \in BOOLEAN : EndCycle(c, others)
    \/ \E c \in Cycles : CycleCancelled(c)
    \/ \E i \in Inverters : NotePending(i)
    \/ ReloadFailed
    \/ FloorEnds
    \/ IntervalEnds

ScheduleSpec == ScheduleInit /\ [][ScheduleNext]_scheduleVars

-----------------------------------------------------------------------------
(* Properties                                                              *)

\* The shared timestamp hides nobody: as long as it stands, each inverter has
\* completed a read since the cycle that set it began, or is queued for one,
\* whoever was skipped, failed, was read in part, and whatever a second cycle
\* did to the attributes both use (#282).
NoSilentMiss == refresh # "never" => Inverters \subseteq since \cup pending

=============================================================================
