--------------------------- MODULE DeviceRemoval ---------------------------
(***************************************************************************)
(* When a user may delete a device from the registry (device_removal.py):  *)
(* the ledger of when each identifier was last provided, and the clocks    *)
(* that say since when every observation has been complete, one for the    *)
(* device list, one for all batteries and one for the batteries of each    *)
(* parent.  Deleting a live device cannot be undone, so absence must have  *)
(* been observed without a break for a whole window.  Times are ages.      *)
(***************************************************************************)
EXTENDS Naturals, FiniteSets

CONSTANTS
    Parents,        \* inverters, each a device that can carry batteries
    Modules,        \* battery modules
    ParentOf,       \* the inverter each module belongs to
    DeviceWindow,   \* DEVICE_ABSENCE_WINDOW
    BatteryWindow,  \* BATTERY_ABSENCE_WINDOW
    PruneAge,       \* _LEDGER_PRUNE_AGE
    NoClock,        \* a clock, or a sighting, that is None
    NoEntry         \* a parent without a clock

ASSUME RemovalAssumption ==
    /\ Parents \cap Modules = {}
    /\ ParentOf \in [Modules -> Parents]
    /\ {DeviceWindow, BatteryWindow, PruneAge} \subseteq Nat
    /\ DeviceWindow <= BatteryWindow /\ BatteryWindow < PruneAge
    /\ NoClock \notin Nat /\ NoEntry \notin Nat /\ NoEntry # NoClock

VARIABLES
    hasData,        \* coordinator.data is not None
    provided,       \* the identifiers in coordinator.data
    deviceSince,    \* age of _removal_device_observed_since
    batterySince,   \* age of _removal_battery_observed_since
    parentSince,    \* ages of _removal_battery_parent_since
    lastSeen,       \* ages in _removal_identifier_last_seen
    strikes,        \* _consecutive_update_failures, counted up to 3
    succeeded,      \* last_update_success
    unbroken,       \* history: for how long every observation has been complete
                    \* as far as the identifier goes, and has not shown it
    clean           \* history: the last cycle observed everything

removalVars == <<hasData, provided, deviceSince, batterySince, parentSince, lastSeen, strikes,
                 succeeded, unbroken, clean>>

Identifiers == Parents \cup Modules

Oldest == PruneAge + 1

Ages == 0..Oldest

Older(a) == IF a \in Ages THEN (IF a < Oldest THEN a + 1 ELSE a) ELSE a

AtLeast(a, window) == a \in Ages /\ a >= window

RemovalTypeOK ==
    /\ provided \subseteq Identifiers
    /\ {deviceSince, batterySince} \subseteq Ages \cup {NoClock}
    /\ parentSince \in [Parents -> Ages \cup {NoClock, NoEntry}]
    /\ {lastSeen, unbroken} \subseteq [Identifiers -> Ages \cup {NoClock}]
    /\ strikes \in 0..3
    /\ {hasData, succeeded, clean} \subseteq BOOLEAN

RemovalInit ==
    /\ hasData = FALSE
    /\ provided = {}
    /\ deviceSince = NoClock
    /\ batterySince = NoClock
    /\ parentSince = [p \in Parents |-> NoEntry]
    /\ lastSeen = [i \in Identifiers |-> NoClock]
    /\ strikes = 0
    /\ succeeded = TRUE
    /\ unbroken = [i \in Identifiers |-> NoClock]
    /\ clean = FALSE

-----------------------------------------------------------------------------
(* A cycle that succeeds                                                   *)

\* Mutant of NewClock: a run that was broken by a failed cycle goes on.
ClockAcrossFailures(since, complete) ==
    IF ~complete THEN NoClock ELSE IF since \notin Ages THEN 0 ELSE since

\* Mutant of NewClock: every complete cycle starts a run.
ClockRestarted(since, complete) == IF complete THEN 0 ELSE NoClock

\* A class's clock after a cycle: an incomplete one breaks the run, a complete
\* one that recovers from a failure, or finds no run, starts one.
NewClock(since, complete) ==
    IF ~complete THEN NoClock
    ELSE IF ~succeeded \/ since \notin Ages THEN 0 ELSE since

\* What cycles may show: modules only under a parent that is listed.
Snapshots == {s \in SUBSET Identifiers : \A m \in s \cap Modules : ParentOf[m] \in s}

\* assess_discovery_completeness(), for all the batteries.
BatteryOk(listed, confirmed, listOk) == listOk /\ confirmed = listed

\* Observed completely, as far as i goes: a module is attested by its parent,
\* by everyone listed when its parent is not.
Attested(i, listed, confirmed, listOk) ==
    /\ listOk
    /\ i \in Modules => IF ParentOf[i] \in listed THEN ParentOf[i] \in confirmed
                        ELSE confirmed = listed

\* record_provided_identifiers() at the end of a cycle that shows "s", with the
\* parents whose battery fetch is confirmed.  An empty table may be a device
\* list that failed unseen; one with rows is taken for loaded.
Observe(s, confirmed, listOk) ==
    LET listed == s \cap Parents IN
    /\ confirmed \subseteq listed
    /\ listed # {} => listOk
    /\ hasData' = TRUE
    /\ provided' = s
    /\ deviceSince' = NewClock(deviceSince, listOk)
    /\ batterySince' = NewClock(batterySince, BatteryOk(listed, confirmed, listOk))
    /\ parentSince' = [p \in Parents |->
            IF ~listOk \/ p \notin listed THEN NoEntry
            ELSE NewClock(parentSince[p], p \in confirmed)]
    /\ lastSeen' = [i \in Identifiers |->
            IF i \in s THEN 0
            ELSE IF lastSeen[i] \in Ages /\ lastSeen[i] > PruneAge THEN NoClock
            ELSE lastSeen[i]]
    /\ strikes' = 0
    /\ succeeded' = TRUE
    /\ unbroken' = [i \in Identifiers |->
            IF ~Attested(i, listed, confirmed, listOk) THEN NoClock
            ELSE IF i \in s \/ unbroken[i] \notin Ages THEN 0 ELSE unbroken[i]]
    /\ clean' = BatteryOk(listed, confirmed, listOk)

ClearClocks ==
    /\ deviceSince' = NoClock
    /\ batterySince' = NoClock
    /\ parentSince' = [p \in Parents |-> NoEntry]

Interrupted ==
    /\ unbroken' = [i \in Identifiers |-> NoClock]
    /\ clean' = FALSE

\* The bookkeeping itself fails, before it reaches the ledger.
BookkeepingFault(s) ==
    /\ hasData' = TRUE
    /\ provided' = s
    /\ ClearClocks
    /\ strikes' = 0
    /\ succeeded' = TRUE
    /\ Interrupted
    /\ UNCHANGED lastSeen

-----------------------------------------------------------------------------
(* A cycle that fails, and time                                            *)

\* UpdateFailed: while there is data the first two serve it and count as a
\* success, though not as an observation; otherwise the update fails.
FetchFails ==
    /\ strikes' = IF strikes < 3 THEN strikes + 1 ELSE strikes
    /\ succeeded' = (strikes' < 3 /\ hasData)
    /\ IF succeeded' THEN ClearClocks ELSE UNCHANGED <<deviceSince, batterySince, parentSince>>
    /\ Interrupted
    /\ UNCHANGED <<hasData, provided, lastSeen>>

\* Any other exception: the update fails, nothing is counted.
CycleRaises ==
    /\ succeeded' = FALSE
    /\ Interrupted
    /\ UNCHANGED <<hasData, provided, deviceSince, batterySince, parentSince, lastSeen, strikes>>

TimePasses ==
    /\ deviceSince' = Older(deviceSince)
    /\ batterySince' = Older(batterySince)
    /\ parentSince' = [p \in Parents |-> Older(parentSince[p])]
    /\ lastSeen' = [i \in Identifiers |-> Older(lastSeen[i])]
    /\ unbroken' = [i \in Identifiers |-> Older(unbroken[i])]
    /\ UNCHANGED <<hasData, provided, strikes, succeeded, clean>>

RemovalNext ==
    \/ \E s \in Snapshots, confirmed \in SUBSET Parents, listOk \in BOOLEAN :
            Observe(s, confirmed, listOk)
    \/ \E s \in Snapshots : BookkeepingFault(s)
    \/ FetchFails
    \/ CycleRaises
    \/ TimePasses

RemovalSpec == RemovalInit /\ [][RemovalNext]_removalVars

-----------------------------------------------------------------------------
(* The hook                                                                *)

\* An identifier that was never seen, or was pruned, has no class: it is held
\* to the batteries' window.
WindowOf(i) ==
    IF i \in Parents /\ lastSeen[i] \in Ages THEN DeviceWindow ELSE BatteryWindow

\* The clock it is judged by: a module's is its parent's, while that parent is
\* provided and has one.
ObservedSince(i) ==
    IF lastSeen[i] \notin Ages THEN batterySince
    ELSE IF i \in Parents THEN deviceSince
    ELSE IF ParentOf[i] \in provided /\ parentSince[ParentOf[i]] # NoEntry
    THEN parentSince[ParentOf[i]]
    ELSE batterySince

\* async_remove_config_entry_device() for a device with the one identifier i.
MayRemove(i) ==
    /\ succeeded
    /\ strikes = 0
    /\ i \notin provided
    /\ AtLeast(ObservedSince(i), WindowOf(i))
    /\ lastSeen[i] \in Ages => lastSeen[i] >= WindowOf(i)

-----------------------------------------------------------------------------
(* Properties                                                              *)

\* What may be deleted was absent, over its whole window, from observations
\* that were all complete as far as it goes: no failed cycle, no cached one,
\* no device list or battery read that failed unseen lies in between,
\* whichever of the three clocks it was judged by and however the ledger, the
\* parent's clock and the parent itself came and went.
AbsenceProven ==
    /\ RemovalTypeOK
    /\ \A i \in Identifiers : MayRemove(i) => AtLeast(unbroken[i], WindowOf(i))

\* The ghost of #174 can be deleted: what stays away while cycles stay complete
\* is removable from some time on, seen before or not, pruned or not.
GhostRemovable ==
    \A i \in Identifiers : <>[](clean /\ i \notin provided) => <>[]MayRemove(i)

=============================================================================
