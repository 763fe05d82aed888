-------------------------- MODULE LocalPollingProofs --------------------------
(*****************************************************************************)
(* Proofs about what local polling keeps for itself, each for any constants: *)
(* the schedule on which parameters are read, the floor of lifetime totals,  *)
(* the raw snapshots of what is read.                                        *)
(*****************************************************************************)
EXTENDS ParameterSchedule, PVLifetime, RawSnapshot, TLAPS

-----------------------------------------------------------------------------
(***************************************************************************)
(* Proofs about ParameterSchedule: types, and that the shared timestamp    *)
(* hides no inverter, for any inverters and any cycles side by side.       *)
(***************************************************************************)

USE DEF scheduleVars, cycleVars

-----------------------------------------------------------------------------
(* Types                                                                   *)

\* Each variable keeps its type: what a cycle decides is a truth value, what
\* it has to process and has read are sets of inverters.
LEMMA ScheduleTypes ==
    ScheduleSpec => []ScheduleTypeOK
<1>1. ScheduleInit => ScheduleTypeOK
    BY DEF ScheduleInit, ScheduleTypeOK, Nothing, Stamps
<1>2. ScheduleTypeOK /\ [ScheduleNext]_scheduleVars => ScheduleTypeOK'
    <2> SUFFICES ASSUME ScheduleTypeOK, [ScheduleNext]_scheduleVars
                 PROVE  ScheduleTypeOK'
        OBVIOUS
    <2> USE DEF ScheduleTypeOK, Stamps
    <2>1. CASE UNCHANGED scheduleVars
        BY <2>1
    <2>2. ASSUME NEW c \in Cycles, NEW due \in SUBSET Inverters, BeginCycle(c, due)
          PROVE  ScheduleTypeOK'
        <3>1. include' = (loaded /\ ShouldRefresh)
                /\ retryDue' = (loaded /\ pending # {} /\ attempt # "recent")
            BY <2>2 DEF BeginCycle
        <3>2. include' \in BOOLEAN /\ retryDue' \in BOOLEAN
            BY <3>1, Zenon
        <3>3. UNCHANGED <<loaded, attempt, refresh, pending, since>> /\ completed' = {}
                /\ attempted' = FALSE
            BY <2>2 DEF BeginCycle, NoneCompleted
        <3>4. running' \subseteq Cycles
                /\ {todo', reading', available', covered'} \subseteq [Cycles -> SUBSET Inverters]
            <4>1. CASE due = {}
                BY <2>2, <4>1 DEF BeginCycle
            <4>2. CASE due # {}
                BY <2>2, <4>2 DEF BeginCycle
            <4> QED BY <4>1, <4>2
        <3>5. {loaded', include', retryDue', attempted'} \subseteq BOOLEAN
            BY <3>2, <3>3
        <3>6. {attempt', refresh'} \subseteq Stamps
                /\ {pending', completed', since'} \subseteq SUBSET Inverters
            BY <3>3
        <3> QED BY ONLY <3>4, <3>5, <3>6 DEF ScheduleTypeOK, Stamps
    <2>3. ASSUME NEW c \in Cycles, NEW i \in Inverters,
                 \/ ReadBegins(c, i) \/ NotRead(c, i) \/ InverterFails(c, i)
                 \/ ReadCompletes(c, i) \/ ReadPartial(c, i)
          PROVE  ScheduleTypeOK'
        <3>1. CASE ReadBegins(c, i)
            BY <3>1 DEF ReadBegins
        <3>2. CASE NotRead(c, i)
            BY <3>2 DEF NotRead, Processed
        <3>3. CASE InverterFails(c, i)
            BY <3>3 DEF InverterFails, Processed
        <3>4. CASE ReadCompletes(c, i)
            BY <3>4 DEF ReadCompletes, Processed
        <3>5. CASE ReadPartial(c, i)
            BY <3>5 DEF ReadPartial, Processed
        <3> QED BY <2>3, <3>1, <3>2, <3>3, <3>4, <3>5
    <2>4. ASSUME NEW c \in Cycles, NEW others \in BOOLEAN, EndCycle(c, others)
          PROVE  ScheduleTypeOK'
        <3>1. running' \subseteq Cycles
                /\ {todo', reading', available', covered'} \subseteq [Cycles -> SUBSET Inverters]
            BY <2>4 DEF EndCycle, CycleOver
        <3>2. UNCHANGED <<include, retryDue, completed, attempted>> /\ loaded' \in BOOLEAN
            BY <2>4 DEF EndCycle
        <3>3. attempt' \in Stamps /\ refresh' \in Stamps /\ pending' \subseteq Inverters
                /\ since' \subseteq Inverters
            BY <2>4 DEF EndCycle
        <3> QED BY <3>1, <3>2, <3>3
    <2>5. ASSUME NEW c \in Cycles, CycleCancelled(c)
          PROVE  ScheduleTypeOK'
        BY <2>5 DEF CycleCancelled, CycleOver
    <2>6. ASSUME NEW i \in Inverters, NotePending(i)
          PROVE  ScheduleTypeOK'
        BY <2>6 DEF NotePending
    <2>7. CASE ReloadFailed \/ FloorEnds \/ IntervalEnds
        BY <2>7 DEF ReloadFailed, FloorEnds, IntervalEnds
    <2> QED
        BY <2>1, <2>2, <2>3, <2>4, <2>5, <2>6, <2>7 DEF ScheduleNext
<1> QED
    BY <1>1, <1>2, PTL DEF ScheduleSpec

-----------------------------------------------------------------------------
(* Nobody is hidden                                                        *)

\* What counts as completed was completed since every running cycle began:
\* a cycle that begins empties the set, whatever a cycle beside it has put
\* there.  This is why the attributes the cycles share do no harm.
CompletedIsCovered == \A c \in running : completed \subseteq covered[c]

\* The inductive invariant behind NoSilentMiss.
ScheduleInv == ScheduleTypeOK /\ CompletedIsCovered /\ NoSilentMiss

\* Each step keeps the two statements together.
LEMMA ScheduleStep ==
    ASSUME ScheduleInv, ScheduleTypeOK', [ScheduleNext]_scheduleVars
    PROVE  CompletedIsCovered' /\ NoSilentMiss'
<1> USE DEF ScheduleInv, CompletedIsCovered, NoSilentMiss
<1>t. /\ covered \in [Cycles -> SUBSET Inverters] /\ running \subseteq Cycles
      /\ completed \subseteq Inverters
    BY DEF ScheduleTypeOK
<1>1. CASE UNCHANGED scheduleVars
    BY <1>1
<1>2. ASSUME NEW c \in Cycles, NEW due \in SUBSET Inverters, BeginCycle(c, due)
      PROVE  CompletedIsCovered' /\ NoSilentMiss'
    BY <1>2 DEF BeginCycle, NoneCompleted
<1>3. ASSUME NEW c \in Cycles, NEW i \in Inverters, ReadCompletes(c, i)
      PROVE  CompletedIsCovered' /\ NoSilentMiss'
    BY <1>t, <1>3 DEF ReadCompletes, Processed
<1>4. ASSUME NEW c \in Cycles, NEW i \in Inverters,
             ReadBegins(c, i) \/ NotRead(c, i) \/ InverterFails(c, i) \/ ReadPartial(c, i)
      PROVE  CompletedIsCovered' /\ NoSilentMiss'
    BY <1>4 DEF ReadBegins, NotRead, InverterFails, ReadPartial, Processed
<1>5. ASSUME NEW c \in Cycles, NEW others \in BOOLEAN, EndCycle(c, others)
      PROVE  CompletedIsCovered' /\ NoSilentMiss'
    <2>1. CompletedIsCovered'
        BY <1>t, <1>5 DEF EndCycle, CycleOver
    <2>2. completed \subseteq covered[c]
        BY <1>5 DEF EndCycle
    <2>3. NoSilentMiss'
        BY <1>5, <2>2 DEF EndCycle
    <2> QED BY <2>1, <2>3
<1>6. ASSUME NEW c \in Cycles, CycleCancelled(c)
      PROVE  CompletedIsCovered' /\ NoSilentMiss'
    BY <1>t, <1>6 DEF CycleCancelled, CycleOver
<1>7. ASSUME NEW i \in Inverters, NotePending(i)
      PROVE  CompletedIsCovered' /\ NoSilentMiss'
    BY <1>7 DEF NotePending
<1>8. CASE ReloadFailed \/ FloorEnds \/ IntervalEnds
    BY <1>8 DEF ReloadFailed, FloorEnds, IntervalEnds
<1> QED
    BY <1>1, <1>2, <1>3, <1>4, <1>5, <1>6, <1>7, <1>8 DEF ScheduleNext

\* The shared timestamp hides nobody, whatever the cycles do to each other's
\* attributes, for any number of inverters and of cycles side by side.
THEOREM NobodyHidden ==
    ScheduleSpec => []NoSilentMiss
<1>1. ScheduleInit => CompletedIsCovered /\ NoSilentMiss
    BY DEF ScheduleInit, CompletedIsCovered, NoSilentMiss
<1>2. ScheduleTypeOK /\ ScheduleTypeOK' /\ CompletedIsCovered /\ NoSilentMiss
        /\ [ScheduleNext]_scheduleVars => CompletedIsCovered' /\ NoSilentMiss'
    BY ScheduleStep DEF ScheduleInv
<1>3. ScheduleSpec => []ScheduleTypeOK
    BY ScheduleTypes
<1> QED
    BY <1>1, <1>2, <1>3, PTL DEF ScheduleSpec

-----------------------------------------------------------------------------
(***************************************************************************)
(* Proofs about PVLifetime, for any strings and bounds: a total that is    *)
(* shown never falls, restarts included, and the disk never goes back.     *)
(***************************************************************************)

USE DEF lifetimeVars

-----------------------------------------------------------------------------
(* The order of totals                                                     *)

\* NotAbove orders the totals, with nothing below everything.
LEMMA Order ==
    ASSUME NEW a \in Totals \cup {Unknown}, NEW b \in Totals \cup {Unknown},
           NEW c \in Totals \cup {Unknown}
    PROVE  /\ NotAbove(a, a)
           /\ NotAbove(a, b) /\ NotAbove(b, c) => NotAbove(a, c)
           /\ NotAbove(a, b) /\ NotAbove(b, a) => a = b
<1>1. Totals \subseteq Nat /\ Unknown \notin Nat
    BY LifetimeAssumption DEF Totals
<1> QED
    BY <1>1 DEF NotAbove

-----------------------------------------------------------------------------
(* Types                                                                   *)

\* Each variable keeps its type.
LEMMA LifetimeTypes ==
    ASSUME LifetimeTypeOK, [LifetimeNext]_lifetimeVars
    PROVE  LifetimeTypeOK'
<1> USE DEF LifetimeTypeOK
<1>0. NoPayload \in Payloads /\ [s \in Strings |-> Unknown] \in Floors
        /\ [s \in Strings |-> 0] \in Counts
    BY LifetimeAssumption DEF NoPayload, Payloads, Floors, Counts
<1>p. ASSUME NEW s \in Strings, NEW v \in Totals \cup {Unknown}, Publish(s, v)
      PROVE  shown' \in Floors /\ recorded' \in Floors
    BY <1>p DEF Publish, Floors
<1>d. ASSUME NEW s \in Strings
      PROVE  payload[s].floors \in Floors /\ payload[s].counts \in Counts
    BY DEF Payloads
<1>1. CASE UNCHANGED lifetimeVars
    BY <1>1
<1>2. ASSUME NEW s \in Strings, NEW total \in Totals, NEW years \in 0..MaxYears,
             Response(s, total, years)
      PROVE  LifetimeTypeOK'
    <2>1. floors[s] \in Totals \cup {Unknown}
        BY DEF Floors
    <2>2. shown' \in Floors /\ recorded' \in Floors
        BY <1>2, <1>p, <2>1 DEF Response
    <2>3. floors' \in Floors /\ yearCounts' \in Counts
            /\ fetching' \in [Strings -> {"idle", "accepted", "saving"}]
        BY <1>2 DEF Response, Floors, Counts
    <2> QED BY <1>2, <2>2, <2>3 DEF Response
<1>3. ASSUME NEW s \in Strings, SaveBegins(s)
      PROVE  LifetimeTypeOK'
    BY <1>3 DEF SaveBegins, Payloads
<1>4. ASSUME NEW s \in Strings, Saved(s) \/ SaveFails(s) \/ SaveCancelled(s)
      PROVE  LifetimeTypeOK'
    <2>1. floors[s] \in Totals \cup {Unknown}
        BY DEF Floors
    <2>2. shown' \in Floors /\ recorded' \in Floors
        BY <1>4, <1>p, <2>1 DEF Saved, SaveFails, SaveCancelled
    <2>3. savedFloors' \in Floors /\ savedCounts' \in Counts
        BY <1>4, <1>d DEF Saved, SaveFails, SaveCancelled, OnDisk
    <2>4. fetching' \in [Strings -> {"idle", "accepted", "saving"}]
            /\ payload' \in [Strings -> Payloads]
        BY <1>4, <1>0 DEF Saved, SaveFails, SaveCancelled, Over
    <2>5. UNCHANGED <<floors, yearCounts>> /\ forgotten' \in BOOLEAN
        BY <1>4 DEF Saved, SaveFails, SaveCancelled
    <2> QED BY <2>2, <2>3, <2>4, <2>5
<1>5. ASSUME NEW readable \in BOOLEAN, Restart(readable)
      PROVE  LifetimeTypeOK'
    <2>1. savedFloors' \in Floors /\ savedCounts' \in Counts
        BY <1>5, <1>d DEF Restart, OnDisk
    <2>2. floors' \in Floors /\ yearCounts' \in Counts /\ shown' \in Floors /\ recorded' \in Floors
        BY <1>5, <1>0, <2>1 DEF Restart
    <2>3. fetching' \in [Strings -> {"idle", "accepted", "saving"}]
            /\ payload' \in [Strings -> Payloads]
        BY <1>5, <1>0 DEF Restart
    <2>4. forgotten' \in BOOLEAN
        BY <1>5 DEF Restart
    <2> QED BY <2>1, <2>2, <2>3, <2>4
<1> QED
    BY <1>1, <1>2, <1>3, <1>4, <1>5 DEF LifetimeNext

-----------------------------------------------------------------------------
(* The invariant                                                           *)

\* What is on disk lies between what was recorded and what is held.
Ordered ==
    \A s \in Strings : /\ NotAbove(recorded[s], savedFloors[s])
                       /\ NotAbove(savedFloors[s], floors[s])
                       /\ savedCounts[s] <= yearCounts[s]

\* A string that is not being processed has its floor on disk.
IdleSaved == \A s \in Strings : fetching[s] = "idle" => savedFloors[s] = floors[s]

\* The one payload that is being written lies between the disk and the memory,
\* and holds its own string's floor.
PayloadFits ==
    /\ \A s, t \in Strings : fetching[s] = "saving" /\ fetching[t] = "saving" => s = t
    /\ \A s \in Strings : fetching[s] = "saving" =>
        /\ payload[s].floors[s] = floors[s]
        /\ \A t \in Strings :
            /\ NotAbove(savedFloors[t], payload[s].floors[t])
            /\ NotAbove(payload[s].floors[t], floors[t])
            /\ savedCounts[t] <= payload[s].counts[t]
            /\ payload[s].counts[t] <= yearCounts[t]

Sound == Ordered /\ IdleSaved /\ PayloadFits /\ NeverFalls

LifetimeInv == LifetimeTypeOK /\ (~forgotten => Sound)

\* A value that is on disk and not below what was recorded can be published.
LEMMA PublishedSound ==
    ASSUME LifetimeTypeOK, NEW s \in Strings, Publish(s, floors[s]), ~forgotten,
           Ordered, NeverFalls, ~forgotten'
    PROVE  /\ \A t \in Strings : recorded'[t] = recorded[t] \/ (t = s /\ recorded'[t] = floors[t])
           /\ NeverFalls'
<1>1. /\ shown \in Floors /\ recorded \in Floors /\ floors \in Floors /\ savedFloors \in Floors
    BY DEF LifetimeTypeOK
<1>2. NotAbove(recorded[s], floors[s])
    BY <1>1, Order DEF Ordered, Floors
<1>3. recorded' = [recorded EXCEPT ![s] = floors[s]]
        /\ shown' = [shown EXCEPT ![s] = IF floors[s] = Unknown THEN @ ELSE floors[s]]
    BY <1>2 DEF Publish
<1>4. \A t \in Strings : recorded'[t] = recorded[t] \/ (t = s /\ recorded'[t] = floors[t])
    BY <1>1, <1>3 DEF Floors
<1>5. ASSUME NEW t \in Strings, shown'[t] # Unknown
      PROVE  NotAbove(recorded'[t], shown'[t])
    <2>1. CASE t # s
        BY <1>1, <1>3, <1>5, <2>1 DEF NeverFalls, Floors
    <2>2. CASE t = s /\ floors[s] # Unknown
        BY <1>1, <1>3, <2>2, Order DEF Floors
    <2>3. CASE t = s /\ floors[s] = Unknown
        BY <1>1, <1>3, <2>3 DEF NotAbove, Floors
    <2> QED BY <2>1, <2>2, <2>3
<1> QED
    BY <1>4, <1>5 DEF NeverFalls

\* Nothing that a step of a string leaves on disk or in memory is out of order:
\* one fact for every step that writes the payload of the string to the disk.
LEMMA WriteSound ==
    ASSUME LifetimeTypeOK, Sound, NEW s \in Strings, fetching[s] = "saving", OnDisk(s)
    PROVE  /\ savedFloors'[s] = floors[s]
           /\ \A t \in Strings : /\ NotAbove(savedFloors[t], savedFloors'[t])
                                 /\ NotAbove(recorded[t], savedFloors'[t])
                                 /\ NotAbove(savedFloors'[t], floors[t])
                                 /\ savedCounts[t] <= savedCounts'[t]
                                 /\ savedCounts'[t] <= yearCounts[t]
           /\ \A t \in Strings : fetching[t] = "idle" => savedFloors'[t] = floors[t]
<1>1. savedFloors' = payload[s].floors /\ savedCounts' = payload[s].counts
    BY DEF OnDisk
<1>2. payload[s].floors \in Floors /\ savedFloors \in Floors /\ recorded \in Floors
        /\ floors \in Floors
    BY DEF LifetimeTypeOK, Payloads
<1>3. /\ payload[s].floors[s] = floors[s]
      /\ \A t \in Strings : /\ NotAbove(savedFloors[t], payload[s].floors[t])
                            /\ NotAbove(payload[s].floors[t], floors[t])
                            /\ savedCounts[t] <= payload[s].counts[t]
                            /\ payload[s].counts[t] <= yearCounts[t]
    BY DEF Sound, PayloadFits
<1>4. ASSUME NEW t \in Strings
      PROVE  NotAbove(recorded[t], payload[s].floors[t])
    <2>1. NotAbove(recorded[t], savedFloors[t])
        BY DEF Sound, Ordered
    <2>2. recorded[t] \in Totals \cup {Unknown} /\ savedFloors[t] \in Totals \cup {Unknown}
            /\ payload[s].floors[t] \in Totals \cup {Unknown}
        BY <1>2 DEF Floors
    <2> QED BY <1>3, <2>1, <2>2, Order
<1>5. ASSUME NEW t \in Strings, fetching[t] = "idle"
      PROVE  payload[s].floors[t] = floors[t]
    <2>1. savedFloors[t] = floors[t]
        BY <1>5 DEF Sound, IdleSaved
    <2>2. floors[t] \in Totals \cup {Unknown} /\ payload[s].floors[t] \in Totals \cup {Unknown}
        BY <1>2 DEF Floors
    <2> QED BY <1>3, <2>1, <2>2, Order
<1> QED
    BY <1>1, <1>3, <1>4, <1>5

\* With no payload left, what the steps that end a save preserve.
LEMMA OverSound ==
    ASSUME LifetimeTypeOK, Sound, NEW s \in Strings, fetching[s] = "saving", Over(s)
    PROVE  PayloadFits' /\ fetching'[s] = "idle"
           /\ \A t \in Strings : fetching'[t] = "idle" => t = s \/ fetching[t] = "idle"
<1>1. fetching' = [fetching EXCEPT ![s] = "idle"]
    BY DEF Over
<1>2. fetching \in [Strings -> {"idle", "accepted", "saving"}]
    BY DEF LifetimeTypeOK
<1>3. \A t \in Strings : fetching'[t] = IF t = s THEN "idle" ELSE fetching[t]
    BY <1>1, <1>2
<1>4. \A t \in Strings : fetching'[t] # "saving"
    BY <1>3 DEF Sound, PayloadFits
<1> QED
    BY <1>3, <1>4 DEF PayloadFits

-----------------------------------------------------------------------------
(* The steps                                                               *)

\* A step that leaves the disk alone does not take it back.
LEMMA DiskAlone ==
    ASSUME LifetimeTypeOK, UNCHANGED <<savedFloors, savedCounts>>
    PROVE  NoRegress
<1>1. \A t \in Strings : savedFloors[t] \in Totals \cup {Unknown} /\ savedCounts[t] \in Nat
    BY LifetimeAssumption DEF LifetimeTypeOK, Floors, Counts
<1> QED
    BY <1>1, Order DEF NoRegress

LEMMA ResponseSound ==
    ASSUME LifetimeTypeOK, Sound, ~forgotten, NEW s \in Strings, NEW total \in Totals,
           NEW years \in 0..MaxYears, Response(s, total, years)
    PROVE  Sound' /\ NoRegress
<1>0. UNCHANGED <<savedFloors, savedCounts, payload, forgotten>> /\ fetching[s] = "idle"
    BY DEF Response
<1>1. NoRegress
    BY <1>0, DiskAlone
<1>2. CASE Plausible(s, total, years)
    <2>1. /\ floors' = [floors EXCEPT ![s] = total]
          /\ yearCounts' = [yearCounts EXCEPT ![s] = years]
          /\ fetching' = [fetching EXCEPT ![s] = "accepted"]
          /\ UNCHANGED <<shown, recorded>>
        BY <1>2 DEF Response
    <2>2. /\ floors \in Floors /\ savedFloors \in Floors /\ recorded \in Floors
          /\ yearCounts \in Counts /\ savedCounts \in Counts
          /\ fetching \in [Strings -> {"idle", "accepted", "saving"}]
          /\ payload \in [Strings -> Payloads]
        BY DEF LifetimeTypeOK
    <2>3. \A t \in Strings : /\ floors'[t] = IF t = s THEN total ELSE floors[t]
                             /\ yearCounts'[t] = IF t = s THEN years ELSE yearCounts[t]
                             /\ fetching'[t] = IF t = s THEN "accepted" ELSE fetching[t]
        BY <2>1, <2>2 DEF Floors, Counts
    <2>4. NotAbove(floors[s], total) /\ yearCounts[s] <= years
        BY <1>2, <2>2, LifetimeAssumption DEF Plausible, Counts
    <2>5. \A t \in Strings : /\ floors[t] \in Totals \cup {Unknown}
                             /\ savedFloors[t] \in Totals \cup {Unknown}
                             /\ yearCounts[t] \in Nat /\ savedCounts[t] \in Nat
        BY <2>2, LifetimeAssumption DEF Floors, Counts
    <2>6. \A r, t \in Strings : /\ payload[r].floors[t] \in Totals \cup {Unknown}
                                /\ payload[r].counts[t] \in Nat
        BY <2>2, LifetimeAssumption DEF Payloads, Floors, Counts
    <2>7. Ordered'
        <3>1. ASSUME NEW t \in Strings
              PROVE  NotAbove(savedFloors[t], floors'[t]) /\ savedCounts[t] <= yearCounts'[t]
            <4>1. NotAbove(savedFloors[t], floors[t]) /\ savedCounts[t] <= yearCounts[t]
                BY DEF Sound, Ordered
            <4>2. CASE t # s
                BY <2>3, <4>1, <4>2
            <4>3. CASE t = s
                BY <2>3, <2>4, <2>5, <4>1, <4>3, Order
            <4> QED BY <4>2, <4>3
        <3> QED BY <1>0, <2>1, <3>1 DEF Sound, Ordered
    <2>8. IdleSaved'
        BY <1>0, <2>3 DEF Sound, IdleSaved
    <2>9. PayloadFits'
        <3>1. ASSUME NEW r \in Strings, fetching'[r] = "saving", NEW t \in Strings
              PROVE  /\ payload[r].floors[r] = floors'[r]
                     /\ NotAbove(savedFloors[t], payload[r].floors[t])
                     /\ NotAbove(payload[r].floors[t], floors'[t])
                     /\ savedCounts[t] <= payload[r].counts[t]
                     /\ payload[r].counts[t] <= yearCounts'[t]
            <4>1. r # s /\ fetching[r] = "saving"
                BY <2>3, <3>1
            <4>2. /\ payload[r].floors[r] = floors[r]
                  /\ NotAbove(savedFloors[t], payload[r].floors[t])
                  /\ NotAbove(payload[r].floors[t], floors[t])
                  /\ savedCounts[t] <= payload[r].counts[t]
                  /\ payload[r].counts[t] <= yearCounts[t]
                BY <4>1 DEF Sound, PayloadFits
            <4>3. CASE t # s
                BY <2>3, <4>1, <4>2, <4>3
            <4>4. CASE t = s
                <5>1. NotAbove(payload[r].floors[s], total)
                    BY <2>4, <2>5, <2>6, <4>2, <4>4, Order
                <5>2. payload[r].counts[s] <= years
                    BY <2>4, <2>5, <2>6, <4>2, <4>4
                <5> QED BY <2>3, <4>1, <4>2, <4>4, <5>1, <5>2
            <4> QED BY <4>3, <4>4
        <3>2. \A r, t \in Strings : fetching'[r] = "saving" /\ fetching'[t] = "saving" => r = t
            BY <2>3 DEF Sound, PayloadFits
        <3> QED BY <1>0, <3>1, <3>2 DEF PayloadFits
    <2>10. NeverFalls'
        BY <1>0, <2>1 DEF Sound, NeverFalls
    <2> QED BY <1>1, <2>7, <2>8, <2>9, <2>10 DEF Sound
<1>3. CASE ~Plausible(s, total, years)
    <2>1. Publish(s, floors[s]) /\ UNCHANGED <<floors, yearCounts, fetching>>
        BY <1>3 DEF Response
    <2>2. /\ \A t \in Strings : recorded'[t] = recorded[t] \/ (t = s /\ recorded'[t] = floors[t])
          /\ NeverFalls'
        BY <1>0, <2>1, PublishedSound DEF Sound
    <2>3. savedFloors[s] = floors[s] /\ floors[s] \in Totals \cup {Unknown}
        BY <1>0 DEF Sound, IdleSaved, LifetimeTypeOK, Floors
    <2>4. NotAbove(floors[s], floors[s])
        BY <2>3, Order
    <2>5. ASSUME NEW t \in Strings
          PROVE  NotAbove(recorded'[t], savedFloors[t])
        <3>1. CASE recorded'[t] = recorded[t]
            BY <3>1 DEF Sound, Ordered
        <3>2. CASE t = s /\ recorded'[t] = floors[t]
            BY <2>3, <2>4, <3>2
        <3> QED BY <2>2, <3>1, <3>2
    <2>6. Ordered'
        BY <1>0, <2>1, <2>5 DEF Sound, Ordered
    <2>7. IdleSaved' /\ PayloadFits'
        BY <1>0, <2>1 DEF Sound, IdleSaved, PayloadFits
    <2> QED BY <1>1, <2>2, <2>6, <2>7 DEF Sound
<1> QED
    BY <1>2, <1>3

LEMMA SaveBeginsSound ==
    ASSUME LifetimeTypeOK, Sound, NEW s \in Strings, SaveBegins(s)
    PROVE  Sound' /\ NoRegress
<1>0. /\ UNCHANGED <<floors, yearCounts, savedFloors, savedCounts, shown, recorded, forgotten>>
      /\ payload' = [payload EXCEPT ![s] = [floors |-> floors, counts |-> yearCounts]]
      /\ fetching' = [fetching EXCEPT ![s] = "saving"]
    BY DEF SaveBegins
<1>1. payload \in [Strings -> Payloads] /\ fetching \in [Strings -> {"idle", "accepted", "saving"}]
    BY DEF LifetimeTypeOK
<1>2. \A t \in Strings : fetching[t] # "saving"
    BY DEF SaveBegins, StoreFree
<1>3. \A t \in Strings : fetching'[t] = IF t = s THEN "saving" ELSE fetching[t]
    BY <1>0, <1>1
<1>4. payload'[s] = [floors |-> floors, counts |-> yearCounts]
    BY <1>0, <1>1
<1>5. payload'[s].floors = floors /\ payload'[s].counts = yearCounts
    BY <1>4
<1>6. NoRegress
    BY <1>0, DiskAlone
<1>7. Ordered' /\ NeverFalls'
    BY <1>0 DEF Sound, Ordered, NeverFalls
<1>8. IdleSaved'
    BY <1>0, <1>3 DEF Sound, IdleSaved
<1>9. PayloadFits'
    <2>1. \A t \in Strings : fetching'[t] = "saving" => t = s
        BY <1>2, <1>3
    <2>2. \A t \in Strings : /\ NotAbove(savedFloors[t], floors[t])
                             /\ savedCounts[t] <= yearCounts[t]
                             /\ NotAbove(floors[t], floors[t])
                             /\ yearCounts[t] <= yearCounts[t]
        BY LifetimeAssumption, Order DEF Sound, Ordered, LifetimeTypeOK, Floors, Counts
    <2>3. /\ payload'[s].floors[s] = floors'[s]
          /\ \A t \in Strings : /\ NotAbove(savedFloors'[t], payload'[s].floors[t])
                                /\ NotAbove(payload'[s].floors[t], floors'[t])
                                /\ savedCounts'[t] <= payload'[s].counts[t]
                                /\ payload'[s].counts[t] <= yearCounts'[t]
        BY <1>0, <1>5, <2>2
    <2> QED BY <2>1, <2>3 DEF PayloadFits
<1> QED
    BY <1>6, <1>7, <1>8, <1>9 DEF Sound

LEMMA SaveEndsSound ==
    ASSUME LifetimeTypeOK, Sound, ~forgotten, ~forgotten', NEW s \in Strings,
           Saved(s) \/ SaveCancelled(s)
    PROVE  Sound' /\ NoRegress
<1>1. fetching[s] = "saving" /\ OnDisk(s) /\ Over(s) /\ UNCHANGED <<floors, yearCounts>>
    BY DEF Saved, SaveCancelled
<1>2. /\ savedFloors'[s] = floors[s]
      /\ \A t \in Strings : /\ NotAbove(savedFloors[t], savedFloors'[t])
                            /\ NotAbove(recorded[t], savedFloors'[t])
                            /\ NotAbove(savedFloors'[t], floors[t])
                            /\ savedCounts[t] <= savedCounts'[t]
                            /\ savedCounts'[t] <= yearCounts[t]
      /\ \A t \in Strings : fetching[t] = "idle" => savedFloors'[t] = floors[t]
    BY <1>1, WriteSound
<1>3. PayloadFits' /\ \A t \in Strings : fetching'[t] = "idle" => t = s \/ fetching[t] = "idle"
    BY <1>1, OverSound
<1>4. IdleSaved'
    BY <1>1, <1>2, <1>3 DEF IdleSaved
<1>5. CASE Saved(s)
    <2>1. /\ \A t \in Strings : recorded'[t] = recorded[t] \/ (t = s /\ recorded'[t] = floors[t])
          /\ NeverFalls'
        BY <1>5, PublishedSound DEF Sound, Saved
    <2>2. NotAbove(floors[s], floors[s])
        BY Order DEF LifetimeTypeOK, Floors
    <2>3. ASSUME NEW t \in Strings
          PROVE  NotAbove(recorded'[t], savedFloors'[t])
        BY <1>2, <2>1, <2>2
    <2>4. Ordered'
        BY <1>1, <1>2, <2>3 DEF Ordered
    <2> QED BY <1>2, <1>3, <1>4, <2>1, <2>4 DEF Sound, NoRegress
<1>6. CASE SaveCancelled(s)
    <2>1. UNCHANGED <<shown, recorded>>
        BY <1>6 DEF SaveCancelled
    <2>2. Ordered'
        BY <1>1, <1>2, <2>1 DEF Ordered
    <2>3. NeverFalls'
        BY <2>1 DEF Sound, NeverFalls
    <2> QED BY <1>2, <1>3, <1>4, <2>2, <2>3 DEF Sound, NoRegress
<1> QED
    BY <1>5, <1>6

LEMMA RestartSound ==
    ASSUME LifetimeTypeOK, Sound, NEW readable \in BOOLEAN, Restart(readable), ~forgotten'
    PROVE  Sound' /\ NoRegress
<1>1. /\ floors' = savedFloors' /\ yearCounts' = savedCounts' /\ recorded' = recorded
      /\ fetching' = [t \in Strings |-> "idle"]
      /\ shown' = [t \in Strings |-> Unknown]
    BY DEF Restart
<1>2. \A t \in Strings : /\ NotAbove(savedFloors[t], savedFloors'[t])
                         /\ NotAbove(recorded[t], savedFloors'[t])
                         /\ savedCounts[t] <= savedCounts'[t]
    <2>1. CASE UNCHANGED <<savedFloors, savedCounts>>
        BY <2>1, DiskAlone DEF NoRegress, Sound, Ordered
    <2>2. CASE \E s \in Strings : fetching[s] = "saving" /\ OnDisk(s)
        BY <2>2, WriteSound
    <2> QED BY <2>1, <2>2 DEF Restart
<1>3. \A t \in Strings : /\ NotAbove(floors'[t], floors'[t])
                         /\ yearCounts'[t] <= yearCounts'[t]
    <2>1. LifetimeTypeOK'
        BY LifetimeTypes DEF LifetimeNext
    <2>2. \A t \in Strings : floors'[t] \in Totals \cup {Unknown} /\ yearCounts'[t] \in Nat
        BY <2>1, LifetimeAssumption DEF LifetimeTypeOK, Floors, Counts
    <2> QED BY <2>2, Order
<1>4. Ordered' /\ IdleSaved'
    BY <1>1, <1>2, <1>3 DEF Ordered, IdleSaved
<1>5. PayloadFits'
    BY <1>1 DEF PayloadFits
<1>6. NeverFalls'
    BY <1>1 DEF NeverFalls
<1> QED
    BY <1>2, <1>4, <1>5, <1>6 DEF Sound, NoRegress

\* One step of the machine.
LEMMA LifetimeStep ==
    ASSUME LifetimeInv, [LifetimeNext]_lifetimeVars
    PROVE  LifetimeInv' /\ (~forgotten' => NoRegress)
<1>0. LifetimeTypeOK /\ LifetimeTypeOK'
    BY LifetimeTypes DEF LifetimeInv
<1> SUFFICES ASSUME ~forgotten'
             PROVE  Sound' /\ NoRegress
    BY <1>0 DEF LifetimeInv
<1>1. ~forgotten
    BY <1>0 DEF LifetimeNext, Response, SaveBegins, Saved, SaveFails, SaveCancelled, Restart
<1>2. Sound
    BY <1>1 DEF LifetimeInv
<1>3. CASE UNCHANGED lifetimeVars
    <2>1. NoRegress
        BY <1>0, <1>3, DiskAlone
    <2> QED BY <1>2, <1>3, <2>1 DEF Sound, Ordered, IdleSaved, PayloadFits, NeverFalls
<1>4. CASE \E s \in Strings, total \in Totals, years \in 0..MaxYears : Response(s, total, years)
    BY <1>0, <1>1, <1>2, <1>4, ResponseSound
<1>5. CASE \E s \in Strings : SaveBegins(s)
    BY <1>0, <1>2, <1>5, SaveBeginsSound
<1>6. CASE \E s \in Strings : Saved(s)
    BY <1>0, <1>1, <1>2, <1>6, SaveEndsSound
<1>7. CASE \E s \in Strings : SaveFails(s)
    BY <1>7 DEF SaveFails
<1>8. CASE \E s \in Strings : SaveCancelled(s)
    BY <1>0, <1>1, <1>2, <1>8, SaveEndsSound
<1>9. CASE \E readable \in BOOLEAN : Restart(readable)
    BY <1>0, <1>2, <1>9, RestartSound
<1> QED
    BY <1>3, <1>4, <1>5, <1>6, <1>7, <1>8, <1>9 DEF LifetimeNext

LEMMA LifetimeAlways ==
    LifetimeSpec => []LifetimeInv
<1>1. ASSUME LifetimeInit
      PROVE  LifetimeTypeOK
    <2>1. NoPayload \in Payloads /\ [s \in Strings |-> Unknown] \in Floors
            /\ [s \in Strings |-> 0] \in Counts
        BY LifetimeAssumption DEF NoPayload, Payloads, Floors, Counts
    <2> QED BY <1>1, <2>1 DEF LifetimeInit, LifetimeTypeOK
<1>2. ASSUME LifetimeInit
      PROVE  Sound
    BY <1>2 DEF LifetimeInit, Sound, Ordered, IdleSaved, PayloadFits, NeverFalls, NotAbove
<1>3. LifetimeInit => LifetimeInv
    BY <1>1, <1>2 DEF LifetimeInv
<1>4. LifetimeInv /\ [LifetimeNext]_lifetimeVars => LifetimeInv'
    BY LifetimeStep
<1> QED
    BY <1>3, <1>4, PTL DEF LifetimeSpec

-----------------------------------------------------------------------------
(* The theorems                                                            *)

\* The type invariant.
THEOREM LifetimeTypesHold ==
    LifetimeSpec => []LifetimeTypeOK
<1>1. LifetimeInv => LifetimeTypeOK
    BY DEF LifetimeInv
<1> QED
    BY <1>1, LifetimeAlways, PTL

\* Unless a save failed or was cancelled, or the store could not be read, what
\* a sensor shows is never below what the recorder has seen of it: the total
\* does not fall, whatever the portal leaves out and whenever the process dies.
THEOREM LifetimeNeverFalls ==
    LifetimeSpec => []NeverFalls
<1>1. LifetimeInv => NeverFalls
    BY DEF LifetimeInv, Sound, NeverFalls
<1> QED
    BY <1>1, LifetimeAlways, PTL

\* Under the same premise no step puts an older floor or count on disk,
\* however the saves of several inverters interleave.
THEOREM LifetimeDiskNeverRegresses ==
    LifetimeSpec => DiskNeverRegresses
<1>1. LifetimeInv /\ [LifetimeNext]_lifetimeVars
        => [~forgotten' => NoRegress]_lifetimeVars
    BY LifetimeStep
<1> QED
    BY <1>1, LifetimeAlways, PTL DEF LifetimeSpec, DiskNeverRegresses

-----------------------------------------------------------------------------
(***************************************************************************)
(* Proofs about RawSnapshot: its safety properties for any capabilities    *)
(* and units, any staging limit, any number of refreshes and stores.       *)
(***************************************************************************)

USE DEF vars, recordVars, storeVars, refreshVars, attemptVars, readVars

\* A store belongs to one unit; only open records with coverage hold one.
StoresOwned ==
    /\ \A u \in Unit : stores[u] <= made
    /\ \A u, v \in Unit : stores[u] = stores[v] /\ stores[u] # None => u = v
    /\ \A t \in Token : holds[t] # None => enabled[t] /\ rec[t] = "open"

\* Refreshes are numbered as they begin.
Numbered ==
    /\ over \subseteq 1..begun
    /\ \A a \in 1..begun : who[a] \in Token
    /\ \A a \in Refresh : a > begun => invoked[a] = 0

\* The active attempt of a store is a refresh whose bracket is open, and
\* whose record still holds the store it covers.
ActiveHeld ==
    \A s \in Store : active[s] # None =>
        /\ active[s] \in 1..begun /\ active[s] \notin over
        /\ holds[who[active[s]]] = s /\ cover[active[s]] = s

\* The highest poll cycle that the unit has used.
Used(u) == IF stores[u] = None THEN floor ELSE cycle[stores[u]]

IdentitiesUsed == \A a \in 1..begun : identity[a] <= Used(UnitOf[who[a]])

\* The counted reads of a refresh are its own first ones, each under its own
\* number; reads beyond the limit spoil it; its words are its own.
Counted(a, k) == read[a][k] \notin {"none", "extra"}

ReadsOwn ==
    \A a \in Refresh :
        /\ \A k \in Index : Counted(a, k) <=> k \in 1..invoked[a]
        /\ \A k \in Index : Counted(a, k) => joined[a][k] = <<a, k>>
        /\ \A k \in Index : read[a][k] = "extra" =>
                               invoked[a] = MaxInvocations /\ a \in spoiled
        /\ observed[a] \subseteq 1..invoked[a]
        /\ words[a] = {<<a, k>> : k \in observed[a]}

\* A published refresh is over, so nothing of it changes any more.
FramesOver ==
    \A s \in Store : frame[s] # None =>
        LET a == frame[s]
        IN  /\ a \in over /\ a \notin spoiled
            /\ cover[a] = s
            /\ observed[a] = 1..invoked[a]

SnapshotInv ==
    /\ TypeOK
    /\ StoresOwned
    /\ Numbered
    /\ ActiveHeld
    /\ IdentitiesUsed
    /\ IdentityUnique
    /\ ReadsOwn
    /\ FramesOver

-----------------------------------------------------------------------------

LEMMA MaxOfTwo ==
    ASSUME NEW x \in Nat, NEW y \in Nat
    PROVE  Max({x, y}) \in Nat /\ Max({x, y}) >= x /\ Max({x, y}) >= y
<1>1. \E m \in {x, y} : \A z \in {x, y} : m >= z
  OBVIOUS
<1> QED
  BY <1>1 DEF Max

LEMMA BoundsNatural == MaxStore \in Nat /\ MaxRefresh \in Nat /\ MaxInvocations \in Nat
                    /\ MaxInvocations > 0
  BY BoundsAssumption

\* The parts of the type invariant that the steps below disturb.
LEMMA StoreTypes ==
    ASSUME TypeOK
    PROVE  /\ stores \in [Unit -> Nat] /\ made \in Nat
           /\ holds \in [Token -> Nat]
           /\ \A u \in Unit : stores[u] = None \/ stores[u] \in Store
           /\ \A t \in Token : UnitOf[t] \in Unit
           /\ \A t \in Token : holds[t] # None => holds[t] = stores[UnitOf[t]]
           /\ \A u \in Unit : stores[u] # None => \E t \in Token : holds[t] = stores[u]
  BY BoundsNatural, UnitAssumption DEF TypeOK, Store, None

\* Taking hold of the unit's store, or of a new one.
LEMMA HoldKeeps ==
    ASSUME SnapshotInv, NEW t \in Token, holds[t] = None, Hold(t),
           UNCHANGED <<active, frame, floor, refreshVars, attemptVars, readVars>>,
           rec' = [rec EXCEPT ![t] = "open"],
           enabled' = [enabled EXCEPT ![t] = TRUE]
    PROVE  SnapshotInv'
<1> USE BoundsNatural, UnitAssumption DEF SnapshotInv, Store, None
<1> DEFINE s == stores[UnitOf[t]]
<1>0. UnitOf[t] \in Unit /\ s \in Nat /\ made \in 0..MaxStore
  BY StoreTypes DEF TypeOK
<1>1. /\ holds' \in [Token -> Store \cup {None}]
      /\ stores' \in [Unit -> Store \cup {None}]
      /\ made' \in 0..MaxStore
      /\ cycle' \in [Store -> Nat]
  <2>1. CASE s # None
    BY <1>0, <2>1 DEF TypeOK, Hold
  <2>2. CASE s = None
    <3>1. made + 1 \in Store
      BY <1>0, <2>2 DEF Hold
    <3>2. /\ made' = made + 1
          /\ stores' = [stores EXCEPT ![UnitOf[t]] = made + 1]
          /\ cycle' = [cycle EXCEPT ![made + 1] = floor]
          /\ holds' = [holds EXCEPT ![t] = made + 1]
      BY <2>2 DEF Hold
    <3>3. /\ holds \in [Token -> Store \cup {None}]
          /\ stores \in [Unit -> Store \cup {None}]
          /\ cycle \in [Store -> Nat] /\ floor \in Nat
      BY DEF TypeOK
    <3> HIDE DEF s
    <3> QED
      BY <1>0, <3>1, <3>2, <3>3
  <2> QED
    BY <2>1, <2>2
<1>2. /\ holds'[t] = stores'[UnitOf[t]] /\ holds'[t] # None
      /\ \A v \in Token \ {t} : holds'[v] = holds[v]
      /\ \A u \in Unit : stores[u] # None => stores'[u] = stores[u]
      /\ \A u \in Unit \ {UnitOf[t]} : stores'[u] = stores[u]
      /\ s = None => made' = made + 1 /\ s' = made + 1
      /\ s # None => made' = made /\ s' = s
  <2>1. CASE s # None
    BY <1>0, <2>1, StoreTypes DEF Hold
  <2>2. CASE s = None
    BY <1>0, <2>2, StoreTypes DEF Hold
  <2> QED
    BY <2>1, <2>2
<1>3. TypeOK'
  <2>1. \A v \in Token : holds'[v] # None => holds'[v] = stores'[UnitOf[v]]
    BY <1>2, StoreTypes
  <2>2. \A v \in Token : enabled'[v] /\ rec'[v] = "open" => holds'[v] # None
    <3>1. \A v \in Token : enabled[v] /\ rec[v] = "open" => holds[v] # None
      BY DEF TypeOK
    <3>2. \A v \in Token \ {t} : enabled'[v] = enabled[v] /\ rec'[v] = rec[v]
      BY DEF TypeOK
    <3> QED
      BY <1>2, <3>1, <3>2
  <2>3. \A u \in Unit : stores'[u] # None => \E v \in Token : holds'[v] = stores'[u]
    <3>1. ASSUME NEW u \in Unit, stores[u] # None
          PROVE  \E v \in Token : holds'[v] = stores'[u]
      <4>1. PICK v \in Token : holds[v] = stores[u]
        BY <3>1, StoreTypes
      <4> QED
        BY <1>2, <3>1, <4>1
    <3> QED
      BY <1>2, <3>1
  <2>4. rec' \in [Token -> {"new", "open", "closing"}] /\ enabled' \in [Token -> BOOLEAN]
    BY DEF TypeOK
  <2> QED
    BY <1>1, <2>1, <2>2, <2>3, <2>4 DEF TypeOK
<1>4. StoresOwned'
  <2>1. /\ \A u \in Unit : stores'[u] <= made'
        /\ \A u, v \in Unit : stores'[u] = stores'[v] /\ stores'[u] # None => u = v
    BY <1>0, <1>2, StoreTypes DEF StoresOwned
  <2>2. \A v \in Token : holds'[v] # None => enabled'[v] /\ rec'[v] = "open"
    BY <1>2 DEF TypeOK, StoresOwned
  <2> QED
    BY <2>1, <2>2 DEF StoresOwned
<1>5. Numbered' /\ IdentityUnique'
  BY DEF Numbered, IdentityUnique
<1>6. ActiveHeld'
  BY <1>2 DEF ActiveHeld, Numbered
<1>7. IdentitiesUsed'
  <2>1. \A u \in Unit : Used(u)' = Used(u)
    BY <1>2 DEF TypeOK, Hold, StoresOwned, Used
  <2> QED
    BY <2>1 DEF IdentitiesUsed, Numbered
<1>8. ReadsOwn' /\ FramesOver'
  BY DEF ReadsOwn, Counted, FramesOver
<1> QED
  BY <1>3, <1>4, <1>5, <1>6, <1>7, <1>8

\* Letting it go: the active attempt is dropped with it, and the poll cycle
\* of a dropped store lives on in the floor.
LEMMA LetGoKeeps ==
    ASSUME SnapshotInv, NEW t \in Token, LetGo(t),
           UNCHANGED <<refreshVars, attemptVars, readVars>>,
           rec' \in [Token -> {"new", "open", "closing"}],
           enabled' \in [Token -> BOOLEAN],
           ~(enabled'[t] /\ rec'[t] = "open"),
           \A v \in Token \ {t} : rec'[v] = rec[v] /\ enabled'[v] = enabled[v]
    PROVE  SnapshotInv'
<1> USE BoundsNatural, UnitAssumption DEF SnapshotInv, Store, None
<1> DEFINE s == holds[t]
<1>1. /\ holds'[t] = None
      /\ \A v \in Token \ {t} : holds'[v] = holds[v]
      /\ holds' \in [Token -> Store \cup {None}]
      /\ UNCHANGED <<made, cycle>>
  BY DEF TypeOK, LetGo
<1>2. CASE s = None
  <2>1. UNCHANGED <<holds, active, frame, stores, floor>>
    BY <1>1, <1>2 DEF TypeOK, LetGo
  <2>2. TypeOK'
    BY <2>1, <1>1, <1>2 DEF TypeOK
  <2>3. StoresOwned'
    BY <2>1, <1>1, <1>2 DEF StoresOwned
  <2> QED
    BY <1>1, <2>1, <2>2, <2>3 DEF Numbered, ActiveHeld, IdentitiesUsed, Used, IdentityUnique,
                                  ReadsOwn, Counted, FramesOver
<1>3. CASE s # None
  <2>1. s \in Store /\ s = stores[UnitOf[t]] /\ cycle[s] \in Nat /\ floor \in Nat
    BY <1>3 DEF TypeOK
  <2>2. active' = [active EXCEPT ![s] = None]
    BY <1>3 DEF LetGo
  <2>3. /\ frame' \in [Store -> Refresh \cup {None}]
        /\ \A r \in Store : frame'[r] # None => frame'[r] = frame[r]
    BY <1>3, <2>1 DEF LetGo, TypeOK
  <2>4. floor' \in Nat /\ floor' >= floor
    BY <1>3, <2>1, MaxOfTwo DEF LetGo, FloorAfter
  <2>5. \/ UNCHANGED <<stores, floor>> /\ \E v \in Token \ {t} : holds[v] = s
        \/ /\ stores' = [stores EXCEPT ![UnitOf[t]] = None]
           /\ floor' >= cycle[s]
           /\ \A v \in Token \ {t} : holds[v] # s
    BY <1>3, <2>1, MaxOfTwo DEF LetGo, FloorAfter, Dropped
  <2>6. TypeOK'
    <3>1. stores' \in [Unit -> Store \cup {None}] /\ active' \in [Store -> Refresh \cup {None}]
      BY <2>2, <2>5 DEF TypeOK
    <3>2. \A v \in Token : holds'[v] # None => holds'[v] = stores'[UnitOf[v]]
      BY <1>1, <2>1, <2>5, StoreTypes DEF StoresOwned
    <3>3. \A v \in Token : enabled'[v] /\ rec'[v] = "open" => holds'[v] # None
      BY <1>1 DEF TypeOK
    <3>4. \A u \in Unit : stores'[u] # None => \E v \in Token : holds'[v] = stores'[u]
      <4>1. ASSUME NEW u \in Unit, stores'[u] # None
            PROVE  \E v \in Token : holds'[v] = stores'[u]
        <5>1. stores'[u] = stores[u]
          BY <2>5, <4>1, StoreTypes
        <5>2. PICK v \in Token : holds[v] = stores[u]
          BY <4>1, <5>1, StoreTypes
        <5>3. CASE v # t
          BY <1>1, <5>1, <5>2, <5>3
        <5>4. CASE v = t
          <6>1. u = UnitOf[t]
            BY <2>1, <4>1, <5>1, <5>2, <5>4, StoreTypes DEF StoresOwned
          <6>2. \E w \in Token \ {t} : holds[w] = s
            BY <2>5, <4>1, <6>1, StoreTypes
          <6> QED
            BY <1>1, <5>1, <5>2, <5>4, <6>2
        <5> QED
          BY <5>3, <5>4
      <4> QED
        BY <4>1
    <3> QED
      BY <1>1, <2>3, <2>4, <3>1, <3>2, <3>3, <3>4 DEF TypeOK
  <2>7. StoresOwned'
    <3>1. /\ \A u \in Unit : stores'[u] <= made'
          /\ \A u, v \in Unit : stores'[u] = stores'[v] /\ stores'[u] # None => u = v
      BY <1>1, <2>5, StoreTypes DEF StoresOwned
    <3>2. \A v \in Token : holds'[v] # None => enabled'[v] /\ rec'[v] = "open"
      BY <1>1 DEF StoresOwned
    <3> QED
      BY <3>1, <3>2 DEF StoresOwned
  <2>8. Numbered' /\ IdentityUnique' /\ ReadsOwn'
    BY DEF Numbered, IdentityUnique, ReadsOwn, Counted
  <2>9. ActiveHeld'
    BY <1>1, <2>1, <2>2 DEF TypeOK, ActiveHeld, Numbered
  <2>10. IdentitiesUsed'
    <3>1. \A u \in Unit : Used(u)' >= Used(u)
      BY <1>1, <2>1, <2>4, <2>5 DEF TypeOK, Used
    <3>2. \A u \in Unit : Used(u) \in Nat /\ Used(u)' \in Nat
      BY <2>6 DEF TypeOK, Used
    <3> QED
      BY <3>1, <3>2 DEF TypeOK, IdentitiesUsed, Numbered, Refresh
  <2>11. FramesOver'
    BY <2>3 DEF FramesOver
  <2> QED
    BY <2>6, <2>7, <2>8, <2>9, <2>10, <2>11
<1> QED
  BY <1>2, <1>3

-----------------------------------------------------------------------------

\* A new refresh has an identity above all of its unit's.
LEMMA BeginKeeps ==
    ASSUME SnapshotInv, NEW t \in Token, Begin(t)
    PROVE  SnapshotInv'
<1> USE BoundsNatural, UnitAssumption DEF SnapshotInv, Store, Refresh, None
<1> DEFINE s == holds[t]
           a == begun + 1
<1>1. /\ s \in Store /\ a \in Refresh /\ begun \in Nat
      /\ cycle[s] \in Nat /\ s = stores[UnitOf[t]]
  BY StoreTypes DEF Begin, TypeOK
<1>2. /\ begun' = a /\ active[s] = None
      /\ cycle' = [cycle EXCEPT ![s] = @ + 1]
      /\ active' = [active EXCEPT ![s] = a]
      /\ who' = [who EXCEPT ![a] = t]
      /\ cover' = [cover EXCEPT ![a] = s]
      /\ identity' = [identity EXCEPT ![a] = cycle[s] + 1]
      /\ UNCHANGED <<recordVars, stores, made, frame, floor, over, attemptVars, readVars>>
  BY DEF Begin
<1> HIDE DEF s
<1>3. /\ who \in [Refresh -> Token \cup {None}] /\ identity \in [Refresh -> Nat]
      /\ cover \in [Refresh -> Store \cup {None}]
      /\ active \in [Store -> Refresh \cup {None}]
      /\ cycle \in [Store -> Nat]
  BY DEF TypeOK
<1>4. /\ who'[a] = t /\ cover'[a] = s /\ identity'[a] = cycle[s] + 1
      /\ \A b \in 1..begun : who'[b] = who[b] /\ cover'[b] = cover[b]
                               /\ identity'[b] = identity[b]
      /\ 1..begun' = (1..begun) \cup {a} /\ a \notin 1..begun
  BY <1>1, <1>2, <1>3
<1>5. TypeOK'
  <2>1. /\ who' \in [Refresh -> Token \cup {None}] /\ identity' \in [Refresh -> Nat]
        /\ cover' \in [Refresh -> Store \cup {None}]
        /\ active' \in [Store -> Refresh \cup {None}]
        /\ cycle' \in [Store -> Nat]
        /\ begun' \in 0..MaxRefresh
    BY <1>1, <1>2, <1>3
  <2> QED
    BY <1>2, <2>1 DEF TypeOK
<1>6. StoresOwned'
  BY <1>2 DEF StoresOwned
<1>7. Numbered'
  BY <1>1, <1>2, <1>4 DEF Numbered
<1>8. ActiveHeld'
  <2>1. a \notin over
    BY <1>4 DEF Numbered
  <2>2. ASSUME NEW r \in Store \ {s}, active'[r] # None
        PROVE  /\ active'[r] \in 1..begun' /\ active'[r] \notin over'
               /\ holds'[who'[active'[r]]] = r /\ cover'[active'[r]] = r
    <3>1. active'[r] = active[r]
      BY <1>1, <1>2, <1>3
    <3> QED
      BY <1>2, <1>4, <2>2, <3>1 DEF ActiveHeld
  <2>3. active'[s] = a
    BY <1>1, <1>2, <1>3
  <2> QED
    BY <1>2, <1>4, <2>1, <2>2, <2>3 DEF ActiveHeld, s
<1> DEFINE Later(u) == IF stores'[u] = None THEN floor' ELSE cycle'[stores'[u]]
<1>9. /\ Used(UnitOf[t]) = cycle[s] /\ Later(UnitOf[t]) = cycle[s] + 1
      /\ \A u \in Unit : Used(u) \in Nat /\ Later(u) \in Nat /\ Later(u) >= Used(u)
  <2>1. \A r \in Store : cycle'[r] \in Nat /\ cycle'[r] >= cycle[r]
    BY <1>1, <1>2, <1>3
  <2>2. floor \in Nat
    BY DEF TypeOK
  <2>3. \A u \in Unit : Used(u) \in Nat /\ Later(u) \in Nat /\ Later(u) >= Used(u)
    BY <1>2, <1>3, <2>1, <2>2, StoreTypes DEF Used
  <2>4. cycle'[s] = cycle[s] + 1 /\ s # None /\ stores' = stores
    BY <1>1, <1>2, <1>3
  <2> QED
    BY <1>1, <2>3, <2>4 DEF Used
<1> HIDE DEF Later
<1>10. IdentitiesUsed'
  <2>1. ASSUME NEW b \in 1..begun
        PROVE  identity'[b] <= Later(UnitOf[who'[b]])
    <3>1. /\ identity'[b] = identity[b] /\ identity[b] \in Nat
          /\ who'[b] = who[b] /\ UnitOf[who[b]] \in Unit
      BY <1>3, <1>4 DEF Numbered, TypeOK
    <3>2. identity[b] <= Used(UnitOf[who[b]])
      BY DEF IdentitiesUsed
    <3> QED
      BY <1>9, <3>1, <3>2
  <2>2. identity'[a] <= Later(UnitOf[who'[a]])
    BY <1>1, <1>4, <1>9
  <2> QED
    BY <1>4, <2>1, <2>2 DEF IdentitiesUsed, Used, Later
<1>11. IdentityUnique'
  <2>1. ASSUME NEW b \in 1..begun, UnitOf[who[b]] = UnitOf[t]
        PROVE  identity[b] # cycle[s] + 1
    <3>1. identity[b] \in Nat /\ identity[b] <= cycle[s]
      BY <1>3, <1>4, <1>9, <2>1 DEF TypeOK, IdentitiesUsed
    <3> QED
      BY <1>1, <3>1
  <2>2. ASSUME NEW b \in 1..begun', NEW c \in 1..begun',
               UnitOf[who'[b]] = UnitOf[who'[c]], identity'[b] = identity'[c]
        PROVE  b = c
    <3>1. CASE b = a
      BY <1>4, <2>1, <2>2, <3>1
    <3>2. CASE c = a
      BY <1>4, <2>1, <2>2, <3>2
    <3>3. CASE b # a /\ c # a
      <4>1. b \in 1..begun /\ c \in 1..begun
        BY <1>4, <3>3
      <4> QED
        BY <1>4, <2>2, <4>1 DEF IdentityUnique
    <3> QED
      BY <3>1, <3>2, <3>3
  <2> QED
    BY <2>2 DEF IdentityUnique
<1>12. ReadsOwn' /\ FramesOver'
  <2>1. ReadsOwn'
    BY <1>2 DEF ReadsOwn, Counted
  <2>2. FramesOver'
    BY <1>2, <1>4 DEF FramesOver, Numbered
  <2> QED
    BY <2>1, <2>2
<1> QED
  BY <1>5, <1>6, <1>7, <1>8, <1>10, <1>11, <1>12

\* The bracket closes: the attempt leaves its store, published or not.
LEMMA EndKeeps ==
    ASSUME SnapshotInv, NEW a \in Refresh, End(a)
    PROVE  SnapshotInv'
<1> USE BoundsNatural, UnitAssumption DEF SnapshotInv, Store, Refresh, None
<1> DEFINE s == holds[who[a]]
<1>1. /\ a \in 1..begun /\ a \notin over /\ over' = over \cup {a}
      /\ UNCHANGED <<recordVars, stores, made, cycle, floor, begun, who, cover, identity,
                     attemptVars, readVars>>
  BY DEF End, TypeOK
<1>2. active \in [Store -> Refresh \cup {None}] /\ frame \in [Store -> Refresh \cup {None}]
  BY DEF TypeOK
<1>3. CASE UNCHANGED <<active, frame>> /\ \A r \in Store : active[r] # a
  <2>1. TypeOK'
    BY <1>1, <1>3 DEF TypeOK
  <2>2. StoresOwned' /\ Numbered' /\ IdentitiesUsed' /\ IdentityUnique' /\ ReadsOwn'
    BY <1>1 DEF StoresOwned, Numbered, IdentitiesUsed, Used, IdentityUnique, ReadsOwn, Counted
  <2>3. ActiveHeld' /\ FramesOver'
    BY <1>1, <1>3 DEF ActiveHeld, FramesOver
  <2> QED
    BY <2>1, <2>2, <2>3
<1>4. CASE /\ s \in Store /\ active[s] = a
           /\ active' = [active EXCEPT ![s] = None]
           /\ frame' = IF Complete(a) THEN [frame EXCEPT ![s] = a] ELSE frame
  <2>0. cover[a] = s
    BY <1>4 DEF ActiveHeld
  <2> HIDE DEF s
  <2>1. TypeOK'
    <3>1. active' \in [Store -> Refresh \cup {None}] /\ frame' \in [Store -> Refresh \cup {None}]
      BY <1>2, <1>4
    <3> QED
      BY <1>1, <3>1 DEF TypeOK
  <2>2. StoresOwned' /\ Numbered' /\ IdentitiesUsed' /\ IdentityUnique' /\ ReadsOwn'
    BY <1>1 DEF StoresOwned, Numbered, IdentitiesUsed, Used, IdentityUnique, ReadsOwn, Counted
  <2>3. ActiveHeld'
    <3>1. \A r \in Store : active'[r] # None => r # s /\ active'[r] = active[r]
      BY <1>2, <1>4
    <3>2. \A r \in Store : active[r] = a => r = s
      BY <1>1 DEF ActiveHeld, s
    <3> QED
      BY <1>1, <3>1, <3>2 DEF ActiveHeld
  <2>4. FramesOver'
    <3>1. CASE Complete(a)
      <4>1. frame'[s] = a /\ \A r \in Store \ {s} : frame'[r] = frame[r]
        BY <1>2, <1>4, <3>1
      <4> QED
        BY <1>1, <2>0, <3>1, <4>1 DEF FramesOver, Complete
    <3>2. CASE ~Complete(a)
      BY <1>1, <1>4, <3>2 DEF FramesOver
    <3> QED
      BY <3>1, <3>2
  <2> QED
    BY <2>1, <2>2, <2>3, <2>4
<1>5. \A r \in Store : active[r] = a => r = s
  BY <1>1 DEF ActiveHeld
<1>6. who[a] \in Token /\ (s = None \/ s \in Store)
  BY <1>1 DEF Numbered, TypeOK
<1> QED
  BY <1>3, <1>4, <1>5, <1>6 DEF End, Finish

-----------------------------------------------------------------------------

\* The context that a read carries is that of its own refresh: the active
\* attempt it meets is the refresh it was made in, or none.
LEMMA ContextIsOwn ==
    ASSUME SnapshotInv, NEW a \in 1..begun, NEW b, b = ActiveOf(who[a]), SameContext(a, b)
    PROVE  b = a /\ a \notin over
<1>1. /\ holds[who[a]] \in Store /\ b = active[holds[who[a]]] /\ b # None
      /\ who[a] \in Token
  BY DEF SnapshotInv, TypeOK, Numbered, ActiveOf, SameContext, None
<1>2. b \in 1..begun /\ b \notin over
  BY <1>1 DEF SnapshotInv, ActiveHeld
<1> QED
  BY <1>2 DEF SnapshotInv, IdentityUnique, SameContext

\* What no read changes.
LEMMA ReadsKeepRest ==
    ASSUME SnapshotInv, UNCHANGED <<recordVars, storeVars, refreshVars>>
    PROVE  StoresOwned' /\ ActiveHeld' /\ IdentitiesUsed' /\ IdentityUnique'
  BY DEF SnapshotInv, StoresOwned, ActiveHeld, IdentitiesUsed, Used, IdentityUnique

\* A read is counted under the next number of its own refresh, or spoils it.
LEMMA ReadKeeps ==
    ASSUME SnapshotInv, NEW a \in Refresh, NEW k \in Index, Read(a, k)
    PROVE  SnapshotInv'
<1> USE BoundsNatural DEF SnapshotInv, Refresh, None
<1>1. /\ a \in 1..begun /\ begun \in Nat /\ UNCHANGED <<recordVars, storeVars, refreshVars>>
      /\ UNCHANGED <<returned, observed, words>>
      /\ read[a][k] = "none" /\ \A j \in 1..(k - 1) : read[a][j] # "none"
  BY DEF Read, TypeOK
<1>2. ActiveOf(who[a]) = a /\ a \notin over
  BY <1>1, ContextIsOwn DEF Read
<1>3. /\ invoked \in [Refresh -> 0..MaxInvocations] /\ spoiled \subseteq Refresh
      /\ read \in [Refresh -> [Index -> {"none", "wire", "noted", "returned",
                                         "failed", "extra"}]]
      /\ joined \in [Refresh -> [Index -> (Refresh \cup {None}) \X (0..MaxInvocations)]]
  BY DEF TypeOK
<1>4. StoresOwned' /\ ActiveHeld' /\ IdentitiesUsed' /\ IdentityUnique'
  BY <1>1, ReadsKeepRest
<1>5. CASE invoked[a] < MaxInvocations
  <2>1. /\ invoked' = [invoked EXCEPT ![a] = @ + 1]
        /\ joined' = [joined EXCEPT ![a][k] = <<a, invoked[a] + 1>>]
        /\ read' = [read EXCEPT ![a][k] = "wire"]
        /\ UNCHANGED spoiled
    BY <1>2, <1>5 DEF Read
  <2>2. /\ invoked[a] \in Nat /\ invoked[a] + 1 \in 1..MaxInvocations
        /\ invoked[a] + 1 \in Index /\ k \in Nat \ {0}
    <3>1. invoked[a] \in 0..MaxInvocations
      BY <1>3
    <3> QED
      BY <3>1, <1>5 DEF Index
  <2>3. k = invoked[a] + 1
    <3>1. ~(k <= invoked[a])
      BY <1>1, <2>2 DEF ReadsOwn, Counted
    <3>2. ~(invoked[a] + 1 < k)
      <4>1. SUFFICES ASSUME invoked[a] + 1 < k
                     PROVE  FALSE
        OBVIOUS
      <4>2. invoked[a] + 1 \in 1..(k - 1)
        BY <2>2, <4>1
      <4>3. read[a][invoked[a] + 1] # "none" /\ ~Counted(a, invoked[a] + 1)
        BY <1>1, <2>2, <4>2 DEF ReadsOwn
      <4> QED
        BY <1>5, <2>2, <4>3 DEF ReadsOwn, Counted
    <3> QED
      BY <2>2, <3>1, <3>2
  <2>4. /\ invoked' \in [Refresh -> 0..MaxInvocations]
        /\ read' \in [Refresh -> [Index -> {"none", "wire", "noted", "returned",
                                            "failed", "extra"}]]
        /\ joined' \in [Refresh -> [Index -> (Refresh \cup {None}) \X (0..MaxInvocations)]]
    BY <1>3, <2>1, <2>2
  <2>5. TypeOK'
    BY <1>1, <2>1, <2>4 DEF TypeOK
  <2>6. Numbered'
    BY <1>1, <1>3, <2>1 DEF Numbered
  <2>7. /\ invoked'[a] = invoked[a] + 1 /\ joined'[a][k] = <<a, k>> /\ read'[a][k] = "wire"
        /\ \A j \in Index \ {k} : read'[a][j] = read[a][j] /\ joined'[a][j] = joined[a][j]
        /\ \A b \in Refresh \ {a} : read'[b] = read[b] /\ joined'[b] = joined[b]
                                      /\ invoked'[b] = invoked[b]
    BY <1>3, <2>1, <2>2, <2>3
  <2>8. ReadsOwn'
    <3>1. ASSUME NEW b \in Refresh \ {a}
          PROVE  /\ \A j \in Index : Counted(b, j)' <=> j \in 1..invoked'[b]
                 /\ \A j \in Index : Counted(b, j)' => joined'[b][j] = <<b, j>>
                 /\ \A j \in Index : read'[b][j] = "extra" =>
                                        invoked'[b] = MaxInvocations /\ b \in spoiled'
                 /\ observed'[b] \subseteq 1..invoked'[b]
                 /\ words'[b] = {<<b, j>> : j \in observed'[b]}
      BY <1>1, <2>1, <2>7 DEF ReadsOwn, Counted
    <3>2. \A j \in Index : Counted(a, j)' <=> j \in 1..invoked'[a]
      BY <2>2, <2>3, <2>7 DEF ReadsOwn, Counted, Index
    <3>3. \A j \in Index : Counted(a, j)' => joined'[a][j] = <<a, j>>
      BY <2>7 DEF ReadsOwn, Counted
    <3>4. \A j \in Index : read'[a][j] # "extra"
      BY <1>5, <2>2, <2>7 DEF ReadsOwn
    <3>5. observed'[a] \subseteq 1..invoked'[a] /\ words'[a] = {<<a, j>> : j \in observed'[a]}
      BY <1>1, <2>2, <2>7 DEF ReadsOwn
    <3> QED
      BY <3>1, <3>2, <3>3, <3>4, <3>5 DEF ReadsOwn
  <2>9. FramesOver'
    BY <1>1, <1>2, <2>1, <2>7 DEF FramesOver, TypeOK
  <2> QED
    BY <1>4, <2>5, <2>6, <2>8, <2>9
<1>6. CASE ~(invoked[a] < MaxInvocations)
  <2>1. /\ spoiled' = spoiled \cup {a}
        /\ read' = [read EXCEPT ![a][k] = "extra"]
        /\ UNCHANGED <<invoked, joined>>
    BY <1>2, <1>6 DEF Read
  <2>2. invoked[a] = MaxInvocations
    BY <1>3, <1>6
  <2>3. read' \in [Refresh -> [Index -> {"none", "wire", "noted", "returned",
                                         "failed", "extra"}]]
    BY <1>3, <2>1
  <2>4. TypeOK' /\ Numbered'
    BY <1>1, <1>3, <2>1, <2>3 DEF TypeOK, Numbered
  <2>5. /\ read'[a][k] = "extra"
        /\ \A j \in Index \ {k} : read'[a][j] = read[a][j]
        /\ \A b \in Refresh \ {a} : read'[b] = read[b]
    BY <1>3, <2>1
  <2>6. ReadsOwn'
    BY <1>1, <2>1, <2>2, <2>5 DEF ReadsOwn, Counted
  <2>7. FramesOver'
    BY <1>1, <1>2, <2>1 DEF FramesOver
  <2> QED
    BY <1>4, <2>4, <2>6, <2>7
<1> QED
  BY <1>5, <1>6

\* An observation is added to its own refresh only, and not after its end.
LEMMA ObserveKeeps ==
    ASSUME SnapshotInv, NEW a \in Refresh, NEW k \in Index, Observe(a, k)
    PROVE  SnapshotInv'
<1> USE BoundsNatural DEF SnapshotInv, Refresh, None
<1>1. /\ read[a][k] = "wire"
      /\ read' = [read EXCEPT ![a][k] = "noted"]
      /\ UNCHANGED <<recordVars, storeVars, refreshVars, invoked, returned, spoiled, joined>>
  BY DEF Observe
<1>2. /\ k \in 1..invoked[a] /\ joined[a][k] = <<a, k>>
  BY <1>1 DEF ReadsOwn, Counted
<1>3. a \in 1..begun
  <2>1. begun \in Nat /\ invoked[a] \in Nat
    BY DEF TypeOK
  <2> QED
    BY <1>2, <2>1 DEF Numbered
<1>4. \/ UNCHANGED <<observed, words>>
      \/ /\ a \notin over
         /\ observed' = [observed EXCEPT ![a] = @ \cup {k}]
         /\ words' = [words EXCEPT ![a] = @ \cup {<<a, k>>}]
  BY <1>2, <1>3, ContextIsOwn DEF Observe
<1>5. /\ observed \in [Refresh -> SUBSET Index]
      /\ words \in [Refresh -> SUBSET (Refresh \X Index)]
      /\ read \in [Refresh -> [Index -> {"none", "wire", "noted", "returned",
                                         "failed", "extra"}]]
  BY DEF TypeOK
<1>6. TypeOK'
  <2>1. /\ observed' \in [Refresh -> SUBSET Index]
        /\ words' \in [Refresh -> SUBSET (Refresh \X Index)]
        /\ read' \in [Refresh -> [Index -> {"none", "wire", "noted", "returned",
                                            "failed", "extra"}]]
    BY <1>1, <1>4, <1>5
  <2> QED
    BY <1>1, <2>1 DEF TypeOK
<1>7. Numbered'
  BY <1>1 DEF Numbered
<1>8. ReadsOwn'
  <2>1. /\ \A b \in Refresh, j \in Index : Counted(b, j)' <=> Counted(b, j)
        /\ \A b \in Refresh, j \in Index : read'[b][j] = "extra" => read[b][j] = "extra"
    BY <1>1, <1>5 DEF Counted
  <2>2. ASSUME NEW b \in Refresh
        PROVE  /\ observed'[b] \subseteq 1..invoked'[b]
               /\ words'[b] = {<<b, j>> : j \in observed'[b]}
    BY <1>1, <1>2, <1>4, <1>5 DEF ReadsOwn
  <2> QED
    BY <1>1, <2>1, <2>2 DEF ReadsOwn
<1>9. FramesOver'
  BY <1>1, <1>4, <1>5 DEF FramesOver, TypeOK
<1> QED
  BY <1>1, <1>6, <1>7, <1>8, <1>9, ReadsKeepRest

\* The ends of a read change neither what it was counted under nor its words.
LEMMA ReadEndKeeps ==
    ASSUME SnapshotInv, NEW a \in Refresh, NEW k \in Index, Fails(a, k) \/ Return(a, k)
    PROVE  SnapshotInv'
<1> USE BoundsNatural DEF SnapshotInv, Refresh, None
<1>1. /\ UNCHANGED <<recordVars, storeVars, refreshVars, invoked, observed, words, spoiled,
                     joined>>
      /\ Counted(a, k)
      /\ \/ read' = [read EXCEPT ![a][k] = "failed"]
         \/ read' = [read EXCEPT ![a][k] = "returned"]
  BY DEF Fails, Return, Counted
<1>2. read \in [Refresh -> [Index -> {"none", "wire", "noted", "returned", "failed", "extra"}]]
  BY DEF TypeOK
<1>3. joined[a][k] = <<a, k>>
  BY <1>1 DEF ReadsOwn
<1>4. returned' = returned \/ returned' = [returned EXCEPT ![a] = @ \cup {k}]
  BY <1>3 DEF Fails, Return
<1>5. TypeOK'
  <2>1. read' \in [Refresh -> [Index -> {"none", "wire", "noted", "returned",
                                         "failed", "extra"}]]
    BY <1>1, <1>2
  <2>2. returned' \in [Refresh -> SUBSET Index]
    BY <1>4 DEF TypeOK
  <2> QED
    BY <1>1, <2>1, <2>2 DEF TypeOK
<1>6. /\ \A b \in Refresh, j \in Index : Counted(b, j)' <=> Counted(b, j)
      /\ \A b \in Refresh, j \in Index : read'[b][j] = "extra" => read[b][j] = "extra"
  BY <1>1, <1>2 DEF Counted
<1>7. ReadsOwn' /\ Numbered' /\ FramesOver'
  BY <1>1, <1>6 DEF ReadsOwn, Numbered, FramesOver
<1> QED
  BY <1>1, <1>5, <1>7, ReadsKeepRest

\* Only a refresh that is not over is spoiled.
LEMMA SpoilKeeps ==
    ASSUME SnapshotInv, NEW a \in Refresh, Spoil(a)
    PROVE  SnapshotInv'
<1> USE DEF SnapshotInv
<1>1. /\ a \notin over /\ spoiled' = spoiled \cup {a}
      /\ UNCHANGED <<recordVars, storeVars, refreshVars, invoked, returned, observed, words,
                     readVars>>
  BY DEF Spoil
<1>2. TypeOK' /\ Numbered'
  BY <1>1 DEF TypeOK, Numbered
<1>3. ReadsOwn' /\ FramesOver'
  BY <1>1 DEF ReadsOwn, Counted, FramesOver
<1> QED
  BY <1>1, <1>2, <1>3, ReadsKeepRest

-----------------------------------------------------------------------------

\* No step of any actor leaves the invariant.
LEMMA StepKeepsSnapshot ==
    ASSUME SnapshotInv, [Next]_vars
    PROVE  SnapshotInv'
<1> USE DEF SnapshotInv
<1>1. ASSUME NEW t \in Token, NEW on \in BOOLEAN, Add(t, on)
      PROVE  SnapshotInv'
  <2>1. holds[t] = None /\ rec' = [rec EXCEPT ![t] = "open"]
    BY <1>1 DEF Add, StoresOwned
  <2>2. CASE on
    BY <1>1, <2>1, <2>2, HoldKeeps DEF Add
  <2>3. CASE ~on
    <3>1. /\ UNCHANGED <<holds, storeVars, refreshVars, attemptVars, readVars>>
          /\ enabled' = [enabled EXCEPT ![t] = FALSE]
      BY <1>1, <2>3 DEF Add
    <3>2. TypeOK'
      <4>1. rec' \in [Token -> {"new", "open", "closing"}] /\ enabled' \in [Token -> BOOLEAN]
        BY <2>1, <3>1 DEF TypeOK
      <4>2. \A v \in Token : enabled'[v] /\ rec'[v] = "open" => holds'[v] # None
        <5>1. ~enabled'[t] /\ \A v \in Token \ {t} : enabled'[v] = enabled[v] /\ rec'[v] = rec[v]
          BY <2>1, <3>1 DEF TypeOK
        <5> QED
          BY <3>1, <5>1 DEF TypeOK
      <4> QED
        BY <3>1, <4>1, <4>2 DEF TypeOK
    <3>3. StoresOwned'
      <4>1. \A v \in Token \ {t} : enabled'[v] = enabled[v] /\ rec'[v] = rec[v]
        BY <2>1, <3>1 DEF TypeOK
      <4> QED
        BY <2>1, <3>1, <4>1 DEF StoresOwned
    <3> QED
      BY <3>1, <3>2, <3>3 DEF Numbered, ActiveHeld, IdentitiesUsed, Used, IdentityUnique,
                              ReadsOwn, Counted, FramesOver
  <2> QED
    BY <2>2, <2>3
<1>2. ASSUME NEW t \in Token, CoverageGained(t)
      PROVE  SnapshotInv'
  <2>1. holds[t] = None
    BY <1>2 DEF CoverageGained, StoresOwned
  <2>2. rec' = [rec EXCEPT ![t] = "open"]
    BY <1>2 DEF CoverageGained, TypeOK
  <2> QED
    BY <1>2, <2>1, <2>2, HoldKeeps DEF CoverageGained
<1>3. ASSUME NEW t \in Token, CoverageLost(t)
      PROVE  SnapshotInv'
  <2>1. /\ rec' \in [Token -> {"new", "open", "closing"}] /\ enabled' \in [Token -> BOOLEAN]
        /\ ~enabled'[t]
        /\ \A v \in Token \ {t} : rec'[v] = rec[v] /\ enabled'[v] = enabled[v]
    BY <1>3 DEF CoverageLost, TypeOK
  <2> QED
    BY <1>3, <2>1, LetGoKeeps DEF CoverageLost
<1>4. ASSUME NEW t \in Token, Close(t)
      PROVE  SnapshotInv'
  <2>1. /\ rec' \in [Token -> {"new", "open", "closing"}] /\ enabled' \in [Token -> BOOLEAN]
        /\ rec'[t] # "open"
        /\ \A v \in Token \ {t} : rec'[v] = rec[v] /\ enabled'[v] = enabled[v]
    BY <1>4 DEF Close, TypeOK
  <2> QED
    BY <1>4, <2>1, LetGoKeeps DEF Close
<1>5. ASSUME NEW a \in Refresh, NEW k \in Index,
             Read(a, k) \/ Observe(a, k) \/ Fails(a, k) \/ Return(a, k)
      PROVE  SnapshotInv'
  BY <1>5, ReadKeeps, ObserveKeeps, ReadEndKeeps
<1>6. CASE UNCHANGED vars
  <2>1. TypeOK' /\ Numbered'
    BY <1>6 DEF TypeOK, Numbered
  <2>2. ReadsOwn' /\ FramesOver'
    BY <1>6 DEF ReadsOwn, Counted, FramesOver
  <2> QED
    BY <1>6, <2>1, <2>2, ReadsKeepRest
<1> QED
  BY <1>1, <1>2, <1>3, <1>4, <1>5, <1>6, BeginKeeps, SpoilKeeps, EndKeeps DEF Next

\* The invariant holds in every state, for any capabilities, units and limits.
THEOREM SnapshotCorrect == Spec => []SnapshotInv
<1>1. Init => SnapshotInv
  <2> SUFFICES ASSUME Init PROVE SnapshotInv
    OBVIOUS
  <2> USE BoundsNatural, UnitAssumption DEF Init, None, Store, Refresh, Index
  <2>1. TypeOK
    BY DEF TypeOK
  <2>2. StoresOwned /\ Numbered /\ ActiveHeld
    BY DEF StoresOwned, Numbered, ActiveHeld
  <2>3. IdentitiesUsed /\ IdentityUnique
    BY DEF IdentitiesUsed, IdentityUnique
  <2>4. ReadsOwn /\ FramesOver
    BY DEF ReadsOwn, Counted, FramesOver
  <2> QED
    BY <2>1, <2>2, <2>3, <2>4 DEF SnapshotInv
<1> QED
  BY <1>1, StepKeepsSnapshot, PTL DEF Spec

\* A published frame is all of one refresh and nothing else.
THEOREM FramesAlwaysExact == Spec => []FrameExact
<1>1. SnapshotInv => FrameExact
  BY DEF SnapshotInv, FrameExact, FramesOver, ReadsOwn, TypeOK, None
<1> QED
  BY <1>1, SnapshotCorrect, PTL

\* No two refreshes of a unit have one identity, whatever becomes of its store.
THEOREM IdentitiesNeverRepeat == Spec => []IdentityUnique
<1>1. SnapshotInv => IdentityUnique
  BY DEF SnapshotInv
<1> QED
  BY <1>1, SnapshotCorrect, PTL

\* No refresh that is over leaves its unit active, which would refuse every
\* later one.
THEOREM NeverLeftActive == Spec => []NeverStuck
<1>1. SnapshotInv => NeverStuck
  BY DEF SnapshotInv, ActiveHeld, NeverStuck
<1> QED
  BY <1>1, SnapshotCorrect, PTL

==============================================================================
