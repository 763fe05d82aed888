---------------------------- MODULE ControlWrites ----------------------------
(***************************************************************************)
(* The controls of which one logical write is several calls: a schedule    *)
(* time (hour and minute of one register), the button that clears every    *)
(* boundary of a schedule, and the battery control mode (two bits of one   *)
(* register).  A command holds the transaction lock of each register it    *)
(* writes, taken in register order, over all its calls and over the read   *)
(* of the device that must follow a write of which a part went through.    *)
(* The value of a field is the command that wrote it.                      *)
(*                                                                         *)
(* Beside the commands the parameters are polled.  A read, a command's or  *)
(* a poll, publishes what it sampled some time before; only a field with a *)
(* seed (ParameterSeeds) is safe from that, and a command whose calls went *)
(* through the local transport leaves none.  The device object reads for   *)
(* one at a time, and whoever has read publishes before the next read; the *)
(* poll of a local coordinator is its cycle's, which reads past the object.*)
(***************************************************************************)
EXTENDS Naturals, FiniteSets

CONSTANTS
    Writers,        \* commands, each issued once
    Registers,      \* the schedule's registers, or register 179 of each inverter
    Factory,        \* what a field holds before any command
    Nobody          \* no holder of a lock

ASSUME ControlAssumption ==
    /\ Registers \subseteq Nat
    /\ \E last \in Registers : \A r \in Registers : r <= last
    /\ Factory \notin Writers
    /\ Nobody \notin Writers

VARIABLES
    control,        \* "schedule", "timed" (written by one cloud call), or "mode"
    access,         \* the routes there are: "local", "cloud", "hybrid", or "blocked"
                    \* (a local transport that this family must not write through)
    linkDown,       \* is_transport_link_down()
    device,         \* the writer of each field of each register
    cache,          \* the writer whose value coordinator.data shows for it
    holder,         \* the holder of each register's transaction lock
    stage,          \* where each command is
    kind,           \* "set", "clear" or "mode"
    target,         \* the registers of each command
    route,          \* the route of its current attempt
    left,           \* the fields that attempt has still to write
    sample,         \* what its read of the device is going to publish
    verdict,        \* how its writes ended
    polling,        \* a poll has sampled and not yet published
    polled,         \* what it is going to publish
    seeded,         \* the fields with a live seed; the cache shows its value
    doubt           \* history: fields shown wrongly for a reason (CacheHonest)

plantVars == <<control, access, linkDown>>
commandVars == <<kind, target>>
pollVars == <<polling, polled>>
shownVars == <<cache, seeded, doubt>>
controlVars == <<plantVars, device, holder, stage, commandVars, route, left, sample, verdict,
                 pollVars, shownVars>>

Places(rs) == rs \X {1, 2}

AllOf(w) == Places(target[w])

Values == Writers \cup {Factory}

ControlTypeOK ==
    /\ control \in {"schedule", "timed", "mode"}
    /\ access \in {"local", "cloud", "hybrid", "blocked"}
    /\ linkDown \in BOOLEAN
    /\ {device, cache, polled} \subseteq [Places(Registers) -> Values]
    /\ holder \in [Registers -> Writers \cup {Nobody}]
    /\ stage \in [Writers -> {"idle", "locking", "writing", "reading", "publishing", "over"}]
    /\ kind \in [Writers -> {"set", "clear", "mode"}]
    /\ target \in [Writers -> SUBSET Registers]
    /\ route \in [Writers -> {"local", "cloud"}]
    /\ left \in [Writers -> SUBSET Places(Registers)]
    /\ sample \in [Writers -> [Places(Registers) -> Values]]
    /\ verdict \in [Writers -> {"open", "done", "failed", "cancelled"}]
    /\ polling \in BOOLEAN
    /\ (seeded \cup doubt) \subseteq Places(Registers)

Pristine == [p \in Places(Registers) |-> Factory]

ControlInit ==
    /\ control \in {"schedule", "timed", "mode"}
    /\ access \in {"local", "cloud", "hybrid", "blocked"}
    /\ control = "mode" => access # "blocked"
    /\ linkDown = FALSE
    /\ device = Pristine
    /\ cache = Pristine
    /\ holder = [r \in Registers |-> Nobody]
    /\ stage = [w \in Writers |-> "idle"]
    /\ kind = [w \in Writers |-> "set"]
    /\ target = [w \in Writers |-> {}]
    /\ route = [w \in Writers |-> "cloud"]
    /\ left = [w \in Writers |-> {}]
    /\ sample = [w \in Writers |-> Pristine]
    /\ verdict = [w \in Writers |-> "open"]
    /\ polling = FALSE /\ polled = Pristine
    /\ seeded = {} /\ doubt = {}

-----------------------------------------------------------------------------
(* Locks and routes                                                        *)

Lacking(w) == {r \in target[w] : holder[r] # w}

\* Mutant of NextLocks: the locks are taken in any order.
LocksInAnyOrder(w) == Lacking(w)

\* schedule_register_locks(): in register order.
NextLocks(w) == {r \in Lacking(w) : \A q \in Lacking(w) : r <= q}

\* Mutant of Free: the lock excludes nobody.
NeverLocked(r) == TRUE

Free(r) == holder[r] = Nobody

Released(w) == [r \in Registers |-> IF holder[r] = w THEN Nobody ELSE holder[r]]

Attached == access # "cloud"

\* Where async_write_with_cloud_fallback starts.  The clear knows only the cloud.
FirstRoute(w) ==
    IF kind[w] # "clear" /\ (access = "local" \/ (access = "hybrid" /\ ~linkDown))
    THEN "local" ELSE "cloud"

\* The fields the next call writes: a local schedule write sets the packed
\* register, write_time_parameter both fields; otherwise one field per call,
\* in register order.
Piece(w) ==
    IF kind[w] = "set" /\ (route[w] = "local" \/ control = "timed")
    THEN left[w]
    ELSE {p \in left[w] : \A q \in left[w] : p[1] < q[1] \/ (p[1] = q[1] /\ p[2] <= q[2])}

Written(f, places, w) == [p \in DOMAIN f |-> IF p \in places THEN w ELSE f[p]]

\* A call of which nobody saw the end may have landed.
MayHaveLanded(w) == device' \in {device, Written(device, Piece(w), w)}

\* Mutant of Noted: a read that is in flight publishes over the seed.
NotedForNewReads(w, P) ==
    /\ cache' = Written(cache, P, w)
    /\ seeded' = seeded \cup P
    /\ UNCHANGED <<sample, polled>>

\* note_parameters_written() for the fields P: they are shown, and a read that is
\* in flight is going to publish them in place of what it sampled.
Noted(w, P) ==
    /\ cache' = Written(cache, P, w)
    /\ seeded' = seeded \cup P
    /\ sample' = [v \in Writers |->
                    IF stage[v] = "publishing" THEN Written(sample[v], P, w) ELSE sample[v]]
    /\ polled' = IF polling THEN Written(polled, P, w) ELSE polled

NothingNoted == UNCHANGED <<cache, seeded, sample, polled>>

\* There is a reason for the cache to be wrong about the fields P.
Doubtful(P) == doubt' = {p \in doubt \cup P : cache'[p] # device'[p]}

Ends(w) ==
    /\ stage' = [stage EXCEPT ![w] = "over"]
    /\ holder' = Released(w)

\* The locks are kept for the read.
Reads(w) ==
    /\ stage' = [stage EXCEPT ![w] = "reading"]
    /\ UNCHANGED holder

-----------------------------------------------------------------------------
(* The commands                                                            *)

\* The clear needs the cloud, and exists for classic schedules only.
Call(w) ==
    /\ stage[w] = "idle"
    /\ \/ \E r \in Registers :
            /\ target' = [target EXCEPT ![w] = {r}]
            /\ kind' = [kind EXCEPT ![w] = IF control = "mode" THEN "mode" ELSE "set"]
       \/ /\ control = "schedule" /\ access # "local"
          /\ target' = [target EXCEPT ![w] = Registers]
          /\ kind' = [kind EXCEPT ![w] = "clear"]
    /\ stage' = [stage EXCEPT ![w] = "locking"]
    /\ UNCHANGED <<plantVars, device, holder, route, left, sample, verdict, pollVars, shownVars>>

\* With its last lock a command starts to write.
TakeLock(w) ==
    /\ stage[w] = "locking"
    /\ \E r \in NextLocks(w) :
        /\ Free(r)
        /\ holder' = [holder EXCEPT ![r] = w]
        /\ IF Lacking(w) = {r}
           THEN /\ stage' = [stage EXCEPT ![w] = "writing"]
                /\ route' = [route EXCEPT ![w] = FirstRoute(w)]
                /\ left' = [left EXCEPT ![w] = AllOf(w)]
           ELSE UNCHANGED <<stage, route, left>>
    /\ UNCHANGED <<plantVars, device, commandVars, sample, verdict, pollVars, shownVars>>

\* The last call of the cloud route seeds the cache of an attached transport
\* (local_values); the clear passes none.
Seeds(w) == route[w] = "cloud" /\ Attached /\ kind[w] # "clear"

\* After the last call a set reads the parameters again unless the link is
\* down, a clear always; the options flow that sets the mode does not.
ReadsBack(w) == kind[w] = "clear" \/ (kind[w] = "set" /\ ~linkDown)

\* A command ends without a read: what it wrote may not be shown.
EndsUnread(w) == Ends(w) /\ Doubtful(AllOf(w))

\* A call is acknowledged.
PieceAcked(w) ==
    /\ stage[w] = "writing"
    /\ device' = Written(device, Piece(w), w)
    /\ left' = [left EXCEPT ![w] = @ \ Piece(w)]
    /\ IF left'[w] # {}
       THEN UNCHANGED <<holder, stage, verdict, doubt>> /\ NothingNoted
       ELSE /\ IF Seeds(w) THEN Noted(w, AllOf(w)) ELSE NothingNoted
            /\ verdict' = [verdict EXCEPT ![w] = "done"]
            /\ IF ReadsBack(w) THEN Reads(w) /\ UNCHANGED doubt ELSE EndsUnread(w)
    /\ UNCHANGED <<plantVars, commandVars, route, polling>>

\* An acknowledged call precedes the one that ended badly ("wrote_any",
\* "written", the charge bit), so the device has to be read again.
PartWritten(w) == left[w] # AllOf(w)

\* A command stops in the middle of its writes.  A mode whose link is down
\* seeds the bit that was acknowledged in place of the read, a set does not
\* read either; the clear tries in any case.
StopWriting(w, why) ==
    /\ verdict' = [verdict EXCEPT ![w] = why]
    /\ IF PartWritten(w) /\ (kind[w] = "clear" \/ ~linkDown)
       THEN Reads(w) /\ NothingNoted /\ UNCHANGED doubt
       ELSE /\ Noted(w, IF kind[w] = "mode" THEN AllOf(w) \ left[w] ELSE {})
            /\ EndsUnread(w)

\* A local call fails.  The mode's second one seeds the bit that is known to
\* have landed.  The cloud, when there is one, starts over with every field.
LocalFails(w) ==
    /\ stage[w] = "writing" /\ route[w] = "local"
    /\ MayHaveLanded(w)
    /\ Noted(w, AllOf(w) \ left[w])
    /\ IF access = "hybrid"
       THEN /\ route' = [route EXCEPT ![w] = "cloud"]
            /\ left' = [left EXCEPT ![w] = AllOf(w)]
            /\ UNCHANGED <<holder, stage, verdict, doubt>>
       ELSE /\ EndsUnread(w)
            /\ verdict' = [verdict EXCEPT ![w] = "failed"]
            /\ UNCHANGED <<route, left>>
    /\ UNCHANGED <<plantVars, commandVars, polling>>

\* A cloud call fails or is not acknowledged.
CloudFails(w) ==
    /\ stage[w] = "writing" /\ route[w] = "cloud"
    /\ MayHaveLanded(w)
    /\ StopWriting(w, "failed")
    /\ UNCHANGED <<plantVars, commandVars, route, left, polling>>

\* The service call is cancelled during a write.
WriteCancelled(w) ==
    /\ stage[w] = "writing"
    /\ MayHaveLanded(w)
    /\ StopWriting(w, "cancelled")
    /\ UNCHANGED <<plantVars, commandVars, route, left, polling>>

\* ... while it waits for a lock: those it has are released.
WaitCancelled(w) ==
    /\ stage[w] = "locking"
    /\ Ends(w)
    /\ verdict' = [verdict EXCEPT ![w] = "cancelled"]
    /\ UNCHANGED <<plantVars, device, commandVars, route, left, sample, pollVars, shownVars>>

-----------------------------------------------------------------------------
(* Reads                                                                   *)

\* Each mode is that of an inverter of its own, with a device object of its own.
ReadBy(w) == IF control = "mode" THEN AllOf(w) ELSE Places(Registers)

CommandReads == \E w \in Writers : stage[w] = "publishing"

\* The values of a read go into the cache.  The seeds of some fields, K, are
\* within their settle window, and stay though the read disagrees.
Published(values, places) ==
    \E K \in SUBSET (places \cap seeded) :
        /\ cache' = [p \in DOMAIN cache |-> IF p \in places \ K THEN values[p] ELSE cache[p]]
        /\ Doubtful(IF access = "local" THEN places ELSE K)

\* A command's read of the device's parameters: values taken, ...
ReadSampled(w) ==
    /\ stage[w] = "reading"
    /\ CommandReads => control = "mode"
    /\ polling => access = "local"
    /\ sample' = [sample EXCEPT ![w] = device]
    /\ stage' = [stage EXCEPT ![w] = "publishing"]
    /\ UNCHANGED <<plantVars, device, holder, commandVars, route, left, verdict, pollVars, shownVars>>

\* ... then published.
ReadPublished(w) ==
    /\ stage[w] = "publishing"
    /\ UNCHANGED <<plantVars, device, commandVars, route, left, verdict, pollVars, seeded>>
    /\ Published(sample[w], ReadBy(w))
    /\ sample' = [sample EXCEPT ![w] = Pristine]
    /\ Ends(w)

\* The read fails, or the command is cancelled in it.
ReadLost(w) ==
    /\ stage[w] \in {"reading", "publishing"}
    /\ UNCHANGED <<plantVars, device, commandVars, route, left, verdict, pollVars, cache, seeded>>
    /\ sample' = [sample EXCEPT ![w] = Pristine]
    /\ EndsUnread(w)

\* A poll of the parameters samples them, ...
PollSampled ==
    /\ ~polling
    /\ CommandReads => access = "local"
    /\ polling' = TRUE
    /\ polled' = device
    /\ UNCHANGED <<plantVars, device, holder, stage, commandVars, route, left, sample, verdict,
                   shownVars>>

\* ... and publishes them.
PollPublished ==
    /\ polling
    /\ UNCHANGED <<plantVars, device, holder, stage, commandVars, route, left, sample, verdict,
                   seeded>>
    /\ Published(polled, Places(Registers))
    /\ polling' = FALSE
    /\ polled' = Pristine

\* A seed is retired, or expires.
SeedRetired(p) ==
    /\ p \in seeded
    /\ seeded' = seeded \ {p}
    /\ UNCHANGED <<plantVars, device, holder, stage, commandVars, route, left, sample, verdict,
                   pollVars, cache, doubt>>

LinkChanges ==
    /\ Attached
    /\ linkDown' = ~linkDown
    /\ UNCHANGED <<control, access, device, holder, stage, commandVars, route, left, sample,
                   verdict, pollVars, shownVars>>

CommandStep(w) ==
    \/ TakeLock(w)
    \/ PieceAcked(w)
    \/ LocalFails(w)
    \/ CloudFails(w)
    \/ WriteCancelled(w)
    \/ WaitCancelled(w)
    \/ ReadSampled(w)
    \/ ReadPublished(w)
    \/ ReadLost(w)

ControlNext ==
    \/ \E w \in Writers : Call(w) \/ CommandStep(w)
    \/ PollSampled
    \/ PollPublished
    \/ \E p \in Places(Registers) : SeedRetired(p)
    \/ LinkChanges

ControlSpec == ControlInit /\ [][ControlNext]_controlVars

-----------------------------------------------------------------------------
(* Properties                                                              *)

\* A register nobody is writing that holds fields of two commands was left so
\* by one that failed or was cancelled and said so: two commands that both
\* reported success never mix their hour and minute, or their bits.
NoTornTime ==
    \A r \in Registers :
        (holder[r] = Nobody /\ device[<<r, 1>>] # device[<<r, 2>>]) =>
            \E f \in {1, 2} : /\ device[<<r, f>>] # Factory
                              /\ verdict[device[<<r, f>>]] \in {"failed", "cancelled"}

\* A field that the cache shows wrongly, with its register unlocked, has one of
\* these reasons, and none since removed: its writer left no seed and did not read
\* the device again (the mode, a set whose link is down, an attempt that ended
\* in doubt with nothing acknowledged, a lost read); or the read was overruled
\* by a seed of an earlier command within its settle window; or, with a local
\* coordinator, by a read that had sampled the field before it was written.
\* With a cloud connection no read in flight, whoever's it is, does that.
CacheHonest ==
    \A p \in Places(Registers) :
        (holder[p[1]] = Nobody /\ cache[p] # device[p]) => p \in doubt

\* Commands do not wait for each other's locks in a circle: of any set of them
\* one waits for a lock that none of the set holds.
NoCircularWait ==
    \A W \in SUBSET {w \in Writers : stage[w] = "locking"} :
        W # {} => \E w \in W : \E r \in NextLocks(w) : holder[r] \notin W

=============================================================================
