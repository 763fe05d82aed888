------------------------- MODULE OptimisticRetention -------------------------
(***************************************************************************)
(* One control entity: the value it publishes while a command is under     *)
(* way (EG4OptimisticEntity, base_entity.py), the commands that set it,    *)
(* and the coordinator ticks that take it back.  A command publishes its   *)
(* value, writes, then refreshes; if the refresh fails, the value is       *)
(* retained until there is news or its time to live is over.  Entities     *)
(* differ in how a command settles, and only the schedule times hold a     *)
(* lock, so the commands of the others overlap: the integration sets no    *)
(* PARALLEL_UPDATES.                                                       *)
(*                                                                         *)
(* Most commands re-read the device's parameters.  A switch written over   *)
(* the local transport runs a coordinator update instead, which carries    *)
(* the cached parameters unless their hour is due.  All the while another  *)
(* read may be in flight, of an update cycle or for another control: it    *)
(* may have sampled the register before the write, and only a write that   *)
(* went through the cloud past an attached transport leaves a seed that    *)
(* outranks it.                                                            *)
(***************************************************************************)
EXTENDS Naturals, FiniteSets

CONSTANTS
    Commands,           \* service calls on the entity, each issued once
    Settings,           \* values the register can hold
    NoSetting,          \* no value: none optimistic, seeded, in flight or decoded
    Styles,             \* entity styles, of "switch", "value", "schedule"
    MaxForeignChanges   \* changes made on the device itself or in the portal

ASSUME RetentionAssumption ==
    /\ NoSetting \notin Settings
    /\ Styles \subseteq {"switch", "value", "schedule"}
    /\ MaxForeignChanges \in Nat

VARIABLES
    style,          \* which kind of entity this is; never changes
    access,         \* "local", "hybrid" or "cloud" connection; never changes
    register,       \* what the device holds
    decoded,        \* what coordinator.data decodes to (_cache_state)
    object,         \* what the device object last read (pylxpweb)
    seed,           \* the parameter's seed
    reading,        \* what a read in flight is going to publish
    seedHolds,      \* that read is partial or began before the seed
    optimistic,     \* the published optimistic value
    retained,       \* _optimistic_retained
    preWrite,       \* _pre_write_state
    ttlOver,        \* time.monotonic() has reached _retention_expires
    progress,       \* where each command is
    wanted,         \* the value each command sets
    before,         \* each command's pre_write_state
    foreign,        \* foreign changes so far
    overlapped,     \* history: commands that ran beside another one
    applied         \* history: the last value a write was acknowledged for and
                    \* applied, until something may supersede it (NoSilentRevert)

kindVars == <<style, access>>
deviceVars == <<register, object, foreign>>
readVars == <<seed, reading, seedHolds>>
shownVars == <<optimistic, retained, preWrite, ttlOver>>
commandVars == <<progress, wanted, before, overlapped>>
retentionVars == <<kindVars, deviceVars, readVars, decoded, shownVars, commandVars, applied>>

Decodings == Settings \cup {NoSetting}

Writing(c) == progress[c] \in {"writing", "retrying"}

UnderWay == {c \in Commands : progress[c] \in {"writing", "retrying", "updating", "rereading"}}

\* What the entity shows: the optimistic value when there is one.
Shown == IF optimistic # NoSetting THEN optimistic ELSE decoded

RetentionTypeOK ==
    /\ style \in Styles
    /\ access \in {"local", "hybrid", "cloud"}
    /\ {register, object} \subseteq Settings
    /\ {decoded, seed, reading, optimistic, preWrite, applied} \subseteq Decodings
    /\ {seedHolds, retained, ttlOver} \subseteq BOOLEAN
    /\ progress \in [Commands ->
            {"idle", "writing", "retrying", "updating", "rereading", "over", "cancelled"}]
    /\ wanted \in [Commands -> Decodings]
    /\ before \in [Commands -> Decodings]
    /\ foreign \in 0..MaxForeignChanges
    /\ overlapped \subseteq Commands

RetentionInit ==
    /\ style \in Styles
    /\ access \in {"local", "hybrid", "cloud"}
    /\ register \in Settings
    /\ decoded \in {register, NoSetting}
    /\ object = register
    /\ seed = NoSetting /\ reading = NoSetting /\ seedHolds = FALSE
    /\ optimistic = NoSetting
    /\ retained = FALSE
    /\ preWrite = NoSetting
    /\ ttlOver = FALSE
    /\ progress = [c \in Commands |-> "idle"]
    /\ wanted = [c \in Commands |-> NoSetting]
    /\ before = [c \in Commands |-> NoSetting]
    /\ foreign = 0
    /\ overlapped = {}
    /\ applied = NoSetting

-----------------------------------------------------------------------------
(* The retention lifecycle                                                 *)

\* _end_retention(): the value and its bookkeeping go.
EndRetention ==
    /\ optimistic' = NoSetting
    /\ retained' = FALSE
    /\ preWrite' = NoSetting
    /\ UNCHANGED ttlOver

\* _clear_optimistic(): only the value goes.
ClearOptimistic ==
    /\ optimistic' = NoSetting
    /\ UNCHANGED <<retained, preWrite, ttlOver>>

\* _arm_retention(): whatever is published now is retained.
ArmRetention(c) ==
    /\ retained' = TRUE
    /\ preWrite' = before[c]
    /\ ttlOver' = FALSE
    /\ UNCHANGED optimistic

\* Mutant of DisarmRetention: an earlier command's retention stays armed.
KeepRetention == UNCHANGED <<retained, preWrite, ttlOver>>

\* The bookkeeping half of _begin_retention_window().
DisarmRetention == retained' = FALSE /\ preWrite' = NoSetting /\ ttlOver' = FALSE

\* A command is over, and what it knew with it.
Ends(c, how) ==
    /\ progress' = [progress EXCEPT ![c] = how]
    /\ wanted' = [wanted EXCEPT ![c] = NoSetting]
    /\ before' = [before EXCEPT ![c] = NoSetting]
    /\ UNCHANGED overlapped

\* What a complete read that saw v stores: a seed it disagrees with stays
\* within its settle window (_reconcile_parameter_read, ParameterSeeds).
Reconciled(v) == IF seed = NoSetting THEN {v} ELSE {v, seed}

\* What a partial read that has v stores: it proves nothing against a seed.
SeededOr(v) == IF seed = NoSetting THEN v ELSE seed

\* v would be shown in place of an applied value, now or when the command
\* that is under way settles: there is no optimistic value, a switch is to
\* clear it without a re-read, or v is neither the value from before the write
\* nor its own, and so looks like news.
Uncovered(v) ==
    \/ optimistic = NoSetting
    \/ retained /\ v # preWrite
    \/ \E c \in UnderWay : progress[c] = "updating" \/ v # before[c]

-----------------------------------------------------------------------------
(* The commands                                                            *)

\* schedule_register_locks serialises the commands of a schedule time.
LockFree == style = "schedule" => UnderWay = {}

\* The command reads the cache before its write, then publishes its value.
Begin(c, v) ==
    /\ progress[c] = "idle"
    /\ LockFree
    /\ before' = [before EXCEPT ![c] = decoded]
    /\ DisarmRetention
    /\ optimistic' = v
    /\ wanted' = [wanted EXCEPT ![c] = v]
    /\ progress' = [progress EXCEPT ![c] = "writing"]
    /\ overlapped' = IF UnderWay = {} THEN overlapped ELSE overlapped \cup UnderWay \cup {c}
    /\ applied' = NoSetting
    /\ UNCHANGED <<kindVars, deviceVars, readVars, decoded>>

\* The local write of a hybrid switch fails, maybe after it has landed.  The
\* cloud's envelope begins once more, and nothing is cleared in between.
FallsBack(c) ==
    /\ progress[c] = "writing" /\ style = "switch" /\ access = "hybrid"
    /\ progress' = [progress EXCEPT ![c] = "retrying"]
    /\ register' \in {wanted[c], register}
    /\ before' = [before EXCEPT ![c] = decoded]
    /\ DisarmRetention
    /\ optimistic' = wanted[c]
    /\ applied' = NoSetting
    /\ UNCHANGED <<kindVars, object, foreign, readVars, decoded, wanted, overlapped>>

\* The local transport acknowledges the write.  It leaves no seed; a switch
\* sets its cached parameter in place, when the device has any.
AckedLocally(c) ==
    /\ access # "cloud" /\ progress[c] = "writing"
    /\ decoded' \in IF style = "switch" THEN {wanted[c]} \cup ({decoded} \cap {NoSetting})
                    ELSE {decoded}
    /\ progress' = [progress EXCEPT ![c] = IF style = "switch" THEN "updating" ELSE "rereading"]
    /\ UNCHANGED <<seed, seedHolds>>

\* The cloud acknowledges it.  Past an attached transport it is seeded.
AckedByCloud(c) ==
    /\ access # "local"
    /\ IF access = "hybrid"
       THEN seed' = wanted[c] /\ decoded' = wanted[c] /\ seedHolds' = (reading # NoSetting)
       ELSE UNCHANGED <<seed, decoded, seedHolds>>
    /\ progress' = [progress EXCEPT ![c] = "rereading"]

\* The write is acknowledged.  The firmware may ignore it all the same.
Acknowledged(c) ==
    /\ Writing(c)
    /\ register' \in {wanted[c], register}
    /\ AckedLocally(c) \/ AckedByCloud(c)
    /\ applied' = IF /\ register' = wanted[c] /\ decoded = before[c]
                     /\ seed' \in {wanted[c], NoSetting}
                     /\ progress'[c] = "updating" => decoded' = wanted[c]
                  THEN wanted[c] ELSE NoSetting
    /\ UNCHANGED <<kindVars, object, foreign, reading, shownVars, wanted, before, overlapped>>

\* The write fails; it may have landed.  A switch drops the value, the others
\* end the retention.
WriteFails(c) ==
    /\ Writing(c)
    /\ register' \in {wanted[c], register}
    /\ IF style = "switch" THEN ClearOptimistic ELSE EndRetention
    /\ applied' = NoSetting
    /\ Ends(c, "over")
    /\ UNCHANGED <<kindVars, object, foreign, readVars, decoded>>

\* The device object reads for one at a time (its own lock), and whoever has
\* read publishes before the next one starts.  A local update cycle reads past
\* the object.
ObjectFree == access # "local" => reading = NoSetting

\* The re-read after the write completes.
Reread(c) ==
    /\ progress[c] = "rereading" /\ ObjectFree
    /\ object' = register
    /\ decoded' \in Reconciled(register)

\* The coordinator update does: the parameters are those of the cache, or, if a
\* local cycle's hour has come, read.
Updated(c) ==
    /\ progress[c] = "updating"
    /\ decoded' \in {SeededOr(decoded)} \cup (IF access = "local" THEN {register} ELSE {})
    /\ UNCHANGED object

\* Either counts as fresh: the optimistic value goes.
Refreshed(c) ==
    /\ Reread(c) \/ Updated(c)
    /\ IF style = "schedule" THEN EndRetention ELSE ClearOptimistic
    /\ Ends(c, "over")
    /\ UNCHANGED <<kindVars, register, foreign, readVars, applied>>

\* Mutant of SettleUnread: a failed refresh drops the acknowledged value.
DropUnread(c) == EndRetention

\* The settlement of a command whose refresh did not complete.
SettleUnread(c) == ArmRetention(c)

\* The re-read is partial: it stores the register, or what the device object
\* has from before.
RereadInPart(c) ==
    /\ progress[c] = "rereading" /\ ObjectFree
    /\ object' \in {object, register}
    /\ decoded' = SeededOr(object')
    /\ applied' = IF decoded' \in {applied, before[c]} THEN applied ELSE NoSetting

\* The refresh fails, is partial, or is skipped because the link is down.
NotRefreshed(c) ==
    /\ \/ progress[c] \in {"updating", "rereading"} /\ UNCHANGED <<object, decoded, applied>>
       \/ RereadInPart(c)
    /\ SettleUnread(c)
    /\ Ends(c, "over")
    /\ UNCHANGED <<kindVars, register, foreign, readVars>>

\* The service call is cancelled.  A schedule time settles in its "finally";
\* the others catch Exception only, so nothing is settled.
Cancelled(c) ==
    /\ c \in UnderWay
    /\ register' \in IF Writing(c) THEN {wanted[c], register} ELSE {register}
    /\ IF style # "schedule" THEN UNCHANGED shownVars
       ELSE IF Writing(c) THEN EndRetention
       ELSE ArmRetention(c)
    /\ applied' = IF Writing(c) THEN NoSetting ELSE applied
    /\ Ends(c, "cancelled")
    /\ UNCHANGED <<kindVars, object, foreign, readVars, decoded>>

-----------------------------------------------------------------------------
(* The world around the commands                                           *)

\* Mutant of Resolved: the time to live is never looked at.
ResolvedWithoutExpiry(fresh) == fresh = optimistic \/ fresh # preWrite

\* Convergence, or expiry, of a retained value against what a tick decodes.
Resolved(fresh) == fresh = optimistic \/ fresh # preWrite \/ ttlOver

\* _handle_coordinator_update().
ResolveRetained ==
    IF retained /\ optimistic # NoSetting /\ Resolved(decoded')
    THEN EndRetention ELSE UNCHANGED shownVars

Expired == retained /\ ttlOver

\* A read by somebody else samples the register, or, in part, what the device
\* object has from before.
ReadSamples ==
    /\ reading = NoSetting
    /\ \/ reading' = register /\ seedHolds' = FALSE
       \/ reading' = object /\ seedHolds' = TRUE
    /\ object' = IF access = "local" THEN object ELSE reading'
    /\ UNCHANGED <<kindVars, register, foreign, seed, decoded, shownVars, commandVars, applied>>

\* It is published.  The history ends with one older than the write, when no
\* seed outranks it and nothing covers it.
ReadPublished ==
    /\ reading # NoSetting
    /\ decoded' \in IF seedHolds THEN {SeededOr(reading)} ELSE Reconciled(reading)
    /\ reading' = NoSetting /\ seedHolds' = FALSE
    /\ ResolveRetained
    /\ applied' = IF \/ Expired
                     \/ /\ reading # applied /\ Uncovered(reading)
                        /\ seed = NoSetting \/ ~seedHolds
                  THEN NoSetting ELSE applied
    /\ UNCHANGED <<kindVars, deviceVars, seed, commandVars>>

\* A tick without a read of the parameters: seeds are laid over the cache.
Tick ==
    /\ decoded' = SeededOr(decoded)
    /\ ResolveRetained
    /\ applied' = IF Expired THEN NoSetting ELSE applied
    /\ UNCHANGED <<kindVars, deviceVars, readVars, commandVars>>

\* A seed is retired, no earlier than the reads that it outranks are over.
SeedRetires ==
    /\ seed # NoSetting /\ ~seedHolds
    /\ seed' = NoSetting
    /\ UNCHANGED <<kindVars, deviceVars, reading, seedHolds, decoded, shownVars, commandVars,
                   applied>>

\* RETAINED_OPTIMISTIC_TTL runs out.
TtlEnds ==
    /\ retained /\ ~ttlOver
    /\ ttlOver' = TRUE
    /\ UNCHANGED <<kindVars, deviceVars, readVars, decoded, optimistic, retained, preWrite,
                   commandVars, applied>>

\* Somebody changes the setting at the device or in the portal.
ForeignChange(v) ==
    /\ foreign < MaxForeignChanges
    /\ v # register
    /\ register' = v
    /\ foreign' = foreign + 1
    /\ applied' = NoSetting
    /\ UNCHANGED <<kindVars, object, readVars, decoded, shownVars, commandVars>>

RetentionNext ==
    \/ \E c \in Commands, v \in Settings : Begin(c, v)
    \/ \E c \in Commands : FallsBack(c)
    \/ \E c \in Commands : Acknowledged(c)
    \/ \E c \in Commands : WriteFails(c)
    \/ \E c \in Commands : Refreshed(c)
    \/ \E c \in Commands : NotRefreshed(c)
    \/ \E c \in Commands : Cancelled(c)
    \/ ReadSamples
    \/ ReadPublished
    \/ Tick
    \/ SeedRetires
    \/ TtlEnds
    \/ \E v \in Settings : ForeignChange(v)

RetentionSpec == RetentionInit /\ [][RetentionNext]_retentionVars

-----------------------------------------------------------------------------
(* Properties                                                              *)

\* While a command is under way the entity shows its value: no tick, no
\* retention left by an earlier command takes it away (the "bounce" that
\* _optimistic_write_envelope is written to prevent).  Only a command beside
\* it may, and schedule times, which are locked, have none.
CommandShown ==
    \A c \in UnderWay : (c \notin overlapped \/ style = "schedule") => optimistic = wanted[c]

\* A write that was acknowledged and applied is not hidden behind an older
\* value, whether its refresh completed, failed, was skipped or carried the
\* cache, and whatever reads were in flight, until something supersedes it or
\* its retention expires (#362).  The code cannot keep it, and the history
\* ends, when (1) a read older than the write is published after it, the write
\* left no seed (the local route), and no re-read is to follow it; (2) a seed
\* of an earlier write is alive; (3) the cache moved to a third value around
\* the write, which looks like news to the convergence test.
NoSilentRevert ==
    (applied # NoSetting /\ (overlapped = {} \/ style = "schedule")) => Shown = applied

\* When no command is under way, an optimistic value that is still published
\* is retained, hence bounded by the time to live ("BOUNDED and
\* SELF-CLEARING", class EG4OptimisticEntity).  A cancelled command of a
\* switch, number or select leaves one that is not.
BoundedWhenQuiet ==
    (UnderWay = {} /\ optimistic # NoSetting) => retained

\* The same, where no command was cancelled, or the entity settles in "finally".
BoundedUnlessCancelled ==
    (style = "schedule" \/ \A c \in Commands : progress[c] # "cancelled") => BoundedWhenQuiet

\* Once commands are over, an entity none of whose commands was cancelled
\* returns to what the device reports, for good.
LetsGo ==
    <>[](UnderWay = {} /\ \A c \in Commands : progress[c] # "cancelled")
        => <>[](optimistic = NoSetting)

=============================================================================
