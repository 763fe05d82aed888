-------------------------- MODULE CoordinatorProofs ---------------------------
(***************************************************************************)
(* Proofs about the models that MCCoordinator puts side by side, each for  *)
(* any constants: optimistic values, the side-fetch breaker, background    *)
(* tasks and the clocks of device removal.                                 *)
(***************************************************************************)
EXTENDS OptimisticRetention, SidefetchBreaker, BackgroundTasks, DeviceRemoval, TLAPS

-----------------------------------------------------------------------------
(***************************************************************************)
(* Proofs about OptimisticRetention, for any commands, settings and        *)
(* entity styles: what is shown during a command, what is shown after an   *)
(* acknowledged one, and that only a cancellation leaves a value unbound.  *)
(***************************************************************************)

USE DEF retentionVars, kindVars, deviceVars, readVars, shownVars, commandVars

-----------------------------------------------------------------------------
(* Types                                                                   *)

Stages == {"idle", "writing", "retrying", "updating", "rereading", "over", "cancelled"}

\* The parts of the type invariant that the properties rest on.
CommandTypes ==
    /\ progress \in [Commands -> Stages]
    /\ wanted \in [Commands -> Decodings]
    /\ before \in [Commands -> Decodings]
    /\ overlapped \subseteq Commands
    /\ \A c \in UnderWay : wanted[c] \in Settings

ValueTypes ==
    /\ style \in Styles /\ access \in {"local", "hybrid", "cloud"}
    /\ {register, object} \subseteq Settings
    /\ {decoded, optimistic, preWrite, applied} \subseteq Decodings

ReadTypes == {seed, reading} \subseteq Decodings /\ seedHolds \in BOOLEAN

\* The steps that end a command's write or the command.
CommandStep(c) ==
    \/ Acknowledged(c) \/ WriteFails(c) \/ Refreshed(c) \/ NotRefreshed(c) \/ Cancelled(c)

\* The steps of no command.
OtherStep ==
    \/ ReadSamples \/ ReadPublished \/ Tick \/ SeedRetires \/ TtlEnds
    \/ \E v \in Settings : ForeignChange(v)

\* What a step does to the commands.
LEMMA StepOfCommand ==
    ASSUME NEW c \in Commands, CommandStep(c), progress \in [Commands -> Stages]
    PROVE  /\ c \in UnderWay /\ UNCHANGED <<kindVars, overlapped>>
           /\ \/ /\ progress'[c] \in {"updating", "rereading"}
                 /\ \A d \in Commands \ {c} : progress'[d] = progress[d]
                 /\ UnderWay' = UnderWay /\ UNCHANGED <<wanted, before, shownVars>>
                 /\ progress' \in [Commands -> Stages]
                 /\ Acknowledged(c)
              \/ \E how \in {"over", "cancelled"} :
                    /\ Ends(c, how) /\ UnderWay' = UnderWay \ {c}
                    /\ \A d \in Commands \ {c} : progress'[d] = progress[d]
                    /\ progress' \in [Commands -> Stages] /\ progress'[c] = how
                    /\ ~Acknowledged(c)
                    /\ Cancelled(c) => how = "cancelled"
<1>1. CASE Acknowledged(c)
    <2>1. /\ Writing(c)
          /\ UNCHANGED <<kindVars, wanted, before, overlapped, shownVars>>
          /\ \E s \in {"updating", "rereading"} : progress' = [progress EXCEPT ![c] = s]
        BY <1>1 DEF Acknowledged, AckedLocally, AckedByCloud
    <2> QED BY <1>1, <2>1 DEF UnderWay, Stages, Writing
<1>2. CASE ~Acknowledged(c)
    <2>1. /\ c \in UnderWay /\ UNCHANGED <<kindVars, overlapped>>
          /\ \E how \in {"over", "cancelled"} :
                Ends(c, how) /\ (Cancelled(c) => how = "cancelled")
        BY <1>2
        DEF CommandStep, WriteFails, Refreshed, Reread, Updated, NotRefreshed, RereadInPart,
            Cancelled, Ends, UnderWay, Writing
    <2> QED BY <1>2, <2>1 DEF UnderWay, Stages, Ends
<1> QED
    BY <1>1, <1>2

LEMMA StepOfFallback ==
    ASSUME NEW c \in Commands, FallsBack(c), progress \in [Commands -> Stages]
    PROVE  /\ c \in UnderWay /\ UnderWay' = UnderWay /\ progress'[c] = "retrying"
           /\ progress' \in [Commands -> Stages]
           /\ \A d \in Commands \ {c} : progress'[d] = progress[d]
BY DEF FallsBack, UnderWay, Stages

LEMMA StepOfOther ==
    ASSUME OtherStep
    PROVE  UNCHANGED <<kindVars, commandVars>> /\ UnderWay' = UnderWay
BY DEF OtherStep, ReadSamples, ReadPublished, Tick, SeedRetires, TtlEnds, ForeignChange, UnderWay

\* Commands move through their stages and keep the values they were given.
LEMMA CommandTypesKept ==
    ASSUME CommandTypes, ValueTypes, [RetentionNext]_retentionVars
    PROVE  CommandTypes'
<1> USE DEF CommandTypes
<1>1. CASE UNCHANGED retentionVars \/ OtherStep
    BY <1>1, StepOfOther DEF UnderWay, Decodings
<1>2. ASSUME NEW c \in Commands, NEW v \in Settings, Begin(c, v)
      PROVE  CommandTypes'
    <2>1. /\ progress' = [progress EXCEPT ![c] = "writing"]
          /\ wanted' = [wanted EXCEPT ![c] = v] /\ before' = [before EXCEPT ![c] = decoded]
          /\ overlapped' \subseteq Commands
        BY <1>2 DEF Begin, UnderWay
    <2>2. UnderWay' = UnderWay \cup {c}
        BY <2>1 DEF UnderWay, Stages
    <2> QED BY <2>1, <2>2 DEF Decodings, ValueTypes, Stages
<1>3. ASSUME NEW c \in Commands, CommandStep(c)
      PROVE  CommandTypes'
    <2>1. CASE UNCHANGED <<wanted, before, overlapped>> /\ UnderWay' = UnderWay
                /\ progress' \in [Commands -> Stages]
        BY <2>1
    <2>2. CASE /\ \E how \in {"over", "cancelled"} : Ends(c, how)
               /\ UnderWay' = UnderWay \ {c} /\ progress' \in [Commands -> Stages]
        <3>1. /\ wanted' = [wanted EXCEPT ![c] = NoSetting]
              /\ before' = [before EXCEPT ![c] = NoSetting] /\ UNCHANGED overlapped
            BY <2>2 DEF Ends
        <3>2. \A d \in UnderWay \ {c} : wanted'[d] = wanted[d]
            BY <3>1 DEF UnderWay
        <3> QED BY <2>2, <3>1, <3>2 DEF Decodings
    <2> QED BY <1>3, <2>1, <2>2, StepOfCommand
<1>4. ASSUME NEW c \in Commands, FallsBack(c)
      PROVE  CommandTypes'
    BY <1>4, StepOfFallback DEF FallsBack, ValueTypes
<1> QED
    BY <1>1, <1>2, <1>3, <1>4 DEF RetentionNext, OtherStep, CommandStep

\* Every value is a setting, or the one that stands for none.
LEMMA ValueTypesKept ==
    ASSUME CommandTypes, ValueTypes, ReadTypes, [RetentionNext]_retentionVars
    PROVE  ValueTypes'
<1> USE DEF ValueTypes, ReadTypes, Decodings
<1>w. /\ \A c \in UnderWay : wanted[c] \in Settings
      /\ \A c \in Commands : before[c] \in Settings \cup {NoSetting}
    BY DEF CommandTypes
<1>1. CASE UNCHANGED retentionVars
    BY <1>1
<1>2. ASSUME NEW c \in Commands, NEW v \in Settings, Begin(c, v)
      PROVE  ValueTypes'
    BY <1>2 DEF Begin, DisarmRetention
<1>3. ASSUME NEW c \in Commands, CommandStep(c)
      PROVE  ValueTypes'
    <2>0. c \in UnderWay /\ UNCHANGED <<style, access>>
        BY <1>3, StepOfCommand DEF CommandTypes
    <2>1. register' \in {wanted[c], register} /\ object' \in {register, object}
        BY <1>3, <2>0
        DEF CommandStep, Acknowledged, WriteFails, Refreshed, Reread, Updated, NotRefreshed,
            RereadInPart, Cancelled
    <2>2. decoded' \in {wanted[c], decoded, register, object, seed, NoSetting}
        BY <1>3, <2>1
        DEF CommandStep, Acknowledged, AckedLocally, AckedByCloud, WriteFails, Refreshed, Reread,
            Updated, NotRefreshed, RereadInPart, Cancelled, Reconciled, SeededOr
    <2>3. optimistic' \in {optimistic, NoSetting} /\ preWrite' \in {preWrite, before[c], NoSetting}
        BY <1>3, <2>0
        DEF CommandStep, Acknowledged, WriteFails, Refreshed, NotRefreshed, SettleUnread,
            Cancelled, EndRetention, ClearOptimistic, ArmRetention
    <2>4. applied' \in {applied, wanted[c], NoSetting}
        BY <1>3
        DEF CommandStep, Acknowledged, WriteFails, Refreshed, NotRefreshed, RereadInPart, Cancelled
    <2> QED BY <1>w, <2>0, <2>1, <2>2, <2>3, <2>4
<1>4. CASE OtherStep
    <2>1. /\ register' \in {register} \cup Settings /\ object' \in {object, register, reading}
          /\ reading = NoSetting => object' \in {object, register}
        BY <1>4 DEF OtherStep, ReadSamples, ReadPublished, Tick, SeedRetires, TtlEnds, ForeignChange
    <2>2. object' \in {object, register}
        BY <1>4 DEF OtherStep, ReadSamples, ReadPublished, Tick, SeedRetires, TtlEnds, ForeignChange
    <2>3. decoded' \in {decoded, seed, reading}
        BY <1>4
        DEF OtherStep, ReadSamples, ReadPublished, Tick, SeedRetires, TtlEnds, ForeignChange,
            Reconciled, SeededOr
    <2>4. optimistic' \in {optimistic, NoSetting} /\ preWrite' \in {preWrite, NoSetting}
        BY <1>4
        DEF OtherStep, ReadSamples, ReadPublished, Tick, SeedRetires, TtlEnds, ForeignChange,
            ResolveRetained, EndRetention
    <2>5. applied' \in {applied, NoSetting}
        BY <1>4 DEF OtherStep, ReadSamples, ReadPublished, Tick, SeedRetires, TtlEnds, ForeignChange
    <2> QED BY <1>4, <2>1, <2>2, <2>3, <2>4, <2>5, StepOfOther
<1>5. ASSUME NEW c \in Commands, FallsBack(c)
      PROVE  ValueTypes'
    <2>1. wanted[c] \in Settings
        BY <1>w, <1>5, StepOfFallback DEF CommandTypes
    <2> QED BY <1>5, <2>1 DEF FallsBack, DisarmRetention
<1> QED
    BY <1>1, <1>2, <1>3, <1>4, <1>5 DEF RetentionNext, OtherStep, CommandStep

\* So are seeds and what reads take.
LEMMA ReadTypesKept ==
    ASSUME CommandTypes, ValueTypes, ReadTypes, [RetentionNext]_retentionVars
    PROVE  ReadTypes'
<1> USE DEF ReadTypes, Decodings
<1>1. ASSUME NEW c \in Commands, Acknowledged(c)
      PROVE  ReadTypes'
    <2>1. wanted[c] \in Settings
        BY <1>1 DEF CommandTypes, UnderWay, Acknowledged, Writing
    <2> QED BY <1>1, <2>1 DEF Acknowledged, AckedLocally, AckedByCloud
<1>2. CASE ReadSamples \/ ReadPublished \/ SeedRetires
    BY <1>2 DEF ReadSamples, ReadPublished, SeedRetires, ValueTypes
<1>3. CASE UNCHANGED readVars
    BY <1>3
<1>4. UNCHANGED readVars \/ ReadSamples \/ ReadPublished \/ SeedRetires
        \/ \E c \in Commands : Acknowledged(c)
    BY DEF RetentionNext, Begin, FallsBack, WriteFails, Refreshed, NotRefreshed, Cancelled, Tick,
           TtlEnds, ForeignChange
<1> QED
    BY <1>1, <1>2, <1>3, <1>4

\* The bookkeeping of the retention, and the bound on foreign changes.
BookTypes == {retained, ttlOver} \subseteq BOOLEAN /\ foreign \in 0..MaxForeignChanges

LEMMA BookTypesKept ==
    ASSUME BookTypes, [RetentionNext]_retentionVars
    PROVE  BookTypes'
<1>1. {retained', ttlOver'} \subseteq BOOLEAN
    BY DEF BookTypes, RetentionNext, Begin, FallsBack, Acknowledged, WriteFails, Refreshed, NotRefreshed,
           SettleUnread, Cancelled, ReadSamples, ReadPublished, ResolveRetained, Tick, SeedRetires,
           TtlEnds, ForeignChange, EndRetention, ClearOptimistic, ArmRetention, DisarmRetention
<1>2. foreign' \in 0..MaxForeignChanges
    <2>1. foreign \in 0..MaxForeignChanges /\ MaxForeignChanges \in Nat
        BY RetentionAssumption DEF BookTypes
    <2>2. ASSUME NEW v \in Settings, ForeignChange(v)
          PROVE  foreign' \in 0..MaxForeignChanges
        BY <2>1, <2>2 DEF ForeignChange
    <2>3. foreign' = foreign \/ \E v \in Settings : ForeignChange(v)
        BY DEF RetentionNext, Begin, FallsBack, Acknowledged, WriteFails, Refreshed, NotRefreshed, Cancelled,
               ReadSamples, ReadPublished, Tick, SeedRetires, TtlEnds
    <2> QED BY <2>1, <2>2, <2>3
<1> QED
    BY <1>1, <1>2 DEF BookTypes

-----------------------------------------------------------------------------
(* What is shown during a command                                          *)

Covered(c) == c \notin overlapped \/ style = "schedule"

\* A command that no other one may have disturbed is alone, has no earlier
\* retention armed behind it, and shows its value.
Undisturbed ==
    \A c \in UnderWay : Covered(c) =>
        UnderWay = {c} /\ ~retained /\ optimistic = wanted[c]

\* A command that ends leaves none behind it that it could have disturbed; a
\* command that begins disarms what was retained.
LEMMA UndisturbedKept ==
    ASSUME CommandTypes, Undisturbed, [RetentionNext]_retentionVars
    PROVE  Undisturbed'
<1> USE DEF Undisturbed, Covered
<1>p. progress \in [Commands -> Stages] /\ wanted \in [Commands -> Decodings]
    BY DEF CommandTypes
<1>1. CASE UNCHANGED retentionVars
    BY <1>1 DEF UnderWay
<1>2. ASSUME NEW c \in Commands, NEW v \in Settings, Begin(c, v)
      PROVE  Undisturbed'
    <2>1. UnderWay' = UnderWay \cup {c}
        BY <1>p, <1>2 DEF Begin, UnderWay
    <2>2. wanted'[c] = v /\ optimistic' = v /\ retained' = FALSE
        BY <1>p, <1>2 DEF Begin, DisarmRetention
    <2>3. CASE UnderWay = {}
        BY <2>1, <2>2, <2>3
    <2>4. CASE UnderWay # {}
        BY <1>2, <2>1, <2>4 DEF Begin, LockFree
    <2> QED BY <2>3, <2>4
<1>3. ASSUME NEW c \in Commands, CommandStep(c)
      PROVE  Undisturbed'
    BY <1>p, <1>3, StepOfCommand
<1>4. CASE OtherStep
    <2>1. \/ UNCHANGED shownVars
          \/ retained /\ (EndRetention \/ UNCHANGED <<optimistic, retained>>)
        BY <1>4
        DEF OtherStep, ReadSamples, ReadPublished, Tick, SeedRetires, TtlEnds, ForeignChange,
            ResolveRetained
    <2> QED BY <1>4, <2>1, StepOfOther
<1>5. ASSUME NEW c \in Commands, FallsBack(c)
      PROVE  Undisturbed'
    <2>1. /\ UNCHANGED <<style, overlapped, wanted>>
          /\ optimistic' = wanted[c] /\ retained' = FALSE
        BY <1>5 DEF FallsBack, DisarmRetention
    <2> QED BY <1>p, <1>5, <2>1, StepOfFallback
<1> QED
    BY <1>1, <1>2, <1>3, <1>4, <1>5 DEF RetentionNext, OtherStep, CommandStep

-----------------------------------------------------------------------------
(* What is shown after an acknowledged command                             *)

\* No two commands can have disturbed each other.
NoneOverlapped == overlapped = {} \/ style = "schedule"

\* A value that counts as applied is the device's, and no seed speaks against it.
\* While it counts, it is shown, and the cache moves between it and the value from
\* before the write only, so that a tick finds no third value to end the retention
\* for; a command that reads no parameters has it in the cache.
AppliedShown ==
    /\ IF optimistic = NoSetting THEN decoded = applied ELSE optimistic = applied
    /\ retained /\ optimistic # NoSetting => decoded \in {applied, preWrite}
    /\ \A c \in UnderWay :
        /\ progress[c] = "updating" => decoded = applied
        /\ decoded \in {applied, before[c]}

AppliedHeld ==
    applied # NoSetting =>
        /\ register = applied /\ seed \in {applied, NoSetting}
        /\ NoneOverlapped => AppliedShown

\* A decoding that does not look like news leaves what is shown, shown.
LEMMA TickShows ==
    ASSUME AppliedShown, applied # NoSetting, ~Expired, ResolveRetained,
           UNCHANGED <<applied, progress, before>>,
           \/ decoded' \in {decoded, applied}
           \/ ~Uncovered(decoded')
    PROVE  AppliedShown'
<1>0. UnderWay' = UnderWay
    BY DEF UnderWay
<1>1. decoded' = applied \/ optimistic # NoSetting
    BY DEF AppliedShown, Uncovered
<1>2. retained /\ optimistic # NoSetting => decoded' \in {applied, preWrite}
    BY DEF AppliedShown, Uncovered
<1>3. \A c \in UnderWay : /\ progress[c] = "updating" => decoded' = applied
                          /\ decoded' \in {applied, before[c]}
    BY DEF AppliedShown, Uncovered
<1>4. CASE UNCHANGED shownVars
    BY <1>0, <1>1, <1>2, <1>3, <1>4 DEF AppliedShown
<1>5. CASE retained /\ optimistic # NoSetting /\ Resolved(decoded') /\ EndRetention
    <2>1. decoded' = applied
        BY <1>2, <1>5 DEF Resolved, Expired, AppliedShown
    <2> QED BY <1>0, <1>3, <1>5, <2>1 DEF EndRetention, AppliedShown
<1> QED
    BY <1>4, <1>5 DEF ResolveRetained

\* The step lemma behind NoSilentRevert, one case per action.
LEMMA AppliedHeldKept ==
    ASSUME CommandTypes, ValueTypes, Undisturbed, AppliedHeld, [RetentionNext]_retentionVars
    PROVE  AppliedHeld'
<1> SUFFICES ASSUME applied' # NoSetting
             PROVE  /\ register' = applied' /\ seed' \in {applied', NoSetting}
                    /\ NoneOverlapped' => AppliedShown'
    BY DEF AppliedHeld
<1>p. /\ progress \in [Commands -> Stages] /\ UnderWay \subseteq Commands
      /\ wanted \in [Commands -> Decodings] /\ before \in [Commands -> Decodings]
    BY DEF CommandTypes, UnderWay
<1>h. applied # NoSetting => /\ register = applied /\ seed \in {applied, NoSetting}
                             /\ NoneOverlapped => AppliedShown
    BY DEF AppliedHeld
<1>u. ASSUME NoneOverlapped, NEW c \in UnderWay
      PROVE  UnderWay = {c} /\ ~retained /\ optimistic = wanted[c] /\ optimistic # NoSetting
    BY <1>u, RetentionAssumption DEF NoneOverlapped, Undisturbed, Covered, CommandTypes
<1>1. CASE UNCHANGED retentionVars
    BY <1>1, <1>h DEF AppliedShown, NoneOverlapped, UnderWay
<1>2. ASSUME NEW c \in Commands, FallsBack(c) \/ \E v \in Settings : Begin(c, v)
      PROVE  FALSE
    BY <1>2 DEF FallsBack, Begin
<1>3. ASSUME NEW c \in Commands, CommandStep(c)
      PROVE  /\ register' = applied' /\ seed' \in {applied', NoSetting}
             /\ NoneOverlapped' => AppliedShown'
    <2>0. c \in UnderWay /\ UNCHANGED <<style, overlapped>>
        BY <1>3, <1>p, StepOfCommand
    <2>n. NoneOverlapped' <=> NoneOverlapped
        BY <2>0 DEF NoneOverlapped
    <2>1. CASE Acknowledged(c)
        <3>1. /\ applied' = wanted[c] /\ register' = wanted[c] /\ decoded = before[c]
              /\ seed' \in {wanted[c], NoSetting}
              /\ progress'[c] = "updating" => decoded' = wanted[c]
              /\ decoded' \in {wanted[c], decoded}
            BY <2>1 DEF Acknowledged, AckedLocally, AckedByCloud
        <3>2. UnderWay' = UnderWay /\ UNCHANGED <<before, shownVars>>
            BY <1>3, <1>p, <2>1, StepOfCommand
        <3>3. NoneOverlapped => AppliedShown'
            BY <1>u, <2>0, <3>1, <3>2 DEF AppliedShown
        <3> QED BY <2>n, <3>1, <3>3
    <2>2. CASE ~Acknowledged(c)
        <3>0. UnderWay' = UnderWay \ {c}
            BY <1>3, <1>p, <2>2, StepOfCommand
        <3>1. NoneOverlapped => UnderWay' = {}
            BY <1>u, <2>0, <3>0
        <3>2. applied' = applied /\ UNCHANGED <<register, seed>> /\ ~Writing(c)
            BY <1>3, <2>2
            DEF CommandStep, WriteFails, Refreshed, Reread, Updated, NotRefreshed, RereadInPart,
                Cancelled, Writing
        <3>3. CASE Refreshed(c)
            <4>1. decoded' \in {register, seed, decoded}
                  /\ (progress[c] = "rereading" => decoded' \in {register, seed})
                  /\ (seed = NoSetting => decoded' \in {register, decoded})
                  /\ (seed = NoSetting /\ progress[c] = "rereading" => decoded' = register)
                  /\ (progress[c] = "rereading" \/ progress[c] = "updating")
                BY <3>3 DEF Refreshed, Reread, Updated, Reconciled, SeededOr
            <4>2. optimistic' = NoSetting
                BY <3>3 DEF Refreshed, EndRetention, ClearOptimistic
            <4>3. NoneOverlapped => decoded' = applied
                BY <1>h, <2>0, <3>2, <4>1 DEF AppliedShown
            <4> QED BY <1>h, <2>n, <3>1, <3>2, <4>2, <4>3 DEF AppliedShown
        <3>4. CASE NotRefreshed(c)
            <4>1. optimistic' = optimistic /\ retained' = TRUE /\ preWrite' = before[c]
                BY <3>4 DEF NotRefreshed, SettleUnread, ArmRetention
            <4>2. decoded' \in {applied, before[c]} \/ decoded' = decoded
                BY <3>2, <3>4 DEF NotRefreshed, RereadInPart
            <4>3. NoneOverlapped => optimistic = applied /\ decoded' \in {applied, before[c]}
                BY <1>h, <1>u, <2>0, <3>2, <4>2 DEF AppliedShown
            <4> QED BY <1>h, <1>u, <2>0, <2>n, <3>1, <3>2, <4>1, <4>3 DEF AppliedShown
        <3>5. CASE Cancelled(c)
            <4>1. /\ UNCHANGED <<decoded, optimistic>>
                  /\ UNCHANGED <<retained, preWrite>> \/ preWrite' = before[c]
                BY <3>2, <3>5 DEF Cancelled, ArmRetention
            <4> QED BY <1>h, <1>u, <2>0, <2>n, <3>1, <3>2, <4>1 DEF AppliedShown
        <3> QED BY <1>3, <2>2, <3>2, <3>3, <3>4, <3>5 DEF CommandStep, WriteFails
    <2> QED BY <2>1, <2>2
<1>4. CASE OtherStep
    <2>0. UNCHANGED <<style, overlapped, progress, before>> /\ UnderWay' = UnderWay
        BY <1>4, StepOfOther
    <2>1. applied' = applied /\ register' = register /\ seed' \in {seed, NoSetting}
        BY <1>4 DEF OtherStep, ReadSamples, ReadPublished, Tick, SeedRetires, TtlEnds, ForeignChange
    <2>2. CASE ReadPublished
        <3>1. /\ ~Expired /\ ResolveRetained /\ reading # NoSetting
              /\ decoded' \in {reading, seed}
              /\ seed = NoSetting => decoded' = reading
              /\ seed # NoSetting /\ seedHolds => decoded' = seed
              /\ \/ reading = applied \/ ~Uncovered(reading)
                 \/ seed # NoSetting /\ seedHolds
            BY <2>1, <2>2 DEF ReadPublished, Reconciled, SeededOr
        <3>2. decoded' = applied \/ ~Uncovered(decoded')
            BY <1>h, <2>1, <3>1
        <3> QED BY <1>h, <2>0, <2>1, <3>1, <3>2, TickShows DEF NoneOverlapped
    <2>3. CASE Tick
        <3>1. ~Expired /\ ResolveRetained /\ decoded' \in {decoded, applied}
            BY <1>h, <2>1, <2>3 DEF Tick, SeededOr
        <3> QED BY <1>h, <2>0, <2>1, <3>1, TickShows DEF NoneOverlapped
    <2>4. CASE ReadSamples \/ SeedRetires \/ TtlEnds
        <3>1. UNCHANGED <<decoded, optimistic, retained, preWrite>>
            BY <2>4 DEF ReadSamples, SeedRetires, TtlEnds
        <3> QED BY <1>h, <2>0, <2>1, <3>1 DEF AppliedShown, NoneOverlapped
    <2>5. CASE \E v \in Settings : ForeignChange(v)
        BY <2>5 DEF ForeignChange
    <2> QED BY <1>4, <2>2, <2>3, <2>4, <2>5 DEF OtherStep
<1> QED
    BY <1>1, <1>2, <1>3, <1>4 DEF RetentionNext, OtherStep, CommandStep

-----------------------------------------------------------------------------
(* What is left when all is quiet                                          *)

\* The last command under way settles its value, unless it is cancelled.
LEMMA BoundedKept ==
    ASSUME CommandTypes, BoundedUnlessCancelled, [RetentionNext]_retentionVars
    PROVE  BoundedUnlessCancelled'
<1> USE DEF BoundedUnlessCancelled, BoundedWhenQuiet
<1>p. progress \in [Commands -> Stages]
    BY DEF CommandTypes
<1>1. CASE UNCHANGED retentionVars
    BY <1>1 DEF UnderWay
<1>2. ASSUME NEW c \in Commands, NEW v \in Settings, Begin(c, v)
      PROVE  BoundedUnlessCancelled'
    BY <1>p, <1>2 DEF Begin, UnderWay
<1>3. ASSUME NEW c \in Commands, Acknowledged(c)
      PROVE  BoundedUnlessCancelled'
    BY <1>p, <1>3, StepOfCommand DEF CommandStep
<1>4. ASSUME NEW c \in Commands, WriteFails(c) \/ Refreshed(c) \/ NotRefreshed(c)
      PROVE  BoundedUnlessCancelled'
    <2>1. optimistic' = NoSetting \/ retained'
        BY <1>4 DEF WriteFails, Refreshed, NotRefreshed, EndRetention, ClearOptimistic,
                    SettleUnread, ArmRetention
    <2> QED BY <2>1
<1>5. ASSUME NEW c \in Commands, Cancelled(c)
      PROVE  BoundedUnlessCancelled'
    <2>1. progress'[c] = "cancelled" /\ style' = style
        BY <1>p, <1>5 DEF Cancelled, Ends
    <2>2. style = "schedule" => optimistic' = NoSetting \/ retained'
        BY <1>5 DEF Cancelled, EndRetention, ArmRetention
    <2> QED BY <2>1, <2>2
<1>6. CASE OtherStep
    <2>1. optimistic' = NoSetting \/ UNCHANGED <<optimistic, retained>>
        BY <1>6
        DEF OtherStep, ReadSamples, ReadPublished, Tick, SeedRetires, TtlEnds, ForeignChange,
            ResolveRetained, EndRetention
    <2> QED BY <1>6, <2>1, StepOfOther
<1>7. ASSUME NEW c \in Commands, FallsBack(c)
      PROVE  BoundedUnlessCancelled'
    BY <1>p, <1>7, StepOfFallback
<1> QED
    BY <1>1, <1>2, <1>3, <1>4, <1>5, <1>6, <1>7 DEF RetentionNext, OtherStep

-----------------------------------------------------------------------------
(* The theorems                                                            *)

RetentionInv ==
    /\ CommandTypes /\ ValueTypes /\ ReadTypes /\ BookTypes
    /\ Undisturbed /\ AppliedHeld /\ BoundedUnlessCancelled

LEMMA RetentionAlways ==
    RetentionSpec => []RetentionInv
<1>1. ASSUME RetentionInit
      PROVE  RetentionInv
    <2>1. foreign \in 0..MaxForeignChanges
        BY <1>1, RetentionAssumption DEF RetentionInit
    <2>2. CommandTypes /\ ValueTypes /\ ReadTypes
        BY <1>1, RetentionAssumption
        DEF RetentionInit, CommandTypes, ValueTypes, ReadTypes, Decodings, Stages,
            UnderWay
    <2>3. Undisturbed /\ AppliedHeld /\ BoundedUnlessCancelled
        BY <1>1, RetentionAssumption
        DEF RetentionInit, Undisturbed, AppliedHeld, UnderWay, BoundedUnlessCancelled,
            BoundedWhenQuiet
    <2>4. BookTypes
        BY <1>1, <2>1 DEF RetentionInit, BookTypes
    <2> QED
        BY <2>2, <2>3, <2>4 DEF RetentionInv
<1>2. RetentionInv /\ [RetentionNext]_retentionVars => RetentionInv'
    BY CommandTypesKept, ValueTypesKept, ReadTypesKept, BookTypesKept, UndisturbedKept,
       AppliedHeldKept, BoundedKept
    DEF RetentionInv
<1> QED
    BY <1>1, <1>2, PTL DEF RetentionSpec

\* The type invariant.
THEOREM RetentionTypesHold ==
    RetentionSpec => []RetentionTypeOK
<1>1. RetentionInv => RetentionTypeOK
    BY DEF RetentionInv, CommandTypes, ValueTypes, ReadTypes, BookTypes, Stages, RetentionTypeOK
<1> QED
    BY <1>1, RetentionAlways, PTL

\* A command that none ran beside, or one of a schedule time, shows its value
\* from its begin to its end, whatever ticks and reads come.
THEOREM CommandAlwaysShown ==
    RetentionSpec => []CommandShown
<1>1. RetentionInv => CommandShown
    BY DEF RetentionInv, Undisturbed, Covered, CommandShown
<1> QED
    BY <1>1, RetentionAlways, PTL

\* An acknowledged and applied write is not hidden behind an older value, whatever
\* became of its refresh (#362) and whatever reads were in flight.  Where the code
\* cannot keep that, the history ends: a read that is older than the write comes
\* after it with neither a seed nor a re-read to follow against it, an earlier seed
\* is alive, or the cache has moved to a third value.
THEOREM NeverSilentlyReverted ==
    RetentionSpec => []NoSilentRevert
<1>1. RetentionInv => NoSilentRevert
    BY DEF RetentionInv, AppliedHeld, AppliedShown, NoneOverlapped, NoSilentRevert, Shown
<1> QED
    BY <1>1, RetentionAlways, PTL

\* A cancellation is the only way to leave an optimistic value without bound:
\* the converse of what the violated BoundedWhenQuiet shows.
THEOREM OnlyCancellationUnbinds ==
    RetentionSpec => []BoundedUnlessCancelled
<1>1. RetentionInv => BoundedUnlessCancelled
    BY DEF RetentionInv
<1> QED
    BY <1>1, RetentionAlways, PTL

-----------------------------------------------------------------------------
(***************************************************************************)
(* The breaker's two safety properties for any number of sites and any     *)
(* threshold.                                                              *)
(***************************************************************************)

USE DEF vars, breakerVars

\* The streak that the breaker counts lies within the one that the portal
\* gave: this is what makes OpensOnEvidence inductive.
StreakCounted == failures <= misses

BreakerInv == TypeOK /\ HalfOpenProbed /\ OpensOnEvidence /\ StreakCounted

\* Half-open is left by every verdict and entered only with a call.
LEMMA StepKeepsProbe ==
    ASSUME TypeOK, HalfOpenProbed, [Next]_vars
    PROVE  HalfOpenProbed'
<1> USE DEF TypeOK, HalfOpenProbed
<1>1. CASE CooldownPasses
  BY <1>1 DEF CooldownPasses
<1>2. ASSUME NEW s \in Site, Admit(s)
      PROVE  HalfOpenProbed'
  BY <1>2 DEF Admit
<1>3. ASSUME NEW s \in Site, Answered(s)
      PROVE  HalfOpenProbed'
  BY <1>3 DEF Answered, NoteReachable
<1>4. ASSUME NEW s \in Site, Unreachable(s)
      PROVE  HalfOpenProbed'
  BY <1>4 DEF Unreachable, NoteConnectivityFailure
<1>5. ASSUME NEW s \in Site, Inconclusive(s)
      PROVE  HalfOpenProbed'
  BY <1>5 DEF Inconclusive, NoteInconclusive
<1>6. CASE UNCHANGED vars
  BY <1>6
<1> QED
  BY <1>1, <1>2, <1>3, <1>4, <1>5, <1>6 DEF Next

\* In a form the provers use at once.
LEMMA ThresholdPositive == Threshold \in Nat /\ Threshold - 1 \in Nat /\ 0 \in 0..(Threshold - 1)
  BY ThresholdAssumption

LEMMA StepKeepsTypes ==
    ASSUME TypeOK, [Next]_vars
    PROVE  TypeOK'
<1> USE ThresholdPositive DEF TypeOK
<1>1. CASE CooldownPasses
  BY <1>1 DEF CooldownPasses
<1>2. ASSUME NEW s \in Site, Admit(s)
      PROVE  TypeOK'
  BY <1>2 DEF Admit
<1>3. ASSUME NEW s \in Site, Answered(s)
      PROVE  TypeOK'
  <2>1. halfOpen' \in BOOLEAN
    BY <1>3 DEF Answered, NoteReachable
  <2> QED
    BY <1>3, <2>1 DEF Answered, NoteReachable
<1>4. ASSUME NEW s \in Site, Unreachable(s)
      PROVE  TypeOK'
  <2>1. halfOpen' \in BOOLEAN
    BY <1>4 DEF Unreachable, NoteConnectivityFailure
  <2>2. failures' \in 0..(Threshold - 1)
    BY <1>4 DEF Unreachable, NoteConnectivityFailure
  <2> QED
    BY <1>4, <2>1, <2>2 DEF Unreachable, NoteConnectivityFailure
<1>5. ASSUME NEW s \in Site, Inconclusive(s)
      PROVE  TypeOK'
  BY <1>5 DEF Inconclusive, NoteInconclusive
<1>6. CASE UNCHANGED vars
  BY <1>6
<1> QED
  BY <1>1, <1>2, <1>3, <1>4, <1>5, <1>6 DEF Next

\* The counted streak never outruns the real one, and what opens the breaker
\* is either such a streak or the failure of a probe, which had one behind it.
LEMMA StepKeepsEvidence ==
    ASSUME TypeOK, OpensOnEvidence, StreakCounted, [Next]_vars
    PROVE  OpensOnEvidence' /\ StreakCounted'
<1> USE ThresholdAssumption DEF TypeOK, OpensOnEvidence, StreakCounted
<1>1. CASE CooldownPasses
  BY <1>1 DEF CooldownPasses
<1>2. ASSUME NEW s \in Site, Admit(s)
      PROVE  OpensOnEvidence' /\ StreakCounted'
  BY <1>2 DEF Admit
<1>3. ASSUME NEW s \in Site, Answered(s)
      PROVE  OpensOnEvidence' /\ StreakCounted'
  BY <1>3 DEF Answered, NoteReachable
<1>4. ASSUME NEW s \in Site, Unreachable(s)
      PROVE  OpensOnEvidence' /\ StreakCounted'
  BY <1>4 DEF Unreachable, NoteConnectivityFailure
<1>5. ASSUME NEW s \in Site, Inconclusive(s)
      PROVE  OpensOnEvidence' /\ StreakCounted'
  BY <1>5 DEF Inconclusive, NoteInconclusive
<1>6. CASE UNCHANGED vars
  BY <1>6
<1> QED
  BY <1>1, <1>2, <1>3, <1>4, <1>5, <1>6 DEF Next

\* The invariant holds of every behaviour of the breaker.
THEOREM BreakerCorrect == Spec => []BreakerInv
<1>1. Init => BreakerInv
  <2>1. Init => halfOpen \in BOOLEAN
    BY DEF Init
  <2> QED
    BY <2>1, ThresholdPositive DEF Init, BreakerInv, TypeOK, HalfOpenProbed,
                                   OpensOnEvidence, StreakCounted
<1>2. BreakerInv /\ [Next]_vars => BreakerInv'
  BY StepKeepsTypes, StepKeepsProbe, StepKeepsEvidence DEF BreakerInv
<1> QED
  BY <1>1, <1>2, PTL DEF Spec

\* A half-open breaker always has a call under way whose verdict ends that
\* state, for any number of concurrent sites.
THEOREM AlwaysHalfOpenProbed == Spec => []HalfOpenProbed
<1>1. BreakerInv => HalfOpenProbed
  BY DEF BreakerInv
<1> QED
  BY <1>1, BreakerCorrect, PTL

\* Fetches are skipped only when Threshold calls have found the portal
\* unreachable since its last answer, for any threshold.
THEOREM AlwaysOpensOnEvidence == Spec => []OpensOnEvidence
<1>1. BreakerInv => OpensOnEvidence
  BY DEF BreakerInv
<1> QED
  BY <1>1, BreakerCorrect, PTL

-----------------------------------------------------------------------------
(***************************************************************************)
(* Proofs about BackgroundTasks, for any tasks and serials: nothing that   *)
(* the integration knows of outlives the drain, and the loader never       *)
(* queues itself behind itself.                                            *)
(***************************************************************************)

USE DEF tasksVars

-----------------------------------------------------------------------------
(* The invariant                                                           *)

\* The types that the argument needs.
FateTypes ==
    /\ fate \in [Tasks -> {"unused", "running", "cancelling", "finished", "cancelled"}]
    /\ tracked \subseteq Tasks
    /\ loader \in Tasks \cup {NoTask}

\* The set holds every task from its creation to its done callback, the
\* loader's among them.
SetExact ==
    /\ \A t \in Tasks : t \in tracked <=> fate[t] # "unused"
    /\ loader # NoTask => loader \in tracked

\* Once the drain has begun nothing is queued; once it is over the set is
\* empty but for what a cycle has added since.
Drained ==
    /\ stopped <=> teardown # "loaded"
    /\ stopped => queued = {}
    /\ teardown \in {"drained", "closed"} => loader = NoTask
    /\ teardown \in {"drained", "closed"} => tracked = {} \/ overrun

TasksInv == FateTypes /\ SetExact /\ Drained /\ NoReadLoop

-----------------------------------------------------------------------------
(* The steps                                                               *)

\* A loader started from a task table and a set that are exact.
LEMMA StartSound ==
    ASSUME NEW serials, NEW known \in SUBSET Tasks,
           NEW f \in [Tasks -> {"unused", "running", "cancelling", "finished", "cancelled"}],
           \A t \in Tasks : t \in known <=> f[t] # "unused",
           StartLoader(serials, f, known)
    PROVE  FateTypes' /\ SetExact' /\ NoReadLoop'
<1>1. PICK t \in Tasks : /\ f[t] = "unused"
                         /\ fate' = [f EXCEPT ![t] = "running"]
                         /\ tracked' = known \cup {t}
                         /\ loader' = t
                         /\ queued' = {}
    BY DEF StartLoader
<1>2. \A u \in Tasks : fate'[u] = IF u = t THEN "running" ELSE f[u]
    BY <1>1
<1> QED
    BY <1>1, <1>2 DEF FateTypes, SetExact, NoReadLoop

\* A step that starts no loader and ends none.
LEMMA TaskStarts ==
    ASSUME TasksInv, NEW t \in Tasks, Track(t)
    PROVE  FateTypes' /\ SetExact' /\ NoReadLoop'
<1>1. /\ fate[t] = "unused" /\ fate' = [fate EXCEPT ![t] = "running"]
      /\ tracked' = tracked \cup {t} /\ UNCHANGED <<loader, queued, active>>
    BY DEF Track, Unused
<1>2. \A u \in Tasks : fate'[u] = IF u = t THEN "running" ELSE fate[u]
    BY <1>1 DEF TasksInv, FateTypes
<1> QED
    BY <1>1, <1>2 DEF TasksInv, FateTypes, SetExact, NoReadLoop

LEMMA AskSound ==
    ASSUME TasksInv, NEW serials \in SUBSET Loadables, AskLoader(serials)
    PROVE  TasksInv'
<1>1. UNCHANGED <<stopped, teardown, overrun>>
    BY DEF AskLoader
<1>2. CASE stopped
    BY <1>1, <1>2 DEF AskLoader, TasksInv, FateTypes, SetExact, Drained, NoReadLoop
<1>3. CASE ~stopped /\ loader # NoTask /\ fate[loader] \in {"running", "cancelling"}
    <2>1. /\ queued' = queued \cup NewSerials(serials)
          /\ UNCHANGED <<fate, tracked, loader, active>>
        BY <1>3 DEF AskLoader
    <2>2. NoReadLoop'
        BY <2>1 DEF NewSerials, TasksInv, NoReadLoop
    <2> QED BY <1>1, <1>3, <2>1, <2>2 DEF TasksInv, FateTypes, SetExact, Drained
<1>4. CASE ~stopped /\ ~(loader # NoTask /\ fate[loader] \in {"running", "cancelling"})
    <2>1. StartLoader(serials, fate, tracked)
        BY <1>4 DEF AskLoader
    <2>2. FateTypes' /\ SetExact' /\ NoReadLoop'
        BY <2>1, StartSound DEF TasksInv, FateTypes, SetExact
    <2>3. Drained'
        BY <1>1, <1>4 DEF TasksInv, Drained
    <2> QED BY <2>2, <2>3 DEF TasksInv
<1> QED
    BY <1>2, <1>3, <1>4

LEMMA DoneSound ==
    ASSUME TasksInv, NEW t \in Tasks, DoneCallbacks(t)
    PROVE  TasksInv'
<1> DEFINE gone == [fate EXCEPT ![t] = "unused"]
<1>1. UNCHANGED <<stopped, teardown, overrun>>
    BY DEF DoneCallbacks
<1>2. /\ gone \in [Tasks -> {"unused", "running", "cancelling", "finished", "cancelled"}]
      /\ \A u \in Tasks : u \in tracked \ {t} <=> gone[u] # "unused"
    BY DEF TasksInv, FateTypes, SetExact
<1>3. CASE loader # t
    <2>1. fate' = gone /\ tracked' = tracked \ {t} /\ UNCHANGED <<loader, active, queued>>
        BY <1>3 DEF DoneCallbacks
    <2> QED BY <1>1, <1>2, <1>3, <2>1 DEF TasksInv, FateTypes, SetExact, Drained, NoReadLoop
<1>4. CASE loader = t /\ (fate[t] = "cancelled" \/ stopped \/ queued = {})
    <2>1. fate' = gone /\ tracked' = tracked \ {t} /\ loader' = NoTask /\ queued' = {}
        BY <1>4 DEF DoneCallbacks
    <2>2. FateTypes' /\ SetExact'
        BY <1>2, <2>1 DEF TasksInv, FateTypes, SetExact
    <2> QED BY <1>1, <2>1, <2>2 DEF TasksInv, Drained, NoReadLoop
<1>5. CASE loader = t /\ ~(fate[t] = "cancelled" \/ stopped \/ queued = {})
    <2>1. StartLoader({}, gone, tracked \ {t})
        BY <1>5 DEF DoneCallbacks
    <2>2. FateTypes' /\ SetExact' /\ NoReadLoop'
        <3> HIDE DEF gone
        <3>1. tracked \ {t} \in SUBSET Tasks
            BY DEF TasksInv, FateTypes
        <3> QED BY <1>2, <2>1, <3>1, StartSound
    <2>3. Drained'
        BY <1>1, <1>5 DEF TasksInv, Drained
    <2> QED BY <2>2, <2>3 DEF TasksInv
<1> QED
    BY <1>3, <1>4, <1>5

LEMMA BatchSound ==
    ASSUME TasksInv, UNCHANGED <<tracked, loader, active>>, NextBatch
    PROVE  FateTypes' /\ SetExact'
           /\ teardown' \in {"draining", "drained"} /\ (teardown' = "drained" => tracked' = {})
<1>1. CASE tracked = {}
    BY <1>1 DEF NextBatch, TasksInv, FateTypes, SetExact
<1>2. CASE tracked # {}
    <2>1. fate' = [t \in Tasks |-> IF t \in tracked /\ fate[t] = "running"
                                   THEN "cancelling" ELSE fate[t]]
        BY <1>2 DEF NextBatch
    <2>2. FateTypes'
        BY <2>1 DEF TasksInv, FateTypes
    <2>3. SetExact'
        BY <2>1 DEF TasksInv, FateTypes, SetExact
    <2> QED BY <1>2, <2>2, <2>3 DEF NextBatch
<1> QED
    BY <1>1, <1>2

LEMMA TasksStep ==
    ASSUME TasksInv, [TasksNext]_tasksVars
    PROVE  TasksInv'
<1>1. CASE CycleBegins \/ CycleEnds \/ BaseShutdown \/ UNCHANGED tasksVars
    BY <1>1
    DEF CycleBegins, CycleEnds, BaseShutdown, TasksInv, FateTypes, SetExact, Drained, NoReadLoop
<1>2. CASE \E serials \in SUBSET Loadables \ {{}} : AskLoader(serials)
    BY <1>2, AskSound
<1>3. ASSUME NEW t \in Tasks, CycleSpawns(t)
      PROVE  TasksInv'
    <2>1. Track(t) /\ UNCHANGED <<stopped, teardown, loader, queued>>
            /\ (teardown \in {"drained", "closed"} => overrun')
            /\ (overrun => overrun')
        BY <1>3 DEF CycleSpawns, Track
    <2> QED BY <2>1, TaskStarts DEF TasksInv, Drained
<1>4. ASSUME NEW t \in Tasks, RecheckFires(t)
      PROVE  TasksInv'
    <2>1. Track(t) /\ ~stopped /\ UNCHANGED <<stopped, teardown, loader, queued, overrun>>
        BY <1>4 DEF RecheckFires, Track
    <2> QED BY <2>1, TaskStarts DEF TasksInv, Drained
<1>5. ASSUME NEW t \in Tasks, TaskEnds(t)
      PROVE  TasksInv'
    <2>1. /\ UNCHANGED <<tracked, loader, active, queued, stopped, teardown, overrun>>
          /\ fate[t] # "unused"
          /\ \E end \in {"finished", "cancelled"} : fate' = [fate EXCEPT ![t] = end]
        BY <1>5 DEF TaskEnds
    <2>2. FateTypes' /\ SetExact'
        BY <2>1 DEF TasksInv, FateTypes, SetExact
    <2> QED BY <2>1, <2>2 DEF TasksInv, Drained, NoReadLoop
<1>6. CASE \E t \in Tasks : DoneCallbacks(t)
    BY <1>6, DoneSound
<1>7. CASE BeginDrain
    <2>1. NextBatch /\ stopped' = TRUE /\ queued' = {} /\ UNCHANGED <<tracked, loader, active>>
        BY <1>7 DEF BeginDrain
    <2>2. /\ FateTypes' /\ SetExact'
          /\ teardown' \in {"draining", "drained"} /\ (teardown' = "drained" => tracked' = {})
        BY <2>1, BatchSound
    <2>3. Drained' /\ NoReadLoop'
        BY <2>1, <2>2 DEF Drained, SetExact, NoReadLoop
    <2> QED BY <2>2, <2>3 DEF TasksInv
<1>8. CASE GatherReturns
    <2>1. /\ NextBatch /\ teardown = "draining"
          /\ UNCHANGED <<tracked, loader, active, queued, stopped>>
        BY <1>8 DEF GatherReturns, Gathered
    <2>2. /\ FateTypes' /\ SetExact'
          /\ teardown' \in {"draining", "drained"} /\ (teardown' = "drained" => tracked' = {})
        BY <2>1, BatchSound
    <2>3. Drained' /\ NoReadLoop'
        BY <2>1, <2>2 DEF TasksInv, Drained, SetExact, NoReadLoop
    <2> QED BY <2>2, <2>3 DEF TasksInv
<1> QED
    BY <1>1, <1>2, <1>3, <1>4, <1>5, <1>6, <1>7, <1>8 DEF TasksNext

LEMMA TasksAlways ==
    TasksSpec => []TasksInv
<1>1. ASSUME TasksInit
      PROVE  TasksInv
    <2>1. FateTypes /\ SetExact /\ NoReadLoop
        BY <1>1 DEF TasksInit, FateTypes, SetExact, NoReadLoop
    <2>2. stopped = FALSE /\ teardown = "loaded"
        BY <1>1 DEF TasksInit
    <2>3. Drained
        BY <2>2 DEF Drained
    <2> QED BY <2>1, <2>3 DEF TasksInv
<1>2. TasksInv /\ [TasksNext]_tasksVars => TasksInv'
    BY TasksStep
<1> QED
    BY <1>1, <1>2, PTL DEF TasksSpec

-----------------------------------------------------------------------------
(* The theorems                                                            *)

\* Whatever ends, asks for parameters or is started while the drain gathers its
\* batches, afterwards no loader runs, none is asked for, and no task is alive
\* but what a cycle that outlived the drain has started.
THEOREM DrainIsComplete ==
    TasksSpec => []NothingAfterDrain
<1>1. TasksInv => NothingAfterDrain
    BY DEF TasksInv, FateTypes, SetExact, Drained, NothingAfterDrain, Alive
<1> QED
    BY <1>1, TasksAlways, PTL

\* The loader never has its own serials queued behind it.
THEOREM LoaderNeverLoops ==
    TasksSpec => []NoReadLoop
<1>1. TasksInv => NoReadLoop
    BY DEF TasksInv
<1> QED
    BY <1>1, TasksAlways, PTL

-----------------------------------------------------------------------------
(***************************************************************************)
(* Proofs about DeviceRemoval, for any inverters and modules, any windows  *)
(* and any age at which the ledger forgets.                                *)
(***************************************************************************)

USE DEF removalVars

\* Since the clock "since" runs, or since i was last seen, or for as long as is
\* counted, nothing has interrupted the observation of i or shown it.
Proven(i, since) ==
    since \in Ages =>
        /\ unbroken[i] \in Ages
        /\ \/ unbroken[i] >= since
           \/ unbroken[i] = Oldest
           \/ lastSeen[i] \in Ages /\ unbroken[i] >= lastSeen[i]

\* While updates succeed each of the three clocks proves what it is asked for.
ClocksProve ==
    succeeded =>
        /\ \A i \in Identifiers : Proven(i, batterySince)
        /\ \A i \in Parents : Proven(i, deviceSince)
        /\ \A i \in Modules : Proven(i, parentSince[ParentOf[i]])

\* Ages grow together.
LEMMA AgesGrow ==
    ASSUME NEW a \in Ages \cup {NoClock, NoEntry}
    PROVE  /\ Older(a) \in Ages \cup {NoClock, NoEntry}
           /\ a \notin Ages => Older(a) = a
           /\ a \in Ages => Older(a) \in Ages /\ (a = Oldest => Older(a) = Oldest)
           /\ \A b \in Ages : a \in Ages /\ b <= a => Older(b) \in Ages /\ Older(b) <= Older(a)
BY RemovalAssumption DEF Older, Ages, Oldest

\* No clock is not an age.
LEMMA ClocksApart ==
    /\ NoClock \notin Ages /\ NoEntry \notin Ages /\ NoEntry # NoClock
    /\ PruneAge \in Nat /\ Oldest \in Ages /\ 0 \in Ages
    /\ \A a \in Ages : a \in Nat /\ a <= Oldest /\ (a > PruneAge => a = Oldest)
BY RemovalAssumption DEF Ages, Oldest

\* Types.
LEMMA RemovalTypesKept ==
    ASSUME RemovalTypeOK, [RemovalNext]_removalVars
    PROVE  RemovalTypeOK'
<1> USE ClocksApart DEF RemovalTypeOK, ClearClocks, Interrupted
<1>0. CASE UNCHANGED removalVars
    BY <1>0
<1>1. ASSUME NEW s \in Snapshots, NEW confirmed \in SUBSET Parents, NEW listOk \in BOOLEAN,
             Observe(s, confirmed, listOk)
      PROVE  RemovalTypeOK'
    <2>1. s \subseteq Identifiers
        BY DEF Snapshots
    <2>2. /\ deviceSince' \in Ages \cup {NoClock} /\ batterySince' \in Ages \cup {NoClock}
        BY <1>1 DEF Observe, NewClock
    <2>3. parentSince' \in [Parents -> Ages \cup {NoClock, NoEntry}]
        BY <1>1 DEF Observe, NewClock
    <2>4. lastSeen' \in [Identifiers -> Ages \cup {NoClock}]
          /\ unbroken' \in [Identifiers -> Ages \cup {NoClock}]
        BY <1>1 DEF Observe
    <2>5. hasData' = TRUE /\ provided' = s /\ strikes' = 0 /\ succeeded' = TRUE
          /\ clean' = BatteryOk(s \cap Parents, confirmed, listOk)
        BY <1>1 DEF Observe
    <2>6. clean' \in BOOLEAN
        BY <2>5 DEF BatteryOk
    <2> QED
        BY <2>1, <2>2, <2>3, <2>4, <2>5, <2>6
<1>2. ASSUME NEW s \in Snapshots, BookkeepingFault(s)
      PROVE  RemovalTypeOK'
    <2>1. parentSince' \in [Parents -> Ages \cup {NoClock, NoEntry}]
        BY <1>2 DEF BookkeepingFault
    <2>2. unbroken' \in [Identifiers -> Ages \cup {NoClock}]
        BY <1>2 DEF BookkeepingFault
    <2>3. provided' \subseteq Identifiers /\ {deviceSince', batterySince'} \subseteq Ages \cup {NoClock}
        BY <1>2 DEF BookkeepingFault, Snapshots
    <2>4. {hasData', succeeded', clean'} \subseteq BOOLEAN
        BY <1>2 DEF BookkeepingFault
    <2>5. strikes' \in 0..3 /\ lastSeen' \in [Identifiers -> Ages \cup {NoClock}]
        BY <1>2 DEF BookkeepingFault
    <2> QED
        BY <2>1, <2>2, <2>3, <2>4, <2>5
<1>3. CASE FetchFails
    <2>1. parentSince' \in [Parents -> Ages \cup {NoClock, NoEntry}]
        BY <1>3 DEF FetchFails
    <2>2. unbroken' \in [Identifiers -> Ages \cup {NoClock}]
        BY <1>3 DEF FetchFails
    <2>3. {deviceSince', batterySince'} \subseteq Ages \cup {NoClock}
        BY <1>3 DEF FetchFails
    <2>4. strikes' \in 0..3 /\ succeeded' \in BOOLEAN /\ clean' = FALSE
        BY <1>3 DEF FetchFails
    <2>5. UNCHANGED <<hasData, provided, lastSeen>>
        BY <1>3 DEF FetchFails
    <2> QED
        BY <2>1, <2>2, <2>3, <2>4, <2>5
<1>4. CASE CycleRaises
    BY <1>4 DEF CycleRaises
<1>5. CASE TimePasses
    <2>1. deviceSince' \in Ages \cup {NoClock} /\ batterySince' \in Ages \cup {NoClock}
        BY <1>5, AgesGrow DEF TimePasses
    <2>2. parentSince' \in [Parents -> Ages \cup {NoClock, NoEntry}]
        BY <1>5, AgesGrow DEF TimePasses
    <2>3. lastSeen' \in [Identifiers -> Ages \cup {NoClock}]
          /\ unbroken' \in [Identifiers -> Ages \cup {NoClock}]
        BY <1>5, AgesGrow DEF TimePasses
    <2> QED
        BY <1>5, <2>1, <2>2, <2>3 DEF TimePasses
<1> QED
    BY <1>0, <1>1, <1>2, <1>3, <1>4, <1>5 DEF RemovalNext

\* The clocks through every step.
LEMMA ClocksKept ==
    ASSUME RemovalTypeOK, ClocksProve, [RemovalNext]_removalVars
    PROVE  ClocksProve'
<1> USE ClocksApart, RemovalAssumption DEF RemovalTypeOK
<1>0. CASE UNCHANGED removalVars
    BY <1>0 DEF ClocksProve, Proven
<1>1. ASSUME NEW s \in Snapshots, NEW confirmed \in SUBSET Parents, NEW listOk \in BOOLEAN,
             Observe(s, confirmed, listOk)
      PROVE  ClocksProve'
    <2> DEFINE listed == s \cap Parents
    <2>1. ASSUME NEW i \in Identifiers, NEW since \in Ages \cup {NoClock, NoEntry},
                 succeeded => Proven(i, since), Attested(i, listed, confirmed, listOk)
          PROVE  /\ unbroken'[i] \in Ages
                 /\ LET t == IF ~succeeded \/ since \notin Ages THEN 0 ELSE since
                    IN  \/ unbroken'[i] >= t
                        \/ unbroken'[i] = Oldest
                        \/ lastSeen'[i] \in Ages /\ unbroken'[i] >= lastSeen'[i]
        <3>1. /\ unbroken'[i] = IF i \in s \/ unbroken[i] \notin Ages THEN 0 ELSE unbroken[i]
              /\ lastSeen'[i] = IF i \in s THEN 0
                                ELSE IF lastSeen[i] \in Ages /\ lastSeen[i] > PruneAge THEN NoClock
                                ELSE lastSeen[i]
            BY <1>1, <2>1 DEF Observe
        <3> QED
            BY <2>1, <3>1 DEF Proven
    <2>2. ASSUME NEW i \in Identifiers
          PROVE  Proven(i, batterySince)'
        <3>1. CASE BatteryOk(listed, confirmed, listOk)
            <4>1. Attested(i, listed, confirmed, listOk)
                BY <3>1 DEF BatteryOk, Attested
            <4>2. batterySince' = IF ~succeeded \/ batterySince \notin Ages THEN 0 ELSE batterySince
                BY <1>1, <3>1 DEF Observe, NewClock
            <4> QED
                BY <2>1, <4>1, <4>2 DEF ClocksProve, Proven
        <3>2. CASE ~BatteryOk(listed, confirmed, listOk)
            BY <1>1, <3>2 DEF Observe, NewClock, Proven
        <3> QED
            BY <3>1, <3>2
    <2>3. ASSUME NEW i \in Parents
          PROVE  Proven(i, deviceSince)'
        <3>1. CASE listOk
            <4>1. i \in Identifiers /\ Attested(i, listed, confirmed, listOk)
                BY <3>1 DEF Attested, Identifiers
            <4>2. deviceSince' = IF ~succeeded \/ deviceSince \notin Ages THEN 0 ELSE deviceSince
                BY <1>1, <3>1 DEF Observe, NewClock
            <4> QED
                BY <2>1, <4>1, <4>2 DEF ClocksProve, Proven
        <3>2. CASE ~listOk
            BY <1>1, <3>2 DEF Observe, NewClock, Proven
        <3> QED
            BY <3>1, <3>2
    <2>4. ASSUME NEW i \in Modules
          PROVE  Proven(i, parentSince[ParentOf[i]])'
        <3> DEFINE p == ParentOf[i]
        <3>0. p \in Parents /\ i \in Identifiers
            BY DEF Identifiers
        <3>1. CASE listOk /\ p \in listed /\ p \in confirmed
            <4>1. Attested(i, listed, confirmed, listOk)
                BY <3>1 DEF Attested
            <4>2. parentSince'[p] = IF ~succeeded \/ parentSince[p] \notin Ages THEN 0
                                    ELSE parentSince[p]
                BY <1>1, <3>0, <3>1 DEF Observe, NewClock
            <4>3. parentSince[p] \in Ages \cup {NoClock, NoEntry} /\ (succeeded => Proven(i, parentSince[p]))
                BY <3>0 DEF ClocksProve
            <4> QED
                BY <2>1, <3>0, <4>1, <4>2, <4>3 DEF Proven
        <3>2. CASE ~(listOk /\ p \in listed /\ p \in confirmed)
            BY <1>1, <3>0, <3>2 DEF Observe, NewClock, Proven
        <3> QED
            BY <3>1, <3>2
    <2> QED
        BY <2>2, <2>3, <2>4 DEF ClocksProve
<1>2. ASSUME NEW s \in Snapshots, BookkeepingFault(s)
      PROVE  ClocksProve'
    BY <1>2 DEF BookkeepingFault, ClearClocks, ClocksProve, Proven
<1>3. CASE FetchFails
    BY <1>3 DEF FetchFails, ClearClocks, ClocksProve, Proven
<1>4. CASE CycleRaises
    BY <1>4 DEF CycleRaises, ClocksProve
<1>5. CASE TimePasses
    <2>1. ASSUME NEW i \in Identifiers, NEW since \in Ages \cup {NoClock, NoEntry},
                 Proven(i, since)
          PROVE  Older(since) \in Ages =>
                    /\ unbroken'[i] \in Ages
                    /\ \/ unbroken'[i] >= Older(since)
                       \/ unbroken'[i] = Oldest
                       \/ lastSeen'[i] \in Ages /\ unbroken'[i] >= lastSeen'[i]
        <3>1. unbroken'[i] = Older(unbroken[i]) /\ lastSeen'[i] = Older(lastSeen[i])
            BY <1>5 DEF TimePasses
        <3>2. unbroken[i] \in Ages \cup {NoClock} /\ lastSeen[i] \in Ages \cup {NoClock}
            OBVIOUS
        <3> QED
            BY <2>1, <3>1, <3>2, AgesGrow DEF Proven
    <2>2. succeeded' = succeeded /\ deviceSince' = Older(deviceSince)
          /\ batterySince' = Older(batterySince)
          /\ \A p \in Parents : parentSince'[p] = Older(parentSince[p])
        BY <1>5 DEF TimePasses
    <2>3. \A i \in Modules : ParentOf[i] \in Parents /\ i \in Identifiers
        BY DEF Identifiers
    <2>4. Parents \subseteq Identifiers
        BY DEF Identifiers
    <2> QED
        BY <2>1, <2>2, <2>3, <2>4 DEF ClocksProve, Proven
<1> QED
    BY <1>0, <1>1, <1>2, <1>3, <1>4, <1>5 DEF RemovalNext

\* The hook only looks at a clock that proves the absence.
LEMMA HookProven ==
    ASSUME RemovalTypeOK, ClocksProve
    PROVE  AbsenceProven
<1> USE ClocksApart, RemovalAssumption DEF RemovalTypeOK
<1> SUFFICES ASSUME NEW i \in Identifiers, MayRemove(i)
             PROVE  AtLeast(unbroken[i], WindowOf(i))
    BY DEF AbsenceProven
<1>1. Proven(i, ObservedSince(i))
    <2>1. i \in Modules => ParentOf[i] \in Parents
        OBVIOUS
    <2> QED
        BY <2>1 DEF ClocksProve, MayRemove, ObservedSince, Identifiers
<1>2. /\ ObservedSince(i) \in Ages /\ ObservedSince(i) >= WindowOf(i)
      /\ lastSeen[i] \in Ages => lastSeen[i] >= WindowOf(i)
    BY DEF MayRemove, AtLeast
<1>3. WindowOf(i) \in Nat /\ WindowOf(i) <= Oldest
    BY DEF WindowOf, Oldest
<1> QED
    BY <1>1, <1>2, <1>3 DEF Proven, AtLeast

\* Whatever the hook lets the user delete was absent from complete observations
\* over its whole window, whichever clock it was judged by, for any inverters,
\* modules and windows (and every variable keeps its type).
THEOREM AbsenceAlwaysProven ==
    RemovalSpec => []AbsenceProven
<1>1. RemovalInit => RemovalTypeOK /\ ClocksProve
    <2> SUFFICES ASSUME RemovalInit PROVE RemovalTypeOK /\ ClocksProve
        OBVIOUS
    <2>1. parentSince \in [Parents -> Ages \cup {NoClock, NoEntry}]
        BY DEF RemovalInit
    <2>2. {lastSeen, unbroken} \subseteq [Identifiers -> Ages \cup {NoClock}]
        BY DEF RemovalInit
    <2>3. RemovalTypeOK
        <3>1. {hasData, succeeded, clean} \subseteq BOOLEAN
            BY DEF RemovalInit
        <3>2. /\ {deviceSince, batterySince} \subseteq Ages \cup {NoClock}
              /\ provided \subseteq Identifiers /\ strikes \in 0..3
            BY DEF RemovalInit
        <3> QED
            BY <2>1, <2>2, <3>1, <3>2 DEF RemovalTypeOK
    <2>4. \A i \in Modules : ParentOf[i] \in Parents
        BY RemovalAssumption
    <2> QED
        BY <2>3, <2>4, ClocksApart DEF RemovalInit, ClocksProve, Proven
<1>2. RemovalTypeOK /\ ClocksProve /\ [RemovalNext]_removalVars => (RemovalTypeOK /\ ClocksProve)'
    BY RemovalTypesKept, ClocksKept
<1>3. RemovalTypeOK /\ ClocksProve => AbsenceProven
    BY HookProven
<1> QED
    BY <1>1, <1>2, <1>3, PTL DEF RemovalSpec

=============================================================================
