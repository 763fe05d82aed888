--------------------------- MODULE ParameterProofs ---------------------------
(***************************************************************************)
(* Proofs about the parameters that are written: what a device and the     *)
(* cache hold while commands of several registers run (ControlWrites), and *)
(* what is shown while reads and cycles overlap with writes                *)
(* (ParameterSeeds).                                                       *)
(***************************************************************************)
EXTENDS ControlWrites, ParameterSeeds, WellFoundedInduction, TLAPS

-----------------------------------------------------------------------------
(***************************************************************************)
(* Proofs about ControlWrites, for any commands and registers: the         *)
(* commands never wait for each other in a circle, two that succeed never  *)
(* mix, and the cache is wrong only where it has to be.                    *)
(***************************************************************************)

USE DEF controlVars, plantVars, commandVars, pollVars, shownVars

-----------------------------------------------------------------------------
(* The order of the registers                                              *)

\* A set of registers, when there is any, has a first and a last one.
LEMMA FirstOf ==
    ASSUME NEW S \in SUBSET Nat, S # {}
    PROVE  \E m \in S : \A k \in S : m <= k
<1> DEFINE R == {pair \in Nat \X Nat : pair[1] < pair[2]}
<1>1. IsWellFoundedOn(R, Nat)
    BY NatLessThanWellFounded DEF OpToRel
<1>2. \E x \in S : \A y \in S : ~(<<y, x>> \in R)
    <2> HIDE DEF R
    <2> QED BY <1>1, WFMin
<1>3. PICK x \in S : \A y \in S : ~(<<y, x>> \in R)
    BY <1>2
<1>4. ASSUME NEW y \in S
      PROVE  x <= y
    <2>1. x \in Nat /\ y \in Nat
        OBVIOUS
    <2>2. ~(y < x)
        BY <1>3, <2>1
    <2> QED BY <2>1, <2>2
<1> QED
    BY <1>4

LEMMA LastOf ==
    ASSUME NEW S \in SUBSET Registers, S # {}
    PROVE  \E m \in S : \A k \in S : k <= m
<1>0. PICK last \in Nat : \A r \in Registers : r \in Nat /\ r <= last
    BY ControlAssumption
<1> DEFINE D == {last - k : k \in S}
<1>1. D \in SUBSET Nat /\ D # {}
    BY <1>0
<1>2. PICK d \in D : \A e \in D : d <= e
    <2> HIDE DEF D
    <2> QED BY <1>1, FirstOf
<1>3. PICK m \in S : d = last - m
    BY <1>2
<1>4. ASSUME NEW k \in S
      PROVE  k <= m
    <2>1. last - k \in D /\ k \in Nat /\ m \in Nat
        BY <1>0
    <2>2. last - m <= last - k
        BY <1>2, <1>3, <2>1
    <2> QED BY <2>1, <2>2
<1> QED
    BY <1>4

-----------------------------------------------------------------------------
(* The operators                                                           *)

LEMMA PieceLeft ==
    ASSUME NEW w \in Writers
    PROVE  Piece(w) \subseteq left[w]
BY DEF Piece

\* What a call of w leaves on fields, of the device or of the cache.
LEMMA WrittenIs ==
    ASSUME NEW f \in [Places(Registers) -> Values], NEW P, NEW w \in Writers
    PROVE  /\ Written(f, P, w) \in [Places(Registers) -> Values]
           /\ \A p \in Places(Registers) : Written(f, P, w)[p] = IF p \in P THEN w ELSE f[p]
<1>1. DOMAIN f = Places(Registers)
    OBVIOUS
<1>2. w \in Values /\ \A p \in Places(Registers) : f[p] \in Values
    BY DEF Values
<1> QED
    BY <1>1, <1>2 DEF Written

\* The locks of w go, and only those.
LEMMA ReleasedIs ==
    ASSUME holder \in [Registers -> Writers \cup {Nobody}], NEW w \in Writers
    PROVE  /\ Released(w) \in [Registers -> Writers \cup {Nobody}]
           /\ \A r \in Registers : Released(w)[r] = IF holder[r] = w THEN Nobody ELSE holder[r]
BY DEF Released

-----------------------------------------------------------------------------
(* Types                                                                   *)

Stages == {"idle", "locking", "writing", "reading", "publishing", "over"}

\* The bookkeeping of the commands and of the locks.
CommandTypes ==
    /\ holder \in [Registers -> Writers \cup {Nobody}]
    /\ stage \in [Writers -> Stages]
    /\ target \in [Writers -> SUBSET Registers]
    /\ left \in [Writers -> SUBSET Places(Registers)]

\* The rest of their state.
RouteTypes ==
    /\ kind \in [Writers -> {"set", "clear", "mode"}]
    /\ route \in [Writers -> {"local", "cloud"}]
    /\ verdict \in [Writers -> {"open", "done", "failed", "cancelled"}]

\* The registers.
FieldTypes ==
    /\ device \in [Places(Registers) -> Values]
    /\ cache \in [Places(Registers) -> Values]
    /\ sample \in [Writers -> [Places(Registers) -> Values]]
    /\ polled \in [Places(Registers) -> Values]

\* What is known of them.
KnownTypes ==
    /\ polling \in BOOLEAN
    /\ seeded \subseteq Places(Registers)
    /\ doubt \subseteq Places(Registers)

\* The plant.
PlantTypes ==
    /\ control \in {"schedule", "timed", "mode"}
    /\ access \in {"local", "cloud", "hybrid", "blocked"}
    /\ linkDown \in BOOLEAN

Types == CommandTypes /\ RouteTypes /\ FieldTypes /\ KnownTypes /\ PlantTypes

LEMMA PlantTypesKept ==
    ASSUME PlantTypes, [ControlNext]_controlVars
    PROVE  PlantTypes'
BY DEF PlantTypes, ControlNext, CommandStep, Call, TakeLock, PieceAcked, LocalFails, CloudFails,
       WriteCancelled, WaitCancelled, ReadSampled, ReadPublished, ReadLost, LinkChanges,
       PollSampled, PollPublished, SeedRetired

LEMMA RouteTypesKept ==
    ASSUME RouteTypes, [ControlNext]_controlVars
    PROVE  RouteTypes'
<1> USE DEF RouteTypes
<1>1. kind' \in [Writers -> {"set", "clear", "mode"}]
    BY DEF ControlNext, CommandStep, Call, TakeLock, PieceAcked, LocalFails, CloudFails,
           WriteCancelled, WaitCancelled, ReadSampled, ReadPublished, ReadLost, LinkChanges,
           PollSampled, PollPublished, SeedRetired
<1>2. route' \in [Writers -> {"local", "cloud"}]
    BY DEF ControlNext, CommandStep, Call, TakeLock, PieceAcked, LocalFails, CloudFails,
           WriteCancelled, WaitCancelled, ReadSampled, ReadPublished, ReadLost, LinkChanges,
           PollSampled, PollPublished, SeedRetired, FirstRoute
<1>3. verdict' \in [Writers -> {"open", "done", "failed", "cancelled"}]
    BY DEF ControlNext, CommandStep, Call, TakeLock, PieceAcked, LocalFails, CloudFails,
           WriteCancelled, WaitCancelled, ReadSampled, ReadPublished, ReadLost, LinkChanges,
           PollSampled, PollPublished, SeedRetired, StopWriting
<1> QED
    BY <1>1, <1>2, <1>3

LEMMA CommandTypesKept ==
    ASSUME CommandTypes, [ControlNext]_controlVars
    PROVE  CommandTypes'
<1> USE DEF CommandTypes
<1>s. "idle" \in Stages /\ "locking" \in Stages /\ "writing" \in Stages /\ "reading" \in Stages
        /\ "publishing" \in Stages /\ "over" \in Stages
    BY DEF Stages
<1>e. ASSUME NEW w \in Writers, Ends(w) \/ Reads(w)
      PROVE  holder' \in [Registers -> Writers \cup {Nobody}] /\ stage' \in [Writers -> Stages]
    <2>1. Released(w) \in [Registers -> Writers \cup {Nobody}]
        BY ReleasedIs
    <2>2. holder' = Released(w) \/ holder' = holder
        BY <1>e DEF Ends, Reads
    <2>3. stage' = [stage EXCEPT ![w] = "over"] \/ stage' = [stage EXCEPT ![w] = "reading"]
        BY <1>e DEF Ends, Reads
    <2>4. stage' \in [Writers -> Stages]
        BY <1>s, <2>3
    <2> QED BY <2>1, <2>2, <2>4
<1>a. ASSUME NEW w \in Writers
      PROVE  AllOf(w) \subseteq Places(Registers)
    BY DEF AllOf, Places
<1>1. ASSUME NEW w \in Writers, Call(w)
      PROVE  CommandTypes'
    <2>1. stage' = [stage EXCEPT ![w] = "locking"] /\ UNCHANGED <<holder, left>>
        BY <1>1 DEF Call
    <2>2. target' \in [Writers -> SUBSET Registers]
        BY <1>1 DEF Call
    <2>3. stage' \in [Writers -> Stages]
        BY <1>s, <2>1
    <2> QED BY <2>1, <2>2, <2>3
<1>2. ASSUME NEW w \in Writers, TakeLock(w)
      PROVE  CommandTypes'
    <2>1. /\ stage' \in {stage, [stage EXCEPT ![w] = "writing"]}
          /\ left' \in {left, [left EXCEPT ![w] = AllOf(w)]}
          /\ target' = target
          /\ \E r \in Registers : holder' = [holder EXCEPT ![r] = w]
        BY <1>2 DEF TakeLock, NextLocks, Lacking
    <2>2. stage' \in [Writers -> Stages]
        BY <1>s, <2>1
    <2>3. left' \in [Writers -> SUBSET Places(Registers)]
        BY <1>a, <2>1
    <2>4. holder' \in [Registers -> Writers \cup {Nobody}]
        BY <2>1
    <2> QED BY <2>1, <2>2, <2>3, <2>4
<1>3. ASSUME NEW w \in Writers, PieceAcked(w)
      PROVE  CommandTypes'
    <2>1. Ends(w) \/ Reads(w) \/ UNCHANGED <<holder, stage>>
        BY <1>3 DEF PieceAcked, EndsUnread
    <2>2. left' = [left EXCEPT ![w] = left[w] \ Piece(w)] /\ target' = target
        BY <1>3 DEF PieceAcked
    <2>3. left' \in [Writers -> SUBSET Places(Registers)]
        BY <2>2
    <2> QED BY <1>e, <2>1, <2>2, <2>3
<1>4. ASSUME NEW w \in Writers, LocalFails(w)
      PROVE  CommandTypes'
    <2>1. Ends(w) \/ UNCHANGED <<holder, stage>>
        BY <1>4 DEF LocalFails, EndsUnread
    <2>2. left' \in {left, [left EXCEPT ![w] = AllOf(w)]} /\ target' = target
        BY <1>4 DEF LocalFails
    <2>3. left' \in [Writers -> SUBSET Places(Registers)]
        BY <1>a, <2>2
    <2> QED BY <1>e, <2>1, <2>2, <2>3
<1>5. ASSUME NEW w \in Writers, CloudFails(w) \/ WriteCancelled(w)
      PROVE  CommandTypes'
    <2>1. (Ends(w) \/ Reads(w)) /\ UNCHANGED <<left, target>>
        BY <1>5 DEF CloudFails, WriteCancelled, StopWriting, EndsUnread
    <2> QED BY <1>e, <2>1
<1>6. ASSUME NEW w \in Writers, WaitCancelled(w) \/ ReadPublished(w) \/ ReadLost(w)
      PROVE  CommandTypes'
    <2>1. Ends(w) /\ UNCHANGED <<left, target>>
        BY <1>6 DEF WaitCancelled, ReadPublished, ReadLost, EndsUnread
    <2> QED BY <1>e, <2>1
<1>7. ASSUME NEW w \in Writers, ReadSampled(w)
      PROVE  CommandTypes'
    <2>1. stage' = [stage EXCEPT ![w] = "publishing"] /\ UNCHANGED <<holder, left, target>>
        BY <1>7 DEF ReadSampled
    <2>2. stage' \in [Writers -> Stages]
        BY <1>s, <2>1
    <2> QED BY <2>1, <2>2
<1>8. CASE \/ LinkChanges \/ PollSampled \/ PollPublished \/ UNCHANGED controlVars
           \/ \E p \in Places(Registers) : SeedRetired(p)
    BY <1>8 DEF LinkChanges, PollSampled, PollPublished, SeedRetired
<1> QED
    BY <1>1, <1>2, <1>3, <1>4, <1>5, <1>6, <1>7, <1>8 DEF ControlNext, CommandStep

LEMMA PublishedIs ==
    ASSUME FieldTypes, NEW f \in [Places(Registers) -> Values], NEW places, Published(f, places)
    PROVE  cache' \in [Places(Registers) -> Values]
<1>1. PICK K \in SUBSET (places \cap seeded) :
        cache' = [p \in DOMAIN cache |-> IF p \in places \ K THEN f[p] ELSE cache[p]]
    BY DEF Published
<1>2. DOMAIN cache = Places(Registers)
    BY DEF FieldTypes
<1> QED
    BY <1>1, <1>2 DEF FieldTypes

LEMMA FieldTypesKept ==
    ASSUME FieldTypes, [ControlNext]_controlVars
    PROVE  FieldTypes'
<1> USE DEF FieldTypes
<1> DEFINE Fields == [Places(Registers) -> Values]
<1>w. ASSUME NEW w \in Writers, NEW f \in Fields, NEW P
      PROVE  Written(f, P, w) \in Fields
    BY WrittenIs
<1>p. Pristine \in Fields
    BY DEF Pristine, Values
<1>1. device' \in Fields
    <2>1. UNCHANGED device \/ \E w \in Writers : \E P : device' = Written(device, P, w)
        BY DEF ControlNext, CommandStep, Call, TakeLock, PieceAcked, LocalFails, CloudFails,
               WriteCancelled, WaitCancelled, ReadSampled, ReadPublished, ReadLost, LinkChanges,
               PollSampled, PollPublished, SeedRetired, MayHaveLanded
    <2> QED BY <1>w, <2>1
<1>n. ASSUME NEW w \in Writers, NEW P, Noted(w, P)
      PROVE  cache' \in Fields /\ sample' \in [Writers -> Fields] /\ polled' \in Fields
    <2>1. \A v \in Writers : Written(sample[v], P, w) \in Fields
        BY <1>w
    <2>2. Written(cache, P, w) \in Fields /\ Written(polled, P, w) \in Fields
        BY <1>w
    <2> QED BY <1>n, <2>1, <2>2 DEF Noted
<1>2. ASSUME NEW w \in Writers, ReadPublished(w)
      PROVE  FieldTypes'
    <2>1. Published(sample[w], ReadBy(w)) /\ sample[w] \in Fields
            /\ sample' = [sample EXCEPT ![w] = Pristine] /\ polled' = polled
        BY <1>2 DEF ReadPublished
    <2> QED BY <1>1, <1>p, <2>1, PublishedIs
<1>3. CASE PollPublished
    <2>1. Published(polled, Places(Registers)) /\ polled' = Pristine /\ sample' = sample
        BY <1>3 DEF PollPublished
    <2> QED BY <1>1, <1>p, <2>1, PublishedIs
<1>4. CASE ~PollPublished /\ ~\E w \in Writers : ReadPublished(w)
    <2>1. \/ \E w \in Writers : \E P : Noted(w, P)
          \/ /\ cache' = cache
             /\ \/ UNCHANGED sample
                \/ \E w \in Writers : sample' \in {[sample EXCEPT ![w] = device],
                                                   [sample EXCEPT ![w] = Pristine]}
             /\ polled' \in {polled, device}
        BY <1>4
        DEF ControlNext, CommandStep, Call, TakeLock, PieceAcked, LocalFails, CloudFails,
            WriteCancelled, WaitCancelled, ReadSampled, ReadLost, LinkChanges, PollSampled,
            SeedRetired, StopWriting, NothingNoted
    <2> QED BY <1>1, <1>n, <1>p, <2>1
<1> QED
    BY <1>2, <1>3, <1>4

LEMMA KnownTypesKept ==
    ASSUME Types, [ControlNext]_controlVars
    PROVE  KnownTypes'
<1> USE DEF KnownTypes, Types
<1>a. \A w \in Writers : AllOf(w) \subseteq Places(Registers) /\ ReadBy(w) \subseteq Places(Registers)
    BY DEF AllOf, Places, ReadBy, CommandTypes
<1>1. polling' \in BOOLEAN
    BY DEF ControlNext, CommandStep, Call, TakeLock, PieceAcked, LocalFails, CloudFails,
           WriteCancelled, WaitCancelled, ReadSampled, ReadPublished, ReadLost, LinkChanges,
           PollSampled, PollPublished, SeedRetired
<1>2. seeded' \subseteq Places(Registers)
    <2>1. \/ seeded' \subseteq seeded
          \/ \E w \in Writers : \E P \in SUBSET AllOf(w) : seeded' = seeded \cup P
        BY DEF ControlNext, CommandStep, Call, TakeLock, PieceAcked, LocalFails, CloudFails,
               WriteCancelled, WaitCancelled, ReadSampled, ReadPublished, ReadLost, LinkChanges,
               PollSampled, PollPublished, SeedRetired, StopWriting, Noted, NothingNoted
    <2> QED BY <1>a, <2>1
<1>3. doubt' \subseteq Places(Registers)
    <2>1. doubt' = doubt \/ \E P \in SUBSET Places(Registers) : Doubtful(P)
        BY <1>a
        DEF ControlNext, CommandStep, Call, TakeLock, PieceAcked, LocalFails, CloudFails,
            WriteCancelled, WaitCancelled, ReadSampled, ReadPublished, ReadLost, LinkChanges,
            PollSampled, PollPublished, SeedRetired, StopWriting, EndsUnread, Published
    <2> QED BY <2>1 DEF Doubtful
<1> QED
    BY <1>1, <1>2, <1>3

-----------------------------------------------------------------------------
(* The invariant                                                           *)

\* A command holds only registers of its own; while it waits for a lock it
\* has those below the ones it lacks; to write and to read it has them all.
Locks(w) ==
    /\ \A r \in Registers : holder[r] = w => r \in target[w] /\ stage[w] \notin {"idle", "over"}
    /\ stage[w] = "locking" =>
        /\ Lacking(w) # {}
        /\ \A r \in Registers, q \in Lacking(w) : holder[r] = w => r < q
    /\ stage[w] \in {"writing", "reading", "publishing"} => Lacking(w) = {}

\* What an attempt no longer has to write it has written.
Progress(w) ==
    /\ left[w] \subseteq AllOf(w)
    /\ stage[w] = "idle" => left[w] = {}
    /\ stage[w] \in {"idle", "locking", "writing"} => verdict[w] = "open"
    /\ stage[w] = "writing" => \A p \in AllOf(w) \ left[w] : device[p] = w

\* What a command has read has not changed since.
Sampled(w) == stage[w] = "publishing" => \A p \in AllOf(w) : sample[w][p] = device[p]

\* A register of two writers is the work of one who failed, or is under way.
Accounted ==
    \A r \in Registers :
        device[<<r, 1>>] # device[<<r, 2>>] =>
            \E f \in {1, 2} :
                /\ device[<<r, f>>] \in Writers
                /\ \/ verdict[device[<<r, f>>]] \in {"failed", "cancelled"}
                   \/ /\ holder[r] = device[<<r, f>>]
                      /\ stage[device[<<r, f>>]] = "writing"

\* A field was written by a command that has it among its own, after its locks.
Owned ==
    \A p \in Places(Registers), v \in Writers : device[p] = v =>
        p \in AllOf(v) /\ stage[v] \notin {"idle", "locking"}

Early == {"idle", "locking", "writing"}

\* While a command writes, or before, nobody has a value of it that the device
\* has not.
NeverAhead(w) ==
    stage[w] \in Early => \A p \in Places(Registers) :
        device[p] # w => /\ cache[p] # w /\ polled[p] # w
                         /\ \A v \in Writers : sample[v][p] # w

\* The writer of the field is not done with it.
InHand(p) ==
    /\ device[p] \in Writers
    /\ holder[p[1]] = device[p]
    /\ stage[device[p]] \in {"writing", "reading", "publishing"}

\* A field that the cache shows wrongly is in doubt, or its writer is not done.
Followed ==
    \A p \in Places(Registers) : cache[p] # device[p] => p \in doubt \/ InHand(p)

\* No read in flight is behind the cache.
NotBehind(f, places) ==
    \A p \in places : f[p] # device[p] => cache[p] # device[p]

\* So it is with a cloud connection, where one read is in flight at a time.
ReadsBehind ==
    access # "local" =>
        /\ polling => ~CommandReads /\ NotBehind(polled, Places(Registers))
        /\ \A w \in Writers : stage[w] = "publishing" =>
            /\ NotBehind(sample[w], ReadBy(w))
            /\ control # "mode" => \A v \in Writers : stage[v] = "publishing" => v = w

ControlInv ==
    /\ Types
    /\ \A w \in Writers : Locks(w) /\ Progress(w) /\ Sampled(w) /\ NeverAhead(w)
    /\ Accounted /\ Owned /\ Followed /\ ReadsBehind

-----------------------------------------------------------------------------
(* What a step leaves alone                                                *)

\* Nothing of another command moves.
OthersAlone(w) ==
    \A v \in Writers \ {w} :
        /\ stage'[v] = stage[v] /\ target'[v] = target[v] /\ left'[v] = left[v]
        /\ verdict'[v] = verdict[v]
        /\ \A r \in Registers : holder'[r] = v <=> holder[r] = v

\* No field changes but those of the call under way, under the lock.
OwnFields(w) ==
    \A p \in Places(Registers) :
        \/ device'[p] = device[p]
        \/ device'[p] = w /\ p \in left[w] /\ holder[p[1]] = w /\ stage[w] = "writing"

\* What is known of a field changes for the command's own value, noted as soon
\* as the device has it, for a read in flight too; or not at all.
NotesOwn(w) ==
    \A p \in Places(Registers) :
        \/ /\ cache'[p] = cache[p] /\ polled'[p] = polled[p]
           /\ \A v \in Writers : v # w => sample'[v][p] = sample[v][p]
        \/ /\ stage[w] = "writing" /\ holder[p[1]] = w
           /\ cache'[p] = w /\ device'[p] = w
           /\ polled'[p] = IF polling THEN w ELSE polled[p]
           /\ \A v \in Writers : v # w =>
                sample'[v][p] = IF stage[v] = "publishing" THEN w ELSE sample[v][p]

LEMMA PlaceOf ==
    ASSUME NEW p \in Places(Registers)
    PROVE  p[1] \in Registers /\ p[2] \in {1, 2} /\ p = <<p[1], p[2]>>
BY DEF Places

LEMMA StepLeavesOthers ==
    ASSUME Types, NEW w \in Writers, Call(w) \/ CommandStep(w)
    PROVE  OthersAlone(w)
<1> SUFFICES ASSUME NEW v \in Writers \ {w}
             PROVE  /\ stage'[v] = stage[v] /\ target'[v] = target[v] /\ left'[v] = left[v]
                    /\ verdict'[v] = verdict[v]
                    /\ \A r \in Registers : holder'[r] = v <=> holder[r] = v
    BY DEF OthersAlone
<1>t. /\ holder \in [Registers -> Writers \cup {Nobody}]
      /\ stage \in [Writers -> Stages]
      /\ target \in [Writers -> SUBSET Registers]
      /\ left \in [Writers -> SUBSET Places(Registers)]
      /\ verdict \in [Writers -> {"open", "done", "failed", "cancelled"}]
    BY DEF Types, CommandTypes, RouteTypes
<1>n. Nobody \notin Writers
    BY ControlAssumption
<1>1. \A r \in Registers : holder'[r] = v <=> holder[r] = v
    <2>1. \/ holder' = holder
          \/ holder' = Released(w)
          \/ \E r \in Registers : holder[r] = Nobody /\ holder' = [holder EXCEPT ![r] = w]
        BY DEF Call, CommandStep, TakeLock, NextLocks, Lacking, Free, PieceAcked, LocalFails,
               CloudFails, WriteCancelled, WaitCancelled, ReadSampled, ReadPublished, ReadLost,
               StopWriting, EndsUnread, Ends, Reads, Types, CommandTypes
    <2>2. \A r \in Registers : Released(w)[r] = IF holder[r] = w THEN Nobody ELSE holder[r]
        BY <1>t, ReleasedIs
    <2> QED BY <1>t, <1>n, <2>1, <2>2
<1>2. stage'[v] = stage[v]
    <2>1. stage' = stage \/ \E g \in Stages : stage' = [stage EXCEPT ![w] = g]
        BY DEF Call, CommandStep, TakeLock, PieceAcked, LocalFails,
               CloudFails, WriteCancelled, WaitCancelled, ReadSampled, ReadPublished, ReadLost,
               StopWriting, EndsUnread, Ends, Reads, Stages
    <2> QED BY <1>t, <2>1
<1>3. target'[v] = target[v] /\ left'[v] = left[v]
    BY <1>t
    DEF Call, CommandStep, TakeLock, PieceAcked, LocalFails, CloudFails, WriteCancelled,
        WaitCancelled, ReadSampled, ReadPublished, ReadLost
<1>4. verdict'[v] = verdict[v]
    BY <1>t
    DEF Call, CommandStep, TakeLock, PieceAcked, LocalFails, CloudFails, WriteCancelled,
        WaitCancelled, ReadSampled, ReadPublished, ReadLost, StopWriting
<1> QED
    BY <1>1, <1>2, <1>3, <1>4

LEMMA StepWritesOwn ==
    ASSUME Types, NEW w \in Writers, Locks(w), Progress(w), Call(w) \/ CommandStep(w)
    PROVE  OwnFields(w)
<1>t. device \in [Places(Registers) -> Values]
    BY DEF Types, FieldTypes
<1>1. UNCHANGED device \/ (stage[w] = "writing" /\ device' = Written(device, Piece(w), w))
    BY DEF Call, CommandStep, TakeLock, PieceAcked, LocalFails, CloudFails, WriteCancelled,
           WaitCancelled, ReadSampled, ReadPublished, ReadLost, MayHaveLanded
<1>2. CASE UNCHANGED device
    BY <1>2 DEF OwnFields
<1>3. CASE stage[w] = "writing" /\ device' = Written(device, Piece(w), w)
    <2>1. ASSUME NEW p \in Places(Registers), device'[p] # device[p]
          PROVE  device'[p] = w /\ p \in left[w] /\ holder[p[1]] = w
        <3>1. device'[p] = w /\ p \in Piece(w)
            BY <1>t, <1>3, <2>1, WrittenIs
        <3>2. p \in left[w] /\ p \in AllOf(w)
            BY <3>1, PieceLeft DEF Progress
        <3>3. p[1] \in target[w]
            BY <3>2 DEF AllOf, Places
        <3> QED BY <1>3, <3>1, <3>2, <3>3 DEF Locks, Lacking
    <2> QED BY <1>3, <2>1 DEF OwnFields
<1> QED
    BY <1>1, <1>2, <1>3

\* With its last call a command has written all of its fields.
LEMMA LastPieceWritten ==
    ASSUME Types, NEW w \in Writers, Progress(w), PieceAcked(w), left'[w] = {}
    PROVE  \A p \in AllOf(w) : p \in Places(Registers) /\ device'[p] = w
<1>t. /\ left \in [Writers -> SUBSET Places(Registers)]
      /\ device \in [Places(Registers) -> Values] /\ AllOf(w) \subseteq Places(Registers)
    BY DEF Types, CommandTypes, FieldTypes, AllOf, Places
<1>1. /\ stage[w] = "writing" /\ device' = Written(device, Piece(w), w)
      /\ left'[w] = left[w] \ Piece(w)
    BY <1>t DEF PieceAcked
<1>2. \A p \in AllOf(w) : device'[p] = IF p \in Piece(w) THEN w ELSE device[p]
    BY <1>t, <1>1, WrittenIs
<1>3. left[w] \subseteq Piece(w)
    BY <1>1
<1> QED
    BY <1>t, <1>1, <1>2, <1>3 DEF Progress

\* What a command notes are fields of its own that it has written.
LEMMA NotedIs ==
    ASSUME Types, NEW w \in Writers, Locks(w), stage[w] = "writing", NEW P \in SUBSET AllOf(w),
           \A p \in P : device'[p] = w, Noted(w, P)
    PROVE  NotesOwn(w)
<1>t. /\ cache \in [Places(Registers) -> Values] /\ polled \in [Places(Registers) -> Values]
      /\ sample \in [Writers -> [Places(Registers) -> Values]]
    BY DEF Types, FieldTypes
<1> SUFFICES ASSUME NEW p \in Places(Registers)
             PROVE  \/ /\ cache'[p] = cache[p] /\ polled'[p] = polled[p]
                       /\ \A v \in Writers : v # w => sample'[v][p] = sample[v][p]
                    \/ /\ holder[p[1]] = w
                       /\ cache'[p] = w /\ device'[p] = w
                       /\ polled'[p] = IF polling THEN w ELSE polled[p]
                       /\ \A v \in Writers : v # w =>
                            sample'[v][p] = IF stage[v] = "publishing" THEN w ELSE sample[v][p]
    BY DEF NotesOwn
<1>1. /\ cache'[p] = IF p \in P THEN w ELSE cache[p]
      /\ polled'[p] = IF p \in P /\ polling THEN w ELSE polled[p]
    BY <1>t, WrittenIs DEF Noted
<1>2. ASSUME NEW v \in Writers
      PROVE  sample'[v][p] = IF p \in P /\ stage[v] = "publishing" THEN w ELSE sample[v][p]
    <2>1. sample[v] \in [Places(Registers) -> Values]
        BY <1>t
    <2>2. sample'[v] = IF stage[v] = "publishing" THEN Written(sample[v], P, w) ELSE sample[v]
        BY DEF Noted
    <2> QED BY <2>1, <2>2, WrittenIs
<1>3. p \in P => holder[p[1]] = w
    BY DEF Locks, Lacking, AllOf, Places
<1> QED
    BY <1>1, <1>2, <1>3

LEMMA StepNotesOwn ==
    ASSUME Types, NEW w \in Writers, Locks(w), Progress(w), Call(w) \/ CommandStep(w),
           ~ReadPublished(w)
    PROVE  NotesOwn(w)
<1>t. /\ device \in [Places(Registers) -> Values] /\ AllOf(w) \subseteq Places(Registers)
      /\ left \in [Writers -> SUBSET Places(Registers)]
      /\ sample \in [Writers -> [Places(Registers) -> Values]]
    BY DEF Types, FieldTypes, CommandTypes, AllOf, Places
<1>w. OwnFields(w)
    BY StepWritesOwn
<1>d. ASSUME stage[w] = "writing"
      PROVE  \A p \in AllOf(w) \ left[w] : device'[p] = w
    BY <1>t, <1>w, <1>d DEF Progress, OwnFields
<1>n. ASSUME UNCHANGED <<cache, polled>>, \A v \in Writers : v # w => sample'[v] = sample[v]
      PROVE  NotesOwn(w)
    BY <1>n DEF NotesOwn
<1>e. ASSUME stage[w] = "writing", Noted(w, {})
      PROVE  NotesOwn(w)
    BY <1>e, NotedIs
<1>1. CASE PieceAcked(w)
    <2>1. stage[w] = "writing" /\ left'[w] = left[w] \ Piece(w)
        BY <1>t, <1>1 DEF PieceAcked
    <2>2. \/ NothingNoted
          \/ left'[w] = {} /\ Noted(w, AllOf(w))
        BY <1>1 DEF PieceAcked
    <2>3. left'[w] = {} => \A p \in AllOf(w) : device'[p] = w
        BY <1>1, LastPieceWritten
    <2> QED BY <1>n, <2>1, <2>2, <2>3, NotedIs DEF NothingNoted
<1>2. CASE LocalFails(w) \/ CloudFails(w) \/ WriteCancelled(w)
    <2>1. stage[w] = "writing"
            /\ (NothingNoted \/ Noted(w, AllOf(w) \ left[w]) \/ Noted(w, {}))
        BY <1>2 DEF LocalFails, CloudFails, WriteCancelled, StopWriting
    <2>2. CASE Noted(w, AllOf(w) \ left[w])
        <3>1. AllOf(w) \ left[w] \in SUBSET AllOf(w)
            OBVIOUS
        <3> QED BY <1>d, <2>1, <2>2, <3>1, NotedIs
    <2> QED BY <1>e, <1>n, <2>1, <2>2 DEF NothingNoted
<1>3. CASE Call(w) \/ TakeLock(w) \/ WaitCancelled(w) \/ ReadSampled(w) \/ ReadLost(w)
    <2>1. UNCHANGED <<cache, polled>> /\ \A v \in Writers : v # w => sample'[v] = sample[v]
        BY <1>t, <1>3 DEF Call, TakeLock, WaitCancelled, ReadSampled, ReadLost
    <2> QED BY <1>n, <2>1
<1> QED
    BY <1>1, <1>2, <1>3 DEF CommandStep

\* A read that is published is over; nobody else's changes.
LEMMA PublishedAlone ==
    ASSUME Types, NEW w \in Writers, ReadPublished(w), NEW v \in Writers, v # w
    PROVE  sample'[v] = sample[v]
BY DEF ReadPublished, Types, FieldTypes

\* So what holds of another command still does.
LEMMA OthersKeep ==
    ASSUME ControlInv, NEW w \in Writers, Call(w) \/ CommandStep(w), NEW v \in Writers, v # w
    PROVE  Locks(v)' /\ Progress(v)' /\ Sampled(v)'
<1>0. Types /\ Locks(v) /\ Progress(v) /\ Sampled(v) /\ Locks(w) /\ Progress(w)
    BY DEF ControlInv
<1>a. OthersAlone(w) /\ OwnFields(w)
    BY <1>0, StepLeavesOthers, StepWritesOwn
<1>1. /\ stage'[v] = stage[v] /\ target'[v] = target[v] /\ left'[v] = left[v]
      /\ verdict'[v] = verdict[v]
      /\ \A r \in Registers : holder'[r] = v <=> holder[r] = v
    BY <1>a DEF OthersAlone
<1>2. target[v] \subseteq Registers /\ AllOf(v)' = AllOf(v) /\ AllOf(v) \subseteq Places(Registers)
    BY <1>1 DEF ControlInv, Types, CommandTypes, AllOf, Places
<1>3. Lacking(v)' = Lacking(v)
    BY <1>1, <1>2 DEF Lacking
<1>4. Locks(v)'
    BY <1>0, <1>1, <1>3 DEF Locks
<1>h. ASSUME stage[v] \in {"writing", "reading", "publishing"}, NEW p \in AllOf(v)
      PROVE  p \in Places(Registers) /\ holder[p[1]] = v
    <2>1. p \in Places(Registers) /\ p[1] \in target[v] /\ p[1] \in Registers
        BY <1>2 DEF AllOf, Places
    <2> QED BY <1>0, <1>h, <2>1 DEF Locks, Lacking
<1>5. stage[v] \in {"writing", "reading", "publishing"} => \A p \in AllOf(v) : device'[p] = device[p]
    BY <1>a, <1>h DEF OwnFields
<1>6. Progress(v)'
    BY <1>0, <1>1, <1>2, <1>5 DEF Progress
<1>7. Sampled(v)'
    <2>1. ASSUME stage[v] = "publishing", NEW p \in AllOf(v)
          PROVE  sample'[v][p] = sample[v][p]
        <3>1. p \in Places(Registers) /\ holder[p[1]] # w
            BY <1>h, <2>1
        <3>2. CASE ReadPublished(w)
            BY <1>0, <3>2, PublishedAlone
        <3>3. CASE ~ReadPublished(w)
            <4>1. NotesOwn(w)
                BY <1>0, <3>3, StepNotesOwn
            <4> QED BY <3>1, <4>1 DEF NotesOwn
        <3> QED BY <3>2, <3>3
    <2> QED BY <1>0, <1>1, <1>2, <1>5, <2>1 DEF Sampled
<1> QED
    BY <1>4, <1>6, <1>7

-----------------------------------------------------------------------------
(* What a step does to its own command                                     *)

\* A command that ends holds nothing; one that reads holds what it held.
LEMMA EndsLocks ==
    ASSUME Types, NEW w \in Writers, Locks(w), target' = target,
           Ends(w) \/ (Reads(w) /\ stage[w] = "writing")
    PROVE  Locks(w)'
<1>t. holder \in [Registers -> Writers \cup {Nobody}] /\ stage \in [Writers -> Stages]
        /\ target[w] \subseteq Registers /\ Nobody # w
    BY ControlAssumption DEF Types, CommandTypes
<1>1. CASE Ends(w)
    <2>1. stage'[w] = "over"
        BY <1>t, <1>1 DEF Ends
    <2>2. \A r \in Registers : holder'[r] # w
        BY <1>t, <1>1, ReleasedIs DEF Ends
    <2> QED BY <2>1, <2>2 DEF Locks
<1>2. CASE Reads(w) /\ stage[w] = "writing"
    <2>1. stage'[w] = "reading" /\ holder' = holder
        BY <1>t, <1>2 DEF Reads
    <2>2. Lacking(w)' = Lacking(w)
        BY <2>1 DEF Lacking
    <2> QED BY <1>2, <2>1, <2>2 DEF Locks
<1> QED
    BY <1>1, <1>2

LEMMA OwnLocks ==
    ASSUME Types, NEW w \in Writers, Locks(w), Call(w) \/ CommandStep(w)
    PROVE  Locks(w)'
<1>t. /\ holder \in [Registers -> Writers \cup {Nobody}] /\ stage \in [Writers -> Stages]
      /\ target \in [Writers -> SUBSET Registers] /\ Nobody # w
    BY ControlAssumption DEF Types, CommandTypes
<1>1. CASE Call(w)
    <2>1. stage[w] = "idle" /\ stage'[w] = "locking" /\ holder' = holder
        BY <1>t, <1>1 DEF Call
    <2>2. target'[w] # {} /\ target'[w] \subseteq Registers
        BY <1>t, <1>1, ControlAssumption DEF Call
    <2>3. \A r \in Registers : holder[r] # w
        BY <2>1 DEF Locks
    <2>4. Lacking(w)' # {}
        BY <2>1, <2>2, <2>3 DEF Lacking
    <2> QED BY <2>1, <2>3, <2>4 DEF Locks
<1>2. CASE TakeLock(w)
    <2>0. stage[w] = "locking" /\ target' = target
        BY <1>2 DEF TakeLock
    <2>1. PICK r \in NextLocks(w) :
            /\ Free(r)
            /\ holder' = [holder EXCEPT ![r] = w]
            /\ IF Lacking(w) = {r}
               THEN stage' = [stage EXCEPT ![w] = "writing"]
               ELSE stage' = stage
        BY <1>2 DEF TakeLock
    <2>2. /\ r \in Lacking(w) /\ r \in Registers /\ r \in target[w]
          /\ \A q \in Lacking(w) : r <= q
        BY <1>t DEF NextLocks, Lacking
    <2>3. \A q \in Registers : holder'[q] = w <=> (q = r \/ holder[q] = w)
        BY <1>t, <2>1, <2>2
    <2>4. Lacking(w)' = Lacking(w) \ {r}
        BY <1>t, <2>0, <2>3 DEF Lacking
    <2>5. \A q \in Registers : holder'[q] = w => q \in target[w]
        BY <2>2, <2>3 DEF Locks
    <2>6. CASE Lacking(w) = {r}
        <3>1. stage'[w] = "writing"
            BY <1>t, <2>1, <2>6
        <3> QED BY <2>0, <2>4, <2>5, <2>6, <3>1 DEF Locks
    <2>7. CASE Lacking(w) # {r}
        <3>1. stage'[w] = "locking"
            BY <2>0, <2>1, <2>7
        <3>2. Lacking(w)' # {}
            BY <2>2, <2>4, <2>7
        <3>3. ASSUME NEW q \in Registers, NEW k \in Lacking(w)', holder'[q] = w
              PROVE  q < k
            <4>1. k \in Lacking(w) /\ k # r /\ k \in Nat /\ r \in Nat /\ q \in Nat /\ r <= k
                BY <1>t, <2>2, <2>4, ControlAssumption DEF Lacking
            <4>2. CASE q = r
                BY <4>1, <4>2
            <4>3. CASE holder[q] = w
                BY <2>0, <4>1, <4>3 DEF Locks
            <4> QED BY <2>3, <3>3, <4>2, <4>3
        <3> QED BY <2>0, <2>5, <3>1, <3>2, <3>3 DEF Locks
    <2> QED BY <2>6, <2>7
<1>3. CASE PieceAcked(w)
    <2>1. stage[w] = "writing" /\ target' = target
            /\ (Ends(w) \/ Reads(w) \/ UNCHANGED <<holder, stage>>)
        BY <1>3 DEF PieceAcked, EndsUnread
    <2>2. CASE UNCHANGED <<holder, stage>>
        BY <2>1, <2>2 DEF Locks, Lacking
    <2> QED BY <2>1, <2>2, EndsLocks
<1>4. CASE LocalFails(w)
    <2>1. target' = target /\ (Ends(w) \/ UNCHANGED <<holder, stage>>)
        BY <1>4 DEF LocalFails, EndsUnread
    <2>2. CASE UNCHANGED <<holder, stage>>
        BY <2>1, <2>2 DEF Locks, Lacking
    <2> QED BY <2>1, <2>2, EndsLocks
<1>5. CASE CloudFails(w) \/ WriteCancelled(w)
    <2>1. stage[w] = "writing" /\ target' = target /\ (Ends(w) \/ Reads(w))
        BY <1>5 DEF CloudFails, WriteCancelled, StopWriting, EndsUnread
    <2> QED BY <2>1, EndsLocks
<1>6. CASE WaitCancelled(w) \/ ReadPublished(w) \/ ReadLost(w)
    <2>1. target' = target /\ Ends(w)
        BY <1>6 DEF WaitCancelled, ReadPublished, ReadLost, EndsUnread
    <2> QED BY <2>1, EndsLocks
<1>7. CASE ReadSampled(w)
    <2>1. stage[w] = "reading" /\ stage'[w] = "publishing" /\ UNCHANGED <<holder, target>>
        BY <1>t, <1>7 DEF ReadSampled
    <2>2. Lacking(w)' = Lacking(w)
        BY <2>1 DEF Lacking
    <2> QED BY <2>1, <2>2 DEF Locks
<1> QED
    BY <1>1, <1>2, <1>3, <1>4, <1>5, <1>6, <1>7 DEF CommandStep

LEMMA OwnProgress ==
    ASSUME Types, NEW w \in Writers, Locks(w), Progress(w), Call(w) \/ CommandStep(w)
    PROVE  Progress(w)'
<1>t. /\ stage \in [Writers -> Stages] /\ target \in [Writers -> SUBSET Registers]
      /\ left \in [Writers -> SUBSET Places(Registers)]
      /\ verdict \in [Writers -> {"open", "done", "failed", "cancelled"}]
      /\ device \in [Places(Registers) -> Values] /\ AllOf(w) \subseteq Places(Registers)
    BY DEF Types, CommandTypes, RouteTypes, FieldTypes, AllOf, Places
<1>w. OwnFields(w)
    BY StepWritesOwn
<1>1. CASE Call(w)
    <2>1. stage[w] = "idle" /\ stage'[w] = "locking" /\ UNCHANGED <<left, verdict>>
        BY <1>t, <1>1 DEF Call
    <2> QED BY <2>1 DEF Progress
<1>2. CASE TakeLock(w)
    <2>1. /\ stage[w] = "locking" /\ UNCHANGED <<verdict, target, device>>
          /\ \/ stage'[w] = "locking" /\ left' = left
             \/ stage'[w] = "writing" /\ left'[w] = AllOf(w)
        BY <1>t, <1>2 DEF TakeLock
    <2>2. AllOf(w)' = AllOf(w)
        BY <2>1 DEF AllOf
    <2> QED BY <2>1, <2>2 DEF Progress
<1>3. CASE PieceAcked(w)
    <2>1. /\ stage[w] = "writing" /\ target' = target
          /\ device' = Written(device, Piece(w), w)
          /\ left'[w] = left[w] \ Piece(w)
          /\ (stage' = stage /\ verdict' = verdict) \/ stage'[w] \in {"reading", "over"}
        BY <1>t, <1>3 DEF PieceAcked, EndsUnread, Ends, Reads
    <2>2. AllOf(w)' = AllOf(w)
        BY <2>1 DEF AllOf
    <2>3. \A p \in AllOf(w) : device'[p] = IF p \in Piece(w) THEN w ELSE device[p]
        BY <1>t, <2>1, WrittenIs
    <2>4. \A p \in AllOf(w) \ left'[w] : device'[p] = w
        BY <2>1, <2>3 DEF Progress
    <2> QED BY <2>1, <2>2, <2>4 DEF Progress
<1>4. CASE LocalFails(w)
    <2>1. /\ stage[w] = "writing" /\ target' = target
          /\ \/ stage' = stage /\ verdict' = verdict /\ left'[w] = AllOf(w)
             \/ stage'[w] = "over" /\ left' = left
        BY <1>t, <1>4 DEF LocalFails, EndsUnread, Ends
    <2>2. AllOf(w)' = AllOf(w)
        BY <2>1 DEF AllOf
    <2> QED BY <2>1, <2>2 DEF Progress
<1>5. CASE CloudFails(w) \/ WriteCancelled(w) \/ WaitCancelled(w) \/ ReadPublished(w)
            \/ ReadLost(w) \/ ReadSampled(w)
    <2>1. /\ UNCHANGED <<left, target>>
          /\ stage'[w] \in {"reading", "publishing", "over"}
        BY <1>t, <1>5
        DEF CloudFails, WriteCancelled, WaitCancelled, ReadPublished, ReadLost, ReadSampled,
            StopWriting, EndsUnread, Ends, Reads
    <2>2. AllOf(w)' = AllOf(w)
        BY <2>1 DEF AllOf
    <2> QED BY <2>1, <2>2 DEF Progress
<1> QED
    BY <1>1, <1>2, <1>3, <1>4, <1>5 DEF CommandStep

LEMMA OwnSampled ==
    ASSUME Types, NEW w \in Writers, Call(w) \/ CommandStep(w)
    PROVE  Sampled(w)'
<1>t. stage \in [Writers -> Stages] /\ sample \in [Writers -> [Places(Registers) -> Values]]
    BY DEF Types, CommandTypes, FieldTypes
<1>1. CASE ReadSampled(w)
    <2>1. sample'[w] = device /\ device' = device
        BY <1>t, <1>1 DEF ReadSampled
    <2> QED BY <2>1 DEF Sampled
<1>2. CASE ~ReadSampled(w)
    <2>1. stage'[w] # "publishing"
        BY <1>t, <1>2
        DEF Call, CommandStep, TakeLock, PieceAcked, LocalFails, CloudFails, WriteCancelled,
            WaitCancelled, ReadPublished, ReadLost, StopWriting, EndsUnread, Ends, Reads
    <2> QED BY <2>1 DEF Sampled
<1> QED
    BY <1>1, <1>2

-----------------------------------------------------------------------------
(* Torn registers                                                          *)

\* A step whose command did not report success keeps the account.
LEMMA StillAccounted ==
    ASSUME ControlInv, NEW w \in Writers, OthersAlone(w), OwnFields(w),
           \/ verdict'[w] \in {"failed", "cancelled"}
           \/ stage[w] # "writing" /\ device' = device /\ verdict'[w] = verdict[w]
           \/ /\ stage[w] = "writing" /\ stage'[w] = "writing" /\ verdict'[w] = verdict[w]
              /\ holder' = holder
    PROVE  Accounted'
<1> SUFFICES ASSUME NEW r \in Registers, device'[<<r, 1>>] # device'[<<r, 2>>]
             PROVE  \E f \in {1, 2} :
                        /\ device'[<<r, f>>] \in Writers
                        /\ \/ verdict'[device'[<<r, f>>]] \in {"failed", "cancelled"}
                           \/ /\ holder'[r] = device'[<<r, f>>]
                              /\ stage'[device'[<<r, f>>]] = "writing"
    BY DEF Accounted
<1>p. <<r, 1>> \in Places(Registers) /\ <<r, 2>> \in Places(Registers)
    BY DEF Places
<1>1. CASE \E f \in {1, 2} : device'[<<r, f>>] # device[<<r, f>>]
    <2>1. PICK f \in {1, 2} : device'[<<r, f>>] # device[<<r, f>>]
        BY <1>1
    <2>2. device'[<<r, f>>] = w /\ holder[r] = w /\ stage[w] = "writing"
        BY <1>p, <2>1 DEF OwnFields
    <2> QED BY <1>p, <2>1, <2>2
<1>2. CASE \A f \in {1, 2} : device'[<<r, f>>] = device[<<r, f>>]
    <2>1. PICK f \in {1, 2} :
            /\ device[<<r, f>>] \in Writers
            /\ \/ verdict[device[<<r, f>>]] \in {"failed", "cancelled"}
               \/ /\ holder[r] = device[<<r, f>>]
                  /\ stage[device[<<r, f>>]] = "writing"
        BY <1>2 DEF ControlInv, Accounted
    <2>2. device'[<<r, f>>] = device[<<r, f>>]
        BY <1>2
    <2>3. CASE device[<<r, f>>] = w
        BY <2>1, <2>2, <2>3
    <2>4. CASE device[<<r, f>>] # w
        BY <2>1, <2>2, <2>4 DEF OthersAlone
    <2> QED BY <2>3, <2>4
<1> QED
    BY <1>1, <1>2

LEMMA AccountedKept ==
    ASSUME ControlInv, NEW w \in Writers, Call(w) \/ CommandStep(w)
    PROVE  Accounted'
<1>0. Types /\ Locks(w) /\ Progress(w)
    BY DEF ControlInv
<1>t. /\ stage \in [Writers -> Stages] /\ target \in [Writers -> SUBSET Registers]
      /\ left \in [Writers -> SUBSET Places(Registers)]
      /\ verdict \in [Writers -> {"open", "done", "failed", "cancelled"}]
      /\ device \in [Places(Registers) -> Values] /\ AllOf(w) \subseteq Places(Registers)
    BY <1>0 DEF Types, CommandTypes, RouteTypes, FieldTypes, AllOf, Places
<1>a. OthersAlone(w) /\ OwnFields(w)
    BY <1>0, StepLeavesOthers, StepWritesOwn
<1>1. CASE Call(w) \/ TakeLock(w) \/ ReadSampled(w) \/ ReadPublished(w) \/ ReadLost(w)
    <2>1. stage[w] # "writing" /\ UNCHANGED <<device, verdict>>
        BY <1>1 DEF Call, TakeLock, ReadSampled, ReadPublished, ReadLost
    <2> QED BY <1>a, <2>1, StillAccounted
<1>2. CASE CloudFails(w) \/ WriteCancelled(w) \/ WaitCancelled(w)
    <2>1. verdict'[w] \in {"failed", "cancelled"}
        BY <1>t, <1>2 DEF CloudFails, WriteCancelled, WaitCancelled, StopWriting
    <2> QED BY <1>a, <2>1, StillAccounted
<1>3. CASE LocalFails(w)
    <2>1. \/ verdict'[w] \in {"failed", "cancelled"}
          \/ stage[w] = "writing" /\ UNCHANGED <<stage, verdict, holder>>
        BY <1>t, <1>3 DEF LocalFails
    <2> QED BY <1>a, <2>1, StillAccounted
<1>4. CASE PieceAcked(w) /\ left'[w] # {}
    <2>1. stage[w] = "writing" /\ UNCHANGED <<stage, verdict, holder>>
        BY <1>4 DEF PieceAcked
    <2> QED BY <1>a, <2>1, StillAccounted
<1>5. CASE PieceAcked(w) /\ left'[w] = {}
    <2>1. \A p \in AllOf(w) : device'[p] = w
        BY <1>0, <1>5, LastPieceWritten
    <2>2. ASSUME NEW r \in Registers, device'[<<r, 1>>] # device'[<<r, 2>>]
          PROVE  \E f \in {1, 2} :
                    /\ device'[<<r, f>>] \in Writers
                    /\ \/ verdict'[device'[<<r, f>>]] \in {"failed", "cancelled"}
                       \/ /\ holder'[r] = device'[<<r, f>>]
                          /\ stage'[device'[<<r, f>>]] = "writing"
        <3>1. r \notin target[w] /\ \A f \in {1, 2} : <<r, f>> \in Places(Registers)
            BY <2>1, <2>2 DEF AllOf, Places
        <3>2. holder[r] # w
            BY <1>0, <3>1 DEF Locks
        <3>3. \A f \in {1, 2} : device'[<<r, f>>] = device[<<r, f>>]
            BY <1>a, <3>1, <3>2 DEF OwnFields
        <3>4. PICK f \in {1, 2} :
                /\ device[<<r, f>>] \in Writers
                /\ \/ verdict[device[<<r, f>>]] \in {"failed", "cancelled"}
                   \/ /\ holder[r] = device[<<r, f>>]
                      /\ stage[device[<<r, f>>]] = "writing"
            BY <2>2, <3>3 DEF ControlInv, Accounted
        <3>5. device[<<r, f>>] # w
            BY <1>0, <1>5, <3>2, <3>4 DEF Progress, PieceAcked
        <3> QED BY <1>a, <3>3, <3>4, <3>5 DEF OthersAlone
    <2> QED BY <2>2 DEF Accounted
<1> QED
    BY <1>1, <1>2, <1>3, <1>4, <1>5 DEF CommandStep

-----------------------------------------------------------------------------
(* The cache                                                               *)

LEMMA OwnedKept ==
    ASSUME ControlInv, NEW w \in Writers, Call(w) \/ CommandStep(w)
    PROVE  Owned'
<1>0. Types /\ Locks(w) /\ Progress(w) /\ Owned
    BY DEF ControlInv
<1>t. stage \in [Writers -> Stages] /\ device \in [Places(Registers) -> Values]
    BY <1>0 DEF Types, CommandTypes, FieldTypes
<1>a. OthersAlone(w) /\ OwnFields(w)
    BY <1>0, StepLeavesOthers, StepWritesOwn
<1> SUFFICES ASSUME NEW p \in Places(Registers), NEW v \in Writers, device'[p] = v
             PROVE  p \in AllOf(v)' /\ stage'[v] \notin {"idle", "locking"}
    BY DEF Owned
<1>1. CASE v # w
    <2>1. device[p] = v
        BY <1>1, <1>a DEF OwnFields
    <2>2. stage'[v] = stage[v] /\ AllOf(v)' = AllOf(v)
        BY <1>1, <1>a DEF OthersAlone, AllOf, Places
    <2> QED BY <1>0, <2>1, <2>2 DEF Owned
<1>2. CASE v = w
    <2>1. p \in AllOf(w) /\ stage[w] \notin {"idle", "locking"}
        BY <1>0, <1>2, <1>a DEF Owned, OwnFields, Progress
    <2>2. AllOf(w)' = AllOf(w) /\ stage'[w] \notin {"idle", "locking"}
        BY <1>t, <2>1
        DEF Call, CommandStep, TakeLock, PieceAcked, LocalFails, CloudFails, WriteCancelled,
            WaitCancelled, ReadSampled, ReadPublished, ReadLost, StopWriting, EndsUnread, Ends,
            Reads, AllOf
    <2> QED BY <1>2, <2>1, <2>2
<1> QED
    BY <1>1, <1>2

\* While a command is early no step takes a field from it.
LEMMA EarlyFieldsStay ==
    ASSUME ControlInv, NEW w \in Writers, Call(w) \/ CommandStep(w), NEW v \in Writers,
           stage'[v] \in Early
    PROVE  /\ stage[v] \in Early
           /\ \A p \in Places(Registers) : device'[p] # v => device[p] # v
<1>0. Types /\ Locks(w) /\ Progress(w) /\ Owned /\ Locks(v)
    BY DEF ControlInv
<1>t. stage \in [Writers -> Stages]
    BY <1>0 DEF Types, CommandTypes
<1>a. OthersAlone(w) /\ OwnFields(w)
    BY <1>0, StepLeavesOthers, StepWritesOwn
<1>1. stage[v] \in Early
    <2>1. CASE v # w
        BY <1>a, <2>1 DEF OthersAlone
    <2>2. CASE v = w
        BY <1>t, <2>2
        DEF Early, Call, CommandStep, TakeLock, PieceAcked, LocalFails, CloudFails,
            WriteCancelled, WaitCancelled, ReadSampled, ReadPublished, ReadLost, StopWriting,
            EndsUnread, Ends, Reads
    <2> QED BY <2>1, <2>2
<1>2. ASSUME NEW p \in Places(Registers), device[p] = v, device'[p] # v
      PROVE  FALSE
    <2>1. w # v /\ holder[p[1]] = w
        BY <1>2, <1>a DEF OwnFields
    <2>2. p \in AllOf(v) /\ stage[v] = "writing"
        BY <1>0, <1>1, <1>2 DEF Owned, Early
    <2>3. p[1] \in target[v] /\ target[v] \subseteq Registers
        BY <1>0, <2>2 DEF AllOf, Places, Types, CommandTypes
    <2>4. holder[p[1]] = v
        BY <1>0, <2>2, <2>3 DEF Locks, Lacking
    <2> QED BY <2>1, <2>4
<1> QED
    BY <1>1, <1>2

\* What a read publishes is what it sampled, but for seeds, which are doubtful.
LEMMA PublishedShows ==
    ASSUME FieldTypes, NEW f, NEW places, Published(f, places), UNCHANGED device
    PROVE  \E K \in SUBSET (places \cap seeded) :
             \A p \in Places(Registers) :
                /\ cache'[p] = IF p \in places \ K THEN f[p] ELSE cache[p]
                /\ p \in doubt' <=> /\ p \in doubt \cup (IF access = "local" THEN places ELSE K)
                                    /\ cache'[p] # device[p]
<1>1. PICK K \in SUBSET (places \cap seeded) :
        /\ cache' = [p \in DOMAIN cache |-> IF p \in places \ K THEN f[p] ELSE cache[p]]
        /\ Doubtful(IF access = "local" THEN places ELSE K)
    BY DEF Published
<1>2. DOMAIN cache = Places(Registers)
    BY DEF FieldTypes
<1>3. \A p \in Places(Registers) : cache'[p] = IF p \in places \ K THEN f[p] ELSE cache[p]
    BY <1>1, <1>2
<1>4. doubt' = {p \in doubt \cup (IF access = "local" THEN places ELSE K) : cache'[p] # device[p]}
    BY <1>1 DEF Doubtful
<1> QED
    BY <1>3, <1>4

LEMMA NeverAheadKept ==
    ASSUME ControlInv, NEW w \in Writers, Call(w) \/ CommandStep(w), NEW v \in Writers
    PROVE  NeverAhead(v)'
<1>0. Types /\ Locks(w) /\ Progress(w) /\ NeverAhead(v)
    BY DEF ControlInv
<1>t. /\ sample \in [Writers -> [Places(Registers) -> Values]]
      /\ stage \in [Writers -> Stages]
    BY <1>0 DEF Types, FieldTypes, CommandTypes
<1>f. Factory # v
    BY ControlAssumption
<1> SUFFICES ASSUME stage'[v] \in Early, NEW p \in Places(Registers), device'[p] # v
             PROVE  /\ cache'[p] # v /\ polled'[p] # v
                    /\ \A u \in Writers : sample'[u][p] # v
    BY DEF NeverAhead
<1>1. device[p] # v /\ cache[p] # v /\ polled[p] # v /\ \A u \in Writers : sample[u][p] # v
    BY <1>0, EarlyFieldsStay DEF NeverAhead
<1>2. sample'[w][p] # v
    <2>1. sample'[w] = sample[w] \/ sample'[w] = device \/ sample'[w] = Pristine
        BY <1>t
        DEF Call, CommandStep, TakeLock, PieceAcked, LocalFails, CloudFails, WriteCancelled,
            WaitCancelled, ReadSampled, ReadPublished, ReadLost, StopWriting, Noted, NothingNoted
    <2> QED BY <1>1, <1>f, <2>1 DEF Pristine
<1>3. CASE ReadPublished(w)
    <2>1. Published(sample[w], ReadBy(w)) /\ UNCHANGED <<polled, device>>
        BY <1>3 DEF ReadPublished
    <2>2. cache'[p] \in {cache[p], sample[w][p]}
        BY <1>0, <2>1, PublishedShows DEF Types
    <2>3. \A u \in Writers : u # w => sample'[u] = sample[u]
        BY <1>0, <1>3, PublishedAlone
    <2> QED BY <1>1, <1>2, <2>1, <2>2, <2>3
<1>4. CASE ~ReadPublished(w)
    <2>1. NotesOwn(w)
        BY <1>0, <1>4, StepNotesOwn
    <2>2. CASE /\ cache'[p] = cache[p] /\ polled'[p] = polled[p]
               /\ \A u \in Writers : u # w => sample'[u][p] = sample[u][p]
        BY <1>1, <1>2, <2>2
    <2>3. CASE /\ cache'[p] = w /\ device'[p] = w
               /\ polled'[p] = IF polling THEN w ELSE polled[p]
               /\ \A u \in Writers : u # w =>
                    sample'[u][p] = IF stage[u] = "publishing" THEN w ELSE sample[u][p]
        BY <1>1, <1>2, <2>3
    <2> QED BY <2>1, <2>2, <2>3 DEF NotesOwn
<1> QED
    BY <1>3, <1>4

\* A field in the hands of another command stays there.
LEMMA StaysInHand ==
    ASSUME NEW w \in Writers, OthersAlone(w), OwnFields(w), NEW p \in Places(Registers),
           InHand(p), device[p] # w
    PROVE  InHand(p)'
<1>1. p[1] \in Registers
    BY PlaceOf
<1>2. holder[p[1]] # w /\ device'[p] = device[p]
    BY DEF InHand, OwnFields
<1> QED
    BY <1>1, <1>2 DEF InHand, OthersAlone

\* After a step that publishes nothing a wrong field of the command's own is in
\* its hands, or the command has left it in doubt.
LEMMA OwnInHand ==
    ASSUME ControlInv, NEW w \in Writers, Call(w) \/ CommandStep(w), ~ReadPublished(w),
           NEW p \in Places(Registers), device'[p] = w, cache'[p] # w
    PROVE  p \in doubt' \/ InHand(p)'
<1>0. Types /\ Locks(w) /\ Owned
    BY DEF ControlInv
<1>t. stage \in [Writers -> Stages] /\ target \in [Writers -> SUBSET Registers]
    BY <1>0 DEF Types, CommandTypes
<1>1. Owned' /\ Locks(w)'
    BY <1>0, OwnedKept, OwnLocks
<1>2. p \in AllOf(w)' /\ stage'[w] \notin {"idle", "locking"}
    BY <1>1 DEF Owned
<1>3. \/ EndsUnread(w) /\ target' = target
      \/ stage'[w] \in {"idle", "locking", "writing", "reading", "publishing"}
      \/ stage[w] = "locking" /\ device' = device
    BY <1>t
    DEF Call, CommandStep, TakeLock, PieceAcked, LocalFails, CloudFails, WriteCancelled,
        WaitCancelled, ReadSampled, ReadLost, StopWriting, Reads
<1>4. CASE EndsUnread(w) /\ target' = target
    <2>1. p \in AllOf(w)
        BY <1>2, <1>4 DEF AllOf
    <2> QED BY <1>4, <2>1 DEF EndsUnread, Doubtful
<1>5. CASE stage'[w] \in {"writing", "reading", "publishing"}
    <2>1. p[1] \in target'[w] /\ p[1] \in Registers
        BY <1>2, PlaceOf DEF AllOf, Places
    <2>2. holder'[p[1]] = w
        BY <1>1, <1>5, <2>1 DEF Locks, Lacking
    <2> QED BY <1>5, <2>2 DEF InHand
<1>6. CASE stage[w] = "locking" /\ device' = device
    BY <1>0, <1>6 DEF Owned
<1> QED
    BY <1>2, <1>3, <1>4, <1>5, <1>6

\* A published read leaves every field followed.
LEMMA PublishedFollowed ==
    ASSUME ControlInv, NEW f, NEW places \in SUBSET Places(Registers), Published(f, places),
           UNCHANGED device,
           access # "local" => NotBehind(f, places),
           \A p \in Places(Registers) :
                InHand(p) => InHand(p)' \/ (p \in places /\ f[p] = device[p])
    PROVE  Followed'
<1> SUFFICES ASSUME NEW p \in Places(Registers), cache'[p] # device[p]
             PROVE  p \in doubt' \/ InHand(p)'
    BY DEF Followed
<1>1. PICK K \in SUBSET (places \cap seeded) :
        /\ cache'[p] = IF p \in places \ K THEN f[p] ELSE cache[p]
        /\ p \in doubt' <=> /\ p \in doubt \cup (IF access = "local" THEN places ELSE K)
                            /\ cache'[p] # device[p]
    BY PublishedShows DEF ControlInv, Types
<1>2. cache[p] # device[p] => p \in doubt \/ InHand(p)
    BY DEF ControlInv, Followed
<1>3. CASE p \in places \ K
    BY <1>1, <1>2, <1>3 DEF NotBehind
<1>4. CASE p \notin places \ K
    BY <1>1, <1>2, <1>4
<1> QED
    BY <1>3, <1>4

LEMMA FollowedKept ==
    ASSUME ControlInv, NEW w \in Writers, Call(w) \/ CommandStep(w)
    PROVE  Followed'
<1>0. Types /\ Locks(w) /\ Progress(w) /\ Sampled(w) /\ Owned /\ Followed /\ ReadsBehind
    BY DEF ControlInv
<1>a. OthersAlone(w) /\ OwnFields(w)
    BY <1>0, StepLeavesOthers, StepWritesOwn
<1>1. CASE ReadPublished(w)
    <2>1. /\ Published(sample[w], ReadBy(w)) /\ stage[w] = "publishing" /\ UNCHANGED device
          /\ AllOf(w) \subseteq ReadBy(w) /\ ReadBy(w) \in SUBSET Places(Registers)
        BY <1>0, <1>1 DEF ReadPublished, ReadBy, AllOf, Places, Types, CommandTypes
    <2>2. access # "local" => NotBehind(sample[w], ReadBy(w))
        BY <1>0, <2>1 DEF ReadsBehind
    <2>3. ASSUME NEW p \in Places(Registers), InHand(p)
          PROVE  InHand(p)' \/ (p \in ReadBy(w) /\ sample[w][p] = device[p])
        <3>1. CASE device[p] # w
            BY <1>a, <2>3, <3>1, StaysInHand
        <3>2. CASE device[p] = w
            BY <1>0, <2>1, <3>2 DEF Owned, Sampled
        <3> QED BY <3>1, <3>2
    <2> QED BY <2>1, <2>2, <2>3, PublishedFollowed
<1>2. CASE ~ReadPublished(w)
    <2>1. NotesOwn(w)
        BY <1>0, <1>2, StepNotesOwn
    <2>2. \A p \in Places(Registers) : p \in doubt /\ cache'[p] # device'[p] => p \in doubt'
        BY <1>2
        DEF Call, CommandStep, TakeLock, PieceAcked, LocalFails, CloudFails, WriteCancelled,
            WaitCancelled, ReadSampled, ReadLost, StopWriting, EndsUnread, Doubtful
    <2>3. ASSUME NEW p \in Places(Registers), cache'[p] # device'[p], device'[p] # w
          PROVE  p \in doubt' \/ InHand(p)'
        <3>1. device'[p] = device[p] /\ cache'[p] = cache[p]
            BY <1>a, <2>1, <2>3 DEF OwnFields, NotesOwn
        <3>2. p \in doubt \/ InHand(p)
            BY <1>0, <2>3, <3>1 DEF Followed
        <3> QED BY <1>a, <2>2, <2>3, <3>1, <3>2, StaysInHand
    <2>4. \A p \in Places(Registers) : cache'[p] # device'[p] /\ device'[p] = w =>
                p \in doubt' \/ InHand(p)'
        BY <1>2, OwnInHand
    <2> QED BY <2>3, <2>4 DEF Followed
<1> QED
    BY <1>1, <1>2

\* A read in flight, of which only noted fields change, stays behind no more
\* than it was: what the step writes nobody had yet.
LEMMA StillNotBehind ==
    ASSUME NEW w \in Writers, OwnFields(w), NotesOwn(w), NeverAhead(w), NEW f, NEW g,
           NEW places \in SUBSET Places(Registers), NotBehind(f, places),
           \A p \in places : g[p] = f[p] \/ g[p] = device'[p],
           \A p \in places : cache'[p] # cache[p] => g[p] = device'[p]
    PROVE  \A p \in places : g[p] # device'[p] => cache'[p] # device'[p]
<1> SUFFICES ASSUME NEW p \in places, g[p] # device'[p]
             PROVE  cache'[p] # device'[p]
    OBVIOUS
<1>1. g[p] = f[p] /\ cache'[p] = cache[p]
    OBVIOUS
<1>2. CASE device'[p] = device[p]
    BY <1>1, <1>2 DEF NotBehind
<1>3. CASE device'[p] # device[p]
    <2>1. device'[p] = w /\ stage[w] = "writing"
        BY <1>3 DEF OwnFields
    <2> QED BY <1>1, <1>3, <2>1 DEF NeverAhead, Early
<1> QED
    BY <1>2, <1>3

LEMMA ReadsBehindKept ==
    ASSUME ControlInv, NEW w \in Writers, Call(w) \/ CommandStep(w)
    PROVE  ReadsBehind'
<1>0. Types /\ Locks(w) /\ Progress(w) /\ NeverAhead(w) /\ ReadsBehind
    BY DEF ControlInv
<1>t. /\ stage \in [Writers -> Stages] /\ target \in [Writers -> SUBSET Registers]
      /\ sample \in [Writers -> [Places(Registers) -> Values]]
    BY <1>0 DEF Types, CommandTypes, FieldTypes
<1>a. OthersAlone(w) /\ OwnFields(w)
    BY <1>0, StepLeavesOthers, StepWritesOwn
<1>p. /\ UNCHANGED <<access, control, polling>>
      /\ \A v \in Writers : stage'[v] = "publishing" =>
            \/ stage[v] = "publishing" /\ v # w
            \/ v = w /\ ReadSampled(w)
    <2>1. stage'[w] = "publishing" => ReadSampled(w)
        BY <1>t
        DEF Call, CommandStep, TakeLock, PieceAcked, LocalFails, CloudFails, WriteCancelled,
            WaitCancelled, ReadPublished, ReadLost, StopWriting, EndsUnread, Ends, Reads
    <2>2. UNCHANGED <<access, control, polling>>
        BY DEF Call, CommandStep, TakeLock, PieceAcked, LocalFails, CloudFails, WriteCancelled,
               WaitCancelled, ReadSampled, ReadPublished, ReadLost
    <2> QED BY <1>a, <2>1, <2>2 DEF OthersAlone
<1> SUFFICES ASSUME access # "local"
             PROVE  /\ polling' => ~CommandReads' /\ NotBehind(polled, Places(Registers))'
                    /\ \A v \in Writers : stage'[v] = "publishing" =>
                        /\ NotBehind(sample[v], ReadBy(v))'
                        /\ control # "mode" => \A u \in Writers : stage'[u] = "publishing" => u = v
    BY <1>p DEF ReadsBehind
<1>r. ASSUME NEW v \in Writers, v # w
      PROVE  ReadBy(v)' = ReadBy(v) /\ ReadBy(v) \in SUBSET Places(Registers)
    BY <1>a, <1>p, <1>r, <1>t DEF ReadBy, AllOf, Places, OthersAlone
<1>c. polling => ~CommandReads'
    BY <1>0, <1>p DEF ReadsBehind, CommandReads, ReadSampled
<1>u. ASSUME control # "mode", NEW v \in Writers, NEW u \in Writers, stage'[v] = "publishing",
             stage'[u] = "publishing"
      PROVE  u = v
    BY <1>0, <1>p, <1>u DEF ReadsBehind, CommandReads, ReadSampled
<1>1. CASE ReadPublished(w)
    <2>1. stage[w] = "publishing"
        BY <1>1 DEF ReadPublished
    <2>2. ~polling
        BY <1>0, <2>1 DEF ReadsBehind, CommandReads
    <2>3. ASSUME NEW v \in Writers, stage'[v] = "publishing"
          PROVE  NotBehind(sample[v], ReadBy(v))'
        <3>1. stage[v] = "publishing" /\ v # w
            BY <1>p, <1>1, <2>1, <2>3 DEF ReadSampled
        <3>2. control = "mode"
            BY <1>0, <2>1, <3>1 DEF ReadsBehind
        <3>3. Sampled(v)'
            BY <3>1, OthersKeep
        <3> QED BY <1>p, <2>3, <3>2, <3>3 DEF NotBehind, ReadBy, Sampled
    <2> QED BY <1>p, <1>u, <2>2, <2>3
<1>2. CASE ~ReadPublished(w)
    <2>1. NotesOwn(w)
        BY <1>0, <1>2, StepNotesOwn
    <2>2. ASSUME polling
          PROVE  NotBehind(polled, Places(Registers))'
        <3>1. /\ \A p \in Places(Registers) : polled'[p] = polled[p] \/ polled'[p] = device'[p]
              /\ \A p \in Places(Registers) : cache'[p] # cache[p] => polled'[p] = device'[p]
            BY <2>1, <2>2 DEF NotesOwn
        <3>2. NotBehind(polled, Places(Registers))
            BY <1>0, <2>2 DEF ReadsBehind
        <3>3. \A p \in Places(Registers) : polled'[p] # device'[p] => cache'[p] # device'[p]
            BY <1>0, <1>a, <2>1, <3>1, <3>2, StillNotBehind
        <3> QED BY <3>3 DEF NotBehind, Places
    <2>3. ASSUME NEW v \in Writers, stage'[v] = "publishing", v # w
          PROVE  NotBehind(sample[v], ReadBy(v))'
        <3>1. stage[v] = "publishing"
            BY <1>p, <2>3
        <3>2. /\ \A p \in ReadBy(v) : sample'[v][p] = sample[v][p] \/ sample'[v][p] = device'[p]
              /\ \A p \in ReadBy(v) : cache'[p] # cache[p] => sample'[v][p] = device'[p]
            BY <1>r, <2>1, <2>3, <3>1 DEF NotesOwn
        <3>3. NotBehind(sample[v], ReadBy(v))
            BY <1>0, <3>1 DEF ReadsBehind
        <3>4. \A p \in ReadBy(v) : sample'[v][p] # device'[p] => cache'[p] # device'[p]
            BY <1>0, <1>a, <1>r, <2>1, <2>3, <3>2, <3>3, StillNotBehind
        <3> QED BY <1>r, <2>3, <3>4 DEF NotBehind
    <2>4. ASSUME stage'[w] = "publishing"
          PROVE  NotBehind(sample[w], ReadBy(w))'
        <3>1. sample'[w] = device'
            BY <1>p, <1>t, <2>4 DEF ReadSampled
        <3> QED BY <3>1 DEF NotBehind
    <2> QED BY <1>c, <1>p, <1>u, <2>2, <2>3, <2>4
<1> QED
    BY <1>1, <1>2

-----------------------------------------------------------------------------
(* The theorems                                                            *)

\* The steps of no command: polls, seeds that go, the link.
LEMMA OtherStep ==
    ASSUME ControlInv, Types',
           \/ PollSampled \/ PollPublished \/ LinkChanges \/ UNCHANGED controlVars
           \/ \E p \in Places(Registers) : SeedRetired(p)
    PROVE  ControlInv'
<1>0. Types /\ Accounted /\ Owned /\ Followed /\ ReadsBehind
    BY DEF ControlInv
<1>1. UNCHANGED <<device, holder, stage, target, left, sample, verdict, access, control>>
    BY DEF PollSampled, PollPublished, LinkChanges, SeedRetired
<1>2. \A w \in Writers : Locks(w)' /\ Progress(w)' /\ Sampled(w)'
    BY <1>1 DEF ControlInv, Locks, Progress, Sampled, Lacking, AllOf
<1>3. Accounted'
    BY <1>0, <1>1 DEF Accounted
<1>4. Owned'
    BY <1>0, <1>1 DEF Owned, AllOf
<1>h. \A p : InHand(p)' <=> InHand(p)
    BY <1>1 DEF InHand
<1>r. \A w \in Writers : ReadBy(w)' = ReadBy(w)
    BY <1>1 DEF ReadBy, AllOf, Places
<1>5. CASE PollPublished
    <2>1. /\ polling /\ Published(polled, Places(Registers)) /\ polling' = FALSE
          /\ polled' = Pristine
        BY <1>5 DEF PollPublished
    <2>2. access # "local" => NotBehind(polled, Places(Registers)) /\ ~CommandReads
        BY <1>0, <2>1 DEF ReadsBehind
    <2>3. Followed'
        BY <1>1, <1>h, <2>1, <2>2, PublishedFollowed
    <2>4. ReadsBehind'
        BY <1>1, <2>1, <2>2 DEF ReadsBehind, CommandReads
    <2>5. ASSUME NEW w \in Writers
          PROVE  NeverAhead(w)'
        <3>1. \A p \in Places(Registers) : cache'[p] \in {cache[p], polled[p]}
            BY <1>0, <1>1, <2>1, PublishedShows DEF Types
        <3>2. \A p \in Places(Registers) : polled'[p] # w
            BY <2>1, ControlAssumption DEF Pristine
        <3>3. NeverAhead(w)
            BY DEF ControlInv
        <3> QED BY <1>1, <3>1, <3>2, <3>3 DEF NeverAhead
    <2> QED BY <1>2, <1>3, <1>4, <2>3, <2>4, <2>5 DEF ControlInv
<1>6. CASE ~PollPublished
    <2>1. /\ UNCHANGED <<cache, doubt>>
          /\ \/ UNCHANGED pollVars
             \/ /\ polled' = device /\ polling' = TRUE
                /\ access # "local" => ~CommandReads
        BY <1>6 DEF PollSampled, LinkChanges, SeedRetired
    <2>2. Followed'
        BY <1>0, <1>1, <1>h, <2>1 DEF Followed
    <2>3. \A w \in Writers : NeverAhead(w)'
        BY <1>1, <2>1 DEF ControlInv, NeverAhead
    <2>4. ReadsBehind'
        BY <1>0, <1>1, <1>r, <2>1 DEF ReadsBehind, CommandReads, NotBehind, Places
    <2> QED BY <1>2, <1>3, <1>4, <2>2, <2>3, <2>4 DEF ControlInv
<1> QED
    BY <1>5, <1>6

LEMMA ControlStep ==
    ASSUME ControlInv, [ControlNext]_controlVars
    PROVE  ControlInv'
<1>1. Types'
    BY PlantTypesKept, RouteTypesKept, CommandTypesKept, FieldTypesKept, KnownTypesKept
    DEF ControlInv, Types
<1>2. ASSUME NEW w \in Writers, Call(w) \/ CommandStep(w)
      PROVE  ControlInv'
    <2>1. Types /\ Locks(w) /\ Progress(w)
        BY DEF ControlInv
    <2>2. Locks(w)' /\ Progress(w)' /\ Sampled(w)'
        BY <1>2, <2>1, OwnLocks, OwnProgress, OwnSampled
    <2>3. \A v \in Writers : v # w => Locks(v)' /\ Progress(v)' /\ Sampled(v)'
        BY <1>2, OthersKeep
    <2>4. \A v \in Writers : NeverAhead(v)'
        BY <1>2, NeverAheadKept
    <2>5. Accounted' /\ Owned' /\ Followed' /\ ReadsBehind'
        BY <1>2, AccountedKept, OwnedKept, FollowedKept, ReadsBehindKept
    <2> QED BY <1>1, <2>2, <2>3, <2>4, <2>5 DEF ControlInv
<1> QED
    BY <1>1, <1>2, OtherStep DEF ControlNext

LEMMA ControlAlways ==
    ControlSpec => []ControlInv
<1>1. ASSUME ControlInit
      PROVE  ControlInv
    <2>1. /\ Pristine \in [Places(Registers) -> Values] /\ Nobody \notin Writers
          /\ Factory \notin Writers
          /\ \A p \in Places(Registers) : Pristine[p] = Factory
        BY ControlAssumption DEF Pristine, Values
    <2>2. Types
        BY <1>1, <2>1
        DEF ControlInit, Types, PlantTypes, RouteTypes, CommandTypes, FieldTypes, KnownTypes,
            Stages
    <2>3. \A w \in Writers : Locks(w) /\ Progress(w) /\ Sampled(w) /\ NeverAhead(w)
        BY <1>1, <2>1 DEF ControlInit, Locks, Progress, Sampled, NeverAhead
    <2>4. Accounted
        <3>1. \A r \in Registers : device[<<r, 1>>] = device[<<r, 2>>]
            BY <1>1, <2>1 DEF ControlInit, Places
        <3> QED BY <3>1 DEF Accounted
    <2>5. Owned /\ Followed /\ ReadsBehind
        BY <1>1, <2>1 DEF ControlInit, Owned, Followed, ReadsBehind
    <2> QED BY <2>2, <2>3, <2>4, <2>5 DEF ControlInv
<1>2. ControlInv /\ [ControlNext]_controlVars => ControlInv'
    BY ControlStep
<1> QED
    BY <1>1, <1>2, PTL DEF ControlSpec

\* The type invariant.
THEOREM ControlTypesHold ==
    ControlSpec => []ControlTypeOK
<1>1. ControlInv => ControlTypeOK
    BY DEF ControlInv, Types, PlantTypes, RouteTypes, CommandTypes, FieldTypes, KnownTypes,
           Stages, ControlTypeOK
<1> QED
    BY <1>1, ControlAlways, PTL

\* Two commands that both reported success never leave their fields mixed in
\* a register, whatever else fails or is cancelled between their calls.
THEOREM SuccessIsWhole ==
    ControlSpec => []NoTornTime
<1>1. ControlInv => NoTornTime
    BY ControlAssumption DEF ControlInv, Accounted, NoTornTime
<1> QED
    BY <1>1, ControlAlways, PTL

\* With its register unlocked a field is shown as the device has it, unless it is
\* in doubt: written and not read back, overruled by an earlier seed, or, with a
\* local coordinator, by a read older than the write.  The reads of commands and
\* polls are published some time after they sampled, in any order with the calls.
THEOREM CacheFollowsDevice ==
    ControlSpec => []CacheHonest
<1>1. ControlInv => CacheHonest
    BY ControlAssumption DEF ControlInv, Followed, InHand, CacheHonest
<1> QED
    BY <1>1, ControlAlways, PTL

\* Commands that lock several registers never wait in a circle: of those that
\* wait, the one whose next lock is the highest waits for none of the others.
THEOREM LocksAreOrdered ==
    ControlSpec => []NoCircularWait
<1>1. ASSUME ControlInv
      PROVE  NoCircularWait
    <2> SUFFICES ASSUME NEW W \in SUBSET {w \in Writers : stage[w] = "locking"}, W # {},
                        \A w \in W : \A r \in NextLocks(w) : holder[r] \in W
                 PROVE  FALSE
        BY DEF NoCircularWait
    <2>1. \A w \in W : /\ Lacking(w) # {} /\ Lacking(w) \subseteq Registers
                       /\ \A r \in Registers, q \in Lacking(w) : holder[r] = w => r < q
        BY <1>1 DEF ControlInv, Types, CommandTypes, Locks, Lacking
    <2>2. \A w \in W : NextLocks(w) # {} /\ NextLocks(w) \subseteq Lacking(w)
        <3> SUFFICES ASSUME NEW w \in W
                     PROVE  NextLocks(w) # {} /\ NextLocks(w) \subseteq Lacking(w)
            OBVIOUS
        <3>1. Lacking(w) \in SUBSET Nat /\ Lacking(w) # {}
            BY <2>1, ControlAssumption
        <3>2. \E m \in Lacking(w) : \A k \in Lacking(w) : m <= k
            BY <3>1, FirstOf
        <3> QED BY <3>2 DEF NextLocks
    <2> DEFINE Awaited == UNION {NextLocks(w) : w \in W}
    <2>3. Awaited \in SUBSET Registers /\ Awaited # {}
        BY <2>1, <2>2
    <2>4. PICK last \in Awaited : \A r \in Awaited : r <= last
        <3> HIDE DEF Awaited
        <3> QED BY <2>3, LastOf
    <2>5. holder[last] \in W /\ last \in Registers
        BY <2>3
    <2>6. PICK next \in NextLocks(holder[last]) : TRUE
        BY <2>2, <2>5
    <2>7. next \in Awaited /\ last < next
        BY <2>1, <2>2, <2>5, <2>6
    <2>8. next \in Nat /\ last \in Nat /\ next <= last
        BY <2>3, <2>4, <2>7, ControlAssumption
    <2> QED BY <2>7, <2>8
<1> QED
    BY <1>1, ControlAlways, PTL

-----------------------------------------------------------------------------
(***************************************************************************)
(* Proofs about ParameterSeeds, for any keys and readers and any windows   *)
(* that cover the delays they are there for: an acknowledged value stays   *)
(* until something newer replaces it, and a value kept against a read is   *)
(* looked at again in time.                                                *)
(***************************************************************************)

USE DEF seedsVars, deviceVars, seedVars, timerVars, readerVars, updatingVars

-----------------------------------------------------------------------------
(* The invariant                                                           *)

\* Ranks grow: nothing is newer than the last change, and a cloud write on its
\* way is as new as what was promised.
RanksBound ==
    \A k \in Key :
        /\ {promised[k], reg[k], lib[k], cached[k], carry[k], underway[k], landed[k]}
                \subseteq 0..changes[k]
        /\ seed[k] \in 0..changes[k] \cup {NoSeed}
        /\ \A r \in Readers : sampleOf[r][k] \in 0..changes[k]
        /\ underway[k] # 0 => underway[k] >= promised[k]
        /\ landed[k] # 0 => underway[k] = 0 /\ landed[k] >= promised[k] /\ reg[k] >= landed[k]

\* A seed holds what was promised or newer, and has its ages.
SeedsNew ==
    \A k \in Key : seed[k] # NoSeed =>
        /\ seed[k] >= promised[k]
        /\ keyAge[k] # NoAge /\ serialAge # NoAge

\* Who reads: the cycle itself only in local mode, where nothing is on its way;
\* one reader at a time holds the device object's lock.
ReadsApart ==
    /\ mode = "local" => \A k \in Key : underway[k] = 0
    /\ mode = "hybrid" \/ ~cycleRead => at[Cycle] = "idle"
    /\ cycleRead => updating # "idle"
    /\ \A r, q \in Reader : at[r] = "sampled" /\ at[q] = "sampled" => r = q
    /\ \A r \in Readers : at[r] # "sampled" => seen[r] = {}

\* While the register is behind the promise the write is on its way, and its
\* seed is young and unconfirmed.
RegisterBehind ==
    \A k \in Key : reg[k] < promised[k] =>
        /\ underway[k] # 0
        /\ seed[k] # NoSeed /\ confAge[k] = NoAge
        /\ keyAge[k] <= underwayAge[k] /\ serialAge <= underwayAge[k]

\* In hybrid mode: while the device object is behind, the seed is unconfirmed.
ObjectBehind ==
    \A k \in Key : mode = "hybrid" /\ lib[k] < promised[k] => seed[k] # NoSeed /\ confAge[k] = NoAge

\* A sample of what was promised proves that the register has it, and the device
\* object of a hybrid plant, to which every sample goes.
SampleProves ==
    \A k \in Key, r \in Readers : k \in seen[r] =>
        /\ sampleOf[r][k] >= promised[k] => reg[k] >= promised[k]
        /\ mode = "hybrid" => lib[k] = sampleOf[r][k]

\* An older sample in flight still meets the seed: none was confirmed before the
\* sample, and one that the read may settle is young enough to be disputed.
SampleBehind ==
    \A k \in Key, r \in Readers :
        k \in seen[r] /\ sampleOf[r][k] < promised[k] =>
            /\ seed[k] # NoSeed
            /\ confAge[k] <= readAge[r]
            /\ serialAge <= readAge[r] + Propagation
            /\ seedGen[k] <= readGen[r] =>
                /\ mode = "hybrid"
                /\ confAge[k] = NoAge
                /\ keyAge[k] <= readAge[r] + Propagation

\* So does the older copy that a cycle carries.
CarryBehind ==
    \A k \in Key : updating = "own" /\ carry[k] < promised[k] =>
        /\ seed[k] # NoSeed
        /\ confAge[k] <= cycleAge
        /\ serialAge <= cycleAge

SeedsInv ==
    /\ RecheckArmed
    /\ AckStays
    /\ RanksBound
    /\ SeedsNew
    /\ ReadsApart
    /\ RegisterBehind
    /\ ObjectBehind
    /\ SampleProves
    /\ SampleBehind
    /\ CarryBehind

-----------------------------------------------------------------------------
(* Lemmas                                                                  *)

\* A set of natural numbers has a least one.
LEMMA LeastOf ==
    ASSUME NEW S \in SUBSET Nat, S # {}
    PROVE  \E d \in S : \A e \in S : d <= e
<1>1. IsWellFoundedOn(OpToRel(<, Nat), Nat)
    BY NatLessThanWellFounded
<1>2. PICK d \in S : \A e \in S : <<e, d>> \notin OpToRel(<, Nat)
    BY <1>1, WFMin
<1>3. \A e \in S : ~(e < d)
    BY <1>2 DEF OpToRel
<1> QED
    BY <1>3

\* A recheck for D is due by the deadline of each of its keys, and no later
\* than it was.
LEMMA RecheckIs ==
    ASSUME SeedsTypeOK, NEW D \in SUBSET Key, \A k \in D : keyAge[k] \in 0..SettleWindow,
           Recheck(D)
    PROVE  /\ timer' \in NoAge..(SettleWindow + 1)
           /\ D = {} \/ closed => timer' = timer
           /\ ~closed /\ timer # NoAge => timer' # NoAge /\ timer' <= timer
           /\ ~closed => \A k \in D : timer' # NoAge /\ timer' <= SettleWindow + 1 - keyAge[k]
<1> USE WindowsAssumption DEF SeedsTypeOK, NoAge
<1>1. CASE D = {} \/ closed
    BY <1>1 DEF Recheck
<1>2. CASE D # {} /\ ~closed
    <2> DEFINE due == {SettleWindow + 1 - keyAge[k] : k \in D}
                      \cup (IF timer = NoAge THEN {} ELSE {timer})
    <2>1. \A d \in due : d \in 0..(SettleWindow + 1)
        <3>1. \A k \in D : SettleWindow + 1 - keyAge[k] \in 0..(SettleWindow + 1)
            OBVIOUS
        <3>2. timer # NoAge => timer \in 0..(SettleWindow + 1)
            OBVIOUS
        <3> QED
            BY <3>1, <3>2
    <2>2. PICK d \in due : \A e \in due : d <= e
        <3>1. due \in SUBSET Nat
            BY <2>1
        <3>2. PICK k \in D : TRUE
            BY <1>2
        <3>3. SettleWindow + 1 - keyAge[k] \in due
            BY <3>2
        <3> HIDE DEF due
        <3> QED
            BY <3>1, <3>3, LeastOf
    <2>3. timer' \in due /\ \A e \in due : timer' <= e
        BY <1>2, <2>2 DEF Recheck
    <2>4. timer # NoAge => timer \in due
        OBVIOUS
    <2>5. \A k \in D : SettleWindow + 1 - keyAge[k] \in due
        OBVIOUS
    <2> HIDE DEF due
    <2> QED
        BY <1>2, <2>1, <2>3, <2>4, <2>5
<1> QED
    BY <1>1, <1>2

\* What a reconciled read may do to the seeds.
SeedsMove(r, v, observed) ==
    LET A == Authoritative(r, observed)
        D == Disputed(v, A)
    IN  \A k \in Key :
        /\ seed[k] = NoSeed =>
            seed'[k] = NoSeed /\ keyAge'[k] = keyAge[k] /\ confAge'[k] = confAge[k]
        /\ seed[k] # NoSeed /\ seed'[k] = NoSeed =>
            /\ k \in A /\ confAge[k] > Grace
            /\ keyAge'[k] = NoAge /\ confAge'[k] = NoAge
        /\ seed'[k] # NoSeed =>
            /\ seed[k] # NoSeed /\ seed'[k] = Shown(r, v, observed)[k]
            /\ keyAge'[k] = keyAge[k] /\ serialAge' = serialAge
            /\ \/ confAge'[k] = confAge[k] /\ (k \in A \ D => confAge[k] # NoAge)
               \/ k \in A \ D /\ confAge[k] = NoAge /\ confAge'[k] = 0

LEMMA ReconcileIs ==
    ASSUME SeedsTypeOK, NEW r \in Readers, NEW v \in KeyValues, NEW observed \in SUBSET Key,
           Reconcile(r, v, observed)
    PROVE  /\ SeedsMove(r, v, observed)
           /\ Shown(r, v, observed) \in KeyValues
           /\ seed' \in [Key -> Value \cup {NoSeed}]
           /\ keyAge' \in [Key -> Upto(SettleWindow)] /\ confAge' \in [Key -> Upto(Grace)]
           /\ serialAge' \in Upto(Ttl)
           /\ gen' = gen /\ seedGen' = seedGen
<1> DEFINE A == Authoritative(r, observed)
           D == Disputed(v, A)
           out == Retired(A \ D)
<1> USE WindowsAssumption DEF SeedsTypeOK, NoAge, NoSeed, Upto, Value, KeyValues
<1>1. A \in SUBSET Seeded /\ D \in SUBSET A /\ out \in SUBSET (A \ D) /\ Seeded \in SUBSET Key
    BY DEF Authoritative, Disputed, Retired, Seeded
<1>2. Shown(r, v, observed) \in [Key -> 0..MaxChange]
    BY <1>1 DEF Shown, Seeded
<1>3. Keep(Seeded \ out, Shown(r, v, observed), A \ D)
      /\ gen' = gen /\ seedGen' = seedGen
    BY DEF Reconcile
<1>4. \A k \in out : confAge[k] > Grace
    BY DEF Retired
<1>5. \A k \in Key : k \in Seeded <=> seed[k] # NoSeed
    BY DEF Seeded
<1>6. /\ seed' \in [Key -> Value \cup {NoSeed}]
      /\ keyAge' \in [Key -> Upto(SettleWindow)] /\ confAge' \in [Key -> Upto(Grace)]
      /\ serialAge' \in Upto(Ttl)
    <2> HIDE DEF A, D, out
    <2> QED
        BY <1>1, <1>2, <1>3 DEF Keep
<1>7. ASSUME NEW k \in Key
      PROVE  /\ seed[k] = NoSeed =>
                seed'[k] = NoSeed /\ keyAge'[k] = keyAge[k] /\ confAge'[k] = confAge[k]
             /\ seed[k] # NoSeed /\ seed'[k] = NoSeed =>
                /\ k \in A /\ confAge[k] > Grace
                /\ keyAge'[k] = NoAge /\ confAge'[k] = NoAge
             /\ seed'[k] # NoSeed =>
                /\ seed[k] # NoSeed /\ seed'[k] = Shown(r, v, observed)[k]
                /\ keyAge'[k] = keyAge[k] /\ serialAge' = serialAge
                /\ \/ confAge'[k] = confAge[k] /\ (k \in A \ D => confAge[k] # NoAge)
                   \/ k \in A \ D /\ confAge[k] = NoAge /\ confAge'[k] = 0
    <2> HIDE DEF A, D, out
    <2>1. /\ seed'[k] = IF k \in Seeded \ out THEN Shown(r, v, observed)[k] ELSE NoSeed
          /\ keyAge'[k] = IF k \in Seeded \ out \/ k \notin Seeded THEN keyAge[k] ELSE NoAge
          /\ confAge'[k] = IF k \in out THEN NoAge
                           ELSE IF k \in A \ D /\ confAge[k] = NoAge THEN 0 ELSE confAge[k]
          /\ Seeded \ out # {} => serialAge' = serialAge
        BY <1>1, <1>3 DEF Keep
    <2> QED
        BY <2>1, <1>1, <1>2, <1>4, <1>5
<1> QED
    BY <1>2, <1>3, <1>6, <1>7 DEF SeedsMove

\* What a read that is over did to the seeds: one it settled was confirmed by
\* a sample of what was promised, one it dropped had been confirmed long before.
Settled(r) ==
    \A k \in Key :
        /\ seed[k] = NoSeed =>
            seed'[k] = NoSeed /\ keyAge'[k] = keyAge[k] /\ confAge'[k] = confAge[k]
        /\ seed[k] # NoSeed /\ seed'[k] = NoSeed =>
            confAge[k] > Grace /\ keyAge'[k] = NoAge /\ confAge'[k] = NoAge
        /\ seed'[k] # NoSeed =>
            /\ seed[k] # NoSeed /\ seed'[k] >= promised[k] /\ seed'[k] <= changes[k]
            /\ keyAge'[k] = keyAge[k] /\ serialAge' = serialAge
            /\ \/ confAge'[k] = confAge[k]
               \/ /\ confAge[k] = NoAge /\ confAge'[k] = 0
                  /\ k \in seen[r] /\ sampleOf[r][k] >= promised[k]

\* What the read shows is as new as what is promised from then on.
ShownNew(shown, promise) ==
    \A k \in Key : shown[k] >= promise[k] /\ shown[k] <= changes[k]

\* A read, with what it found for the keys it did not see, and the promises it
\* leaves.
ReadEnds(r, v, observed, promise) ==
    /\ v \in KeyValues /\ observed \subseteq seen[r] /\ promise \in KeyValues
    /\ \A k \in Key :
        /\ v[k] <= changes[k]
        /\ promise[k] \in {0, promised[k]}
        /\ k \in seen[r] => v[k] = sampleOf[r][k]
        /\ k \notin seen[r] /\ seed[k] = NoSeed => v[k] >= promise[k]

\* The recheck is due in time for all that was kept against a read.
Rechecked ==
    /\ timer' \in NoAge..(SettleWindow + 1) /\ closed' = closed
    /\ disputed' \subseteq Key
    /\ closed => timer' = NoAge
    /\ \A k \in disputed' : timer' # NoAge /\ timer' <= SettleWindow + 1 - keyAge'[k]

LEMMA ReadRechecks ==
    ASSUME RecheckArmed, SeedsNew,
           NEW r \in Readers, NEW v \in KeyValues, NEW observed \in SUBSET Key,
           Reconcile(r, v, observed)
    PROVE  Rechecked
<1> DEFINE A == Authoritative(r, observed)
           D == Disputed(v, A)
<1>1. /\ A \in SUBSET Key /\ D \in SUBSET A
      /\ \A k \in D : seed[k] # NoSeed /\ confAge[k] = NoAge /\ keyAge[k] <= SettleWindow
    BY DEF Authoritative, Seeded, Disputed
<1>2. /\ Recheck(D) /\ closed' = closed
      /\ disputed' = IF closed THEN {} ELSE (disputed \ A) \cup D
    BY DEF Reconcile
<1>3. \A k \in Key : keyAge'[k] # keyAge[k] => k \in A /\ confAge[k] > Grace
    BY ReconcileIs DEF SeedsMove, RecheckArmed
<1> HIDE DEF A, D
<1>4. D \in SUBSET Key /\ \A k \in D : keyAge[k] \in 0..SettleWindow
    BY <1>1, WindowsAssumption DEF SeedsNew, RecheckArmed, SeedsTypeOK, Upto, NoAge
<1>5. /\ timer' \in NoAge..(SettleWindow + 1)
      /\ D = {} \/ closed => timer' = timer
      /\ ~closed /\ timer # NoAge => timer' # NoAge /\ timer' <= timer
      /\ ~closed => \A k \in D : timer' # NoAge /\ timer' <= SettleWindow + 1 - keyAge[k]
    BY <1>2, <1>4, RecheckIs DEF RecheckArmed
<1>6. ASSUME NEW k \in disputed'
      PROVE  keyAge'[k] = keyAge[k] /\ timer' # NoAge /\ timer' <= SettleWindow + 1 - keyAge[k]
    BY <1>1, <1>2, <1>3, <1>5, <1>6, WindowsAssumption
       DEF RecheckArmed, SeedsTypeOK, Upto, NoAge
<1> QED
    BY <1>1, <1>2, <1>5, <1>6 DEF Rechecked, RecheckArmed, SeedsTypeOK

SettledBy(r, v, observed, promise) ==
    /\ Rechecked
    /\ Settled(r)
    /\ ShownNew(Shown(r, v, observed), promise)
    /\ Shown(r, v, observed) \in KeyValues
    /\ seed' \in [Key -> Value \cup {NoSeed}]
    /\ keyAge' \in [Key -> Upto(SettleWindow)] /\ confAge' \in [Key -> Upto(Grace)]
    /\ serialAge' \in Upto(Ttl)
    /\ gen' = gen /\ seedGen' = seedGen

\* The read only shows and settles what its sample proves: a sample that is
\* behind is either older than the write or young enough to be disputed.
LEMMA ReadSettles ==
    ASSUME RecheckArmed, RanksBound, SeedsNew, SampleBehind,
           NEW r \in Readers, NEW v, NEW observed, NEW promise,
           ReadEnds(r, v, observed, promise), Reconcile(r, v, observed)
    PROVE  SettledBy(r, v, observed, promise)
<1> DEFINE A == Authoritative(r, observed)
           D == Disputed(v, A)
<1> USE WindowsAssumption
<1>1. /\ v \in KeyValues /\ observed \in SUBSET Key /\ observed \subseteq seen[r]
      /\ SeedsTypeOK
    BY DEF ReadEnds, RecheckArmed, SeedsTypeOK
<1>2. /\ SeedsMove(r, v, observed)
      /\ Shown(r, v, observed) \in KeyValues
      /\ seed' \in [Key -> Value \cup {NoSeed}]
      /\ keyAge' \in [Key -> Upto(SettleWindow)] /\ confAge' \in [Key -> Upto(Grace)]
      /\ serialAge' \in Upto(Ttl)
      /\ gen' = gen /\ seedGen' = seedGen
    BY <1>1, ReconcileIs
<1>3. \A k \in Key : k \in A <=> seed[k] # NoSeed /\ k \in observed /\ seedGen[k] <= readGen[r]
    BY DEF Authoritative, Seeded
<1>4. \A k \in Key : k \in D <=> k \in A /\ v[k] # seed[k] /\ confAge[k] = NoAge
                                        /\ keyAge[k] <= SettleWindow
    BY <1>3 DEF Disputed, Authoritative, Seeded
<1>5. \A k \in Key : Shown(r, v, observed)[k] =
                        IF (seed[k] # NoSeed /\ k \notin A) \/ k \in D THEN seed[k] ELSE v[k]
    BY DEF Shown, Seeded
<1> HIDE DEF A, D
<1>6. ASSUME NEW k \in Key, k \in observed, v[k] < promised[k]
      PROVE  seed[k] # NoSeed /\ (k \in A => k \in D)
    <2>1. /\ {promised[k], v[k]} \subseteq Nat
          /\ keyAge[k] \in Int /\ readAge[r] \in 0..MaxRead
        BY <1>1 DEF SeedsTypeOK, KeyValues, Value, Upto, NoAge
    <2>2. /\ seed[k] # NoSeed
          /\ seedGen[k] <= readGen[r] =>
                confAge[k] = NoAge /\ keyAge[k] <= readAge[r] + Propagation
        BY <1>1, <1>6 DEF ReadEnds, SampleBehind
    <2>3. seed[k] \in Nat /\ seed[k] >= promised[k]
        BY <1>1, <2>2 DEF SeedsNew, SeedsTypeOK, Value
    <2> QED
        BY <1>3, <1>4, <1>6, <2>1, <2>2, <2>3
<1>7. ASSUME NEW k \in Key, k \in seen[r], v[k] < promised[k]
      PROVE  seed[k] # NoSeed
    BY <1>7 DEF ReadEnds, SampleBehind
<1>8. ASSUME NEW k \in Key
      PROVE  /\ Shown(r, v, observed)[k] >= promise[k]
             /\ Shown(r, v, observed)[k] <= changes[k]
             /\ seed[k] # NoSeed => Shown(r, v, observed)[k] >= promised[k]
    <2>1. /\ {v[k], promised[k], promise[k], changes[k]} \subseteq Nat
          /\ promise[k] \in {0, promised[k]}
        BY <1>1 DEF ReadEnds, SeedsTypeOK, KeyValues, Value
    <2>2. CASE (seed[k] # NoSeed /\ k \notin A) \/ k \in D
        BY <1>3, <1>4, <1>5, <2>1, <2>2 DEF SeedsNew, RanksBound, NoSeed
    <2>3. CASE ~((seed[k] # NoSeed /\ k \notin A) \/ k \in D)
        BY <1>1, <1>3, <1>5, <1>6, <1>7, <2>1, <2>3 DEF ReadEnds
    <2> QED
        BY <2>2, <2>3
<1>9. Settled(r)
    BY <1>1, <1>2, <1>3, <1>4, <1>6, <1>8
       DEF Settled, SeedsMove, A, D, ReadEnds, SeedsTypeOK, KeyValues, Value
<1> QED
    BY <1>1, <1>2, <1>8, <1>9, ReadRechecks DEF SettledBy, ShownNew

-----------------------------------------------------------------------------
(* Every part is kept by every step                                        *)

\* What the end of a targeted read does.
TargetedSettles(r) ==
    /\ Rechecked /\ Settled(r) /\ ShownNew(cached', promised') /\ cached' \in KeyValues
    /\ promised' \in KeyValues /\ \A k \in Key : promised'[k] \in {0, promised[k]}
    /\ seed' \in [Key -> Value \cup {NoSeed}]
    /\ keyAge' \in [Key -> Upto(SettleWindow)] /\ confAge' \in [Key -> Upto(Grace)]
    /\ serialAge' \in Upto(Ttl)
    /\ gen' = gen /\ seedGen' = seedGen

LEMMA TargetedEndsIs ==
    ASSUME RecheckArmed, RanksBound, SeedsNew, ObjectBehind, SampleBehind,
           NEW r \in Reader, TargetedEnds(r)
    PROVE  TargetedSettles(r)
<1> DEFINE v == [k \in Key |-> IF k \in seen[r] THEN sampleOf[r][k] ELSE lib[k]]
           observed == IF seen[r] = Key THEN Key ELSE {}
<1>1. r \in Readers
    BY DEF Readers
<1>p. /\ promised' \in KeyValues
      /\ \A k \in Key : promised'[k] = IF k \in SetBack(r) THEN 0 ELSE promised[k]
    BY WindowsAssumption DEF TargetedEnds, RecheckArmed, SeedsTypeOK, KeyValues, Value
<1>2. ReadEnds(r, v, observed, promised')
    <2>1. v \in KeyValues /\ observed \subseteq seen[r] /\ \A k \in Key : v[k] <= changes[k]
        BY <1>1, WindowsAssumption
           DEF RecheckArmed, SeedsTypeOK, KeyValues, Value, RanksBound, NoSeed
    <2>2. \A k \in Key : k \notin seen[r] /\ seed[k] = NoSeed => v[k] >= promised'[k]
        BY <1>p, <2>1 DEF SetBack, ObjectBehind, RecheckArmed, SeedsTypeOK, KeyValues, Value
    <2> QED
        BY <1>p, <2>1, <2>2 DEF ReadEnds
<1>3. Reconcile(r, v, observed) /\ cached' = Shown(r, v, observed)
    BY DEF TargetedEnds
<1> HIDE DEF v, observed
<1>4. SettledBy(r, v, observed, promised')
    BY <1>1, <1>2, <1>3, ReadSettles
<1> QED
    BY <1>2, <1>3, <1>4 DEF SettledBy, ReadEnds, TargetedSettles

\* What the end of a cycle's own read does.
CycleSettles ==
    /\ Rechecked /\ Settled(Cycle) /\ ShownNew(carry', promised) /\ carry' \in KeyValues
    /\ seed' \in [Key -> Value \cup {NoSeed}]
    /\ keyAge' \in [Key -> Upto(SettleWindow)] /\ confAge' \in [Key -> Upto(Grace)]
    /\ serialAge' \in Upto(Ttl)
    /\ gen' = gen /\ seedGen' = seedGen

LEMMA CycleReadEndIs ==
    ASSUME RecheckArmed, AckStays, RanksBound, SeedsNew, SampleBehind, CarryBehind,
           ReadsApart, CycleReadEnd
    PROVE  CycleSettles
<1> DEFINE base == IF updating = "shared" THEN cached ELSE carry
           v == [k \in Key |-> IF k \in seen[Cycle] THEN sampleOf[Cycle][k] ELSE base[k]]
<1>1. Cycle \in Readers
    BY DEF Readers
<1>2. ReadEnds(Cycle, v, seen[Cycle], promised)
    BY <1>1, WindowsAssumption
       DEF ReadEnds, RecheckArmed, SeedsTypeOK, KeyValues, Value, RanksBound, AckStays,
           CarryBehind, NoSeed, ReadsApart, CycleReadEnd
<1>3. Reconcile(Cycle, v, seen[Cycle]) /\ carry' = Shown(Cycle, v, seen[Cycle])
    BY DEF CycleReadEnd
<1> HIDE DEF v
<1>4. SettledBy(Cycle, v, seen[Cycle], promised)
    BY <1>1, <1>2, <1>3, ReadSettles
<1> QED
    BY <1>3, <1>4 DEF SettledBy, CycleSettles

\* Types.
LEMMA SeedsTypesKept ==
    ASSUME SeedsInv, [SeedsNext]_seedsVars
    PROVE  SeedsTypeOK'
<1> USE DEF SeedsInv, RecheckArmed, ReadsApart, Zero, SeedsTypeOK, KeyValues, Value, NoAge, NoSeed, Upto, Readers
<1> USE WindowsAssumption, CycleAssumption
<1>0. CASE UNCHANGED seedsVars
    BY <1>0
<1>1. ASSUME NEW k \in Key, Acknowledge(k)
      PROVE  SeedsTypeOK'
    <2>1. promised' \in KeyValues /\ promised'[k] \in Value
        <3>1. PICK v \in Value : promised' = [promised EXCEPT ![k] = v]
            BY <1>1 DEF Acknowledge, MayWrite, Room
        <3> QED BY <3>1
    <2>2. landed' \in KeyValues
        BY <1>1 DEF Acknowledge
    <2>6. changes' \in KeyValues /\ underway' \in KeyValues
        <3>1. CASE UNCHANGED <<changes, underway>>
            BY <3>1
        <3>2. CASE /\ changes' = [changes EXCEPT ![k] = promised'[k]]
                   /\ underway' = [underway EXCEPT ![k] = promised'[k]]
            BY <2>1, <3>2
        <3> QED BY <1>1, <3>1, <3>2 DEF Acknowledge
    <2>3. underwayAge' \in [Key -> 0..Propagation]
        BY <1>1 DEF Acknowledge
    <2>4. /\ gen' = gen + 1 /\ cached' \in KeyValues
          /\ seed' \in [Key -> Value \cup {NoSeed}] /\ seedGen' \in [Key -> 0..gen']
          /\ keyAge' \in [Key -> Upto(SettleWindow)] /\ confAge' \in [Key -> Upto(Grace)]
          /\ serialAge' \in Upto(Ttl)
        BY <1>1, <2>1 DEF Acknowledge, NoteWritten
    <2>5. readGen \in [Readers -> 0..gen']
        BY <2>4
    <2> QED
        BY <1>1, <2>1, <2>2, <2>3, <2>4, <2>5, <2>6 DEF Acknowledge
<1>2. ASSUME NEW k \in Key, Lands(k)
      PROVE  SeedsTypeOK'
    BY <1>2 DEF Lands, MayWrite, Room
<1>3. ASSUME NEW k \in Key, LocalWrite(k)
      PROVE  SeedsTypeOK'
    BY <1>3 DEF LocalWrite, Room
<1>4. ASSUME NEW k \in Key, Propagate(k)
      PROVE  SeedsTypeOK'
    BY <1>4 DEF Propagate
<1>5. ASSUME NEW k \in Key, Change(k)
      PROVE  SeedsTypeOK'
    BY <1>5 DEF Change, Room
<1>6. ASSUME NEW r \in Reader, TargetedBegins(r)
      PROVE  SeedsTypeOK'
    BY <1>6 DEF TargetedBegins
<1>7. ASSUME NEW r \in Reader, TargetedEnds(r)
      PROVE  SeedsTypeOK'
    <2>1. TargetedSettles(r)
        BY <1>7, TargetedEndsIs
    <2> QED
        BY <1>7, <2>1 DEF TargetedEnds, ReadOver, TargetedSettles, Settled, ShownNew, Rechecked
<1>8. ASSUME NEW r \in Reader, RecheckFires(r)
      PROVE  SeedsTypeOK'
    BY <1>8 DEF RecheckFires
<1>9. ASSUME NEW r \in Readers, Abort(r)
      PROVE  SeedsTypeOK'
    BY <1>9 DEF Abort, ReadOver
<1>10. ASSUME NEW r \in Readers, NEW S \in SUBSET Key, Sample(r, S)
      PROVE  SeedsTypeOK'
    BY <1>10 DEF Sample
<1>11. CASE CycleBegin
    BY <1>11 DEF CycleBegin
<1>12. CASE CycleReadBegin
    BY <1>12 DEF CycleReadBegin
<1>13. CASE CycleReadEnd
    <2>1. CycleSettles
        BY <1>13, CycleReadEndIs
    <2> QED
        BY <1>13, <2>1 DEF CycleReadEnd, ReadOver, CycleSettles, Settled, ShownNew, Rechecked
<1>14. CASE CyclePublish
    <2> DEFINE base == IF updating = "shared" THEN cached ELSE carry
    <2>1. base \in KeyValues /\ LiveSeeds \in SUBSET Key
          /\ \A k \in LiveSeeds : seed[k] # NoSeed
        BY DEF LiveSeeds, Seeded
    <2>2. cached' \in KeyValues
        <3> HIDE DEF base
        <3>1. cached' = [k \in Key |-> IF k \in LiveSeeds THEN seed[k] ELSE base[k]]
            BY <1>14 DEF CyclePublish, Overlaid, base
        <3> QED
            BY <2>1, <3>1
    <2>3. /\ seed' \in [Key -> Value \cup {NoSeed}]
          /\ keyAge' \in [Key -> Upto(SettleWindow)] /\ confAge' \in [Key -> Upto(Grace)]
        BY <1>14 DEF CyclePublish
    <2>4. serialAge' \in Upto(Ttl)
        BY <1>14 DEF CyclePublish
    <2>5. promised' \in KeyValues
        BY <1>14 DEF CyclePublish
    <2>6. /\ UNCHANGED <<deviceVars, lib, gen, seedGen, timerVars, readerVars>>
          /\ updating' = "idle" /\ carry' = Zero /\ cycleAge' = 0 /\ cycleRead' = FALSE
        BY <1>14 DEF CyclePublish, UpdateOver
    <2>7. carry' \in KeyValues
        BY <2>6
    <2>8. cycleAge' \in 0..MaxCycle
        BY <2>6
    <2>9. cycleRead' \in BOOLEAN /\ updating' \in {"idle", "shared", "own"}
        BY <2>6
    <2> QED
        BY <2>2, <2>3, <2>4, <2>5, <2>6, <2>7, <2>8, <2>9
<1>15. CASE CycleFails
    <2>1. carry' \in KeyValues
        BY <1>15 DEF CycleFails, UpdateOver
    <2>2. cycleAge' \in 0..MaxCycle
        BY <1>15 DEF CycleFails, UpdateOver
    <2>3. cycleRead' \in BOOLEAN /\ updating' \in {"idle", "shared", "own"}
        BY <1>15 DEF CycleFails, UpdateOver
    <2> QED
        BY <1>15, <2>1, <2>2, <2>3 DEF CycleFails, UpdateOver
<1>16. CASE Teardown
    BY <1>16 DEF Teardown
<1>17. CASE Tick
    BY <1>17 DEF Tick, Older
<1> QED
    BY <1>0, <1>1, <1>2, <1>3, <1>4, <1>5, <1>6, <1>7, <1>8, <1>9, <1>10, <1>11,
       <1>12, <1>13, <1>14, <1>15, <1>16, <1>17 DEF SeedsNext

\* What is shown.
LEMMA AckKept ==
    ASSUME SeedsInv, [SeedsNext]_seedsVars
    PROVE  AckStays'
<1> USE DEF SeedsInv, RecheckArmed, AckStays, RanksBound, SeedsNew, CarryBehind, SeedsTypeOK, KeyValues, Value, NoAge, NoSeed, Upto, Readers
<1> USE WindowsAssumption, CycleAssumption
<1>0. CASE UNCHANGED seedsVars
    BY <1>0
<1>1. ASSUME NEW k \in Key, Acknowledge(k)
      PROVE  AckStays'
    BY <1>1 DEF Acknowledge, MayWrite, NoteWritten, Room
<1>2. ASSUME NEW k \in Key, Lands(k)
      PROVE  AckStays'
    BY <1>2 DEF Lands, MayWrite, Room
<1>3. ASSUME NEW k \in Key, LocalWrite(k)
      PROVE  AckStays'
    BY <1>3 DEF LocalWrite, Room
<1>4. ASSUME NEW k \in Key, Propagate(k)
      PROVE  AckStays'
    BY <1>4 DEF Propagate
<1>5. ASSUME NEW k \in Key, Change(k)
      PROVE  AckStays'
    BY <1>5 DEF Change, Room
<1>6. ASSUME NEW r \in Reader, TargetedBegins(r)
      PROVE  AckStays'
    BY <1>6 DEF TargetedBegins
<1>7. ASSUME NEW r \in Reader, TargetedEnds(r)
      PROVE  AckStays'
    <2>1. TargetedSettles(r)
        BY <1>7, TargetedEndsIs
    <2> QED
        BY <1>7, <2>1 DEF TargetedEnds, ReadOver, TargetedSettles, Settled, ShownNew, Rechecked
<1>8. ASSUME NEW r \in Reader, RecheckFires(r)
      PROVE  AckStays'
    BY <1>8 DEF RecheckFires
<1>9. ASSUME NEW r \in Readers, Abort(r)
      PROVE  AckStays'
    BY <1>9 DEF Abort, ReadOver
<1>10. ASSUME NEW r \in Readers, NEW S \in SUBSET Key, Sample(r, S)
      PROVE  AckStays'
    BY <1>10 DEF Sample
<1>11. CASE CycleBegin
    BY <1>11 DEF CycleBegin
<1>12. CASE CycleReadBegin
    BY <1>12 DEF CycleReadBegin
<1>13. CASE CycleReadEnd
    <2>1. CycleSettles
        BY <1>13, CycleReadEndIs
    <2> QED
        BY <1>13, <2>1 DEF CycleReadEnd, ReadOver, CycleSettles, Settled, ShownNew, Rechecked
<1>14. CASE CyclePublish
    BY <1>14 DEF CyclePublish, UpdateOver, Overlaid, LiveSeeds, Retired, Seeded
<1>15. CASE CycleFails
    BY <1>15 DEF CycleFails, UpdateOver
<1>16. CASE Teardown
    BY <1>16 DEF Teardown
<1>17. CASE Tick
    BY <1>17 DEF Tick, Older
<1> QED
    BY <1>0, <1>1, <1>2, <1>3, <1>4, <1>5, <1>6, <1>7, <1>8, <1>9, <1>10, <1>11,
       <1>12, <1>13, <1>14, <1>15, <1>16, <1>17 DEF SeedsNext

\* Ranks.
LEMMA RanksKept ==
    ASSUME SeedsInv, [SeedsNext]_seedsVars
    PROVE  RanksBound'
<1> USE DEF SeedsInv, RecheckArmed, RanksBound, Zero, SeedsTypeOK, KeyValues, Value, NoAge, NoSeed, Upto, Readers
<1> USE WindowsAssumption, CycleAssumption, SeedsTypesKept
<1>0. CASE UNCHANGED seedsVars
    BY <1>0
<1>1. ASSUME NEW k \in Key, Acknowledge(k)
      PROVE  RanksBound'
    BY <1>1 DEF Acknowledge, MayWrite, NoteWritten, Room
<1>2. ASSUME NEW k \in Key, Lands(k)
      PROVE  RanksBound'
    BY <1>2 DEF Lands, MayWrite, Room
<1>3. ASSUME NEW k \in Key, LocalWrite(k)
      PROVE  RanksBound'
    BY <1>3 DEF LocalWrite, Room
<1>4. ASSUME NEW k \in Key, Propagate(k)
      PROVE  RanksBound'
    BY <1>4 DEF Propagate
<1>5. ASSUME NEW k \in Key, Change(k)
      PROVE  RanksBound'
    BY <1>5 DEF Change, Room
<1>6. ASSUME NEW r \in Reader, TargetedBegins(r)
      PROVE  RanksBound'
    BY <1>6 DEF TargetedBegins
<1>7. ASSUME NEW r \in Reader, TargetedEnds(r)
      PROVE  RanksBound'
    <2>1. TargetedSettles(r)
        BY <1>7, TargetedEndsIs
    <2> QED
        BY <1>7, <2>1 DEF TargetedEnds, ReadOver, TargetedSettles, Settled, ShownNew, Rechecked
<1>8. ASSUME NEW r \in Reader, RecheckFires(r)
      PROVE  RanksBound'
    BY <1>8 DEF RecheckFires
<1>9. ASSUME NEW r \in Readers, Abort(r)
      PROVE  RanksBound'
    BY <1>9 DEF Abort, ReadOver
<1>10. ASSUME NEW r \in Readers, NEW S \in SUBSET Key, Sample(r, S)
      PROVE  RanksBound'
    BY <1>10 DEF Sample
<1>11. CASE CycleBegin
    BY <1>11 DEF CycleBegin
<1>12. CASE CycleReadBegin
    BY <1>12 DEF CycleReadBegin
<1>13. CASE CycleReadEnd
    <2>1. CycleSettles
        BY <1>13, CycleReadEndIs
    <2> QED
        BY <1>13, <2>1 DEF CycleReadEnd, ReadOver, CycleSettles, Settled, ShownNew, Rechecked
<1>14. CASE CyclePublish
    BY <1>14 DEF CyclePublish, UpdateOver, Overlaid, LiveSeeds, Retired, Seeded
<1>15. CASE CycleFails
    BY <1>15 DEF CycleFails, UpdateOver
<1>16. CASE Teardown
    BY <1>16 DEF Teardown
<1>17. CASE Tick
    BY <1>17 DEF Tick, Older
<1> QED
    BY <1>0, <1>1, <1>2, <1>3, <1>4, <1>5, <1>6, <1>7, <1>8, <1>9, <1>10, <1>11,
       <1>12, <1>13, <1>14, <1>15, <1>16, <1>17 DEF SeedsNext

\* Seeds.
LEMMA SeedsNewKept ==
    ASSUME SeedsInv, [SeedsNext]_seedsVars
    PROVE  SeedsNew'
<1> USE DEF SeedsInv, RecheckArmed, RanksBound, SeedsNew, SeedsTypeOK, KeyValues, Value, NoAge, NoSeed, Upto, Readers
<1> USE WindowsAssumption, CycleAssumption
<1>0. CASE UNCHANGED seedsVars
    BY <1>0
<1>1. ASSUME NEW k \in Key, Acknowledge(k)
      PROVE  SeedsNew'
    BY <1>1 DEF Acknowledge, MayWrite, NoteWritten, Room
<1>2. ASSUME NEW k \in Key, Lands(k)
      PROVE  SeedsNew'
    BY <1>2 DEF Lands, MayWrite, Room
<1>3. ASSUME NEW k \in Key, LocalWrite(k)
      PROVE  SeedsNew'
    BY <1>3 DEF LocalWrite, Room
<1>4. ASSUME NEW k \in Key, Propagate(k)
      PROVE  SeedsNew'
    BY <1>4 DEF Propagate
<1>5. ASSUME NEW k \in Key, Change(k)
      PROVE  SeedsNew'
    BY <1>5 DEF Change, Room
<1>6. ASSUME NEW r \in Reader, TargetedBegins(r)
      PROVE  SeedsNew'
    BY <1>6 DEF TargetedBegins
<1>7. ASSUME NEW r \in Reader, TargetedEnds(r)
      PROVE  SeedsNew'
    <2>1. TargetedSettles(r)
        BY <1>7, TargetedEndsIs
    <2> QED
        BY <1>7, <2>1 DEF TargetedEnds, ReadOver, TargetedSettles, Settled, ShownNew, Rechecked
<1>8. ASSUME NEW r \in Reader, RecheckFires(r)
      PROVE  SeedsNew'
    BY <1>8 DEF RecheckFires
<1>9. ASSUME NEW r \in Readers, Abort(r)
      PROVE  SeedsNew'
    BY <1>9 DEF Abort, ReadOver
<1>10. ASSUME NEW r \in Readers, NEW S \in SUBSET Key, Sample(r, S)
      PROVE  SeedsNew'
    BY <1>10 DEF Sample
<1>11. CASE CycleBegin
    BY <1>11 DEF CycleBegin
<1>12. CASE CycleReadBegin
    BY <1>12 DEF CycleReadBegin
<1>13. CASE CycleReadEnd
    <2>1. CycleSettles
        BY <1>13, CycleReadEndIs
    <2> QED
        BY <1>13, <2>1 DEF CycleReadEnd, ReadOver, CycleSettles, Settled, ShownNew, Rechecked
<1>14. CASE CyclePublish
    BY <1>14 DEF CyclePublish, UpdateOver, Overlaid, LiveSeeds, Retired, Seeded
<1>15. CASE CycleFails
    BY <1>15 DEF CycleFails, UpdateOver
<1>16. CASE Teardown
    BY <1>16 DEF Teardown
<1>17. CASE Tick
    BY <1>17 DEF Tick, Older
<1> QED
    BY <1>0, <1>1, <1>2, <1>3, <1>4, <1>5, <1>6, <1>7, <1>8, <1>9, <1>10, <1>11,
       <1>12, <1>13, <1>14, <1>15, <1>16, <1>17 DEF SeedsNext

\* Readers.
LEMMA ReadsKept ==
    ASSUME SeedsInv, [SeedsNext]_seedsVars
    PROVE  ReadsApart'
<1> USE DEF SeedsInv, RecheckArmed, ReadsApart, SeedsTypeOK, KeyValues, Value, NoAge, NoSeed, Upto, Readers
<1> USE WindowsAssumption, CycleAssumption
<1>0. CASE UNCHANGED seedsVars
    BY <1>0
<1>1. ASSUME NEW k \in Key, Acknowledge(k)
      PROVE  ReadsApart'
    BY <1>1 DEF Acknowledge, MayWrite, NoteWritten, Room
<1>2. ASSUME NEW k \in Key, Lands(k)
      PROVE  ReadsApart'
    BY <1>2 DEF Lands, MayWrite, Room
<1>3. ASSUME NEW k \in Key, LocalWrite(k)
      PROVE  ReadsApart'
    BY <1>3 DEF LocalWrite, Room
<1>4. ASSUME NEW k \in Key, Propagate(k)
      PROVE  ReadsApart'
    BY <1>4 DEF Propagate
<1>5. ASSUME NEW k \in Key, Change(k)
      PROVE  ReadsApart'
    BY <1>5 DEF Change, Room
<1>6. ASSUME NEW r \in Reader, TargetedBegins(r)
      PROVE  ReadsApart'
    BY <1>6 DEF TargetedBegins
<1>7. ASSUME NEW r \in Reader, TargetedEnds(r)
      PROVE  ReadsApart'
    <2>1. TargetedSettles(r)
        BY <1>7, TargetedEndsIs
    <2> QED
        BY <1>7, <2>1 DEF TargetedEnds, ReadOver, TargetedSettles, Settled, ShownNew, Rechecked
<1>8. ASSUME NEW r \in Reader, RecheckFires(r)
      PROVE  ReadsApart'
    BY <1>8 DEF RecheckFires
<1>9. ASSUME NEW r \in Readers, Abort(r)
      PROVE  ReadsApart'
    BY <1>9 DEF Abort, ReadOver
<1>10. ASSUME NEW r \in Readers, NEW S \in SUBSET Key, Sample(r, S)
      PROVE  ReadsApart'
    BY <1>10 DEF Sample
<1>11. CASE CycleBegin
    BY <1>11 DEF CycleBegin
<1>12. CASE CycleReadBegin
    BY <1>12 DEF CycleReadBegin
<1>13. CASE CycleReadEnd
    <2>1. CycleSettles
        BY <1>13, CycleReadEndIs
    <2> QED
        BY <1>13, <2>1 DEF CycleReadEnd, ReadOver, CycleSettles, Settled, ShownNew, Rechecked
<1>14. CASE CyclePublish
    BY <1>14 DEF CyclePublish, UpdateOver, Overlaid, LiveSeeds, Retired, Seeded
<1>15. CASE CycleFails
    BY <1>15 DEF CycleFails, UpdateOver
<1>16. CASE Teardown
    BY <1>16 DEF Teardown
<1>17. CASE Tick
    BY <1>17 DEF Tick, Older
<1> QED
    BY <1>0, <1>1, <1>2, <1>3, <1>4, <1>5, <1>6, <1>7, <1>8, <1>9, <1>10, <1>11,
       <1>12, <1>13, <1>14, <1>15, <1>16, <1>17 DEF SeedsNext

\* The register.
LEMMA RegisterKept ==
    ASSUME SeedsInv, [SeedsNext]_seedsVars
    PROVE  RegisterBehind'
<1> USE DEF SeedsInv, RecheckArmed, RanksBound, SeedsNew, SampleProves, RegisterBehind, SeedsTypeOK, KeyValues, Value, NoAge, NoSeed, Upto, Readers
<1> USE WindowsAssumption, CycleAssumption
<1>0. CASE UNCHANGED seedsVars
    BY <1>0
<1>1. ASSUME NEW k \in Key, Acknowledge(k)
      PROVE  RegisterBehind'
    BY <1>1 DEF Acknowledge, MayWrite, NoteWritten, Room
<1>2. ASSUME NEW k \in Key, Lands(k)
      PROVE  RegisterBehind'
    BY <1>2 DEF Lands, MayWrite, Room
<1>3. ASSUME NEW k \in Key, LocalWrite(k)
      PROVE  RegisterBehind'
    BY <1>3 DEF LocalWrite, Room
<1>4. ASSUME NEW k \in Key, Propagate(k)
      PROVE  RegisterBehind'
    BY <1>4 DEF Propagate
<1>5. ASSUME NEW k \in Key, Change(k)
      PROVE  RegisterBehind'
    BY <1>5 DEF Change, Room
<1>6. ASSUME NEW r \in Reader, TargetedBegins(r)
      PROVE  RegisterBehind'
    BY <1>6 DEF TargetedBegins
<1>7. ASSUME NEW r \in Reader, TargetedEnds(r)
      PROVE  RegisterBehind'
    <2>1. TargetedSettles(r)
        BY <1>7, TargetedEndsIs
    <2> QED
        BY <1>7, <2>1 DEF TargetedEnds, ReadOver, TargetedSettles, Settled, ShownNew, Rechecked
<1>8. ASSUME NEW r \in Reader, RecheckFires(r)
      PROVE  RegisterBehind'
    BY <1>8 DEF RecheckFires
<1>9. ASSUME NEW r \in Readers, Abort(r)
      PROVE  RegisterBehind'
    BY <1>9 DEF Abort, ReadOver
<1>10. ASSUME NEW r \in Readers, NEW S \in SUBSET Key, Sample(r, S)
      PROVE  RegisterBehind'
    BY <1>10 DEF Sample
<1>11. CASE CycleBegin
    BY <1>11 DEF CycleBegin
<1>12. CASE CycleReadBegin
    BY <1>12 DEF CycleReadBegin
<1>13. CASE CycleReadEnd
    <2>1. CycleSettles
        BY <1>13, CycleReadEndIs
    <2> QED
        BY <1>13, <2>1 DEF CycleReadEnd, ReadOver, CycleSettles, Settled, ShownNew, Rechecked
<1>14. CASE CyclePublish
    BY <1>14 DEF CyclePublish, UpdateOver, Overlaid, LiveSeeds, Retired, Seeded
<1>15. CASE CycleFails
    BY <1>15 DEF CycleFails, UpdateOver
<1>16. CASE Teardown
    BY <1>16 DEF Teardown
<1>17. CASE Tick
    BY <1>17 DEF Tick, Older
<1> QED
    BY <1>0, <1>1, <1>2, <1>3, <1>4, <1>5, <1>6, <1>7, <1>8, <1>9, <1>10, <1>11,
       <1>12, <1>13, <1>14, <1>15, <1>16, <1>17 DEF SeedsNext

\* The device object.
LEMMA ObjectKept ==
    ASSUME SeedsInv, [SeedsNext]_seedsVars
    PROVE  ObjectBehind'
<1> USE DEF SeedsInv, RecheckArmed, RanksBound, SeedsNew, SampleProves, RegisterBehind, ObjectBehind, SeedsTypeOK, KeyValues, Value, NoAge, NoSeed, Upto, Readers
<1> USE WindowsAssumption, CycleAssumption
<1>0. CASE UNCHANGED seedsVars
    BY <1>0
<1>1. ASSUME NEW k \in Key, Acknowledge(k)
      PROVE  ObjectBehind'
    BY <1>1 DEF Acknowledge, MayWrite, NoteWritten, Room
<1>2. ASSUME NEW k \in Key, Lands(k)
      PROVE  ObjectBehind'
    BY <1>2 DEF Lands, MayWrite, Room
<1>3. ASSUME NEW k \in Key, LocalWrite(k)
      PROVE  ObjectBehind'
    BY <1>3 DEF LocalWrite, Room
<1>4. ASSUME NEW k \in Key, Propagate(k)
      PROVE  ObjectBehind'
    BY <1>4 DEF Propagate
<1>5. ASSUME NEW k \in Key, Change(k)
      PROVE  ObjectBehind'
    BY <1>5 DEF Change, Room
<1>6. ASSUME NEW r \in Reader, TargetedBegins(r)
      PROVE  ObjectBehind'
    BY <1>6 DEF TargetedBegins
<1>7. ASSUME NEW r \in Reader, TargetedEnds(r)
      PROVE  ObjectBehind'
    <2>1. TargetedSettles(r)
        BY <1>7, TargetedEndsIs
    <2> QED
        BY <1>7, <2>1 DEF TargetedEnds, ReadOver, TargetedSettles, Settled, ShownNew, Rechecked
<1>8. ASSUME NEW r \in Reader, RecheckFires(r)
      PROVE  ObjectBehind'
    BY <1>8 DEF RecheckFires
<1>9. ASSUME NEW r \in Readers, Abort(r)
      PROVE  ObjectBehind'
    BY <1>9 DEF Abort, ReadOver
<1>10. ASSUME NEW r \in Readers, NEW S \in SUBSET Key, Sample(r, S)
      PROVE  ObjectBehind'
    BY <1>10 DEF Sample
<1>11. CASE CycleBegin
    BY <1>11 DEF CycleBegin
<1>12. CASE CycleReadBegin
    BY <1>12 DEF CycleReadBegin
<1>13. CASE CycleReadEnd
    <2>1. CycleSettles
        BY <1>13, CycleReadEndIs
    <2> QED
        BY <1>13, <2>1 DEF CycleReadEnd, ReadOver, CycleSettles, Settled, ShownNew, Rechecked
<1>14. CASE CyclePublish
    BY <1>14 DEF CyclePublish, UpdateOver, Overlaid, LiveSeeds, Retired, Seeded
<1>15. CASE CycleFails
    BY <1>15 DEF CycleFails, UpdateOver
<1>16. CASE Teardown
    BY <1>16 DEF Teardown
<1>17. CASE Tick
    BY <1>17 DEF Tick, Older
<1> QED
    BY <1>0, <1>1, <1>2, <1>3, <1>4, <1>5, <1>6, <1>7, <1>8, <1>9, <1>10, <1>11,
       <1>12, <1>13, <1>14, <1>15, <1>16, <1>17 DEF SeedsNext

\* Samples that prove.
LEMMA ProvesKept ==
    ASSUME SeedsInv, [SeedsNext]_seedsVars
    PROVE  SampleProves'
<1> USE DEF SeedsInv, RecheckArmed, RanksBound, ReadsApart, SampleProves, SeedsTypeOK, KeyValues, Value, NoAge, NoSeed, Upto, Readers
<1> USE WindowsAssumption, CycleAssumption
<1>0. CASE UNCHANGED seedsVars
    BY <1>0
<1>1. ASSUME NEW k \in Key, Acknowledge(k)
      PROVE  SampleProves'
    BY <1>1 DEF Acknowledge, MayWrite, NoteWritten, Room
<1>2. ASSUME NEW k \in Key, Lands(k)
      PROVE  SampleProves'
    BY <1>2 DEF Lands, MayWrite, Room
<1>3. ASSUME NEW k \in Key, LocalWrite(k)
      PROVE  SampleProves'
    BY <1>3 DEF LocalWrite, Room
<1>4. ASSUME NEW k \in Key, Propagate(k)
      PROVE  SampleProves'
    BY <1>4 DEF Propagate
<1>5. ASSUME NEW k \in Key, Change(k)
      PROVE  SampleProves'
    BY <1>5 DEF Change, Room
<1>6. ASSUME NEW r \in Reader, TargetedBegins(r)
      PROVE  SampleProves'
    BY <1>6 DEF TargetedBegins
<1>7. ASSUME NEW r \in Reader, TargetedEnds(r)
      PROVE  SampleProves'
    <2>1. TargetedSettles(r)
        BY <1>7, TargetedEndsIs
    <2> QED
        BY <1>7, <2>1 DEF TargetedEnds, ReadOver, TargetedSettles, Settled, ShownNew, Rechecked
<1>8. ASSUME NEW r \in Reader, RecheckFires(r)
      PROVE  SampleProves'
    BY <1>8 DEF RecheckFires
<1>9. ASSUME NEW r \in Readers, Abort(r)
      PROVE  SampleProves'
    BY <1>9 DEF Abort, ReadOver
<1>10. ASSUME NEW r \in Readers, NEW S \in SUBSET Key, Sample(r, S)
      PROVE  SampleProves'
    BY <1>10 DEF Sample
<1>11. CASE CycleBegin
    BY <1>11 DEF CycleBegin
<1>12. CASE CycleReadBegin
    BY <1>12 DEF CycleReadBegin
<1>13. CASE CycleReadEnd
    <2>1. CycleSettles
        BY <1>13, CycleReadEndIs
    <2> QED
        BY <1>13, <2>1 DEF CycleReadEnd, ReadOver, CycleSettles, Settled, ShownNew, Rechecked
<1>14. CASE CyclePublish
    BY <1>14 DEF CyclePublish, UpdateOver, Overlaid, LiveSeeds, Retired, Seeded
<1>15. CASE CycleFails
    BY <1>15 DEF CycleFails, UpdateOver
<1>16. CASE Teardown
    BY <1>16 DEF Teardown
<1>17. CASE Tick
    BY <1>17 DEF Tick, Older
<1> QED
    BY <1>0, <1>1, <1>2, <1>3, <1>4, <1>5, <1>6, <1>7, <1>8, <1>9, <1>10, <1>11,
       <1>12, <1>13, <1>14, <1>15, <1>16, <1>17 DEF SeedsNext

\* Samples that are behind.
LEMMA SamplesKept ==
    ASSUME SeedsInv, [SeedsNext]_seedsVars
    PROVE  SampleBehind'
<1> USE DEF SeedsInv, RecheckArmed, RanksBound, ReadsApart, RegisterBehind, SampleBehind, SeedsTypeOK, KeyValues, Value, NoAge, NoSeed, Upto, Readers
<1> USE WindowsAssumption, CycleAssumption
<1>0. CASE UNCHANGED seedsVars
    BY <1>0
<1>1. ASSUME NEW k \in Key, Acknowledge(k)
      PROVE  SampleBehind'
    BY <1>1 DEF Acknowledge, MayWrite, NoteWritten, Room
<1>2. ASSUME NEW k \in Key, Lands(k)
      PROVE  SampleBehind'
    BY <1>2 DEF Lands, MayWrite, Room
<1>3. ASSUME NEW k \in Key, LocalWrite(k)
      PROVE  SampleBehind'
    BY <1>3 DEF LocalWrite, Room
<1>4. ASSUME NEW k \in Key, Propagate(k)
      PROVE  SampleBehind'
    BY <1>4 DEF Propagate
<1>5. ASSUME NEW k \in Key, Change(k)
      PROVE  SampleBehind'
    BY <1>5 DEF Change, Room
<1>6. ASSUME NEW r \in Reader, TargetedBegins(r)
      PROVE  SampleBehind'
    BY <1>6 DEF TargetedBegins
<1>7. ASSUME NEW r \in Reader, TargetedEnds(r)
      PROVE  SampleBehind'
    <2>1. TargetedSettles(r)
        BY <1>7, TargetedEndsIs
    <2> QED
        BY <1>7, <2>1 DEF TargetedEnds, ReadOver, TargetedSettles, Settled, ShownNew, Rechecked
<1>8. ASSUME NEW r \in Reader, RecheckFires(r)
      PROVE  SampleBehind'
    BY <1>8 DEF RecheckFires
<1>9. ASSUME NEW r \in Readers, Abort(r)
      PROVE  SampleBehind'
    BY <1>9 DEF Abort, ReadOver
<1>10. ASSUME NEW r \in Readers, NEW S \in SUBSET Key, Sample(r, S)
      PROVE  SampleBehind'
    BY <1>10 DEF Sample
<1>11. CASE CycleBegin
    BY <1>11 DEF CycleBegin
<1>12. CASE CycleReadBegin
    BY <1>12 DEF CycleReadBegin
<1>13. CASE CycleReadEnd
    <2>1. CycleSettles
        BY <1>13, CycleReadEndIs
    <2> QED
        BY <1>13, <2>1 DEF CycleReadEnd, ReadOver, CycleSettles, Settled, ShownNew, Rechecked
<1>14. CASE CyclePublish
    BY <1>14 DEF CyclePublish, UpdateOver, Overlaid, LiveSeeds, Retired, Seeded
<1>15. CASE CycleFails
    BY <1>15 DEF CycleFails, UpdateOver
<1>16. CASE Teardown
    BY <1>16 DEF Teardown
<1>17. CASE Tick
    BY <1>17 DEF Tick, Older
<1> QED
    BY <1>0, <1>1, <1>2, <1>3, <1>4, <1>5, <1>6, <1>7, <1>8, <1>9, <1>10, <1>11,
       <1>12, <1>13, <1>14, <1>15, <1>16, <1>17 DEF SeedsNext

\* The carried copy.
LEMMA CarryKept ==
    ASSUME SeedsInv, [SeedsNext]_seedsVars
    PROVE  CarryBehind'
<1> USE DEF SeedsInv, RecheckArmed, AckStays, RanksBound, CarryBehind, SeedsTypeOK, KeyValues, Value, NoAge, NoSeed, Upto, Readers
<1> USE WindowsAssumption, CycleAssumption
<1>0. CASE UNCHANGED seedsVars
    BY <1>0
<1>1. ASSUME NEW k \in Key, Acknowledge(k)
      PROVE  CarryBehind'
    BY <1>1 DEF Acknowledge, MayWrite, NoteWritten, Room
<1>2. ASSUME NEW k \in Key, Lands(k)
      PROVE  CarryBehind'
    BY <1>2 DEF Lands, MayWrite, Room
<1>3. ASSUME NEW k \in Key, LocalWrite(k)
      PROVE  CarryBehind'
    BY <1>3 DEF LocalWrite, Room
<1>4. ASSUME NEW k \in Key, Propagate(k)
      PROVE  CarryBehind'
    BY <1>4 DEF Propagate
<1>5. ASSUME NEW k \in Key, Change(k)
      PROVE  CarryBehind'
    BY <1>5 DEF Change, Room
<1>6. ASSUME NEW r \in Reader, TargetedBegins(r)
      PROVE  CarryBehind'
    BY <1>6 DEF TargetedBegins
<1>7. ASSUME NEW r \in Reader, TargetedEnds(r)
      PROVE  CarryBehind'
    <2>1. TargetedSettles(r)
        BY <1>7, TargetedEndsIs
    <2> QED
        BY <1>7, <2>1 DEF TargetedEnds, ReadOver, TargetedSettles, Settled, ShownNew, Rechecked
<1>8. ASSUME NEW r \in Reader, RecheckFires(r)
      PROVE  CarryBehind'
    BY <1>8 DEF RecheckFires
<1>9. ASSUME NEW r \in Readers, Abort(r)
      PROVE  CarryBehind'
    BY <1>9 DEF Abort, ReadOver
<1>10. ASSUME NEW r \in Readers, NEW S \in SUBSET Key, Sample(r, S)
      PROVE  CarryBehind'
    BY <1>10 DEF Sample
<1>11. CASE CycleBegin
    BY <1>11 DEF CycleBegin
<1>12. CASE CycleReadBegin
    BY <1>12 DEF CycleReadBegin
<1>13. CASE CycleReadEnd
    <2>1. CycleSettles
        BY <1>13, CycleReadEndIs
    <2> QED
        BY <1>13, <2>1 DEF CycleReadEnd, ReadOver, CycleSettles, Settled, ShownNew, Rechecked
<1>14. CASE CyclePublish
    BY <1>14 DEF CyclePublish, UpdateOver, Overlaid, LiveSeeds, Retired, Seeded
<1>15. CASE CycleFails
    BY <1>15 DEF CycleFails, UpdateOver
<1>16. CASE Teardown
    BY <1>16 DEF Teardown
<1>17. CASE Tick
    BY <1>17 DEF Tick, Older
<1> QED
    BY <1>0, <1>1, <1>2, <1>3, <1>4, <1>5, <1>6, <1>7, <1>8, <1>9, <1>10, <1>11,
       <1>12, <1>13, <1>14, <1>15, <1>16, <1>17 DEF SeedsNext

\* The recheck.
LEMMA RecheckKept ==
    ASSUME SeedsInv, [SeedsNext]_seedsVars
    PROVE  RecheckArmed'
<1> USE DEF SeedsInv, RecheckArmed, SeedsTypeOK, KeyValues, Value, NoAge, NoSeed, Upto, Readers
<1> USE WindowsAssumption, CycleAssumption, SeedsTypesKept
<1>0. CASE UNCHANGED seedsVars
    BY <1>0
<1>1. ASSUME NEW k \in Key, Acknowledge(k)
      PROVE  RecheckArmed'
    BY <1>1 DEF Acknowledge, MayWrite, NoteWritten, Room
<1>2. ASSUME NEW k \in Key, Lands(k)
      PROVE  RecheckArmed'
    BY <1>2 DEF Lands, MayWrite, Room
<1>3. ASSUME NEW k \in Key, LocalWrite(k)
      PROVE  RecheckArmed'
    BY <1>3 DEF LocalWrite, Room
<1>4. ASSUME NEW k \in Key, Propagate(k)
      PROVE  RecheckArmed'
    BY <1>4 DEF Propagate
<1>5. ASSUME NEW k \in Key, Change(k)
      PROVE  RecheckArmed'
    BY <1>5 DEF Change, Room
<1>6. ASSUME NEW r \in Reader, TargetedBegins(r)
      PROVE  RecheckArmed'
    BY <1>6 DEF TargetedBegins
<1>7. ASSUME NEW r \in Reader, TargetedEnds(r)
      PROVE  RecheckArmed'
    <2>1. TargetedSettles(r)
        BY <1>7, TargetedEndsIs
    <2> QED
        BY <1>7, <2>1 DEF TargetedEnds, ReadOver, TargetedSettles, Settled, ShownNew, Rechecked
<1>8. ASSUME NEW r \in Reader, RecheckFires(r)
      PROVE  RecheckArmed'
    BY <1>8 DEF RecheckFires
<1>9. ASSUME NEW r \in Readers, Abort(r)
      PROVE  RecheckArmed'
    BY <1>9 DEF Abort, ReadOver
<1>10. ASSUME NEW r \in Readers, NEW S \in SUBSET Key, Sample(r, S)
      PROVE  RecheckArmed'
    BY <1>10 DEF Sample
<1>11. CASE CycleBegin
    BY <1>11 DEF CycleBegin
<1>12. CASE CycleReadBegin
    BY <1>12 DEF CycleReadBegin
<1>13. CASE CycleReadEnd
    <2>1. CycleSettles
        BY <1>13, CycleReadEndIs
    <2> QED
        BY <1>13, <2>1 DEF CycleReadEnd, ReadOver, CycleSettles, Settled, ShownNew, Rechecked
<1>14. CASE CyclePublish
    BY <1>14 DEF CyclePublish, UpdateOver, Overlaid, LiveSeeds, Retired, Seeded
<1>15. CASE CycleFails
    BY <1>15 DEF CycleFails, UpdateOver
<1>16. CASE Teardown
    BY <1>16 DEF Teardown
<1>17. CASE Tick
    BY <1>17 DEF Tick, Older
<1> QED
    BY <1>0, <1>1, <1>2, <1>3, <1>4, <1>5, <1>6, <1>7, <1>8, <1>9, <1>10, <1>11,
       <1>12, <1>13, <1>14, <1>15, <1>16, <1>17 DEF SeedsNext

-----------------------------------------------------------------------------
(* Theorems                                                                *)

LEMMA SeedsStart ==
    SeedsInit => SeedsInv
<1> SUFFICES ASSUME SeedsInit PROVE SeedsInv
    OBVIOUS
<1>1. SeedsTypeOK
    <2>1. Zero \in KeyValues
        BY WindowsAssumption DEF Zero, KeyValues, Value
    <2>2. Zero \in [Key -> 0..0] /\ Zero \in [Key -> 0..Propagation]
        BY WindowsAssumption DEF Zero
    <2>3. /\ seed \in [Key -> Value \cup {NoSeed}]
          /\ keyAge \in [Key -> Upto(SettleWindow)] /\ confAge \in [Key -> Upto(Grace)]
          /\ serialAge \in Upto(Ttl) /\ timer \in NoAge..(SettleWindow + 1)
        BY WindowsAssumption DEF SeedsInit, Upto, NoAge
    <2>4. /\ underway \in [Key -> Value] /\ underwayAge \in [Key -> 0..Propagation]
          /\ gen \in Nat /\ seedGen \in [Key -> 0..gen] /\ readGen \in [Readers -> 0..gen]
          /\ sampleOf \in [Readers -> KeyValues]
        BY <2>1, <2>2 DEF SeedsInit, KeyValues
    <2>5. /\ at \in [Readers -> {"idle", "begun", "sampled"}]
          /\ seen \in [Readers -> SUBSET Key] /\ readAge \in [Readers -> 0..MaxRead]
          /\ cycleAge \in 0..MaxCycle
        BY WindowsAssumption DEF SeedsInit
    <2> QED
        BY <2>1, <2>3, <2>4, <2>5 DEF SeedsInit, SeedsTypeOK
<1> QED
    BY <1>1 DEF SeedsInit, SeedsInv, RecheckArmed, AckStays, RanksBound, SeedsNew, ReadsApart,
       RegisterBehind, ObjectBehind, SampleProves, SampleBehind, CarryBehind, Zero, NoAge, NoSeed,
       Readers

LEMMA SeedsAlways ==
    SeedsSpec => []SeedsInv
<1>1. SeedsInv /\ [SeedsNext]_seedsVars => SeedsInv'
    BY AckKept, RanksKept, SeedsNewKept, ReadsKept, RegisterKept, ObjectKept, ProvesKept,
       SamplesKept, CarryKept, RecheckKept DEF SeedsInv
<1> QED
    BY <1>1, SeedsStart, PTL DEF SeedsSpec

\* An acknowledged write that left a seed stays visible until something newer
\* replaces it or the history forgets it, as AckStays says, for any parameters,
\* any number of concurrent reads, and any windows that cover the delays: every
\* path of note_parameters_written, _reconcile_parameter_read and
\* _overlay_parameter_write_seeds.
THEOREM AcknowledgedStays ==
    SeedsSpec => []AckStays
<1>1. SeedsInv => AckStays
    BY DEF SeedsInv
<1> QED
    BY <1>1, SeedsAlways, PTL

\* A value kept against a read is looked at again no later than the end of its
\* key's own window, however the windows overlap, and after teardown no recheck
\* is pending (and every variable keeps its type).
THEOREM RecheckAlwaysArmed ==
    SeedsSpec => []RecheckArmed
<1>1. SeedsInv => RecheckArmed
    BY DEF SeedsInv
<1> QED
    BY <1>1, SeedsAlways, PTL

=============================================================================
