---------------------------- MODULE ParameterSeeds ----------------------------
(***************************************************************************)
(* What the coordinator shows of one device's parameters while             *)
(* acknowledged writes, raw reads and update cycles overlap                *)
(* (note_parameters_written, _reconcile_parameter_read,                    *)
(* _overlay_parameter_write_seeds and the settle recheck of                *)
(* coordinator.py, with their callers in the mixins and the local          *)
(* coordinator).  Some writes leave a seed, which covers older data until  *)
(* a read has observed it: those that go through the cloud past an         *)
(* attached local transport, and the acknowledged half of a battery mode   *)
(* that failed in the middle.  Every other write through the local         *)
(* transport leaves none.                                                  *)
(*                                                                         *)
(* A value is the rank of the change that made it, counted per key.  Time  *)
(* is kept as ages, which stop one past the limit they are compared with.  *)
(* In "local" mode writes go to the register and the update cycle reads    *)
(* parameters itself, past the device object and on a copy of the cache;   *)
(* in "hybrid" mode a write may go through the cloud, which reaches the    *)
(* register later or never, and the cycle works on the cache itself.       *)
(***************************************************************************)
EXTENDS Integers

CONSTANTS
    Key, Reader,    \* parameters; tasks in _refresh_device_parameters
    SettleWindow, Grace, Ttl,     \* the code's three windows
    Propagation,    \* how long a cloud write takes to the register
    MaxRead,        \* how long a read takes from its sample to its end
    MaxCycle,       \* how long an update cycle takes
    MaxChange       \* bound: changes of any two keys together

\* The windows cover the delays they are there for.
ASSUME WindowsAssumption ==
    /\ {SettleWindow, Grace, Ttl, Propagation, MaxRead, MaxCycle, MaxChange} \subseteq Nat
    /\ Propagation + MaxRead <= SettleWindow
    /\ MaxRead <= Grace /\ MaxCycle <= Grace
    /\ SettleWindow <= Ttl /\ Grace <= Ttl

NoAge == -1
NoSeed == -1
Value == 0..MaxChange
KeyValues == [Key -> Value]

VARIABLES
    mode,           \* "local" or "hybrid"
    reg,            \* the device's registers
    changes,        \* changes of each key so far
    underway, underwayAge,    \* an accepted cloud write on its way to the register
    landed,         \* a write in the register that is still to be noted
    cached,         \* data["parameters"][serial]
    lib,            \* the device object's own parameters (pylxpweb)
    gen,            \* _parameter_write_generation
    seed, seedGen,  \* _parameter_write_seeds[serial]
    keyAge, serialAge,      \* since the key's write; since the newest write
    confAge,        \* _parameter_seed_confirmed
    timer,          \* the pending recheck: time to go
    closed,         \* _parameter_seed_recheck_closed
    at, readGen, sampleOf, seen, readAge,    \* each reader
    updating, carry, cycleAge, cycleRead,  \* the update cycle
    promised,       \* history: the seeded write that must stay visible
    disputed        \* history: keys kept against a read, recheck not yet fired

deviceVars == <<mode, reg, changes, underway, underwayAge, landed>>
seedVars == <<gen, seed, seedGen, keyAge, serialAge, confAge>>
timerVars == <<timer, closed, disputed>>
readerVars == <<at, readGen, sampleOf, seen, readAge>>
updatingVars == <<updating, carry, cycleAge, cycleRead>>
seedsVars == <<deviceVars, cached, lib, seedVars, timerVars, readerVars, updatingVars, promised>>

Cycle == "cycle"           \* the update cycle as a reader
Readers == Reader \cup {Cycle}

ASSUME CycleAssumption == Cycle \notin Reader

Upto(n) == NoAge..(n + 1)

SeedsTypeOK ==
    /\ mode \in {"local", "hybrid"}
    /\ reg \in KeyValues /\ changes \in KeyValues /\ promised \in KeyValues
    /\ underway \in [Key -> Value] /\ underwayAge \in [Key -> 0..Propagation]
    /\ landed \in KeyValues
    /\ cached \in KeyValues /\ lib \in KeyValues
    /\ gen \in Nat
    /\ seed \in [Key -> Value \cup {NoSeed}] /\ seedGen \in [Key -> 0..gen]
    /\ keyAge \in [Key -> Upto(SettleWindow)] /\ confAge \in [Key -> Upto(Grace)]
    /\ serialAge \in Upto(Ttl)
    /\ timer \in NoAge..(SettleWindow + 1) /\ closed \in BOOLEAN
    /\ disputed \subseteq Key
    /\ at \in [Readers -> {"idle", "begun", "sampled"}]
    /\ readGen \in [Readers -> 0..gen]
    /\ sampleOf \in [Readers -> KeyValues] /\ seen \in [Readers -> SUBSET Key]
    /\ readAge \in [Readers -> 0..MaxRead]
    /\ updating \in {"idle", "shared", "own"} /\ carry \in KeyValues
    /\ cycleAge \in 0..MaxCycle /\ cycleRead \in BOOLEAN

Zero == [k \in Key |-> 0]

SeedsInit ==
    /\ mode \in {"local", "hybrid"}
    /\ reg = Zero /\ changes = Zero /\ promised = Zero
    /\ underway = Zero /\ underwayAge = Zero /\ landed = Zero
    /\ cached = Zero /\ lib = Zero
    /\ gen = 0
    /\ seed = [k \in Key |-> NoSeed] /\ seedGen = Zero
    /\ keyAge = [k \in Key |-> NoAge] /\ confAge = [k \in Key |-> NoAge]
    /\ serialAge = NoAge
    /\ timer = NoAge /\ closed = FALSE /\ disputed = {}
    /\ at = [r \in Readers |-> "idle"]
    /\ readGen = [r \in Readers |-> 0]
    /\ sampleOf = [r \in Readers |-> Zero] /\ seen = [r \in Readers |-> {}]
    /\ readAge = [r \in Readers |-> 0]
    /\ updating = "idle" /\ carry = Zero /\ cycleAge = 0 /\ cycleRead = FALSE

-----------------------------------------------------------------------------
(* Writes and the device.                                                  *)

\* Mutant: a new write does not take back an old confirmation.
NoteWrittenConfirmed(k, v) ==
    /\ gen' = gen + 1
    /\ seed' = [seed EXCEPT ![k] = v]
    /\ seedGen' = [seedGen EXCEPT ![k] = gen + 1]
    /\ keyAge' = [keyAge EXCEPT ![k] = 0]
    /\ serialAge' = 0
    /\ cached' = [cached EXCEPT ![k] = v]
    /\ UNCHANGED confAge

\* note_parameters_written for one key.
NoteWritten(k, v) ==
    /\ gen' = gen + 1
    /\ seed' = [seed EXCEPT ![k] = v]
    /\ seedGen' = [seedGen EXCEPT ![k] = gen + 1]
    /\ keyAge' = [keyAge EXCEPT ![k] = 0]
    /\ serialAge' = 0
    /\ confAge' = [confAge EXCEPT ![k] = NoAge]
    /\ cached' = [cached EXCEPT ![k] = v]

\* The bound leaves room for one more change of k.
Room(k) ==
    /\ changes[k] < MaxChange
    /\ \A j \in Key \ {k} : changes[j] + changes[k] < MaxChange

\* A write of k that leaves a seed starts when no other one is under way:
\* overlapping commands on one setting are OptimisticRetention's.
MayWrite(k) == ~closed /\ Room(k) /\ landed[k] = 0 /\ underway[k] = 0

\* It reaches the register before its answer is in: by the cloud, or as the
\* first bit of a battery mode.
Lands(k) ==
    LET v == changes[k] + 1
    IN  /\ MayWrite(k)
        /\ changes' = [changes EXCEPT ![k] = v]
        /\ reg' = [reg EXCEPT ![k] = v]
        /\ landed' = [landed EXCEPT ![k] = v]
        /\ UNCHANGED <<mode, underway, underwayAge, cached, lib, seedVars, timerVars,
                       readerVars, updatingVars, promised>>

\* It is acknowledged and noted; the cloud may not have passed it on yet.
Acknowledge(k) ==
    /\ \/ /\ landed[k] # 0
          /\ promised' = [promised EXCEPT ![k] = landed[k]]
          /\ landed' = [landed EXCEPT ![k] = 0]
          /\ UNCHANGED <<changes, underway, underwayAge>>
       \/ /\ mode = "hybrid" /\ MayWrite(k)
          /\ promised' = [promised EXCEPT ![k] = changes[k] + 1]
          /\ changes' = [changes EXCEPT ![k] = changes[k] + 1]
          /\ underway' = [underway EXCEPT ![k] = changes[k] + 1]
          /\ underwayAge' = [underwayAge EXCEPT ![k] = 0]
          /\ UNCHANGED landed
    /\ NoteWritten(k, promised'[k])
    /\ disputed' = disputed \ {k}
    /\ UNCHANGED <<mode, reg, lib, timer, closed, readerVars, updatingVars>>

\* A write on the local route is acknowledged.  It leaves no seed; a switch
\* sets its cached parameter in place.
LocalWrite(k) ==
    LET v == changes[k] + 1
    IN  /\ ~closed
        /\ Room(k)
        /\ changes' = [changes EXCEPT ![k] = v]
        /\ reg' = [reg EXCEPT ![k] = v]
        /\ cached' \in {cached, [cached EXCEPT ![k] = v]}
        /\ UNCHANGED <<mode, underway, underwayAge, landed, lib, seedVars, timerVars,
                       readerVars, updatingVars, promised>>

\* The cloud's write reaches the register, or is lost.
Propagate(k) ==
    /\ underway[k] # 0
    /\ underway' = [underway EXCEPT ![k] = 0]
    /\ \/ reg' = [reg EXCEPT ![k] = underway[k]] /\ UNCHANGED promised
       \/ promised' = [promised EXCEPT ![k] = 0] /\ UNCHANGED reg
    /\ underwayAge' = [underwayAge EXCEPT ![k] = 0]
    /\ UNCHANGED <<mode, changes, landed, cached, lib, seedVars, timerVars,
                   readerVars, updatingVars>>

\* Somebody else changes the register.
Change(k) ==
    LET v == changes[k] + 1
    IN  /\ Room(k)
        /\ changes' = [changes EXCEPT ![k] = v]
        /\ reg' = [reg EXCEPT ![k] = v]
        /\ UNCHANGED <<mode, underway, underwayAge, landed, cached, lib, seedVars, timerVars,
                       readerVars, updatingVars, promised>>

-----------------------------------------------------------------------------
(* Reconciliation.                                                         *)

Seeded == {k \in Key : seed[k] # NoSeed}

\* The seeds the read may retire: it saw the key, and began after the write.
Authoritative(r, observed) ==
    {k \in Seeded \cap observed : seedGen[k] <= readGen[r]}

\* Keys a fresh read disagrees on inside their own settle window, before any
\* read confirmed them: the register has not caught up.
Disputed(v, A) ==
    {k \in A : v[k] # seed[k] /\ confAge[k] = NoAge /\ keyAge[k] <= SettleWindow}

\* Mutant: a pending recheck stands, whichever key it is for.
RecheckFirstCome(D) ==
    IF D = {} \/ closed \/ timer # NoAge
      THEN UNCHANGED timer
      ELSE \E k \in D : timer' = SettleWindow + 1 - keyAge[k]
\* _schedule_seed_settle_recheck for the keys D: the earliest deadline wins.
Recheck(D) ==
    LET due == {SettleWindow + 1 - keyAge[k] : k \in D}
               \cup (IF timer = NoAge THEN {} ELSE {timer})
    IN  timer' = IF D = {} \/ closed THEN timer
                 ELSE CHOOSE d \in due : \A e \in due : d <= e

\* Seeds whose confirmation is older than the grace window.
Retired(A) == {k \in A : confAge[k] > Grace}

\* The seeds S are dropped, together with their stamps.
Keep(S, values, confirm) ==
    /\ seed' = [k \in Key |-> IF k \in S THEN values[k] ELSE NoSeed]
    /\ keyAge' = [k \in Key |-> IF k \in S \/ k \notin Seeded THEN keyAge[k] ELSE NoAge]
    /\ confAge' = [k \in Key |-> IF k \in Seeded \ S THEN NoAge
                                 ELSE IF k \in confirm /\ confAge[k] = NoAge THEN 0
                                 ELSE confAge[k]]
    /\ serialAge' = IF S = {} THEN NoAge ELSE serialAge

\* _reconcile_parameter_read of values v; result is what the caller stores.
Shown(r, v, observed) ==
    LET A == Authoritative(r, observed)
    IN  [k \in Key |-> IF k \in (Seeded \ A) \cup Disputed(v, A) THEN seed[k] ELSE v[k]]

Reconcile(r, v, observed) ==
    LET A == Authoritative(r, observed)
        D == Disputed(v, A)
        out == Retired(A \ D)
    IN  /\ Keep(Seeded \ out, Shown(r, v, observed), A \ D)
        /\ Recheck(D)
        /\ disputed' = IF closed THEN {} ELSE (disputed \ A) \cup D
        /\ UNCHANGED <<gen, seedGen, closed>>

-----------------------------------------------------------------------------
(* Targeted reads: _refresh_device_parameters.                             *)

TargetedBegins(r) ==
    /\ ~closed
    /\ at[r] = "idle"
    /\ at' = [at EXCEPT ![r] = "begun"]
    /\ readGen' = [readGen EXCEPT ![r] = gen]
    /\ UNCHANGED <<deviceVars, cached, lib, seedVars, timerVars, sampleOf, seen, readAge,
                   updatingVars, promised>>

\* A read that is over is forgotten.
ReadOver(r) ==
    /\ at' = [at EXCEPT ![r] = "idle"]
    /\ readGen' = [readGen EXCEPT ![r] = 0]
    /\ sampleOf' = [sampleOf EXCEPT ![r] = Zero]
    /\ seen' = [seen EXCEPT ![r] = {}]
    /\ readAge' = [readAge EXCEPT ![r] = 0]

\* The registers are read, as many as answer.  The device object's own reads
\* hold its lock from here to their end, and are what it knows from then on;
\* a cycle reads the transport, past the object.
Sample(r, S) ==
    /\ at[r] = "begun"
    /\ r \in Reader => \A q \in Reader : at[q] # "sampled"
    /\ at' = [at EXCEPT ![r] = "sampled"]
    /\ sampleOf' = [sampleOf EXCEPT ![r] = [k \in Key |-> IF k \in S THEN reg[k] ELSE 0]]
    /\ seen' = [seen EXCEPT ![r] = S]
    /\ readAge' = [readAge EXCEPT ![r] = 0]
    /\ lib' = [k \in Key |-> IF k \in S /\ r \in Reader THEN reg[k] ELSE lib[k]]
    /\ UNCHANGED <<deviceVars, cached, seedVars, timerVars, readGen, updatingVars, promised>>

\* The read fails.
Abort(r) ==
    /\ at[r] = "begun"
    /\ ReadOver(r)
    /\ UNCHANGED <<deviceVars, cached, lib, seedVars, timerVars, updatingVars, promised>>

\* The keys that a partial read of r sets back: not read, no longer seeded since
\* a local cycle's read has confirmed them, and older in the device object, to
\* which that read never came.
SetBack(r) ==
    {k \in Key \ seen[r] : mode = "local" /\ seed[k] = NoSeed /\ lib[k] < promised[k]}

\* The result goes into the cache; for a key that was not read it is what the
\* device object has.  A partial read proves nothing fresh.  It replaces the
\* device's dict: a local cycle under way goes on with the old.
TargetedEnds(r) ==
    LET v == [k \in Key |-> IF k \in seen[r] THEN sampleOf[r][k] ELSE lib[k]]
        observed == IF seen[r] = Key THEN Key ELSE {}
    IN  /\ at[r] = "sampled"
        /\ ReadOver(r)
        /\ Reconcile(r, v, observed)
        /\ cached' = Shown(r, v, observed)
        /\ IF mode = "local" /\ updating = "shared"
             THEN updating' = "own" /\ carry' = cached
             ELSE UNCHANGED <<updating, carry>>
        /\ promised' = [k \in Key |-> IF k \in SetBack(r) THEN 0 ELSE promised[k]]
        /\ UNCHANGED <<deviceVars, lib, cycleAge, cycleRead>>

-----------------------------------------------------------------------------
(* Update cycles.                                                          *)

CycleBegin ==
    /\ ~closed
    /\ updating = "idle"
    /\ updating' = "shared"
    /\ UNCHANGED <<deviceVars, cached, lib, seedVars, timerVars, readerVars, carry, cycleAge,
                   cycleRead, promised>>

\* A local cycle's own parameter read begins.
CycleReadBegin ==
    /\ mode = "local"
    /\ updating # "idle" /\ ~cycleRead
    /\ cycleRead' = TRUE
    /\ at' = [at EXCEPT ![Cycle] = "begun"]
    /\ readGen' = [readGen EXCEPT ![Cycle] = gen]
    /\ UNCHANGED <<deviceVars, cached, lib, seedVars, timerVars, sampleOf, seen, readAge,
                   updating, carry, cycleAge, promised>>

\* Its result is merged over what the cycle carried forward.
CycleReadEnd ==
    LET base == IF updating = "shared" THEN cached ELSE carry
        v == [k \in Key |-> IF k \in seen[Cycle] THEN sampleOf[Cycle][k] ELSE base[k]]
    IN  /\ at[Cycle] = "sampled"
        /\ ReadOver(Cycle)
        /\ Reconcile(Cycle, v, seen[Cycle])
        /\ carry' = Shown(Cycle, v, seen[Cycle])
        /\ updating' = "own"
        /\ UNCHANGED <<deviceVars, cached, lib, cycleAge, cycleRead, promised>>

Overlaid(base, S) == [k \in Key |-> IF k \in S THEN seed[k] ELSE base[k]]

\* The seeds that outlive _overlay_parameter_write_seeds' two expiries.
LiveSeeds == IF serialAge > Ttl THEN {} ELSE Seeded \ Retired(Seeded)

UpdateOver ==
    /\ updating' = "idle"
    /\ carry' = Zero /\ cycleAge' = 0 /\ cycleRead' = FALSE

\* The cycle ends: overlay and publication without an await between.
CyclePublish ==
    LET base == IF updating = "shared" THEN cached ELSE carry
        S == LiveSeeds
    IN  /\ updating # "idle" /\ at[Cycle] = "idle"
        /\ UpdateOver
        /\ cached' = Overlaid(base, S)
        /\ seed' = [k \in Key |-> IF k \in S THEN seed[k] ELSE NoSeed]
        /\ keyAge' = [k \in Key |-> IF k \in Seeded \ S THEN NoAge ELSE keyAge[k]]
        /\ confAge' = [k \in Key |-> IF serialAge <= Ttl /\ k \in Seeded \ S
                                       THEN NoAge ELSE confAge[k]]
        /\ serialAge' = IF S = {} THEN NoAge ELSE serialAge
        /\ promised' = [k \in Key |-> IF serialAge > Ttl /\ k \in Seeded /\ confAge[k] = NoAge
                                        THEN 0 ELSE promised[k]]
        /\ UNCHANGED <<deviceVars, lib, gen, seedGen, timerVars, readerVars>>

\* The update fails; the data stay.
CycleFails ==
    /\ updating # "idle" /\ ~cycleRead
    /\ UpdateOver
    /\ UNCHANGED <<deviceVars, cached, lib, seedVars, timerVars, readerVars, promised>>

-----------------------------------------------------------------------------
(* The recheck, teardown and time.                                         *)

RecheckFires(r) ==
    /\ timer = 0
    /\ timer' = NoAge
    /\ disputed' = {}
    /\ at[r] = "idle"
    /\ at' = [at EXCEPT ![r] = "begun"]
    /\ readGen' = [readGen EXCEPT ![r] = gen]
    /\ UNCHANGED <<deviceVars, cached, lib, seedVars, closed, sampleOf, seen, readAge,
                   updatingVars, promised>>

\* Both teardown paths cancel the timer and latch its scheduling closed.
Teardown ==
    /\ ~closed
    /\ closed' = TRUE
    /\ timer' = NoAge /\ disputed' = {}
    /\ UNCHANGED <<deviceVars, cached, lib, seedVars, readerVars, updatingVars, promised>>

Older(a, limit) == IF a = NoAge \/ a > limit THEN a ELSE a + 1

\* What is due happens before time passes.
Tick ==
    /\ \A k \in Key : underway[k] # 0 => underwayAge[k] < Propagation
    /\ \A r \in Readers : at[r] = "sampled" => readAge[r] < MaxRead
    /\ updating # "idle" => cycleAge < MaxCycle
    /\ timer # 0
    /\ underwayAge' = [k \in Key |-> IF underway[k] # 0 THEN underwayAge[k] + 1 ELSE 0]
    /\ readAge' = [r \in Readers |-> IF at[r] = "sampled" THEN readAge[r] + 1 ELSE 0]
    /\ cycleAge' = IF updating # "idle" THEN cycleAge + 1 ELSE 0
    /\ timer' = IF timer = NoAge THEN NoAge ELSE timer - 1
    /\ keyAge' = [k \in Key |-> Older(keyAge[k], SettleWindow)]
    /\ confAge' = [k \in Key |-> Older(confAge[k], Grace)]
    /\ serialAge' = Older(serialAge, Ttl)
    /\ UNCHANGED <<mode, reg, changes, underway, landed, cached, lib, gen, seed, seedGen, closed,
                   disputed, at, readGen, sampleOf, seen, updating, carry, cycleRead, promised>>

SeedsNext ==
    \/ \E k \in Key : Lands(k) \/ Acknowledge(k) \/ LocalWrite(k) \/ Propagate(k) \/ Change(k)
    \/ \E r \in Reader : TargetedBegins(r) \/ TargetedEnds(r) \/ RecheckFires(r)
    \/ \E r \in Readers : Abort(r) \/ \E S \in SUBSET Key : Sample(r, S)
    \/ CycleBegin \/ CycleReadBegin \/ CycleReadEnd \/ CyclePublish \/ CycleFails
    \/ Teardown \/ Tick

SeedsSpec == SeedsInit /\ [][SeedsNext]_seedsVars

-----------------------------------------------------------------------------
(* Properties.                                                             *)

\* An acknowledged write that left a seed stays visible until something newer
\* replaces it: no read in flight, late confirmation, overlapping cycle or
\* carried copy shows the older value again.  The history forgets one that the
\* cloud lost, one that nothing observed in the whole retention time, and, in
\* local mode, one that a partial read sets back after its seed was retired.
AckStays == \A k \in Key : cached[k] >= promised[k]

\* A value kept against a read that saw another one is looked at again: the
\* recheck is pending, no later than the end of that key's own window, however
\* the keys' windows overlap; after teardown none is.
RecheckArmed ==
    /\ SeedsTypeOK
    /\ \A k \in disputed : timer # NoAge /\ timer <= SettleWindow + 1 - keyAge[k]
    /\ closed => timer = NoAge

=============================================================================
