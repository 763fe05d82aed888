-------------------------------- MODULE MCLocal --------------------------------
(***************************************************************************)
(* The local side of a coordinator: the capabilities of an endpoint, the   *)
(* parameters of an inverter with the seeds of what was written, the       *)
(* schedule on which they are read, the fields that controls of several    *)
(* calls write, and the lifetime totals of PV strings.                     *)
(*                                                                         *)
(* The models share no state, so a behaviour is one of one part, chosen at *)
(* the start, while the others rest: their interleavings would add states  *)
(* and show nothing.  One pair of model values serves the parts as the set *)
(* whose members are alike.                                                *)
(***************************************************************************)
EXTENDS EndpointRegistry, ParameterSeeds, ParameterSchedule, ControlWrites, PVLifetime, TLC

CONSTANTS
    one, another,               \* entries, parameters, inverters, commands, strings
    flow,                       \* a config flow
    capability1, capability2,
    reader1,                    \* a task that reads parameters
    cycle1, cycle2              \* update cycles side by side

Pair == {one, another}
OneEntry == {one}
OneFlow == {flow}
TwoCapabilities == {capability1, capability2}
OneReader == {reader1}
TwoCycles == {cycle1, cycle2}
TwoRegisters == {1, 2}
Alike == Permutations(Pair)

CONSTANT Parts      \* the parts to check
VARIABLE part       \* the one whose behaviour this is

\* A part that rests does so in one state.
LocalInit ==
    /\ part \in Parts
    /\ RegistryInit
    /\ SeedsInit
    /\ ScheduleInit
    /\ ControlInit
    /\ LifetimeInit
    /\ part # "parameters" => mode = "local"
    /\ part # "writes" => control = "schedule" /\ access = "local"

\* Capabilities are alike: one of them is the first that is made.
FirstMadeFirst == recordOf'[capability2] # "new" => recordOf'[capability1] # "new"

LocalNext ==
    /\ part' = part
    /\ \/ part = "registry" /\ RegistryNext /\ FirstMadeFirst
       \/ part # "registry" /\ UNCHANGED registryVars
    /\ \/ part = "parameters" /\ SeedsNext
       \/ part # "parameters" /\ UNCHANGED seedsVars
    /\ \/ part = "schedule" /\ ScheduleNext
       \/ part # "schedule" /\ UNCHANGED scheduleVars
    /\ \/ part = "writes" /\ ControlNext
       \/ part # "writes" /\ UNCHANGED controlVars
    /\ \/ part = "lifetime" /\ LifetimeNext
       \/ part # "lifetime" /\ UNCHANGED lifetimeVars

\* Of the generations of writes only their order matters, which seeds are newer
\* than which reads; of the ages those of a seed, and a confirmed seed has no use
\* for that of its write.
Newer ==
    {<<k, r>> \in Key \X Readers :
        seed[k] # NoSeed /\ at[r] # "idle" /\ seedGen[k] > readGen[r]}

SeedAge ==
    [k \in Key |-> IF seed[k] = NoSeed THEN <<>>
                   ELSE IF confAge[k] = NoAge THEN <<keyAge[k]>> ELSE <<"confirmed", confAge[k]>>]

SeedsView ==
    <<deviceVars, cached, lib, seed, serialAge, SeedAge, Newer, timerVars, at, sampleOf, seen,
      readAge, updatingVars, promised>>

\* The state of a behaviour without the parts that rest, and so never change.
Moving ==
    <<part, CASE part = "registry" -> registryVars
              [] part = "parameters" -> SeedsView
              [] part = "schedule" -> scheduleVars
              [] part = "writes" -> controlVars
              [] part = "lifetime" -> lifetimeVars>>

LocalSpec ==
    /\ LocalInit
    /\ [][LocalNext]_<<registryVars, seedsVars, scheduleVars, controlVars, lifetimeVars, part>>

=============================================================================
