----------------------------- MODULE MCCoordinator -----------------------------
(***************************************************************************)
(* What one coordinator has to bring to an end: the optimistic value of a  *)
(* control, the open state of the side-fetch breaker, background tasks,    *)
(* the clocks of device removal, and the statistics it imports, of one     *)
(* plant with faults or of two without.                                    *)
(*                                                                         *)
(* The models share no state, so a behaviour is one of one part, chosen at *)
(* the start, while the others rest: their interleavings would add states  *)
(* and show nothing.                                                       *)
(***************************************************************************)
EXTENDS OptimisticRetention, SidefetchBreaker, BackgroundTasks, DeviceRemoval,
        HistoryImport

CONSTANTS
    command1, command2,     \* commands on one control
    on, off,                \* its settings
    inverter1, inverter2,   \* devices,
    battery,                \* and a battery of the first
    site1, site2, site3, site4,     \* concurrent fetches
    serial1, serial2,       \* serials whose parameters are missing
    task1, task2, task3,    \* background tasks
    series1, series2,       \* statistics of two plants
    west, east, eastAlias   \* time zones; the last two have one offset

OneControl == {command1, command2}
OnOff == {on, off}
TwoInverters == {inverter1, inverter2}
Sites == {site1, site2, site3, site4}
TwoSerials == {serial1, serial2}
ThreeTasks == {task1, task2, task3}
Batteries == {battery}
FirstInverter == [m \in Batteries |-> inverter1]
TwoSeries == {series1, series2}
ThreeZones == {west, east, eastAlias}
Offsets == [z \in ThreeZones |-> IF z = west THEN 1 ELSE 0]

CONSTANT Parts      \* the parts to check
VARIABLE part       \* the one whose behaviour this is

upkeepVars == <<vars, tasksVars, removalVars, historyVars>>

\* The statistics whose imports this behaviour follows.
Followed ==
    CASE part = "plant" -> {series1} [] part = "plants" -> TwoSeries [] OTHER -> {}

\* A part that rests does so in one state; the settings are alike.
CoordinatorInit ==
    /\ part \in Parts
    /\ RetentionInit
    /\ Init
    /\ TasksInit
    /\ RemovalInit
    /\ HistoryInit
    /\ register = on
    /\ part # "command" => access # "cloud" /\ decoded = on
    /\ part \notin {"command", "commands"} => style = "switch" /\ access = "local"
    /\ \A s \in Series \ Followed : markers[s] = None
    /\ Followed = {} => zone = west /\ \A s \in Series : committed[s] = {}

\* One command, beside which the setting is changed elsewhere, or two, with a
\* local transport and with parameters in the cache.
CommandPart ==
    /\ RetentionNext
    /\ IF part = "command" THEN progress'[command2] = "idle" ELSE foreign' = 0

\* A plant that is not followed is idle; two plants side by side meet no fault
\* and fetch all days.
HistoryPart ==
    /\ HistoryNext
    /\ \A s \in Series \ Followed : job'[s] = NoJob
    /\ part = "plants" => /\ faults' = 0
                          /\ \A s \in Series : job'[s].days \in {{}, Days}

UpkeepNext ==
    \/ part = "breaker" /\ Next /\ UNCHANGED <<tasksVars, removalVars, historyVars>>
    \/ part = "tasks" /\ TasksNext /\ UNCHANGED <<vars, removalVars, historyVars>>
    \/ part = "removal" /\ RemovalNext /\ UNCHANGED <<vars, tasksVars, historyVars>>
    \/ Followed # {} /\ HistoryPart /\ UNCHANGED <<vars, tasksVars, removalVars>>

CoordinatorNext ==
    /\ part' = part
    /\ \/ part \in {"command", "commands"} /\ CommandPart /\ UNCHANGED upkeepVars
       \/ UpkeepNext /\ UNCHANGED retentionVars

\* Ticks come, and monotonic time passes; the cooldown passes, polls go on
\* fetching at every site, and each call ends, by its timeout if need be; time
\* passes between observations; the recorder works off its queue, a service
\* call goes on, and the user imports again.
CoordinatorFairness ==
    /\ WF_retentionVars(part \in {"command", "commands"} /\ Tick)
    /\ WF_retentionVars(part \in {"command", "commands"} /\ TtlEnds)
    /\ WF_vars(part = "breaker" /\ CooldownPasses)
    /\ \A s \in Site :
        /\ SF_vars(part = "breaker" /\ Admit(s))
        /\ WF_vars(part = "breaker" /\ (Answered(s) \/ Unreachable(s) \/ Inconclusive(s)))
    /\ WF_removalVars(part = "removal" /\ TimePasses)
    /\ WF_historyVars(Followed # {} /\ TaskDone)
    /\ \A s \in Series :
        /\ WF_historyVars(s \in Followed /\ ImportStep(s))
        /\ WF_historyVars(s \in Followed /\ \E ds \in SUBSET Days \ {{}} : Start(s, ds))

CoordinatorSpec ==
    /\ CoordinatorInit
    /\ [][CoordinatorNext]_<<retentionVars, upkeepVars, part>>
    /\ CoordinatorFairness

=============================================================================
