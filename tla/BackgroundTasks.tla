--------------------------- MODULE BackgroundTasks ---------------------------
(***************************************************************************)
(* The background tasks of one coordinator and their teardown: the single  *)
(* loader of missing parameters with the serials queued behind it, the     *)
(* tasks that update cycles and expired timers start beside it, the done   *)
(* callbacks that asyncio runs some time after a task has finished, and    *)
(* the drain that cancels and awaits everything when the entry is unloaded *)
(* or Home Assistant stops.  An update cycle that was under way when the   *)
(* drain began is not awaited by anybody.                                  *)
(***************************************************************************)
EXTENDS FiniteSets

CONSTANTS
    Loadables,      \* serials whose parameters may be missing
    Tasks,          \* names of tasks, used again once a task is gone
    NoTask          \* no loader

ASSUME TasksAssumption == NoTask \notin Tasks

VARIABLES
    fate,           \* what has become of each task
    tracked,        \* _background_tasks
    loader,         \* _missing_parameter_refresh_task
    active,         \* _missing_parameter_active_serials
    queued,         \* _missing_parameter_pending_serials
    stopped,        \* _background_scheduling_stopped
    teardown,       \* "loaded", "draining", "drained" or "closed"
    awaited,        \* the tasks gather() still waits for
    cycle,          \* an update cycle is under way
    overrun         \* history: a cycle outlived the drain and started a task

tasksVars == <<fate, tracked, loader, active, queued, stopped, teardown, awaited, cycle, overrun>>

Alive == {t \in Tasks : fate[t] \in {"running", "cancelling"}}

Unused == {t \in Tasks : fate[t] = "unused"}

TasksTypeOK ==
    /\ fate \in [Tasks -> {"unused", "running", "cancelling", "finished", "cancelled"}]
    /\ {tracked, awaited} \subseteq SUBSET Tasks
    /\ loader \in Tasks \cup {NoTask}
    /\ {active, queued} \subseteq SUBSET Loadables
    /\ {stopped, cycle, overrun} \subseteq BOOLEAN
    /\ teardown \in {"loaded", "draining", "drained", "closed"}

TasksInit ==
    /\ fate = [t \in Tasks |-> "unused"]
    /\ tracked = {}
    /\ loader = NoTask
    /\ active = {}
    /\ queued = {}
    /\ stopped = FALSE
    /\ teardown = "loaded"
    /\ awaited = {}
    /\ cycle = FALSE
    /\ overrun = FALSE

-----------------------------------------------------------------------------
(* The loader                                                              *)

\* What a request adds to the queue behind the loader.
NewSerials(serials) == serials \ (active \cup queued)

\* A new loader takes the asked and the queued serials.  "f" and "known" are
\* the tasks as the caller leaves them.
StartLoader(serials, f, known) ==
    \E t \in {u \in Tasks : f[u] = "unused"} :
        /\ fate' = [f EXCEPT ![t] = "running"]
        /\ tracked' = known \cup {t}
        /\ loader' = t
        /\ active' = serials \cup queued
        /\ queued' = {}

\* _schedule_missing_parameter_refresh(), asked by a cycle.
AskLoader(serials) ==
    /\ cycle
    /\ IF stopped
       THEN /\ queued' = {}
            /\ UNCHANGED <<fate, tracked, loader, active>>
       ELSE IF loader # NoTask /\ fate[loader] \in {"running", "cancelling"}
       THEN /\ queued' = queued \cup NewSerials(serials)
            /\ UNCHANGED <<fate, tracked, loader, active>>
       ELSE StartLoader(serials, fate, tracked)
    /\ UNCHANGED <<stopped, teardown, awaited, cycle, overrun>>

-----------------------------------------------------------------------------
(* Other tasks, and the end of a task                                      *)

CycleBegins ==
    /\ ~cycle /\ teardown # "closed"
    /\ cycle' = TRUE
    /\ UNCHANGED <<fate, tracked, loader, active, queued, stopped, teardown, awaited, overrun>>

CycleEnds ==
    /\ cycle
    /\ cycle' = FALSE
    /\ UNCHANGED <<fate, tracked, loader, active, queued, stopped, teardown, awaited, overrun>>

Track(t) ==
    /\ t \in Unused
    /\ fate' = [fate EXCEPT ![t] = "running"]
    /\ tracked' = tracked \cup {t}
    /\ UNCHANGED <<loader, active, queued, stopped, teardown, awaited, cycle>>

\* A cycle starts a task of its own: the hourly refresh, a deferred load, a
\* drain of buffers.  None of them looks at the teardown.
CycleSpawns(t) ==
    /\ cycle
    /\ Track(t)
    /\ overrun' = (overrun \/ teardown \in {"drained", "closed"})

\* The timer of a seed's recheck fires; it does look.
RecheckFires(t) ==
    /\ ~stopped
    /\ Track(t)
    /\ UNCHANGED overrun

TaskEnds(t) ==
    /\ \/ fate[t] = "running" /\ fate' = [fate EXCEPT ![t] = "finished"]
       \/ /\ fate[t] = "cancelling"
          /\ \E end \in {"finished", "cancelled"} : fate' = [fate EXCEPT ![t] = end]
    /\ UNCHANGED <<tracked, loader, active, queued, stopped, teardown, awaited, cycle, overrun>>

\* The done callbacks of a task, which the loop runs in a row, and gather()'s
\* own after them: _remove_task_from_set, and for the loader
\* _clear_missing_parameter_refresh_task, which may start a successor.
DoneCallbacks(t) ==
    /\ fate[t] \in {"finished", "cancelled"}
    /\ awaited' = awaited \ {t}
    /\ LET gone == [fate EXCEPT ![t] = "unused"]
           rest == tracked \ {t}
       IN  IF loader # t
           THEN /\ fate' = gone /\ tracked' = rest
                /\ UNCHANGED <<loader, active, queued>>
           ELSE IF fate[t] = "cancelled" \/ stopped \/ queued = {}
           THEN /\ fate' = gone /\ tracked' = rest
                /\ loader' = NoTask
                /\ active' = {}
                /\ queued' = {}
           ELSE StartLoader({}, gone, rest)
    /\ UNCHANGED <<stopped, teardown, cycle, overrun>>

-----------------------------------------------------------------------------
(* The drain                                                               *)

\* One turn of the loop of _cancel_background_tasks: cancel whatever is in the
\* set and gather it, or be done when there is nothing left.
NextBatch ==
    IF tracked = {}
    THEN /\ teardown' = "drained"
         /\ UNCHANGED <<fate, awaited>>
    ELSE /\ teardown' = "draining"
         /\ awaited' = tracked
         /\ fate' = [t \in Tasks |-> IF t \in tracked /\ fate[t] = "running"
                                     THEN "cancelling" ELSE fate[t]]

BeginDrain ==
    /\ teardown = "loaded"
    /\ stopped' = TRUE
    /\ queued' = {}
    /\ NextBatch
    /\ UNCHANGED <<tracked, loader, active, cycle, overrun>>

\* Mutant of Gathered: one batch, then the set is cleared.
ClearedOnce ==
    /\ teardown' = "drained"
    /\ tracked' = {}
    /\ UNCHANGED <<fate, awaited>>

\* The batch has ended; its tasks have left the set, newer ones are in it.
Gathered == NextBatch /\ UNCHANGED tracked

GatherReturns ==
    /\ teardown = "draining" /\ awaited = {}
    /\ Gathered
    /\ UNCHANGED <<loader, active, queued, stopped, cycle, overrun>>

\* The base class's shutdown, last, ends the timer that starts cycles.
BaseShutdown ==
    /\ teardown = "drained"
    /\ teardown' = "closed"
    /\ UNCHANGED <<fate, tracked, loader, active, queued, stopped, awaited, cycle, overrun>>

TasksNext ==
    \/ CycleBegins
    \/ \E serials \in SUBSET Loadables \ {{}} : AskLoader(serials)
    \/ \E t \in Tasks : CycleSpawns(t)
    \/ CycleEnds
    \/ \E t \in Tasks : RecheckFires(t)
    \/ \E t \in Tasks : TaskEnds(t)
    \/ \E t \in Tasks : DoneCallbacks(t)
    \/ BeginDrain
    \/ GatherReturns
    \/ BaseShutdown

TasksSpec == TasksInit /\ [][TasksNext]_tasksVars

-----------------------------------------------------------------------------
(* Properties                                                              *)

\* After the drain no loader runs, nothing is queued for one, and no task at
\* all is alive, tracked or not, whatever finished, asked or was started while
\* the tasks were being gathered; except what a cycle that outlived the drain
\* has started since.
NothingAfterDrain ==
    teardown \in {"drained", "closed"} =>
        /\ loader = NoTask /\ queued = {}
        /\ ~overrun => Alive = {}

\* A loader's own serials are never queued behind it: the refresh it asks for
\* as it ends still finds them missing when their read has failed, and would
\* otherwise have them read again in a loop without end.
NoReadLoop == loader # NoTask => queued \cap active = {}

=============================================================================
