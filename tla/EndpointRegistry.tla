--------------------------- MODULE EndpointRegistry ---------------------------
(***************************************************************************)
(* The HA-scoped EndpointBusRegistry of endpoint_bus.py, seen at one       *)
(* physical endpoint, with everything that creates, adopts and closes      *)
(* capabilities of it: the set-up and unload of config entries, their      *)
(* polls (which create the capability of a device they have not reached    *)
(* yet), and the discovery of config flows.                                *)
(*                                                                         *)
(* An entry is one coordinator, used once: a reload is another entry.  An  *)
(* owner carries the name of the capability it was created for.  What a    *)
(* terminal close does on the wire is EndpointOwner's; here it ends well   *)
(* or fails.  A shutdown task that ends resumes all who await it in        *)
(* consecutive callbacks, so they settle in one step.                      *)
(***************************************************************************)
EXTENDS FiniteSets

CONSTANTS
    Entry,      \* coordinators of config entries
    Flow,       \* discoveries by config flows
    Cap,        \* capabilities
    NoOne

ASSUME NoOneAssumption == NoOne \notin Cap

Unloader(e) == <<"entry", e>>
Poll(e) == <<"poll", e>>
Discovery(f) == <<"flow", f>>
Proc == {Unloader(e) : e \in Entry} \cup {Poll(e) : e \in Entry}
            \cup {Discovery(f) : f \in Flow}

VARIABLES
    owner,      \* _owners at the endpoint
    state,      \* _state of each owner
    recordOf, own,  \* each capability's record, and its owner
    maker,      \* history: the process it was created by
    tracked,    \* _bus_capabilities of each entry
    failed,     \* _failed_shutdown_capabilities
    task,       \* _shutdown_task of each capability
    pc,         \* where each process stands
    fresh,      \* the capability a process has created and nobody adopted
    batch,      \* the set async_shutdown_capabilities closes for a process,
    calls,      \* those whose async_shutdown has yet to begin,
    waits,      \* those whose shutdown task it awaits,
    bad,        \* and those that failed
    late        \* history: created after their entry's unload took its set

ownerVars == <<owner, state, recordOf, own>>
batchVars == <<batch, calls, waits, bad>>
madeVars == <<maker, late>>
registryVars == <<ownerVars, madeVars, tracked, failed, task, pc, fresh, batchVars>>

-----------------------------------------------------------------------------
(* Helper formulae.                                                        *)

Retained(c) == recordOf[c] \in {"open", "closing"}
Of(o) == {c \in Cap : own[c] = o}
Held(S, o, r) == {c \in S : own[c] = o /\ r[c] \in {"open", "closing"}}

\* The state begin_shutdown leaves an owner in: it only ever closes.
Sealed(o, r) ==
    IF Held(Cap, o, r) # {} /\ \A c \in Held(Cap, o, r) : r[c] = "closing"
      THEN "closing" ELSE state[o]

\* The state derived from what a removed record leaves behind.
StateAfter(o, r) ==
    IF Held(Cap, o, r) = {} THEN "closed"
    ELSE IF \E c \in Cap : own[c] = o /\ r[c] = "closing" THEN "closing" ELSE "open"

\* begin_shutdown for every capability of S that still has a record.
Seal(S) ==
    LET r == [c \in Cap |-> IF c \in S /\ Retained(c) THEN "closing" ELSE recordOf[c]]
    IN  /\ recordOf' = r
        /\ state' = [o \in Cap |-> IF \E c \in S : Retained(c) /\ own[c] = o
                                     THEN Sealed(o, r) ELSE state[o]]
        /\ UNCHANGED <<owner, own>>

\* Mutant: the callback drops the key whoever owns the endpoint by then.
UnregisterAny(o) == owner' = NoOne

\* terminal_callback: only the owner that is registered unregisters.
Unregister(o) == owner' = IF owner = o THEN NoOne ELSE owner

\* The records of S leave owner o, as shutdown and force release leave it.
Remove(S, o) ==
    LET r == [c \in Cap |-> IF c \in S /\ own[c] = o /\ Retained(c) THEN "gone" ELSE recordOf[c]]
    IN  /\ recordOf' = r
        /\ state' = [state EXCEPT ![o] = StateAfter(o, r)]
        /\ IF StateAfter(o, r) = "closed" THEN Unregister(o) ELSE UNCHANGED owner
        /\ UNCHANGED own

-----------------------------------------------------------------------------

RegistryTypeOK ==
    /\ owner \in Cap \cup {NoOne}
    /\ state \in [Cap -> {"open", "closing", "closed"}]
    /\ owner # NoOne => state[owner] # "closed"
    /\ recordOf \in [Cap -> {"new", "open", "closing", "gone"}]
    /\ own \in [Cap -> Cap \cup {NoOne}]
    /\ maker \in [Cap -> Proc \cup {NoOne}]
    /\ tracked \in [Entry -> SUBSET Cap]
    /\ task \in [Cap -> {"none", "begun", "closing", "failed", "ok"}]
    /\ pc \in [Proc -> {"out", "retrying", "loaded", "detaching", "closing", "failing",
                        "unloaded", "idle", "polling", "connecting", "cleaning", "done"}]
    /\ fresh \in [Proc -> Cap \cup {NoOne}]
    /\ {batch, calls, waits, bad} \subseteq [Proc -> SUBSET Cap]
    /\ failed \cup late \subseteq Cap

RegistryInit ==
    /\ owner = NoOne
    /\ state = [o \in Cap |-> "closed"]
    /\ recordOf = [c \in Cap |-> "new"]
    /\ own = [c \in Cap |-> NoOne]
    /\ maker = [c \in Cap |-> NoOne]
    /\ tracked = [e \in Entry |-> {}]
    /\ failed = {}
    /\ task = [c \in Cap |-> "none"]
    /\ pc = [p \in Proc |-> IF p[1] = "entry" THEN "out" ELSE "idle"]
    /\ fresh = [p \in Proc |-> NoOne]
    /\ batch = [p \in Proc |-> {}]
    /\ calls = batch /\ waits = batch /\ bad = batch
    /\ late = {}

-----------------------------------------------------------------------------
(* create_capability.                                                      *)

Admits == owner # NoOne => state[owner] = "open"

\* A new capability c of process p, with a new owner if there is none.
Create(p, c) ==
    LET o == IF owner = NoOne THEN c ELSE owner
    IN  /\ Admits
        /\ recordOf[c] = "new"
        /\ owner' = o
        /\ state' = [state EXCEPT ![o] = "open"]
        /\ recordOf' = [recordOf EXCEPT ![c] = "open"]
        /\ own' = [own EXCEPT ![c] = o]
        /\ maker' = [maker EXCEPT ![c] = p]
        /\ fresh' = [fresh EXCEPT ![p] = c]

-----------------------------------------------------------------------------
(* async_shutdown_capabilities.                                            *)

\* Process p closes the admission of S and has a task begin each shutdown.
StartBatch(p, S) ==
    /\ Seal(S)
    /\ batch' = [batch EXCEPT ![p] = S]
    /\ calls' = [calls EXCEPT ![p] = S]
    /\ UNCHANGED <<waits, bad>>

\* Mutant: only a capability that failed for the last caller is kept.
KeepNone(p) == failed \ batch[p]

\* What the registry keeps for the retry once the batch is over.
KeepFailed(p) == (failed \ batch[p]) \cup bad[p]

EndBatch(p) ==
    /\ calls[p] = {} /\ waits[p] = {}
    /\ failed' = KeepFailed(p)
    /\ batch' = [batch EXCEPT ![p] = {}]
    /\ bad' = [bad EXCEPT ![p] = {}]
    /\ UNCHANGED <<calls, waits>>

\* async_shutdown: join the shutdown task, or create one.
AsyncShutdown(p, c) ==
    /\ c \in calls[p]
    /\ calls' = [calls EXCEPT ![p] = @ \ {c}]
    /\ waits' = [waits EXCEPT ![p] = @ \cup {c}]
    /\ IF task[c] = "none"
         THEN /\ Seal({c})
              /\ task' = [task EXCEPT ![c] = "begun"]
         ELSE UNCHANGED <<ownerVars, task>>
    /\ UNCHANGED <<madeVars, tracked, failed, pc, fresh, batch, bad>>

\* The shutdown task runs: nothing is to be done for a dropped record.
ShutdownRuns(c) ==
    /\ task[c] = "begun"
    /\ task' = [task EXCEPT ![c] = IF Retained(c) THEN "closing" ELSE "ok"]
    /\ Seal({c})
    /\ UNCHANGED <<madeVars, tracked, failed, pc, fresh, batchVars>>

\* The terminal close is over.  The record may be gone by then; the owner's
\* state is settled all the same.
TerminalOk(c) ==
    /\ task[c] = "closing"
    /\ task' = [task EXCEPT ![c] = "ok"]
    /\ Remove({c}, own[c])
    /\ UNCHANGED <<madeVars, tracked, failed, pc, fresh, batchVars>>

TerminalFail(c) ==
    /\ task[c] = "closing"
    /\ task' = [task EXCEPT ![c] = "failed"]
    /\ state' = [state EXCEPT ![own[c]] = "closing"]
    /\ UNCHANGED <<owner, recordOf, own, madeVars, tracked, failed, pc, fresh, batchVars>>

\* All who await the shutdown task of c see how it ended; a failed task is
\* forgotten, so that the next call begins another.
Settle(c) ==
    LET awaiting == {p \in Proc : c \in waits[p]}
    IN  /\ task[c] \in {"ok", "failed"}
        /\ awaiting # {}
        /\ waits' = [p \in Proc |-> waits[p] \ {c}]
        /\ IF task[c] = "failed"
             THEN /\ bad' = [p \in Proc |-> IF p \in awaiting THEN bad[p] \cup {c} ELSE bad[p]]
                  /\ task' = [task EXCEPT ![c] = "none"]
             ELSE UNCHANGED <<bad, task>>
        /\ UNCHANGED <<ownerVars, madeVars, tracked, failed, pc, fresh, batch, calls>>

\* What async_retry_failed_shutdowns takes up at this endpoint.
Retryable == {c \in failed : own[c] = owner}

Pruned(S, r) == {c \in S : r[c] \in {"open", "closing"}}

-----------------------------------------------------------------------------
(* A config entry: set-up, unload (or HA's stop).                          *)

Setup(e) ==
    LET p == Unloader(e)
    IN  /\ pc[p] = "out"
        /\ pc' = [pc EXCEPT ![p] = "retrying"]
        /\ StartBatch(p, Retryable)
        /\ UNCHANGED <<madeVars, tracked, failed, task, fresh>>

\* A retry that fails again fails the set-up.
SetupRetried(e) ==
    LET p == Unloader(e)
    IN  /\ pc[p] = "retrying"
        /\ EndBatch(p)
        /\ pc' = [pc EXCEPT ![p] = IF bad[p] = {} THEN "loaded" ELSE "unloaded"]
        /\ UNCHANGED <<ownerVars, madeVars, tracked, task, fresh>>

\* _disconnect_all_transports closes admission before its first await, then
\* detaches the devices ...
Unload(e) ==
    LET p == Unloader(e)
    IN  /\ pc[p] = "loaded"
        /\ pc' = [pc EXCEPT ![p] = "detaching"]
        /\ Seal(tracked[e])
        /\ UNCHANGED <<madeVars, tracked, failed, task, fresh, batchVars>>

\* Mutant: only what was closed to admission at first is closed.
ClosingOnly(e) == {c \in tracked[e] : recordOf[c] = "closing"}

\* The set it then closes: what the entry tracks by now.
ToClose(e) == tracked[e]

\* ... and closes the capabilities tracked by then.
CloseAll(e) ==
    LET p == Unloader(e)
    IN  /\ pc[p] = "detaching"
        /\ pc' = [pc EXCEPT ![p] = "closing"]
        /\ StartBatch(p, ToClose(e))
        /\ UNCHANGED <<madeVars, tracked, failed, task, fresh>>

ClosedAll(e) ==
    LET p == Unloader(e)
    IN  /\ pc[p] = "closing"
        /\ EndBatch(p)
        /\ tracked' = [tracked EXCEPT ![e] = Pruned(@, recordOf)]
        /\ pc' = [pc EXCEPT ![p] = IF bad[p] = {} THEN "unloaded" ELSE "failing"]
        /\ UNCHANGED <<ownerVars, madeVars, task, fresh>>

\* force_release_capabilities: whatever the entry tracks is dropped.  All of
\* it belongs to the registered owner: an owner leaves with its last record.
ForceRelease(e) ==
    LET p == Unloader(e)
        S == {c \in tracked[e] : Retained(c)}
    IN  /\ pc[p] = "failing"
        /\ pc' = [pc EXCEPT ![p] = "unloaded"]
        /\ failed' = failed \ tracked[e]
        /\ IF S = {} THEN UNCHANGED ownerVars ELSE Remove(S, owner)
        /\ tracked' = [tracked EXCEPT ![e] = {}]
        /\ UNCHANGED <<madeVars, task, fresh, batchVars>>

-----------------------------------------------------------------------------
(* The polls of an entry.  One that began goes on when the entry unloads:  *)
(* polling stops only after the transports are closed.                     *)

BeginPoll(e) ==
    /\ pc[Unloader(e)] = "loaded"
    /\ pc[Poll(e)] = "idle"
    /\ pc' = [pc EXCEPT ![Poll(e)] = "polling"]
    /\ UNCHANGED <<ownerVars, madeVars, tracked, failed, task, fresh, batchVars>>

EndPoll(e) ==
    /\ pc[Poll(e)] = "polling"
    /\ pc' = [pc EXCEPT ![Poll(e)] = "idle"]
    /\ UNCHANGED <<ownerVars, madeVars, tracked, failed, task, fresh, batchVars>>

\* The poll comes to a device that has no transport yet.
PollCreates(e, c) ==
    LET p == Poll(e)
    IN  /\ pc[p] = "polling"
        /\ Create(p, c)
        /\ tracked' = [tracked EXCEPT ![e] = @ \cup {c}]
        /\ late' = IF pc[Unloader(e)] \in {"closing", "failing", "unloaded"}
                     THEN late \cup {c} ELSE late
        /\ pc' = [pc EXCEPT ![p] = "connecting"]
        /\ UNCHANGED <<failed, task, batchVars>>

\* It answered: the device object in the cache owns it from now on.
Adopt(e) ==
    LET p == Poll(e)
    IN  /\ pc[p] = "connecting"
        /\ recordOf[fresh[p]] = "open" /\ state[own[fresh[p]]] = "open"
        /\ fresh' = [fresh EXCEPT ![p] = NoOne]
        /\ pc' = [pc EXCEPT ![p] = "polling"]
        /\ UNCHANGED <<ownerVars, madeVars, tracked, failed, task, batchVars>>

\* It did not, was closed meanwhile, or the poll is cancelled.
Discard(p) ==
    /\ pc[p] = "connecting"
    /\ pc' = [pc EXCEPT ![p] = "cleaning"]
    /\ fresh' = [fresh EXCEPT ![p] = NoOne]
    /\ StartBatch(p, {fresh[p]})
    /\ UNCHANGED <<madeVars, tracked, failed, task>>

Discarded(e) ==
    LET p == Poll(e)
    IN  /\ pc[p] = "cleaning"
        /\ EndBatch(p)
        /\ tracked' = [tracked EXCEPT ![e] = Pruned(@, recordOf)]
        /\ pc' = [pc EXCEPT ![p] = "polling"]
        /\ UNCHANGED <<ownerVars, madeVars, task, fresh>>

-----------------------------------------------------------------------------
(* A config flow's discovery.                                              *)

FlowRetry(f) ==
    LET p == Discovery(f)
    IN  /\ pc[p] = "idle"
        /\ pc' = [pc EXCEPT ![p] = "retrying"]
        /\ StartBatch(p, Retryable)
        /\ UNCHANGED <<madeVars, tracked, failed, task, fresh>>

\* create_discovery_capability refuses an endpoint that has an owner.
FlowCreates(f, c) ==
    LET p == Discovery(f)
    IN  /\ pc[p] = "retrying"
        /\ bad[p] = {}
        /\ EndBatch(p)
        /\ owner = NoOne
        /\ Create(p, c)
        /\ pc' = [pc EXCEPT ![p] = "connecting"]
        /\ UNCHANGED <<tracked, task, late>>

FlowRefused(f) ==
    LET p == Discovery(f)
    IN  /\ pc[p] = "retrying"
        /\ bad[p] # {} \/ owner # NoOne
        /\ EndBatch(p)
        /\ pc' = [pc EXCEPT ![p] = "done"]
        /\ UNCHANGED <<ownerVars, madeVars, tracked, task, fresh>>

FlowOver(f) ==
    LET p == Discovery(f)
    IN  /\ pc[p] = "cleaning"
        /\ EndBatch(p)
        /\ pc' = [pc EXCEPT ![p] = "done"]
        /\ UNCHANGED <<ownerVars, madeVars, tracked, task, fresh>>

-----------------------------------------------------------------------------

EntryStep(e) ==
    \/ Setup(e)
    \/ SetupRetried(e)
    \/ Unload(e)
    \/ CloseAll(e)
    \/ ClosedAll(e)
    \/ ForceRelease(e)
    \/ BeginPoll(e)
    \/ EndPoll(e)
    \/ \E c \in Cap : PollCreates(e, c)
    \/ Adopt(e)
    \/ Discard(Poll(e))
    \/ Discarded(e)

FlowStep(f) ==
    \/ FlowRetry(f)
    \/ \E c \in Cap : FlowCreates(f, c)
    \/ FlowRefused(f)
    \/ Discard(Discovery(f))
    \/ FlowOver(f)

CapStep(c) ==
    \/ \E p \in Proc : AsyncShutdown(p, c)
    \/ ShutdownRuns(c)
    \/ TerminalOk(c)
    \/ TerminalFail(c)
    \/ Settle(c)

RegistryNext ==
    \/ \E e \in Entry : EntryStep(e)
    \/ \E f \in Flow : FlowStep(f)
    \/ \E c \in Cap : CapStep(c)

RegistrySpec == RegistryInit /\ [][RegistryNext]_registryVars

-----------------------------------------------------------------------------
(* Properties.                                                             *)

\* The endpoint has its key exactly while somebody holds a capability of it,
\* and all who do hold it under the one owner that is registered: however a
\* late close, a forced release and a new set-up interleave, there is no
\* second owner and no key that blocks discovery until a restart.
OwnerRegistered ==
    /\ RegistryTypeOK
    /\ \A c \in Cap : Retained(c) => own[c] = owner
    /\ owner # NoOne => \E c \in Of(owner) : Retained(c)

\* No half-closed capability is forgotten: one that is closed to admission is
\* being closed by somebody, or is in the set the next retry takes up.
ClosingRemembered ==
    \A c \in Cap : recordOf[c] = "closing" =>
        \/ c \in failed
        \/ \E p \in Proc : c \in batch[p]
        \/ \E e \in Entry : pc[Unloader(e)] = "detaching" /\ c \in tracked[e]

\* After an unload nothing is left of what the entry had when it took the set
\* to close, whether its close ended well, failed, or was under way already
\* for a poll or a retry; and nothing of the entry waits for a retry.
UnloadReleases ==
    \A e \in Entry : pc[Unloader(e)] = "unloaded" =>
        \A c \in Cap : maker[c] = Poll(e) /\ Retained(c) => c \in late

\* _disconnect_all_transports: "issue #583: unload must leave no
\* task/socket/callback under integration control".  Once the entry is
\* unloaded and its last poll has ended, none of its capabilities is open.
UnloadLeavesNothing ==
    \A e \in Entry : pc[Unloader(e)] = "unloaded" /\ pc[Poll(e)] = "idle" =>
        \A c \in Cap : maker[c] = Poll(e) => recordOf[c] # "open"

=============================================================================
