# Verification of the EG4 Web Monitor integration

This directory holds TLA+ models of the concurrent core of the Home Assistant
integration in `src/custom_components/eg4_web_monitor`, TLC runs that check
them on small instances, and TLAPS proofs that hold for every instance. File
names below are relative to that directory unless they end in `.tla` or `.cfg`.

The integration runs on one asyncio event loop. There is no preemption, so
everything that can go wrong between tasks goes wrong at an `await`, in a done
callback, or in the loop turn between the moment a future is resolved and the
moment the task that awaits it runs. In every module here **one action is what
one task or callback does between two awaits that really suspend**, and the
hand-off turn of `asyncio.Lock`, `asyncio.Semaphore` and `asyncio.Task` is a
state of its own where the code depends on it.

## 1. Inventory

| Component (source) | State it keeps | Operations | What makes it hard |
|---|---|---|---|
| Endpoint owner and gate (`endpoint_bus.py` 155-241, 293-854, 994-1024) | records of the capabilities of one physical endpoint, a task-reentrant gate (lock, depth, wire holds, waiters), wire tasks | `add`, `invoke`, `transaction`, `begin_shutdown`, `shutdown`, forced release | wire tasks are shielded and outlive cancelled callers; a shutdown interrupts its own wire task without owning the gate; admission is bounded and timed |
| Endpoint registry (`endpoint_bus.py` 1075-1332) | one owner per normalised endpoint, failed shutdowns | create, discover, shut down a set, retry, force-release | an entry unloads while polls still create capabilities; failed closes are kept for a retry that may never come; endpoints are shared by entries |
| Raw snapshots (`endpoint_bus.py` 243-690, `raw_snapshot.py`) | per unit: latest complete frame, poll cycle, the active attempt | bracketed refresh, observer callbacks, abort, coverage on and off | callbacks of cancelled reads arrive after their attempt; coverage toggles mid-refresh; siblings share a unit's state |
| Cloud request budget (`cloud_requests.py` 1-330) | per account: semaphore, references, leases; per client: the lease of the authentication task | register, run a chain, reauthenticate, close | logins must not queue behind the chains that await them; entries reload while old chains drain |
| Firmware status flight (`cloud_requests.py` 333-571) | one shared request per account, its owner, waiters, retired requests, batch count | run, begin/end batch, release, close | a request dies with its owner's entry and must be replaced for the others |
| Parameter write seeds (`coordinator.py` 860-1460, `coordinator_mixins.py` 4270-4456) | acknowledged values per key with generation and three ages, a recheck timer | note a write, reconcile a read, overlay a cycle, recheck, teardown | reads that began before a write end after it; the cloud applies writes late or never; cycles publish old copies; only some writes leave a seed |
| Optimistic control state (`base_entity.py` 742-992, 1366-1498, `switch.py`, `number.py`, `select.py`, `time.py`) | optimistic value, retention flag, pre-write value, deadline | begin, settle, retain, tick, expire, cancel | two commands on one entity; a tick, or a read from before the write, between acknowledgement and settlement; a refresh that reads nothing; a cancelled command |
| Side-fetch breaker (`coordinator_mixins.py` 1090-1290) | failure streak, deadline, half-open flag | admit, answer, fail, inconclusive | verdicts of concurrent calls arrive in any order |
| Teardown and background tasks (`coordinator_mixins.py` 4458-4546, 4696-4885) | background task set, the missing-parameter loader, a scheduling latch | schedule, done callback, cancel all, disconnect | a task that finishes in the turn that cancels it queues a successor; a cycle outlives the drain |
| Parameter schedule of local polling (`coordinator_local.py` 1497-1624, 1953-2162) | two timestamps shared by all inverters, sets of those that missed their turn | cycle, read, failure, re-arm | a sibling's success hides a failure; cycles overlap in attributes of the coordinator |
| Batteries of an inverter (`coordinator_local.py` 124-473, 1378-1425, `coordinator_http.py` 618-742, 1066-1305, `coordinator.py` 636-680, 1651-1761, `battery_migration.py`) | round-robin cache, exposed slots, polls without a serial, first-seen serials, carry-forward, what is published, renamed keys | merge, carry forward, evict, rename registry rows | serials arrive late, are cut short or are placeholders; slots are renumbered; the portal omits batteries; two caches with different exclusions |
| Rest of polling and assembly (`coordinator_http.py`, `coordinator_local.py`, `coordinator.py`, `coordinator_mappings.py`) | carried-forward measurements, link states | one update per interval | mostly mapping of registers to sensors |
| Multi-register controls (`coordinator.py` 1975-2207, `time.py` 260-720, `button.py` 560-656, `utils.py` 269-309) | control transaction locks, cached parameters | write a pair or a set of registers over one of two routes, then read back | one write of several fails, is in doubt or is cancelled; deadlock between locks |
| PV lifetime floor (`coordinator_mixins.py` 1599-1960) | persisted monotone floors and year counts | load, accept, save, publish | restart between acceptance and save; saves side by side |
| History import (`history_import.py`) | recorder statistics, a store of zone markers, a store of interrupted migrations | fetch, migrate, merge, write, verify | the recorder's tasks fail unseen, late or not at all; crashes; zones change; two plants share the stores |
| Device removal (`device_removal.py`) | ledger of sightings, three kinds of clocks | observe a cycle, decide a removal | absence during incomplete observations proves nothing; a removal cannot be undone |
| Energy services (`services.py`) | none between calls | reconcile history, others | |
| Config flow, entity platforms, constant tables, migrations, diagnostics | forms, descriptions, static data | | data transformation, not protocol |

How they interact:

* A **coordinator** (one per config entry) creates capabilities through the
  **registry**, hands them to pylxpweb devices, and polls through them; the
  **owner** serialises all operations of all entries on that endpoint and tells
  its observers which registers were read (**snapshots**).
* In cloud and hybrid mode each coordinator has a limiter; the limiters of one
  account share a **budget** and a **firmware flight** in `hass.data`, and the
  supplemental fetches of one coordinator share a **breaker** that asks the
  limiter whether the budget was saturated before it blames the portal.
* A control entity writes through the coordinator. A write that lands by the
  cloud while a local transport is attached leaves a **seed**
  (`utils.py:303-308`, `base_entity.py:1776`, `coordinator.py:2078`, `2169`), with which
  reads by anybody (poll, targeted refresh, settle recheck, hourly refresh) are
  reconciled; so does the acknowledged half of a battery mode. A write on the
  local route leaves none (`utils.py:291`); a switch sets its cached parameter
  in place instead (`base_entity.py:1934`). The entity keeps its own
  **optimistic** value until its refresh or a tick.
* **Unload and HA stop** run across all of them: disconnect the transports,
  cancel the background tasks, release budget and flight, stop polling.

What makes each part correct, in one sentence: the owner keeps one operation on
the wire and never leaks the gate; the registry forgets an endpoint exactly
when nothing of it is left; a snapshot is all of one refresh or nothing; the
account's limit holds with no slot lost and no login behind its own parents;
there is one firmware request and its replacement is invisible; an acknowledged
value that left a seed never gives way to an older one; a control shows its command until there
is news of it, and not for ever; the breaker opens on evidence and closes after
recovery; teardown leaves nothing running; no inverter's parameters are
silently missed; a device never holds half a command unsaid, and the cache
follows it, but for reasons that can be named; a lifetime total never falls; an imported day is counted once and
never lost; a live device cannot be deleted and a ghost can; a battery is one
device, which stays while it is read.

`PROJECT.json` lists the hazards at their lines and the property aimed at each.

## 2. Modules

| Module | Models | Read it as |
|---|---|---|
| `EndpointBus.tla` | what an endpoint promises | abstract specification: one operation at a time, only through open capabilities, a close overlaps only its own capability's operation |
| `EndpointOwner.tla` | `_EndpointBusOwner`, `_TaskReentrantGate` | `rec`/`ownerState` are `_records`/`_state`; `locked`, `queue`, `gateOwner`, `depth`, `holds`, `waiters` are the gate's fields; `pc` is where each task stands; `wire` is the shielded task of each caller |
| `EndpointOwnerProofs.tla`, `EndpointRegistryProofs.tla`, `HistoryImportProofs.tla`, `BatteryIdentityProofs.tla` | | proofs about the module each is named for |
| `ParameterProofs.tla` | | proofs about `ControlWrites` and `ParameterSeeds` |
| `CloudAccountProofs.tla` | | proofs about `CloudBudget` and `FirmwareFlight` |
| `LocalPollingProofs.tla` | | proofs about `ParameterSchedule`, `PVLifetime` and `RawSnapshot` |
| `CoordinatorProofs.tla` | | proofs about `OptimisticRetention`, `SidefetchBreaker`, `BackgroundTasks` and `DeviceRemoval` |
| `EndpointRegistry.tla` | `EndpointBusRegistry`, the owners' records as far as it depends on them, and its users: poll, unload, set-up, config flow | `owner`/`failed` are the registry's maps, `tracked` a coordinator's set, `batch` a running `async_shutdown_capabilities`, `task` a capability's shutdown task |
| `RawSnapshot.tla` | `snapshot_refresh`, `observe`, `_remove_snapshot_state`, coverage | `stores` is `_snapshot_states`, `holds` each record's `snapshot_state`, `active`/`frame` a store's attempt and latest frame |
| `CloudBudget.tla` | `SharedCloudRequestBudget`, `_CloudRequestLease`, `CloudRequestLimiter` | chains of several clients, and pylxpweb's authentication task as an external actor |
| `FirmwareFlight.tla` | `SharedFirmwareStatusFlight` | calls of several entries over numbered raw requests; the request itself is external |
| `SidefetchBreaker.tla` | `_breakered_cloud_call`, `_sidefetch_note_*` | sites that fetch concurrently; the fetch, classified, is external |
| `ParameterSeeds.tla` | `note_parameters_written`, `_reconcile_parameter_read`, `_overlay_parameter_write_seeds`, the recheck, their callers | one device's keys; `promised` is the last write that left a seed; `lib` is what the device object (pylxpweb) holds; values are ranks of changes, times are ages |
| `OptimisticRetention.tla` | `EG4OptimisticEntity` and the three ways its subclasses settle a command | one entity; `optimistic`, `retained`, `preWrite` are its fields, `ttlOver` the deadline, `decoded` what the coordinator's data says, `reading` what a read in flight is going to publish, `seed` the parameter's seed |
| `ControlWrites.tla` | schedule times, the clear-schedule button, the battery control mode | fields of registers hold the command that wrote them; `holder` are the locks of `control_transaction_lock`, `left` what an attempt has still to write, `route` local or cloud; `sample` and `polled` what the reads of a command and of a poll are going to publish |
| `ParameterSchedule.tla` | the parameter part of `_async_update_local_data` and `_process_single_local_device` | `refresh`/`attempt` are the two timestamps, `pending`/`completed`/`attempted` the sets, cycles may overlap |
| `PVLifetime.tla` | floor, locked save, publication and load of `_fetch_pv_string_energy` | a string per inverter; what is on disk is kept apart from what is in memory and in the recorder |
| `BackgroundTasks.tla` | the loader, the tracked tasks, their done callbacks, `_cancel_background_tasks` | `fate` is what has become of each task, `tracked` the set, `queued` the serials behind the loader |
| `DeviceRemoval.tla` | `record_provided_identifiers`, `async_remove_config_entry_device` | clocks and the ledger as ages |
| `HistoryImport.tla` | `async_import_historical_data`, `_merge_and_write` and what they call | `db` the committed rows, `queue` the recorder's tasks, `markers`/`snapshots` the two stores, `job` an import and where it stands |
| `BatteryIdentity.tla` | `_merge_round_robin_batteries`, `_evict_aged_rr_batteries`, `_apply_battery_carry_forward`, the two keys, the migration of registry rows | one inverter; `rows` is what pylxpweb has accumulated, the caches are the code's own tables, `registry` tells whose history each row has |
| `MCLocal.tla` | | `EndpointRegistry`, `ParameterSeeds`, `ParameterSchedule`, `ControlWrites`, `PVLifetime` side by side |
| `MCDevice.tla` | | `RawSnapshot`, `BatteryIdentity` side by side |
| `MCCoordinator.tla` | | `OptimisticRetention`, `SidefetchBreaker`, `BackgroundTasks`, `DeviceRemoval`, `HistoryImport` side by side |
| `MCCloudAccount.tla` | | `CloudBudget`, `FirmwareFlight` side by side |
| other `MC*.tla`, `*.cfg` | | instances for TLC |

The four modules that put models side by side have a variable `part`, chosen
at the start: the models share no state, so a behaviour follows one of them
while the others rest in one initial state. The product of their
interleavings would add states and show nothing. For the same reason
`MCLocal`'s view of a state (`Moving`) leaves out the parts that rest; of the
seeds it also leaves out what no later step looks at (`SeedsView`: the numbers of
generations beyond their order, the age of a write whose seed is confirmed), and
of two capabilities, which are alike, one is the first that is made.

Actions are named for what runs: `InvokeFree`/`InvokeQueue`/`Granted` are the
three ways through `acquire()`, `Resume` is the caller whose wire task ended,
`WireCallbacks` is that task's done callbacks, and so on; `PROJECT.json` "map"
gives the source lines of every definition. Operators whose comment says
"Mutant" are wrong on purpose and used by no specification: substituting one
for the definition it follows must break a property.

### Abstractions

* **EndpointOwner.** An operation is only its place on the wire. A capability's
  token also names its shutdown task (one at a time per capability:
  `_shutdown_task`). The admission deadline may pass at any moment while a
  counted caller waits. `asyncio.Lock` is external, modelled by its documented
  fast path, FIFO and wake-up. Snapshot staging and property access, which do
  not touch the gate, are left to the snapshot module.
* **EndpointRegistry.** One endpoint; an owner carries the name of the
  capability it was made for, which the code cannot see. What `EndpointOwner` shows of one owner's gate is
  taken as given: a close ends well or fails, at some time. A capability is
  created once; an entry is unloaded once per set-up. `NoOneAssumption` says
  that nobody's name is not that of a capability.
* **RawSnapshot.** Words are abstracted to the read they come from. A read's
  own task is kept apart from its caller, which may be cancelled first. The
  health counters and the owner-wide generation number are left out.
* **CloudBudget.** A chain, an authentication task and a client are used once.
  A retry inside a chain keeps its slot and is not visible. pylxpweb's task is
  modelled from how `run()`, `_auth_task_finished` and `close()` use it. Clients,
  chains and authentication tasks are finitely many, as in any run of the
  program, so that they can be counted (`BudgetAssumption`).
* **FirmwareFlight.** One flight object, from its first owner to the release of
  its last. Entries and calls are finitely many; raw requests are numbered, and
  `MaxTask` bounds them in the guard of the call that would create one.
* **SidefetchBreaker.** Time is the order of the cooldown's end and the calls.
  The saturation test is a choice of the `Unreachable`/`Inconclusive` outcomes.
* **ParameterSeeds.** One device, a few keys. Time advances in ticks; ages stop
  one past the limit they are compared with. pylxpweb serialises the targeted
  reads of a device by its own lock, and its object holds what they read; both
  are external. The read of a local cycle goes to the transport, past the object,
  which then lags behind. Only writes that leave a seed are promised to stay: a
  write on the local route (`LocalWrite`) is a change of the register, and of
  the cache where a switch writes it, beside the promises. `WindowsAssumption` says the code's settle
  and grace windows cover the delays they were chosen for (propagation of a
  cloud write plus a read; a read; a cycle) and that a seed outlives both, as
  the code's constants do: the guarantee fails outside it. `MaxChange` bounds
  the changes of each two keys together.

* **OptimisticRetention.** A command is issued once. What the device, the panel
  or the portal does is `ForeignChange`. Schedule times hold a lock, so their
  commands do not overlap; those of the others do (no `PARALLEL_UPDATES`). A
  write is acknowledged locally, without a seed (`AckedLocally`), or by the cloud
  (`AckedByCloud`). A switch written locally is refreshed by a coordinator
  update (`Updated`), which reads no parameters unless a local cycle's are due
  and counts the carried ones as fresh; every other command re-reads
  (`Reread`, `RereadInPart`). One more read may be in flight, of a cycle or for
  another control (`ReadSamples`, `ReadPublished`): it may have sampled before
  the write and publish after it. The windows and generations of seeds are
  `ParameterSeeds`': here a seed stays at least as long as the reads that it
  outranks, and a complete read that disagrees shows either. The extra state of
  the quick-charge button is left out.
* **ControlWrites.** A field's value is the command that wrote it: two writers
  in one register are a torn value. A piece may be acknowledged, fail before
  or after it has landed, or be cancelled in between. Link state and routes are
  the code's. A command's read and one poll beside it sample and publish in
  turns of their own; a poll of a local coordinator overlaps with anything, one
  of a hybrid or cloud one waits for the device object. Of a seed the model keeps
  that it is alive, and that what a read in flight sampled no longer counts
  (`Noted`); which reads it outranks by generation is `ParameterSeeds`'.
* **ParameterSchedule.** Timestamps are "never", "recent" or "old". The retry
  floor and the interval may end at any moment.
* **PVLifetime.** A response is any total with any number of years. The store
  writes atomically, as Home Assistant's does. Overlapping saves are those of
  different inverters; one inverter is processed once at a time.
* **BackgroundTasks.** Names of tasks are used again, so the number of tasks in
  a behaviour has no bound. `asyncio.gather` and done callbacks are external.
* **DeviceRemoval.** Time is ages up to one past the prune age. An identifier's
  sightings follow what a cycle provides, complete or not.
* **HistoryImport.** Each day has energy 1, so that a sum counts its rows, and
  one statistic stands for the six of a plant, which one import treats in turn.
  A zone is how much later than the UTC day its day begins; daylight saving,
  which only makes that depend on the day, is left out. A retryable error puts a write back
  into the queue, behind the barrier that an import waits for. `Store.async_save`
  is taken to succeed. The dry run writes nothing and is left out. An `excused`
  statistic, which the properties do not speak of, is one that has met a limit
  that the module's docstring or comments accept, or the stale marker described
  under "Observations"; the model does not follow it into its next import.
* **BatteryIdentity.** One inverter. A battery is told apart by its name in the
  model, which the code cannot see; a serial is a model value with the number of
  a placeholder (`Battery_ID_01`) or none. The accumulator of pylxpweb is
  external: it numbers what it reads, keeps what it has, and may renumber a row
  whose serial arrives. A mapping is its battery, its serial and whether it has
  aged past six hours; measurements, and with them the overlay of local readings
  over the portal's, are left out. A rename that fails, or whose entities are
  live, is tried again. Not followed are serials that were known when the
  transport lost them (`relapsed`): when one of them returns at another slot, it
  is not new, nothing sweeps the slot's key, and the battery has two keys until
  six hours pass. Nor are batteries that come to one key, by serial or by
  placeholder (`Honest`): the properties are about those that are told apart.
  `BatteryAssumption` says that a serial is none of the slots' numbers (the
  merge refuses one shorter than ten characters) and that the portal numbers the
  batteries apart, with a last one, as it does any finite bank.

## 3. Runs

| Run | Instance | Shows |
|---|---|---|
| `owner_safety` | 3 callers, 2 capabilities, `MaxWaiters` 1 | wire exclusion, gate accounting, exact waiters, nothing after release, refinement of `EndpointBus` |
| `owner_live` | 2 callers, 2 capabilities | an interrupting shutdown ends; a queued one is served if the transports answer |
| `owner_stranded` (violation) | 2 callers, 2 capabilities | a forced release racing a retry strands the surviving sharer |
| `cloud_account` | budget: 2 clients, 3 chains, 1 authentication task, limit 2; firmware request: 2 entries, 3 calls, 5 requests | account limit, slots conserved, logins admitted, one budget, queued chains served, the budget retired; one live request, of a loaded entry, bookkeeping drains, transfers are invisible |
| `local` | 2 entries, 1 config flow, 2 capabilities of one endpoint; 2 keys, 1 reader beside the cycle, windows 2/1/3 (settle, grace, time to live), cycles of one tick, 2 changes; 2 inverters, 2 overlapping cycles; 2 commands of several calls on 2 registers and a poll, all routes; 2 strings, totals 0-1, 2 years | an owner is registered exactly while it holds records, no half-closed capability is forgotten, an unload releases all it found; an acknowledged value that left a seed never gives way to an older one, a disputed key is always due for a recheck; nobody hidden by the shared timestamp; no torn value unsaid, a cache that is wrong only for the named reasons, no circle of waits; totals never fall |
| `registry_unload` (violation) | 1 entry | a poll in flight leaves an open capability behind the unload |
| `device` | 2 capabilities of one unit, 2 refreshes, 2 stores, staging limit 2; 2 batteries with serials, with a placeholder or with one serial for both, 2 slots beside a portal or 3 without, 2 polls to exposure, 1 start over, removal, restart or span of six hours | a frame is all of one refresh and nothing else, identities never repeat, no refresh stays active; a battery whose serial is known has one key; one that is shown stays while it is read, and goes when it is not |
| `battery_carried` (violation) | 2 batteries with placeholders, a portal | a shown battery vanishes behind its neighbour's first-seen position |
| `battery_history` (violation) | 2 batteries with serials | a rename gives one battery the other's history |
| `coordinator` | one control of 3 styles: 1 command, 1 foreign change, every connection and cache, or 2 commands with a local transport; a read in flight beside either; breaker: 4 sites, threshold 3; 3 task names, 2 serials; 2 inverters, 1 battery module; imports: 2 days, 3 zones (two of one offset), one plant with 2 faults or two plants without | a command is shown and not reverted, and its value goes in the end; never half-open without a probe, opens on evidence, closes after recovery; nothing left after the drain; absence proven before a deletion, ghosts deletable; series sound whenever settled, no day nowhere, migrations end |
| `control_cancelled` (violation) | as above | a cancelled command leaves its value shown without a bound |
| `history_retry` (violation) | as above, 3 faults | a day that a migration's retry added is lost |

Why the bounds are enough. The owner's conflicts are pairwise (a caller, its
successor, a shutdown), so three callers and two capabilities contain a holder,
a counted waiter and an uncounted one beside two shutdowns, and the proofs
remove the bound for its safety. The registry needs two entries that share the
endpoint (or one and its reload) and a capability that replaces a closed one.
A snapshot goes wrong
between a cancelled refresh and the next, on the same store or a replacement,
of one or two sharers of a unit: two of each; its proofs remove the bounds. The
budget needs as many chains as slots to deadlock, one more to queue, and two clients to share or reload. A firmware
transfer needs a surviving and a leaving entry and a third call that joins
late; the bound on requests is one per call and per release, which is all that
can be created. Commands conflict in pairs, over one register or two
(a clear against two single writes would only repeat a pair); a third cycle or
inverter repeats what the second does, and the proofs remove these bounds. An
import needs a day that is there, one that is new, two zones apart and an alias
for the comparison of offsets; the zone in force may differ from that of the
rows from the start, so two faults are a failed task and a crash within one
migration, or a second change of zone. Two plants meet only at the stores,
without faults. The proofs remove these bounds for its safety, and those of the
registry, the budget, the firmware request and the seeds. The breaker needs a probe, an older call
beside it, and enough sites to reach the threshold concurrently. The seeds
need a write, a second write or an external change, a read that spans either,
and a cycle that carries an older copy, with cycles and reads that last the whole
grace window; a third change exceeds the time limit, and the proofs remove the
bound. A control needs a second command to overlap with, or a change made
elsewhere, not both: `MCCoordinator` has a part for each, and the register is
"on" at first, since the two settings are alike.
Batteries meet in pairs: two that claim one key, one whose slot or position is
the other's, one that is read while the other is a ghost; a third slot takes a
row that is renumbered, and what happens after one start over, restart or six
hours begins anew.

`CHECK_DEADLOCK FALSE` is used where the system may stop: everything is closed,
every call is over, every refresh is over, or teardown is done and no timer is
left, imports are over.

### Fairness

* Owner: the event loop runs each ready task, timers fire, cancelled wire tasks
  end, and the close of a raw transport ends. An operation on the wire need
  never end by itself: `ShutdownServed` assumes so explicitly
  (`TransportAnswers`), `InterruptCompletes` does not. Strong fairness for
  leaving a transaction says that its body issues finitely many operations.
* Budget: ready tasks run; requests have timeouts; the authentication task ends.
* Controls: coordinator ticks come and monotonic time passes.
* Device removal: time passes. `GhostRemovable` assumes complete cycles.
* Imports: the recorder works off its queue, a service call proceeds, and the
  user imports again (the module asks for it when a verification fails).
  Faults are bounded, so from some time on there are none; nothing else is
  assumed of them.
* Breaker: the cooldown passes, polls go on at every site (strong, since a site
  is admitted only while the breaker is not open), calls end (a timeout).
* Registry, snapshots, flight, seeds, background tasks, control writes, schedule,
  lifetime and batteries are checked for safety only.

### Findings

1. `owner_stranded`: `shutdown()` sets the owner CLOSING after a failed close
   even if `force_release_capabilities` dropped the record during it; the
   owner then refuses the surviving sharers with no closing record to retry.
2. `registry_unload`: `_disconnect_all_transports_work`
   (`coordinator_mixins.py:4866`) closes what is tracked when its batch starts.
   A poll still under way that finds a device without a transport creates a
   capability, under a new owner, and adopts it; nobody closes it. The comment
   at `coordinator_mixins.py:4791` says that unload must leave nothing.
3. `control_cancelled`: the write and refresh boundaries of switches, numbers
   and selects catch `Exception`, which a cancellation is not
   (`base_entity.py:1464`). The value that a cancelled command has published
   stays, its retention disarmed, until the next command; the comment at
   `base_entity.py:719` wants every retention bounded and self-clearing.
4. `history_retry`: the snapshot of a migration is saved when the migration
   starts and not by its retries, which write days of their own
   (`history_import.py:746`). When the clear that a retry issues fails too, and
   the next retry's clear succeeds but the process dies before the write, those
   days are gone, and an import of a narrower range ends the migration without
   them. The docstring promises that every known day is preserved, and the
   comment at line 850 describes this very loss for the first attempt.
5. `battery_carried`: where the portal has no batteries and the local merge
   stands in, the carry-forward excludes the first-seen positions of all known
   serials (`coordinator_http.py:1210`). In a bank with placeholder serials a
   position is a canonical key: Battery_ID_01, shown from the portal, vanishes
   when the merge has read only Battery_ID_02, which is first seen and so "-01".
   The docstring (line 636) promises that a battery once published is carried
   forward. `AlwaysCarried` also fails for real serials, where the aged local
   copy of a battery is evicted and takes the portal's newer one with it
   (`coordinator_local.py:463`), though "only a battery gone from BOTH cloud
   and accumulator ages" (`coordinator_mixins.py:393`).
6. `battery_history`: the renames of positional rows follow the order in which
   this session reads the serials (`coordinator_local.py:306`). When the second
   battery's serial is read before the first one's, the second takes over the
   row and the history of the first. `coordinator.py:640` calls that order the
   exact assignment of the older release.

### Observations

What the models show and no statement of the code contradicts:

* `_TaskReentrantGate.acquire` (`endpoint_bus.py:186`) asks
  `self._lock.locked()`, false between a release and the run of the task it
  woke: a call of that turn queues without being counted or timed, so more
  callers than `MAX_ENDPOINT_WAITERS` may wait. `WaitersExact` speaks of those
  that are counted.
* A failed close of a capability that nobody adopted leaves its owner CLOSING
  by design: only the next set-up of that endpoint, or a forced release, frees it.
  What stays in the registry's failed set after that is inert.
* A write on the local route leaves no seed (`utils.py:291`), and nothing else
  outranks a read that is older. A local cycle that sampled the register before
  the write and publishes after its acknowledgement (`coordinator_local.py:1509`,
  `1540`) puts the old value back: over the re-read of a number, a schedule time or
  a select, and over the in-place hint of a switch, whose refresh reads no
  parameters and clears the optimistic value all the same (`base_entity.py:1386-1401`,
  `900`; the docstring at `1872-1875` warns of the rebuild). The entity shows the
  value from before the write until the next parameter read, at most an hour
  later. This is what `NoSilentRevert` and `CacheHonest` name as a reason, and why
  `AckStays` promises only what was seeded.
* `NoSilentRevert` also ends where the cache moves to a third value around the
  write, which looks like news to the convergence test, and where the seed of an
  earlier cloud write is alive, which masks a newer local one. `CommandShown`
  needs commands that do not overlap: the entity has one optimistic value.
* In local mode a partial targeted read stores, for what it did not read, the
  device object's values (`coordinator_mixins.py:4426`). The cycle's read, which
  may have confirmed and retired the seed since, never reached that object: an
  older value comes back until the next complete read (`SetBack`).
* The battery mode is not read back after it succeeds: on the local route the
  cache shows it with the next parameter read.
* A cycle that outlives the drain (finding 2) may also start background tasks
  after it (`overrun` in `BackgroundTasks`).
* One failing inverter re-arms the retry floor that all share
  (`ParameterSchedule`); a complete read that began before a failed
  verification was noted removes the re-read the note queued
  (`coordinator_local.py:1526`).
* Where a save of the PV floors is cancelled, a later refused response
  publishes the floor that was not saved: `NeverFalls` and the disk's order hold
  as long as no save failed, was cancelled or met an unreadable store.
* A ledger entry pruned after 24 hours falls back to the clock of all devices,
  so that a sick sibling holds up the deletion of a ghost; the gap left by a
  cancelled or hanging cycle counts as observed.
* An import cut off between the recorder's commit of rows under a new zone and
  the save of the marker, where the marker named the zone of rows that were
  gone, leaves rows that the next import moves by a day (`Unmarked`). Rows that
  the recorder puts back behind the barrier land after a migration and are not
  healed by a re-run, as the comment at `history_import.py:240` hopes, since
  they stand at the other zone's midnight. An import whose verification failed still answers
  "imported".

## 4. Proofs

Eight modules of proofs. All theorems hold for every value of the constants
that meets the assumptions of the component's module. `PROJECT.json` lists
those that say something by themselves; each invariant and action property
that a passing run checks is stated by one of them.

None of the invariants is inductive alone. For each component an invariant
(`...Inv`) conjoins them with what they depend on; each action has a lemma that
it keeps that invariant, and the theorems follow from it.

**`EndpointOwnerProofs.tla`** proves, for any callers, capabilities and waiter
limit, `TypeCorrect`, `WireAlwaysExclusive`, `GateNeverLeaks`,
`NothingLeftOnWire`, `WaitersAlwaysExact` and `OwnerImplementsBus`. The only
assumption is `ConstantsAssumption` (names are distinct, the limit is positive).
Exclusion of wire tasks depends on who may hold the gate, which depends on what
its counters stand for, which depends on the places where tasks can be.
`GateInv` conjoins these: `Places` (each task is where its kind can be),
`Counters` (`depth` is what the one task inside owes; `holds` is one for the
wire task plus one for the interrupting shutdown), `InsideExcludes` (a caller
inside is alone with its own wire task), `InterruptExcludes` (while a shutdown
interrupts, whatever else is under way is its own) and `Closed` (a record whose
close ended has nothing on the wire). For the count of waiters `WaitInv` says
that the queue holds exactly the waiting tasks, each once. For the refinement
every action is shown to be a step of `EndpointBus` or a stutter, with
`GateInv` before and after.

**`EndpointRegistryProofs.tla`** proves `OneOwnerAlways`, `ClosingNeverForgotten`
and `UnloadAlwaysReleases` for any entries, discoveries and capabilities
(`NoOneAssumption`). `RegistryInv` adds where each capability of a running batch
stands (`BatchesWhole`), that a shutdown task has sealed its record and ends
well only with the record gone (`TasksSeal`), and that what a poll holds is
tracked until its entry unloads and then in the set that is closed, unless it
came late (`PollsTracked`), which is the case that finding 2 is about.

**`CloudAccountProofs.tla`**. For the firmware request, `AlwaysSingleFlight` and
`TransfersInvisible`, for any finite sets of entries and calls and any number of
requests (`FlightAssumption`). `FlightInv` says whom each call awaits
(`CallsAwait`), what callbacks and retirement say of a request (`RequestsEnd`),
and that the flight's own request is neither cancelled nor retired
(`CurrentRuns`). For the budget, `AlwaysOneBudget` and `AccountingHolds`, for any
finite sets of clients, chains and authentication tasks and any limit
(`BudgetAssumption`). In `BudgetInv` every counter of the code is the cardinality
of the set that it stands for: free slots and the chains that hold one add up to
the limit (`Slots`), `leases` and `references` count the chains and clients that
have one (`TenantsAre`, `RefsAre`), a lease counts its chain and the logins that
reserved it (`LeaseIs`). `LoginsHeld` (a pending login is its client's current one and
is awaited by its creator, or has reserved the lease of a chain of that client) is what
makes an admission certain for every pending login.

**`ParameterProofs.tla`**. For the seeds, `AcknowledgedStays` and
`RecheckAlwaysArmed`, for any keys, readers and windows that `WindowsAssumption`
orders. `SeedsInv` says where a value older than the promised one can be, and
what protects the cache from it there: while the register is behind, the write
is on its way and its seed young and unconfirmed (`RegisterBehind`); while the
device object of a hybrid plant is behind, the seed is unconfirmed
(`ObjectBehind`; in local mode it need not be, hence `SetBack`); an older sample
in flight, or an older copy that a cycle carries, still meets the seed before its
windows end (`SampleBehind`, `CarryBehind`). A sample of the promised value
shows that the register has it, and that a hybrid plant's object does too
(`SampleProves`).

For commands of several registers, `SuccessIsWhole`, `CacheFollowsDevice` and
`LocksAreOrdered`, for any commands and any bounded set of registers. `Locks` says that a waiting
command holds only locks below the ones it lacks and that a writing one has
them all; from it the absence of a circle follows by the least register that
anybody in the circle waits for. `Progress` (what an attempt no longer has to
write it has written) and `Sampled` (what was read has not changed since) are
statements about a command alone, which the steps of others keep because a
register under a lock is its holder's. `Accounted` and `Followed` are the two
properties extended to registers that are still locked. For the reads that publish
late: nobody holds a value of a command that the device does not have yet
(`NeverAhead`), and with a cloud connection, where one read is in flight at a
time, none is behind the cache (`ReadsBehind`). With a local coordinator the
second is false, and `CacheHonest` names the reason.

**`HistoryImportProofs.tla`** proves `HistoryAlwaysSound` (`SeriesSound`) and
`DaysAlwaysKept` (`DaysKept`) for any statistics, zones, offsets within a day,
number of days and number of faults (`HistoryAssumption`). `HistoryInv` follows
each statistic that is not excused. Without a snapshot (`Merging`) all its rows,
in the database or queued, are of one zone: the marker's, or, between the write
and the save of the marker, the import's (`OneZone`). With a snapshot (`Moving`)
each row is of the snapshot's zone or of a day that the snapshot has, what the
import is about to write covers the snapshot's days, and what is there of the
snapshot's zone is in what is written next. The sums are right zone by zone
(`SumsRight`), which is what remains true while rows of two zones stand side by
side. Around it: one import at a time has copies of the two stores, and they are
current (`LockHeld`), a statistic has one task in the queue at most, and none where its
import has waited (`TasksAwaited`), all rows are of days of the import
(`RowsPlausible`). The arithmetic of days and midnights is in lemmas of its own
(`MidnightDay`, `AtFacts`, `DayOfNear`), and every step of an import is an
instance of one lemma, `ImportKeeps`.

**`CoordinatorProofs.tla`**. `CommandAlwaysShown`,
`NeverSilentlyReverted` and `OnlyCancellationUnbinds`, the last of which says
that finding 3 is the only way a value loses its bound: the two properties are
part of what is inductive, with `Undisturbed` (a lone command's value is the
optimistic one, with no retention armed under it) and `AppliedHeld` (while a value
counts as applied the device has it, no seed speaks against it, it is shown, and the cache
moves between it and the value from before the write only, so that no tick finds
a third one to end the retention for), next to the types; only `RetentionAssumption` is used. `AlwaysHalfOpenProbed` and
`AlwaysOpensOnEvidence` for any sites and threshold (`ThresholdAssumption`): the
second needs that the streak the breaker counts lies within the real one
(`StreakCounted`). `DrainIsComplete` and `LoaderNeverLoops`
from `SetExact` (the tracked set holds a task from its creation to its done
callback) and `Drained` (the latch keeps the queue empty). `AbsenceAlwaysProven` for any
inverters, modules and windows (`RemovalAssumption`): each of the three clocks
proves what a deletion asks of it (`ClocksProve`), since it starts over with every
interruption of the observation.

**`LocalPollingProofs.tla`**. `NobodyHidden`: the attributes that two
cycles share do no harm because a cycle that begins empties them, so what counts
as completed has been completed since every running cycle began
(`CompletedIsCovered`). `LifetimeNeverFalls` and `LifetimeDiskNeverRegresses`: a shown
total lies at or above what was recorded
because the three places it passes are ordered (`Ordered`: recorded, disk,
memory), a string that is idle has nothing unsaved (`IdleSaved`), and what the
holder of the store's lock writes fits between disk and memory
(`PayloadFits`). `FramesAlwaysExact`, `IdentitiesNeverRepeat` and
`NeverLeftActive` for any capabilities, units, staging limit, refreshes and
stores (`UnitAssumption`, `BoundsAssumption`). The three hang together in
`SnapshotInv`: identities never repeat since each lies at or below the highest
cycle its unit has used, which the floor keeps when the store goes
(`IdentitiesUsed`); so the context of a late read meets its own refresh or none
(`ContextIsOwn`), and a refresh's words are its own (`ReadsOwn`); the active
attempt of a store is one whose bracket is open and whose record still holds
that store (`ActiveHeld`), so what was published no longer changes
(`FramesOver`).

**`BatteryIdentityProofs.tla`** proves `OneIdentityAlways` and
`ShownAlwaysWhileCurrent` for any batteries, serials, slots and old rows
(`BatteryAssumption`) and any order of polls, answers of the portal, losses,
removals and restarts. `IdentityInv` says of each of the three tables (the
cache, the carry-forward, what is published) that an entry without a serial is
under the key of an exposed slot and of a battery whose serial is not known, and
that one with a serial is under that serial's key (`TableSound`). `OneIdentity`
follows: a battery whose serial is known has no entry of the first kind, and one
of the second at most. A row of the transport is of one battery and without its
serial only while that is not known (`RowsSound`). What one merge does to the
tables, row after row, is the substance of it: `MergeSound` is the invariant of
that loop, which says what each table may hold after `n` rows, what has been
claimed or exposed, and what the keys of this poll cover. It is proved of all
rows from the least one that would break it (`UpTo`). The sweep and the eviction
then make it `TableSound` again (`SweptSound`). For the second theorem, what is
published is in the cache or, with a portal, in the carry-forward (`Backed`),
and no merge, sweep, eviction or choice of what to carry takes a fresh entry
from under a real serial's key (`Spared`, `CarryShown`): the positions that the
carry-forward excludes are no such keys. For placeholders they are, which is
finding 5, and why the theorem leaves them out.

Only model-checked: the liveness properties (`InterruptCompletes`,
`ShutdownServed`, `QueueServed`, `BudgetRetired`, `LetsGo`, `RecoveryCloses`,
`MigrationEnds`, `GhostRemovable`), which need ENABLED and are out of the
prover's reach. The properties of the violation runs are false of the code.

## 5. Not modelled, and the plan

The map covers a small share of the source's lines, and the share says little:
most of the 52 800 lines are tables of sensors, registers and translations,
entity descriptions, mappings of one dictionary to another, forms and
docstrings, over which no sequence of events can do harm. Modelling them would
copy them. What holds state across an `await` is what the modules are about.

Not modelled, or in part:

* **Polling and data assembly**: the carry-forward of measurements, link states
  and the re-attach of a transport. The parts that schedule parameter reads and
  that key batteries are modelled. Properties for the rest: a re-attach that
  fails is tried again; carried values age out.
* **Quick charge** on top of the optimistic state, and the staleness of
  firmware data.
* **Energy services**: each call stands alone.
* **Config flow, entity platforms, constant tables, translations, diagnostics,
  migrations of config entries**: no state that a sequence of events could
  corrupt. Discovery's capabilities are part of `EndpointRegistry`.
* Register decoding and the portal API belong to pylxpweb, which is not in
  this repository; where a module depends on it, the map says external.
