----------------------------- MODULE PVLifetime -----------------------------
(***************************************************************************)
(* The lifetime energy of PV strings read from the portal's charts.  The   *)
(* portal may answer with years missing or with energies that lag, and a   *)
(* total that falls corrupts the recorder's statistics, so each accepted   *)
(* total becomes a floor for the next, and floors and year counts are      *)
(* saved before the value is published, so that they outlive a restart.    *)
(* The inverters of one entry are processed side by side and share the     *)
(* store.  A string stands for all the strings of an inverter that miss    *)
(* their local value.                                                      *)
(***************************************************************************)
EXTENDS Naturals, FiniteSets

CONSTANTS
    Strings,        \* (serial, string number), one per inverter
    MaxTotal,       \* bound on the energy reported
    MaxYears,       \* bound on the years reported
    Unknown         \* no total

ASSUME LifetimeAssumption ==
    /\ MaxTotal \in Nat /\ MaxYears \in Nat \ {0}
    /\ Unknown \notin Nat

VARIABLES
    floors,         \* _pv_string_lifetime_floors
    yearCounts,     \* _pv_string_lifetime_year_counts
    savedFloors,    \* what the store has on disk ...
    savedCounts,    \* ... for both
    fetching,       \* where the processing of each string is
    payload,        \* what the holder of the store's lock is writing
    shown,          \* the sensor in coordinator.data
    recorded,       \* history: the highest value the sensor has had, in the recorder
    forgotten       \* history: a save has failed or been cancelled, or the store was
                    \* unreadable

lifetimeVars == <<floors, yearCounts, savedFloors, savedCounts, fetching, payload, shown, recorded,
                  forgotten>>

Totals == 0..MaxTotal

Floors == [Strings -> Totals \cup {Unknown}]

Counts == [Strings -> 0..MaxYears]

\* a <= b, where nothing is below everything.
NotAbove(a, b) == a = Unknown \/ (b # Unknown /\ a <= b)

NoPayload == [floors |-> [s \in Strings |-> Unknown], counts |-> [s \in Strings |-> 0]]

Payloads == [floors : Floors, counts : Counts]

LifetimeTypeOK ==
    /\ {floors, savedFloors, shown, recorded} \subseteq Floors
    /\ {yearCounts, savedCounts} \subseteq Counts
    /\ fetching \in [Strings -> {"idle", "accepted", "saving"}]
    /\ payload \in [Strings -> Payloads]
    /\ forgotten \in BOOLEAN

LifetimeInit ==
    /\ floors = [s \in Strings |-> Unknown]
    /\ yearCounts = [s \in Strings |-> 0]
    /\ savedFloors = floors
    /\ savedCounts = yearCounts
    /\ fetching = [s \in Strings |-> "idle"]
    /\ payload = [s \in Strings |-> NoPayload]
    /\ shown = [s \in Strings |-> Unknown]
    /\ recorded = [s \in Strings |-> Unknown]
    /\ forgotten = FALSE

-----------------------------------------------------------------------------
(* A response                                                              *)

Publish(s, value) ==
    /\ shown' = [shown EXCEPT ![s] = IF value = Unknown THEN @ ELSE value]
    /\ recorded' = [recorded EXCEPT ![s] = IF NotAbove(@, value) THEN value ELSE @]

\* The checks of _accept_cloud_pv_string_lifetime() and the floor: no fewer
\* years than were accepted before, no lower total.
Plausible(s, total, years) ==
    years # 0 /\ years >= yearCounts[s] /\ NotAbove(floors[s], total)

\* A response arrives: so many years, 0 when they do not run without a gap up
\* to the current one, that add up to a total.  It may have lost years or
\* energies that an earlier one had.  An accepted total is saved before it is
\* published; a response that is refused publishes the floor.
Response(s, total, years) ==
    /\ fetching[s] = "idle"
    /\ IF Plausible(s, total, years)
       THEN /\ floors' = [floors EXCEPT ![s] = total]
            /\ yearCounts' = [yearCounts EXCEPT ![s] = years]
            /\ fetching' = [fetching EXCEPT ![s] = "accepted"]
            /\ UNCHANGED <<shown, recorded>>
       ELSE /\ Publish(s, floors[s])
            /\ UNCHANGED <<floors, yearCounts, fetching>>
    /\ UNCHANGED <<savedFloors, savedCounts, payload, forgotten>>

-----------------------------------------------------------------------------
(* _async_save_pv_string_lifetime_state()                                  *)

\* Mutant of StoreFree: saves run side by side.
NoStoreLock == TRUE

\* _pv_string_lifetime_store_lock is free.
StoreFree == {s \in Strings : fetching[s] = "saving"} = {}

\* With the lock held the payload is put together.
SaveBegins(s) ==
    /\ fetching[s] = "accepted"
    /\ StoreFree
    /\ payload' = [payload EXCEPT ![s] = [floors |-> floors, counts |-> yearCounts]]
    /\ fetching' = [fetching EXCEPT ![s] = "saving"]
    /\ UNCHANGED <<floors, yearCounts, savedFloors, savedCounts, shown, recorded,
                   forgotten>>

OnDisk(s) == savedFloors' = payload[s].floors /\ savedCounts' = payload[s].counts

Over(s) ==
    /\ fetching' = [fetching EXCEPT ![s] = "idle"]
    /\ payload' = [payload EXCEPT ![s] = NoPayload]

Saved(s) ==
    /\ fetching[s] = "saving"
    /\ OnDisk(s)
    /\ Publish(s, floors[s])
    /\ Over(s)
    /\ UNCHANGED <<floors, yearCounts, forgotten>>

\* A failed save is only logged.
SaveFails(s) ==
    /\ fetching[s] = "saving"
    /\ Publish(s, floors[s])
    /\ Over(s)
    /\ forgotten' = TRUE
    /\ UNCHANGED <<floors, yearCounts, savedFloors, savedCounts>>

\* The cycle is cancelled while it saves or waits to: the floor stays in
\* memory, where a refused response publishes it, and may not be on disk.
SaveCancelled(s) ==
    /\ fetching[s] \in {"accepted", "saving"}
    /\ \/ /\ UNCHANGED <<savedFloors, savedCounts>>
          /\ forgotten' = TRUE
       \/ /\ fetching[s] = "saving"
          /\ OnDisk(s)
          /\ UNCHANGED forgotten
    /\ Over(s)
    /\ UNCHANGED <<floors, yearCounts, shown, recorded>>

\* Home Assistant dies, during a save or not, and starts again; the load, on
\* the setup path, may find a store it cannot read and starts cold.
Restart(readable) ==
    /\ \/ UNCHANGED <<savedFloors, savedCounts>>
       \/ \E s \in Strings : fetching[s] = "saving" /\ OnDisk(s)
    /\ floors' = IF readable THEN savedFloors' ELSE [s \in Strings |-> Unknown]
    /\ yearCounts' = IF readable THEN savedCounts' ELSE [s \in Strings |-> 0]
    /\ fetching' = [s \in Strings |-> "idle"]
    /\ payload' = [s \in Strings |-> NoPayload]
    /\ shown' = [s \in Strings |-> Unknown]
    /\ forgotten' = (forgotten \/ ~readable)
    /\ UNCHANGED recorded

LifetimeNext ==
    \/ \E s \in Strings, total \in Totals, years \in 0..MaxYears : Response(s, total, years)
    \/ \E s \in Strings : SaveBegins(s)
    \/ \E s \in Strings : Saved(s)
    \/ \E s \in Strings : SaveFails(s)
    \/ \E s \in Strings : SaveCancelled(s)
    \/ \E readable \in BOOLEAN : Restart(readable)

LifetimeSpec == LifetimeInit /\ [][LifetimeNext]_lifetimeVars

-----------------------------------------------------------------------------
(* Properties                                                              *)

\* What the sensor shows is never below what the recorder has already seen of
\* it, restarts in the middle of a save included, as long as no save failed or
\* was cancelled and the store could be read.
NeverFalls ==
    ~forgotten => \A s \in Strings : shown[s] # Unknown => NotAbove(recorded[s], shown[s])

\* Inverters that save side by side never put an older floor or year count
\* back on disk, under the same premise.
NoRegress ==
    \A s \in Strings : /\ NotAbove(savedFloors[s], savedFloors'[s])
                       /\ savedCounts[s] <= savedCounts'[s]

DiskNeverRegresses == [][~forgotten' => NoRegress]_lifetimeVars

=============================================================================
