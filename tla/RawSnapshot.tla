----------------------------- MODULE RawSnapshot -----------------------------
(***************************************************************************)
(* The raw register snapshots of one endpoint owner (snapshot_refresh,     *)
(* observe, _finish_snapshot_refresh, _remove_snapshot_state and           *)
(* set_snapshot_coverage of endpoint_bus.py): a refresh brackets the reads *)
(* of one device, an observer of the raw transport stages what they read,  *)
(* and the latest complete refresh is kept per bus unit.  A read inherits  *)
(* the context of the refresh it was made in, and runs in a wire task that *)
(* outlives its caller; so a read may begin, and the observer be called,   *)
(* after the refresh is over or the unit's store was replaced.  The gate   *)
(* lets one read of the endpoint on the wire at a time (EndpointOwner).    *)
(*                                                                         *)
(* Refreshes and stores are numbered in the order they are made, which the *)
(* code cannot see: it tells refreshes apart by the unit's poll cycle.     *)
(* The words are abstracted to the read they come from.  The owner-wide    *)
(* generation, the health counters and the observer's attachment, which    *)
(* cannot fail with the pinned transport library, are left out.            *)
(***************************************************************************)
EXTENDS Naturals, FiniteSetsExt

CONSTANTS
    Token, Unit,    \* capabilities and bus units of the endpoint
    UnitOf,         \* the unit of each capability
    MaxInvocations, \* MAX_SNAPSHOT_STAGED_INVOCATIONS
    MaxRefresh,     \* bound: refreshes
    MaxStore        \* bound: stores

ASSUME UnitAssumption == UnitOf \in [Token -> Unit]
ASSUME BoundsAssumption == {MaxInvocations, MaxRefresh, MaxStore} \subseteq Nat \ {0}

Refresh == 1..MaxRefresh
Store == 1..MaxStore
Index == 1..(MaxInvocations + 1)
None == 0

VARIABLES
    rec,            \* each capability: "new", "open" or "closing"
    enabled,        \* snapshot_enabled
    holds,          \* snapshot_state: the store each record holds
    stores,         \* _snapshot_states: the store of each unit
    made,           \* stores made so far
    cycle, active,  \* each store: poll_cycle and active_attempt
    frame,          \* each store: the refresh its latest complete frame is of
    floor,          \* _snapshot_poll_cycle_floor
    begun, over,    \* refreshes begun so far; those whose bracket has closed
    who, cover, identity,   \* each refresh: capability, store, poll cycle
    invoked,        \* each attempt: how many reads it counts,
    returned,       \* those that completed,
    observed,       \* those that contributed,
    words,          \* the reads that the contributions come from
    spoiled,        \* attempts aborted, overflowed, invalid or miscounted
    read, joined    \* each read of a refresh: its phase, and the attempt and
                    \* number it was counted under

recordVars == <<rec, enabled, holds>>
storeVars == <<stores, made, cycle, active, frame, floor>>
refreshVars == <<begun, over, who, cover, identity>>
attemptVars == <<invoked, returned, observed, words, spoiled>>
readVars == <<read, joined>>
vars == <<recordVars, storeVars, refreshVars, attemptVars, readVars>>

TypeOK ==
    /\ rec \in [Token -> {"new", "open", "closing"}]
    /\ enabled \in [Token -> BOOLEAN]
    /\ holds \in [Token -> Store \cup {None}]
    /\ stores \in [Unit -> Store \cup {None}]
    /\ made \in 0..MaxStore /\ begun \in 0..MaxRefresh
    /\ cycle \in [Store -> Nat] /\ floor \in Nat
    /\ active \in [Store -> Refresh \cup {None}]
    /\ frame \in [Store -> Refresh \cup {None}]
    /\ over \subseteq Refresh /\ spoiled \subseteq Refresh
    /\ who \in [Refresh -> Token \cup {None}]
    /\ cover \in [Refresh -> Store \cup {None}]
    /\ identity \in [Refresh -> Nat]
    /\ invoked \in [Refresh -> 0..MaxInvocations]
    /\ returned \in [Refresh -> SUBSET Index]
    /\ observed \in [Refresh -> SUBSET Index]
    /\ words \in [Refresh -> SUBSET (Refresh \X Index)]
    /\ read \in [Refresh -> [Index -> {"none", "wire", "noted", "returned",
                                       "failed", "extra"}]]
    /\ joined \in [Refresh -> [Index -> (Refresh \cup {None}) \X (0..MaxInvocations)]]
    \* A record and its unit agree on the store; a store without a holder,
    \* which no refresh could reach, is dropped.
    /\ \A t \in Token : /\ holds[t] # None => holds[t] = stores[UnitOf[t]]
                        /\ enabled[t] /\ rec[t] = "open" => holds[t] # None
    /\ \A u \in Unit : stores[u] # None => \E t \in Token : holds[t] = stores[u]

Init ==
    /\ rec = [t \in Token |-> "new"]
    /\ enabled = [t \in Token |-> FALSE]
    /\ holds = [t \in Token |-> None]
    /\ stores = [u \in Unit |-> None]
    /\ made = 0 /\ floor = 0
    /\ cycle = [s \in Store |-> 0]
    /\ active = [s \in Store |-> None]
    /\ frame = [s \in Store |-> None]
    /\ begun = 0 /\ over = {}
    /\ who = [a \in Refresh |-> None]
    /\ cover = [a \in Refresh |-> None]
    /\ identity = [a \in Refresh |-> 0]
    /\ invoked = [a \in Refresh |-> 0]
    /\ returned = [a \in Refresh |-> {}]
    /\ observed = returned /\ words = returned
    /\ spoiled = {}
    /\ read = [a \in Refresh |-> [k \in Index |-> "none"]]
    /\ joined = [a \in Refresh |-> [k \in Index |-> <<None, 0>>]]

-----------------------------------------------------------------------------
(* Records and coverage.                                                   *)

\* _snapshot_state_for: the unit's store, made if it has none; its poll
\* cycle goes on from the highest retired one.
Hold(t) ==
    LET u == UnitOf[t]
    IN  IF stores[u] # None
          THEN /\ holds' = [holds EXCEPT ![t] = stores[u]]
               /\ UNCHANGED <<stores, made, cycle>>
          ELSE /\ made < MaxStore
               /\ made' = made + 1
               /\ stores' = [stores EXCEPT ![u] = made + 1]
               /\ cycle' = [cycle EXCEPT ![made + 1] = floor]
               /\ holds' = [holds EXCEPT ![t] = made + 1]

\* Mutant: the retired store's poll cycle is not remembered.
FloorKept(s) == floor

\* Where the cycles of a replacement of store s begin.
FloorAfter(s) == Max({floor, cycle[s]})

\* No record but t holds store s.
Dropped(t, s) == \A v \in Token \ {t} : holds[v] # s

\* _remove_snapshot_state: the attempt under way is dropped, whichever
\* record it belongs to; a store that nobody else holds is cleared.
LetGo(t) ==
    LET s == holds[t]
    IN  /\ holds' = [holds EXCEPT ![t] = None]
        /\ IF s = None
             THEN UNCHANGED <<active, frame, stores, floor>>
             ELSE /\ active' = [active EXCEPT ![s] = None]
                  /\ IF Dropped(t, s)
                       THEN /\ frame' = [frame EXCEPT ![s] = None]
                            /\ stores' = [stores EXCEPT ![UnitOf[t]] = None]
                            /\ floor' = FloorAfter(s)
                       ELSE UNCHANGED <<frame, stores, floor>>
        /\ UNCHANGED <<made, cycle>>

\* add(), with or without snapshots; an owner all of whose records are
\* closing takes no more.
Add(t, on) ==
    /\ rec[t] = "new"
    /\ (\A v \in Token : rec[v] = "new") \/ (\E v \in Token : rec[v] = "open")
    /\ rec' = [rec EXCEPT ![t] = "open"]
    /\ enabled' = [enabled EXCEPT ![t] = on]
    /\ IF on THEN Hold(t) /\ UNCHANGED <<active, frame, floor>>
             ELSE UNCHANGED <<holds, storeVars>>
    /\ UNCHANGED <<refreshVars, attemptVars, readVars>>

CoverageGained(t) ==
    /\ rec[t] = "open"
    /\ ~(enabled[t] /\ holds[t] # None)
    /\ Hold(t)
    /\ enabled' = [enabled EXCEPT ![t] = TRUE]
    /\ UNCHANGED <<rec, active, frame, floor, refreshVars, attemptVars, readVars>>

CoverageLost(t) ==
    /\ rec[t] = "open"
    /\ enabled' = [enabled EXCEPT ![t] = FALSE]
    /\ LetGo(t)
    /\ UNCHANGED <<rec, refreshVars, attemptVars, readVars>>

\* begin_shutdown; the record is popped later, holding nothing.
Close(t) ==
    /\ rec[t] = "open"
    /\ rec' = [rec EXCEPT ![t] = "closing"]
    /\ LetGo(t)
    /\ UNCHANGED <<enabled, refreshVars, attemptVars, readVars>>

-----------------------------------------------------------------------------
(* A refresh.                                                              *)

ActiveOf(t) == IF holds[t] = None THEN None ELSE active[holds[t]]

\* One coordinator polls a capability, a refresh at a time.  The unit may be
\* refreshed through another one: that is refused while one is active.
Begin(t) ==
    LET a == begun + 1
        s == holds[t]
    IN  /\ \A b \in 1..begun : who[b] = t => b \in over
        /\ rec[t] = "open" /\ enabled[t] /\ s # None
        /\ active[s] = None
        /\ begun < MaxRefresh
        /\ begun' = a
        /\ cycle' = [cycle EXCEPT ![s] = @ + 1]
        /\ active' = [active EXCEPT ![s] = a]
        /\ who' = [who EXCEPT ![a] = t]
        /\ cover' = [cover EXCEPT ![a] = s]
        /\ identity' = [identity EXCEPT ![a] = cycle[s] + 1]
        /\ UNCHANGED <<recordVars, stores, made, frame, floor, over, attemptVars, readVars>>

\* Mutant: any attempt of the record will do.
AnyAttempt(a, b) == b # None

\* The context of refresh a names the active attempt b of its record.
SameContext(a, b) == b # None /\ who[b] = who[a] /\ identity[b] = identity[a]

\* invoke() of the k-th read made in the context of refresh a, by a task of
\* its own that may come after the refresh.  It is counted under the active
\* attempt; beyond the limit the attempt overflows instead.  A read that
\* finds another context stages nothing, and is left out.
Read(a, k) ==
    LET t == who[a]
        b == ActiveOf(t)
    IN  /\ a <= begun
        /\ rec[t] = "open"
        /\ \A c \in Refresh, j \in Index : read[c][j] # "wire"
        /\ read[a][k] = "none" /\ \A j \in 1..(k - 1) : read[a][j] # "none"
        /\ SameContext(a, b)
        /\ IF invoked[b] < MaxInvocations
             THEN /\ invoked' = [invoked EXCEPT ![b] = @ + 1]
                  /\ joined' = [joined EXCEPT ![a][k] = <<b, invoked[b] + 1>>]
                  /\ read' = [read EXCEPT ![a][k] = "wire"]
                  /\ UNCHANGED spoiled
             ELSE /\ spoiled' = spoiled \cup {b}
                  /\ read' = [read EXCEPT ![a][k] = "extra"]
                  /\ UNCHANGED <<invoked, joined>>
        /\ UNCHANGED <<recordVars, storeVars, refreshVars, returned, observed, words>>

\* The read succeeds on the wire and calls observe(), whoever still awaits it.
Observe(a, k) ==
    LET b == ActiveOf(who[a])
        n == joined[a][k][2]
    IN  /\ read[a][k] = "wire"
        /\ read' = [read EXCEPT ![a][k] = "noted"]
        /\ IF SameContext(a, b) /\ n \in 1..invoked[b]
             THEN /\ observed' = [observed EXCEPT ![b] = @ \cup {n}]
                  /\ words' = [words EXCEPT ![b] = @ \cup {<<a, k>>}]
             ELSE UNCHANGED <<observed, words>>
        /\ UNCHANGED <<recordVars, storeVars, refreshVars, invoked, returned, spoiled, joined>>

\* It fails on the wire.
Fails(a, k) ==
    /\ read[a][k] = "wire"
    /\ read' = [read EXCEPT ![a][k] = "failed"]
    /\ UNCHANGED <<recordVars, storeVars, refreshVars, attemptVars, joined>>

\* The read completes for its caller, with an observation or, swallowing a
\* failure, without.  One whose caller was cancelled never does; nor does it
\* matter any more once the attempt is over.
Return(a, k) ==
    LET b == joined[a][k][1]
    IN  /\ read[a][k] \in {"wire", "noted"}
        /\ b \notin over
        /\ read' = [read EXCEPT ![a][k] = "returned"]
        /\ returned' = [returned EXCEPT ![b] = @ \cup {joined[a][k][2]}]
        /\ UNCHANGED <<recordVars, storeVars, refreshVars, invoked, observed, words,
                       spoiled, joined>>

\* The attempt is aborted, its body is going to raise, or an observation was
\* invalid, too large or lost by the transport.
Spoil(a) ==
    /\ a \in 1..begun \ (over \cup spoiled)
    /\ ActiveOf(who[a]) = a
    /\ spoiled' = spoiled \cup {a}
    /\ UNCHANGED <<recordVars, storeVars, refreshVars, invoked, returned, observed, words,
                   readVars>>

\* The conditions for publication.
Complete(a) ==
    /\ invoked[a] > 0
    /\ returned[a] = 1..invoked[a]
    /\ observed[a] = 1..invoked[a]
    /\ a \notin spoiled

\* Mutant: an incomplete refresh returns before it has cleared the attempt.
FinishComplete(a, s) ==
    IF active[s] = a /\ Complete(a)
      THEN /\ active' = [active EXCEPT ![s] = None]
           /\ frame' = [frame EXCEPT ![s] = a]
      ELSE UNCHANGED <<active, frame>>

\* _finish_snapshot_refresh, the record holding store s.
Finish(a, s) ==
    IF active[s] = a
      THEN /\ active' = [active EXCEPT ![s] = None]
           /\ frame' = IF Complete(a) THEN [frame EXCEPT ![s] = a] ELSE frame
      ELSE UNCHANGED <<active, frame>>

\* The bracket closes, however its body ended.
End(a) ==
    /\ a <= begun /\ a \notin over
    /\ over' = over \cup {a}
    /\ IF holds[who[a]] = None THEN UNCHANGED <<active, frame>>
                               ELSE Finish(a, holds[who[a]])
    /\ UNCHANGED <<recordVars, stores, made, cycle, floor, begun, who, cover, identity,
                   attemptVars, readVars>>

Next ==
    \/ \E t \in Token :
        \/ \E on \in BOOLEAN : Add(t, on)
        \/ CoverageGained(t)
        \/ CoverageLost(t)
        \/ Close(t)
        \/ Begin(t)
    \/ \E a \in Refresh :
        \/ \E k \in Index : Read(a, k) \/ Observe(a, k) \/ Fails(a, k) \/ Return(a, k)
        \/ Spoil(a)
        \/ End(a)

Spec == Init /\ [][Next]_vars

-----------------------------------------------------------------------------
(* Properties.                                                             *)

\* A frame is all of one refresh and nothing else: every read the refresh
\* made contributed, no word comes from another refresh -- not from a late
\* task of a cancelled one -- and the refresh ran on this very store,
\* not on one that coverage loss dropped in between.
FrameExact ==
    \A s \in Store : frame[s] # None =>
        LET a == frame[s]
        IN  /\ cover[a] = s
            /\ words[a] = {<<a, k>> : k \in 1..invoked[a]}
            /\ \A k \in Index : read[a][k] # "extra"

\* Two refreshes of a unit never have the same identity within the owner's
\* lifetime, however often the unit's store is dropped and replaced: the
\* context a late callback carries stays unambiguous.
IdentityUnique ==
    \A a, b \in 1..begun :
        UnitOf[who[a]] = UnitOf[who[b]] /\ identity[a] = identity[b] => a = b

\* No refresh leaves the unit behind "already active": the active attempt of
\* a store is one whose bracket is still open.
NeverStuck == \A s \in Store : active[s] # None => active[s] \notin over

=============================================================================
