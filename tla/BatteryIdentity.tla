--------------------------- MODULE BatteryIdentity ---------------------------
(***************************************************************************)
(* Which key each battery of one inverter is shown under.  A battery has   *)
(* its serial's key, the same in every mode, or that of its slot while the *)
(* serial cannot be read.  Local reads page through the bank and the       *)
(* portal omits batteries, so what was seen once is kept, in the round-    *)
(* robin cache of the local merge and in the carry-forward of what was     *)
(* published, until six hours without a reading.  Registry rows that an    *)
(* older release keyed by position are renamed to the serials' keys, so    *)
(* that each battery keeps its history.                                    *)
(*                                                                         *)
(* The battery part of an update runs without an await and is one step.    *)
(* Measurements are left out, and with them the overlay of local ones over *)
(* the portal's.                                                           *)
(***************************************************************************)
EXTENDS Naturals, FiniteSets, SequencesExt

CONSTANTS
    Battery,        \* the batteries
    Serial,         \* what they may report for a serial
    MaxSlot,        \* bound on the slots the transport numbers
    SlotsPerPage,   \* _BATTERY_SLOTS_PER_PAGE
    ExposePolls,    \* _NO_SERIAL_EXPOSE_POLLS
    Placeholder,    \* n for the serial "Battery_ID_n", 0 for a real one
    CloudIndex,     \* the portal's number of a battery
    Reports,        \* how the batteries may report them
    OldRows,        \* the rows an older release left: whose history each positional key has
    MaxEvents,      \* bound on starts over, removals, restarts and spans of six hours
    Unread          \* no serial

ASSUME BatteryAssumption ==
    /\ MaxSlot \in Nat \ {0} /\ SlotsPerPage \in Nat \ {0} /\ ExposePolls \in Nat \ {0}
    /\ Placeholder \in [Serial -> Nat]
    /\ Serial \cap Nat = {}     \* a serial is longer than a slot's number: _MIN_SERIAL_LENGTH
    /\ CloudIndex \in [Battery -> Nat \ {0}]
    /\ \A b, c \in Battery : CloudIndex[b] = CloudIndex[c] => b = c
    /\ \E last \in Battery : \A b \in Battery : CloudIndex[b] <= CloudIndex[last]
    /\ Reports \subseteq [Battery -> Serial]
    /\ DOMAIN OldRows \subseteq Serial \cup Nat
    /\ \A k \in DOMAIN OldRows : OldRows[k] \in Battery
    /\ MaxEvents \in Nat
    /\ Unread \notin Serial

Slots == 1..MaxSlot

VARIABLES
    portal,         \* the coordinator has a portal
    serialOf,       \* the serial a battery reports, by the battery that bears it
    installed,      \* the batteries of the bank
    rows,           \* what the transport has accumulated: a row or hole for each slot
    rrCache,        \* _battery_rr_cache
    fallbackKeys,   \* _battery_fallback_keys
    noSerialPolls,  \* _battery_noserial_polls, 0 for none
    firstSeen,      \* _battery_serial_to_key: the serials in the order of their numbers
    carryForward,   \* _battery_carry_forward
    published,      \* device_data["batteries"]
    suppressed,     \* the inverter is in _battery_migration_suppressed
    migrated,       \* _battery_key_migrations_done
    registry,       \* whose history each row of the registry has
    live,           \* keys whose entities exist in this session
    events,         \* history: how many starts over, removals, restarts and spans of six hours
    relapsed        \* history: serials that were known when the transport lost them

transportVars == <<portal, serialOf, installed, rows>>
keyVars == <<rrCache, fallbackKeys, noSerialPolls, firstSeen, carryForward, published>>
registryVars == <<suppressed, migrated, registry, live>>
batteryVars == <<transportVars, keyVars, registryVars, relapsed, events>>

Empty == << >>       \* the empty function

Without(f, S) == [k \in DOMAIN f \ S |-> f[k]]

\* f with v under k; f, and g for the keys that f has not.
Put(f, k, v) == [j \in DOMAIN f \cup {k} |-> IF j = k THEN v ELSE f[j]]

Over(f, g) == [k \in DOMAIN f \cup DOMAIN g |-> IF k \in DOMAIN f THEN f[k] ELSE g[k]]

\* local_battery_key() and cloud_battery_key(): slot n's key is n, and the key of
\* a placeholder is the one of its number.
Canonical(n) == IF Placeholder[n] = 0 THEN n ELSE Placeholder[n]

\* What is shown of a battery: "aged" stands for a battery_last_seen older than
\* BATTERY_CARRY_FORWARD_MAX_AGE.
Mapping(b, n, aged) == [of |-> b, serial |-> n, aged |-> aged]

Mappings == [of : Battery, serial : Serial \cup {Unread}, aged : BOOLEAN]

Aged(f) == {k \in DOMAIN f : f[k].aged}

BatteryKeys == Serial \cup Nat

IsTable(f, S) == DOMAIN f \subseteq BatteryKeys /\ \A k \in DOMAIN f : f[k] \in S

BatteryTypeOK ==
    /\ portal \in BOOLEAN
    /\ serialOf \in Reports
    /\ installed \subseteq Battery
    /\ Len(rows) <= MaxSlot
    /\ \A s \in DOMAIN rows : rows[s] = Empty \/ rows[s] \in Mappings
    /\ \A f \in {rrCache, carryForward, published} : IsTable(f, Mappings)
    /\ fallbackKeys \subseteq Slots
    /\ noSerialPolls \in [Slots -> 0..ExposePolls]
    /\ IsInjective(firstSeen) /\ ToSet(firstSeen) \subseteq Serial
    /\ suppressed \in BOOLEAN
    /\ migrated \subseteq Nat
    /\ IsTable(registry, Battery)
    /\ live \subseteq BatteryKeys
    /\ relapsed \subseteq Serial

BatteryInit ==
    /\ portal \in BOOLEAN
    /\ serialOf \in Reports
    /\ installed = Battery
    /\ registry = OldRows
    /\ events = 0
    /\ rows = << >>
    /\ rrCache = Empty
    /\ fallbackKeys = {}
    /\ noSerialPolls = [s \in Slots |-> 0]
    /\ firstSeen = << >>
    /\ carryForward = Empty
    /\ published = Empty
    /\ suppressed = FALSE
    /\ migrated = {}
    /\ live = {}
    /\ relapsed = {}

-----------------------------------------------------------------------------
(* The registry                                                            *)

\* The renames that _register_battery_key_migrations() asks for, of the pairs
\* given: those of keys that are neither done nor in use, and of which no two
\* lead to one key.
Renames(pairs, active) ==
    LET pending == {k \in DOMAIN pairs : pairs[k] # k /\ k \notin migrated \cup active}
    IN  {k \in pending : \A j \in pending \ {k} : pairs[j] # pairs[k]}

\* The rows of the keys that are done move.  Where the serial has a row already,
\* the positional one is removed with its history.
Moved(pairs, done) ==
    LET rowed == done \cap DOMAIN registry
    IN  Over(Without(registry, rowed),
             [n \in {pairs[k] : k \in rowed} |-> registry[CHOOSE k \in rowed : pairs[k] = n]])

\* The entities of what is published come into being, with rows where there
\* are none.
Instantiate(table) ==
    /\ registry' = Over(table, [k \in DOMAIN published' |-> published'[k].of])
    /\ live' = live \cup DOMAIN published'

\* async_migrate_battery_keys(): a row whose entities are live is put off, an
\* error leaves a row for later, and a key without a row is done.
Migrate(pairs, active, barred) ==
    LET able == IF barred THEN {} ELSE Renames(pairs, active) \ (live \cap DOMAIN registry)
    IN  \E failing \in SUBSET (able \cap DOMAIN registry) :
            /\ Instantiate(Moved(pairs, able \ failing))
            /\ migrated' = migrated \cup (able \ failing)
            /\ suppressed' = barred

NoMigration == Instantiate(registry) /\ UNCHANGED <<suppressed, migrated>>

-----------------------------------------------------------------------------
(* _merge_round_robin_batteries()                                          *)

\* How a poll may serve a row: as it is, with a new reading where the old one
\* has aged, or not to be used: a ghost without values, or a serial cut short.
Readings(row) ==
    {"held", "unusable"} \cup (IF row.aged /\ row.of \in installed THEN {"fresh"} ELSE {})

Served == {s \in DOMAIN rows : rows[s] # Empty}

Polls == {p \in [Served -> {"held", "unusable", "fresh"}] :
              \A s \in Served : p[s] \in Readings(rows[s])}

Stamped(poll) ==
    [s \in DOMAIN rows |->
        IF s \in Served /\ poll[s] = "fresh" THEN [rows[s] EXCEPT !.aged = FALSE] ELSE rows[s]]

\* A row without a serial is exposed under its slot's key, but only when the
\* slot has been read so for ExposePolls polls.
MergeSerialless(m, s, row) ==
    LET polls == IF m.polls[s] = ExposePolls THEN ExposePolls ELSE m.polls[s] + 1
        counted == [m EXCEPT !.polls[s] = polls]
    IN  IF polls < ExposePolls THEN counted
        ELSE [counted EXCEPT !.cache = Put(@, s, row),
                             !.fallback = @ \cup {s},
                             !.positional = @ \cup {s}]

\* A second row of one poll with the serial's key keeps its slot's.
MergeColliding(m, s, row) ==
    [m EXCEPT !.barred = TRUE,
              !.cache = Put(@, s, row),
              !.fallback = @ \cup {s},
              !.positional = @ \cup {s}]

\* A serial takes its key, and its slot's key retires with what was read under
\* it, in both caches.
MergeNamed(m, s, row) ==
    LET key == Canonical(row.serial)
        retired == (m.fallback \cap {s}) \ {key}
    IN  [m EXCEPT !.claimed = @ \cup {key},
                  !.polls[s] = 0,
                  !.fallback = @ \ {s},
                  !.cache = Put(Without(@, retired), key, row),
                  !.carry = Without(@, retired),
                  !.firstSeen = IF row.serial \in ToSet(@) THEN @ ELSE Append(@, row.serial)]

MergeRow(m, s, row) ==
    CASE row.serial = Unread -> MergeSerialless(m, s, row)
      [] row.serial # Unread /\ Canonical(row.serial) \in m.claimed -> MergeColliding(m, s, row)
      [] OTHER -> MergeNamed(m, s, row)

\* Mutant of Unclaimed: what nobody read is left as it is.
NothingUnclaimed(m) == {}

\* The keys of slots that no row without a serial took again.
Unclaimed(m) == m.fallback \ m.positional

\* When a serial was read for the first time, the exposed slots that were not
\* read so again are taken to be the ones the transport has numbered anew, and
\* retire; their counts of polls go with the slots that were not served at all.
Swept(m) ==
    LET retired == Unclaimed(m) \ m.claimed
    IN  IF m.firstSeen = firstSeen THEN m
        ELSE [m EXCEPT !.fallback = @ \ Unclaimed(m),
                       !.cache = Without(@, retired),
                       !.carry = Without(@, retired),
                       !.polls = [s \in Slots |-> IF s \in Served THEN @[s] ELSE 0]]

MergeStart ==
    [cache |-> rrCache, carry |-> carryForward, fallback |-> fallbackKeys,
     polls |-> noSerialPolls, claimed |-> {}, positional |-> {},
     firstSeen |-> firstSeen, barred |-> suppressed]

MergeStep(poll, m, s) ==
    IF s \notin Served \/ poll[s] = "unusable" THEN m ELSE MergeRow(m, s, Stamped(poll)[s])

\* The rows are merged one after the other.
MergedRows(poll) ==
    LET upTo[s \in 0..Len(rows)] ==
            IF s = 0 THEN MergeStart ELSE MergeStep(poll, upTo[s - 1], s)
    IN  upTo[Len(rows)]

Merged(poll) == Swept(MergedRows(poll))

\* _evict_aged_rr_batteries()
Evicted(m) ==
    LET aged == Aged(m.cache)
    IN  [m EXCEPT !.cache = Without(@, aged), !.carry = Without(@, aged)]

\* The migration of the serials that m has seen for the first time, unless the
\* bank rotates: more serials than slots, or more batteries counted.
Attribute(m) ==
    LET new == {i \in DOMAIN m.firstSeen : i > Len(firstSeen)}
        active == DOMAIN m.cache \cup {s \in Slots : m.polls[s] > 0}
    IN  \E manyCounted \in BOOLEAN :
            Migrate([i \in new |-> Canonical(m.firstSeen[i])], active,
                    m.barred \/ (new # {} /\ (Len(m.firstSeen) > SlotsPerPage \/ manyCounted)))

KeepMerge(m) ==
    /\ rrCache' = m.cache
    /\ fallbackKeys' = m.fallback
    /\ noSerialPolls' = m.polls
    /\ firstSeen' = m.firstSeen

-----------------------------------------------------------------------------
(* _apply_battery_carry_forward()                                          *)

SerialsIn(f) == {f[k].serial : k \in DOMAIN f} \ {Unread}

\* What is kept of the carried keys besides the current ones: none that has
\* aged, is excluded, or has a serial shown already, and of two with one serial
\* the one that comes first, here either.
Carried(current, held, exclude) ==
    LET kept == DOMAIN held \ (DOMAIN current \cup Aged(held) \cup exclude)
        able == {k \in kept : held[k].serial \notin SerialsIn(current)}
    IN  {S \in SUBSET able :
            /\ \A j, k \in S : held[j].serial = held[k].serial => j = k \/ held[j].serial = Unread
            /\ \A k \in able \ S :
                 held[k].serial \in SerialsIn([j \in S |-> held[j]])}

\* Mutant: what is carried is not kept for the next time.
CarryForwardOnce(current, held, exclude) ==
    \E S \in Carried(current, held, exclude) :
        /\ published' = Over(current, [k \in S |-> held[k]])
        /\ carryForward' = IF current = Empty THEN Without(held, Aged(held)) ELSE current

\* The current batteries and those carried are published; without any, what
\* has aged is dropped all the same.
CarryForward(current, held, exclude) ==
    \E S \in Carried(current, held, exclude) :
        LET all == Over(current, [k \in S |-> held[k]])
        IN  /\ published' = all
            /\ carryForward' = IF all = Empty THEN Without(held, Aged(held)) ELSE all

-----------------------------------------------------------------------------
(* Updates                                                                 *)

\* A coordinator without a portal merges what the transport has, or serves the
\* cache when the transport has nothing.
LocalUpdate(poll) ==
    /\ ~portal
    /\ LET m == Merged(poll)
           kept == Evicted(m)
       IN  /\ KeepMerge(kept)
           /\ carryForward' = kept.carry
           /\ published' = kept.cache
           /\ Attribute(m)
    /\ rows' = Stamped(poll)

LocalGap ==
    LET kept == Evicted([cache |-> rrCache, carry |-> carryForward])
    IN  /\ ~portal
        /\ rrCache' = kept.cache
        /\ carryForward' = kept.carry
        /\ published' = kept.cache
        /\ NoMigration
        /\ UNCHANGED <<rows, fallbackKeys, noSerialPolls, firstSeen>>

\* With a portal that has no batteries the merge stands in; nothing is carried
\* under the position of a serial that it knows.
StandInUpdate(poll) ==
    /\ portal
    /\ LET m == Merged(poll)
           kept == Evicted(m)
       IN  /\ KeepMerge(kept)
           /\ CarryForward(kept.cache, kept.carry, DOMAIN m.firstSeen)
           /\ Attribute(m)
    /\ rows' = Stamped(poll)

\* The portal's batteries, in the order of their numbers: one whose key another
\* has taken is shown under its number's.
FirstToClaim(cloud) ==
    {b \in cloud : \A c \in cloud : Canonical(serialOf[c]) = Canonical(serialOf[b]) => CloudIndex[b] <= CloudIndex[c]}

CloudKey(cloud, b) ==
    IF b \in FirstToClaim(cloud) THEN Canonical(serialOf[b]) ELSE CloudIndex[b]

Baseline(cloud) ==
    [k \in {CloudKey(cloud, b) : b \in cloud} |->
        LET b == CHOOSE c \in cloud :
                    /\ CloudKey(cloud, c) = k
                    /\ \A d \in cloud : CloudKey(cloud, d) = k => CloudIndex[d] <= CloudIndex[c]
        IN  Mapping(b, serialOf[b], FALSE)]

\* The portal has some batteries, and the transport lays its readings over them
\* or is none; the positions of those in the answer are not carried.
CloudUpdate(cloud) ==
    /\ portal
    /\ cloud # {}
    /\ LET claims == FirstToClaim(cloud)
           numbers == {CloudIndex[b] : b \in claims}
           pairs == [n \in numbers |->
                        Canonical(serialOf[CHOOSE b \in claims : CloudIndex[b] = n])]
       IN  /\ CarryForward(Baseline(cloud), carryForward, numbers)
           /\ Migrate(pairs, DOMAIN Baseline(cloud), suppressed \/ claims # cloud)
    /\ UNCHANGED <<rows, rrCache, fallbackKeys, noSerialPolls, firstSeen>>

\* Neither has any.
HttpGap ==
    /\ portal
    /\ CarryForward(Empty, carryForward, {})
    /\ NoMigration
    /\ UNCHANGED <<rows, rrCache, fallbackKeys, noSerialPolls, firstSeen>>

MergeUpdate(poll) ==
    \/ LocalUpdate(poll)
    \/ StandInUpdate(poll)

Update ==
    /\ \/ Served # {} /\ \E poll \in Polls : MergeUpdate(poll)
       \/ LocalGap
       \/ \E cloud \in SUBSET installed : CloudUpdate(cloud)
       \/ HttpGap
    /\ UNCHANGED <<portal, serialOf, installed, relapsed, events>>

-----------------------------------------------------------------------------
(* The bank, the transport, time, and restarts                             *)

Environment == <<keyVars, registryVars>>

Event == events < MaxEvents /\ events' = events + 1

\* The transport reads a battery for the first time, and numbers its row.
Appears(b, n) ==
    /\ Len(rows) < MaxSlot
    /\ b \in installed
    /\ \A s \in Served : rows[s].of # b
    /\ n \in {Unread, serialOf[b]}
    /\ rows' = Append(rows, Mapping(b, n, FALSE))
    /\ relapsed' = IF n = Unread /\ serialOf[b] \in ToSet(firstSeen)
                   THEN relapsed \cup {serialOf[b]} ELSE relapsed
    /\ UNCHANGED <<portal, serialOf, installed, Environment, events>>

\* A serial becomes readable, in its place or at a new number, whose old one
\* stays a hole.
SerialRead(s) ==
    /\ rows[s].serial = Unread
    /\ rows[s].of \in installed
    /\ LET row == [rows[s] EXCEPT !.serial = serialOf[rows[s].of], !.aged = FALSE]
       IN  \/ rows' = [rows EXCEPT ![s] = row]
           \/ /\ Len(rows) < MaxSlot
              /\ rows' = Append([rows EXCEPT ![s] = Empty], row)
    /\ UNCHANGED <<portal, serialOf, installed, Environment, relapsed, events>>

\* The transport starts over: its rows are retired with an empty bank, or the
\* transport is replaced.
StartsOver ==
    /\ Event
    /\ rows # << >>
    /\ rows' = << >>
    /\ UNCHANGED <<portal, serialOf, installed, Environment, relapsed>>

Removed(b) ==
    /\ Event
    /\ b \in installed
    /\ installed' = installed \ {b}
    /\ UNCHANGED <<portal, serialOf, rows, Environment, relapsed>>

AllAged(f) == [k \in DOMAIN f |-> [f[k] EXCEPT !.aged = TRUE]]

\* Six hours pass, and what was read before them has aged.
SixHours ==
    /\ Event
    /\ rows' = [s \in DOMAIN rows |-> IF s \in Served THEN [rows[s] EXCEPT !.aged = TRUE] ELSE Empty]
    /\ rrCache' = AllAged(rrCache)
    /\ carryForward' = AllAged(carryForward)
    /\ published' = AllAged(published)
    /\ UNCHANGED <<portal, serialOf, installed, fallbackKeys, noSerialPolls, firstSeen,
                   registryVars, relapsed>>

\* Home Assistant restarts, or the entry is set up anew, in another mode maybe:
\* only the registry is kept.
NextSession ==
    /\ Event
    /\ portal' \in BOOLEAN
    /\ rows' = << >>
    /\ rrCache' = Empty
    /\ fallbackKeys' = {}
    /\ noSerialPolls' = [s \in Slots |-> 0]
    /\ firstSeen' = << >>
    /\ carryForward' = Empty
    /\ published' = Empty
    /\ suppressed' = FALSE
    /\ migrated' = {}
    /\ live' = {}
    /\ relapsed' = {}
    /\ UNCHANGED <<serialOf, installed, registry>>

BatteryNext ==
    \/ Update
    \/ \E b \in Battery, n \in Serial \cup {Unread} : Appears(b, n)
    \/ \E s \in Served : SerialRead(s)
    \/ StartsOver
    \/ \E b \in Battery : Removed(b)
    \/ SixHours
    \/ NextSession

BatterySpec == BatteryInit /\ [][BatteryNext]_batteryVars

-----------------------------------------------------------------------------
(* Properties.                                                             *)

\* No two batteries come to one key.
Honest == \A b, c \in Battery : Canonical(serialOf[b]) = Canonical(serialOf[c]) => b = c

ShownAs(b) == {k \in DOMAIN published : published[k].of = b}

\* What is shown of the battery was read within six hours, with its serial.
Current(b) == \E k \in ShownAs(b) : ~published[k].aged /\ published[k].serial # Unread

\* Its row at the transport, or the copy of it in the cache, has aged.
AgedLocally(b) ==
    \/ \E s \in Served : rows[s].of = b /\ rows[s].aged
    \/ \E k \in Aged(rrCache) : rrCache[k].of = b

\* A battery that has been shown stays shown, under one key or another, whatever
\* the portal omits, the transport loses or the slots are numbered, until six
\* hours pass without a reading of it, and then goes with the next update.  Left
\* out are the batteries that AlwaysCarried is about: those with a placeholder,
\* and those whose local copy has aged, which the merge that stands in for a
\* portal without batteries drops along with the portal's.
ShownWhileCurrent ==
    [][/\ events' = events =>
            \A b \in Battery :
                Honest /\ Placeholder[serialOf[b]] = 0 /\ Current(b) /\ ~AgedLocally(b)
                    => ShownAs(b)' # {}
       /\ Aged(published') = {} \/ ~Update]_batteryVars

\* A battery that has been published is carried forward instead of being dropped.
AlwaysCarried ==
    [][events' = events =>
            \A b \in Battery : Honest /\ Current(b) => ShownAs(b)' # {}]_batteryVars

\* The tables are sound, and no battery whose serial the merge has read is shown
\* under two keys: the slot's key retires when the serial is read, wherever the
\* row is by then, and is not carried back.  Left out are the serials that were
\* known when the transport lost them: they are not new when they return, and
\* nothing sweeps the slot's key.
OneIdentity ==
    /\ BatteryTypeOK
    /\ Honest => \A j, k \in DOMAIN published :
                    LET b == published[j].of
                    IN  published[k].of = b /\ serialOf[b] \in ToSet(firstSeen) \ relapsed
                            => j = k

\* The row under a battery's key has that battery's history: no rename gives one
\* battery the history of another.
HistoryFollows ==
    Honest => \A b \in Battery :
        LET key == Canonical(serialOf[b])
        IN  key \in DOMAIN registry => registry[key] = b

=============================================================================
