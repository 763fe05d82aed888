------------------------ MODULE BatteryIdentityProofs ------------------------
(***************************************************************************)
(* Proofs about BatteryIdentity, for any bank, any slots and any order of  *)
(* updates, restarts and losses: no battery whose serial the merge has     *)
(* read is shown under two keys, and none that is current vanishes.        *)
(***************************************************************************)
EXTENDS BatteryIdentity, WellFoundedInduction, TLAPS

-----------------------------------------------------------------------------
(* The invariant                                                           *)

\* A serial that has been read and not been lost by the transport since.
Known(b, seen) == serialOf[b] \in ToSet(seen) \ relapsed

\* An entry without a serial is under the key of an exposed slot, and of a
\* battery whose serial is not known; one with a serial is under its key.
EntrySound(k, e, fallback, seen) ==
    IF e.serial = Unread THEN k \in fallback /\ ~Known(e.of, seen)
    ELSE e.serial = serialOf[e.of] /\ k = Canonical(e.serial)

\* Every entry of a table is sound.
TableSound(f) == \A k \in DOMAIN f : EntrySound(k, f[k], fallbackKeys, firstSeen)

\* A battery has one row at most, and with its own serial.
RowsSound ==
    /\ \A s, t \in Served : rows[s].of = rows[t].of => s = t
    /\ \A s \in Served : rows[s].serial \in {Unread, serialOf[rows[s].of]}
    /\ \A s \in Served : rows[s].serial = Unread => ~Known(rows[s].of, firstSeen)

\* The rows and the serials seen are lists of what they should be.
ListsOK == rows \in Seq(Mappings \cup {Empty}) /\ firstSeen \in Seq(Serial)

\* Only a coordinator with a portal carries anything.
PortalCarries == ~portal => DOMAIN carryForward = {}

\* The rows, the three tables and what a portal has to do with them.
IdentitySound ==
    /\ RowsSound
    /\ TableSound(rrCache) /\ TableSound(carryForward) /\ TableSound(published)
    /\ PortalCarries

\* The invariant: the types, and what holds of batteries that are told apart.
IdentityInv == BatteryTypeOK /\ ListsOK /\ (Honest => IdentitySound)

-----------------------------------------------------------------------------
(* Tables and sequences                                                    *)

\* A set of numbers, when there is any, has a least one.
LEMMA LeastOf ==
    ASSUME NEW S \in SUBSET Nat, S # {}
    PROVE  \E m \in S : \A k \in S : m <= k
<1> DEFINE R == {pair \in Nat \X Nat : pair[1] < pair[2]}
<1>1. IsWellFoundedOn(R, Nat)
    BY NatLessThanWellFounded DEF OpToRel
<1>2. PICK x \in S : \A y \in S : ~(<<y, x>> \in R)
    <2> HIDE DEF R
    <2> QED BY <1>1, WFMin
<1>3. ASSUME NEW y \in S
      PROVE  x <= y
    <2>1. x \in Nat /\ y \in Nat
        OBVIOUS
    <2>2. ~(y < x)
        BY <1>2, <2>1
    <2> QED BY <2>1, <2>2
<1> QED
    BY <1>3

\* What holds of 0, and of n + 1 when it holds of n, holds of every number up
\* to N.
LEMMA UpTo ==
    ASSUME NEW N \in Nat, NEW S \in SUBSET Nat, 0 \in S,
           \A n \in S : n < N => n + 1 \in S
    PROVE  N \in S
<1> SUFFICES ASSUME N \notin S
             PROVE  FALSE
    OBVIOUS
<1> DEFINE T == {n \in Nat : n <= N /\ n \notin S}
<1>1. PICK x \in T : \A y \in T : x <= y
    <2>1. T \in SUBSET Nat /\ T # {}
        OBVIOUS
    <2> HIDE DEF T
    <2> QED BY <2>1, LeastOf
<1>2. x \in Nat /\ x <= N /\ x \notin S /\ x # 0
    OBVIOUS
<1>3. x - 1 \in Nat /\ x - 1 < N /\ (x - 1) + 1 = x /\ ~(x <= x - 1)
    BY <1>2
<1>4. x - 1 \in S
    BY <1>1, <1>3
<1> QED
    BY <1>2, <1>3, <1>4

\* A table keeps its type when entries are put in or taken out.
LEMMA TableEdits ==
    ASSUME NEW f, NEW g, NEW S, IsTable(f, S), IsTable(g, S), NEW k \in BatteryKeys,
           NEW v \in S, NEW K
    PROVE  IsTable(Put(f, k, v), S) /\ IsTable(Without(f, K), S) /\ IsTable(Over(f, g), S)
BY DEF IsTable, Put, Without, Over

\* A serial that is appended to those before, where it is not among them, leaves
\* each of them once.
LEMMA AppendSeen ==
    ASSUME NEW seen \in Seq(Serial), IsInjective(seen), NEW n \in Serial, n \notin ToSet(seen)
    PROVE  /\ Append(seen, n) \in Seq(Serial)
           /\ IsInjective(Append(seen, n))
           /\ ToSet(Append(seen, n)) = ToSet(seen) \cup {n}
<1>1. /\ Append(seen, n) \in Seq(Serial)
      /\ Len(Append(seen, n)) = Len(seen) + 1
      /\ Append(seen, n)[Len(seen) + 1] = n
      /\ \A i \in 1..Len(seen) : Append(seen, n)[i] = seen[i]
    OBVIOUS
<1>2. /\ DOMAIN seen = 1..Len(seen) /\ Len(seen) \in Nat
      /\ DOMAIN Append(seen, n) = 1..(Len(seen) + 1)
    BY <1>1
<1>3. \A i \in DOMAIN seen : seen[i] # n
    BY DEF ToSet
<1> DEFINE longer == Append(seen, n)
<1> HIDE DEF longer
<1>4. /\ DOMAIN longer = DOMAIN seen \cup {Len(seen) + 1}
      /\ longer[Len(seen) + 1] = n
      /\ \A i \in DOMAIN seen : longer[i] = seen[i]
    BY <1>1, <1>2 DEF longer
<1>5. IsInjective(longer)
    BY <1>3, <1>4 DEF IsInjective
<1>6. ToSet(longer) = ToSet(seen) \cup {n}
    BY <1>4 DEF ToSet
<1> QED
    BY <1>1, <1>5, <1>6 DEF longer

-----------------------------------------------------------------------------
(* The merge: one row after another                                        *)

\* The parts of the state of a merge.
Fields == {"cache", "carry", "fallback", "polls", "claimed", "positional", "firstSeen", "barred"}

\* Their types.
MergeTypeOK(m) ==
    /\ DOMAIN m = Fields
    /\ IsTable(m.cache, Mappings) /\ IsTable(m.carry, Mappings)
    /\ m.fallback \subseteq Slots
    /\ m.positional \subseteq Slots
    /\ m.polls \in [Slots -> 0..ExposePolls]
    /\ m.firstSeen \in Seq(Serial) /\ IsInjective(m.firstSeen)
    /\ m.barred \in BOOLEAN

\* The states of the merge follow each other, one for each row.
LEMMA MergeChain ==
    ASSUME NEW poll, Len(rows) \in Nat
    PROVE  \E upTo : /\ upTo[0] = MergeStart
                     /\ \A s \in 1..Len(rows) : upTo[s] = MergeStep(poll, upTo[s - 1], s)
                     /\ MergedRows(poll) = upTo[Len(rows)]
<1> DEFINE N == Len(rows)
           IsChain(g, n) == g = [s \in 0..n |->
                                    IF s = 0 THEN MergeStart ELSE MergeStep(poll, g[s - 1], s)]
           Chained == {n \in Nat : \E g : IsChain(g, n)}
<1>1. 0 \in Chained
    <2>1. IsChain([s \in 0..0 |-> MergeStart], 0)
        OBVIOUS
    <2> QED BY <2>1
<1>2. ASSUME NEW n \in Chained
      PROVE  n + 1 \in Chained
    <2>1. n \in Nat
        OBVIOUS
    <2>2. PICK g : IsChain(g, n)
        OBVIOUS
    <2> DEFINE h == [s \in 0..(n + 1) |-> IF s = n + 1 THEN MergeStep(poll, g[n], n + 1) ELSE g[s]]
    <2>3. ASSUME NEW s \in 0..(n + 1)
          PROVE  h[s] = IF s = 0 THEN MergeStart ELSE MergeStep(poll, h[s - 1], s)
        <3>1. CASE s = n + 1
            <4>1. h[s] = MergeStep(poll, g[n], n + 1) /\ s # 0 /\ s - 1 = n /\ h[n] = g[n]
                BY <2>1, <3>1
            <4> QED BY <3>1, <4>1
        <3>2. CASE s # n + 1 /\ s = 0
            BY <2>1, <2>2, <3>2
        <3>3. CASE s # n + 1 /\ s # 0
            <4>1. s \in 0..n /\ s - 1 \in 0..n /\ s - 1 # n + 1 /\ s - 1 \in 0..(n + 1)
                BY <2>1, <3>3
            <4>2. h[s] = g[s] /\ h[s - 1] = g[s - 1]
                BY <3>3, <4>1
            <4>3. g[s] = MergeStep(poll, g[s - 1], s)
                BY <2>2, <3>3, <4>1
            <4> QED BY <3>3, <4>2, <4>3
        <3> QED BY <3>1, <3>2, <3>3
    <2>4. IsChain(h, n + 1)
        BY <2>3
    <2> HIDE DEF h, IsChain
    <2> QED BY <2>1, <2>4
<1>3. N \in Chained
    <2> HIDE DEF Chained, N
    <2> SUFFICES N \in Nat /\ Chained \in SUBSET Nat
        BY <1>1, <1>2, UpTo
    <2> QED BY DEF Chained, N
<1>4. PICK g : IsChain(g, N)
    BY <1>3
<1> DEFINE upTo == CHOOSE f : IsChain(f, N)
<1>5. IsChain(upTo, N)
    BY <1>4
<1>6. MergedRows(poll) = upTo[N]
    BY DEF MergedRows
<1>7. upTo[0] = MergeStart
    <2> HIDE DEF upTo
    <2> QED BY <1>5
<1>8. \A s \in 1..N : upTo[s] = MergeStep(poll, upTo[s - 1], s)
    <2> HIDE DEF upTo
    <2> QED BY <1>5
<1> HIDE DEF upTo
<1> QED
    BY <1>6, <1>7, <1>8

\* What each way to merge a row makes of the parts of the state.
NamedResult(m, s, row, next) ==
    LET key == Canonical(row.serial)
        retired == (m.fallback \cap {s}) \ {key}
    IN  /\ DOMAIN next = Fields
        /\ next.claimed = m.claimed \cup {key}
        /\ next.polls = [m.polls EXCEPT ![s] = 0]
        /\ next.fallback = m.fallback \ {s}
        /\ next.cache = Put(Without(m.cache, retired), key, row)
        /\ next.carry = Without(m.carry, retired)
        /\ next.firstSeen = IF row.serial \in ToSet(m.firstSeen) THEN m.firstSeen
                            ELSE Append(m.firstSeen, row.serial)
        /\ next.positional = m.positional

\* A second row with a key leaves its claim alone and takes its slot's.
CollidingResult(m, s, row, next) ==
    /\ DOMAIN next = Fields
    /\ next.cache = Put(m.cache, s, row)
    /\ next.fallback = m.fallback \cup {s}
    /\ next.positional = m.positional \cup {s}
    /\ next.claimed = m.claimed
    /\ next.polls = m.polls
    /\ next.carry = m.carry
    /\ next.firstSeen = m.firstSeen

\* Without a serial, the row leaves the tables, or takes its slot's key.
Unexposed(m, next) ==
    /\ next.cache = m.cache
    /\ next.fallback = m.fallback
    /\ next.positional = m.positional

\* It takes its slot's key.
Exposed(m, s, row, next) ==
    /\ next.cache = Put(m.cache, s, row)
    /\ next.fallback = m.fallback \cup {s}
    /\ next.positional = m.positional \cup {s}

\* Either way it touches nothing else.
OthersKept(m, next) ==
    /\ next.claimed = m.claimed
    /\ next.carry = m.carry
    /\ next.firstSeen = m.firstSeen

\* It leaves the tables, or takes its slot's key, and nothing else happens.
SeriallessResult(m, s, row, next) ==
    /\ DOMAIN next = Fields
    /\ next.polls = [m.polls EXCEPT ![s] = IF m.polls[s] = ExposePolls THEN ExposePolls
                                           ELSE m.polls[s] + 1]
    /\ OthersKept(m, next)
    /\ Unexposed(m, next) \/ Exposed(m, s, row, next)

\* Merging a row with a serial has the result named for it.
LEMMA NamedParts ==
    ASSUME NEW m, DOMAIN m = Fields, NEW s, NEW row
    PROVE  NamedResult(m, s, row, MergeNamed(m, s, row))
BY DEF Fields, NamedResult, MergeNamed

\* So has merging a second row with that key.
LEMMA CollidingParts ==
    ASSUME NEW m, DOMAIN m = Fields, NEW s, NEW row
    PROVE  CollidingResult(m, s, row, MergeColliding(m, s, row))
BY DEF Fields, CollidingResult, MergeColliding

\* A row without a serial is counted only, or it is exposed as well.
LEMMA SeriallessParts ==
    ASSUME NEW m, DOMAIN m = Fields, NEW s, NEW row
    PROVE  SeriallessResult(m, s, row, MergeSerialless(m, s, row))
<1> DEFINE polls == IF m.polls[s] = ExposePolls THEN ExposePolls ELSE m.polls[s] + 1
           counted == [m EXCEPT !.polls[s] = polls]
           exposed == [counted EXCEPT !.cache = Put(@, s, row),
                                      !.fallback = @ \cup {s},
                                      !.positional = @ \cup {s}]
<1>1. /\ DOMAIN counted = Fields
      /\ counted.polls = [m.polls EXCEPT ![s] = polls]
      /\ counted.cache = m.cache /\ counted.fallback = m.fallback
      /\ counted.positional = m.positional /\ counted.claimed = m.claimed
      /\ counted.carry = m.carry /\ counted.firstSeen = m.firstSeen
    <2> HIDE DEF polls
    <2> QED BY DEF Fields
<1>2. MergeSerialless(m, s, row) = IF polls < ExposePolls THEN counted ELSE exposed
    BY DEF MergeSerialless
<1> HIDE DEF counted
<1>3. /\ DOMAIN exposed = Fields
      /\ exposed.cache = Put(counted.cache, s, row)
      /\ exposed.fallback = counted.fallback \cup {s}
      /\ exposed.positional = counted.positional \cup {s}
      /\ exposed.polls = counted.polls /\ exposed.claimed = counted.claimed
      /\ exposed.carry = counted.carry /\ exposed.firstSeen = counted.firstSeen
    BY <1>1 DEF Fields
<1> HIDE DEF exposed
<1> QED
    <2>1. MergeSerialless(m, s, row) = counted \/ MergeSerialless(m, s, row) = exposed
        BY <1>2, Zenon
    <2> HIDE DEF polls
    <2>2. SeriallessResult(m, s, row, counted) /\ SeriallessResult(m, s, row, exposed)
        <3> USE DEF polls
        <3> QED BY <1>1, <1>3, Zenon DEF SeriallessResult, OthersKept, Unexposed, Exposed
    <2> QED BY <2>1, <2>2

\* Whichever way a row is merged, the bar stays a truth value.
LEMMA BarredType ==
    ASSUME NEW m, DOMAIN m = Fields, m.barred \in BOOLEAN, NEW s, NEW row
    PROVE  /\ MergeNamed(m, s, row).barred \in BOOLEAN
           /\ MergeColliding(m, s, row).barred \in BOOLEAN
           /\ MergeSerialless(m, s, row).barred \in BOOLEAN
<1>1. MergeNamed(m, s, row).barred \in BOOLEAN
    BY DEF Fields, MergeNamed
<1>2. MergeColliding(m, s, row).barred \in BOOLEAN
    BY DEF Fields, MergeColliding
<1>3. MergeSerialless(m, s, row).barred \in BOOLEAN
    BY DEF Fields, MergeSerialless
<1> QED
    BY <1>1, <1>2, <1>3

\* New readings change no row but for its age.
LEMMA StampedRows ==
    ASSUME BatteryTypeOK, ListsOK, NEW poll \in Polls
    PROVE  /\ Stamped(poll) \in Seq(Mappings \cup {Empty})
           /\ Len(Stamped(poll)) = Len(rows)
           /\ Served \subseteq Slots
           /\ \A s \in Served : /\ Stamped(poll)[s] \in Mappings
                                /\ Stamped(poll)[s].of = rows[s].of
                                /\ Stamped(poll)[s].serial = rows[s].serial
           /\ \A s \in DOMAIN rows \ Served : Stamped(poll)[s] = Empty
<1>1. /\ DOMAIN rows = 1..Len(rows) /\ Len(rows) \in Nat /\ Len(rows) <= MaxSlot
      /\ MaxSlot \in Nat
    BY BatteryAssumption DEF BatteryTypeOK, ListsOK
<1>2. Served \subseteq DOMAIN rows /\ \A s \in Served : rows[s] \in Mappings
    BY DEF Served, BatteryTypeOK
<1>3. \A s \in DOMAIN rows \ Served : rows[s] = Empty
    BY DEF Served
<1>4. ASSUME NEW s \in Served
      PROVE  /\ Stamped(poll)[s] \in Mappings
             /\ Stamped(poll)[s].of = rows[s].of
             /\ Stamped(poll)[s].serial = rows[s].serial
    <2>1. rows[s] \in Mappings
        BY <1>2
    <2>2. Stamped(poll)[s] = IF poll[s] = "fresh" THEN [rows[s] EXCEPT !.aged = FALSE] ELSE rows[s]
        BY <1>2 DEF Stamped
    <2> QED BY <2>1, <2>2 DEF Mappings
<1>5. \A s \in DOMAIN rows \ Served : Stamped(poll)[s] = Empty
    BY <1>3 DEF Stamped
<1>6. DOMAIN Stamped(poll) = DOMAIN rows
    BY DEF Stamped
<1>7. \A s \in 1..Len(rows) : Stamped(poll)[s] \in Mappings \cup {Empty}
    BY <1>1, <1>4, <1>5
<1>8. Stamped(poll) = [s \in 1..Len(rows) |-> Stamped(poll)[s]]
    BY <1>1, <1>6 DEF Stamped
<1>9. Stamped(poll) \in Seq(Mappings \cup {Empty}) /\ Len(Stamped(poll)) = Len(rows)
    <2> DEFINE read == Stamped(poll)
    <2> HIDE DEF read
    <2>1. read \in [1..Len(rows) -> Mappings \cup {Empty}]
        BY <1>7, <1>8 DEF read
    <2> QED BY <1>1, <2>1 DEF read
<1>10. Served \subseteq Slots
    BY <1>1, <1>2 DEF Slots
<1> QED
    BY <1>4, <1>5, <1>9, <1>10

\* A serial's key is a key.
LEMMA CanonicalType ==
    ASSUME NEW n \in Serial
    PROVE  Canonical(n) \in BatteryKeys
BY BatteryAssumption DEF Canonical, BatteryKeys

\* Merging a row keeps the types of the state.
LEMMA MergeRowType ==
    ASSUME NEW m, MergeTypeOK(m), NEW s \in Slots, NEW row \in Mappings
    PROVE  MergeTypeOK(MergeRow(m, s, row))
<1>0. /\ s \in BatteryKeys /\ DOMAIN m = Fields
      /\ ExposePolls \in Nat \ {0} /\ MaxSlot \in Nat
    BY BatteryAssumption DEF Slots, BatteryKeys, MergeTypeOK
<1>1. CASE row.serial = Unread
    <2> DEFINE next == MergeSerialless(m, s, row)
    <2>0. MergeRow(m, s, row) = next
        BY <1>1 DEF MergeRow
    <2>1. IsTable(Put(m.cache, s, row), Mappings)
        BY <1>0, TableEdits DEF MergeTypeOK
    <2>2. next.polls \in [Slots -> 0..ExposePolls]
        <3>1. m.polls[s] \in 0..ExposePolls
            BY DEF MergeTypeOK
        <3>2. (IF m.polls[s] = ExposePolls THEN ExposePolls ELSE m.polls[s] + 1) \in 0..ExposePolls
            BY <1>0, <3>1
        <3>3. next.polls = [m.polls EXCEPT ![s] = IF m.polls[s] = ExposePolls THEN ExposePolls
                                                  ELSE m.polls[s] + 1]
            BY <1>0, SeriallessParts DEF SeriallessResult
        <3> QED BY <3>2, <3>3 DEF MergeTypeOK
    <2>b. next.barred \in BOOLEAN
        BY <1>0, BarredType DEF MergeTypeOK
    <2> HIDE DEF next
    <2>3. /\ DOMAIN next = Fields
          /\ next.carry = m.carry /\ next.firstSeen = m.firstSeen
          /\ \/ /\ next.cache = m.cache
                /\ next.fallback = m.fallback
                /\ next.positional = m.positional
             \/ /\ next.cache = Put(m.cache, s, row)
                /\ next.fallback = m.fallback \cup {s}
                /\ next.positional = m.positional \cup {s}
        <3>1. SeriallessResult(m, s, row, next)
            BY <1>0, SeriallessParts DEF next
        <3> QED BY <3>1, Zenon DEF SeriallessResult, OthersKept, Unexposed, Exposed
    <2>4. MergeTypeOK(next)
        BY <2>1, <2>2, <2>3, <2>b DEF MergeTypeOK
    <2> QED BY <2>0, <2>4
<1>2. CASE row.serial # Unread /\ Canonical(row.serial) \in m.claimed
    <2> DEFINE next == MergeColliding(m, s, row)
    <2>0. MergeRow(m, s, row) = next
        BY <1>2 DEF MergeRow
    <2>1. IsTable(Put(m.cache, s, row), Mappings)
        BY <1>0, TableEdits DEF MergeTypeOK
    <2>b. next.barred \in BOOLEAN
        BY <1>0, BarredType DEF MergeTypeOK
    <2> HIDE DEF next
    <2>2. /\ DOMAIN next = Fields
          /\ next.cache = Put(m.cache, s, row)
          /\ next.fallback = m.fallback \cup {s}
          /\ next.positional = m.positional \cup {s}
          /\ next.polls = m.polls /\ next.carry = m.carry /\ next.firstSeen = m.firstSeen
        BY <1>0, CollidingParts DEF next, CollidingResult
    <2>3. MergeTypeOK(next)
        BY <2>1, <2>2, <2>b DEF MergeTypeOK
    <2> QED BY <2>0, <2>3
<1>3. CASE row.serial # Unread /\ Canonical(row.serial) \notin m.claimed
    <2> DEFINE next == MergeNamed(m, s, row)
               key == Canonical(row.serial)
               retired == (m.fallback \cap {s}) \ {key}
    <2>0. MergeRow(m, s, row) = next
        BY <1>3 DEF MergeRow
    <2>1. row.serial \in Serial /\ key \in BatteryKeys
        BY <1>3, CanonicalType DEF Mappings
    <2>2. /\ IsTable(Without(m.carry, retired), Mappings)
          /\ IsTable(Put(Without(m.cache, retired), key, row), Mappings)
        <3> HIDE DEF key, retired
        <3>1. IsTable(Without(m.carry, retired), Mappings) /\ IsTable(Without(m.cache, retired), Mappings)
            BY <2>1, TableEdits DEF MergeTypeOK
        <3> QED BY <2>1, <3>1, TableEdits
    <2>3. /\ DOMAIN next = Fields
          /\ next.polls = [m.polls EXCEPT ![s] = 0]
          /\ next.fallback = m.fallback \ {s}
          /\ next.cache = Put(Without(m.cache, retired), key, row)
          /\ next.carry = Without(m.carry, retired)
          /\ next.firstSeen = IF row.serial \in ToSet(m.firstSeen) THEN m.firstSeen
                              ELSE Append(m.firstSeen, row.serial)
          /\ next.positional = m.positional
        <3>1. NamedResult(m, s, row, next)
            BY <1>0, NamedParts
        <3> HIDE DEF next
        <3> QED BY <3>1, Zenon DEF NamedResult
    <2>b. next.barred \in BOOLEAN
        BY <1>0, BarredType DEF MergeTypeOK
    <2> HIDE DEF next, key, retired
    <2>4. next.firstSeen \in Seq(Serial) /\ IsInjective(next.firstSeen)
        BY <2>1, <2>3, AppendSeen DEF MergeTypeOK
    <2>5. next.polls \in [Slots -> 0..ExposePolls]
        BY <1>0, <2>3 DEF MergeTypeOK
    <2>6. MergeTypeOK(next)
        BY <2>2, <2>3, <2>4, <2>5, <2>b DEF MergeTypeOK
    <2> QED BY <2>0, <2>6
<1> QED
    BY <1>1, <1>2, <1>3

\* So does a step of the merge, which may pass a row over.
LEMMA MergeStepType ==
    ASSUME BatteryTypeOK, ListsOK, NEW poll \in Polls, NEW m, MergeTypeOK(m), NEW s
    PROVE  MergeTypeOK(MergeStep(poll, m, s))
<1>1. CASE s \notin Served \/ poll[s] = "unusable"
    BY <1>1 DEF MergeStep
<1>2. CASE ~(s \notin Served \/ poll[s] = "unusable")
    <2>1. s \in Slots /\ Stamped(poll)[s] \in Mappings
        BY <1>2, StampedRows
    <2>2. MergeStep(poll, m, s) = MergeRow(m, s, Stamped(poll)[s])
        BY <1>2 DEF MergeStep
    <2> QED BY <2>1, <2>2, MergeRowType
<1> QED
    BY <1>1, <1>2

\* The rows of a poll, merged one after another, keep the types.
LEMMA MergedRowsType ==
    ASSUME BatteryTypeOK, ListsOK, NEW poll \in Polls
    PROVE  MergeTypeOK(MergedRows(poll))
<1>1. Len(rows) \in Nat
    BY DEF ListsOK
<1>2. PICK upTo : /\ upTo[0] = MergeStart
                  /\ \A s \in 1..Len(rows) : upTo[s] = MergeStep(poll, upTo[s - 1], s)
                  /\ MergedRows(poll) = upTo[Len(rows)]
    BY <1>1, MergeChain
<1>3. MergeTypeOK(MergeStart)
    BY DEF MergeTypeOK, MergeStart, Fields, BatteryTypeOK, ListsOK
<1> DEFINE Typed == {n \in Nat : n <= Len(rows) => MergeTypeOK(upTo[n])}
<1>5. 0 \in Typed
    BY <1>2, <1>3
<1>6. ASSUME NEW n \in Typed, n < Len(rows)
      PROVE  n + 1 \in Typed
    <2>1. n + 1 \in 1..Len(rows) /\ (n + 1) - 1 = n /\ n \in Nat /\ n <= Len(rows)
        BY <1>1, <1>6
    <2>2. upTo[n + 1] = MergeStep(poll, upTo[n], n + 1) /\ MergeTypeOK(upTo[n])
        BY <1>2, <2>1
    <2>3. MergeTypeOK(upTo[n + 1])
        BY <2>2, MergeStepType
    <2> QED BY <2>1, <2>3
<1>7. Len(rows) \in Typed
    <2>1. Typed \in SUBSET Nat
        OBVIOUS
    <2> HIDE DEF Typed
    <2> QED BY <1>1, <1>5, <1>6, <2>1, UpTo
<1> QED
    BY <1>1, <1>2, <1>7

-----------------------------------------------------------------------------
(* The merge: what it makes of the tables                                  *)

\* An entry with its battery's serial, under the key of it.
EntryNamed(k, e) == e.serial = serialOf[e.of] /\ k = Canonical(e.serial)

\* The keys that the rows of this poll were merged under.
Taken(m) == m.claimed \cup m.positional

\* An entry with a serial is under that serial's key.
CacheNamed(m) ==
    \A k \in DOMAIN m.cache : m.cache[k].serial # Unread => EntryNamed(k, m.cache[k])

\* An entry without a serial is the row of the slot, read by this poll, or one
\* of before the poll.
CacheUnread(m, read) ==
    \A k \in DOMAIN m.cache :
        m.cache[k].serial = Unread =>
            /\ k \in m.fallback
            /\ k \in m.positional => k \in Served /\ m.cache[k] = read[k]
            /\ k \notin m.positional =>
                    k \notin m.claimed /\ k \in DOMAIN rrCache /\ m.cache[k] = rrCache[k]

\* The merge only takes entries out of the carry-forward.
CarryOld(m) == \A k \in DOMAIN m.carry : k \in DOMAIN carryForward /\ m.carry[k] = carryForward[k]

\* A carried entry without a serial is under an exposed slot's key, or one of this poll.
CarryUnread(m) ==
    \A k \in DOMAIN m.carry : m.carry[k].serial = Unread => k \in m.fallback \cup Taken(m)

\* What is carried under a key of this poll is covered by the cache.
CarryTaken(m) == DOMAIN m.carry \cap Taken(m) \subseteq DOMAIN m.cache

\* A claimed key is that of a serial of this poll, read by row n or before.
ClaimsRead(m, n, read) ==
    \A key \in m.claimed :
        \E t \in Served : t <= n /\ read[t].serial # Unread /\ key = Canonical(read[t].serial)

\* A slot that this poll exposed is exposed.
PositionalSound(m) == m.positional \subseteq m.fallback

\* It is a slot up to n.
PositionalSoFar(m, n) == \A k \in m.positional : k \in Nat /\ k <= n

\* A serial seen for the first time is of a row of this poll.
SeenRead(m, read) ==
    \A n \in ToSet(m.firstSeen) \ ToSet(firstSeen) :
        \E t \in Served : read[t].serial # Unread /\ read[t].serial = n

\* The invariant of the merge, after n rows.
MergeSound(m, n, read) ==
    /\ CacheNamed(m) /\ CacheUnread(m, read)
    /\ CarryOld(m) /\ CarryUnread(m) /\ CarryTaken(m)
    /\ ClaimsRead(m, n, read)
    /\ PositionalSound(m) /\ PositionalSoFar(m, n)
    /\ SeenRead(m, read)

\* A served row: of its slot, of one battery, and with its own serial.
RowRead(read, s) ==
    /\ s \in Nat
    /\ read[s] \in Mappings
    /\ read[s].serial # Unread => read[s].serial = serialOf[read[s].of]
    /\ \A t \in Served : read[t].of = read[s].of => t = s

\* It holds of the tables that the merge begins with.
LEMMA StartSound ==
    ASSUME TableSound(rrCache), TableSound(carryForward), NEW read
    PROVE  MergeSound(MergeStart, 0, read)
<1> DEFINE m == MergeStart
<1>1. /\ m.cache = rrCache /\ m.carry = carryForward /\ m.fallback = fallbackKeys
      /\ m.claimed = {} /\ m.positional = {} /\ m.firstSeen = firstSeen
    BY DEF MergeStart
<1> HIDE DEF m
<1>2. CacheNamed(m) /\ CacheUnread(m, read)
    BY <1>1 DEF CacheNamed, CacheUnread, TableSound, EntrySound, EntryNamed
<1>3. CarryOld(m) /\ CarryUnread(m) /\ CarryTaken(m)
    BY <1>1 DEF CarryOld, CarryUnread, CarryTaken, TableSound, EntrySound, Taken
<1>4. ClaimsRead(m, 0, read) /\ PositionalSound(m) /\ PositionalSoFar(m, 0) /\ SeenRead(m, read)
    BY <1>1 DEF ClaimsRead, PositionalSound, PositionalSoFar, SeenRead
<1> QED
    BY <1>2, <1>3, <1>4 DEF MergeSound, m

\* A slot that is passed over changes nothing.
LEMMA PassedSound ==
    ASSUME NEW m, NEW s \in Nat, NEW read, s # 0, MergeSound(m, s - 1, read),
           \A t \in Served : t \in Nat
    PROVE  MergeSound(m, s, read)
<1>1. ClaimsRead(m, s, read)
    BY DEF MergeSound, ClaimsRead
<1>2. PositionalSoFar(m, s)
    BY DEF MergeSound, PositionalSoFar
<1> QED
    BY <1>1, <1>2 DEF MergeSound

\* A row without a serial that is only counted keeps it.
LEMMA UnexposedSound ==
    ASSUME NEW m, NEW s, NEW read, MergeSound(m, s, read), NEW next,
           OthersKept(m, next), Unexposed(m, next)
    PROVE  MergeSound(next, s, read)
BY DEF OthersKept, Unexposed, MergeSound, CacheNamed, CacheUnread, CarryOld, CarryUnread,
       CarryTaken, Taken, ClaimsRead, PositionalSound, PositionalSoFar, SeenRead

\* A row without a serial that takes its slot's key keeps it.
LEMMA ExposedSound ==
    ASSUME NEW m, NEW s \in Served, NEW read, MergeSound(m, s, read), RowRead(read, s),
           read[s].serial = Unread, NEW next,
           OthersKept(m, next), Exposed(m, s, read[s], next)
    PROVE  MergeSound(next, s, read)
<1>0. /\ next.claimed = m.claimed /\ next.carry = m.carry /\ next.firstSeen = m.firstSeen
      /\ next.cache = Put(m.cache, s, read[s])
      /\ next.fallback = m.fallback \cup {s}
      /\ next.positional = m.positional \cup {s}
    BY DEF OthersKept, Exposed
<1>1. /\ DOMAIN next.cache = DOMAIN m.cache \cup {s}
      /\ next.cache[s] = read[s]
      /\ \A k \in DOMAIN m.cache : k # s => next.cache[k] = m.cache[k]
    BY <1>0 DEF Put
<1>2. CacheNamed(next)
    BY <1>0, <1>1 DEF CacheNamed, MergeSound
<1>3. CacheUnread(next, read)
    BY <1>0, <1>1 DEF CacheUnread, MergeSound
<1>4. CarryOld(next) /\ CarryUnread(next) /\ CarryTaken(next)
    BY <1>0, <1>1 DEF CarryOld, CarryUnread, CarryTaken, Taken, MergeSound
<1>5. ClaimsRead(next, s, read) /\ PositionalSound(next) /\ SeenRead(next, read)
    BY <1>0 DEF ClaimsRead, PositionalSound, SeenRead, MergeSound
<1>6. PositionalSoFar(next, s)
    BY <1>0 DEF PositionalSoFar, MergeSound, RowRead
<1> QED
    BY <1>2, <1>3, <1>4, <1>5, <1>6 DEF MergeSound

\* A row with a serial, which retires its slot's key, keeps it.
LEMMA NamedSound ==
    ASSUME NEW m, MergeTypeOK(m), NEW s \in Served, NEW read, MergeSound(m, s, read),
           RowRead(read, s), read[s].serial # Unread, s \notin m.positional,
           NEW next, NamedResult(m, s, read[s], next)
    PROVE  MergeSound(next, s, read)
<1> DEFINE key == Canonical(read[s].serial)
           retired == (m.fallback \cap {s}) \ {key}
<1>1. /\ next.claimed = m.claimed \cup {key}
      /\ next.fallback = m.fallback \ {s}
      /\ next.cache = Put(Without(m.cache, retired), key, read[s])
      /\ next.carry = Without(m.carry, retired)
      /\ next.firstSeen = IF read[s].serial \in ToSet(m.firstSeen) THEN m.firstSeen
                          ELSE Append(m.firstSeen, read[s].serial)
      /\ next.positional = m.positional
    BY Zenon DEF NamedResult
<1>2. EntryNamed(key, read[s])
    BY DEF EntryNamed, RowRead
<1>3. read[s].serial \in Serial
    BY DEF RowRead, Mappings
<1>4. retired = IF s \in m.fallback /\ s # key THEN {s} ELSE {}
    OBVIOUS
<1> HIDE DEF key, retired
<1>5. /\ DOMAIN next.cache = (DOMAIN m.cache \ retired) \cup {key}
      /\ next.cache[key] = read[s]
      /\ \A k \in DOMAIN m.cache \ retired : k # key => next.cache[k] = m.cache[k]
    BY <1>1 DEF Put, Without
<1>6. /\ DOMAIN next.carry = DOMAIN m.carry \ retired
      /\ \A k \in DOMAIN m.carry \ retired : next.carry[k] = m.carry[k]
    BY <1>1 DEF Without
<1>7. CacheNamed(next)
    BY <1>2, <1>5 DEF CacheNamed, MergeSound
<1>8. CacheUnread(next, read)
    <2> SUFFICES ASSUME NEW k \in DOMAIN next.cache, next.cache[k].serial = Unread
                 PROVE  /\ k \in next.fallback
                        /\ k \in next.positional => k \in Served /\ next.cache[k] = read[k]
                        /\ k \notin next.positional =>
                              k \notin next.claimed /\ k \in DOMAIN rrCache /\ next.cache[k] = rrCache[k]
        BY DEF CacheUnread
    <2>1. k # key /\ k \in DOMAIN m.cache \ retired /\ next.cache[k] = m.cache[k]
        BY <1>5
    <2>2. /\ k \in m.fallback
          /\ k \in m.positional => k \in Served /\ m.cache[k] = read[k]
          /\ k \notin m.positional =>
                k \notin m.claimed /\ k \in DOMAIN rrCache /\ m.cache[k] = rrCache[k]
        BY <2>1 DEF CacheUnread, MergeSound
    <2>3. k # s
        BY <1>4, <2>1, <2>2
    <2> QED BY <1>1, <2>1, <2>2, <2>3
<1>9. CarryOld(next)
    BY <1>6 DEF CarryOld, MergeSound
<1>10. CarryUnread(next)
    <2> SUFFICES ASSUME NEW k \in DOMAIN next.carry, next.carry[k].serial = Unread
                 PROVE  k \in next.fallback \cup Taken(next)
        BY DEF CarryUnread
    <2>1. k \in m.fallback \cup Taken(m) /\ k \notin retired
        BY <1>6 DEF CarryUnread, MergeSound
    <2>2. CASE k = s
        BY <1>1, <1>4, <2>1, <2>2 DEF Taken
    <2>3. CASE k # s
        BY <1>1, <2>1, <2>3 DEF Taken
    <2> QED BY <2>2, <2>3
<1>11. CarryTaken(next)
    BY <1>1, <1>5, <1>6 DEF CarryTaken, MergeSound, Taken
<1>12. ClaimsRead(next, s, read)
    <2> SUFFICES ASSUME NEW k \in next.claimed
                 PROVE  \E t \in Served : t <= s /\ read[t].serial # Unread /\ k = Canonical(read[t].serial)
        BY DEF ClaimsRead
    <2>1. CASE k = key
        <3>1. s <= s
            BY DEF RowRead
        <3> QED BY <2>1, <3>1 DEF key
    <2>2. CASE k \in m.claimed
        BY <2>2 DEF ClaimsRead, MergeSound
    <2> QED BY <1>1, <2>1, <2>2
<1>13. PositionalSound(next) /\ PositionalSoFar(next, s)
    BY <1>1 DEF PositionalSound, PositionalSoFar, MergeSound
<1>14. SeenRead(next, read)
    <2>1. ToSet(next.firstSeen) \subseteq ToSet(m.firstSeen) \cup {read[s].serial}
        BY <1>1, <1>3, AppendSeen DEF MergeTypeOK
    <2> QED BY <2>1 DEF SeenRead, MergeSound
<1> QED
    BY <1>7, <1>8, <1>9, <1>10, <1>11, <1>12, <1>13, <1>14 DEF MergeSound

\* Two served rows of one poll never have the same key.
LEMMA NoCollision ==
    ASSUME BatteryTypeOK, Honest, NEW m, NEW s \in Served, NEW n \in Nat, NEW read, n < s,
           \A t \in Served : RowRead(read, t), ClaimsRead(m, n, read),
           read[s].serial # Unread
    PROVE  Canonical(read[s].serial) \notin m.claimed
<1> SUFFICES ASSUME Canonical(read[s].serial) \in m.claimed
             PROVE  FALSE
    OBVIOUS
<1>1. PICK t \in Served : /\ t <= n /\ read[t].serial # Unread
                          /\ Canonical(read[s].serial) = Canonical(read[t].serial)
    BY DEF ClaimsRead
<1>2. /\ read[s].serial = serialOf[read[s].of] /\ read[t].serial = serialOf[read[t].of]
      /\ read[s].of \in Battery /\ read[t].of \in Battery
    BY <1>1 DEF RowRead, Mappings
<1>3. read[s].of = read[t].of
    BY <1>1, <1>2 DEF Honest
<1>4. s = t /\ s \in Nat
    BY <1>3 DEF RowRead
<1> QED
    BY <1>1, <1>4

\* A step of the merge takes the invariant from one row to the next.
LEMMA StepSound ==
    ASSUME BatteryTypeOK, ListsOK, Honest, NEW poll \in Polls,
           \A t \in Served : RowRead(Stamped(poll), t),
           NEW m, MergeTypeOK(m), NEW s \in 1..Len(rows), MergeSound(m, s - 1, Stamped(poll))
    PROVE  MergeSound(MergeStep(poll, m, s), s, Stamped(poll))
<1> DEFINE read == Stamped(poll)
<1>1. s \in Nat /\ s # 0 /\ s - 1 \in Nat /\ s - 1 < s /\ DOMAIN m = Fields
    BY DEF ListsOK, MergeTypeOK
<1>2. \A t \in Served : t \in Nat
    BY DEF RowRead
<1> HIDE DEF read
<1>3. MergeSound(m, s, read)
    BY <1>1, <1>2, PassedSound DEF read
<1>4. CASE s \notin Served \/ poll[s] = "unusable"
    BY <1>3, <1>4 DEF MergeStep, read
<1>5. CASE ~(s \notin Served \/ poll[s] = "unusable")
    <2>0. s \in Served /\ RowRead(read, s)
        BY <1>5 DEF read
    <2>1. MergeStep(poll, m, s) = MergeRow(m, s, read[s])
        BY <1>5 DEF MergeStep, read
    <2>2. CASE read[s].serial = Unread
        <3> DEFINE next == MergeSerialless(m, s, read[s])
        <3>1. MergeStep(poll, m, s) = next
            BY <2>1, <2>2 DEF MergeRow
        <3>2. SeriallessResult(m, s, read[s], next)
            BY <1>1, SeriallessParts
        <3> HIDE DEF next
        <3>3. OthersKept(m, next) /\ (Unexposed(m, next) \/ Exposed(m, s, read[s], next))
            BY <3>2 DEF SeriallessResult
        <3>4. ASSUME Unexposed(m, next)
              PROVE  MergeSound(next, s, read)
            BY <1>3, <3>3, <3>4, UnexposedSound
        <3>5. ASSUME Exposed(m, s, read[s], next)
              PROVE  MergeSound(next, s, read)
            BY <1>3, <2>0, <2>2, <3>3, <3>5, ExposedSound
        <3>6. MergeSound(next, s, read)
            BY <3>3, <3>4, <3>5
        <3> QED BY <3>1, <3>6 DEF read
    <2>3. CASE read[s].serial # Unread
        <3> DEFINE next == MergeNamed(m, s, read[s])
        <3>0. ClaimsRead(m, s - 1, read) /\ PositionalSoFar(m, s - 1)
            BY DEF MergeSound, read
        <3>1. Canonical(read[s].serial) \notin m.claimed
            BY <1>1, <2>0, <2>3, <3>0, NoCollision DEF read
        <3>2. MergeStep(poll, m, s) = next
            BY <2>1, <2>3, <3>1 DEF MergeRow
        <3>3. NamedResult(m, s, read[s], next)
            BY <1>1, NamedParts
        <3>4. s \notin m.positional
            BY <1>1, <3>0 DEF PositionalSoFar
        <3> HIDE DEF next
        <3>5. MergeSound(next, s, read)
            BY <1>3, <2>0, <2>3, <3>3, <3>4, NamedSound
        <3> QED BY <3>2, <3>5 DEF read
    <2> QED BY <2>2, <2>3
<1> QED
    BY <1>4, <1>5

\* It holds of all rows of the poll.
LEMMA MergedRowsSound ==
    ASSUME BatteryTypeOK, ListsOK, Honest, TableSound(rrCache), TableSound(carryForward),
           NEW poll \in Polls, \A t \in Served : RowRead(Stamped(poll), t)
    PROVE  MergeSound(MergedRows(poll), Len(rows), Stamped(poll))
<1>1. Len(rows) \in Nat
    BY DEF ListsOK
<1>2. PICK upTo : /\ upTo[0] = MergeStart
                  /\ \A s \in 1..Len(rows) : upTo[s] = MergeStep(poll, upTo[s - 1], s)
                  /\ MergedRows(poll) = upTo[Len(rows)]
    BY <1>1, MergeChain
<1>3. MergeSound(MergeStart, 0, Stamped(poll))
    BY StartSound
<1>4. MergeTypeOK(MergeStart)
    BY DEF MergeTypeOK, MergeStart, Fields, BatteryTypeOK, ListsOK
<1> DEFINE Good == {n \in Nat : n <= Len(rows) =>
                        MergeTypeOK(upTo[n]) /\ MergeSound(upTo[n], n, Stamped(poll))}
<1>5. 0 \in Good
    BY <1>2, <1>3, <1>4
<1>6. ASSUME NEW n \in Good, n < Len(rows)
      PROVE  n + 1 \in Good
    <2>1. n + 1 \in 1..Len(rows) /\ (n + 1) - 1 = n /\ n \in Nat /\ n <= Len(rows)
        BY <1>1, <1>6
    <2>2. /\ upTo[n + 1] = MergeStep(poll, upTo[n], n + 1)
          /\ MergeTypeOK(upTo[n]) /\ MergeSound(upTo[n], n, Stamped(poll))
        BY <1>2, <2>1
    <2>3. MergeTypeOK(upTo[n + 1])
        BY <2>2, MergeStepType
    <2>4. MergeSound(upTo[n + 1], n + 1, Stamped(poll))
        BY <2>1, <2>2, StepSound
    <2> QED BY <2>1, <2>3, <2>4
<1>7. Len(rows) \in Good
    <2>1. Good \in SUBSET Nat
        OBVIOUS
    <2> HIDE DEF Good
    <2> QED BY <1>1, <1>5, <1>6, <2>1, UpTo
<1> QED
    BY <1>1, <1>2, <1>7

-----------------------------------------------------------------------------
(* The merge: what is left of the tables when it is done                   *)

\* The parts of the state that the sweep leaves of those of the merge.
SweptResult(m, w) ==
    LET retired == IF m.firstSeen = firstSeen THEN {} ELSE Unclaimed(m) \ m.claimed
    IN  /\ DOMAIN w = Fields
        /\ w.firstSeen = m.firstSeen
        /\ w.fallback = m.fallback \ (IF m.firstSeen = firstSeen THEN {} ELSE Unclaimed(m))
        /\ DOMAIN w.cache = DOMAIN m.cache \ retired
        /\ \A k \in DOMAIN w.cache : w.cache[k] = m.cache[k]
        /\ DOMAIN w.carry = DOMAIN m.carry \ retired
        /\ \A k \in DOMAIN w.carry : w.carry[k] = m.carry[k]

\* The sweep has the result named for it.
LEMMA SweptParts ==
    ASSUME NEW m, DOMAIN m = Fields
    PROVE  SweptResult(m, Swept(m))
<1>1. CASE m.firstSeen = firstSeen
    <2>1. Swept(m) = m
        BY <1>1 DEF Swept
    <2> QED BY <1>1, <2>1 DEF SweptResult
<1>2. CASE m.firstSeen # firstSeen
    <2> DEFINE retired == Unclaimed(m) \ m.claimed
               w == Swept(m)
    <2>1. /\ DOMAIN w = Fields
          /\ w.firstSeen = m.firstSeen
          /\ w.fallback = m.fallback \ Unclaimed(m)
          /\ w.cache = Without(m.cache, retired)
          /\ w.carry = Without(m.carry, retired)
        BY <1>2 DEF Swept, Fields
    <2> HIDE DEF w, retired
    <2>2. /\ DOMAIN w.cache = DOMAIN m.cache \ retired
          /\ \A k \in DOMAIN w.cache : w.cache[k] = m.cache[k]
          /\ DOMAIN w.carry = DOMAIN m.carry \ retired
          /\ \A k \in DOMAIN w.carry : w.carry[k] = m.carry[k]
        BY <2>1 DEF Without
    <2> QED BY <1>2, <2>1, <2>2 DEF SweptResult, w, retired
<1> QED
    BY <1>1, <1>2

\* What the eviction leaves.
EvictedResult(w, left) ==
    /\ DOMAIN left.cache = DOMAIN w.cache \ Aged(w.cache)
    /\ \A k \in DOMAIN left.cache : left.cache[k] = w.cache[k]
    /\ DOMAIN left.carry = DOMAIN w.carry \ Aged(w.cache)
    /\ \A k \in DOMAIN left.carry : left.carry[k] = w.carry[k]

\* The eviction has the result named for it.
LEMMA EvictedParts ==
    ASSUME NEW w, {"cache", "carry"} \subseteq DOMAIN w
    PROVE  /\ EvictedResult(w, Evicted(w))
           /\ DOMAIN Evicted(w) = DOMAIN w
           /\ \A x \in DOMAIN w \ {"cache", "carry"} : Evicted(w)[x] = w[x]
<1> DEFINE aged == Aged(w.cache)
           left == Evicted(w)
<1>1. left = [w EXCEPT !.cache = Without(@, aged), !.carry = Without(@, aged)]
    BY DEF Evicted
<1> HIDE DEF aged, left
<1>2. /\ left.cache = Without(w.cache, aged) /\ left.carry = Without(w.carry, aged)
      /\ DOMAIN left = DOMAIN w
      /\ \A x \in DOMAIN w \ {"cache", "carry"} : left[x] = w[x]
    BY <1>1
<1>3. /\ DOMAIN left.cache = DOMAIN w.cache \ aged
      /\ \A k \in DOMAIN left.cache : left.cache[k] = w.cache[k]
      /\ DOMAIN left.carry = DOMAIN w.carry \ aged
      /\ \A k \in DOMAIN left.carry : left.carry[k] = w.carry[k]
    BY <1>2 DEF Without
<1> QED
    BY <1>2, <1>3 DEF EvictedResult, left, aged

\* No battery whose serial is among those is left with a row without it.
RowsKnown(seen) == \A s \in Served : rows[s].serial = Unread => ~Known(rows[s].of, seen)

\* The rows of a poll, with the readings it has, are sound.
LEMMA RowsRead ==
    ASSUME BatteryTypeOK, ListsOK, RowsSound, NEW poll \in Polls
    PROVE  \A t \in Served : RowRead(Stamped(poll), t)
<1> SUFFICES ASSUME NEW t \in Served
             PROVE  RowRead(Stamped(poll), t)
    OBVIOUS
<1>1. t \in Nat
    BY BatteryAssumption, StampedRows DEF Slots
<1>2. \A s \in Served : /\ Stamped(poll)[s] \in Mappings
                        /\ Stamped(poll)[s].of = rows[s].of
                        /\ Stamped(poll)[s].serial = rows[s].serial
    BY StampedRows
<1> QED
    BY <1>1, <1>2 DEF RowRead, RowsSound

\* A serial that the merge reads is that of a row, the only one of its battery.
LEMMA SeenRowsKnown ==
    ASSUME BatteryTypeOK, ListsOK, Honest, RowsSound, NEW poll \in Polls, NEW m,
           SeenRead(m, Stamped(poll))
    PROVE  RowsKnown(m.firstSeen)
<1> SUFFICES ASSUME NEW s \in Served, rows[s].serial = Unread, Known(rows[s].of, m.firstSeen)
             PROVE  FALSE
    BY DEF RowsKnown
<1> DEFINE n == serialOf[rows[s].of]
<1>1. n \in ToSet(m.firstSeen) \ ToSet(firstSeen)
    BY DEF RowsSound, Known
<1>2. PICK t \in Served : Stamped(poll)[t].serial # Unread /\ Stamped(poll)[t].serial = n
    BY <1>1 DEF SeenRead
<1>3. rows[t].serial # Unread /\ rows[t].serial = n
    BY <1>2, StampedRows
<1>4. n = serialOf[rows[t].of]
    BY <1>3 DEF RowsSound
<1>5. rows[s].of \in Battery /\ rows[t].of \in Battery
    <2>1. rows[s] \in Mappings /\ rows[t] \in Mappings
        BY DEF Served, BatteryTypeOK
    <2> QED BY <2>1 DEF Mappings
<1>6. rows[s].of = rows[t].of
    BY <1>4, <1>5 DEF Honest
<1>7. s = t
    BY <1>6 DEF RowsSound
<1> QED
    BY <1>3, <1>7

\* What the merge, the sweep and the eviction leave: entries that are sound with
\* the serials that have been read by now.  An entry that is carried counts when
\* its key is not current.
LeftSound(left) ==
    /\ \A k \in DOMAIN left.cache :
           EntrySound(k, left.cache[k], left.fallback, left.firstSeen)
    /\ \A k \in DOMAIN left.carry \ DOMAIN left.cache :
           EntrySound(k, left.carry[k], left.fallback, left.firstSeen)

\* After the sweep and the eviction no table shows a known battery by its slot.
LEMMA SweptSound ==
    ASSUME BatteryTypeOK, ListsOK, Honest, RowsSound, TableSound(rrCache),
           TableSound(carryForward), NEW poll \in Polls, NEW m,
           MergeSound(m, Len(rows), Stamped(poll)),
           NEW w, SweptResult(m, w), NEW left, EvictedResult(w, left),
           left.fallback = w.fallback, left.firstSeen = w.firstSeen
    PROVE  LeftSound(left)
<1> DEFINE read == Stamped(poll)
           same == m.firstSeen = firstSeen
<1>1. /\ left.firstSeen = m.firstSeen
      /\ left.fallback = m.fallback \ (IF same THEN {} ELSE Unclaimed(m))
      /\ DOMAIN w.cache = DOMAIN m.cache \ (IF same THEN {} ELSE Unclaimed(m) \ m.claimed)
      /\ DOMAIN w.carry = DOMAIN m.carry \ (IF same THEN {} ELSE Unclaimed(m) \ m.claimed)
      /\ \A k \in DOMAIN w.cache : w.cache[k] = m.cache[k]
      /\ \A k \in DOMAIN w.carry : w.carry[k] = m.carry[k]
    BY DEF SweptResult
<1>2. /\ DOMAIN left.cache = DOMAIN w.cache \ Aged(w.cache)
      /\ DOMAIN left.carry = DOMAIN w.carry \ Aged(w.cache)
      /\ \A k \in DOMAIN left.cache : left.cache[k] = w.cache[k]
      /\ \A k \in DOMAIN left.carry : left.carry[k] = w.carry[k]
    BY DEF EvictedResult
<1>3. RowsKnown(m.firstSeen)
    BY SeenRowsKnown DEF MergeSound
<1>4. \A s \in Served : read[s].of = rows[s].of /\ read[s].serial = rows[s].serial
    BY StampedRows
<1> HIDE DEF read
<1>5. MergeSound(m, Len(rows), read)
    BY DEF read
<1>6. ASSUME NEW k \in DOMAIN left.cache
      PROVE  EntrySound(k, left.cache[k], left.fallback, left.firstSeen)
    <2>1. k \in DOMAIN w.cache /\ k \in DOMAIN m.cache /\ left.cache[k] = m.cache[k]
        BY <1>1, <1>2
    <2>2. CASE m.cache[k].serial # Unread
        BY <1>5, <2>1, <2>2 DEF MergeSound, CacheNamed, EntryNamed, EntrySound
    <2>3. CASE m.cache[k].serial = Unread
        <3>1. /\ k \in m.fallback
              /\ k \in m.positional => k \in Served /\ m.cache[k] = read[k]
              /\ k \notin m.positional =>
                    k \notin m.claimed /\ k \in DOMAIN rrCache /\ m.cache[k] = rrCache[k]
            BY <1>5, <2>1, <2>3 DEF MergeSound, CacheUnread
        <3>2. CASE k \in m.positional
            <4>1. k \in Served /\ rows[k].serial = Unread /\ m.cache[k].of = rows[k].of
                BY <1>4, <2>3, <3>1, <3>2
            <4>2. ~Known(m.cache[k].of, m.firstSeen)
                BY <1>3, <4>1 DEF RowsKnown
            <4>3. k \in left.fallback
                BY <1>1, <3>1, <3>2 DEF Unclaimed
            <4> QED BY <1>1, <2>1, <2>3, <4>2, <4>3 DEF EntrySound
        <3>3. CASE k \notin m.positional
            <4>1. k \in Unclaimed(m) \ m.claimed
                BY <3>1, <3>3 DEF Unclaimed
            <4>2. same
                BY <1>1, <2>1, <4>1
            <4>3. EntrySound(k, m.cache[k], fallbackKeys, firstSeen)
                BY <3>1, <3>3 DEF TableSound
            <4>4. ~Known(m.cache[k].of, m.firstSeen)
                BY <2>3, <4>2, <4>3 DEF EntrySound
            <4>5. k \in left.fallback
                BY <1>1, <3>1, <4>2
            <4> QED BY <1>1, <2>1, <2>3, <4>4, <4>5 DEF EntrySound
        <3> QED BY <3>2, <3>3
    <2> QED BY <2>2, <2>3
<1>7. ASSUME NEW k \in DOMAIN left.carry \ DOMAIN left.cache
      PROVE  EntrySound(k, left.carry[k], left.fallback, left.firstSeen)
    <2>1. /\ k \in DOMAIN w.carry /\ k \in DOMAIN m.carry /\ k \notin DOMAIN w.cache
          /\ left.carry[k] = m.carry[k]
        BY <1>1, <1>2
    <2>2. k \in DOMAIN carryForward /\ m.carry[k] = carryForward[k]
        BY <1>5, <2>1 DEF MergeSound, CarryOld
    <2>3. EntrySound(k, m.carry[k], fallbackKeys, firstSeen)
        BY <2>2 DEF TableSound
    <2>4. CASE m.carry[k].serial # Unread
        BY <2>1, <2>3, <2>4 DEF EntrySound
    <2>5. CASE m.carry[k].serial = Unread
        <3>1. k \in m.fallback \cup Taken(m)
            BY <1>5, <2>1, <2>5 DEF MergeSound, CarryUnread
        <3>2. k \notin Taken(m)
            <4> SUFFICES ASSUME k \in Taken(m)
                         PROVE  FALSE
                OBVIOUS
            <4>1. k \in DOMAIN m.cache
                BY <1>5, <2>1 DEF MergeSound, CarryTaken
            <4>2. k \notin Unclaimed(m) \ m.claimed
                BY DEF Taken, Unclaimed
            <4> QED BY <1>1, <2>1, <4>1, <4>2
        <3>3. k \in Unclaimed(m) \ m.claimed
            BY <3>1, <3>2 DEF Taken, Unclaimed
        <3>4. same
            BY <1>1, <2>1, <3>3
        <3>5. k \in left.fallback
            BY <1>1, <3>1, <3>2, <3>4
        <3>6. ~Known(m.carry[k].of, m.firstSeen)
            BY <2>3, <2>5, <3>4 DEF EntrySound
        <3> QED BY <1>1, <2>1, <2>5, <3>5, <3>6 DEF EntrySound
    <2> QED BY <2>4, <2>5
<1> QED
    BY <1>6, <1>7 DEF LeftSound

-----------------------------------------------------------------------------
(* Types                                                                   *)

\* The types of the bank and the rows.
TransportTypes ==
    /\ portal \in BOOLEAN
    /\ serialOf \in Reports
    /\ installed \subseteq Battery
    /\ rows \in Seq(Mappings \cup {Empty}) /\ Len(rows) <= MaxSlot
    /\ relapsed \subseteq Serial

\* The types of the tables and the keys.
KeyTypes ==
    /\ IsTable(rrCache, Mappings) /\ IsTable(carryForward, Mappings) /\ IsTable(published, Mappings)
    /\ fallbackKeys \subseteq Slots
    /\ noSerialPolls \in [Slots -> 0..ExposePolls]
    /\ firstSeen \in Seq(Serial) /\ IsInjective(firstSeen)

\* The types of the registry.
RegistryTypes ==
    /\ suppressed \in BOOLEAN
    /\ migrated \subseteq Nat
    /\ IsTable(registry, Battery)
    /\ live \subseteq BatteryKeys

\* The types of the three groups of variables.
Types == TransportTypes /\ KeyTypes /\ RegistryTypes

\* They are the type invariant, with the lists.
LEMMA TypesSuffice ==
    Types <=> BatteryTypeOK /\ ListsOK
<1>1. ASSUME Types
      PROVE  BatteryTypeOK /\ ListsOK
    <2>1. ToSet(firstSeen) \subseteq Serial
        <3>1. firstSeen \in Seq(Serial)
            BY <1>1 DEF Types, KeyTypes
        <3>2. \A i \in DOMAIN firstSeen : firstSeen[i] \in Serial
            BY <3>1
        <3> QED BY <3>2 DEF ToSet
    <2>2. \A s \in DOMAIN rows : rows[s] = Empty \/ rows[s] \in Mappings
        BY <1>1 DEF Types, TransportTypes
    <2> QED BY <1>1, <2>1, <2>2
            DEF Types, TransportTypes, KeyTypes, RegistryTypes, BatteryTypeOK, ListsOK
<1>2. ASSUME BatteryTypeOK, ListsOK
      PROVE  Types
    BY <1>2 DEF Types, TransportTypes, KeyTypes, RegistryTypes, BatteryTypeOK, ListsOK
<1> QED
    BY <1>1, <1>2

\* The registry keeps its types when what is published has them.
LEMMA InstantiateTypes ==
    ASSUME RegistryTypes, IsTable(published', Mappings), NEW table, IsTable(table, Battery),
           Instantiate(table)
    PROVE  IsTable(registry', Battery) /\ live' \subseteq BatteryKeys
<1>1. registry' = Over(table, [k \in DOMAIN published' |-> published'[k].of])
      /\ live' = live \cup DOMAIN published'
    BY DEF Instantiate
<1>2. \A k \in DOMAIN published' : published'[k].of \in Battery
    BY DEF IsTable, Mappings
<1> QED
    BY <1>1, <1>2 DEF IsTable, Over, RegistryTypes

\* Renaming rows leaves a table of batteries.
LEMMA MovedTypes ==
    ASSUME RegistryTypes, NEW pairs, NEW done, done \subseteq DOMAIN pairs,
           \A k \in DOMAIN pairs : pairs[k] \in BatteryKeys
    PROVE  IsTable(Moved(pairs, done), Battery)
<1> DEFINE rowed == done \cap DOMAIN registry
           moved == [n \in {pairs[k] : k \in rowed} |-> registry[CHOOSE k \in rowed : pairs[k] = n]]
<1>1. IsTable(registry, Battery)
    BY DEF RegistryTypes
<1>2. ASSUME NEW n \in {pairs[k] : k \in rowed}
      PROVE  n \in BatteryKeys /\ moved[n] \in Battery
    <2>1. PICK k \in rowed : n = pairs[k]
        OBVIOUS
    <2>2. (CHOOSE j \in rowed : pairs[j] = n) \in rowed
        BY <2>1
    <2> QED BY <1>1, <2>1, <2>2 DEF IsTable
<1>3. Moved(pairs, done) = Over(Without(registry, rowed), moved)
    BY DEF Moved
<1>4. DOMAIN moved = {pairs[k] : k \in rowed}
    OBVIOUS
<1> HIDE DEF rowed, moved
<1>5. IsTable(moved, Battery)
    BY <1>2, <1>4 DEF IsTable
<1> QED
    BY <1>1, <1>3, <1>5 DEF IsTable, Over, Without

\* A migration keeps the registry's types.
LEMMA MigrateTypes ==
    ASSUME RegistryTypes, IsTable(published', Mappings), NEW pairs, NEW active,
           NEW barred \in BOOLEAN, DOMAIN pairs \subseteq Nat,
           \A k \in DOMAIN pairs : pairs[k] \in BatteryKeys,
           Migrate(pairs, active, barred)
    PROVE  RegistryTypes'
<1> DEFINE able == IF barred THEN {} ELSE Renames(pairs, active) \ (live \cap DOMAIN registry)
<1>1. PICK failing \in SUBSET (able \cap DOMAIN registry) :
          /\ Instantiate(Moved(pairs, able \ failing))
          /\ migrated' = migrated \cup (able \ failing)
          /\ suppressed' = barred
    BY DEF Migrate
<1>2. able \subseteq DOMAIN pairs
    BY DEF Renames
<1> HIDE DEF able
<1>3. IsTable(Moved(pairs, able \ failing), Battery)
    BY <1>2, MovedTypes
<1>4. IsTable(registry', Battery) /\ live' \subseteq BatteryKeys
    BY <1>1, <1>3, InstantiateTypes
<1>5. migrated' \subseteq Nat
    BY <1>1, <1>2 DEF RegistryTypes
<1>6. suppressed' \in BOOLEAN
    BY <1>1
<1> QED
    BY <1>4, <1>5, <1>6 DEF RegistryTypes

\* Each entry of f is the current one, or one that is held where none is.
FromBoth(f, current, held) ==
    \A k \in DOMAIN f : IF k \in DOMAIN current THEN f[k] = current[k]
                        ELSE k \in DOMAIN held /\ f[k] = held[k]

\* What is published and carried is of the current table and the held one.
LEMMA CarryForwardParts ==
    ASSUME NEW current, NEW held, NEW exclude, CarryForward(current, held, exclude)
    PROVE  FromBoth(published', current, held) /\ FromBoth(carryForward', current, held)
<1>1. PICK S \in Carried(current, held, exclude) :
          /\ published' = Over(current, [k \in S |-> held[k]])
          /\ carryForward' = IF Over(current, [k \in S |-> held[k]]) = Empty
                             THEN Without(held, Aged(held))
                             ELSE Over(current, [k \in S |-> held[k]])
    BY DEF CarryForward
<1> DEFINE all == Over(current, [k \in S |-> held[k]])
<1>2. S \subseteq DOMAIN held
    BY DEF Carried
<1>3. /\ DOMAIN all = DOMAIN current \cup S
      /\ \A k \in DOMAIN all : all[k] = IF k \in DOMAIN current THEN current[k] ELSE held[k]
    BY DEF Over
<1> HIDE DEF all
<1>4. FromBoth(all, current, held)
    BY <1>2, <1>3 DEF FromBoth
<1>5. CASE all = Empty
    <2>1. DOMAIN current = {}
        BY <1>3, <1>5 DEF Empty
    <2>2. FromBoth(Without(held, Aged(held)), current, held)
        BY <2>1 DEF FromBoth, Without
    <2> QED BY <1>1, <1>4, <1>5, <2>2 DEF all
<1>6. CASE all # Empty
    BY <1>1, <1>4, <1>6 DEF all
<1> QED
    BY <1>5, <1>6

\* What is of two tables of one type is a table of that type.
LEMMA BothTable ==
    ASSUME NEW f, NEW current, NEW held, NEW S, FromBoth(f, current, held),
           IsTable(current, S), IsTable(held, S)
    PROVE  IsTable(f, S)
BY DEF FromBoth, IsTable

\* Of some of the batteries that the portal has, one has the last number.
LEMMA LastIndex ==
    ASSUME NEW T \in SUBSET Battery, T # {}
    PROVE  \E c \in T : \A d \in T : CloudIndex[d] <= CloudIndex[c]
<1>1. PICK last \in Battery : \A b \in Battery : CloudIndex[b] <= CloudIndex[last]
    BY BatteryAssumption
<1>2. \A b \in Battery : CloudIndex[b] \in Nat
    BY BatteryAssumption
<1> DEFINE below == {CloudIndex[last] - CloudIndex[b] : b \in T}
<1>3. below \in SUBSET Nat /\ below # {}
    BY <1>1, <1>2
<1>4. PICK n \in below : \A k \in below : n <= k
    <2> HIDE DEF below
    <2> QED BY <1>3, LeastOf
<1>5. PICK c \in T : n = CloudIndex[last] - CloudIndex[c]
    OBVIOUS
<1>6. ASSUME NEW d \in T
      PROVE  CloudIndex[d] <= CloudIndex[c]
    <2>1. CloudIndex[last] - CloudIndex[c] <= CloudIndex[last] - CloudIndex[d]
        BY <1>4, <1>5
    <2> QED BY <1>2, <2>1
<1> QED
    BY <1>6

\* The portal's batteries are under the keys that they claim.
LEMMA BaselineParts ==
    ASSUME NEW cloud \in SUBSET Battery, NEW k \in DOMAIN Baseline(cloud)
    PROVE  \E b \in cloud : CloudKey(cloud, b) = k /\ Baseline(cloud)[k] = Mapping(b, serialOf[b], FALSE)
<1> DEFINE T == {c \in cloud : CloudKey(cloud, c) = k}
           OneOf(c) == /\ CloudKey(cloud, c) = k
                       /\ \A d \in cloud : CloudKey(cloud, d) = k => CloudIndex[d] <= CloudIndex[c]
           b == CHOOSE c \in cloud : OneOf(c)
<1>1. k \in {CloudKey(cloud, c) : c \in cloud} /\ Baseline(cloud)[k] = Mapping(b, serialOf[b], FALSE)
    BY DEF Baseline
<1>2. T # {} /\ T \in SUBSET Battery
    BY <1>1
<1>3. PICK c \in T : \A d \in T : CloudIndex[d] <= CloudIndex[c]
    <2> HIDE DEF T
    <2> QED BY <1>2, LastIndex
<1>4. c \in cloud /\ OneOf(c)
    BY <1>3
<1>5. b \in cloud /\ OneOf(b)
    <2> HIDE DEF OneOf
    <2> QED BY <1>4
<1> QED
    BY <1>1, <1>5

\* What the portal shows is a table of batteries.
LEMMA BaselineTable ==
    ASSUME serialOf \in Reports, NEW cloud \in SUBSET Battery
    PROVE  IsTable(Baseline(cloud), Mappings)
<1>1. serialOf \in [Battery -> Serial]
    BY BatteryAssumption
<1>2. ASSUME NEW k \in DOMAIN Baseline(cloud)
      PROVE  k \in BatteryKeys /\ Baseline(cloud)[k] \in Mappings
    <2>1. PICK b \in cloud : /\ CloudKey(cloud, b) = k
                             /\ Baseline(cloud)[k] = Mapping(b, serialOf[b], FALSE)
        BY BaselineParts
    <2>2. b \in Battery /\ serialOf[b] \in Serial /\ CloudIndex[b] \in Nat
        BY <1>1, BatteryAssumption
    <2>3. k \in BatteryKeys
        <3>1. Canonical(serialOf[b]) \in BatteryKeys
            BY <2>2, CanonicalType
        <3>2. CloudIndex[b] \in BatteryKeys
            BY <2>2 DEF BatteryKeys
        <3> QED BY <2>1, <3>1, <3>2 DEF CloudKey
    <2>4. Mapping(b, serialOf[b], FALSE) \in Mappings
        BY <2>2 DEF Mapping, Mappings
    <2> QED BY <2>1, <2>3, <2>4
<1> QED
    BY <1>2 DEF IsTable

\* The sweep keeps the types of the merge.
LEMMA SweptType ==
    ASSUME NEW m, MergeTypeOK(m)
    PROVE  MergeTypeOK(Swept(m))
<1>1. CASE m.firstSeen = firstSeen
    BY <1>1 DEF Swept
<1>2. CASE m.firstSeen # firstSeen
    <2> DEFINE retired == Unclaimed(m) \ m.claimed
               counts == [s \in Slots |-> IF s \in Served THEN m.polls[s] ELSE 0]
               w == Swept(m)
    <2>1. w = [m EXCEPT !.fallback = @ \ Unclaimed(m), !.cache = Without(@, retired),
                        !.carry = Without(@, retired), !.polls = counts]
        BY <1>2 DEF Swept
    <2>2. counts \in [Slots -> 0..ExposePolls]
        BY BatteryAssumption DEF MergeTypeOK
    <2>3. IsTable(Without(m.cache, retired), Mappings) /\ IsTable(Without(m.carry, retired), Mappings)
        BY DEF MergeTypeOK, IsTable, Without
    <2>4. DOMAIN m = Fields
        BY DEF MergeTypeOK
    <2> HIDE DEF w, retired, counts
    <2>5. /\ DOMAIN w = Fields
          /\ w.fallback = m.fallback \ Unclaimed(m) /\ w.positional = m.positional
          /\ w.cache = Without(m.cache, retired) /\ w.carry = Without(m.carry, retired)
          /\ w.polls = counts /\ w.firstSeen = m.firstSeen
        BY <2>1, <2>4 DEF Fields
    <2>6. w.barred \in BOOLEAN
        BY <2>1, <2>4 DEF Fields, MergeTypeOK
    <2> QED BY <2>2, <2>3, <2>5, <2>6 DEF MergeTypeOK, w
<1> QED
    BY <1>1, <1>2

\* So does the eviction.
LEMMA EvictedType ==
    ASSUME NEW m, MergeTypeOK(m)
    PROVE  MergeTypeOK(Evicted(m))
<1> DEFINE left == Evicted(m)
<1>1. {"cache", "carry"} \subseteq DOMAIN m /\ DOMAIN m = Fields
    BY DEF MergeTypeOK, Fields
<1>2. /\ EvictedResult(m, left) /\ DOMAIN left = Fields
      /\ \A x \in Fields \ {"cache", "carry"} : left[x] = m[x]
    BY <1>1, EvictedParts
<1> HIDE DEF left
<1>3. IsTable(left.cache, Mappings) /\ IsTable(left.carry, Mappings)
    BY <1>2 DEF EvictedResult, IsTable, MergeTypeOK
<1>4. /\ left.fallback = m.fallback /\ left.positional = m.positional
      /\ left.polls = m.polls /\ left.firstSeen = m.firstSeen
    BY <1>2 DEF Fields
<1>5. left.barred \in BOOLEAN
    BY <1>2 DEF Fields, MergeTypeOK
<1> QED
    BY <1>2, <1>3, <1>4, <1>5 DEF MergeTypeOK, left

-----------------------------------------------------------------------------
(* Updates                                                                 *)

\* An update leaves the bank as it is.
Unmoved == UNCHANGED <<portal, serialOf, installed, relapsed>>

\* The entries of a table are sound with what the update leaves besides.
SoundNow(f) == \A k \in DOMAIN f : EntrySound(k, f[k], fallbackKeys', firstSeen')

\* The tables are sound when they are with what the update leaves.
LEMMA SettledTables ==
    ASSUME Unmoved, SoundNow(rrCache'), SoundNow(carryForward'), SoundNow(published')
    PROVE  TableSound(rrCache)' /\ TableSound(carryForward)' /\ TableSound(published)'
BY DEF Unmoved, SoundNow, TableSound, EntrySound, Known

\* An update that reads no row keeps the types of the transport.
LEMMA NothingReadTypes ==
    ASSUME Types, Unmoved, UNCHANGED rows
    PROVE  TransportTypes'
BY DEF Types, TransportTypes, Unmoved

\* It keeps the rows sound.
LEMMA NothingReadRows ==
    ASSUME RowsSound, Unmoved, UNCHANGED <<rows, firstSeen>>
    PROVE  RowsSound'
BY DEF RowsSound, Served, Known, Unmoved

\* New readings keep the types of the transport.
LEMMA StampedTypes ==
    ASSUME Types, Unmoved, NEW poll \in Polls, rows' = Stamped(poll)
    PROVE  TransportTypes'
<1>1. BatteryTypeOK /\ ListsOK
    BY TypesSuffice
<1>2. rows' \in Seq(Mappings \cup {Empty}) /\ Len(rows') = Len(rows)
    BY <1>1, StampedRows
<1> QED
    BY <1>2 DEF Types, TransportTypes, Unmoved

\* New readings keep the rows sound when no serial that was seen is missing.
LEMMA StampedRowsSound ==
    ASSUME BatteryTypeOK, ListsOK, RowsSound, Unmoved, NEW poll \in Polls,
           rows' = Stamped(poll), RowsKnown(firstSeen')
    PROVE  RowsSound'
<1>1. /\ Stamped(poll) \in Seq(Mappings \cup {Empty})
      /\ Len(Stamped(poll)) = Len(rows)
      /\ \A s \in Served : /\ Stamped(poll)[s].of = rows[s].of
                           /\ Stamped(poll)[s].serial = rows[s].serial
      /\ \A s \in DOMAIN rows \ Served : Stamped(poll)[s] = Empty
    BY StampedRows
<1>2. DOMAIN rows' = DOMAIN rows
    BY <1>1 DEF ListsOK
<1>3. Served' \subseteq Served
    BY <1>1, <1>2 DEF Served
<1>4. \A s \in Served' : rows'[s].of = rows[s].of /\ rows'[s].serial = rows[s].serial
    BY <1>1, <1>3
<1> QED
    BY <1>3, <1>4 DEF RowsSound, RowsKnown, Known, Unmoved

\* What the merge of a poll leaves.
Left(poll) == Evicted(Merged(poll))

\* What a poll leaves has its types.
LEMMA LeftType ==
    ASSUME BatteryTypeOK, ListsOK, NEW poll \in Polls
    PROVE  MergeTypeOK(Left(poll)) /\ MergeTypeOK(Merged(poll))
BY MergedRowsType, SweptType, EvictedType DEF Left, Merged

\* What a poll leaves is sound, and so are the rows with it.
LEMMA LeftIsSound ==
    ASSUME BatteryTypeOK, ListsOK, Honest, IdentitySound, NEW poll \in Polls
    PROVE  /\ LeftSound(Left(poll))
           /\ RowsKnown(Left(poll).firstSeen)
           /\ DOMAIN Left(poll).carry \subseteq DOMAIN carryForward
<1> DEFINE m == MergedRows(poll)
           w == Swept(m)
           left == Left(poll)
<1>1. RowsSound /\ TableSound(rrCache) /\ TableSound(carryForward)
    BY DEF IdentitySound
<1>2. MergeSound(m, Len(rows), Stamped(poll))
    BY <1>1, RowsRead, MergedRowsSound
<1>3. DOMAIN m = Fields
    BY MergedRowsType DEF MergeTypeOK
<1>4. SweptResult(m, w)
    BY <1>3, SweptParts
<1>5. left = Evicted(w)
    BY DEF Left, Merged
<1> HIDE DEF m, w, left
<1>6. DOMAIN w = Fields /\ w.firstSeen = m.firstSeen
    BY <1>4 DEF SweptResult
<1>7. /\ EvictedResult(w, left)
      /\ left.fallback = w.fallback /\ left.firstSeen = w.firstSeen
    <2>1. {"cache", "carry"} \subseteq DOMAIN w /\ {"fallback", "firstSeen"} \subseteq DOMAIN w \ {"cache", "carry"}
        BY <1>6 DEF Fields
    <2>2. \A x \in DOMAIN w \ {"cache", "carry"} : left[x] = w[x]
        BY <1>5, <2>1, EvictedParts
    <2>3. EvictedResult(w, left)
        BY <1>5, <2>1, EvictedParts
    <2> QED BY <2>1, <2>2, <2>3
<1>8. LeftSound(left)
    BY <1>1, <1>2, <1>4, <1>7, SweptSound
<1>9. RowsKnown(left.firstSeen)
    BY <1>1, <1>2, <1>6, <1>7, SeenRowsKnown DEF MergeSound
<1>10. DOMAIN left.carry \subseteq DOMAIN carryForward
    <2>1. DOMAIN left.carry \subseteq DOMAIN w.carry
        BY <1>7 DEF EvictedResult
    <2>2. DOMAIN w.carry \subseteq DOMAIN m.carry
        BY <1>4 DEF SweptResult
    <2>3. DOMAIN m.carry \subseteq DOMAIN carryForward
        BY <1>2 DEF MergeSound, CarryOld
    <2> QED BY <2>1, <2>2, <2>3
<1> QED
    BY <1>8, <1>9, <1>10 DEF left

\* Renaming by the serials of a merge keeps the registry's types.
LEMMA AttributeTypes ==
    ASSUME RegistryTypes, IsTable(published', Mappings), NEW m, MergeTypeOK(m), Attribute(m)
    PROVE  RegistryTypes'
<1> DEFINE new == {i \in DOMAIN m.firstSeen : i > Len(firstSeen)}
           active == DOMAIN m.cache \cup {s \in Slots : m.polls[s] > 0}
           pairs == [i \in new |-> Canonical(m.firstSeen[i])]
           barred(many) == m.barred \/ (new # {} /\ (Len(m.firstSeen) > SlotsPerPage \/ many))
<1>1. PICK many \in BOOLEAN : Migrate(pairs, active, barred(many))
    BY DEF Attribute
<1>2. DOMAIN pairs \subseteq Nat /\ \A i \in DOMAIN pairs : m.firstSeen[i] \in Serial
    BY DEF MergeTypeOK
<1>3. \A i \in DOMAIN pairs : pairs[i] \in BatteryKeys
    BY <1>2, CanonicalType
<1>4. barred(many) \in BOOLEAN
    OBVIOUS
<1> HIDE DEF pairs, active, barred
<1> QED
    BY <1>1, <1>2, <1>3, <1>4, MigrateTypes

\* What an action has to keep.
Kept == Types' /\ (Honest => IdentitySound')

\* An update that merges a poll, whatever it makes of what it carries.
LEMMA MergeUpdateKeeps ==
    ASSUME IdentityInv, Unmoved, NEW poll \in Polls, rows' = Stamped(poll),
           KeepMerge(Left(poll)), Attribute(Merged(poll)),
           FromBoth(published', Left(poll).cache, Left(poll).carry),
           IF portal THEN FromBoth(carryForward', Left(poll).cache, Left(poll).carry)
           ELSE carryForward' = Left(poll).carry
    PROVE  Kept
<1> DEFINE left == Left(poll)
<1>0. BatteryTypeOK /\ ListsOK /\ Types
    BY TypesSuffice DEF IdentityInv
<1>1. MergeTypeOK(left) /\ MergeTypeOK(Merged(poll))
    BY <1>0, LeftType
<1>2. /\ rrCache' = left.cache /\ fallbackKeys' = left.fallback
      /\ noSerialPolls' = left.polls /\ firstSeen' = left.firstSeen
    BY DEF KeepMerge
<1> HIDE DEF left
<1>3. IsTable(left.cache, Mappings) /\ IsTable(left.carry, Mappings)
    BY <1>1 DEF MergeTypeOK
<1>4. IsTable(published', Mappings) /\ IsTable(carryForward', Mappings)
    <2>1. IsTable(published', Mappings)
        BY <1>3, BothTable DEF left
    <2>2. CASE portal
        BY <1>3, <2>1, <2>2, BothTable DEF left
    <2>3. CASE ~portal
        BY <1>3, <2>1, <2>3 DEF left
    <2> QED BY <2>2, <2>3
<1>5. KeyTypes'
    BY <1>1, <1>2, <1>4 DEF KeyTypes, MergeTypeOK
<1>6. RegistryTypes'
    BY <1>0, <1>1, <1>4, AttributeTypes DEF Types
<1>7. TransportTypes'
    BY <1>0, StampedTypes
<1>8. ASSUME Honest
      PROVE  IdentitySound'
    <2>0. IdentitySound
        BY <1>8 DEF IdentityInv
    <2>1. LeftSound(left) /\ RowsKnown(left.firstSeen) /\ DOMAIN left.carry \subseteq DOMAIN carryForward
        BY <1>0, <1>8, <2>0, LeftIsSound DEF left
    <2>2. RowsSound'
        BY <1>0, <1>2, <2>0, <2>1, StampedRowsSound DEF IdentitySound
    <2>3. SoundNow(rrCache')
        BY <1>2, <2>1 DEF SoundNow, LeftSound
    <2>4. SoundNow(published')
        BY <1>2, <2>1 DEF SoundNow, LeftSound, FromBoth, left
    <2>5. SoundNow(carryForward') /\ PortalCarries'
        <3>1. CASE portal
            BY <1>2, <2>1, <3>1 DEF SoundNow, LeftSound, FromBoth, left, PortalCarries, Unmoved
        <3>2. CASE ~portal
            <4>1. DOMAIN carryForward' = {}
                BY <2>0, <2>1, <3>2 DEF PortalCarries, IdentitySound, left
            <4> QED BY <4>1 DEF SoundNow, PortalCarries
        <3> QED BY <3>1, <3>2
    <2> QED BY <2>2, <2>3, <2>4, <2>5, SettledTables DEF IdentitySound
<1> QED
    BY <1>5, <1>6, <1>7, <1>8 DEF Kept, Types

\* An update of a coordinator without a portal keeps the invariant.
LEMMA LocalUpdateKeeps ==
    ASSUME IdentityInv, Unmoved, NEW poll \in Polls, LocalUpdate(poll)
    PROVE  Kept
<1>1. /\ KeepMerge(Left(poll)) /\ Attribute(Merged(poll)) /\ rows' = Stamped(poll)
      /\ carryForward' = Left(poll).carry /\ published' = Left(poll).cache
      /\ ~portal
    BY DEF LocalUpdate, Left
<1>2. FromBoth(published', Left(poll).cache, Left(poll).carry)
    BY <1>1 DEF FromBoth
<1> QED
    BY <1>1, <1>2, MergeUpdateKeeps

\* So does one where the merge stands in for the portal.
LEMMA StandInUpdateKeeps ==
    ASSUME IdentityInv, Unmoved, NEW poll \in Polls, StandInUpdate(poll)
    PROVE  Kept
<1>1. /\ KeepMerge(Left(poll)) /\ Attribute(Merged(poll)) /\ rows' = Stamped(poll)
      /\ CarryForward(Left(poll).cache, Left(poll).carry, DOMAIN Merged(poll).firstSeen)
      /\ portal
    BY DEF StandInUpdate, Left
<1>2. /\ FromBoth(published', Left(poll).cache, Left(poll).carry)
      /\ FromBoth(carryForward', Left(poll).cache, Left(poll).carry)
    BY <1>1, CarryForwardParts
<1> QED
    BY <1>1, <1>2, MergeUpdateKeeps

\* An update that leaves the cache and the keys alone, or evicts what has aged.
LEMMA NoMigrationTypes ==
    ASSUME RegistryTypes, IsTable(published', Mappings), NoMigration
    PROVE  RegistryTypes'
<1>1. Instantiate(registry) /\ UNCHANGED <<suppressed, migrated>>
    BY DEF NoMigration
<1>2. IsTable(registry, Battery)
    BY DEF RegistryTypes
<1>3. IsTable(registry', Battery) /\ live' \subseteq BatteryKeys
    BY <1>1, <1>2, InstantiateTypes
<1> QED
    BY <1>1, <1>3 DEF RegistryTypes

\* An update without rows keeps the invariant.
LEMMA LocalGapKeeps ==
    ASSUME IdentityInv, Unmoved, LocalGap
    PROVE  Kept
<1> DEFINE both == [cache |-> rrCache, carry |-> carryForward]
           left == Evicted(both)
<1>0. BatteryTypeOK /\ ListsOK /\ Types
    BY TypesSuffice DEF IdentityInv
<1>1. /\ rrCache' = left.cache /\ carryForward' = left.carry /\ published' = left.cache
      /\ NoMigration
      /\ UNCHANGED <<rows, fallbackKeys, noSerialPolls, firstSeen>>
    BY DEF LocalGap
<1>2. EvictedResult(both, left)
    BY EvictedParts
<1> HIDE DEF left
<1>3. /\ DOMAIN left.cache \subseteq DOMAIN rrCache
      /\ DOMAIN left.carry \subseteq DOMAIN carryForward
      /\ \A k \in DOMAIN left.cache : left.cache[k] = rrCache[k]
      /\ \A k \in DOMAIN left.carry : left.carry[k] = carryForward[k]
    BY <1>2 DEF EvictedResult
<1>4. KeyTypes'
    BY <1>0, <1>1, <1>3 DEF KeyTypes, IsTable, Types
<1>5. RegistryTypes'
    BY <1>0, <1>1, <1>4, NoMigrationTypes DEF Types, KeyTypes
<1>6. TransportTypes'
    BY <1>0, <1>1, NothingReadTypes
<1>7. ASSUME Honest
      PROVE  IdentitySound'
    <2>0. IdentitySound
        BY <1>7 DEF IdentityInv
    <2>1. RowsSound'
        BY <1>1, <2>0, NothingReadRows DEF IdentitySound
    <2>2. SoundNow(rrCache') /\ SoundNow(carryForward') /\ SoundNow(published')
        BY <1>1, <1>3, <2>0 DEF SoundNow, TableSound, IdentitySound
    <2>3. PortalCarries'
        BY <1>1, <1>3, <2>0 DEF PortalCarries, IdentitySound, Unmoved
    <2> QED BY <2>1, <2>2, <2>3, SettledTables DEF IdentitySound
<1> QED
    BY <1>4, <1>5, <1>6, <1>7 DEF Kept, Types

\* With a portal, what it shows takes the place of what is carried.
LEMMA PortalKeeps ==
    ASSUME IdentityInv, Unmoved, portal, NEW current, IsTable(current, Mappings),
           NEW exclude, CarryForward(current, carryForward, exclude),
           Honest => \A k \in DOMAIN current : current[k].serial # Unread /\ EntryNamed(k, current[k]),
           UNCHANGED <<rows, rrCache, fallbackKeys, noSerialPolls, firstSeen>>
    PROVE  TransportTypes' /\ KeyTypes' /\ (Honest => IdentitySound')
<1>0. Types
    BY TypesSuffice DEF IdentityInv
<1>1. /\ FromBoth(published', current, carryForward)
      /\ FromBoth(carryForward', current, carryForward)
    BY CarryForwardParts
<1>2. TransportTypes'
    BY <1>0, NothingReadTypes
<1>3. KeyTypes'
    <2>1. IsTable(carryForward, Mappings)
        BY <1>0 DEF Types, KeyTypes
    <2>2. IsTable(published', Mappings) /\ IsTable(carryForward', Mappings)
        BY <1>1, <2>1, BothTable
    <2> QED BY <1>0, <2>2 DEF Types, KeyTypes
<1>4. ASSUME Honest
      PROVE  IdentitySound'
    <2>0. IdentitySound
        BY <1>4 DEF IdentityInv
    <2>1. RowsSound'
        BY <2>0, NothingReadRows DEF IdentitySound
    <2>2. \A k \in DOMAIN current : EntrySound(k, current[k], fallbackKeys', firstSeen')
        BY <1>4 DEF EntrySound, EntryNamed
    <2>3. \A k \in DOMAIN carryForward : EntrySound(k, carryForward[k], fallbackKeys', firstSeen')
        BY <2>0 DEF IdentitySound, TableSound
    <2>4. SoundNow(carryForward') /\ SoundNow(published')
        BY <1>1, <2>2, <2>3 DEF SoundNow, FromBoth
    <2>5. SoundNow(rrCache')
        BY <2>0 DEF SoundNow, TableSound, IdentitySound
    <2>6. PortalCarries'
        BY DEF PortalCarries, Unmoved
    <2> QED BY <2>1, <2>4, <2>5, <2>6, SettledTables DEF IdentitySound
<1> QED
    BY <1>2, <1>3, <1>4

\* An update without batteries from either side keeps the invariant.
LEMMA HttpGapKeeps ==
    ASSUME IdentityInv, Unmoved, HttpGap
    PROVE  Kept
<1>1. /\ portal /\ CarryForward(Empty, carryForward, {}) /\ NoMigration
      /\ UNCHANGED <<rows, rrCache, fallbackKeys, noSerialPolls, firstSeen>>
    BY DEF HttpGap
<1>2. DOMAIN Empty = {} /\ IsTable(Empty, Mappings)
    BY DEF Empty, IsTable
<1>3. TransportTypes' /\ KeyTypes' /\ (Honest => IdentitySound')
    BY <1>1, <1>2, PortalKeeps
<1>4. RegistryTypes /\ IsTable(published', Mappings)
    BY <1>3, TypesSuffice DEF IdentityInv, Types, KeyTypes
<1>5. RegistryTypes'
    BY <1>1, <1>4, NoMigrationTypes
<1> QED
    BY <1>3, <1>5 DEF Kept, Types

\* What the portal shows is under the keys of the serials, and has just been read.
LEMMA BaselineNamed ==
    ASSUME Honest, serialOf \in Reports, NEW cloud \in SUBSET Battery,
           NEW k \in DOMAIN Baseline(cloud)
    PROVE  /\ Baseline(cloud)[k].serial # Unread
           /\ EntryNamed(k, Baseline(cloud)[k])
           /\ ~Baseline(cloud)[k].aged
<1>1. PICK b \in cloud : /\ CloudKey(cloud, b) = k
                         /\ Baseline(cloud)[k] = Mapping(b, serialOf[b], FALSE)
    BY BaselineParts
<1>2. b \in FirstToClaim(cloud)
    <2>1. \A c \in cloud : Canonical(serialOf[c]) = Canonical(serialOf[b]) => c = b
        BY DEF Honest
    <2>2. CloudIndex[b] <= CloudIndex[b]
        BY BatteryAssumption
    <2> QED BY <2>1, <2>2 DEF FirstToClaim
<1>3. k = Canonical(serialOf[b])
    BY <1>1, <1>2 DEF CloudKey
<1>4. serialOf[b] # Unread
    BY BatteryAssumption
<1> QED
    BY <1>1, <1>3, <1>4 DEF Mapping, EntryNamed

\* An update with batteries of the portal keeps the invariant.
LEMMA CloudUpdateKeeps ==
    ASSUME IdentityInv, Unmoved, NEW cloud \in SUBSET installed, CloudUpdate(cloud)
    PROVE  Kept
<1> DEFINE claims == FirstToClaim(cloud)
           numbers == {CloudIndex[b] : b \in claims}
           pairs == [n \in numbers |-> Canonical(serialOf[CHOOSE b \in claims : CloudIndex[b] = n])]
           barred == suppressed \/ claims # cloud
<1>0. Types
    BY TypesSuffice DEF IdentityInv
<1>1. /\ portal /\ CarryForward(Baseline(cloud), carryForward, numbers)
      /\ Migrate(pairs, DOMAIN Baseline(cloud), barred)
      /\ UNCHANGED <<rows, rrCache, fallbackKeys, noSerialPolls, firstSeen>>
    BY DEF CloudUpdate
<1>2. serialOf \in Reports /\ cloud \in SUBSET Battery /\ serialOf \in [Battery -> Serial]
    BY <1>0, BatteryAssumption DEF Types, TransportTypes
<1>3. IsTable(Baseline(cloud), Mappings)
    BY <1>2, BaselineTable
<1>4. Honest => \A k \in DOMAIN Baseline(cloud) :
                    Baseline(cloud)[k].serial # Unread /\ EntryNamed(k, Baseline(cloud)[k])
    BY <1>2, BaselineNamed
<1>5. TransportTypes' /\ KeyTypes' /\ (Honest => IdentitySound')
    <2> HIDE DEF numbers
    <2> QED BY <1>1, <1>3, <1>4, PortalKeeps
<1>6. RegistryTypes'
    <2>1. DOMAIN pairs \subseteq Nat
        BY <1>2, BatteryAssumption DEF FirstToClaim
    <2>2. ASSUME NEW n \in DOMAIN pairs
          PROVE  pairs[n] \in BatteryKeys
        <3>1. PICK b \in claims : CloudIndex[b] = n
            OBVIOUS
        <3>2. (CHOOSE c \in claims : CloudIndex[c] = n) \in claims
            BY <3>1
        <3>3. serialOf[CHOOSE c \in claims : CloudIndex[c] = n] \in Serial
            BY <1>2, <3>2 DEF FirstToClaim
        <3> QED BY <3>3, CanonicalType
    <2>3. barred \in BOOLEAN
        BY <1>0 DEF Types, RegistryTypes
    <2>4. RegistryTypes /\ IsTable(published', Mappings)
        BY <1>0, <1>5 DEF Types, KeyTypes
    <2> HIDE DEF pairs, barred
    <2> QED BY <1>1, <2>1, <2>2, <2>3, <2>4, MigrateTypes
<1> QED
    BY <1>5, <1>6 DEF Kept, Types

-----------------------------------------------------------------------------
(* The bank, the transport, time, and restarts                             *)

\* The tables stay sound when they are left alone, whatever the transport loses.
LEMMA TablesStay ==
    ASSUME IdentitySound, relapsed \subseteq relapsed',
           UNCHANGED <<portal, serialOf, fallbackKeys, firstSeen, rrCache, carryForward, published>>
    PROVE  /\ TableSound(rrCache)' /\ TableSound(carryForward)' /\ TableSound(published)'
           /\ PortalCarries'
BY DEF IdentitySound, TableSound, EntrySound, Known, PortalCarries

\* A battery that the transport reads first keeps the invariant.
LEMMA AppearsKeeps ==
    ASSUME IdentityInv, NEW b \in Battery, NEW n \in Serial \cup {Unread}, Appears(b, n)
    PROVE  Kept
<1> DEFINE row == Mapping(b, n, FALSE)
           last == Len(rows) + 1
<1>0. BatteryTypeOK /\ ListsOK /\ Types
    BY TypesSuffice DEF IdentityInv
<1>1. /\ Len(rows) < MaxSlot
      /\ \A s \in Served : rows[s].of # b
      /\ n \in {Unread, serialOf[b]}
      /\ rows' = Append(rows, row)
      /\ relapsed' = IF n = Unread /\ serialOf[b] \in ToSet(firstSeen)
                     THEN relapsed \cup {serialOf[b]} ELSE relapsed
      /\ UNCHANGED <<portal, serialOf, installed, rrCache, fallbackKeys, noSerialPolls, firstSeen,
                     carryForward, published, suppressed, migrated, registry, live>>
    BY DEF Appears, Environment, keyVars, registryVars
<1>2. row \in Mappings /\ row.of = b /\ row.serial = n
    BY DEF Mapping, Mappings
<1>3. serialOf[b] \in Serial
    BY <1>0, BatteryAssumption DEF Types, TransportTypes
<1> HIDE DEF row
<1>4. Len(rows) \in Nat /\ MaxSlot \in Nat /\ DOMAIN rows = 1..Len(rows)
    BY <1>0, BatteryAssumption DEF ListsOK
<1>5. /\ rows' \in Seq(Mappings \cup {Empty}) /\ Len(rows') = Len(rows) + 1
      /\ DOMAIN rows' = 1..last
      /\ rows'[last] = row
      /\ \A s \in DOMAIN rows : rows'[s] = rows[s]
    BY <1>0, <1>1, <1>2, <1>4 DEF ListsOK
<1>6. TransportTypes'
    BY <1>0, <1>1, <1>3, <1>4, <1>5 DEF Types, TransportTypes
<1>7. KeyTypes' /\ RegistryTypes'
    BY <1>0, <1>1 DEF Types, KeyTypes, RegistryTypes
<1>8. ASSUME Honest
      PROVE  IdentitySound'
    <2>0. IdentitySound
        BY <1>8 DEF IdentityInv
    <2>1. Served' \subseteq Served \cup {last} /\ last \notin Served
        BY <1>4, <1>5 DEF Served
    <2>2. relapsed \subseteq relapsed'
        BY <1>1
    <2>3. n = Unread => serialOf[b] \notin ToSet(firstSeen) \ relapsed'
        BY <1>1
    <2>4. \A s \in Served : rows'[s] = rows[s]
        BY <1>5 DEF Served
    <2>5. ASSUME NEW s \in Served', NEW t \in Served', rows'[s].of = rows'[t].of
          PROVE  s = t
        <3>1. \A r \in Served : rows'[r].of # b
            BY <1>1, <2>4
        <3>2. rows'[last].of = b
            BY <1>2, <1>5
        <3>3. \A q, r \in Served : rows'[q].of = rows'[r].of => q = r
            BY <2>0, <2>4 DEF IdentitySound, RowsSound
        <3> QED BY <2>1, <2>5, <3>1, <3>2, <3>3
    <2>6. ASSUME NEW s \in Served'
          PROVE  /\ rows'[s].serial \in {Unread, serialOf[rows'[s].of]}
                 /\ rows'[s].serial = Unread => serialOf[rows'[s].of] \notin ToSet(firstSeen) \ relapsed'
        <3>1. CASE s = last
            BY <1>1, <1>2, <1>5, <2>3, <3>1
        <3>2. CASE s \in Served
            BY <2>0, <2>2, <2>4, <3>2 DEF IdentitySound, RowsSound, Known
        <3> QED BY <2>1, <3>1, <3>2
    <2>7. RowsSound'
        BY <1>1, <2>5, <2>6 DEF RowsSound, Known
    <2> QED BY <1>1, <2>0, <2>2, <2>7, TablesStay DEF IdentitySound
<1> QED
    BY <1>6, <1>7, <1>8 DEF Kept, Types

\* A serial that becomes readable, in place or anew, keeps the invariant.
LEMMA SerialReadKeeps ==
    ASSUME IdentityInv, NEW s \in Served, SerialRead(s)
    PROVE  Kept
<1> DEFINE row == [rows[s] EXCEPT !.serial = serialOf[rows[s].of], !.aged = FALSE]
           last == Len(rows) + 1
<1>0. BatteryTypeOK /\ ListsOK /\ Types
    BY TypesSuffice DEF IdentityInv
<1>1. /\ \/ rows' = [rows EXCEPT ![s] = row]
         \/ /\ Len(rows) < MaxSlot
            /\ rows' = Append([rows EXCEPT ![s] = Empty], row)
      /\ UNCHANGED <<portal, serialOf, installed, rrCache, fallbackKeys, noSerialPolls, firstSeen,
                     carryForward, published, suppressed, migrated, registry, live, relapsed>>
    BY DEF SerialRead, Environment, keyVars, registryVars
<1>2. s \in DOMAIN rows /\ rows[s] \in Mappings
    BY <1>0 DEF Served, BatteryTypeOK
<1>3. serialOf[rows[s].of] \in Serial
    BY <1>0, <1>2, BatteryAssumption DEF Types, TransportTypes, Mappings
<1>4. row \in Mappings /\ row.of = rows[s].of /\ row.serial = serialOf[rows[s].of]
    BY <1>2, <1>3 DEF Mappings
<1>5. Len(rows) \in Nat /\ MaxSlot \in Nat /\ DOMAIN rows = 1..Len(rows) /\ Len(rows) <= MaxSlot
    BY <1>0, BatteryAssumption DEF ListsOK, BatteryTypeOK
<1> HIDE DEF row
\* The row is in its place, or behind the others, and nowhere else.
<1>6. \E place \in {s, last} :
          /\ rows' \in Seq(Mappings \cup {Empty}) /\ Len(rows') <= MaxSlot
          /\ DOMAIN rows' \subseteq DOMAIN rows \cup {place}
          /\ rows'[place] = row
          /\ \A t \in DOMAIN rows' \ {place, s} : rows'[t] = rows[t]
          /\ s = place \/ rows'[s] = Empty
    <2>1. CASE rows' = [rows EXCEPT ![s] = row]
        <3>1. rows' \in Seq(Mappings \cup {Empty}) /\ Len(rows') = Len(rows)
            BY <1>0, <1>2, <1>4, <2>1 DEF ListsOK
        <3>2. DOMAIN rows' = DOMAIN rows /\ rows'[s] = row /\ \A t \in DOMAIN rows' \ {s} : rows'[t] = rows[t]
            BY <1>2, <2>1
        <3> QED BY <1>5, <3>1, <3>2
    <2>2. CASE Len(rows) < MaxSlot /\ rows' = Append([rows EXCEPT ![s] = Empty], row)
        <3> DEFINE before == [rows EXCEPT ![s] = Empty]
        <3>1. before \in Seq(Mappings \cup {Empty}) /\ Len(before) = Len(rows)
            BY <1>0, <1>2 DEF ListsOK
        <3>2. before[s] = Empty /\ \A t \in DOMAIN rows \ {s} : before[t] = rows[t]
            BY <1>2
        <3> HIDE DEF before
        <3>3. /\ rows' \in Seq(Mappings \cup {Empty}) /\ Len(rows') = Len(rows) + 1
              /\ DOMAIN rows' = 1..last
              /\ rows'[last] = row
              /\ \A t \in DOMAIN rows : rows'[t] = before[t]
            BY <1>4, <1>5, <2>2, <3>1 DEF before
        <3>4. DOMAIN rows' = DOMAIN rows \cup {last} /\ Len(rows') <= MaxSlot
            BY <1>5, <2>2, <3>3
        <3> QED BY <1>2, <3>2, <3>3, <3>4
    <2> QED BY <1>1, <2>1, <2>2
<1>7. TransportTypes'
    BY <1>0, <1>1, <1>6 DEF Types, TransportTypes
<1>8. KeyTypes' /\ RegistryTypes'
    BY <1>0, <1>1 DEF Types, KeyTypes, RegistryTypes
<1>9. ASSUME Honest
      PROVE  IdentitySound'
    <2>0. IdentitySound
        BY <1>9 DEF IdentityInv
    <2>1. PICK place \in {s, last} :
              /\ DOMAIN rows' \subseteq DOMAIN rows \cup {place}
              /\ rows'[place] = row
              /\ \A t \in DOMAIN rows' \ {place, s} : rows'[t] = rows[t]
              /\ s = place \/ rows'[s] = Empty
        BY <1>6
    <2>2. ASSUME NEW t \in Served', t # place
          PROVE  t \in Served /\ t # s /\ rows'[t] = rows[t]
        BY <2>1, <2>2 DEF Served
    <2>3. ASSUME NEW t \in Served', NEW u \in Served', rows'[t].of = rows'[u].of
          PROVE  t = u
        <3>1. \A q, r \in Served : rows[q].of = rows[r].of => q = r
            BY <2>0 DEF IdentitySound, RowsSound
        <3>2. CASE t = place /\ u # place
            BY <1>4, <2>1, <2>2, <2>3, <3>1, <3>2
        <3>3. CASE t # place /\ u = place
            BY <1>4, <2>1, <2>2, <2>3, <3>1, <3>3
        <3>4. CASE t # place /\ u # place
            BY <2>2, <2>3, <3>1, <3>4
        <3> QED BY <3>2, <3>3, <3>4
    <2>4. ASSUME NEW t \in Served'
          PROVE  /\ rows'[t].serial \in {Unread, serialOf[rows'[t].of]}
                 /\ rows'[t].serial = Unread => ~Known(rows'[t].of, firstSeen)
        <3>1. CASE t = place
            BY <1>3, <1>4, <2>1, <3>1, BatteryAssumption
        <3>2. CASE t # place
            BY <2>0, <2>2, <3>2 DEF IdentitySound, RowsSound
        <3> QED BY <3>1, <3>2
    <2>5. RowsSound'
        BY <1>1, <2>3, <2>4 DEF RowsSound, Known
    <2> QED BY <1>1, <2>0, <2>5, TablesStay DEF IdentitySound
<1> QED
    BY <1>7, <1>8, <1>9 DEF Kept, Types

\* A transport that starts over keeps the invariant.
LEMMA StartsOverKeeps ==
    ASSUME IdentityInv, StartsOver
    PROVE  Kept
<1>0. Types
    BY TypesSuffice DEF IdentityInv
<1>1. /\ rows' = << >>
      /\ UNCHANGED <<portal, serialOf, installed, rrCache, fallbackKeys, noSerialPolls, firstSeen,
                     carryForward, published, suppressed, migrated, registry, live, relapsed>>
    BY DEF StartsOver, Environment, keyVars, registryVars
<1>2. Types'
    BY <1>0, <1>1, BatteryAssumption
       DEF Types, TransportTypes, KeyTypes, RegistryTypes
<1>3. ASSUME Honest
      PROVE  IdentitySound'
    <2>0. IdentitySound
        BY <1>3 DEF IdentityInv
    <2>1. Served' = {}
        BY <1>1 DEF Served
    <2>2. RowsSound'
        BY <2>1 DEF RowsSound
    <2> QED BY <1>1, <2>0, <2>2, TablesStay DEF IdentitySound
<1> QED
    BY <1>2, <1>3 DEF Kept

\* A battery taken out of the bank keeps the invariant.
LEMMA RemovedKeeps ==
    ASSUME IdentityInv, NEW b \in Battery, Removed(b)
    PROVE  Kept
<1>0. Types
    BY TypesSuffice DEF IdentityInv
<1>1. /\ installed' \subseteq installed
      /\ UNCHANGED <<portal, serialOf, rows, rrCache, fallbackKeys, noSerialPolls, firstSeen,
                     carryForward, published, suppressed, migrated, registry, live, relapsed>>
    BY DEF Removed, Environment, keyVars, registryVars
<1>2. Types'
    BY <1>0, <1>1 DEF Types, TransportTypes, KeyTypes, RegistryTypes
<1>3. ASSUME Honest
      PROVE  IdentitySound'
    <2>0. IdentitySound
        BY <1>3 DEF IdentityInv
    <2>1. RowsSound'
        BY <1>1, <2>0 DEF IdentitySound, RowsSound, Served, Known
    <2> QED BY <1>1, <2>0, <2>1, TablesStay DEF IdentitySound
<1> QED
    BY <1>2, <1>3 DEF Kept

\* An entry that has aged is the same battery, under the same key.
LEMMA AllAgedParts ==
    ASSUME NEW f, IsTable(f, Mappings)
    PROVE  /\ IsTable(AllAged(f), Mappings)
           /\ DOMAIN AllAged(f) = DOMAIN f
           /\ \A k \in DOMAIN f : AllAged(f)[k].of = f[k].of /\ AllAged(f)[k].serial = f[k].serial
BY DEF IsTable, AllAged, Mappings

\* Six hours keep the invariant: what has aged is under the same key.
LEMMA SixHoursKeeps ==
    ASSUME IdentityInv, SixHours
    PROVE  Kept
<1>0. BatteryTypeOK /\ ListsOK /\ Types
    BY TypesSuffice DEF IdentityInv
<1>1. /\ rows' = [s \in DOMAIN rows |->
                     IF s \in Served THEN [rows[s] EXCEPT !.aged = TRUE] ELSE Empty]
      /\ rrCache' = AllAged(rrCache)
      /\ carryForward' = AllAged(carryForward)
      /\ published' = AllAged(published)
      /\ UNCHANGED <<portal, serialOf, installed, fallbackKeys, noSerialPolls, firstSeen,
                     suppressed, migrated, registry, live, relapsed>>
    BY DEF SixHours, registryVars
<1>2. IsTable(rrCache, Mappings) /\ IsTable(carryForward, Mappings) /\ IsTable(published, Mappings)
    BY <1>0 DEF Types, KeyTypes
<1>3. DOMAIN rows = 1..Len(rows) /\ Len(rows) \in Nat
    BY <1>0 DEF ListsOK
<1>4. \A s \in Served : rows[s] \in Mappings
    BY <1>0 DEF Served, BatteryTypeOK
<1>5. ASSUME NEW s \in Served
      PROVE  /\ rows'[s] \in Mappings
             /\ rows'[s].of = rows[s].of /\ rows'[s].serial = rows[s].serial
    <2>1. s \in DOMAIN rows
        BY DEF Served
    <2> QED BY <1>1, <1>4, <2>1 DEF Mappings
<1>6. \A s \in DOMAIN rows \ Served : rows'[s] = Empty
    BY <1>1
<1>7. DOMAIN rows' = DOMAIN rows
    BY <1>1
<1>8. rows' \in Seq(Mappings \cup {Empty}) /\ Len(rows') = Len(rows)
    <2>1. rows' \in [1..Len(rows) -> Mappings \cup {Empty}]
        BY <1>1, <1>3, <1>5, <1>6
    <2> QED BY <1>3, <2>1
<1>9. TransportTypes' /\ RegistryTypes'
    BY <1>0, <1>1, <1>8 DEF Types, TransportTypes, RegistryTypes
<1>10. KeyTypes'
    BY <1>0, <1>1, <1>2, AllAgedParts DEF Types, KeyTypes
<1>11. ASSUME Honest
       PROVE  IdentitySound'
    <2>0. IdentitySound
        BY <1>11 DEF IdentityInv
    <2>1. Served' \subseteq Served
        BY <1>6, <1>7 DEF Served
    <2>2. RowsSound'
        <3>1. ASSUME NEW s \in Served', NEW t \in Served', rows'[s].of = rows'[t].of
              PROVE  s = t
            BY <1>5, <2>0, <2>1, <3>1 DEF IdentitySound, RowsSound
        <3>2. ASSUME NEW s \in Served'
              PROVE  /\ rows'[s].serial \in {Unread, serialOf[rows'[s].of]}
                     /\ rows'[s].serial = Unread => ~Known(rows'[s].of, firstSeen)
            BY <1>5, <2>0, <2>1 DEF IdentitySound, RowsSound
        <3>3. serialOf' = serialOf /\ firstSeen' = firstSeen /\ relapsed' = relapsed
            BY <1>1
        <3> QED BY <3>1, <3>2, <3>3 DEF RowsSound, Known
    <2>3. ASSUME NEW f, IsTable(f, Mappings), \A k \in DOMAIN f : EntrySound(k, f[k], fallbackKeys, firstSeen)
          PROVE  \A k \in DOMAIN AllAged(f) :
                     EntrySound(k, AllAged(f)[k], fallbackKeys', firstSeen')
        BY <1>1, <2>3, AllAgedParts DEF EntrySound
    <2>4. SoundNow(rrCache') /\ SoundNow(carryForward') /\ SoundNow(published')
        BY <1>1, <1>2, <2>0, <2>3 DEF IdentitySound, TableSound, SoundNow
    <2>5. PortalCarries'
        BY <1>1, <1>2, <2>0, AllAgedParts DEF IdentitySound, PortalCarries
    <2>6. Unmoved
        BY <1>1 DEF Unmoved
    <2> QED BY <2>2, <2>4, <2>5, <2>6, SettledTables DEF IdentitySound
<1> QED
    BY <1>9, <1>10, <1>11 DEF Kept, Types

\* A session begins with nothing but the registry.
LEMMA BeginsSound ==
    ASSUME rows = << >>, rrCache = Empty, carryForward = Empty, published = Empty
    PROVE  IdentitySound
<1>1. Served = {}
    BY DEF Served
<1>2. RowsSound
    BY <1>1 DEF RowsSound
<1>3. DOMAIN Empty = {}
    BY DEF Empty
<1>4. TableSound(rrCache) /\ TableSound(carryForward) /\ TableSound(published) /\ PortalCarries
    BY <1>3 DEF TableSound, PortalCarries
<1> QED
    BY <1>2, <1>4 DEF IdentitySound

\* A session begins with the types in order.
LEMMA BeginsTypes ==
    ASSUME rows = << >>, relapsed = {}, rrCache = Empty, carryForward = Empty, published = Empty,
           fallbackKeys = {}, noSerialPolls = [s \in Slots |-> 0], firstSeen = << >>,
           suppressed = FALSE, migrated = {}, live = {},
           portal \in BOOLEAN, serialOf \in Reports, installed \subseteq Battery,
           IsTable(registry, Battery)
    PROVE  Types
<1>1. DOMAIN Empty = {} /\ IsTable(Empty, Mappings)
    BY DEF Empty, IsTable
<1>2. TransportTypes
    BY BatteryAssumption DEF TransportTypes
<1>3. KeyTypes
    <2>1. IsInjective(firstSeen) /\ firstSeen \in Seq(Serial)
        BY DEF IsInjective
    <2>2. noSerialPolls \in [Slots -> 0..ExposePolls]
        BY BatteryAssumption
    <2> QED BY <1>1, <2>1, <2>2 DEF KeyTypes
<1>4. RegistryTypes
    BY DEF RegistryTypes
<1> QED
    BY <1>2, <1>3, <1>4 DEF Types

\* A restart keeps the invariant.
LEMMA NextSessionKeeps ==
    ASSUME IdentityInv, NextSession
    PROVE  Kept
<1>0. Types
    BY TypesSuffice DEF IdentityInv
<1>1. /\ portal' \in BOOLEAN /\ rows' = << >> /\ rrCache' = Empty /\ fallbackKeys' = {}
      /\ noSerialPolls' = [s \in Slots |-> 0] /\ firstSeen' = << >> /\ carryForward' = Empty
      /\ published' = Empty /\ suppressed' = FALSE /\ migrated' = {} /\ live' = {}
      /\ relapsed' = {}
      /\ UNCHANGED <<serialOf, installed, registry>>
    BY DEF NextSession
<1>2. serialOf' \in Reports /\ installed' \subseteq Battery /\ IsTable(registry', Battery)
    BY <1>0, <1>1 DEF Types, TransportTypes, RegistryTypes
<1>3. Types'
    <2>1. DOMAIN Empty = {} /\ IsTable(Empty, Mappings)
        BY DEF Empty, IsTable
    <2>2. TransportTypes'
        BY <1>1, <1>2, BatteryAssumption DEF TransportTypes
    <2>3. KeyTypes'
        BY <1>1, <2>1, BatteryAssumption DEF KeyTypes, IsInjective
    <2>4. RegistryTypes'
        BY <1>1, <1>2 DEF RegistryTypes
    <2> QED BY <2>2, <2>3, <2>4 DEF Types
<1>4. IdentitySound'
    <2>1. Served' = {}
        BY <1>1 DEF Served
    <2>2. RowsSound'
        BY <2>1 DEF RowsSound
    <2>3. DOMAIN Empty = {}
        BY DEF Empty
    <2> QED BY <1>1, <2>2, <2>3 DEF IdentitySound, TableSound, PortalCarries
<1> QED
    BY <1>3, <1>4 DEF Kept

-----------------------------------------------------------------------------
(* The theorems                                                            *)

\* The bank begins with nothing read.
LEMMA IdentityInit ==
    BatteryInit => IdentityInv
<1> SUFFICES ASSUME BatteryInit
             PROVE  IdentityInv
    OBVIOUS
<1>1. IsTable(registry, Battery)
    BY BatteryAssumption DEF BatteryInit, IsTable, BatteryKeys
<1>2. Types
    BY <1>1, BeginsTypes DEF BatteryInit
<1>3. IdentitySound
    BY BeginsSound DEF BatteryInit
<1> QED
    BY <1>2, <1>3, TypesSuffice DEF IdentityInv

\* Every step keeps the invariant.
LEMMA IdentityStep ==
    IdentityInv /\ [BatteryNext]_batteryVars => IdentityInv'
<1> SUFFICES ASSUME IdentityInv, [BatteryNext]_batteryVars
             PROVE  IdentityInv'
    OBVIOUS
<1>1. CASE UNCHANGED batteryVars
    <2>1. /\ UNCHANGED <<portal, serialOf, installed, rows, rrCache, fallbackKeys, noSerialPolls,
                         firstSeen, carryForward, published, suppressed, migrated, registry,
                         live, relapsed>>
        BY <1>1 DEF batteryVars, transportVars, keyVars, registryVars
    <2>2. Types'
        BY <2>1, TypesSuffice DEF IdentityInv, Types, TransportTypes, KeyTypes, RegistryTypes
    <2>3. ASSUME Honest
          PROVE  IdentitySound'
        BY <2>1, <2>3 DEF IdentityInv, IdentitySound, RowsSound, Served, TableSound, EntrySound,
                          Known, PortalCarries
    <2>4. BatteryTypeOK' /\ ListsOK'
        BY <2>2, TypesSuffice, PTL
    <2>5. Honest' => Honest
        BY <2>1 DEF Honest
    <2> QED BY <2>3, <2>4, <2>5 DEF IdentityInv
<1>2. CASE BatteryNext
    <2>1. Kept
        <3>1. CASE Update
            <4>1. Unmoved
                BY <3>1 DEF Update, Unmoved
            <4>2. ASSUME NEW poll \in Polls, MergeUpdate(poll)
                  PROVE  Kept
                BY <4>1, <4>2, LocalUpdateKeeps, StandInUpdateKeeps DEF MergeUpdate
            <4>3. ASSUME NEW cloud \in SUBSET installed, CloudUpdate(cloud)
                  PROVE  Kept
                BY <4>1, <4>3, CloudUpdateKeeps
            <4> QED BY <3>1, <4>1, <4>2, <4>3, LocalGapKeeps, HttpGapKeeps DEF Update
        <3> QED BY <1>2, <3>1, AppearsKeeps, SerialReadKeeps, StartsOverKeeps, RemovedKeeps,
                   SixHoursKeeps, NextSessionKeeps DEF BatteryNext
    <2>2. UNCHANGED serialOf
        BY <1>2 DEF BatteryNext, Update, Appears, SerialRead, StartsOver, Removed, SixHours, NextSession
    <2>3. BatteryTypeOK' /\ ListsOK'
        BY <2>1, TypesSuffice, PTL DEF Kept
    <2>4. Honest' => Honest
        BY <2>2 DEF Honest
    <2> QED BY <2>1, <2>3, <2>4 DEF IdentityInv, Kept
<1> QED
    BY <1>1, <1>2

\* The tables are sound, and no battery whose serial the merge has read is shown
\* under two keys, unless the transport has lost the serial since.
THEOREM OneIdentityAlways ==
    BatterySpec => []OneIdentity
<1>1. IdentityInv => OneIdentity
    <2> SUFFICES ASSUME IdentityInv, Honest, NEW j \in DOMAIN published, NEW k \in DOMAIN published,
                        published[k].of = published[j].of,
                        serialOf[published[j].of] \in ToSet(firstSeen) \ relapsed
                 PROVE  j = k
        BY DEF IdentityInv, OneIdentity
    <2>1. TableSound(published)
        BY DEF IdentityInv, IdentitySound
    <2> QED BY <2>1 DEF TableSound, EntrySound, Known
<1> QED
    BY <1>1, IdentityInit, IdentityStep, PTL DEF BatterySpec

-----------------------------------------------------------------------------
(* A battery that is current stays shown                                   *)

\* What is published can be published again: the merge has it, or with a portal
\* the carry-forward.
Backing == IF portal THEN carryForward ELSE rrCache

\* What is published is in the cache, or with a portal in the carry-forward.
Backed == \A k \in DOMAIN published : k \in DOMAIN Backing /\ Backing[k] = published[k]

\* What is published with a portal is carried.
LEMMA CarryForwardBacked ==
    ASSUME NEW current, NEW held, NEW exclude, CarryForward(current, held, exclude)
    PROVE  \A k \in DOMAIN published' : k \in DOMAIN carryForward' /\ carryForward'[k] = published'[k]
<1>1. PICK S \in Carried(current, held, exclude) :
          /\ published' = Over(current, [k \in S |-> held[k]])
          /\ carryForward' = IF Over(current, [k \in S |-> held[k]]) = Empty
                             THEN Without(held, Aged(held))
                             ELSE Over(current, [k \in S |-> held[k]])
    BY DEF CarryForward
<1>2. published' = Empty \/ carryForward' = published'
    BY <1>1
<1>3. DOMAIN Empty = {}
    BY DEF Empty
<1> QED
    BY <1>2, <1>3

\* Every step keeps what is published backed.
LEMMA BackedStep ==
    IdentityInv /\ Backed /\ [BatteryNext]_batteryVars => Backed'
<1> SUFFICES ASSUME IdentityInv, Backed, [BatteryNext]_batteryVars
             PROVE  Backed'
    OBVIOUS
<1>1. ASSUME UNCHANGED <<portal, rrCache, carryForward, published>>
      PROVE  Backed'
    BY <1>1 DEF Backed, Backing
<1>2. ASSUME ~portal', published' = rrCache'
      PROVE  Backed'
    BY <1>2 DEF Backed, Backing
<1>3. ASSUME portal',
             \A k \in DOMAIN published' : k \in DOMAIN carryForward' /\ carryForward'[k] = published'[k]
      PROVE  Backed'
    BY <1>3 DEF Backed, Backing
<1>4. CASE UNCHANGED batteryVars
    BY <1>1, <1>4 DEF batteryVars, transportVars, keyVars
<1>5. CASE Update
    <2>0. portal' = portal
        BY <1>5 DEF Update
    <2>1. ASSUME NEW poll \in Polls, LocalUpdate(poll)
          PROVE  Backed'
        <3>1. rrCache' = Evicted(Merged(poll)).cache /\ published' = Evicted(Merged(poll)).cache /\ ~portal
            BY <2>1 DEF LocalUpdate, KeepMerge
        <3> QED BY <1>2, <2>0, <3>1
    <2>2. ASSUME LocalGap
          PROVE  Backed'
        <3>1. published' = rrCache' /\ ~portal
            BY <2>2 DEF LocalGap
        <3> QED BY <1>2, <2>0, <3>1
    <2>3. ASSUME NEW poll \in Polls, StandInUpdate(poll)
          PROVE  Backed'
        <3>1. /\ portal
              /\ CarryForward(Evicted(Merged(poll)).cache, Evicted(Merged(poll)).carry,
                              DOMAIN Merged(poll).firstSeen)
            BY <2>3 DEF StandInUpdate
        <3> QED BY <1>3, <2>0, <3>1, CarryForwardBacked
    <2>4. ASSUME NEW cloud \in SUBSET installed, CloudUpdate(cloud)
          PROVE  Backed'
        <3>1. portal /\ CarryForward(Baseline(cloud), carryForward,
                                     {CloudIndex[b] : b \in FirstToClaim(cloud)})
            BY <2>4 DEF CloudUpdate
        <3> QED BY <1>3, <2>0, <3>1, CarryForwardBacked
    <2>5. ASSUME HttpGap
          PROVE  Backed'
        <3>1. portal /\ CarryForward(Empty, carryForward, {})
            BY <2>5 DEF HttpGap
        <3> QED BY <1>3, <2>0, <3>1, CarryForwardBacked
    <2> QED BY <1>5, <2>1, <2>2, <2>3, <2>4, <2>5 DEF Update, MergeUpdate
<1>6. ASSUME NEW b \in Battery, NEW n \in Serial \cup {Unread}, Appears(b, n)
      PROVE  Backed'
    BY <1>1, <1>6 DEF Appears, Environment, keyVars
<1>7. ASSUME NEW s \in Served, SerialRead(s)
      PROVE  Backed'
    BY <1>1, <1>7 DEF SerialRead, Environment, keyVars
<1>8. CASE StartsOver
    BY <1>1, <1>8 DEF StartsOver, Environment, keyVars
<1>9. ASSUME NEW b \in Battery, Removed(b)
      PROVE  Backed'
    BY <1>1, <1>9 DEF Removed, Environment, keyVars
<1>10. CASE SixHours
    <2>1. /\ rrCache' = AllAged(rrCache) /\ carryForward' = AllAged(carryForward)
          /\ published' = AllAged(published) /\ portal' = portal
        BY <1>10 DEF SixHours
    <2> QED BY <2>1 DEF Backed, Backing, AllAged
<1>11. CASE NextSession
    <2>1. published' = Empty
        BY <1>11 DEF NextSession
    <2> QED BY <2>1 DEF Backed, Empty
<1> QED
    BY <1>4, <1>5, <1>6, <1>7, <1>8, <1>9, <1>10, <1>11 DEF BatteryNext

\* Nothing under n, where there is anything, is of another battery or has aged.
FreshAt(f, n, b) == n \in DOMAIN f => f[n].of = b /\ ~f[n].aged

\* The merge loses nothing that was under n, and spoils nothing.
Spared(m, n, b) ==
    /\ FreshAt(m.cache, n, b)
    /\ n \in DOMAIN rrCache => n \in DOMAIN m.cache
    /\ n \in DOMAIN carryForward => n \in DOMAIN m.carry /\ m.carry[n] = carryForward[n]

\* No row that would be merged under n is of another battery or has aged.
RowsFresh(read, n, b) ==
    \A s \in Served : read[s].serial # Unread /\ Canonical(read[s].serial) = n
                          => read[s].of = b /\ ~read[s].aged

\* A step of the merge spares what is fresh.
LEMMA SparedStep ==
    ASSUME BatteryTypeOK, ListsOK, NEW poll \in Polls, NEW m, MergeTypeOK(m), NEW s,
           NEW n, n \notin Nat, NEW b, RowsFresh(Stamped(poll), n, b), Spared(m, n, b)
    PROVE  Spared(MergeStep(poll, m, s), n, b)
<1> DEFINE read == Stamped(poll)
<1>1. CASE s \notin Served \/ poll[s] = "unusable"
    BY <1>1 DEF MergeStep
<1>2. CASE ~(s \notin Served \/ poll[s] = "unusable")
    <2>0. s \in Served /\ s # n /\ DOMAIN m = Fields
        BY <1>2, StampedRows, BatteryAssumption DEF Slots, MergeTypeOK
    <2>1. MergeStep(poll, m, s) = MergeRow(m, s, read[s])
        BY <1>2 DEF MergeStep
    <2>2. RowsFresh(read, n, b)
        OBVIOUS
    <2> HIDE DEF read
    <2>3. ASSUME NEW next, next.carry = m.carry, next.cache \in {m.cache, Put(m.cache, s, read[s])}
          PROVE  Spared(next, n, b)
        <3>1. /\ n \in DOMAIN next.cache <=> n \in DOMAIN m.cache
              /\ n \in DOMAIN m.cache => next.cache[n] = m.cache[n]
            BY <2>0, <2>3 DEF Put
        <3> QED BY <2>3, <3>1 DEF Spared, FreshAt
    <2>4. CASE read[s].serial = Unread
        <3> DEFINE next == MergeSerialless(m, s, read[s])
        <3>1. MergeStep(poll, m, s) = next
            BY <2>1, <2>4 DEF MergeRow
        <3>2. SeriallessResult(m, s, read[s], next)
            BY <2>0, SeriallessParts
        <3> HIDE DEF next
        <3>3. next.carry = m.carry /\ next.cache \in {m.cache, Put(m.cache, s, read[s])}
            BY <3>2 DEF SeriallessResult, OthersKept, Unexposed, Exposed
        <3> QED BY <2>3, <3>1, <3>3
    <2>5. CASE read[s].serial # Unread /\ Canonical(read[s].serial) \in m.claimed
        <3> DEFINE next == MergeColliding(m, s, read[s])
        <3>1. MergeStep(poll, m, s) = next
            BY <2>1, <2>5 DEF MergeRow
        <3>2. CollidingResult(m, s, read[s], next)
            BY <2>0, CollidingParts
        <3> HIDE DEF next
        <3>3. next.carry = m.carry /\ next.cache \in {m.cache, Put(m.cache, s, read[s])}
            BY <3>2 DEF CollidingResult
        <3> QED BY <2>3, <3>1, <3>3
    <2>6. CASE read[s].serial # Unread /\ Canonical(read[s].serial) \notin m.claimed
        <3> DEFINE next == MergeNamed(m, s, read[s])
                   key == Canonical(read[s].serial)
                   retired == (m.fallback \cap {s}) \ {key}
        <3>1. MergeStep(poll, m, s) = next
            BY <2>1, <2>6 DEF MergeRow
        <3>2. NamedResult(m, s, read[s], next)
            BY <2>0, NamedParts
        <3> HIDE DEF next
        <3>3. /\ next.cache = Put(Without(m.cache, retired), key, read[s])
              /\ next.carry = Without(m.carry, retired)
            BY <3>2, Zenon DEF NamedResult
        <3>4. n \notin retired
            BY <2>0
        <3>5. n = key => read[s].of = b /\ ~read[s].aged
            BY <2>0, <2>2, <2>6 DEF RowsFresh
        <3> HIDE DEF retired, key
        <3>6. /\ n \in DOMAIN m.carry <=> n \in DOMAIN next.carry
              /\ n \in DOMAIN m.carry => next.carry[n] = m.carry[n]
            BY <3>3, <3>4 DEF Without
        <3>7. CASE n = key
            <4>1. n \in DOMAIN next.cache /\ next.cache[n] = read[s]
                BY <3>3, <3>7 DEF Put
            <4> QED BY <3>1, <3>5, <3>6, <3>7, <4>1 DEF Spared, FreshAt
        <3>8. CASE n # key
            <4>1. /\ n \in DOMAIN next.cache <=> n \in DOMAIN m.cache
                  /\ n \in DOMAIN m.cache => next.cache[n] = m.cache[n]
                BY <3>3, <3>4, <3>8 DEF Put, Without
            <4> QED BY <3>1, <3>6, <4>1 DEF Spared, FreshAt
        <3> QED BY <3>7, <3>8
    <2> QED BY <2>4, <2>5, <2>6
<1> QED
    BY <1>1, <1>2

\* All rows of a poll spare it.
LEMMA MergedRowsSpared ==
    ASSUME BatteryTypeOK, ListsOK, NEW poll \in Polls, NEW n, n \notin Nat, NEW b,
           RowsFresh(Stamped(poll), n, b), FreshAt(rrCache, n, b)
    PROVE  Spared(MergedRows(poll), n, b)
<1>1. Len(rows) \in Nat
    BY DEF ListsOK
<1>2. PICK upTo : /\ upTo[0] = MergeStart
                  /\ \A s \in 1..Len(rows) : upTo[s] = MergeStep(poll, upTo[s - 1], s)
                  /\ MergedRows(poll) = upTo[Len(rows)]
    BY <1>1, MergeChain
<1>3. Spared(MergeStart, n, b)
    BY DEF MergeStart, Spared
<1>4. MergeTypeOK(MergeStart)
    BY DEF MergeTypeOK, MergeStart, Fields, BatteryTypeOK, ListsOK
<1> DEFINE Good == {i \in Nat : i <= Len(rows) => MergeTypeOK(upTo[i]) /\ Spared(upTo[i], n, b)}
<1>5. 0 \in Good
    BY <1>2, <1>3, <1>4
<1>6. ASSUME NEW i \in Good, i < Len(rows)
      PROVE  i + 1 \in Good
    <2>1. i + 1 \in 1..Len(rows) /\ (i + 1) - 1 = i /\ i \in Nat /\ i <= Len(rows)
        BY <1>1, <1>6
    <2>2. /\ upTo[i + 1] = MergeStep(poll, upTo[i], i + 1)
          /\ MergeTypeOK(upTo[i]) /\ Spared(upTo[i], n, b)
        BY <1>2, <2>1
    <2>3. MergeTypeOK(upTo[i + 1])
        BY <2>2, MergeStepType
    <2>4. Spared(upTo[i + 1], n, b)
        BY <2>2, SparedStep
    <2> QED BY <2>1, <2>3, <2>4
<1>7. Len(rows) \in Good
    <2>1. Good \in SUBSET Nat
        OBVIOUS
    <2> HIDE DEF Good
    <2> QED BY <1>1, <1>5, <1>6, <2>1, UpTo
<1> QED
    BY <1>1, <1>2, <1>7

\* Neither the sweep of slots' keys nor the eviction of what has aged takes it.
LEMMA LeftSpared ==
    ASSUME BatteryTypeOK, ListsOK, NEW poll \in Polls, NEW n, n \notin Nat, NEW b,
           RowsFresh(Stamped(poll), n, b), FreshAt(rrCache, n, b)
    PROVE  Spared(Left(poll), n, b)
<1> DEFINE m == MergedRows(poll)
           w == Swept(m)
           left == Left(poll)
<1>1. Spared(m, n, b)
    BY MergedRowsSpared
<1>2. MergeTypeOK(m)
    BY MergedRowsType
<1>3. SweptResult(m, w)
    BY <1>2, SweptParts DEF MergeTypeOK
<1>4. left = Evicted(w)
    BY DEF Left, Merged
<1> HIDE DEF m, w, left
<1>5. n \notin Unclaimed(m)
    BY <1>2, BatteryAssumption DEF Unclaimed, MergeTypeOK, Slots
<1>6. /\ n \in DOMAIN w.cache <=> n \in DOMAIN m.cache
      /\ n \in DOMAIN m.cache => w.cache[n] = m.cache[n]
      /\ n \in DOMAIN w.carry <=> n \in DOMAIN m.carry
      /\ n \in DOMAIN m.carry => w.carry[n] = m.carry[n]
      /\ DOMAIN w = Fields
    BY <1>3, <1>5 DEF SweptResult
<1>7. EvictedResult(w, left)
    BY <1>4, <1>6, EvictedParts DEF Fields
<1>8. n \notin Aged(w.cache)
    BY <1>1, <1>6 DEF Spared, FreshAt, Aged
<1>9. /\ n \in DOMAIN left.cache <=> n \in DOMAIN w.cache
      /\ n \in DOMAIN w.cache => left.cache[n] = w.cache[n]
      /\ n \in DOMAIN left.carry <=> n \in DOMAIN w.carry
      /\ n \in DOMAIN w.carry => left.carry[n] = w.carry[n]
    BY <1>7, <1>8 DEF EvictedResult
<1> QED
    BY <1>1, <1>6, <1>9 DEF Spared, FreshAt, left

\* What is held of a battery, under the key of its serial and not aged, is carried,
\* unless the battery is current: the positions that are excluded are no serials'.
LEMMA CarryShown ==
    ASSUME Honest, NEW current, NEW held, NEW exclude, CarryForward(current, held, exclude),
           exclude \subseteq Nat, IsTable(current, Mappings), IsTable(held, Mappings),
           NEW b \in Battery, NEW n \in Serial, n = serialOf[b], n \in DOMAIN held,
           held[n].of = b, ~held[n].aged, held[n].serial = n, FreshAt(current, n, b),
           \A k \in DOMAIN current : current[k].serial # Unread => EntryNamed(k, current[k]),
           \A k \in DOMAIN held \ DOMAIN current :
               held[k].serial # Unread => EntryNamed(k, held[k])
    PROVE  \E k \in DOMAIN published' : published'[k].of = b
<1>1. PICK S \in Carried(current, held, exclude) : published' = Over(current, [k \in S |-> held[k]])
    BY DEF CarryForward
<1> DEFINE kept == DOMAIN held \ (DOMAIN current \cup Aged(held) \cup exclude)
           able == {k \in kept : held[k].serial \notin SerialsIn(current)}
<1>2. /\ S \subseteq able
      /\ \A k \in able \ S : held[k].serial \in SerialsIn([j \in S |-> held[j]])
    BY DEF Carried
<1>3. /\ \A k \in DOMAIN current : k \in DOMAIN published' /\ published'[k] = current[k]
      /\ \A k \in S : k \in DOMAIN published' /\ published'[k] = held[k]
    BY <1>1, <1>2 DEF Over
<1>4. n # Unread /\ n \notin Nat
    BY BatteryAssumption
\* An entry with the serial is one of the battery.
<1>5. ASSUME NEW e \in Mappings, NEW k, e.serial = n, EntryNamed(k, e)
      PROVE  e.of = b
    <2>1. serialOf[e.of] = serialOf[b] /\ e.of \in Battery
        BY <1>5 DEF EntryNamed, Mappings
    <2> QED BY <2>1 DEF Honest
<1>6. CASE n \in DOMAIN current
    BY <1>3, <1>6 DEF FreshAt
<1>7. CASE n \notin DOMAIN current /\ n \in SerialsIn(current)
    <2>1. PICK k \in DOMAIN current : current[k].serial = n
        BY <1>7 DEF SerialsIn
    <2>2. current[k] \in Mappings /\ EntryNamed(k, current[k])
        BY <1>4, <2>1 DEF IsTable
    <2>3. current[k].of = b
        BY <1>5, <2>1, <2>2
    <2> QED BY <1>3, <2>3
<1>8. CASE n \notin DOMAIN current /\ n \notin SerialsIn(current)
    <2>1. n \in able
        BY <1>4, <1>8 DEF Aged
    <2>2. CASE n \in S
        BY <1>3, <2>2
    <2>3. CASE n \notin S
        <3>1. n \in SerialsIn([j \in S |-> held[j]])
            BY <1>2, <2>1, <2>3
        <3>2. PICK k \in S : held[k].serial = n
            BY <3>1 DEF SerialsIn
        <3>3. k \in DOMAIN held \ DOMAIN current
            BY <1>2
        <3>4. held[k] \in Mappings /\ EntryNamed(k, held[k])
            BY <1>4, <3>2, <3>3 DEF IsTable
        <3>5. held[k].of = b
            BY <1>5, <3>2, <3>4
        <3> QED BY <1>3, <3>5
    <2> QED BY <2>2, <2>3
<1> QED
    BY <1>6, <1>7, <1>8

\* Nothing that has aged is published.
LEMMA CarryForwardFresh ==
    ASSUME NEW current, NEW held, NEW exclude, CarryForward(current, held, exclude),
           Aged(current) = {}
    PROVE  Aged(published') = {}
<1>1. PICK S \in Carried(current, held, exclude) : published' = Over(current, [k \in S |-> held[k]])
    BY DEF CarryForward
<1>2. S \cap (DOMAIN current \cup Aged(held)) = {} /\ S \subseteq DOMAIN held
    BY DEF Carried
<1> QED
    BY <1>1, <1>2 DEF Aged, Over

\* The eviction leaves nothing aged in the cache.
LEMMA EvictedFresh ==
    ASSUME NEW w, {"cache", "carry"} \subseteq DOMAIN w
    PROVE  Aged(Evicted(w).cache) = {}
<1>1. EvictedResult(w, Evicted(w))
    BY EvictedParts
<1> QED
    BY <1>1 DEF EvictedResult, Aged

\* No update publishes what has aged.
LEMMA UpdateFresh ==
    ASSUME IdentityInv, Update
    PROVE  Aged(published') = {}
<1>0. BatteryTypeOK /\ ListsOK
    BY DEF IdentityInv
<1>1. ASSUME NEW poll \in Polls
      PROVE  Aged(Evicted(Merged(poll)).cache) = {}
    BY <1>0, LeftType, EvictedFresh DEF MergeTypeOK, Fields
<1>2. ASSUME NEW poll \in Polls, LocalUpdate(poll)
      PROVE  Aged(published') = {}
    BY <1>1, <1>2 DEF LocalUpdate
<1>3. CASE LocalGap
    <2> DEFINE both == [cache |-> rrCache, carry |-> carryForward]
    <2>1. published' = Evicted(both).cache
        BY <1>3 DEF LocalGap
    <2>2. {"cache", "carry"} \subseteq DOMAIN both
        OBVIOUS
    <2> HIDE DEF both
    <2> QED BY <2>1, <2>2, EvictedFresh
<1>4. ASSUME NEW poll \in Polls, StandInUpdate(poll)
      PROVE  Aged(published') = {}
    <2>1. CarryForward(Evicted(Merged(poll)).cache, Evicted(Merged(poll)).carry,
                       DOMAIN Merged(poll).firstSeen)
        BY <1>4 DEF StandInUpdate
    <2> QED BY <1>1, <2>1, CarryForwardFresh
<1>5. ASSUME NEW cloud \in SUBSET installed, CloudUpdate(cloud)
      PROVE  Aged(published') = {}
    <2>1. CarryForward(Baseline(cloud), carryForward, {CloudIndex[b] : b \in FirstToClaim(cloud)})
        BY <1>5 DEF CloudUpdate
    <2>2. cloud \in SUBSET Battery
        BY <1>0 DEF BatteryTypeOK
    <2>3. Aged(Baseline(cloud)) = {}
        <3>1. \A k \in DOMAIN Baseline(cloud) : ~Baseline(cloud)[k].aged
            BY <2>2, BaselineParts DEF Mapping
        <3> QED BY <3>1 DEF Aged
    <2> QED BY <2>1, <2>3, CarryForwardFresh
<1>6. CASE HttpGap
    <2>1. CarryForward(Empty, carryForward, {})
        BY <1>6 DEF HttpGap
    <2>2. Aged(Empty) = {}
        BY DEF Aged, Empty
    <2> QED BY <2>1, <2>2, CarryForwardFresh
<1> QED
    BY <1>2, <1>3, <1>4, <1>5, <1>6 DEF Update, MergeUpdate

\* An update shows the battery again.
LEMMA UpdateShows ==
    ASSUME IdentityInv, Backed, Update, Honest, NEW b \in Battery,
           Placeholder[serialOf[b]] = 0, Current(b), ~AgedLocally(b)
    PROVE  ShownAs(b)' # {}
<1> DEFINE n == serialOf[b]
<1>0. BatteryTypeOK /\ ListsOK /\ IdentitySound /\ Types
    BY TypesSuffice DEF IdentityInv
<1>1. n \in Serial /\ n \notin Nat /\ n # Unread /\ Canonical(n) = n
    BY <1>0, BatteryAssumption DEF Types, TransportTypes, Canonical
<1> HIDE DEF n
<1>2. SUFFICES \E k \in DOMAIN published' : published'[k].of = b
    BY DEF ShownAs
\* What is shown of it now is under its key.
<1>3. /\ n \in DOMAIN published /\ published[n].of = b /\ ~published[n].aged
      /\ published[n].serial = n
    <2>1. PICK k \in DOMAIN published : /\ published[k].of = b /\ ~published[k].aged
                                        /\ published[k].serial # Unread
        BY DEF Current, ShownAs
    <2>2. published[k].serial = serialOf[b] /\ k = Canonical(serialOf[b])
        BY <1>0, <2>1 DEF IdentitySound, TableSound, EntrySound
    <2> QED BY <1>1, <2>1, <2>2 DEF n
<1>4. n \in DOMAIN Backing /\ Backing[n] = published[n]
    BY <1>3 DEF Backed
\* Nothing local under its key is another's, or has aged.
<1>5. ASSUME NEW e \in Mappings, EntryNamed(n, e)
      PROVE  e.of = b
    <2>1. Canonical(serialOf[e.of]) = n /\ e.of \in Battery /\ Canonical(serialOf[b]) = n
        BY <1>1, <1>5 DEF EntryNamed, Mappings, n
    <2> QED BY <2>1 DEF Honest
<1>6. FreshAt(rrCache, n, b)
    <2> SUFFICES ASSUME n \in DOMAIN rrCache
                 PROVE  rrCache[n].of = b /\ ~rrCache[n].aged
        BY DEF FreshAt
    <2>1. EntrySound(n, rrCache[n], fallbackKeys, firstSeen)
        BY <1>0 DEF IdentitySound, TableSound
    <2>2. n \notin fallbackKeys
        <3>1. fallbackKeys \subseteq Slots
            BY <1>0 DEF BatteryTypeOK
        <3>2. Slots \subseteq Nat
            BY BatteryAssumption DEF Slots
        <3> QED BY <1>1, <3>1, <3>2
    <2>3. rrCache[n] \in Mappings
        BY <1>0 DEF Types, KeyTypes, IsTable
    <2>4. EntryNamed(n, rrCache[n])
        BY <2>1, <2>2 DEF EntrySound, EntryNamed
    <2>5. rrCache[n].of = b
        BY <1>5, <2>3, <2>4
    <2> QED BY <2>5 DEF AgedLocally, Aged
<1>7. ASSUME NEW poll \in Polls
      PROVE  RowsFresh(Stamped(poll), n, b)
    <2> SUFFICES ASSUME NEW s \in Served, Stamped(poll)[s].serial # Unread,
                        Canonical(Stamped(poll)[s].serial) = n
                 PROVE  Stamped(poll)[s].of = b /\ ~Stamped(poll)[s].aged
        BY DEF RowsFresh
    <2>1. RowRead(Stamped(poll), s)
        BY <1>0, RowsRead DEF IdentitySound
    <2>2. Stamped(poll)[s].of = b
        BY <1>5, <2>1 DEF RowRead, EntryNamed
    <2>3. rows[s].of = b /\ rows[s] \in Mappings
        BY <1>0, <2>2, StampedRows DEF Served, BatteryTypeOK
    <2>4. ~rows[s].aged
        BY <2>3 DEF AgedLocally
    <2>5. Stamped(poll)[s] = IF poll[s] = "fresh" THEN [rows[s] EXCEPT !.aged = FALSE] ELSE rows[s]
        BY DEF Stamped, Served
    <2>6. ~Stamped(poll)[s].aged
        BY <2>3, <2>4, <2>5 DEF Mappings
    <2> QED BY <2>2, <2>6
<1>8. ASSUME NEW poll \in Polls
      PROVE  Spared(Left(poll), n, b) /\ LeftSound(Left(poll)) /\ MergeTypeOK(Left(poll))
    BY <1>0, <1>1, <1>6, <1>7, LeftSpared, LeftIsSound, LeftType
<1>9. ASSUME NEW poll \in Polls, LocalUpdate(poll)
      PROVE  \E k \in DOMAIN published' : published'[k].of = b
    <2>1. published' = Left(poll).cache /\ ~portal
        BY <1>9 DEF LocalUpdate, Left
    <2>2. n \in DOMAIN rrCache
        BY <1>4, <2>1 DEF Backing
    <2> QED BY <1>8, <2>1, <2>2 DEF Spared, FreshAt
<1>10. CASE LocalGap
    <2> DEFINE both == [cache |-> rrCache, carry |-> carryForward]
               left == Evicted(both)
    <2>1. published' = left.cache /\ ~portal
        BY <1>10 DEF LocalGap
    <2>2. EvictedResult(both, left)
        BY EvictedParts
    <2> HIDE DEF left
    <2>3. n \in DOMAIN rrCache /\ n \notin Aged(rrCache) /\ rrCache[n].of = b
        BY <1>4, <1>6, <2>1 DEF Backing, FreshAt, Aged
    <2>4. n \in DOMAIN left.cache /\ left.cache[n] = rrCache[n]
        BY <2>2, <2>3 DEF EvictedResult
    <2> QED BY <2>1, <2>3, <2>4
\* With a portal, it is in the carry-forward.
<1>11. ASSUME portal
       PROVE  /\ n \in DOMAIN carryForward /\ carryForward[n].of = b /\ ~carryForward[n].aged
              /\ carryForward[n].serial = n
    BY <1>3, <1>4, <1>11 DEF Backing
<1>12. IsTable(carryForward, Mappings)
    BY <1>0 DEF Types, KeyTypes
<1>13. \A k \in DOMAIN carryForward : carryForward[k].serial # Unread => EntryNamed(k, carryForward[k])
    BY <1>0 DEF IdentitySound, TableSound, EntrySound, EntryNamed
<1>14. ASSUME NEW poll \in Polls, StandInUpdate(poll)
       PROVE  \E k \in DOMAIN published' : published'[k].of = b
    <2> DEFINE left == Left(poll)
    <2>1. /\ portal
          /\ CarryForward(left.cache, left.carry, DOMAIN Merged(poll).firstSeen)
        BY <1>14 DEF StandInUpdate, Left
    <2>2. DOMAIN Merged(poll).firstSeen \subseteq Nat
        BY <1>0, LeftType DEF MergeTypeOK
    <2> HIDE DEF left
    <2>3. IsTable(left.cache, Mappings) /\ IsTable(left.carry, Mappings)
        BY <1>8 DEF MergeTypeOK, left
    <2>4. n \in DOMAIN left.carry /\ left.carry[n] = carryForward[n] /\ FreshAt(left.cache, n, b)
        BY <1>8, <1>11, <2>1 DEF Spared, left
    <2>5. /\ \A k \in DOMAIN left.cache : left.cache[k].serial # Unread => EntryNamed(k, left.cache[k])
          /\ \A k \in DOMAIN left.carry \ DOMAIN left.cache :
                 left.carry[k].serial # Unread => EntryNamed(k, left.carry[k])
        BY <1>8 DEF LeftSound, EntrySound, EntryNamed, left
    <2>6. left.carry[n].of = b /\ ~left.carry[n].aged /\ left.carry[n].serial = n
        BY <1>11, <2>1, <2>4
    <2> QED BY <1>1, <2>1, <2>2, <2>3, <2>4, <2>5, <2>6, CarryShown DEF n
<1>15. ASSUME NEW cloud \in SUBSET installed, CloudUpdate(cloud)
       PROVE  \E k \in DOMAIN published' : published'[k].of = b
    <2> DEFINE numbers == {CloudIndex[c] : c \in FirstToClaim(cloud)}
               current == Baseline(cloud)
    <2>1. portal /\ CarryForward(current, carryForward, numbers)
        BY <1>15 DEF CloudUpdate
    <2>2. cloud \in SUBSET Battery /\ serialOf \in Reports
        BY <1>0 DEF BatteryTypeOK
    <2>3. numbers \subseteq Nat
        BY <2>2, BatteryAssumption DEF FirstToClaim
    <2>4. IsTable(current, Mappings)
        BY <2>2, BaselineTable
    <2>5. ASSUME NEW k \in DOMAIN current
          PROVE  EntryNamed(k, current[k]) /\ ~current[k].aged
        BY <2>2, <2>5, BaselineNamed
    <2> HIDE DEF numbers, current
    <2>6. FreshAt(current, n, b)
        BY <1>5, <2>4, <2>5 DEF FreshAt, IsTable
    <2> QED BY <1>1, <1>11, <1>12, <1>13, <2>1, <2>3, <2>4, <2>5, <2>6, CarryShown DEF n
<1>16. CASE HttpGap
    <2>1. portal /\ CarryForward(Empty, carryForward, {})
        BY <1>16 DEF HttpGap
    <2>2. DOMAIN Empty = {} /\ IsTable(Empty, Mappings) /\ FreshAt(Empty, n, b)
        BY DEF Empty, IsTable, FreshAt
    <2>3. {} \subseteq Nat
        OBVIOUS
    <2> HIDE DEF Empty
    <2> QED BY <1>1, <1>11, <1>12, <1>13, <2>1, <2>2, <2>3, CarryShown DEF n
<1> QED
    BY <1>9, <1>10, <1>14, <1>15, <1>16 DEF Update, MergeUpdate

\* The events are counted.
LEMMA EventsCounted ==
    ASSUME events \in Nat, [BatteryNext]_batteryVars
    PROVE  events' \in Nat
<1>1. CASE UNCHANGED batteryVars
    BY <1>1 DEF batteryVars
<1>2. CASE Event
    BY <1>2 DEF Event
<1>3. CASE BatteryNext
    <2>1. BatteryNext => Event \/ events' = events
        BY DEF BatteryNext, Update, Appears, SerialRead, StartsOver, Removed, SixHours, NextSession
    <2> QED BY <1>2, <1>3, <2>1
<1> QED BY <1>1, <1>3

\* A battery that has been shown stays shown, whatever the portal omits, the
\* transport loses or the slots are numbered, until six hours pass without a
\* reading of it; what has aged goes with the next update.
THEOREM ShownAlwaysWhileCurrent ==
    BatterySpec => ShownWhileCurrent
<1> DEFINE Shown == /\ events' = events =>
                           \A b \in Battery :
                               Honest /\ Placeholder[serialOf[b]] = 0 /\ Current(b) /\ ~AgedLocally(b)
                                   => ShownAs(b)' # {}
                    /\ Aged(published') = {} \/ ~Update
<1> DEFINE Inv == IdentityInv /\ Backed /\ events \in Nat
<1>1. BatteryInit => Inv
    <2>1. BatteryInit => Backed /\ events \in Nat
        BY DEF BatteryInit, Backed, Empty
    <2> QED BY <2>1, IdentityInit
<1>2. Inv /\ [BatteryNext]_batteryVars => Inv'
    BY IdentityStep, BackedStep, EventsCounted
<1>3. Inv /\ [BatteryNext]_batteryVars => [Shown]_batteryVars
    <2> SUFFICES ASSUME IdentityInv, Backed, events \in Nat, BatteryNext
                 PROVE  Shown
        OBVIOUS
    <2>1. Aged(published') = {} \/ ~Update
        BY UpdateFresh
    <2>2. ASSUME events' = events, NEW b \in Battery, Honest, Placeholder[serialOf[b]] = 0,
                 Current(b), ~AgedLocally(b)
          PROVE  ShownAs(b)' # {}
        <3>1. CASE Update
            BY <2>2, <3>1, UpdateShows
        <3>2. ASSUME published' = published
              PROVE  ShownAs(b)' # {}
            BY <2>2, <3>2 DEF Current, ShownAs
        <3>3. ~Event
            BY <2>2 DEF Event
        <3>4. Update \/ published' = published
            BY <3>3 DEF BatteryNext, Appears, SerialRead, StartsOver, Removed, SixHours, NextSession,
                        Environment, keyVars
        <3> QED BY <3>1, <3>2, <3>4
    <2> QED BY <2>1, <2>2
<1> QED
    BY <1>1, <1>2, <1>3, PTL DEF BatterySpec, ShownWhileCurrent

=============================================================================
