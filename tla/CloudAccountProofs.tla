-------------------------- MODULE CloudAccountProofs --------------------------
(***************************************************************************)
(* Proofs about what the entries of one cloud account share: the firmware  *)
(* request and the request budget.                                         *)
(***************************************************************************)
EXTENDS CloudBudget, FirmwareFlight, FiniteSetTheorems, TLAPS

-----------------------------------------------------------------------------
(***************************************************************************)
(* Proofs about FirmwareFlight, for any entries, any calls and any number  *)
(* of raw requests.                                                        *)
(***************************************************************************)

USE DEF flightVars, sharedVars, rawVars, callVars

\* A call awaits a request exactly while it waits, one that was created, for
\* an entry that was loaded before.
CallsAwait ==
    /\ \A c \in Call :
        /\ got[c] = "waiting" <=> on[c] # NoTask
        /\ on[c] # NoTask => raw[on[c]] # "new" /\ entry[EntryOf[c]] # "new"
    /\ \A e \in owners : entry[e] # "new"

\* Callbacks run for what is over; what was retired had been created.
RequestsEnd ==
    /\ \A t \in settled : Done(t)
    /\ \A t \in retired : raw[t] # "new"

\* The flight's own request is neither told to stop nor retired.
CurrentRuns ==
    task # NoTask => raw[task] \in {"running"} \cup Outcome /\ task \notin retired

\* Each batch is some entry's.
BatchesCounted == batches <= Cardinality(inBatch)

FlightInv ==
    /\ SingleFlight
    /\ CallsAwait
    /\ RequestsEnd
    /\ CurrentRuns
    /\ BatchesCounted

-----------------------------------------------------------------------------
(* Counting                                                                *)

LEMMA NoTaskIsNone ==
    NoTask \notin Task /\ \A t \in Task : t \in Nat
BY FlightAssumption DEF NoTask, Task

\* The calls that await t, when o says what each awaits.
AwaitersIn(o, t) == {c \in Call : o[c] = t}

\* When one call goes from one request to another, or leaves, only their
\* counts change.
Shifts(f, g, c, u, t) ==
    /\ Cardinality(AwaitersIn(f, t) \ {c}) \in Nat
    /\ Cardinality(AwaitersIn(g, t)) \in 0..Cardinality(Call)
    /\ Cardinality(AwaitersIn(f, t)) =
            Cardinality(AwaitersIn(f, t) \ {c}) + (IF f[c] = t THEN 1 ELSE 0)
    /\ Cardinality(AwaitersIn(g, t)) =
            Cardinality(AwaitersIn(f, t) \ {c}) + (IF u = t THEN 1 ELSE 0)

LEMMA CountMoves ==
    ASSUME NEW f, NEW g, NEW c, NEW u, NEW t,
           f \in [Call -> Task \cup {NoTask}], c \in Call, g = [f EXCEPT ![c] = u]
    PROVE  Shifts(f, g, c, u, t)
<1> DEFINE A == AwaitersIn(f, t)
           B == AwaitersIn(g, t)
           C == A \ {c}
<1>1. IsFiniteSet(Call) /\ Cardinality(Call) \in Nat
    BY FlightAssumption, FS_CardinalityType
<1>2. \A S \in SUBSET Call : IsFiniteSet(S) /\ Cardinality(S) \in 0..Cardinality(Call)
    BY <1>1, FS_Subset, FS_CardinalityType
<1>3. /\ A = IF f[c] = t THEN C \cup {c} ELSE C
      /\ B = IF u = t THEN C \cup {c} ELSE C
      /\ c \notin C /\ A \in SUBSET Call /\ B \in SUBSET Call /\ C \in SUBSET Call
    BY DEF AwaitersIn
<1> HIDE DEF A, B, C
<1>4. Cardinality(C \cup {c}) = Cardinality(C) + 1
    BY <1>2, <1>3, FS_AddElement
<1>5. /\ Cardinality(C) \in Nat /\ Cardinality(B) \in 0..Cardinality(Call)
      /\ Cardinality(A) = Cardinality(C) + (IF f[c] = t THEN 1 ELSE 0)
      /\ Cardinality(B) = Cardinality(C) + (IF u = t THEN 1 ELSE 0)
    BY <1>2, <1>3, <1>4
<1> QED
    BY <1>5 DEF A, B, C, Shifts

\* A request with no waiters is awaited by no call.
Nobody(w, o) == \A t \in Task : w[t] = 0 => \A c \in Call : o[c] # t

\* w counts the calls by what each awaits in o.
Counts(w, o) ==
    /\ w \in [Task -> 0..Cardinality(Call)] /\ o \in [Call -> Task \cup {NoTask}]
    /\ \A t \in Task : w[t] = Cardinality(AwaitersIn(o, t))

LEMMA CountsNobody ==
    ASSUME NEW w, NEW o, Counts(w, o)
    PROVE  Nobody(w, o)
<1> SUFFICES ASSUME NEW t \in Task, w[t] = 0, NEW c \in Call, o[c] = t
             PROVE  FALSE
    BY DEF Nobody
<1> DEFINE S == AwaitersIn(o, t)
<1>1. IsFiniteSet(S)
    BY FlightAssumption, FS_Subset DEF AwaitersIn
<1>2. Cardinality(S) = 0
    BY DEF Counts
<1>3. S = {}
    <2> HIDE DEF S
    <2> QED
        BY <1>1, <1>2, FS_EmptySet
<1> QED
    BY <1>3 DEF AwaitersIn

\* What is left when the call c leaves its request.
LEMMA LeftCounts ==
    ASSUME Counts(waiters, on), NEW c \in Call, on[c] \in Task
    PROVE  /\ Counts(Left(c), [on EXCEPT ![c] = NoTask])
           /\ waiters[on[c]] = Left(c)[on[c]] + 1
           /\ \A t \in Task : t # on[c] => Left(c)[t] = waiters[t]
<1> DEFINE o == [on EXCEPT ![c] = NoTask]
<1>1. ASSUME NEW t \in Task
      PROVE  /\ Cardinality(AwaitersIn(o, t)) \in 0..Cardinality(Call)
             /\ Cardinality(AwaitersIn(on, t)) =
                    Cardinality(AwaitersIn(o, t)) + (IF on[c] = t THEN 1 ELSE 0)
    <2>1. on \in [Call -> Task \cup {NoTask}] /\ NoTask # t
        BY NoTaskIsNone DEF Counts
    <2>2. Shifts(on, o, c, NoTask, t)
        BY <2>1, CountMoves
    <2> QED
        BY <2>1, <2>2 DEF Shifts
<1>2. o \in [Call -> Task \cup {NoTask}]
    BY DEF Counts
<1> HIDE DEF o
<1>3. \A t \in Task : /\ waiters[t] \in Nat
                      /\ waiters[t] = Cardinality(AwaitersIn(o, t))
                                      + (IF on[c] = t THEN 1 ELSE 0)
    BY <1>1 DEF Counts
<1>4. /\ Left(c) = [t \in Task |-> IF t = on[c] THEN waiters[t] - 1 ELSE waiters[t]]
    BY DEF Left, Counts
<1>5. \A t \in Task : Left(c)[t] = Cardinality(AwaitersIn(o, t))
    BY <1>1, <1>3, <1>4
<1>6. Left(c) \in [Task -> 0..Cardinality(Call)]
    BY <1>1, <1>4, <1>5
<1>7. waiters[on[c]] = Left(c)[on[c]] + 1 /\ \A t \in Task : t # on[c] => Left(c)[t] = waiters[t]
    BY <1>3, <1>4
<1> QED
    BY <1>2, <1>5, <1>6, <1>7 DEF Counts, o

\* A call joins a request.
LEMMA JoinedCounts ==
    ASSUME NEW w, NEW o, NEW v, NEW p, NEW c \in Call, NEW u \in Task,
           Counts(w, o), o[c] = NoTask,
           v = [w EXCEPT ![u] = @ + 1], p = [o EXCEPT ![c] = u]
    PROVE  Counts(v, p)
<1>1. ASSUME NEW t \in Task
      PROVE  /\ Cardinality(AwaitersIn(p, t)) \in 0..Cardinality(Call)
             /\ Cardinality(AwaitersIn(p, t)) =
                    IF t = u THEN Cardinality(AwaitersIn(o, t)) + 1
                    ELSE Cardinality(AwaitersIn(o, t))
    <2>1. o \in [Call -> Task \cup {NoTask}] /\ o[c] # t
        BY NoTaskIsNone DEF Counts
    <2>2. Shifts(o, p, c, u, t)
        BY <2>1, CountMoves
    <2> QED
        BY <2>1, <2>2 DEF Shifts
<1>2. p \in [Call -> Task \cup {NoTask}]
    BY DEF Counts
<1>3. \A t \in Task : Cardinality(AwaitersIn(p, t)) = IF t = u THEN w[t] + 1 ELSE w[t]
    BY <1>1 DEF Counts
<1>4. v = [t \in Task |-> IF t = u THEN w[t] + 1 ELSE w[t]]
    BY DEF Counts
<1>5. ASSUME NEW t \in Task
      PROVE  v[t] = Cardinality(AwaitersIn(p, t))
    <2>1. w[t] \in Nat /\ v[t] = IF t = u THEN w[t] + 1 ELSE w[t]
        BY <1>4 DEF Counts
    <2> QED
        BY <1>3, <2>1
<1>6. v \in [Task -> 0..Cardinality(Call)]
    BY <1>1, <1>4, <1>5
<1> QED
    BY <1>2, <1>5, <1>6 DEF Counts

\* What keeps the bookkeeping.
RetiredInUse == \A t \in retired : waiters[t] > 0 \/ t \notin settled

StoppedAreRetired ==
    \A c \in Call :
        got[c] = "waiting" /\ EntryOf[c] \in owners /\ raw[on[c]] = "cancelling"
            => on[c] \in retired

LEMMA BookkeepingNext ==
    ASSUME FlightTypeOK', Counts(waiters', on'), RetiredInUse', StoppedAreRetired'
    PROVE  Bookkeeping'
BY DEF Bookkeeping, Counts, AwaitersIn, RetiredInUse, StoppedAreRetired

LEMMA BookkeepingCounts ==
    ASSUME FlightTypeOK, \A t \in Task : waiters[t] = Cardinality({c \in Call : on[c] = t})
    PROVE  Counts(waiters, on) /\ Nobody(waiters, on)
BY CountsNobody DEF FlightTypeOK, Counts, AwaitersIn

\* The entries in a batch, counted.
LEMMA BatchesCount ==
    ASSUME NEW S \in SUBSET Entry, NEW e \in Entry
    PROVE  /\ Cardinality(S) \in 0..Cardinality(Entry)
           /\ Cardinality(S \cup {e}) \in 0..Cardinality(Entry)
           /\ e \notin S => Cardinality(S \cup {e}) = Cardinality(S) + 1
           /\ Cardinality(S \ {e}) \in 0..Cardinality(Entry)
           /\ e \in S => Cardinality(S \ {e}) = Cardinality(S) - 1
<1>1. IsFiniteSet(Entry) /\ Cardinality(Entry) \in Nat
    BY FlightAssumption, FS_CardinalityType
<1>2. \A T \in SUBSET Entry : IsFiniteSet(T) /\ Cardinality(T) \in 0..Cardinality(Entry)
    BY <1>1, FS_Subset, FS_CardinalityType
<1>3. S \cup {e} \in SUBSET Entry /\ S \ {e} \in SUBSET Entry
    OBVIOUS
<1> QED
    BY <1>2, <1>3, FS_AddElement, FS_RemoveElement

-----------------------------------------------------------------------------
(* What the calls do                                                       *)

\* One turn of run()'s loop for c, on a flight whose calls w counts without c:
\* it takes the kept answer, joins the running request, or starts one.
TakesKept(c, w) ==
    /\ task # NoTask /\ Done(task) /\ batches > 0
    /\ got' = [got EXCEPT ![c] = raw[task]]
    /\ on' = [on EXCEPT ![c] = NoTask]
    /\ waiters' = w
    /\ UNCHANGED <<task, taskOwner, raw>>

JoinsRunning(c, w) ==
    /\ task # NoTask /\ raw[task] = "running"
    /\ got' = [got EXCEPT ![c] = "waiting"]
    /\ on' = [on EXCEPT ![c] = task]
    /\ waiters' = [w EXCEPT ![task] = @ + 1]
    /\ UNCHANGED <<task, taskOwner, raw>>

StartsNew(c, w, u) ==
    /\ raw[u] = "new" /\ (task = NoTask \/ Done(task))
    /\ got' = [got EXCEPT ![c] = "waiting"]
    /\ on' = [on EXCEPT ![c] = u]
    /\ waiters' = [w EXCEPT ![u] = @ + 1]
    /\ task' = u /\ taskOwner' = EntryOf[c]
    /\ raw' = [raw EXCEPT ![u] = "running"]

Turn(c, w) == TakesKept(c, w) \/ JoinsRunning(c, w) \/ \E u \in Task : StartsNew(c, w, u)

LEMMA FlightFacts ==
    ASSUME FlightInv
    PROVE  /\ FlightTypeOK /\ Counts(waiters, on) /\ Nobody(waiters, on)
           /\ \A t \in retired : waiters[t] > 0 \/ t \notin settled
BY BookkeepingCounts DEF FlightInv, SingleFlight, Bookkeeping

LEMMA JoinTurns ==
    ASSUME FlightInv, NEW c \in Call, NEW w, Join(c, task, taskOwner, w, raw)
    PROVE  Turn(c, w)
<1>1. FlightTypeOK /\ CurrentRuns
    BY FlightFacts DEF FlightInv
<1>2. CASE task # NoTask /\ raw[task] \in Outcome /\ batches > 0
    BY <1>2 DEF Join, Turn, TakesKept, Done
<1>3. CASE task # NoTask /\ raw[task] \notin Outcome
    BY <1>1, <1>3 DEF Join, Turn, JoinsRunning, CurrentRuns
<1>4. CASE task = NoTask \/ (raw[task] \in Outcome /\ ~(batches > 0))
    <2>1. \E n \in Task : raw[n] = "new"
        BY <1>4 DEF Join
    <2>2. NextTask \in Task /\ raw[NextTask] = "new"
        BY <2>1 DEF NextTask
    <2>3. StartsNew(c, w, NextTask)
        BY <1>4, <2>2 DEF Join, StartsNew, Done
    <2> QED
        BY <2>2, <2>3 DEF Turn
<1> QED
    BY <1>2, <1>3, <1>4

\* A call that leaves finds the flight's own request unobserved: either it was
\* the last to await it, or the request is over.
LEMMA LeavesIt ==
    ASSUME FlightInv, NEW c \in Call, got[c] = "waiting"
    PROVE  /\ on[c] \in Task
           /\ Counts(Left(c), [on EXCEPT ![c] = NoTask])
           /\ Nobody(Left(c), [on EXCEPT ![c] = NoTask])
           /\ \A t \in Task : Left(c)[t] <= waiters[t] /\ (t # on[c] => Left(c)[t] = waiters[t])
           /\ Unobserved(Left(c), batches) /\ on[c] # task => Done(task)
           /\ RetiredAfter(c) \subseteq retired
           /\ \A t \in RetiredAfter(c) : Left(c)[t] > 0 \/ t \notin settled
           /\ \A t \in retired \ RetiredAfter(c) : Done(t)
<1>1. /\ FlightTypeOK /\ Counts(waiters, on)
      /\ \A t \in retired : waiters[t] > 0 \/ t \notin settled
    BY FlightFacts
<1>2. on[c] \in Task
    BY <1>1 DEF FlightInv, CallsAwait, FlightTypeOK
<1>3. /\ Counts(Left(c), [on EXCEPT ![c] = NoTask])
      /\ waiters[on[c]] = Left(c)[on[c]] + 1
      /\ \A t \in Task : t # on[c] => Left(c)[t] = waiters[t]
    BY <1>1, <1>2, LeftCounts
<1>4. Nobody(Left(c), [on EXCEPT ![c] = NoTask])
    BY <1>3, CountsNobody
<1>5. \A t \in Task : Left(c)[t] \in Nat
    BY <1>3 DEF Counts
<1>6. Unobserved(Left(c), batches) /\ on[c] # task => Done(task)
    <2> SUFFICES ASSUME Unobserved(Left(c), batches), on[c] # task, ~Done(task)
                 PROVE  FALSE
        OBVIOUS
    <2>1. task \in Task /\ batches = 0 /\ waiters[task] = 0
        BY <1>1, <1>3 DEF Unobserved, FlightTypeOK
    <2>2. Live(task)
        BY <2>1 DEF FlightInv, CurrentRuns, Done, Live, Unobserved
    <2> QED
        BY <2>1, <2>2 DEF FlightInv, SingleFlight, Live
<1>7. \A t \in Task : Left(c)[t] <= waiters[t]
    BY <1>2, <1>3, <1>5
<1>8. \A t \in RetiredAfter(c) : Left(c)[t] > 0 \/ t \notin settled
    <2>1. retired \subseteq Task /\ \A t \in settled : Done(t)
        BY <1>1 DEF FlightInv, RequestsEnd, FlightTypeOK
    <2> QED
        BY <1>1, <1>2, <1>3, <1>5, <2>1 DEF RetiredAfter
<1>9. RetiredAfter(c) \subseteq retired /\ \A t \in retired \ RetiredAfter(c) : Done(t)
    BY DEF RetiredAfter
<1> QED
    BY <1>2, <1>3, <1>4, <1>6, <1>7, <1>8, <1>9

\* A surviving call whose request was retired takes another turn.
LEMMA ResumeTurns ==
    ASSUME FlightInv, NEW c \in Call, Resume(c), on[c] \in retired, EntryOf[c] \in owners
    PROVE  Turn(c, Left(c))
<1>1. got[c] = "waiting" /\ FlightTypeOK
    BY FlightFacts DEF Resume
<1>2. on[c] # task
    BY <1>1, LeavesIt, NoTaskIsNone DEF FlightInv, CurrentRuns
<1>3. CASE ~Unobserved(Left(c), batches)
    <2>1. Join(c, task, taskOwner, Left(c), raw)
        BY <1>3 DEF Resume
    <2> QED
        BY <2>1, JoinTurns
<1>4. CASE Unobserved(Left(c), batches)
    <2>1. task \in Task /\ batches = 0 /\ Done(task)
        BY <1>1, <1>2, <1>4, LeavesIt DEF Unobserved, FlightTypeOK
    <2>2. Cancelled(raw, {task}) = raw
        BY <1>1, <2>1 DEF Cancelled, Done, Outcome, FlightTypeOK
    <2>3. Join(c, NoTask, Unowned, Left(c), raw)
        BY <1>4, <2>2 DEF Resume
    <2>4. \E n \in Task : raw[n] = "new"
        BY <2>3 DEF Join
    <2>5. NextTask \in Task /\ raw[NextTask] = "new"
        BY <2>4 DEF NextTask
    <2>6. StartsNew(c, Left(c), NextTask)
        BY <2>1, <2>3, <2>5 DEF Join, StartsNew
    <2> QED
        BY <2>5, <2>6 DEF Turn
<1> QED
    BY <1>3, <1>4

\* What retired' may be when the call c goes, leaving the counts w.
Forgets(w) ==
    /\ retired' \subseteq retired
    /\ \A t \in retired' : w[t] > 0 \/ t \notin settled
    /\ \A t \in retired \ retired' : Done(t)

LEMMA TurnCounts ==
    ASSUME FlightInv, NEW c \in Call, NEW w, Counts(w, [on EXCEPT ![c] = NoTask]), Turn(c, w)
    PROVE  /\ Counts(waiters', on')
           /\ \A t \in Task : waiters'[t] >= w[t]
           /\ on'[c] # NoTask => waiters'[on'[c]] > 0
<1>1. FlightTypeOK
    BY FlightFacts
<1>2. \A t \in Task : w[t] \in Nat
    BY DEF Counts
<1> DEFINE o == [on EXCEPT ![c] = NoTask]
<1>3. Counts(w, o) /\ o[c] = NoTask
    BY <1>1 DEF FlightTypeOK
<1>4. CASE TakesKept(c, w)
    BY <1>1, <1>2, <1>4 DEF TakesKept, FlightTypeOK
<1>5. ASSUME NEW u \in Task, on' = [on EXCEPT ![c] = u], waiters' = [w EXCEPT ![u] = @ + 1]
      PROVE  /\ Counts(waiters', on')
             /\ \A t \in Task : waiters'[t] >= w[t]
             /\ on'[c] # NoTask => waiters'[on'[c]] > 0
    <2>1. on' = [o EXCEPT ![c] = u]
        BY <1>1, <1>5 DEF FlightTypeOK
    <2> HIDE DEF o
    <2>2. Counts(waiters', on')
        BY <1>3, <1>5, <2>1, JoinedCounts
    <2>3. w \in [Task -> Nat] /\ on'[c] = u
        BY <1>1, <1>2, <1>5 DEF Counts, FlightTypeOK
    <2>4. \A t \in Task : waiters'[t] = IF t = u THEN w[t] + 1 ELSE w[t]
        BY <1>5, <2>3
    <2> QED
        BY <1>2, <2>2, <2>3, <2>4
<1>6. CASE JoinsRunning(c, w)
    BY <1>1, <1>5, <1>6 DEF JoinsRunning, FlightTypeOK
<1>7. ASSUME NEW u \in Task, StartsNew(c, w, u)
      PROVE  /\ Counts(waiters', on')
             /\ \A t \in Task : waiters'[t] >= w[t]
             /\ on'[c] # NoTask => waiters'[on'[c]] > 0
    BY <1>5, <1>7 DEF StartsNew
<1> QED
    BY <1>4, <1>6, <1>7 DEF Turn

LEMMA TurnKeeps ==
    ASSUME FlightInv, NEW c \in Call, NEW w, Counts(w, [on EXCEPT ![c] = NoTask]), Turn(c, w),
           Forgets(w), EntryOf[c] \in owners,
           UNCHANGED <<owners, batches, settled, entry, inBatch>>
    PROVE  FlightInv'
<1>1. FlightTypeOK
    BY FlightFacts
<1>2. /\ Counts(waiters', on')
      /\ \A t \in Task : waiters'[t] >= w[t] /\ w[t] \in Nat /\ waiters'[t] \in Nat
      /\ on'[c] # NoTask => waiters'[on'[c]] > 0
    <2>1. /\ Counts(waiters', on')
          /\ \A t \in Task : waiters'[t] >= w[t]
          /\ on'[c] # NoTask => waiters'[on'[c]] > 0
        BY TurnCounts
    <2>2. \A t \in Task : w[t] \in Nat /\ waiters'[t] \in Nat
        BY <2>1 DEF Counts
    <2> QED
        BY <2>1, <2>2
<1>3. owners \subseteq Entry /\ NoTask \notin Task
    BY <1>1, NoTaskIsNone DEF FlightTypeOK
<1> USE DEF Forgets, Turn, TakesKept, JoinsRunning, StartsNew
<1>4. FlightTypeOK'
    <2>1. waiters' \in [Task -> 0..Cardinality(Call)] /\ on' \in [Call -> Task \cup {NoTask}]
        BY <1>2 DEF Counts
    <2> QED
        BY <1>1, <1>3, <2>1 DEF FlightTypeOK, Done
<1>5. CallsAwait' /\ RequestsEnd' /\ CurrentRuns' /\ BatchesCounted'
    BY <1>1, <1>3 DEF FlightInv, FlightTypeOK, CallsAwait, RequestsEnd, CurrentRuns,
       BatchesCounted, Done, Outcome
<1>6. RetiredInUse' /\ StoppedAreRetired'
    BY <1>1, <1>2, <1>3
       DEF RetiredInUse, StoppedAreRetired, FlightInv, FlightTypeOK, SingleFlight, Bookkeeping,
           CallsAwait, CurrentRuns, Done, Outcome
<1>7. \A t \in Task : raw'[t] = "running" =>
        /\ task' = t
        /\ waiters'[t] > 0 \/ batches' > 0
        /\ taskOwner' \in owners'
    BY <1>1, <1>2, <1>3
       DEF FlightInv, FlightTypeOK, SingleFlight, Live, Done, Outcome
<1> QED
    <2>1. Bookkeeping'
        BY <1>2, <1>4, <1>6, BookkeepingNext
    <2> QED
        BY <1>5, <1>7, <2>1 DEF FlightInv, SingleFlight, Live

LEMMA LeaveKeeps ==
    ASSUME FlightInv, NEW c \in Call, got[c] = "waiting",
           NEW how \in {"timeout"} \cup Outcome, Leave(c, how), Forgets(Left(c)),
           UNCHANGED <<owners, batches, settled, entry, inBatch>>
    PROVE  FlightInv'
<1>1. FlightTypeOK
    BY FlightFacts
<1>2. /\ on[c] \in Task
      /\ Counts(waiters', on') /\ Nobody(waiters', on')
      /\ \A t \in Task : waiters'[t] \in Nat /\ (t # on[c] => waiters'[t] = waiters[t])
      /\ Unobserved(waiters', batches) /\ on[c] # task => Done(task)
      /\ waiters' = Left(c)
    <2>1. waiters' = Left(c) /\ on' = [on EXCEPT ![c] = NoTask]
        BY DEF Leave
    <2>2. /\ on[c] \in Task
          /\ Counts(Left(c), [on EXCEPT ![c] = NoTask])
          /\ Nobody(Left(c), [on EXCEPT ![c] = NoTask])
          /\ \A t \in Task : t # on[c] => Left(c)[t] = waiters[t]
          /\ Unobserved(Left(c), batches) /\ on[c] # task => Done(task)
        BY LeavesIt
    <2>3. \A t \in Task : Left(c)[t] \in Nat
        BY <2>2 DEF Counts
    <2> QED
        BY <2>1, <2>2, <2>3
<1>3. owners \subseteq Entry /\ NoTask \notin Task
    BY <1>1, NoTaskIsNone DEF FlightTypeOK
<1> USE DEF Forgets
<1>4. /\ got' = [got EXCEPT ![c] = how] /\ on' = [on EXCEPT ![c] = NoTask]
      /\ \/ ~Unobserved(waiters', batches) /\ UNCHANGED <<task, taskOwner, raw>>
         \/ /\ batches = 0 /\ task # NoTask /\ waiters'[task] = 0
            /\ task' = NoTask /\ taskOwner' = Unowned
            /\ raw' = [t \in Task |->
                         IF t = task /\ raw[t] = "running" THEN "cancelling" ELSE raw[t]]
    BY <1>2 DEF Leave, Unobserved, Cancelled
<1>5. FlightTypeOK'
    <2>1. waiters' \in [Task -> 0..Cardinality(Call)] /\ on' \in [Call -> Task \cup {NoTask}]
        BY <1>2 DEF Counts
    <2> QED
        BY <1>1, <1>3, <1>4, <2>1 DEF FlightTypeOK
<1>6. CallsAwait' /\ RequestsEnd' /\ CurrentRuns' /\ BatchesCounted'
    BY <1>1, <1>3, <1>4 DEF FlightInv, FlightTypeOK, CallsAwait, RequestsEnd, CurrentRuns,
       BatchesCounted, Done, Outcome
<1>7. RetiredInUse' /\ StoppedAreRetired'
    BY <1>1, <1>2, <1>3, <1>4
       DEF RetiredInUse, StoppedAreRetired, FlightInv, FlightTypeOK, SingleFlight, Bookkeeping,
           CallsAwait, Nobody, Done, Outcome
<1>8. \A t \in Task : raw'[t] = "running" =>
        /\ task' = t
        /\ waiters'[t] > 0 \/ batches' > 0
        /\ taskOwner' \in owners'
    BY <1>1, <1>2, <1>3, <1>4
       DEF FlightInv, FlightTypeOK, SingleFlight, Live, Unobserved
<1> QED
    <2>1. Bookkeeping'
        BY <1>2, <1>5, <1>7, BookkeepingNext
    <2> QED
        BY <1>6, <1>8, <2>1 DEF FlightInv, SingleFlight, Live

-----------------------------------------------------------------------------
(* What the entries and the requests do                                    *)

LEMMA BatchFacts ==
    ASSUME FlightInv, NEW e \in Entry
    PROVE  /\ batches \in Nat /\ batches <= Cardinality(inBatch) /\ Cardinality(Entry) \in Nat
           /\ Cardinality(inBatch) \in 0..Cardinality(Entry)
           /\ Cardinality(inBatch \cup {e}) \in 0..Cardinality(Entry)
           /\ e \notin inBatch => Cardinality(inBatch \cup {e}) = Cardinality(inBatch) + 1
           /\ Cardinality(inBatch \ {e}) \in 0..Cardinality(Entry)
           /\ e \in inBatch => Cardinality(inBatch \ {e}) = Cardinality(inBatch) - 1
<1>1. Cardinality(Entry) \in Nat
    BY FlightAssumption, FS_CardinalityType
<1>2. inBatch \in SUBSET Entry /\ batches \in 0..Cardinality(Entry)
      /\ batches <= Cardinality(inBatch)
    BY FlightFacts DEF FlightTypeOK, FlightInv, BatchesCounted
<1>3. batches \in Nat
    BY <1>1, <1>2
<1> QED
    BY <1>1, <1>2, <1>3, BatchesCount

\* An entry is loaded.
LEMMA RegisterEntryKeeps ==
    ASSUME FlightInv, NEW e \in Entry, RegisterEntry(e)
    PROVE  FlightInv'
<1>1. /\ FlightTypeOK /\ Counts(waiters, on) /\ Nobody(waiters, on)
      /\ \A t \in Task : waiters[t] \in Nat
    BY FlightFacts DEF Counts
<1>2. owners \subseteq Entry /\ inBatch \subseteq Entry /\ NoTask \notin Task
    BY <1>1, NoTaskIsNone DEF FlightTypeOK
<1>3. Counts(waiters', on')
    BY <1>1 DEF RegisterEntry
<1> USE DEF RegisterEntry
<1>4. FlightTypeOK' /\ BatchesCounted'
    <2>1. /\ batches \in Nat /\ batches <= Cardinality(inBatch) /\ Cardinality(Entry) \in Nat
          /\ Cardinality(inBatch) \in 0..Cardinality(Entry)
          /\ Cardinality(inBatch \cup {e}) \in 0..Cardinality(Entry)
          /\ e \notin inBatch => Cardinality(inBatch \cup {e}) = Cardinality(inBatch) + 1
          /\ Cardinality(inBatch \ {e}) \in 0..Cardinality(Entry)
          /\ e \in inBatch => Cardinality(inBatch \ {e}) = Cardinality(inBatch) - 1
        BY BatchFacts
    <2>2. batches' <= Cardinality(inBatch)' /\ batches' \in 0..Cardinality(Entry)
        BY <2>1
    <2> QED
        BY <1>1, <1>2, <2>2 DEF BatchesCounted, FlightTypeOK, Done, Outcome
<1>5. CallsAwait' /\ RequestsEnd' /\ CurrentRuns'
    BY <1>1, <1>2
       DEF FlightInv, FlightTypeOK, CallsAwait, RequestsEnd, CurrentRuns, Done, Outcome
<1>6. RetiredInUse' /\ StoppedAreRetired'
    BY <1>1, <1>2
       DEF RetiredInUse, StoppedAreRetired, FlightInv, FlightTypeOK, SingleFlight, Bookkeeping,
           RequestsEnd, CallsAwait, CurrentRuns, Nobody, Done, Outcome
<1>7. \A t \in Task : raw'[t] = "running" =>
        /\ task' = t
        /\ waiters'[t] > 0 \/ batches' > 0
        /\ taskOwner' \in owners'
    BY <1>1, <1>2
       DEF FlightInv, FlightTypeOK, SingleFlight, CurrentRuns, Live, Done, Outcome
<1> QED
    <2>1. Bookkeeping'
        BY <1>3, <1>4, <1>6, BookkeepingNext
    <2> QED
        BY <1>4, <1>5, <1>7, <2>1 DEF FlightInv, SingleFlight, Live

\* A batch begins.
LEMMA BeginBatchKeeps ==
    ASSUME FlightInv, NEW e \in Entry, BeginBatch(e)
    PROVE  FlightInv'
<1>1. /\ FlightTypeOK /\ Counts(waiters, on) /\ Nobody(waiters, on)
      /\ \A t \in Task : waiters[t] \in Nat
    BY FlightFacts DEF Counts
<1>2. owners \subseteq Entry /\ inBatch \subseteq Entry /\ NoTask \notin Task
    BY <1>1, NoTaskIsNone DEF FlightTypeOK
<1>3. Counts(waiters', on')
    BY <1>1 DEF BeginBatch
<1> USE DEF BeginBatch
<1>4. FlightTypeOK' /\ BatchesCounted'
    <2>1. /\ batches \in Nat /\ batches <= Cardinality(inBatch) /\ Cardinality(Entry) \in Nat
          /\ Cardinality(inBatch) \in 0..Cardinality(Entry)
          /\ Cardinality(inBatch \cup {e}) \in 0..Cardinality(Entry)
          /\ e \notin inBatch => Cardinality(inBatch \cup {e}) = Cardinality(inBatch) + 1
          /\ Cardinality(inBatch \ {e}) \in 0..Cardinality(Entry)
          /\ e \in inBatch => Cardinality(inBatch \ {e}) = Cardinality(inBatch) - 1
        BY BatchFacts
    <2>2. batches' <= Cardinality(inBatch)' /\ batches' \in 0..Cardinality(Entry)
        BY <2>1
    <2> QED
        BY <1>1, <1>2, <2>2 DEF BatchesCounted, FlightTypeOK, Done, Outcome
<1>5. CallsAwait' /\ RequestsEnd' /\ CurrentRuns'
    BY <1>1, <1>2
       DEF FlightInv, FlightTypeOK, CallsAwait, RequestsEnd, CurrentRuns, Done, Outcome
<1>6. RetiredInUse' /\ StoppedAreRetired'
    BY <1>1, <1>2
       DEF RetiredInUse, StoppedAreRetired, FlightInv, FlightTypeOK, SingleFlight, Bookkeeping,
           RequestsEnd, CallsAwait, CurrentRuns, Nobody, Done, Outcome
<1>7. \A t \in Task : raw'[t] = "running" =>
        /\ task' = t
        /\ waiters'[t] > 0 \/ batches' > 0
        /\ taskOwner' \in owners'
    BY <1>1, <1>2
       DEF FlightInv, FlightTypeOK, SingleFlight, CurrentRuns, Live, Done, Outcome
<1> QED
    <2>1. Bookkeeping'
        BY <1>3, <1>4, <1>6, BookkeepingNext
    <2> QED
        BY <1>4, <1>5, <1>7, <2>1 DEF FlightInv, SingleFlight, Live

\* A batch ends.
LEMMA EndBatchKeeps ==
    ASSUME FlightInv, NEW e \in Entry, EndBatch(e)
    PROVE  FlightInv'
<1>1. /\ FlightTypeOK /\ Counts(waiters, on) /\ Nobody(waiters, on)
      /\ \A t \in Task : waiters[t] \in Nat
    BY FlightFacts DEF Counts
<1>2. owners \subseteq Entry /\ inBatch \subseteq Entry /\ NoTask \notin Task
    BY <1>1, NoTaskIsNone DEF FlightTypeOK
<1>3. Counts(waiters', on')
    BY <1>1 DEF EndBatch
<1> USE DEF EndBatch, Unobserved, Cancelled
<1>4. FlightTypeOK' /\ BatchesCounted'
    <2>1. /\ batches \in Nat /\ batches <= Cardinality(inBatch) /\ Cardinality(Entry) \in Nat
          /\ Cardinality(inBatch) \in 0..Cardinality(Entry)
          /\ Cardinality(inBatch \cup {e}) \in 0..Cardinality(Entry)
          /\ e \notin inBatch => Cardinality(inBatch \cup {e}) = Cardinality(inBatch) + 1
          /\ Cardinality(inBatch \ {e}) \in 0..Cardinality(Entry)
          /\ e \in inBatch => Cardinality(inBatch \ {e}) = Cardinality(inBatch) - 1
        BY BatchFacts
    <2>2. batches' <= Cardinality(inBatch)' /\ batches' \in 0..Cardinality(Entry)
        BY <2>1
    <2> QED
        BY <1>1, <1>2, <2>2 DEF BatchesCounted, FlightTypeOK, Done, Outcome
<1>5. CallsAwait' /\ RequestsEnd' /\ CurrentRuns'
    BY <1>1, <1>2
       DEF FlightInv, FlightTypeOK, CallsAwait, RequestsEnd, CurrentRuns, Done, Outcome
<1>6. RetiredInUse' /\ StoppedAreRetired'
    BY <1>1, <1>2
       DEF RetiredInUse, StoppedAreRetired, FlightInv, FlightTypeOK, SingleFlight, Bookkeeping,
           RequestsEnd, CallsAwait, CurrentRuns, Nobody, Done, Outcome
<1>7. \A t \in Task : raw'[t] = "running" =>
        /\ task' = t
        /\ waiters'[t] > 0 \/ batches' > 0
        /\ taskOwner' \in owners'
    BY <1>1, <1>2
       DEF FlightInv, FlightTypeOK, SingleFlight, CurrentRuns, Live, Done, Outcome
<1> QED
    <2>1. Bookkeeping'
        BY <1>3, <1>4, <1>6, BookkeepingNext
    <2> QED
        BY <1>4, <1>5, <1>7, <2>1 DEF FlightInv, SingleFlight, Live

\* An entry goes.
LEMMA ReleaseKeeps ==
    ASSUME FlightInv, NEW e \in Entry, Release(e)
    PROVE  FlightInv'
<1>1. /\ FlightTypeOK /\ Counts(waiters, on) /\ Nobody(waiters, on)
      /\ \A t \in Task : waiters[t] \in Nat
    BY FlightFacts DEF Counts
<1>2. owners \subseteq Entry /\ inBatch \subseteq Entry /\ NoTask \notin Task
    BY <1>1, NoTaskIsNone DEF FlightTypeOK
<1>3. Counts(waiters', on')
    BY <1>1 DEF Release
<1> USE DEF Release, Cancelled
<1>4. FlightTypeOK' /\ BatchesCounted'
    <2>1. /\ batches \in Nat /\ batches <= Cardinality(inBatch) /\ Cardinality(Entry) \in Nat
          /\ Cardinality(inBatch) \in 0..Cardinality(Entry)
          /\ Cardinality(inBatch \cup {e}) \in 0..Cardinality(Entry)
          /\ e \notin inBatch => Cardinality(inBatch \cup {e}) = Cardinality(inBatch) + 1
          /\ Cardinality(inBatch \ {e}) \in 0..Cardinality(Entry)
          /\ e \in inBatch => Cardinality(inBatch \ {e}) = Cardinality(inBatch) - 1
        BY BatchFacts
    <2>2. batches' <= Cardinality(inBatch)' /\ batches' \in 0..Cardinality(Entry)
        BY <2>1
    <2> QED
        BY <1>1, <1>2, <2>2 DEF BatchesCounted, FlightTypeOK, Done, Outcome
<1>5. CallsAwait' /\ RequestsEnd' /\ CurrentRuns'
    BY <1>1, <1>2
       DEF FlightInv, FlightTypeOK, CallsAwait, RequestsEnd, CurrentRuns, Done, Outcome
<1>6. RetiredInUse' /\ StoppedAreRetired'
    BY <1>1, <1>2
       DEF RetiredInUse, StoppedAreRetired, FlightInv, FlightTypeOK, SingleFlight, Bookkeeping,
           RequestsEnd, CallsAwait, CurrentRuns, Nobody, Done, Outcome
<1>7. \A t \in Task : raw'[t] = "running" =>
        /\ task' = t
        /\ waiters'[t] > 0 \/ batches' > 0
        /\ taskOwner' \in owners'
    BY <1>1, <1>2
       DEF FlightInv, FlightTypeOK, SingleFlight, CurrentRuns, Live, Done, Outcome
<1> QED
    <2>1. Bookkeeping'
        BY <1>3, <1>4, <1>6, BookkeepingNext
    <2> QED
        BY <1>4, <1>5, <1>7, <2>1 DEF FlightInv, SingleFlight, Live

\* The last entry goes.
LEMMA ReleaseLastKeeps ==
    ASSUME FlightInv, NEW e \in Entry, ReleaseLast(e)
    PROVE  FlightInv'
<1>1. /\ FlightTypeOK /\ Counts(waiters, on) /\ Nobody(waiters, on)
      /\ \A t \in Task : waiters[t] \in Nat
    BY FlightFacts DEF Counts
<1>2. owners \subseteq Entry /\ inBatch \subseteq Entry /\ NoTask \notin Task
    BY <1>1, NoTaskIsNone DEF FlightTypeOK
<1>3. Counts(waiters', on')
    BY <1>1 DEF ReleaseLast
<1> USE DEF ReleaseLast, Cancelled
<1>4. FlightTypeOK' /\ BatchesCounted'
    <2>1. /\ batches \in Nat /\ batches <= Cardinality(inBatch) /\ Cardinality(Entry) \in Nat
          /\ Cardinality(inBatch) \in 0..Cardinality(Entry)
          /\ Cardinality(inBatch \cup {e}) \in 0..Cardinality(Entry)
          /\ e \notin inBatch => Cardinality(inBatch \cup {e}) = Cardinality(inBatch) + 1
          /\ Cardinality(inBatch \ {e}) \in 0..Cardinality(Entry)
          /\ e \in inBatch => Cardinality(inBatch \ {e}) = Cardinality(inBatch) - 1
        BY BatchFacts
    <2>2. batches' <= Cardinality(inBatch)' /\ batches' \in 0..Cardinality(Entry)
        BY <2>1
    <2> QED
        BY <1>1, <1>2, <2>2 DEF BatchesCounted, FlightTypeOK, Done, Outcome
<1>5. CallsAwait' /\ RequestsEnd' /\ CurrentRuns'
    BY <1>1, <1>2
       DEF FlightInv, FlightTypeOK, CallsAwait, RequestsEnd, CurrentRuns, Done, Outcome
<1>6. RetiredInUse' /\ StoppedAreRetired'
    BY <1>1, <1>2
       DEF RetiredInUse, StoppedAreRetired, FlightInv, FlightTypeOK, SingleFlight, Bookkeeping,
           RequestsEnd, CallsAwait, CurrentRuns, Nobody, Done, Outcome
<1>7. \A t \in Task : raw'[t] = "running" =>
        /\ task' = t
        /\ waiters'[t] > 0 \/ batches' > 0
        /\ taskOwner' \in owners'
    BY <1>1, <1>2
       DEF FlightInv, FlightTypeOK, SingleFlight, CurrentRuns, Live, Done, Outcome
<1> QED
    <2>1. Bookkeeping'
        BY <1>3, <1>4, <1>6, BookkeepingNext
    <2> QED
        BY <1>4, <1>5, <1>7, <2>1 DEF FlightInv, SingleFlight, Live

\* A request ends.
LEMMA RawEndKeeps ==
    ASSUME FlightInv, NEW u \in Task, RawEnd(u)
    PROVE  FlightInv'
<1>1. /\ FlightTypeOK /\ Counts(waiters, on) /\ Nobody(waiters, on)
      /\ \A t \in Task : waiters[t] \in Nat
    BY FlightFacts DEF Counts
<1>2. owners \subseteq Entry /\ inBatch \subseteq Entry /\ NoTask \notin Task
    BY <1>1, NoTaskIsNone DEF FlightTypeOK
<1>3. Counts(waiters', on')
    BY <1>1 DEF RawEnd
<1> USE DEF RawEnd, Outcome
<1>4. FlightTypeOK' /\ BatchesCounted'
    BY <1>1, <1>2, BatchesCount, FlightAssumption
       DEF FlightInv, BatchesCounted, FlightTypeOK, Done, Outcome
<1>5. CallsAwait' /\ RequestsEnd' /\ CurrentRuns'
    BY <1>1, <1>2
       DEF FlightInv, FlightTypeOK, CallsAwait, RequestsEnd, CurrentRuns, Done, Outcome
<1>6. RetiredInUse' /\ StoppedAreRetired'
    BY <1>1, <1>2
       DEF RetiredInUse, StoppedAreRetired, FlightInv, FlightTypeOK, SingleFlight, Bookkeeping,
           RequestsEnd, CallsAwait, CurrentRuns, Nobody, Done, Outcome
<1>7. \A t \in Task : raw'[t] = "running" =>
        /\ task' = t
        /\ waiters'[t] > 0 \/ batches' > 0
        /\ taskOwner' \in owners'
    BY <1>1, <1>2
       DEF FlightInv, FlightTypeOK, SingleFlight, CurrentRuns, Live, Done, Outcome
<1> QED
    <2>1. Bookkeeping'
        BY <1>3, <1>4, <1>6, BookkeepingNext
    <2> QED
        BY <1>4, <1>5, <1>7, <2>1 DEF FlightInv, SingleFlight, Live

\* Its callbacks run.
LEMMA RawSettledKeeps ==
    ASSUME FlightInv, NEW u \in Task, RawSettled(u)
    PROVE  FlightInv'
<1>1. /\ FlightTypeOK /\ Counts(waiters, on) /\ Nobody(waiters, on)
      /\ \A t \in Task : waiters[t] \in Nat
    BY FlightFacts DEF Counts
<1>2. owners \subseteq Entry /\ inBatch \subseteq Entry /\ NoTask \notin Task
    BY <1>1, NoTaskIsNone DEF FlightTypeOK
<1>3. Counts(waiters', on')
    BY <1>1 DEF RawSettled
<1> USE DEF RawSettled, Done
<1>4. FlightTypeOK' /\ BatchesCounted'
    BY <1>1, <1>2, BatchesCount, FlightAssumption
       DEF FlightInv, BatchesCounted, FlightTypeOK, Done, Outcome
<1>5. CallsAwait' /\ RequestsEnd' /\ CurrentRuns'
    BY <1>1, <1>2
       DEF FlightInv, FlightTypeOK, CallsAwait, RequestsEnd, CurrentRuns, Done, Outcome
<1>6. RetiredInUse' /\ StoppedAreRetired'
    BY <1>1, <1>2
       DEF RetiredInUse, StoppedAreRetired, FlightInv, FlightTypeOK, SingleFlight, Bookkeeping,
           RequestsEnd, CallsAwait, CurrentRuns, Nobody, Done, Outcome
<1>7. \A t \in Task : raw'[t] = "running" =>
        /\ task' = t
        /\ waiters'[t] > 0 \/ batches' > 0
        /\ taskOwner' \in owners'
    BY <1>1, <1>2
       DEF FlightInv, FlightTypeOK, SingleFlight, CurrentRuns, Live, Done, Outcome
<1> QED
    <2>1. Bookkeeping'
        BY <1>3, <1>4, <1>6, BookkeepingNext
    <2> QED
        BY <1>4, <1>5, <1>7, <2>1 DEF FlightInv, SingleFlight, Live

-----------------------------------------------------------------------------
(* Theorems                                                                *)

LEMMA FlightStarts ==
    FlightInit => FlightInv
<1> SUFFICES ASSUME FlightInit PROVE FlightInv
    OBVIOUS
<1>1. Cardinality(Call) \in Nat /\ Cardinality(Entry) \in Nat /\ NoTask \notin Task
      /\ Cardinality(inBatch) = 0
    BY FlightAssumption, FS_CardinalityType, FS_EmptySet, NoTaskIsNone DEF FlightInit
<1>2. FlightTypeOK
    BY <1>1 DEF FlightInit, FlightTypeOK
<1>3. ASSUME NEW t \in Task
      PROVE  waiters[t] = Cardinality({c \in Call : on[c] = t})
    <2>1. {c \in Call : on[c] = t} = {}
        BY <1>1 DEF FlightInit
    <2> QED
        BY <2>1, FS_EmptySet DEF FlightInit
<1>4. Bookkeeping
    BY <1>2, <1>3 DEF FlightInit, Bookkeeping
<1> QED
    BY <1>1, <1>4 DEF FlightInit, FlightInv, SingleFlight, Live, CallsAwait, RequestsEnd,
       CurrentRuns, BatchesCounted

LEMMA FlightStep ==
    ASSUME FlightInv, [FlightNext]_flightVars
    PROVE  FlightInv'
<1>1. ASSUME NEW c \in Call, Start(c)
      PROVE  FlightInv'
    <2>1. Counts(waiters, on) /\ [on EXCEPT ![c] = NoTask] = on
        BY <1>1, FlightFacts DEF Start, FlightInv, CallsAwait, Counts
    <2>2. Turn(c, waiters)
        BY <1>1, JoinTurns DEF Start
    <2>3. Forgets(waiters)
        BY <1>1, FlightFacts DEF Start, Forgets
    <2> QED
        BY <1>1, <2>1, <2>2, <2>3, TurnKeeps DEF Start
<1>2. ASSUME NEW c \in Call, Resume(c)
      PROVE  FlightInv'
    <2>1. got[c] = "waiting" /\ retired' = RetiredAfter(c)
          /\ UNCHANGED <<owners, batches, settled, entry, inBatch>>
        BY <1>2 DEF Resume
    <2>2. Counts(Left(c), [on EXCEPT ![c] = NoTask]) /\ Forgets(Left(c))
        BY <2>1, LeavesIt DEF Forgets
    <2>3. CASE on[c] \in retired /\ EntryOf[c] \in owners
        BY <1>2, <2>1, <2>2, <2>3, ResumeTurns, TurnKeeps
    <2>4. CASE ~(on[c] \in retired /\ EntryOf[c] \in owners)
        <3> DEFINE how == IF on[c] \in retired THEN "failed" ELSE raw[on[c]]
        <3>1. Leave(c, how)
            BY <1>2, <2>4 DEF Resume
        <3>2. how \in {"timeout"} \cup Outcome
            BY <1>2 DEF Resume, FlightInv, RequestsEnd, Done, Outcome
        <3> HIDE DEF how
        <3> QED
            BY <2>1, <2>2, <3>1, <3>2, LeaveKeeps
    <2> QED
        BY <2>3, <2>4
<1>3. ASSUME NEW c \in Call, CancelCall(c)
      PROVE  FlightInv'
    <2>1. got[c] = "waiting" /\ retired' = RetiredAfter(c) /\ Leave(c, "timeout")
          /\ UNCHANGED <<owners, batches, settled, entry, inBatch>>
        BY <1>3 DEF CancelCall
    <2>2. Forgets(Left(c))
        BY <2>1, LeavesIt DEF Forgets
    <2> QED
        BY <2>1, <2>2, LeaveKeeps
<1>4. ASSUME UNCHANGED flightVars
      PROVE  FlightInv'
    BY <1>4 DEF FlightInv, SingleFlight, Bookkeeping, FlightTypeOK, Live, CallsAwait,
       RequestsEnd, CurrentRuns, BatchesCounted, Done
<1> QED
    BY <1>1, <1>2, <1>3, <1>4, RegisterEntryKeeps, BeginBatchKeeps, EndBatchKeeps, ReleaseKeeps,
       ReleaseLastKeeps, RawEndKeeps, RawSettledKeeps DEF FlightNext

LEMMA FlightAlways ==
    FlightSpec => []FlightInv
BY FlightStarts, FlightStep, PTL DEF FlightSpec

\* One firmware request at a time for the account, awaited or kept, and of an
\* entry that is loaded, for any entries, calls and requests (and the counts
\* of _task_waiters and _retired_tasks are exact).
THEOREM AlwaysSingleFlight ==
    FlightSpec => []SingleFlight
<1>1. FlightInv => SingleFlight
    BY DEF FlightInv
<1> QED
    BY <1>1, FlightAlways, PTL

\* No call of a loaded entry ends with the outcome of a request that was
\* retired under it, for any entries, calls and requests.
THEOREM TransfersInvisible ==
    FlightSpec => TransferInvisible
<1> DEFINE A == \A c \in Call :
                 got[c] = "waiting" /\ got'[c] \in Outcome /\ EntryOf[c] \in owners
                    => \/ on[c] \notin retired
                       \/ batches > 0 /\ task # NoTask /\ Done(task) /\ got'[c] = raw[task]
<1>1. ASSUME FlightInv, [FlightNext]_flightVars
      PROVE  [A]_flightVars
    <2> SUFFICES ASSUME NEW c \in Call, got[c] = "waiting", got'[c] \in Outcome,
                        EntryOf[c] \in owners, on[c] \in retired
                 PROVE  batches > 0 /\ task # NoTask /\ Done(task) /\ got'[c] = raw[task]
        OBVIOUS
    <2>1. FlightTypeOK
        BY <1>1, FlightFacts
    <2>2. ASSUME NEW d \in Call, Start(d) \/ Resume(d) \/ CancelCall(d)
          PROVE  d = c
        BY <2>1, <2>2 DEF Start, Resume, CancelCall, Join, Leave, FlightTypeOK, Outcome
    <2>3. ASSUME Resume(c)
          PROVE  batches > 0 /\ task # NoTask /\ Done(task) /\ got'[c] = raw[task]
        <3>1. Turn(c, Left(c))
            BY <1>1, <2>3, ResumeTurns
        <3> QED
            BY <2>1, <3>1 DEF Turn, TakesKept, JoinsRunning, StartsNew, FlightTypeOK, Outcome
    <2>4. ~Start(c) /\ ~CancelCall(c)
        BY <2>1 DEF Start, CancelCall, Leave, FlightTypeOK, Outcome
    <2>5. got' # got
        BY DEF Outcome
    <2> QED
        BY <1>1, <2>2, <2>3, <2>4, <2>5
           DEF FlightNext, RegisterEntry, BeginBatch, EndBatch, Release, ReleaseLast, RawEnd,
               RawSettled
<1> QED
    BY <1>1, FlightAlways, PTL DEF FlightSpec, TransferInvisible


-----------------------------------------------------------------------------
(***************************************************************************)
(* Proofs about CloudBudget, for any clients, chains, authentication tasks *)
(* and any limit.                                                          *)
(***************************************************************************)

Standing == {"new", "queued", "granted", "request", "awaiting", "done"}

\* The budget of each chain that has begun.
Home == [c \in Chain |-> IF of[c] = NoOne THEN NoOne ELSE bud[of[c]]]

\* With p for pc, l for lease and h for the budgets: the chains that hold a
\* slot of b, and those that _leases counts.
Holders(p, l, h, b) == {c \in Chain : h[c] = b /\ (p[c] = "granted" \/ l[c] > 0)}
Tenants(p, l, h, b) == {c \in Chain : h[c] = b /\ (p[c] \in {"queued", "granted"} \/ l[c] > 0)}

\* The waiters of b not yet woken: distinct queued chains of b.
Queued(q, p, h, b) ==
    /\ q \in Seq(Chain)
    /\ \A i \in 1..Len(q) : p[q[i]] = "queued" /\ h[q[i]] = b
    /\ \A i, j \in 1..Len(q) : q[i] = q[j] => i = j

\* With fr for free and qu for queue: every slot is free or held.
Slots(fr, qu, p, l, h) ==
    /\ fr \in [Client -> Nat] /\ qu \in [Client -> Seq(Chain)]
    /\ p \in [Chain -> Standing] /\ l \in [Chain -> Nat]
    /\ h \in [Chain -> Client \cup {NoOne}]
    /\ \A c \in Chain : p[c] \in {"new", "queued", "granted"} => l[c] = 0
    /\ \A b \in Client : /\ fr[b] + Cardinality(Holders(p, l, h, b)) = Limit
                         /\ Queued(qu[b], p, h, b)

\* m, for leases, counts the waiters and the live leases.
TenantsAre(m, p, l, h) ==
    /\ m \in [Client -> Nat]
    /\ \A b \in Client : m[b] = Cardinality(Tenants(p, l, h, b))

\* ref counts the open clients.
OpenOn(s, g, b) == {k \in Client : s[k] = "open" /\ g[k] = b}
RefsAre(r, s, g) ==
    /\ r \in [Client -> Nat]
    /\ \A b \in Client : r[b] = Cardinality(OpenOn(s, g, b))

\* A lease has a reference of its chain while that runs, and one of every
\* authentication task that holds it.
Reserves(v, c) == {a \in Auth : v[a] = c}
LeaseIs(l, p, v) ==
    \A c \in Chain : l[c] = IF p[c] \in {"request", "awaiting"}
                              THEN Cardinality(Reserves(v, c)) + 1
                              ELSE Cardinality(Reserves(v, c))

\* What has begun has a client, and a client a budget; only a chain that was
\* admitted lends its lease.
ChainsKnown ==
    /\ \A k \in Client : stage[k] = "new" <=> bud[k] = NoOne
    /\ \A c \in Chain : /\ pc[c] = "new" <=> of[c] = NoOne
                        /\ of[c] # NoOne => stage[of[c]] # "new"
    /\ \A a \in Auth : /\ auth[a] = "new" => reserved[a] = NoOne
                       /\ reserved[a] # NoOne
                          => pc[reserved[a]] \in {"request", "awaiting", "done"}

Awaits(c, a) == pc[c] = "awaiting" /\ awaits[c] = a

\* A pending login is its client's current one.  Its creator awaits it, or it
\* has the lease of a chain of the client that awaits it or is gone.
LoginHeld(a) ==
    /\ parent[a] \in Chain /\ of[parent[a]] # NoOne
    /\ current[of[parent[a]]] = a
    /\ auth[a] = "login" => reserved[a] # NoOne
    /\ reserved[a] = NoOne => Awaits(parent[a], a)
    /\ reserved[a] # NoOne =>
         /\ of[reserved[a]] = of[parent[a]]
         /\ Awaits(reserved[a], a) \/ pc[reserved[a]] = "done"

CurrentOwned(k) ==
    current[k] # NoOne =>
        /\ auth[current[k]] # "new"
        /\ parent[current[k]] \in Chain /\ of[parent[current[k]]] = k

LoginsHeld ==
    /\ \A a \in Auth : Pending(a) => LoginHeld(a)
    /\ \A k \in Client : CurrentOwned(k)

BudgetInv ==
    /\ TypeOK
    /\ ChainsKnown
    /\ LoginsHeld
    /\ LeaseIs(lease, pc, reserved)
    /\ Slots(free, queue, pc, lease, Home)
    /\ TenantsAre(leases, pc, lease, Home)
    /\ RefsAre(ref, stage, bud)
    /\ OneBudget

-----------------------------------------------------------------------------
(* Counting                                                                *)

\* How a count x of a set becomes y when one element, that was or was not in
\* it, is or is not in it afterwards.
Moves(x, y, was, is) ==
    /\ x \in Nat /\ y \in Nat
    /\ was => x > 0
    /\ (was <=> is) => y = x
    /\ was /\ ~is => y = x - 1
    /\ ~was /\ is => y = x + 1

\* Two sets that differ in c alone.
LEMMA SetMoves ==
    ASSUME NEW U, IsFiniteSet(U), NEW S \in SUBSET U, NEW T \in SUBSET U, NEW c,
           S \ {c} = T \ {c}
    PROVE  Moves(Cardinality(S), Cardinality(T), c \in S, c \in T)
<1>1. IsFiniteSet(S) /\ IsFiniteSet(T) /\ Cardinality(S) \in Nat /\ Cardinality(T) \in Nat
    BY FS_Subset, FS_CardinalityType
<1>2. (c \in S <=> c \in T) => S = T
    OBVIOUS
<1>3. c \in S => Cardinality(S) > 0
    BY <1>1, FS_EmptySet
<1>4. c \in S /\ c \notin T => T = S \ {c}
    OBVIOUS
<1>5. c \notin S /\ c \in T => T = S \cup {c}
    OBVIOUS
<1>6. c \in S => Cardinality(S \ {c}) = Cardinality(S) - 1
    BY <1>1, FS_RemoveElement
<1>7. c \notin S => Cardinality(S \cup {c}) = Cardinality(S) + 1
    BY <1>1, FS_AddElement
<1> QED
    BY <1>1, <1>2, <1>3, <1>4, <1>5, <1>6, <1>7 DEF Moves

\* Functions that differ at c alone give sets of chains that differ in c alone.
SameBut(p, r, c) == \A d \in Chain : d # c => r[d] = p[d]

LEMMA HoldersMove ==
    ASSUME NEW c \in Chain, NEW b \in Client, NEW p, NEW l, NEW h, NEW r, NEW m, NEW g,
           SameBut(p, r, c), SameBut(l, m, c), SameBut(h, g, c)
    PROVE  Moves(Cardinality(Holders(p, l, h, b)), Cardinality(Holders(r, m, g, b)),
                 c \in Holders(p, l, h, b), c \in Holders(r, m, g, b))
<1> DEFINE S == Holders(p, l, h, b)
           T == Holders(r, m, g, b)
<1>1. S \in SUBSET Chain /\ T \in SUBSET Chain
    BY DEF Holders
<1>2. S \ {c} = T \ {c}
    BY DEF Holders, SameBut
<1>3. IsFiniteSet(Chain)
    BY BudgetAssumption
<1> HIDE DEF S, T
<1>4. Moves(Cardinality(S), Cardinality(T), c \in S, c \in T)
    BY <1>1, <1>2, <1>3, SetMoves
<1> QED
    BY <1>4 DEF S, T

LEMMA TenantsMove ==
    ASSUME NEW c \in Chain, NEW b \in Client, NEW p, NEW l, NEW h, NEW r, NEW m, NEW g,
           SameBut(p, r, c), SameBut(l, m, c), SameBut(h, g, c)
    PROVE  Moves(Cardinality(Tenants(p, l, h, b)), Cardinality(Tenants(r, m, g, b)),
                 c \in Tenants(p, l, h, b), c \in Tenants(r, m, g, b))
<1> DEFINE S == Tenants(p, l, h, b)
           T == Tenants(r, m, g, b)
<1>1. S \in SUBSET Chain /\ T \in SUBSET Chain
    BY DEF Tenants
<1>2. S \ {c} = T \ {c}
    BY DEF Tenants, SameBut
<1>3. IsFiniteSet(Chain)
    BY BudgetAssumption
<1> HIDE DEF S, T
<1>4. Moves(Cardinality(S), Cardinality(T), c \in S, c \in T)
    BY <1>1, <1>2, <1>3, SetMoves
<1> QED
    BY <1>4 DEF S, T

LEMMA OpenOnMoves ==
    ASSUME NEW k \in Client, NEW b \in Client, NEW s, NEW g, NEW t, NEW f,
           \A j \in Client : j # k => t[j] = s[j] /\ f[j] = g[j]
    PROVE  Moves(Cardinality(OpenOn(s, g, b)), Cardinality(OpenOn(t, f, b)),
                 k \in OpenOn(s, g, b), k \in OpenOn(t, f, b))
<1> DEFINE S == OpenOn(s, g, b)
           T == OpenOn(t, f, b)
<1>1. S \in SUBSET Client /\ T \in SUBSET Client
    BY DEF OpenOn
<1>2. S \ {k} = T \ {k}
    BY DEF OpenOn
<1>3. IsFiniteSet(Client)
    BY BudgetAssumption
<1> HIDE DEF S, T
<1>4. Moves(Cardinality(S), Cardinality(T), k \in S, k \in T)
    BY <1>1, <1>2, <1>3, SetMoves
<1> QED
    BY <1>4 DEF S, T

LEMMA ReservesMove ==
    ASSUME NEW a \in Auth, NEW c, NEW v, NEW w,
           \A e \in Auth : e # a => w[e] = v[e]
    PROVE  Moves(Cardinality(Reserves(v, c)), Cardinality(Reserves(w, c)),
                 v[a] = c, w[a] = c)
<1> DEFINE S == Reserves(v, c)
           T == Reserves(w, c)
<1>1. S \in SUBSET Auth /\ T \in SUBSET Auth /\ (a \in S <=> v[a] = c) /\ (a \in T <=> w[a] = c)
    BY DEF Reserves
<1>2. S \ {a} = T \ {a}
    BY DEF Reserves
<1>3. IsFiniteSet(Auth)
    BY BudgetAssumption
<1> HIDE DEF S, T
<1>4. Moves(Cardinality(S), Cardinality(T), a \in S, a \in T)
    BY <1>1, <1>2, <1>3, SetMoves
<1> QED
    BY <1>1, <1>4 DEF S, T, Moves

\* The first n of a queue, woken.
LEMMA FirstCount ==
    ASSUME NEW q \in Seq(Chain), NEW n \in Nat, n <= Len(q),
           \A i, j \in 1..Len(q) : q[i] = q[j] => i = j
    PROVE  LET W == {q[i] : i \in 1..n}
           IN  W \in SUBSET Chain /\ IsFiniteSet(W) /\ Cardinality(W) = n
<1> DEFINE W == {q[i] : i \in 1..n}
           f == [i \in 1..n |-> q[i]]
<1>1. Len(q) \in Nat /\ \A i \in 1..n : i \in 1..Len(q) /\ q[i] \in Chain
    OBVIOUS
<1>2. W \in SUBSET Chain
    BY <1>1
<1>3. f \in Bijection(1..n, W)
    <2>1. f \in [1..n -> W] /\ \A w \in W : \E i \in 1..n : f[i] = w
        OBVIOUS
    <2>2. \A i, j \in 1..n : f[i] = f[j] => i = j
        BY <1>1
    <2> HIDE DEF f, W
    <2> QED
        BY <2>1, <2>2 DEF Bijection, Injection, Surjection, IsInjective
<1>4. IsFiniteSet(1..n) /\ Cardinality(1..n) = n
    <2>1. 1 \in Int /\ n \in Int
        OBVIOUS
    <2>2. IsFiniteSet(1..n) /\ Cardinality(1..n) = IF 1 > n THEN 0 ELSE n - 1 + 1
        BY <2>1, FS_Interval
    <2> QED
        BY <2>2
<1>5. ExistsBijection(1..n, W)
    BY <1>3 DEF ExistsBijection
<1>6. IsFiniteSet(W) /\ Cardinality(W) = Cardinality(1..n)
    <2> HIDE DEF W
    <2> QED
        BY <1>4, <1>5, FS_Bijection
<1> QED
    BY <1>2, <1>4, <1>6

-----------------------------------------------------------------------------
(* Waking and moving                                                       *)

\* The step from p to r wakes some queued chains and does no more.
Woken(p, r) ==
    /\ r \in [Chain -> Standing]
    /\ \A c \in Chain : r[c] = p[c] \/ (p[c] = "queued" /\ r[c] = "granted")

MayWake(b, f, q, n, p, l, h, fr, qu) ==
    /\ b \in Client /\ n \in Nat
    /\ free \in [Client -> Nat] /\ queue \in [Client -> Seq(Chain)]
    /\ fr = [free EXCEPT ![b] = f] /\ qu = [queue EXCEPT ![b] = q]
    /\ Slots(fr, qu, p, l, h)
    /\ n <= f /\ n <= Len(q)
    /\ WakeUp(b, f, q, n, p)

WakesOnly(p, l, h) ==
    /\ Slots(free', queue', pc', l, h)
    /\ Woken(p, pc')
    /\ \A d \in Client : Tenants(pc', l, h, d) = Tenants(p, l, h, d)

LEMMA WakesSlots ==
    ASSUME NEW b, NEW f, NEW q, NEW n, NEW p, NEW l, NEW h, NEW fr, NEW qu,
           MayWake(b, f, q, n, p, l, h, fr, qu)
    PROVE  WakesOnly(p, l, h)
<1> USE DEF MayWake
<1> DEFINE W == {q[i] : i \in 1..n}
           s == SubSeq(q, n + 1, Len(q))
<1>1. /\ q \in Seq(Chain) /\ f \in Nat
      /\ \A i \in 1..Len(q) : p[q[i]] = "queued" /\ h[q[i]] = b
      /\ \A i, j \in 1..Len(q) : q[i] = q[j] => i = j
      /\ f + Cardinality(Holders(p, l, h, b)) = Limit
    <2>1. fr[b] = f /\ qu[b] = q
        OBVIOUS
    <2> QED
        BY <2>1 DEF Slots, Queued
<1>2. Len(q) \in Nat /\ \A i \in 1..n : i \in 1..Len(q)
    BY <1>1
<1>3. W \in SUBSET Chain /\ IsFiniteSet(W) /\ Cardinality(W) = n
    BY <1>1, FirstCount
<1>4. /\ p \in [Chain -> Standing] /\ l \in [Chain -> Nat]
         /\ h \in [Chain -> Client \cup {NoOne}]
      /\ \A c \in Chain : p[c] \in {"new", "queued", "granted"} => l[c] = 0
    BY DEF Slots
<1>5. \A c \in W : c \in Chain /\ p[c] = "queued" /\ h[c] = b /\ l[c] = 0
    <2> SUFFICES ASSUME NEW i \in 1..n
                 PROVE  /\ q[i] \in Chain /\ p[q[i]] = "queued" /\ h[q[i]] = b
                        /\ l[q[i]] = 0
        OBVIOUS
    <2>1. q[i] \in Chain /\ p[q[i]] = "queued" /\ h[q[i]] = b
        BY <1>1, <1>2
    <2> QED
        BY <1>4, <2>1
<1>6. pc' = [c \in Chain |-> IF c \in W THEN "granted" ELSE p[c]]
    BY DEF WakeUp
<1>7. s \in Seq(Chain) /\ Len(s) = Len(q) - n /\ \A i \in 1..Len(s) : s[i] = q[n + i]
    BY <1>1, <1>2
<1>8. \A i \in 1..Len(s) : n + i \in 1..Len(q) /\ s[i] \notin W
    <2>1. \A i \in 1..Len(s) : n + i \in 1..Len(q) /\ n + i \notin 1..n
        BY <1>2, <1>7
    <2> QED
        BY <1>1, <1>2, <1>7, <2>1
<1>9. free' = [free EXCEPT ![b] = f - n] /\ queue' = [queue EXCEPT ![b] = s]
    BY DEF WakeUp
<1> HIDE DEF W, s
<1>10. Queued(s, pc', h, b)
    <2>1. \A i \in 1..Len(s) : s[i] \in Chain
        BY <1>7
    <2>2. ASSUME NEW i \in 1..Len(s)
          PROVE  pc'[s[i]] = "queued" /\ h[s[i]] = b
        <3>1. s[i] = q[n + i] /\ n + i \in 1..Len(q)
            BY <1>7, <1>8
        <3>2. p[s[i]] = "queued" /\ h[s[i]] = b
            BY <1>1, <3>1
        <3> QED
            BY <1>6, <1>8, <2>1, <3>2
    <2>3. \A i, j \in 1..Len(s) : s[i] = s[j] => i = j
        <3> SUFFICES ASSUME NEW i \in 1..Len(s), NEW j \in 1..Len(s), s[i] = s[j]
                     PROVE  i = j
            OBVIOUS
        <3>1. q[n + i] = q[n + j]
            BY <1>7
        <3>2. n + i = n + j
            BY <1>1, <1>8, <3>1
        <3> QED
            BY <1>2, <1>7, <3>2
    <2> QED
        BY <1>7, <2>2, <2>3 DEF Queued
<1>11. ASSUME NEW d \in Client, d # b
       PROVE  Queued(queue'[d], pc', h, d) /\ queue'[d] \in Seq(Chain)
    <2>1. queue'[d] = qu[d] /\ Queued(qu[d], p, h, d)
        BY <1>9, <1>11 DEF Slots
    <2>2. \A i \in 1..Len(qu[d]) : qu[d][i] \in Chain /\ qu[d][i] \notin W
        BY <1>5, <1>11, <2>1 DEF Queued
    <2> QED
        BY <1>6, <2>1, <2>2 DEF Queued
<1>12. Holders(pc', l, h, b) = Holders(p, l, h, b) \cup W
    BY <1>4, <1>5, <1>6 DEF Holders
<1>13. Holders(p, l, h, b) \cap W = {}
    BY <1>5 DEF Holders
<1>14. \A d \in Client : d # b => Holders(pc', l, h, d) = Holders(p, l, h, d)
    BY <1>5, <1>6 DEF Holders
<1>15. Cardinality(Holders(pc', l, h, b)) = Cardinality(Holders(p, l, h, b)) + n
       /\ Cardinality(Holders(p, l, h, b)) \in Nat
    <2>1. IsFiniteSet(Holders(p, l, h, b)) /\ Cardinality(Holders(p, l, h, b)) \in Nat
        BY BudgetAssumption, FS_Subset, FS_CardinalityType DEF Holders
    <2>2. Cardinality(Holders(p, l, h, b) \cup W) =
            Cardinality(Holders(p, l, h, b)) + Cardinality(W)
            - Cardinality(Holders(p, l, h, b) \cap W)
        BY <1>3, <2>1, FS_Union
    <2>3. Cardinality(Holders(p, l, h, b) \cap W) = 0
        BY <1>13, FS_EmptySet
    <2> QED
        BY <1>3, <1>12, <2>1, <2>2, <2>3
<1>16. pc' \in [Chain -> Standing] /\ Woken(p, pc')
    <2>1. ASSUME NEW c \in Chain
          PROVE  /\ pc'[c] \in Standing
                 /\ pc'[c] = p[c] \/ (p[c] = "queued" /\ pc'[c] = "granted")
        <3>1. p[c] \in Standing /\ "granted" \in Standing
            BY <1>4 DEF Standing
        <3>2. pc'[c] = IF c \in W THEN "granted" ELSE p[c]
            BY <1>6
        <3>3. c \in W => p[c] = "queued"
            BY <1>5
        <3>4. CASE c \in W
            BY <3>1, <3>2, <3>3, <3>4
        <3>5. CASE c \notin W
            BY <3>1, <3>2, <3>5
        <3> QED
            BY <3>4, <3>5
    <2>2. pc' \in [Chain -> Standing]
        BY <1>6, <2>1
    <2> QED
        BY <2>1, <2>2 DEF Woken
<1>17. \A c \in Chain : pc'[c] \in {"new", "queued", "granted"} => l[c] = 0
    BY <1>4, <1>5, <1>6
<1>18. \A d \in Client : free'[d] + Cardinality(Holders(pc', l, h, d)) = Limit
    <2>1. \A d \in Client : d # b => free'[d] = fr[d]
        BY <1>9
    <2>2. free'[b] = f - n
        BY <1>9
    <2>3. \A d \in Client : fr[d] + Cardinality(Holders(p, l, h, d)) = Limit
        BY DEF Slots
    <2>4. f - n + (Cardinality(Holders(p, l, h, b)) + n) = Limit
        BY <1>1, <1>15
    <2> QED
        BY <1>14, <1>15, <2>1, <2>2, <2>3, <2>4
<1>19. free' \in [Client -> Nat] /\ queue' \in [Client -> Seq(Chain)]
    <2>1. f - n \in Nat
        BY <1>1
    <2> QED
        BY <1>7, <1>9, <2>1
<1>20. \A d \in Client : Queued(queue'[d], pc', h, d)
    BY <1>9, <1>10, <1>11
<1>21. Slots(free', queue', pc', l, h)
    BY <1>4, <1>16, <1>17, <1>18, <1>19, <1>20 DEF Slots
<1>22. \A d \in Client : Tenants(pc', l, h, d) = Tenants(p, l, h, d)
    BY <1>4, <1>5, <1>6 DEF Tenants
<1> QED
    BY <1>16, <1>21, <1>22 DEF WakesOnly

\* How chain c goes to x with y references, and its slots and count with it.
MayMove(c, b, x, y, f, q, p, l, m, fr, qu) ==
    /\ c \in Chain /\ b \in Client /\ x \in Standing \ {"queued"} /\ y \in Nat /\ f \in Nat
    /\ Slots(free, queue, pc, lease, Home) /\ TenantsAre(leases, pc, lease, Home)
    /\ Home[c] = b
    /\ x \in {"new", "granted"} => y = 0
    /\ p = [pc EXCEPT ![c] = x] /\ l = [lease EXCEPT ![c] = y]
    /\ fr = [free EXCEPT ![b] = f] /\ qu = [queue EXCEPT ![b] = q]
    /\ Queued(q, pc, Home, b) /\ \A i \in 1..Len(q) : q[i] # c
    /\ pc[c] = "granted" \/ lease[c] > 0 =>
           f = IF x = "granted" \/ y > 0 THEN free[b] ELSE free[b] + 1
    /\ ~(pc[c] = "granted" \/ lease[c] > 0) =>
           IF x = "granted" \/ y > 0 THEN f = free[b] - 1 ELSE f = free[b]
    /\ pc[c] \in {"queued", "granted"} \/ lease[c] > 0
    /\ m = IF x = "granted" \/ y > 0 THEN leases ELSE [leases EXCEPT ![b] = @ - 1]

LEMMA OneMoves ==
    ASSUME NEW c, NEW b, NEW x, NEW y, NEW f, NEW q, NEW p, NEW l, NEW m, NEW fr, NEW qu,
           MayMove(c, b, x, y, f, q, p, l, m, fr, qu)
    PROVE  Slots(fr, qu, p, l, Home) /\ TenantsAre(m, p, l, Home) /\ leases[b] > 0
<1> USE DEF MayMove
<1>1. /\ free \in [Client -> Nat] /\ queue \in [Client -> Seq(Chain)]
      /\ pc \in [Chain -> Standing] /\ lease \in [Chain -> Nat]
      /\ Home \in [Chain -> Client \cup {NoOne}]
      /\ \A d \in Chain : pc[d] \in {"new", "queued", "granted"} => lease[d] = 0
      /\ \A d \in Client : /\ free[d] + Cardinality(Holders(pc, lease, Home, d)) = Limit
                           /\ Queued(queue[d], pc, Home, d)
      /\ leases \in [Client -> Nat]
      /\ \A d \in Client : leases[d] = Cardinality(Tenants(pc, lease, Home, d))
    BY DEF Slots, TenantsAre
<1>2. SameBut(pc, p, c) /\ SameBut(lease, l, c) /\ SameBut(Home, Home, c) /\ p[c] = x /\ l[c] = y
    BY <1>1 DEF SameBut
<1>3. p \in [Chain -> Standing] /\ l \in [Chain -> Nat]
      /\ fr \in [Client -> Nat] /\ qu \in [Client -> Seq(Chain)]
    BY <1>1 DEF Queued
<1>4. \A d \in Chain : p[d] \in {"new", "queued", "granted"} => l[d] = 0
    BY <1>1, <1>2 DEF SameBut
<1> HIDE DEF Home
<1>5. ASSUME NEW d \in Client
      PROVE  fr[d] + Cardinality(Holders(p, l, Home, d)) = Limit
    <2>1. Moves(Cardinality(Holders(pc, lease, Home, d)), Cardinality(Holders(p, l, Home, d)),
                c \in Holders(pc, lease, Home, d), c \in Holders(p, l, Home, d))
        BY <1>2, HoldersMove
    <2>2. /\ c \in Holders(pc, lease, Home, d) <=> d = b /\ (pc[c] = "granted" \/ lease[c] > 0)
          /\ c \in Holders(p, l, Home, d) <=> d = b /\ (x = "granted" \/ y > 0)
        BY <1>2 DEF Holders
    <2>3. fr[d] = IF d = b THEN f ELSE free[d]
        BY <1>1
    <2>4. free[d] + Cardinality(Holders(pc, lease, Home, d)) = Limit /\ free[d] \in Nat
        BY <1>1
    <2> QED
        BY <2>1, <2>2, <2>3, <2>4 DEF Moves
<1>6. ASSUME NEW d \in Client
      PROVE  m[d] = Cardinality(Tenants(p, l, Home, d)) /\ m[d] \in Nat
             /\ (d = b => leases[d] > 0)
    <2>1. Moves(Cardinality(Tenants(pc, lease, Home, d)), Cardinality(Tenants(p, l, Home, d)),
                c \in Tenants(pc, lease, Home, d), c \in Tenants(p, l, Home, d))
        BY <1>2, TenantsMove
    <2>2. /\ c \in Tenants(pc, lease, Home, d) <=> d = b
          /\ c \in Tenants(p, l, Home, d) <=> d = b /\ (x = "granted" \/ y > 0)
        BY <1>2 DEF Tenants
    <2>3. m[d] = IF d = b /\ ~(x = "granted" \/ y > 0) THEN leases[d] - 1 ELSE leases[d]
        BY <1>1
    <2>4. leases[d] = Cardinality(Tenants(pc, lease, Home, d))
        BY <1>1
    <2> QED
        BY <2>1, <2>2, <2>3, <2>4 DEF Moves
<1>7. m \in [Client -> Nat]
    <2>1. m \in [Client -> Int]
        BY <1>1
    <2> QED
        BY <1>6, <2>1
<1>8. ASSUME NEW d \in Client
      PROVE  Queued(qu[d], p, Home, d)
    <2>1. Queued(qu[d], pc, Home, d) /\ \A i \in 1..Len(qu[d]) : qu[d][i] # c
        <3>1. CASE d = b
            BY <1>1, <3>1
        <3>2. CASE d # b
            <4>1. qu[d] = queue[d] /\ Queued(queue[d], pc, Home, d)
                BY <1>1, <3>2
            <4>2. \A i \in 1..Len(qu[d]) : Home[qu[d][i]] = d
                BY <4>1 DEF Queued
            <4>3. \A i \in 1..Len(qu[d]) : qu[d][i] # c
                BY <1>1, <3>2, <4>2
            <4> QED
                BY <4>1, <4>3
        <3> QED
            BY <3>1, <3>2
    <2>2. \A i \in 1..Len(qu[d]) : qu[d][i] \in Chain
        BY <2>1 DEF Queued
    <2> QED
        BY <1>2, <2>1, <2>2 DEF Queued, SameBut
<1> QED
    BY <1>1, <1>3, <1>4, <1>5, <1>6, <1>7, <1>8 DEF Slots, TenantsAre

-----------------------------------------------------------------------------
(* What the actions share                                                  *)

\* The variables that count nothing.
PlainTypes ==
    /\ registry \in Client \cup {NoOne}
    /\ stage \in [Client -> {"new", "open", "closed"}]
    /\ bud \in [Client -> Client \cup {NoOne}]
    /\ current \in [Client -> Auth \cup {NoOne}]
    /\ of \in [Chain -> Client \cup {NoOne}]
    /\ awaits \in [Chain -> Auth \cup {NoOne}]
    /\ auth \in [Auth -> {"new", "pending", "login", "finished", "done"}]
    /\ parent \in [Auth -> Chain \cup {NoOne}]
    /\ reserved \in [Auth -> Chain \cup {NoOne}]

LEMMA HomeNext ==
    ASSUME UNCHANGED <<of, bud>>
    PROVE  Home' = Home
BY DEF Home

LEMMA HoldersCount ==
    ASSUME NEW p, NEW l, NEW h, NEW b
    PROVE  Cardinality(Holders(p, l, h, b)) \in Nat
<1>1. Holders(p, l, h, b) \in SUBSET Chain
    BY DEF Holders
<1> QED
    BY <1>1, BudgetAssumption, FS_Subset, FS_CardinalityType

LEMMA BudgetNext ==
    ASSUME PlainTypes', Slots(free', queue', pc', lease', Home'),
           TenantsAre(leases', pc', lease', Home'), RefsAre(ref', stage', bud'),
           OneBudget', ChainsKnown', LoginsHeld', LeaseIs(lease', pc', reserved')
    PROVE  BudgetInv'
<1>1. free' \in [Client -> 0..Limit]
    <2>1. free' \in [Client -> Nat]
          /\ \A b \in Client : free'[b] + Cardinality(Holders(pc', lease', Home', b)) = Limit
        BY DEF Slots
    <2>2. \A b \in Client : Cardinality(Holders(pc', lease', Home', b)) \in Nat
        BY HoldersCount
    <2>3. Limit \in Nat
        BY LimitAssumption
    <2>4. ASSUME NEW b \in Client
          PROVE  free'[b] \in 0..Limit
        <3>1. free'[b] \in Nat
            BY <2>1
        <3> QED
            BY <2>1, <2>2, <2>3, <3>1
    <2> QED
        BY <2>1, <2>4
<1>2. TypeOK'
    BY <1>1 DEF TypeOK, PlainTypes, Slots, TenantsAre, RefsAre, Standing
<1> QED
    BY <1>2 DEF BudgetInv

LEMMA BudgetFacts ==
    ASSUME BudgetInv
    PROVE  /\ TypeOK /\ PlainTypes /\ ChainsKnown /\ LoginsHeld /\ OneBudget
           /\ LeaseIs(lease, pc, reserved)
           /\ Slots(free, queue, pc, lease, Home)
           /\ TenantsAre(leases, pc, lease, Home)
           /\ RefsAre(ref, stage, bud)
           /\ free \in [Client -> Nat] /\ queue \in [Client -> Seq(Chain)]
           /\ leases \in [Client -> Nat] /\ ref \in [Client -> Nat]
           /\ NoOne \notin Client /\ NoOne \notin Chain /\ NoOne \notin Auth
<1>1. /\ TypeOK /\ ChainsKnown /\ LoginsHeld /\ OneBudget
      /\ LeaseIs(lease, pc, reserved)
      /\ Slots(free, queue, pc, lease, Home)
      /\ TenantsAre(leases, pc, lease, Home)
      /\ RefsAre(ref, stage, bud)
    BY DEF BudgetInv
<1>2. PlainTypes
    BY <1>1 DEF TypeOK, PlainTypes
<1>3. /\ free \in [Client -> Nat] /\ queue \in [Client -> Seq(Chain)]
      /\ leases \in [Client -> Nat] /\ ref \in [Client -> Nat]
    BY <1>1 DEF Slots, TenantsAre, RefsAre
<1>4. NoOne \notin Client /\ NoOne \notin Chain /\ NoOne \notin Auth
    BY BudgetAssumption
<1> QED
    BY <1>1, <1>2, <1>3, <1>4

\* A chain that has begun has a client and a budget.
LEMMA HomeIs ==
    ASSUME BudgetInv, NEW c \in Chain, pc[c] # "new"
    PROVE  of[c] \in Client /\ BudgetOf(c) \in Client /\ Home[c] = BudgetOf(c)
<1>1. of[c] \in Client /\ bud[of[c]] # NoOne /\ bud[of[c]] \in Client
    BY BudgetFacts DEF ChainsKnown, PlainTypes
<1> QED
    BY <1>1, BudgetFacts DEF Home, BudgetOf

\* The counts of a budget go down, and the account's budget with them.
LEMMA AccountKeeps ==
    ASSUME BudgetInv, NEW b \in Client, NEW r \in Nat, NEW m \in Nat,
           r <= ref[b], m <= leases[b], Account(b, r, m)
    PROVE  /\ OneBudget' /\ registry' \in Client \cup {NoOne}
           /\ ref' = [ref EXCEPT ![b] = r] /\ leases' = [leases EXCEPT ![b] = m]
<1>1. /\ ref \in [Client -> Nat] /\ leases \in [Client -> Nat]
      /\ registry \in Client \cup {NoOne} /\ OneBudget
    BY BudgetFacts DEF PlainTypes
<1>2. /\ ref' = [ref EXCEPT ![b] = r] /\ leases' = [leases EXCEPT ![b] = m]
      /\ registry' = IF r = 0 /\ m = 0 /\ registry = b THEN NoOne ELSE registry
    BY DEF Account
<1>3. ASSUME NEW d \in Client, ref'[d] > 0 \/ leases'[d] > 0
      PROVE  registry' = d
    <2>1. CASE d = b
        <3>1. ref'[d] = r /\ leases'[d] = m
            BY <1>1, <1>2, <2>1
        <3>2. registry = b
            BY <1>1, <1>3, <2>1, <3>1 DEF OneBudget
        <3> QED
            BY <1>2, <1>3, <2>1, <3>1, <3>2
    <2>2. CASE d # b
        <3>1. ref'[d] = ref[d] /\ leases'[d] = leases[d]
            BY <1>1, <1>2, <2>2
        <3>2. registry = d
            BY <1>1, <1>3, <3>1 DEF OneBudget
        <3> QED
            BY <1>2, <2>2, <3>2
    <2> QED
        BY <2>1, <2>2
<1> QED
    BY <1>1, <1>2, <1>3 DEF OneBudget

\* The queue of b without one of its waiters.
LEMMA WithoutKeeps ==
    ASSUME NEW b \in Client, NEW c \in Chain, NEW q, NEW p, NEW h, Queued(q, p, h, b)
    PROVE  /\ Queued(Without(q, c), p, h, b)
           /\ \A i \in 1..Len(Without(q, c)) : Without(q, c)[i] # c
<1>1. CASE ~\E i \in 1..Len(q) : q[i] = c
    BY <1>1 DEF Without
<1>2. CASE \E i \in 1..Len(q) : q[i] = c
    <2> DEFINE i == CHOOSE j \in 1..Len(q) : q[j] = c
               s == [j \in 1..Len(q) - 1 |-> IF j < i THEN q[j] ELSE q[j + 1]]
    <2>1. i \in 1..Len(q) /\ q[i] = c
        BY <1>2
    <2>2. q \in Seq(Chain) /\ Len(q) \in Nat
        BY DEF Queued
    <2> HIDE DEF i
    <2>3. \A j \in 1..Len(q) - 1 : s[j] \in Chain
        BY <2>1, <2>2
    <2>4. s \in Seq(Chain) /\ Len(s) = Len(q) - 1
        <3>1. s \in [1..Len(q) - 1 -> Chain]
            BY <2>3
        <3>2. Len(q) - 1 \in Nat
            BY <2>1, <2>2
        <3> HIDE DEF s
        <3> QED
            BY <3>1, <3>2
    <2>5. ASSUME NEW j \in 1..Len(s)
          PROVE  \E k \in 1..Len(q) : s[j] = q[k] /\ k # i /\ k = IF j < i THEN j ELSE j + 1
        BY <2>1, <2>2, <2>4
    <2> HIDE DEF s
    <2>6. \A j \in 1..Len(s) : p[s[j]] = "queued" /\ h[s[j]] = b
        BY <2>5 DEF Queued
    <2>7. \A j \in 1..Len(s) : s[j] # c
        BY <2>1, <2>5 DEF Queued
    <2>8. \A j, k \in 1..Len(s) : s[j] = s[k] => j = k
        <3> SUFFICES ASSUME NEW j \in 1..Len(s), NEW k \in 1..Len(s), s[j] = s[k]
                     PROVE  j = k
            OBVIOUS
        <3>1. PICK v \in 1..Len(q) : s[j] = q[v] /\ v = IF j < i THEN j ELSE j + 1
            BY <2>5
        <3>2. PICK w \in 1..Len(q) : s[k] = q[w] /\ w = IF k < i THEN k ELSE k + 1
            BY <2>5
        <3>3. v = w
            BY <3>1, <3>2 DEF Queued
        <3> QED
            BY <2>1, <2>2, <2>4, <3>1, <3>2, <3>3
    <2>9. Without(q, c) = s
        BY <1>2 DEF Without, s, i
    <2> QED
        BY <2>4, <2>6, <2>7, <2>8, <2>9 DEF Queued
<1> QED
    BY <1>1, <1>2

\* What is left of the books after a step of chain c, apart from who is whose.
BooksKept ==
    /\ Slots(free', queue', pc', lease', Home')
    /\ TenantsAre(leases', pc', lease', Home')
    /\ OneBudget' /\ registry' \in Client \cup {NoOne}
    /\ ref' = ref

\* A chain stays as it is for the budget.
LEMMA StaysKeeps ==
    ASSUME BudgetInv, NEW c \in Chain, NEW x \in {"request", "awaiting", "done"}, NEW y \in Nat,
           lease[c] > 0, y > 0, lease' = [lease EXCEPT ![c] = y], pc' = [pc EXCEPT ![c] = x],
           UNCHANGED <<of, bud, free, queue, registry, ref, leases>>
    PROVE  BooksKept
<1>1. pc[c] # "new" /\ pc[c] # "queued"
    BY BudgetFacts DEF Slots
<1> DEFINE b == BudgetOf(c)
<1>2. b \in Client /\ Home[c] = b /\ Home' = Home
    BY <1>1, HomeIs, HomeNext
<1> HIDE DEF b
<1>3. /\ free = [free EXCEPT ![b] = free[b]] /\ queue = [queue EXCEPT ![b] = queue[b]]
      /\ free[b] \in Nat
    BY <1>2, BudgetFacts
<1>4. Queued(queue[b], pc, Home, b) /\ \A i \in 1..Len(queue[b]) : queue[b][i] # c
    BY <1>1, <1>2, BudgetFacts DEF Slots, Queued
<1>5. x \in Standing \ {"queued"} /\ x # "granted" /\ x # "new"
    BY DEF Standing
<1>6. Slots(free, queue, pc', lease', Home) /\ TenantsAre(leases, pc', lease', Home)
    <2>1. MayMove(c, b, x, y, free[b], queue[b], pc', lease', leases, free, queue)
        BY <1>2, <1>3, <1>4, <1>5, BudgetFacts DEF MayMove
    <2> QED
        BY <2>1, OneMoves
<1>7. OneBudget' /\ registry' \in Client \cup {NoOne}
    BY BudgetFacts DEF OneBudget, PlainTypes
<1> QED
    BY <1>2, <1>6, <1>7 DEF BooksKept

\* A reference of c is given up.
LEMMA DropKeeps ==
    ASSUME BudgetInv, NEW c \in Chain, NEW x \in {"request", "awaiting", "done"}, NEW p,
           lease[c] > 0, p = [pc EXCEPT ![c] = x], DropLease(c, p), UNCHANGED <<of, bud>>
    PROVE  /\ BooksKept /\ Woken(p, pc')
           /\ lease' = [lease EXCEPT ![c] = lease[c] - 1]
<1>1. pc[c] # "new" /\ pc[c] # "queued"
    BY BudgetFacts DEF Slots
<1> DEFINE b == BudgetOf(c)
<1>2. b \in Client /\ Home[c] = b /\ Home' = Home
    BY <1>1, HomeIs, HomeNext
<1>3. lease' = [lease EXCEPT ![c] = lease[c] - 1] /\ lease[c] \in Nat
    BY BudgetFacts DEF DropLease, Slots
<1>4. x \in Standing \ {"queued"} /\ x # "granted" /\ x # "new"
    BY DEF Standing
<1>5. CASE lease[c] = 1
    <2> DEFINE n == AsManyAsAllowed(1, queue[b])
               f == free[b] + 1
               m == [leases EXCEPT ![b] = @ - 1]
    <2>1. WakeUp(b, f, queue[b], n, p) /\ Account(b, ref[b], leases[b] - 1)
        BY <1>5 DEF DropLease
    <2> HIDE DEF b
    <2>2. free[b] \in Nat /\ queue[b] \in Seq(Chain) /\ ref[b] \in Nat /\ leases[b] \in Nat
        BY <1>2, BudgetFacts
    <2>3. n \in Nat /\ n <= 1 /\ n <= Len(queue[b]) /\ f \in Nat /\ n <= f
        BY <2>2 DEF AsManyAsAllowed
    <2> DEFINE fr == [free EXCEPT ![b] = f]
    <2> HIDE DEF n
    <2>4. lease' = [lease EXCEPT ![c] = 0]
        BY <1>3, <1>5
    <2>5. Queued(queue[b], pc, Home, b) /\ \A i \in 1..Len(queue[b]) : queue[b][i] # c
        BY <1>1, <1>2, BudgetFacts DEF Slots, Queued
    <2>6. queue = [queue EXCEPT ![b] = queue[b]]
        BY <1>2, BudgetFacts
    <2> HIDE DEF f, m, fr
    <2>7. f = free[b] + 1 /\ m = [leases EXCEPT ![b] = @ - 1] /\ fr = [free EXCEPT ![b] = f]
        BY DEF f, m, fr
    <2>8. Slots(fr, queue, p, lease', Home) /\ TenantsAre(m, p, lease', Home) /\ leases[b] > 0
        <3>1. MayMove(c, b, x, 0, f, queue[b], p, lease', m, fr, queue)
            BY <1>2, <1>4, <1>5, <2>3, <2>4, <2>5, <2>6, <2>7, BudgetFacts DEF MayMove
        <3> QED
            BY <3>1, OneMoves
    <2>9. /\ Slots(free', queue', pc', lease', Home) /\ Woken(p, pc')
          /\ \A d \in Client : Tenants(pc', lease', Home, d) = Tenants(p, lease', Home, d)
        <3>1. MayWake(b, f, queue[b], n, p, lease', Home, fr, queue)
            BY <1>2, <2>1, <2>3, <2>6, <2>7, <2>8, BudgetFacts DEF MayWake
        <3>2. WakesOnly(p, lease', Home)
            BY <3>1, WakesSlots
        <3> QED
            BY <3>2 DEF WakesOnly
    <2>10. /\ OneBudget' /\ registry' \in Client \cup {NoOne}
           /\ ref' = [ref EXCEPT ![b] = ref[b]] /\ leases' = [leases EXCEPT ![b] = leases[b] - 1]
        <3>1. leases[b] - 1 \in Nat /\ leases[b] - 1 <= leases[b] /\ ref[b] <= ref[b]
            BY <2>2, <2>8
        <3> QED
            BY <1>2, <2>1, <2>2, <3>1, AccountKeeps
    <2>11. ref' = ref /\ leases' = m
        BY <1>2, <2>7, <2>10, BudgetFacts
    <2>12. TenantsAre(leases', pc', lease', Home)
        BY <2>8, <2>9, <2>11 DEF TenantsAre
    <2> QED
        BY <1>2, <1>3, <2>9, <2>10, <2>11, <2>12 DEF BooksKept
<1>6. CASE lease[c] # 1
    <2>1. pc' = p /\ UNCHANGED <<free, queue, registry, ref, leases>>
        BY <1>6 DEF DropLease, semVars, budgetVars
    <2>2. lease[c] - 1 \in Nat /\ lease[c] - 1 > 0
        BY <1>3, <1>6
    <2>3. BooksKept
        BY <1>3, <2>1, <2>2, StaysKeeps
    <2>4. Woken(p, pc')
        BY <2>1, <2>3 DEF BooksKept, Slots, Woken
    <2> QED
        BY <1>3, <2>3, <2>4
<1> QED
    BY <1>5, <1>6

\* A waiter goes on, or goes: it has f slots and q waiters behind it.
WaiterStep(c, x, f, q, b) ==
    /\ b \in Client /\ BudgetOf(c) = b /\ f \in Nat
    /\ pc[c] \in {"queued", "granted"}
    /\ f = IF x = "done" /\ pc[c] = "granted" THEN free[b] + 1 ELSE free[b]
    /\ x = "request" => pc[c] = "granted"
    /\ Queued(q, pc, Home, b) /\ \A i \in 1..Len(q) : q[i] # c
    /\ WakeUp(b, f, q, AsManyAsAllowed(f, q), [pc EXCEPT ![c] = x])
    /\ lease' = [lease EXCEPT ![c] = IF x = "done" THEN 0 ELSE 1]
    /\ IF x = "done" THEN Account(b, ref[b], leases[b] - 1)
       ELSE UNCHANGED <<registry, ref, leases>>
    /\ UNCHANGED <<of, bud>>

LEMMA WaiterKeeps ==
    ASSUME BudgetInv, NEW c \in Chain, NEW x \in {"request", "done"}, NEW f, NEW q, NEW b,
           WaiterStep(c, x, f, q, b)
    PROVE  BooksKept /\ Woken([pc EXCEPT ![c] = x], pc')
<1> USE DEF WaiterStep
<1> DEFINE p == [pc EXCEPT ![c] = x]
           r == lease'
<1> DEFINE n == AsManyAsAllowed(f, q)
           y == IF x = "done" THEN 0 ELSE 1
           m == IF x = "done" THEN [leases EXCEPT ![b] = @ - 1] ELSE leases
           fr == [free EXCEPT ![b] = f]
           qu == [queue EXCEPT ![b] = q]
<1>1. Home[c] = b /\ Home' = Home
    BY HomeIs, HomeNext
<1>2. n \in Nat /\ n <= f /\ n <= Len(q)
    BY DEF AsManyAsAllowed, Queued
<1>3. lease[c] = 0
    BY BudgetFacts DEF Slots
<1>4. x \in Standing \ {"queued"} /\ x # "granted" /\ x # "new"
    BY DEF Standing
<1>5. free[b] \in Nat /\ ref[b] \in Nat /\ leases[b] \in Nat
    BY BudgetFacts
<1>6. y \in Nat /\ (y > 0 <=> x = "request")
    OBVIOUS
<1>7. WakeUp(b, f, q, n, p)
    OBVIOUS
<1>8. r = [lease EXCEPT ![c] = y]
    OBVIOUS
<1> HIDE DEF n, y
<1>9. fr = [free EXCEPT ![b] = f] /\ qu = [queue EXCEPT ![b] = q]
      /\ m = IF x = "granted" \/ y > 0 THEN leases ELSE [leases EXCEPT ![b] = @ - 1]
    BY <1>4, <1>6
<1> HIDE DEF m, fr, qu
<1>10. /\ (pc[c] = "granted" \/ lease[c] > 0) =>
            f = IF x = "granted" \/ y > 0 THEN free[b] ELSE free[b] + 1
       /\ ~(pc[c] = "granted" \/ lease[c] > 0) =>
            IF x = "granted" \/ y > 0 THEN f = free[b] - 1 ELSE f = free[b]
    BY <1>3, <1>4, <1>6
<1>11. Slots(fr, qu, p, r, Home) /\ TenantsAre(m, p, r, Home) /\ leases[b] > 0
    <2>1. MayMove(c, b, x, y, f, q, p, r, m, fr, qu)
        BY <1>1, <1>4, <1>6, <1>8, <1>9, <1>10, BudgetFacts DEF MayMove
    <2> QED
        BY <2>1, OneMoves
<1>12. /\ Slots(free', queue', pc', r, Home) /\ Woken(p, pc')
       /\ \A d \in Client : Tenants(pc', r, Home, d) = Tenants(p, r, Home, d)
    <2>1. MayWake(b, f, q, n, p, r, Home, fr, qu)
        BY <1>2, <1>7, <1>9, <1>11, BudgetFacts DEF MayWake
    <2>2. WakesOnly(p, r, Home)
        BY <2>1, WakesSlots
    <2> QED
        BY <2>2 DEF WakesOnly
<1>13. OneBudget' /\ registry' \in Client \cup {NoOne} /\ ref' = ref /\ leases' = m
    <2>1. CASE x = "done"
        <3>1. leases[b] - 1 \in Nat /\ leases[b] - 1 <= leases[b] /\ ref[b] <= ref[b]
            BY <1>5, <1>11
        <3>2. /\ OneBudget' /\ registry' \in Client \cup {NoOne}
              /\ ref' = [ref EXCEPT ![b] = ref[b]]
              /\ leases' = [leases EXCEPT ![b] = leases[b] - 1]
            BY <1>5, <2>1, <3>1, AccountKeeps
        <3> QED
            BY <2>1, <3>2, BudgetFacts DEF m
    <2>2. CASE x # "done"
        BY <2>2, BudgetFacts DEF m, OneBudget, PlainTypes
    <2> QED
        BY <2>1, <2>2
<1>14. TenantsAre(leases', pc', r, Home)
    BY <1>11, <1>12, <1>13 DEF TenantsAre
<1> QED
    BY <1>1, <1>12, <1>13, <1>14 DEF BooksKept

-----------------------------------------------------------------------------
(* Whose lease it is                                                       *)

LEMMA BooksNext ==
    ASSUME BudgetInv, BooksKept, UNCHANGED <<stage, bud>>, PlainTypes', ChainsKnown', LoginsHeld',
           LeaseIs(lease', pc', reserved')
    PROVE  BudgetInv'
<1>1. RefsAre(ref', stage', bud')
    BY BudgetFacts DEF BooksKept
<1> QED
    BY <1>1, BudgetNext DEF BooksKept

\* The references of c alone change, with those that hold its lease.
LeaseStep(c, x, y) ==
    /\ Woken([pc EXCEPT ![c] = x], pc') /\ lease' = [lease EXCEPT ![c] = y]
    /\ x # "queued"
    /\ y = IF x \in {"request", "awaiting"} THEN Cardinality(Reserves(reserved', c)) + 1
            ELSE Cardinality(Reserves(reserved', c))
    /\ \A d \in Chain : d # c => Reserves(reserved', d) = Reserves(reserved, d)

LEMMA LeaseMoves ==
    ASSUME BudgetInv, NEW c \in Chain, NEW x, NEW y, LeaseStep(c, x, y)
    PROVE  LeaseIs(lease', pc', reserved')
<1> USE DEF LeaseStep
<1> DEFINE p == [pc EXCEPT ![c] = x]
<1>1. LeaseIs(lease, pc, reserved) /\ pc \in [Chain -> Standing] /\ lease \in [Chain -> Nat]
    BY BudgetFacts DEF Slots
<1>2. ASSUME NEW d \in Chain
      PROVE  lease'[d] = IF pc'[d] \in {"request", "awaiting"}
                           THEN Cardinality(Reserves(reserved', d)) + 1
                           ELSE Cardinality(Reserves(reserved', d))
    <2>1. CASE d = c
        <3>1. p[d] = x /\ lease'[d] = y
            BY <1>1, <2>1
        <3>2. pc'[d] = x
            BY <3>1 DEF Woken
        <3> QED
            BY <2>1, <3>1, <3>2
    <2>2. CASE d # c
        <3>1. p[d] = pc[d] /\ lease'[d] = lease[d]
              /\ Reserves(reserved', d) = Reserves(reserved, d)
            BY <1>1, <2>2
        <3>2. pc'[d] \in {"request", "awaiting"} <=> pc[d] \in {"request", "awaiting"}
            BY <3>1 DEF Woken
        <3> QED
            BY <1>1, <3>1, <3>2 DEF LeaseIs
    <2> QED
        BY <2>1, <2>2
<1> QED
    BY <1>2 DEF LeaseIs

LEMMA ReservesType ==
    ASSUME NEW v, NEW c
    PROVE  Cardinality(Reserves(v, c)) \in Nat
<1>1. Reserves(v, c) \in SUBSET Auth
    BY DEF Reserves
<1> QED
    BY <1>1, BudgetAssumption, FS_Subset, FS_CardinalityType

\* The lease of c, and who may not hold one.
LEMMA LeaseOf ==
    ASSUME BudgetInv, NEW c \in Chain
    PROVE  /\ lease[c] \in Nat
           /\ pc[c] \in {"request", "awaiting"} =>
                lease[c] = Cardinality(Reserves(reserved, c)) + 1 /\ lease[c] > 0
           /\ pc[c] \notin {"request", "awaiting"}
              => lease[c] = Cardinality(Reserves(reserved, c))
           /\ \A a \in Auth : reserved[a] = c => lease[c] > 0
<1>1. LeaseIs(lease, pc, reserved) /\ lease \in [Chain -> Nat]
    BY BudgetFacts DEF Slots
<1>2. Cardinality(Reserves(reserved, c)) \in Nat
    BY ReservesType
<1>3. \A a \in Auth : reserved[a] = c => Cardinality(Reserves(reserved, c)) > 0
    BY ReservesMove DEF Moves
<1> QED
    BY <1>1, <1>2, <1>3 DEF LeaseIs

\* The logins stay as they are while no chain leaves one that is pending.
LEMMA LoginsStay ==
    ASSUME BudgetInv, UNCHANGED <<current, auth, parent, reserved>>,
           \A d \in Chain :
              /\ of[d] # NoOne => of'[d] = of[d]
              /\ pc[d] = "done" => pc'[d] = "done"
              /\ pc[d] = "awaiting" /\ Pending(awaits[d]) =>
                    pc'[d] = "awaiting" /\ awaits'[d] = awaits[d]
    PROVE  LoginsHeld'
<1>1. LoginsHeld /\ PlainTypes /\ NoOne \notin Chain
    BY BudgetFacts
<1>2. ASSUME NEW a \in Auth, Pending(a)
      PROVE  LoginHeld(a)'
    <2>1. reserved[a] # NoOne => reserved[a] \in Chain
        BY <1>1 DEF PlainTypes
    <2>2. LoginHeld(a)
        BY <1>1, <1>2 DEF LoginsHeld
    <2> QED
        BY <1>1, <1>2, <2>1, <2>2 DEF LoginHeld, Awaits
<1>3. ASSUME NEW k \in Client
      PROVE  CurrentOwned(k)'
    BY <1>1, BudgetFacts DEF LoginsHeld, CurrentOwned, PlainTypes
<1>4. \A a \in Auth : Pending(a)' <=> Pending(a)
    BY DEF Pending
<1> QED
    BY <1>2, <1>3, <1>4 DEF LoginsHeld

\* What begins, begins with its client; what was admitted stays so.
LEMMA KnownStay ==
    ASSUME BudgetInv, UNCHANGED <<stage, bud, of>>,
           \A d \in Chain :
              /\ pc'[d] = "new" <=> pc[d] = "new"
              /\ pc[d] \in {"request", "awaiting", "done"} =>
                    pc'[d] \in {"request", "awaiting", "done"},
           \A a \in Auth :
              /\ auth'[a] = "new" => auth[a] = "new" /\ reserved'[a] = NoOne
              /\ \/ reserved'[a] \in {NoOne, reserved[a]}
                 \/ reserved'[a] \in Chain
                    /\ pc'[reserved'[a]] \in {"request", "awaiting", "done"}
    PROVE  ChainsKnown'
<1>1. ChainsKnown /\ PlainTypes /\ NoOne \notin Chain
    BY BudgetFacts
<1>2. \A a \in Auth : reserved[a] # NoOne => reserved[a] \in Chain
    BY <1>1 DEF PlainTypes
<1> QED
    BY <1>1, <1>2 DEF ChainsKnown

\* Chain c, in a request, goes to x; the woken are queued before.
GoesTo(c, x) ==
    /\ Woken([pc EXCEPT ![c] = x], pc')
    /\ pc \in [Chain -> Standing]

LEMMA GoesToFacts ==
    ASSUME NEW c \in Chain, NEW x, GoesTo(c, x), x # "queued"
    PROVE  /\ pc'[c] = x
           /\ \A d \in Chain :
                d # c => pc'[d] = pc[d] \/ (pc[d] = "queued" /\ pc'[d] = "granted")
BY DEF GoesTo, Woken

LEMMA GoesToKeeps ==
    ASSUME NEW c \in Chain, NEW x \in {"request", "awaiting", "done"}, GoesTo(c, x), pc[c] # "new"
    PROVE  /\ pc'[c] = x
           /\ \A d \in Chain :
                /\ pc'[d] = "new" <=> pc[d] = "new"
                /\ pc[d] \in {"request", "awaiting", "done"} =>
                      pc'[d] \in {"request", "awaiting", "done"}
                /\ d # c => (pc[d] \in {"request", "awaiting", "done"} => pc'[d] = pc[d])
BY GoesToFacts

-----------------------------------------------------------------------------
(* The actions of the chains                                               *)

LEMMA AnsweredKeeps ==
    ASSUME BudgetInv, NEW c \in Chain, Answered(c)
    PROVE  BudgetInv'
<1>1. /\ pc[c] = "request" /\ DropLease(c, [pc EXCEPT ![c] = "done"])
      /\ UNCHANGED <<of, stage, bud, current, awaits, auth, parent, reserved>>
    BY DEF Answered, clientVars, authVars
<1>2. lease[c] = Cardinality(Reserves(reserved, c)) + 1 /\ lease[c] > 0
      /\ Cardinality(Reserves(reserved, c)) \in Nat
    BY <1>1, LeaseOf, ReservesType
<1>3. /\ BooksKept /\ GoesTo(c, "done") /\ lease' = [lease EXCEPT ![c] = lease[c] - 1]
      /\ Woken([pc EXCEPT ![c] = "done"], pc')
    BY <1>1, <1>2, DropKeeps, BudgetFacts DEF GoesTo, Slots
<1>4. LeaseIs(lease', pc', reserved')
    <2>1. LeaseStep(c, "done", lease[c] - 1)
        BY <1>1, <1>3, <1>2 DEF LeaseStep
    <2> QED
        BY <2>1, LeaseMoves
<1>5. ChainsKnown'
    BY <1>1, <1>3, GoesToKeeps, KnownStay, BudgetFacts DEF ChainsKnown
<1>6. LoginsHeld'
    BY <1>1, <1>3, GoesToKeeps, LoginsStay
<1>7. PlainTypes'
    BY <1>1, <1>3, BudgetFacts DEF PlainTypes, BooksKept
<1> QED
    BY <1>1, <1>3, <1>4, <1>5, <1>6, <1>7, BooksNext

LEMMA AuthDeliveredKeeps ==
    ASSUME BudgetInv, NEW c \in Chain, AuthDelivered(c)
    PROVE  BudgetInv'
<1>1. /\ pc[c] = "awaiting" /\ ~Pending(awaits[c]) /\ awaits' = [awaits EXCEPT ![c] = NoOne]
      /\ UNCHANGED <<of, stage, bud, current, auth, parent, reserved>>
    BY DEF AuthDelivered, clientVars, authVars
<1>2. lease[c] = Cardinality(Reserves(reserved, c)) + 1 /\ lease[c] > 0
      /\ Cardinality(Reserves(reserved, c)) \in Nat
    BY <1>1, LeaseOf, ReservesType
<1>3. awaits' \in [Chain -> Auth \cup {NoOne}]
      /\ \A d \in Chain : d # c => awaits'[d] = awaits[d]
    BY <1>1, BudgetFacts DEF PlainTypes
<1>4. PICK x \in {"request", "done"} :
        /\ BooksKept /\ GoesTo(c, x) /\ Woken([pc EXCEPT ![c] = x], pc')
        /\ lease' = [lease EXCEPT ![c] = IF x = "done" THEN lease[c] - 1 ELSE lease[c]]
    <2>1. CASE /\ pc' = [pc EXCEPT ![c] = "request"]
               /\ UNCHANGED <<free, queue, registry, ref, leases, lease>>
        <3>1. lease' = [lease EXCEPT ![c] = lease[c]] /\ lease[c] \in Nat
            BY <2>1, BudgetFacts DEF Slots
        <3>2. BooksKept
            BY <1>1, <1>2, <2>1, <3>1, StaysKeeps
        <3>3. GoesTo(c, "request") /\ Woken([pc EXCEPT ![c] = "request"], pc')
            BY <2>1, BudgetFacts DEF GoesTo, Woken, Slots, Standing
        <3> QED
            BY <3>1, <3>2, <3>3
    <2>2. CASE DropLease(c, [pc EXCEPT ![c] = "done"])
        BY <1>1, <1>2, <2>2, DropKeeps, BudgetFacts DEF GoesTo, Slots
    <2> QED
        BY <2>1, <2>2 DEF AuthDelivered, semVars, budgetVars
<1>5. LeaseIs(lease', pc', reserved')
    <2>1. LeaseStep(c, x, IF x = "done" THEN lease[c] - 1 ELSE lease[c])
        BY <1>1, <1>2, <1>4 DEF LeaseStep
    <2> QED
        BY <2>1, LeaseMoves
<1>6. ChainsKnown'
    BY <1>1, <1>4, GoesToKeeps, KnownStay, BudgetFacts DEF ChainsKnown
<1>7. LoginsHeld'
    BY <1>1, <1>3, <1>4, GoesToKeeps, LoginsStay
<1>8. PlainTypes'
    BY <1>1, <1>3, <1>4, BudgetFacts DEF PlainTypes, BooksKept
<1> QED
    BY <1>1, <1>4, <1>5, <1>6, <1>7, <1>8, BooksNext

LEMMA ReauthenticateKeeps ==
    ASSUME BudgetInv, NEW c \in Chain, NEW a \in Auth, Reauthenticate(c, a)
    PROVE  BudgetInv'
<1> DEFINE k == of[c]
           joins == current[k] # NoOne /\ Pending(current[k])
<1>1. /\ pc[c] = "request" /\ pc' = [pc EXCEPT ![c] = "awaiting"]
      /\ awaits' = [awaits EXCEPT ![c] = a]
      /\ UNCHANGED <<free, queue, registry, ref, leases, stage, bud, of, lease, reserved>>
      /\ joins => a = current[k] /\ UNCHANGED <<auth, parent, current>>
      /\ ~joins => /\ auth[a] = "new"
                   /\ auth' = [auth EXCEPT ![a] = "pending"]
                   /\ parent' = [parent EXCEPT ![a] = c]
                   /\ current' = [current EXCEPT ![k] = a]
    BY DEF Reauthenticate, budgetVars, semVars
<1>2. PlainTypes /\ ChainsKnown /\ LoginsHeld /\ k \in Client /\ NoOne \notin Auth
      /\ pc \in [Chain -> Standing]
    BY <1>1, HomeIs, BudgetFacts DEF Slots
<1>3. lease[c] = Cardinality(Reserves(reserved, c)) + 1 /\ lease[c] > 0
      /\ Cardinality(Reserves(reserved, c)) \in Nat /\ lease[c] \in Nat
    BY <1>1, LeaseOf, ReservesType
<1>4. lease' = [lease EXCEPT ![c] = lease[c]]
    BY <1>1, BudgetFacts DEF Slots
<1>5. BooksKept
    BY <1>1, <1>3, <1>4, StaysKeeps
<1>6. GoesTo(c, "awaiting") /\ Woken([pc EXCEPT ![c] = "awaiting"], pc')
    BY <1>1, <1>2 DEF GoesTo, Woken, Standing
<1>7. LeaseIs(lease', pc', reserved')
    <2>1. LeaseStep(c, "awaiting", lease[c])
        BY <1>1, <1>4, <1>6, <1>3 DEF LeaseStep
    <2> QED
        BY <2>1, LeaseMoves
<1>8. awaits' \in [Chain -> Auth \cup {NoOne}] /\ awaits'[c] = a
      /\ \A d \in Chain : d # c => awaits'[d] = awaits[d] /\ pc'[d] = pc[d]
    BY <1>1, <1>2 DEF PlainTypes
<1> HIDE DEF k
<1>9. CASE joins
    <2>1. UNCHANGED <<auth, parent, current>>
        BY <1>1, <1>9
    <2> HIDE DEF joins
    <2>2. ChainsKnown'
        BY <1>1, <1>2, <1>6, <2>1, GoesToKeeps, KnownStay DEF ChainsKnown
    <2>3. LoginsHeld'
        BY <1>1, <1>8, <2>1, LoginsStay
    <2>4. PlainTypes'
        BY <1>1, <1>2, <1>8, <2>1 DEF PlainTypes
    <2> QED
        BY <1>1, <1>5, <1>7, <2>2, <2>3, <2>4, BooksNext
<1>10. CASE ~joins
    <2>1. /\ auth[a] = "new"
          /\ auth' = [auth EXCEPT ![a] = "pending"]
          /\ parent' = [parent EXCEPT ![a] = c]
          /\ current' = [current EXCEPT ![k] = a]
        BY <1>1, <1>10
    <2>2. current[k] # NoOne => current[k] \in Auth /\ ~Pending(current[k])
        BY <1>2, <1>10 DEF PlainTypes
    <2> HIDE DEF joins
    <2>3. /\ auth'[a] = "pending" /\ parent'[a] = c /\ current'[k] = a /\ reserved[a] = NoOne
          /\ \A e \in Auth : e # a => auth'[e] = auth[e] /\ parent'[e] = parent[e]
          /\ \A j \in Client : j # k => current'[j] = current[j]
        BY <1>2, <2>1 DEF PlainTypes, ChainsKnown
    <2>4. ChainsKnown'
        <3>1. \A e \in Auth : auth'[e] = "new" => auth[e] = "new" /\ reserved'[e] = NoOne
            BY <1>1, <1>2, <2>3 DEF ChainsKnown
        <3> QED
            BY <1>1, <1>2, <1>6, <3>1, GoesToKeeps, KnownStay
    <2>5. of[c] = k /\ of[c] # NoOne
        BY <1>1, <1>2, BudgetFacts DEF k
    <2>6. ASSUME NEW e \in Auth, e # a, Pending(e)
          PROVE  LoginHeld(e)'
        <3>1. LoginHeld(e)
            BY <1>2, <2>6 DEF LoginsHeld
        <3>2. of[parent[e]] # k /\ of[parent[e]] \in Client
            BY <1>2, <2>2, <2>6, <3>1 DEF PlainTypes, LoginHeld
        <3>3. reserved[e] # NoOne => reserved[e] \in Chain
            BY <1>2 DEF PlainTypes
        <3>4. /\ auth'[e] = auth[e] /\ parent'[e] = parent[e] /\ reserved'[e] = reserved[e]
              /\ of' = of /\ current'[of[parent[e]]] = e
            BY <1>1, <2>3, <2>6, <3>1, <3>2 DEF LoginHeld
        <3>5. \A d \in Chain : Awaits(d, e) => Awaits(d, e)'
            BY <1>1, <1>8 DEF Awaits
        <3>6. \A d \in Chain : pc[d] = "done" => pc'[d] = "done"
            BY <1>1, <1>8
        <3> QED
            BY <3>1, <3>3, <3>4, <3>5, <3>6 DEF LoginHeld
    <2>7. \A e \in Auth : e # a => (Pending(e)' <=> Pending(e))
        BY <2>3 DEF Pending
    <2>8. LoginsHeld'
        <3>1. LoginHeld(a)'
            BY <1>1, <1>2, <1>8, <2>3, <2>5 DEF LoginHeld, Awaits
        <3>2. ASSUME NEW j \in Client
              PROVE  CurrentOwned(j)'
            <4>1. current[j] # a
                BY <1>2, <2>1 DEF LoginsHeld, CurrentOwned
            <4> QED
                BY <1>1, <1>2, <2>3, <2>5, <4>1 DEF LoginsHeld, CurrentOwned, PlainTypes
        <3> QED
            BY <2>6, <2>7, <3>1, <3>2 DEF LoginsHeld
    <2>9. PlainTypes'
        BY <1>1, <1>2, <1>8, <2>1 DEF PlainTypes
    <2> QED
        BY <1>1, <1>5, <1>7, <2>4, <2>8, <2>9, BooksNext
<1> QED
    BY <1>9, <1>10

\* The cancelled chain hands its reference to the pending login, or drops it.
LEMMA CancelChainKeeps ==
    ASSUME BudgetInv, NEW c \in Chain, CancelChain(c)
    PROVE  BudgetInv'
<1> DEFINE a == current[of[c]]
           lends == a # NoOne /\ Pending(a) /\ reserved[a] = NoOne
<1>1. /\ pc[c] \in {"request", "awaiting"} /\ awaits' = [awaits EXCEPT ![c] = NoOne]
      /\ lends => /\ reserved' = [reserved EXCEPT ![a] = c]
                  /\ pc' = [pc EXCEPT ![c] = "done"]
                  /\ UNCHANGED <<free, queue, registry, ref, leases, lease>>
      /\ ~lends => DropLease(c, [pc EXCEPT ![c] = "done"]) /\ UNCHANGED reserved
      /\ UNCHANGED <<of, stage, bud, current, auth, parent>>
    BY DEF CancelChain, clientVars, semVars, budgetVars
<1>2. lease[c] = Cardinality(Reserves(reserved, c)) + 1 /\ lease[c] > 0
      /\ Cardinality(Reserves(reserved, c)) \in Nat /\ lease[c] \in Nat
    BY <1>1, LeaseOf, ReservesType
<1>3. awaits' \in [Chain -> Auth \cup {NoOne}]
      /\ \A d \in Chain : d # c => awaits'[d] = awaits[d]
    BY <1>1, BudgetFacts DEF PlainTypes
<1>4. /\ of[c] \in Client /\ a \in Auth \cup {NoOne} /\ PlainTypes /\ LoginsHeld
      /\ pc \in [Chain -> Standing] /\ NoOne \notin Chain /\ NoOne \notin Auth
    BY <1>1, HomeIs, BudgetFacts DEF PlainTypes, Slots
<1>5. \A e \in Auth : Pending(e)' <=> Pending(e)
    BY <1>1 DEF Pending
<1>6. \A k \in Client : CurrentOwned(k)'
    BY <1>1, <1>4 DEF LoginsHeld, CurrentOwned
<1>7. CASE lends
    <2>1. /\ reserved' = [reserved EXCEPT ![a] = c] /\ pc' = [pc EXCEPT ![c] = "done"]
          /\ UNCHANGED <<free, queue, registry, ref, leases, lease>>
          /\ a \in Auth /\ Pending(a) /\ reserved[a] = NoOne /\ of[parent[a]] = of[c]
        BY <1>1, <1>4, <1>7 DEF LoginsHeld, CurrentOwned
    <2> HIDE DEF a, lends
    <2>2. BooksKept
        <3>1. lease' = [lease EXCEPT ![c] = lease[c]]
            BY <2>1, BudgetFacts DEF Slots
        <3> QED
            BY <1>1, <1>2, <2>1, <3>1, StaysKeeps
    <2>3. /\ GoesTo(c, "done") /\ Woken([pc EXCEPT ![c] = "done"], pc')
          /\ reserved'[a] = c /\ \A e \in Auth : e # a => reserved'[e] = reserved[e]
        BY <1>4, <2>1 DEF GoesTo, Woken, Standing, PlainTypes
    <2>4. LeaseIs(lease', pc', reserved')
        <3>1. Cardinality(Reserves(reserved', c)) = Cardinality(Reserves(reserved, c)) + 1
            <4>1. Moves(Cardinality(Reserves(reserved, c)), Cardinality(Reserves(reserved', c)),
                        reserved[a] = c, reserved'[a] = c)
                BY <2>1, <2>3, ReservesMove
            <4> QED
                BY <1>4, <2>1, <2>3, <4>1 DEF Moves
        <3>2. \A d \in Chain : d # c => Reserves(reserved', d) = Reserves(reserved, d)
            <4> SUFFICES ASSUME NEW d \in Chain, d # c
                         PROVE  Reserves(reserved', d) = Reserves(reserved, d)
                OBVIOUS
            <4>1. reserved[a] # d /\ reserved'[a] # d
                BY <1>4, <2>1, <2>3
            <4> QED
                BY <2>1, <2>3, <4>1 DEF Reserves
        <3>3. LeaseStep(c, "done", lease[c])
            BY <1>2, <2>1, <2>3, <3>1, <3>2, BudgetFacts DEF LeaseStep, Slots
        <3> QED
            BY <3>3, LeaseMoves
    <2>5. ChainsKnown'
        <3>1. ASSUME NEW e \in Auth
              PROVE  /\ auth'[e] = "new" => auth[e] = "new" /\ reserved'[e] = NoOne
                     /\ \/ reserved'[e] \in {NoOne, reserved[e]}
                        \/ /\ reserved'[e] \in Chain
                           /\ pc'[reserved'[e]] \in {"request", "awaiting", "done"}
            <4>1. auth' = auth /\ (auth[e] = "new" => reserved[e] = NoOne /\ e # a)
                BY <1>1, <2>1, BudgetFacts DEF ChainsKnown, Pending
            <4>2. pc'[c] = "done"
                BY <1>1, <2>3, GoesToKeeps
            <4> QED
                BY <2>3, <4>1, <4>2
        <3> QED
            BY <1>1, <2>3, <3>1, GoesToKeeps, KnownStay
    <2>6. \A e \in Auth : Pending(e) => LoginHeld(e)'
        <3> SUFFICES ASSUME NEW e \in Auth, Pending(e)
                     PROVE  LoginHeld(e)'
            OBVIOUS
        <3>1. LoginHeld(e) /\ (reserved[e] # NoOne => reserved[e] \in Chain)
            BY <1>4 DEF LoginsHeld, PlainTypes
        <3>2. CASE e = a
            BY <1>1, <1>4, <2>1, <2>3, <3>1, <3>2, GoesToKeeps DEF LoginHeld
        <3>3. CASE e # a
            <4>1. reserved'[e] = reserved[e]
                BY <2>3, <3>3
            <4>2. \A d \in Chain : Awaits(d, e) => Awaits(d, e)' \/ (d = c /\ pc'[d] = "done")
                BY <1>3, <1>4, <2>1, <2>3 DEF Awaits
            <4>3. \A d \in Chain : pc[d] = "done" => pc'[d] = "done"
                BY <1>4, <2>1
            <4>4. reserved[e] = NoOne => parent[e] # c
                BY <1>1, <2>1, <3>1, <3>3 DEF LoginHeld, a
            <4> QED
                BY <1>1, <3>1, <4>1, <4>2, <4>3, <4>4 DEF LoginHeld
        <3> QED
            BY <3>2, <3>3
    <2>7. PlainTypes'
        BY <1>1, <1>3, <1>4, <2>1 DEF PlainTypes
    <2> QED
        BY <1>1, <1>5, <1>6, <2>2, <2>4, <2>5, <2>6, <2>7, BooksNext DEF LoginsHeld
<1>8. CASE ~lends
    <2>1. DropLease(c, [pc EXCEPT ![c] = "done"]) /\ reserved' = reserved
        BY <1>1, <1>8
    <2>2. a \in Auth /\ Pending(a) => reserved[a] # NoOne
        BY <1>4, <1>8
    <2> HIDE DEF a, lends
    <2>3. /\ BooksKept /\ GoesTo(c, "done") /\ lease' = [lease EXCEPT ![c] = lease[c] - 1]
          /\ Woken([pc EXCEPT ![c] = "done"], pc')
        BY <1>1, <1>2, <2>1, DropKeeps, BudgetFacts DEF GoesTo, Slots
    <2>4. LeaseIs(lease', pc', reserved')
        <3>1. LeaseStep(c, "done", lease[c] - 1)
            BY <1>2, <2>1, <2>3 DEF LeaseStep
        <3> QED
            BY <3>1, LeaseMoves
    <2>5. ChainsKnown'
        BY <1>1, <2>1, <2>3, GoesToKeeps, KnownStay, BudgetFacts DEF ChainsKnown
    <2>6. \A e \in Auth : Pending(e) => LoginHeld(e)'
        <3> SUFFICES ASSUME NEW e \in Auth, Pending(e)
                     PROVE  LoginHeld(e)'
            OBVIOUS
        <3>1. LoginHeld(e) /\ (reserved[e] # NoOne => reserved[e] \in Chain)
            BY <1>4 DEF LoginsHeld, PlainTypes
        <3>2. \A d \in Chain : Awaits(d, e) => Awaits(d, e)' \/ (d = c /\ pc'[d] = "done")
            BY <1>1, <1>3, <2>3, GoesToKeeps DEF Awaits
        <3>3. \A d \in Chain : pc[d] = "done" => pc'[d] = "done"
            BY <1>1, <2>3, GoesToKeeps
        <3>4. reserved[e] = NoOne => parent[e] # c
            BY <2>2, <3>1 DEF LoginHeld, a
        <3> QED
            BY <1>1, <2>1, <3>1, <3>2, <3>3, <3>4 DEF LoginHeld
    <2>7. PlainTypes'
        BY <1>1, <1>3, <1>4, <2>1, <2>3 DEF PlainTypes, BooksKept
    <2> QED
        BY <1>1, <1>5, <1>6, <2>3, <2>4, <2>5, <2>6, <2>7, BooksNext DEF LoginsHeld
<1> QED
    BY <1>7, <1>8

\* A chain that was in the queue, or woken, goes to x with its r references.
WaiterGoes(c, x) ==
    /\ BooksKept /\ Woken([pc EXCEPT ![c] = x], pc')
    /\ lease' = [lease EXCEPT ![c] = IF x = "done" THEN 0 ELSE 1]
    /\ pc[c] \in {"queued", "granted"}
    /\ UNCHANGED <<of, stage, bud, current, awaits, auth, parent, reserved>>

LEMMA WaiterGoesKeeps ==
    ASSUME BudgetInv, NEW c \in Chain, NEW x \in {"request", "done"}, WaiterGoes(c, x)
    PROVE  BudgetInv'
<1> USE DEF WaiterGoes
<1>1. Cardinality(Reserves(reserved, c)) = 0
    BY LeaseOf, BudgetFacts DEF Slots
<1>2. LeaseIs(lease', pc', reserved')
    <2>1. LeaseStep(c, x, IF x = "done" THEN 0 ELSE 1)
        BY <1>1 DEF LeaseStep
    <2> QED
        BY <2>1, LeaseMoves
<1>3. GoesTo(c, x)
    BY BudgetFacts DEF GoesTo, Slots
<1>4. ChainsKnown'
    BY <1>3, GoesToKeeps, KnownStay, BudgetFacts DEF ChainsKnown
<1>5. LoginsHeld'
    BY <1>3, GoesToKeeps, LoginsStay
<1>6. PlainTypes'
    BY BudgetFacts DEF PlainTypes, BooksKept
<1> QED
    BY <1>2, <1>4, <1>5, <1>6, BooksNext

\* The waiters behind a woken chain.
LEMMA OthersQueued ==
    ASSUME BudgetInv, NEW c \in Chain, pc[c] = "granted"
    PROVE  /\ Queued(queue[BudgetOf(c)], pc, Home, BudgetOf(c))
           /\ \A i \in 1..Len(queue[BudgetOf(c)]) : queue[BudgetOf(c)][i] # c
<1>1. BudgetOf(c) \in Client
    BY HomeIs
<1> QED
    BY <1>1, BudgetFacts DEF Slots, Queued

LEMMA AdmittedKeeps ==
    ASSUME BudgetInv, NEW c \in Chain, Admitted(c)
    PROVE  BudgetInv'
<1> DEFINE b == BudgetOf(c)
           q == queue[b]
<1>1. pc[c] = "granted" /\ UNCHANGED <<of, stage, bud, current, awaits, auth, parent, reserved>>
    BY DEF Admitted, clientVars, authVars
<1>2. b \in Client /\ Queued(q, pc, Home, b) /\ \A i \in 1..Len(q) : q[i] # c
    BY <1>1, HomeIs, OthersQueued
<1>3. lease[c] = 0 /\ lease \in [Chain -> Nat] /\ free[b] \in Nat
    BY <1>1, <1>2, BudgetFacts DEF Slots
<1>4. CASE stage[of[c]] = "closed"
    <2>1. /\ WakeUp(b, free[b] + 1, q, AsManyAsAllowed(free[b] + 1, q), [pc EXCEPT ![c] = "done"])
          /\ Account(b, ref[b], leases[b] - 1)
        BY <1>1, <1>4 DEF Admitted
    <2>2. lease' = [lease EXCEPT ![c] = 0]
        BY <1>1, <1>3, <1>4 DEF Admitted
    <2> HIDE DEF b, q
    <2>3. WaiterStep(c, "done", free[b] + 1, q, b)
        BY <1>1, <1>2, <1>3, <2>1, <2>2 DEF WaiterStep, b
    <2> QED
        BY <1>1, <2>3, WaiterKeeps, WaiterGoesKeeps DEF WaiterGoes, WaiterStep
<1>5. CASE stage[of[c]] # "closed"
    <2>1. /\ WakeUp(b, free[b], q, AsManyAsAllowed(free[b], q), [pc EXCEPT ![c] = "request"])
          /\ UNCHANGED <<registry, ref, leases>> /\ lease' = [lease EXCEPT ![c] = 1]
        BY <1>1, <1>5 DEF Admitted, budgetVars
    <2> HIDE DEF b, q
    <2>2. WaiterStep(c, "request", free[b], q, b)
        BY <1>1, <1>2, <1>3, <2>1 DEF WaiterStep, b
    <2> QED
        BY <1>1, <2>2, WaiterKeeps, WaiterGoesKeeps DEF WaiterGoes, WaiterStep
<1> QED
    BY <1>4, <1>5

LEMMA CancelWaitingKeeps ==
    ASSUME BudgetInv, NEW c \in Chain, CancelWaiting(c)
    PROVE  BudgetInv'
<1> DEFINE b == BudgetOf(c)
           q == Without(queue[b], c)
           f == IF pc[c] = "granted" THEN free[b] + 1 ELSE free[b]
<1>1. /\ pc[c] \in {"queued", "granted"}
      /\ WakeUp(b, f, q, AsManyAsAllowed(f, q), [pc EXCEPT ![c] = "done"])
      /\ Account(b, ref[b], leases[b] - 1)
      /\ UNCHANGED <<of, lease, stage, bud, current, awaits, auth, parent, reserved>>
    BY DEF CancelWaiting, clientVars, authVars
<1>2. b \in Client
    BY <1>1, HomeIs
<1>3. Queued(q, pc, Home, b) /\ \A i \in 1..Len(q) : q[i] # c
    <2>1. Queued(queue[b], pc, Home, b)
        BY <1>2, BudgetFacts DEF Slots
    <2> QED
        BY <1>2, <2>1, WithoutKeeps
<1>4. lease[c] = 0 /\ lease \in [Chain -> Nat] /\ free[b] \in Nat
    BY <1>1, <1>2, BudgetFacts DEF Slots
<1>5. lease' = [lease EXCEPT ![c] = 0] /\ f \in Nat
    BY <1>1, <1>4
<1>6. f = IF pc[c] = "granted" THEN free[b] + 1 ELSE free[b]
    OBVIOUS
<1> HIDE DEF b, q, f
<1>7. WaiterStep(c, "done", f, q, b)
    BY <1>1, <1>2, <1>3, <1>5, <1>6 DEF WaiterStep, b
<1> QED
    BY <1>1, <1>7, WaiterKeeps, WaiterGoesKeeps DEF WaiterGoes, WaiterStep

-----------------------------------------------------------------------------
(* A chain begins                                                          *)

LEMMA BeginKeeps ==
    ASSUME BudgetInv, NEW c \in Chain, NEW k \in Client, Begin(c, k)
    PROVE  BudgetInv'
<1> DEFINE b == bud[k]
<1>1. /\ pc[c] = "new" /\ stage[k] = "open" /\ ref[b] > 0
      /\ of' = [of EXCEPT ![c] = k] /\ leases' = [leases EXCEPT ![b] = leases[b] + 1]
      /\ UNCHANGED <<registry, ref, stage, bud, current, awaits, auth, parent, reserved>>
    BY DEF Begin, clientVars, authVars
<1>2. /\ PlainTypes /\ ChainsKnown /\ LoginsHeld /\ OneBudget
      /\ Slots(free, queue, pc, lease, Home) /\ TenantsAre(leases, pc, lease, Home)
      /\ NoOne \notin Client /\ NoOne \notin Chain /\ NoOne \notin Auth
    BY BudgetFacts
<1>3. /\ free \in [Client -> Nat] /\ queue \in [Client -> Seq(Chain)]
      /\ pc \in [Chain -> Standing] /\ lease \in [Chain -> Nat] /\ leases \in [Client -> Nat]
      /\ Home \in [Chain -> Client \cup {NoOne}]
    BY <1>2 DEF Slots, TenantsAre
<1>4. b \in Client /\ registry = b /\ of[c] = NoOne /\ lease[c] = 0
    BY <1>1, <1>2 DEF PlainTypes, ChainsKnown, OneBudget, Slots
<1>5. Home' = [Home EXCEPT ![c] = b] /\ Home[c] = NoOne
    BY <1>1, <1>2, <1>4 DEF Home, PlainTypes
<1>6. \/ /\ pc' = [pc EXCEPT ![c] = "queued"] /\ lease' = lease /\ free' = free
         /\ queue' = [queue EXCEPT ![b] = Append(queue[b], c)]
      \/ /\ pc' = [pc EXCEPT ![c] = "request"] /\ lease' = [lease EXCEPT ![c] = 1]
         /\ free' = [free EXCEPT ![b] = free[b] - 1] /\ free[b] # 0 /\ queue' = queue
    BY DEF Begin, Locked
<1> HIDE DEF b
<1>7. /\ pc' \in [Chain -> Standing] /\ lease' \in [Chain -> Nat] /\ free' \in [Client -> Nat]
      /\ Home' \in [Chain -> Client \cup {NoOne}] /\ queue' \in [Client -> Seq(Chain)]
      /\ Home'[c] = b /\ pc'[c] \in {"queued", "request"}
      /\ pc'[c] = "queued" => lease'[c] = 0 /\ free' = free
      /\ pc'[c] = "request" => lease'[c] = 1 /\ free' = [free EXCEPT ![b] = free[b] - 1]
      /\ SameBut(pc, pc', c) /\ SameBut(lease, lease', c) /\ SameBut(Home, Home', c)
    <2>1. "queued" \in Standing /\ "request" \in Standing
        BY DEF Standing
    <2>2. free[b] \in Nat /\ Append(queue[b], c) \in Seq(Chain)
        BY <1>3, <1>4
    <2>3. free[b] # 0 => free[b] - 1 \in Nat
        BY <2>2
    <2>4. /\ Home' \in [Chain -> Client \cup {NoOne}] /\ Home'[c] = b
          /\ SameBut(Home, Home', c)
        BY <1>3, <1>4, <1>5 DEF SameBut
    <2>5. CASE /\ pc' = [pc EXCEPT ![c] = "queued"] /\ lease' = lease /\ free' = free
               /\ queue' = [queue EXCEPT ![b] = Append(queue[b], c)]
        BY <1>3, <1>4, <2>1, <2>2, <2>4, <2>5 DEF SameBut
    <2>6. CASE /\ pc' = [pc EXCEPT ![c] = "request"] /\ lease' = [lease EXCEPT ![c] = 1]
               /\ free' = [free EXCEPT ![b] = free[b] - 1] /\ free[b] # 0 /\ queue' = queue
        BY <1>3, <1>4, <2>1, <2>3, <2>4, <2>6 DEF SameBut
    <2> QED
        BY <1>6, <2>5, <2>6
<1>8. ASSUME NEW d \in Client
      PROVE  free'[d] + Cardinality(Holders(pc', lease', Home', d)) = Limit
    <2>1. Moves(Cardinality(Holders(pc, lease, Home, d)), Cardinality(Holders(pc', lease', Home', d)),
                c \in Holders(pc, lease, Home, d), c \in Holders(pc', lease', Home', d))
        BY <1>7, HoldersMove
    <2>2. /\ c \notin Holders(pc, lease, Home, d)
          /\ c \in Holders(pc', lease', Home', d) <=> d = b /\ pc'[c] = "request"
        BY <1>2, <1>5, <1>7 DEF Holders
    <2>3. free'[d] = IF d = b /\ pc'[c] = "request" THEN free[d] - 1 ELSE free[d]
        BY <1>3, <1>7
    <2>4. free[d] + Cardinality(Holders(pc, lease, Home, d)) = Limit /\ free[d] \in Nat
        BY <1>2, <1>3 DEF Slots
    <2> QED
        BY <2>1, <2>2, <2>3, <2>4 DEF Moves
<1>9. ASSUME NEW d \in Client
      PROVE  leases'[d] = Cardinality(Tenants(pc', lease', Home', d)) /\ leases'[d] \in Nat
    <2>1. Moves(Cardinality(Tenants(pc, lease, Home, d)), Cardinality(Tenants(pc', lease', Home', d)),
                c \in Tenants(pc, lease, Home, d), c \in Tenants(pc', lease', Home', d))
        BY <1>7, TenantsMove
    <2>2. /\ c \notin Tenants(pc, lease, Home, d)
          /\ c \in Tenants(pc', lease', Home', d) <=> d = b
        BY <1>2, <1>5, <1>7 DEF Tenants
    <2>3. leases'[d] = IF d = b THEN leases[d] + 1 ELSE leases[d]
        BY <1>1, <1>3
    <2>4. leases[d] = Cardinality(Tenants(pc, lease, Home, d))
        BY <1>2 DEF TenantsAre
    <2> QED
        BY <2>1, <2>2, <2>3, <2>4 DEF Moves
<1>10. ASSUME NEW d \in Client
       PROVE  Queued(queue'[d], pc', Home', d)
    <2>1. Queued(queue[d], pc, Home, d)
        BY <1>2 DEF Slots
    <2>2. \A i \in 1..Len(queue[d]) : queue[d][i] \in Chain /\ queue[d][i] # c
        BY <1>1, <2>1 DEF Queued
    <2>3. Queued(queue[d], pc', Home', d)
        BY <1>7, <2>1, <2>2 DEF Queued, SameBut
    <2>4. CASE queue'[d] = queue[d]
        BY <2>3, <2>4
    <2>5. CASE queue'[d] = Append(queue[d], c) /\ d = b /\ pc'[c] = "queued"
        <3> DEFINE s == Append(queue[d], c)
        <3>1. /\ queue[d] \in Seq(Chain) /\ s \in Seq(Chain) /\ Len(s) = Len(queue[d]) + 1
              /\ Len(queue[d]) \in Nat
            BY <1>3
        <3>2. \A i \in 1..Len(s) : i \in 1..Len(queue[d]) \/ i = Len(queue[d]) + 1
            BY <3>1
        <3>3. (\A i \in 1..Len(queue[d]) : s[i] = queue[d][i]) /\ s[Len(queue[d]) + 1] = c
            BY <1>3
        <3> HIDE DEF s
        <3>4. \A i \in 1..Len(s) : pc'[s[i]] = "queued" /\ Home'[s[i]] = d
            <4> SUFFICES ASSUME NEW i \in 1..Len(s)
                         PROVE  pc'[s[i]] = "queued" /\ Home'[s[i]] = d
                OBVIOUS
            <4>1. CASE i \in 1..Len(queue[d])
                BY <2>3, <3>3, <4>1 DEF Queued
            <4>2. CASE i = Len(queue[d]) + 1
                BY <1>7, <2>5, <3>3, <4>2
            <4> QED
                BY <3>2, <4>1, <4>2
        <3>5. \A i, j \in 1..Len(s) : s[i] = s[j] => i = j
            BY <2>1, <2>2, <3>2, <3>3 DEF Queued
        <3>6. Queued(s, pc', Home', d)
            BY <3>1, <3>4, <3>5 DEF Queued
        <3> QED
            BY <2>5, <3>6 DEF s
    <2>6. queue'[d] = queue[d] \/ (queue'[d] = Append(queue[d], c) /\ d = b /\ pc'[c] = "queued")
        BY <1>3, <1>6
    <2> QED
        BY <2>4, <2>5, <2>6
<1>11. Slots(free', queue', pc', lease', Home')
    <2>1. \A d \in Chain : pc'[d] \in {"new", "queued", "granted"} => lease'[d] = 0
        BY <1>2, <1>7 DEF Slots, SameBut
    <2> QED
        BY <1>7, <1>8, <1>10, <2>1 DEF Slots
<1>12. TenantsAre(leases', pc', lease', Home')
    <2>1. leases' \in [Client -> Nat]
        BY <1>1, <1>3, <1>4
    <2> QED
        BY <1>9, <2>1 DEF TenantsAre
<1>13. OneBudget'
    <2>1. \A d \in Client : leases'[d] = leases[d] \/ d = b
        BY <1>1, <1>3
    <2> QED
        BY <1>1, <1>2, <1>4, <2>1 DEF OneBudget
<1>14. LeaseIs(lease', pc', reserved')
    <2>1. Cardinality(Reserves(reserved, c)) = 0
        BY <1>1, <1>4, LeaseOf
    <2>2. ASSUME NEW d \in Chain
          PROVE  lease'[d] = IF pc'[d] \in {"request", "awaiting"}
                               THEN Cardinality(Reserves(reserved', d)) + 1
                               ELSE Cardinality(Reserves(reserved', d))
        <3>1. CASE d = c
            BY <1>1, <1>7, <2>1, <3>1
        <3>2. CASE d # c
            BY <1>1, <1>7, <3>2, BudgetFacts DEF LeaseIs, SameBut
        <3> QED
            BY <3>1, <3>2
    <2> QED
        BY <2>2 DEF LeaseIs
<1>15. of' \in [Chain -> Client \cup {NoOne}] /\ of'[c] = k
       /\ \A d \in Chain : d # c => of'[d] = of[d] /\ pc'[d] = pc[d]
    BY <1>1, <1>2, <1>7 DEF PlainTypes, SameBut
<1>16. ChainsKnown'
    <2>1. \A a \in Auth : reserved[a] # NoOne =>
            reserved[a] \in Chain /\ reserved[a] # c
            /\ pc[reserved[a]] \in {"request", "awaiting", "done"}
        BY <1>1, <1>2 DEF ChainsKnown, PlainTypes
    <2>2. ASSUME NEW d \in Chain
          PROVE  /\ pc'[d] = "new" <=> of'[d] = NoOne
                 /\ of'[d] # NoOne => stage'[of'[d]] # "new"
        <3>1. CASE d = c
            BY <1>1, <1>2, <1>7, <1>15, <3>1
        <3>2. CASE d # c
            BY <1>1, <1>2, <1>15, <3>2 DEF ChainsKnown
        <3> QED
            BY <3>1, <3>2
    <2>3. \A a \in Auth : /\ auth'[a] = "new" => reserved'[a] = NoOne
                          /\ reserved'[a] # NoOne =>
                               pc'[reserved'[a]] \in {"request", "awaiting", "done"}
        BY <1>1, <1>2, <1>15, <2>1 DEF ChainsKnown
    <2> QED
        BY <1>1, <1>2, <2>2, <2>3 DEF ChainsKnown
<1>17. LoginsHeld'
    BY <1>1, <1>4, <1>15, LoginsStay
<1>18. PlainTypes'
    BY <1>1, <1>2, <1>15 DEF PlainTypes
<1>19. RefsAre(ref', stage', bud')
    BY <1>1, BudgetFacts
<1> QED
    BY <1>11, <1>12, <1>13, <1>14, <1>16, <1>17, <1>18, <1>19, BudgetNext

-----------------------------------------------------------------------------
(* The authentication tasks                                                *)

LEMMA AuthLoginKeeps ==
    ASSUME BudgetInv, NEW a \in Auth, AuthLogin(a)
    PROVE  BudgetInv'
<1> DEFINE c == parent[a]
<1>1. /\ auth[a] = "pending" /\ auth' = [auth EXCEPT ![a] = "login"]
      /\ \/ reserved[a] # NoOne /\ UNCHANGED <<reserved, lease>>
         \/ /\ reserved[a] = NoOne /\ lease[c] > 0
            /\ reserved' = [reserved EXCEPT ![a] = c]
            /\ lease' = [lease EXCEPT ![c] = lease[c] + 1]
      /\ UNCHANGED <<registry, ref, leases, free, queue, stage, bud, current, pc, of, awaits, parent>>
    BY DEF AuthLogin, budgetVars, semVars, clientVars
<1>2. /\ PlainTypes /\ ChainsKnown /\ LoginsHeld /\ OneBudget /\ NoOne \notin Chain
      /\ pc \in [Chain -> Standing] /\ lease \in [Chain -> Nat]
    BY BudgetFacts DEF Slots
<1>3. LoginHeld(a) /\ c \in Chain
    BY <1>1, <1>2 DEF LoginsHeld, LoginHeld, Pending
<1> HIDE DEF c
<1>4. c = parent[a]
    BY DEF c
<1>5. auth'[a] = "login" /\ \A e \in Auth : e # a => auth'[e] = auth[e]
    BY <1>1, <1>2 DEF PlainTypes
<1>6. \A e \in Auth : Pending(e)' <=> Pending(e)
    BY <1>1, <1>5 DEF Pending
<1>7. /\ reserved'[a] # NoOne /\ \A e \in Auth : e # a => reserved'[e] = reserved[e]
      /\ reserved' \in [Auth -> Chain \cup {NoOne}]
      /\ reserved'[a] = reserved[a] \/ (reserved'[a] = c /\ reserved[a] = NoOne)
    BY <1>1, <1>2, <1>3 DEF PlainTypes
<1>8. reserved[a] = NoOne => pc[c] = "awaiting"
    BY <1>3, <1>4 DEF LoginHeld, Awaits
<1>9. LoginsHeld'
    <2>1. LoginHeld(a)'
        BY <1>1, <1>3, <1>4, <1>7 DEF LoginHeld, Awaits
    <2>2. ASSUME NEW e \in Auth, e # a, Pending(e)
          PROVE  LoginHeld(e)'
        <3>1. LoginHeld(e) /\ reserved'[e] = reserved[e] /\ auth'[e] = auth[e]
            BY <1>2, <1>5, <1>7, <2>2 DEF LoginsHeld
        <3> QED
            BY <1>1, <3>1 DEF LoginHeld, Awaits
    <2>3. ASSUME NEW k \in Client
          PROVE  CurrentOwned(k)'
        BY <1>1, <1>2, <1>5 DEF LoginsHeld, CurrentOwned, PlainTypes
    <2> QED
        BY <1>6, <2>1, <2>2, <2>3 DEF LoginsHeld
<1>10. ChainsKnown'
    <2>1. \A e \in Auth : /\ auth'[e] = "new" => reserved'[e] = NoOne
                          /\ reserved'[e] # NoOne
                             => pc[reserved'[e]] \in {"request", "awaiting", "done"}
        BY <1>2, <1>5, <1>7, <1>8 DEF ChainsKnown
    <2> QED
        BY <1>1, <1>2, <2>1 DEF ChainsKnown
<1>11. PlainTypes'
    BY <1>1, <1>2, <1>7 DEF PlainTypes
<1>12. CASE UNCHANGED <<reserved, lease>>
    <2>1. Home' = Home
        BY <1>1, HomeNext
    <2>2. /\ Slots(free', queue', pc', lease', Home') /\ TenantsAre(leases', pc', lease', Home')
          /\ RefsAre(ref', stage', bud') /\ OneBudget' /\ LeaseIs(lease', pc', reserved')
        BY <1>1, <1>12, <2>1, BudgetFacts DEF OneBudget
    <2> QED
        BY <1>9, <1>10, <1>11, <2>2, BudgetNext
<1>13. CASE /\ reserved[a] = NoOne /\ lease[c] > 0
            /\ reserved' = [reserved EXCEPT ![a] = c]
            /\ lease' = [lease EXCEPT ![c] = lease[c] + 1]
    <2>1. pc[c] = "awaiting" /\ lease[c] + 1 \in Nat /\ lease[c] + 1 > 0
          /\ pc' = [pc EXCEPT ![c] = "awaiting"]
        BY <1>1, <1>2, <1>3, <1>8, <1>13
    <2>2. BooksKept
        BY <1>1, <1>3, <1>13, <2>1, StaysKeeps
    <2>3. lease[c] = Cardinality(Reserves(reserved, c)) + 1
        BY <1>3, <2>1, LeaseOf
    <2>4. Cardinality(Reserves(reserved', c)) = Cardinality(Reserves(reserved, c)) + 1
        <3>1. Moves(Cardinality(Reserves(reserved, c)), Cardinality(Reserves(reserved', c)),
                    reserved[a] = c, reserved'[a] = c)
            BY <1>7, ReservesMove
        <3> QED
            BY <1>2, <1>3, <1>7, <1>13, <3>1 DEF Moves
    <2>5. \A d \in Chain : d # c => Reserves(reserved', d) = Reserves(reserved, d)
        BY <1>2, <1>7, <1>13 DEF Reserves
    <2>6. Woken([pc EXCEPT ![c] = "awaiting"], pc')
        BY <1>2, <2>1 DEF Woken, Standing
    <2>7. LeaseStep(c, "awaiting", lease[c] + 1)
        BY <1>13, <2>3, <2>4, <2>5, <2>6 DEF LeaseStep
    <2>8. LeaseIs(lease', pc', reserved')
        BY <1>3, <2>7, LeaseMoves
    <2> QED
        BY <1>1, <1>9, <1>10, <1>11, <2>2, <2>8, BooksNext
<1> QED
    BY <1>1, <1>12, <1>13

LEMMA AuthEndKeeps ==
    ASSUME BudgetInv, NEW a \in Auth, AuthEnd(a)
    PROVE  BudgetInv'
<1>1. /\ Pending(a) /\ auth' = [auth EXCEPT ![a] = "finished"]
      /\ UNCHANGED <<registry, ref, leases, free, queue, stage, bud, current, pc, of, lease,
                     awaits, parent, reserved>>
    BY DEF AuthEnd, budgetVars, semVars, clientVars
<1>2. PlainTypes /\ ChainsKnown /\ LoginsHeld /\ NoOne \notin Auth
    BY BudgetFacts
<1>3. auth'[a] = "finished" /\ \A e \in Auth : e # a => auth'[e] = auth[e]
    BY <1>1, <1>2 DEF PlainTypes
<1>4. \A e \in Auth : Pending(e)' => Pending(e) /\ e # a
    BY <1>3 DEF Pending
<1>5. LoginsHeld'
    <2>1. ASSUME NEW e \in Auth, Pending(e)'
          PROVE  LoginHeld(e)'
        <3>1. LoginHeld(e) /\ auth'[e] = auth[e]
            BY <1>2, <1>3, <1>4, <2>1 DEF LoginsHeld
        <3> QED
            BY <1>1, <3>1 DEF LoginHeld, Awaits
    <2>2. ASSUME NEW k \in Client
          PROVE  CurrentOwned(k)'
        BY <1>1, <1>2, <1>3 DEF LoginsHeld, CurrentOwned, PlainTypes
    <2> QED
        BY <2>1, <2>2 DEF LoginsHeld
<1>6. ChainsKnown'
    BY <1>1, <1>2, <1>3 DEF ChainsKnown, Pending
<1>7. PlainTypes'
    BY <1>1, <1>2 DEF PlainTypes
<1>8. Home' = Home
    BY <1>1, HomeNext
<1>9. /\ Slots(free', queue', pc', lease', Home') /\ TenantsAre(leases', pc', lease', Home')
      /\ RefsAre(ref', stage', bud') /\ OneBudget' /\ LeaseIs(lease', pc', reserved')
    BY <1>1, <1>8, BudgetFacts DEF OneBudget
<1> QED
    BY <1>5, <1>6, <1>7, <1>9, BudgetNext

LEMMA AuthFinishedKeeps ==
    ASSUME BudgetInv, NEW a \in Auth, AuthFinished(a)
    PROVE  BudgetInv'
<1> DEFINE c == reserved[a]
<1>1. /\ auth[a] = "finished" /\ auth' = [auth EXCEPT ![a] = "done"]
      /\ reserved' = [reserved EXCEPT ![a] = NoOne]
      /\ \/ c # NoOne /\ DropLease(c, pc)
         \/ c = NoOne /\ UNCHANGED <<free, queue, registry, ref, leases, pc, lease>>
      /\ UNCHANGED <<of, stage, bud, current, awaits, parent>>
    BY DEF AuthFinished, budgetVars, semVars, clientVars
<1>2. /\ PlainTypes /\ ChainsKnown /\ LoginsHeld /\ NoOne \notin Chain /\ NoOne \notin Auth
      /\ pc \in [Chain -> Standing] /\ c \in Chain \cup {NoOne} /\ lease \in [Chain -> Nat]
    BY BudgetFacts DEF Slots, PlainTypes
<1>3. /\ auth'[a] = "done" /\ \A e \in Auth : e # a => auth'[e] = auth[e]
         /\ reserved'[e] = reserved[e]
      /\ reserved'[a] = NoOne
    BY <1>1, <1>2 DEF PlainTypes
<1>4. \A e \in Auth : Pending(e)' => Pending(e) /\ e # a
    BY <1>3 DEF Pending
<1>5. /\ BooksKept /\ LeaseIs(lease', pc', reserved')
      /\ \A d \in Chain : /\ pc[d] # "queued" => pc'[d] = pc[d]
                          /\ pc[d] = "queued" => pc'[d] \in {"queued", "granted"}
    <2>1. CASE c # NoOne /\ DropLease(c, pc)
        <3>1. c \in Chain /\ lease[c] > 0 /\ pc[c] \in {"request", "awaiting", "done"}
            BY <1>2, <2>1, LeaseOf DEF ChainsKnown
        <3> HIDE DEF c
        <3>2. pc = [pc EXCEPT ![c] = pc[c]]
            BY <1>2
        <3>3. BooksKept /\ Woken(pc, pc') /\ lease' = [lease EXCEPT ![c] = lease[c] - 1]
            BY <1>1, <2>1, <3>1, <3>2, DropKeeps
        <3>4. Cardinality(Reserves(reserved', c)) = Cardinality(Reserves(reserved, c)) - 1
              /\ Cardinality(Reserves(reserved, c)) \in Nat
            <4>1. Moves(Cardinality(Reserves(reserved, c)), Cardinality(Reserves(reserved', c)),
                        reserved[a] = c, reserved'[a] = c)
                BY <1>3, ReservesMove
            <4> QED
                BY <1>2, <1>3, <3>1, <4>1 DEF Moves, c
        <3>5. \A d \in Chain : d # c => Reserves(reserved', d) = Reserves(reserved, d)
            BY <1>2, <1>3 DEF Reserves, c
        <3>6. lease[c] - 1 = IF pc[c] \in {"request", "awaiting"}
                               THEN Cardinality(Reserves(reserved', c)) + 1
                               ELSE Cardinality(Reserves(reserved', c))
            BY <3>1, <3>4, LeaseOf
        <3>7. LeaseStep(c, pc[c], lease[c] - 1)
            BY <3>1, <3>2, <3>3, <3>5, <3>6 DEF LeaseStep
        <3>8. LeaseIs(lease', pc', reserved')
            BY <3>1, <3>7, LeaseMoves
        <3> QED
            BY <3>3, <3>8 DEF Woken
    <2>2. CASE c = NoOne /\ UNCHANGED <<free, queue, registry, ref, leases, pc, lease>>
        <3>1. reserved' = reserved /\ Home' = Home
            BY <1>1, <1>2, <2>2, HomeNext DEF PlainTypes
        <3>2. OneBudget'
            BY <2>2, BudgetFacts DEF OneBudget
        <3> QED
            BY <1>2, <2>2, <3>1, <3>2, BudgetFacts DEF BooksKept, PlainTypes
    <2> QED
        BY <1>1, <2>1, <2>2
<1>6. LoginsHeld'
    <2>1. ASSUME NEW e \in Auth, Pending(e)'
          PROVE  LoginHeld(e)'
        <3>1. LoginHeld(e) /\ auth'[e] = auth[e] /\ reserved'[e] = reserved[e]
            BY <1>2, <1>3, <1>4, <2>1 DEF LoginsHeld
        <3>2. reserved[e] # NoOne => reserved[e] \in Chain
            BY <1>2 DEF PlainTypes
        <3> QED
            BY <1>1, <1>5, <3>1, <3>2 DEF LoginHeld, Awaits
    <2>2. ASSUME NEW k \in Client
          PROVE  CurrentOwned(k)'
        BY <1>1, <1>2, <1>3 DEF LoginsHeld, CurrentOwned, PlainTypes
    <2> QED
        BY <2>1, <2>2 DEF LoginsHeld
<1>7. ChainsKnown'
    <2>1. \A e \in Auth : reserved'[e] # NoOne =>
            reserved[e] # NoOne /\ reserved'[e] = reserved[e] /\ reserved[e] \in Chain /\ e # a
        BY <1>2, <1>3 DEF PlainTypes
    <2> QED
        BY <1>1, <1>2, <1>3, <1>5, <2>1 DEF ChainsKnown
<1>8. PlainTypes'
    BY <1>1, <1>2, <1>5 DEF PlainTypes, BooksKept
<1> QED
    BY <1>1, <1>5, <1>6, <1>7, <1>8, BooksNext

-----------------------------------------------------------------------------
(* The clients                                                             *)

LEMMA RegisterKeeps ==
    ASSUME BudgetInv, NEW k \in Client, Register(k)
    PROVE  BudgetInv'
<1> DEFINE b == IF registry = NoOne THEN k ELSE registry
<1>1. /\ stage[k] = "new" /\ stage' = [stage EXCEPT ![k] = "open"]
         /\ bud' = [bud EXCEPT ![k] = b]
      /\ registry' = b /\ ref' = [ref EXCEPT ![b] = ref[b] + 1]
      /\ UNCHANGED <<leases, free, queue, current, pc, of, lease, awaits, auth, parent, reserved>>
    BY DEF Register, semVars, authVars
<1>2. /\ PlainTypes /\ ChainsKnown /\ LoginsHeld /\ OneBudget /\ NoOne \notin Client
      /\ ref \in [Client -> Nat] /\ leases \in [Client -> Nat]
    BY BudgetFacts
<1>3. b \in Client /\ (registry # NoOne => b = registry)
    BY <1>2 DEF PlainTypes
<1> HIDE DEF b
<1>4. /\ stage'[k] = "open" /\ bud'[k] = b
      /\ \A j \in Client : j # k => stage'[j] = stage[j] /\ bud'[j] = bud[j]
      /\ stage' \in [Client -> {"new", "open", "closed"}]
         /\ bud' \in [Client -> Client \cup {NoOne}]
    BY <1>1, <1>2, <1>3 DEF PlainTypes
<1>5. \A c \in Chain : of[c] # k /\ of[c] \in Client \cup {NoOne}
    BY <1>1, <1>2 DEF ChainsKnown, PlainTypes
<1>6. Home' = Home
    BY <1>1, <1>4, <1>5 DEF Home
<1>7. RefsAre(ref', stage', bud')
    <2>1. ASSUME NEW d \in Client
          PROVE  ref'[d] = Cardinality(OpenOn(stage', bud', d)) /\ ref'[d] \in Nat
        <3>1. Moves(Cardinality(OpenOn(stage, bud, d)), Cardinality(OpenOn(stage', bud', d)),
                    k \in OpenOn(stage, bud, d), k \in OpenOn(stage', bud', d))
            BY <1>4, OpenOnMoves
        <3>2. k \notin OpenOn(stage, bud, d) /\ (k \in OpenOn(stage', bud', d) <=> d = b)
            BY <1>1, <1>4 DEF OpenOn
        <3>3. ref[d] = Cardinality(OpenOn(stage, bud, d))
            BY BudgetFacts DEF RefsAre
        <3>4. ref'[d] = IF d = b THEN ref[d] + 1 ELSE ref[d]
            BY <1>1, <1>2
        <3> QED
            BY <3>1, <3>2, <3>3, <3>4 DEF Moves
    <2>2. ref' \in [Client -> Nat]
        BY <1>1, <1>2, <1>3
    <2> QED
        BY <2>1, <2>2 DEF RefsAre
<1>8. OneBudget'
    <2>1. ASSUME NEW d \in Client, ref'[d] > 0 \/ leases'[d] > 0, d # b
          PROVE  FALSE
        <3>1. ref'[d] = ref[d] /\ leases'[d] = leases[d]
            BY <1>1, <1>2, <2>1
        <3>2. registry = d
            BY <1>2, <2>1, <3>1 DEF OneBudget
        <3> QED
            BY <1>2, <1>3, <2>1, <3>2
    <2> QED
        BY <1>1, <2>1 DEF OneBudget
<1>9. ChainsKnown'
    BY <1>1, <1>2, <1>3, <1>4, <1>5 DEF ChainsKnown
<1>10. LoginsHeld'
    BY <1>1, LoginsStay
<1>11. PlainTypes'
    BY <1>1, <1>2, <1>3, <1>4 DEF PlainTypes
<1>12. /\ Slots(free', queue', pc', lease', Home') /\ TenantsAre(leases', pc', lease', Home')
       /\ LeaseIs(lease', pc', reserved')
    BY <1>1, <1>6, BudgetFacts
<1> QED
    BY <1>7, <1>8, <1>9, <1>10, <1>11, <1>12, BudgetNext

LEMMA UnloadKeeps ==
    ASSUME BudgetInv, NEW k \in Client, Unload(k)
    PROVE  BudgetInv'
<1> DEFINE b == bud[k]
<1>1. /\ stage[k] = "open" /\ stage' = [stage EXCEPT ![k] = "closed"]
      /\ Account(b, ref[b] - 1, leases[b])
      /\ UNCHANGED <<free, queue, bud, current, pc, of, lease, awaits, auth, parent, reserved>>
    BY DEF Unload, semVars, authVars
<1>2. /\ PlainTypes /\ ChainsKnown /\ LoginsHeld /\ OneBudget /\ NoOne \notin Client
      /\ ref \in [Client -> Nat] /\ leases \in [Client -> Nat]
    BY BudgetFacts
<1>3. b \in Client /\ bud[k] = b
    BY <1>1, <1>2 DEF PlainTypes, ChainsKnown
<1> HIDE DEF b
<1>4. /\ stage'[k] = "closed" /\ \A j \in Client : j # k => stage'[j] = stage[j]
      /\ stage' \in [Client -> {"new", "open", "closed"}]
    BY <1>1, <1>2 DEF PlainTypes
<1>5. ASSUME NEW d \in Client
      PROVE  /\ ref[d] = Cardinality(OpenOn(stage, bud, d)) /\ ref[d] \in Nat
             /\ d = b => ref[d] > 0 /\ Cardinality(OpenOn(stage', bud', d)) = ref[d] - 1
             /\ d # b => Cardinality(OpenOn(stage', bud', d)) = ref[d]
    <2>1. Moves(Cardinality(OpenOn(stage, bud, d)), Cardinality(OpenOn(stage', bud', d)),
                k \in OpenOn(stage, bud, d), k \in OpenOn(stage', bud', d))
        BY <1>1, <1>4, OpenOnMoves
    <2>2. k \notin OpenOn(stage', bud', d) /\ (k \in OpenOn(stage, bud, d) <=> d = b)
        BY <1>1, <1>3, <1>4 DEF OpenOn
    <2>3. ref[d] = Cardinality(OpenOn(stage, bud, d)) /\ ref[d] \in Nat
        BY BudgetFacts DEF RefsAre
    <2> QED
        BY <2>1, <2>2, <2>3 DEF Moves
<1>6. ref[b] - 1 \in Nat /\ ref[b] - 1 <= ref[b] /\ leases[b] \in Nat /\ leases[b] <= leases[b]
    BY <1>2, <1>3, <1>5
<1>7. /\ OneBudget' /\ registry' \in Client \cup {NoOne}
      /\ ref' = [ref EXCEPT ![b] = ref[b] - 1] /\ leases' = [leases EXCEPT ![b] = leases[b]]
    BY <1>1, <1>3, <1>6, AccountKeeps
<1>8. RefsAre(ref', stage', bud')
    <2>1. ref' \in [Client -> Nat]
        BY <1>2, <1>3, <1>6, <1>7
    <2>2. \A d \in Client : ref'[d] = IF d = b THEN ref[d] - 1 ELSE ref[d]
        BY <1>2, <1>7
    <2> QED
        BY <1>5, <2>1, <2>2 DEF RefsAre
<1>9. ChainsKnown'
    BY <1>1, <1>2, <1>4 DEF ChainsKnown, PlainTypes
<1>10. LoginsHeld'
    BY <1>1, LoginsStay
<1>11. PlainTypes'
    BY <1>1, <1>2, <1>4, <1>7 DEF PlainTypes
<1>12. Home' = Home /\ leases' = leases
    BY <1>1, <1>2, <1>3, <1>7, HomeNext
<1>13. /\ Slots(free', queue', pc', lease', Home') /\ TenantsAre(leases', pc', lease', Home')
       /\ LeaseIs(lease', pc', reserved')
    BY <1>1, <1>12, BudgetFacts
<1> QED
    BY <1>7, <1>8, <1>9, <1>10, <1>11, <1>13, BudgetNext

-----------------------------------------------------------------------------
(* What the invariant implies                                              *)

\* Every live lease is one of the account's budget.
LEMMA LiveAtRegistry ==
    ASSUME BudgetInv, NEW c \in Chain, lease[c] > 0
    PROVE  registry \in Client /\ Home[c] = registry
<1>1. pc[c] # "new"
    BY BudgetFacts DEF Slots
<1> DEFINE b == BudgetOf(c)
<1>2. b \in Client /\ Home[c] = b
    BY <1>1, HomeIs
<1> HIDE DEF b
<1>3. c \in Tenants(pc, lease, Home, b)
    BY <1>2 DEF Tenants
<1>4. Cardinality(Tenants(pc, lease, Home, b)) > 0
    <2>1. SameBut(pc, pc, c) /\ SameBut(lease, lease, c) /\ SameBut(Home, Home, c)
        BY DEF SameBut
    <2> QED
        BY <1>2, <1>3, <2>1, TenantsMove DEF Moves
<1>5. leases[b] > 0
    BY <1>2, <1>4, BudgetFacts DEF TenantsAre
<1>6. registry = b
    BY <1>2, <1>5, BudgetFacts DEF OneBudget
<1> QED
    BY <1>2, <1>6

\* Each request on the wire has a lease of its own: its chain's, or the one
\* the login is given.
LEMMA LimitHolds ==
    BudgetInv => AccountLimit
<1> SUFFICES ASSUME BudgetInv PROVE AccountLimit
    OBVIOUS
<1> DEFINE L == {c \in Chain : lease[c] > 0}
           g == [x \in OnTheWire |->
                   IF x \in Chain /\ pc[x] = "request" THEN x ELSE reserved[x]]
<1>1. IsFiniteSet(L) /\ Cardinality(L) \in Nat
    BY BudgetAssumption, FS_Subset, FS_CardinalityType
<1>2. ASSUME NEW x \in OnTheWire, ~(x \in Chain /\ pc[x] = "request")
      PROVE  /\ x \in Auth /\ auth[x] = "login" /\ LoginHeld(x)
             /\ reserved[x] \in Chain /\ lease[reserved[x]] > 0 /\ pc[reserved[x]] # "request"
    <2>1. x \in Auth /\ auth[x] = "login" /\ LoginHeld(x)
        BY <1>2, BudgetFacts DEF OnTheWire, LoginsHeld, Pending
    <2>2. reserved[x] \in Chain
        BY <2>1, BudgetFacts DEF LoginHeld, PlainTypes
    <2>3. lease[reserved[x]] > 0
        BY <2>1, <2>2, LeaseOf
    <2> QED
        BY <2>1, <2>2, <2>3, BudgetFacts DEF LoginHeld, Awaits
<1>3. \A x \in OnTheWire : g[x] \in L
    <2>1. \A c \in Chain : pc[c] = "request" => lease[c] > 0
        BY LeaseOf
    <2> QED
        BY <1>2, <2>1
<1>4. ASSUME NEW x \in OnTheWire, NEW z \in OnTheWire, g[x] = g[z]
      PROVE  x = z
    <2>1. CASE (x \in Chain /\ pc[x] = "request") \/ (z \in Chain /\ pc[z] = "request")
        BY <1>2, <1>4, <2>1
    <2>2. CASE ~(x \in Chain /\ pc[x] = "request") /\ ~(z \in Chain /\ pc[z] = "request")
        <3>1. LoginHeld(x) /\ LoginHeld(z) /\ reserved[x] = reserved[z] /\ reserved[x] # NoOne
            BY <1>2, <1>4, <2>2, BudgetFacts
        <3> QED
            BY <3>1 DEF LoginHeld
    <2> QED
        BY <2>1, <2>2
<1>5. g \in Injection(OnTheWire, L)
    <2>1. g \in [OnTheWire -> L]
        BY <1>3
    <2>2. DOMAIN g = OnTheWire
        OBVIOUS
    <2> HIDE DEF g, L
    <2> QED
        BY <1>4, <2>1, <2>2 DEF Injection, IsInjective
<1>6. Cardinality(OnTheWire) <= Cardinality(L) /\ IsFiniteSet(OnTheWire)
    <2> HIDE DEF g, L
    <2> QED
        BY <1>1, <1>5, FS_Injection
<1>7. Cardinality(OnTheWire) \in Nat
    BY <1>6, FS_CardinalityType
<1>8. Limit \in Nat
    BY LimitAssumption
<1>9. CASE L = {}
    <2>1. Cardinality(L) = 0
        BY <1>9, FS_EmptySet
    <2> QED
        BY <1>6, <1>7, <1>8, <2>1 DEF AccountLimit
<1>10. CASE L # {}
    <2>1. registry \in Client /\ \A c \in L : Home[c] = registry
        BY <1>10, LiveAtRegistry
    <2> DEFINE H == Holders(pc, lease, Home, registry)
    <2>2. L \in SUBSET H /\ H \in SUBSET Chain
        BY <2>1 DEF Holders
    <2>3. free[registry] + Cardinality(H) = Limit /\ free[registry] \in Nat
        BY <2>1, BudgetFacts DEF Slots
    <2> HIDE DEF H, L
    <2>4. IsFiniteSet(H) /\ Cardinality(H) \in Nat
        BY <2>2, BudgetAssumption, FS_Subset, FS_CardinalityType
    <2>5. Cardinality(L) <= Cardinality(H)
        BY <2>2, <2>4, FS_Subset
    <2> QED
        BY <1>1, <1>6, <1>7, <1>8, <2>3, <2>4, <2>5 DEF AccountLimit
<1> QED
    BY <1>9, <1>10

\* Two disjoint sets of chains, counted.
LEMMA DisjointCount ==
    ASSUME NEW S \in SUBSET Chain, NEW T \in SUBSET Chain, S \cap T = {}
    PROVE  /\ Cardinality(S \cup T) = Cardinality(S) + Cardinality(T)
           /\ Cardinality(S) \in Nat /\ Cardinality(T) \in Nat
<1>1. IsFiniteSet(S) /\ IsFiniteSet(T) /\ Cardinality(S) \in Nat /\ Cardinality(T) \in Nat
    BY BudgetAssumption, FS_Subset, FS_CardinalityType
<1>2. Cardinality(S \cup T) = Cardinality(S) + Cardinality(T) - Cardinality(S \cap T)
    BY <1>1, FS_Union
<1>3. Cardinality(S \cap T) = 0
    BY FS_EmptySet
<1> QED
    BY <1>1, <1>2, <1>3

LEMMA SlotsHold ==
    BudgetInv => SlotsConserved
<1> SUFFICES ASSUME BudgetInv, NEW b \in Client
             PROVE  LET mine == {c \in Chain : of[c] # NoOne /\ BudgetOf(c) = b}
                        live == {c \in mine : lease[c] > 0}
                    IN  /\ free[b] + Cardinality({c \in mine : pc[c] = "granted"})
                                   + Cardinality(live) = Limit
                        /\ leases[b] = Cardinality({c \in mine : Waiting(c)}) + Cardinality(live)
    BY DEF SlotsConserved
<1> DEFINE mine == {c \in Chain : of[c] # NoOne /\ BudgetOf(c) = b}
           live == {c \in mine : lease[c] > 0}
           granted == {c \in mine : pc[c] = "granted"}
           waiting == {c \in mine : Waiting(c)}
<1>1. \A c \in Chain : Home[c] = b <=> c \in mine
    BY BudgetFacts DEF Home, BudgetOf
<1>2. /\ Holders(pc, lease, Home, b) = granted \cup live
      /\ Tenants(pc, lease, Home, b) = waiting \cup live
    BY <1>1 DEF Holders, Tenants, Waiting
<1>3. granted \cap live = {} /\ waiting \cap live = {}
    BY BudgetFacts DEF Slots, Waiting
<1>4. granted \in SUBSET Chain /\ live \in SUBSET Chain /\ waiting \in SUBSET Chain
    OBVIOUS
<1>5. /\ free[b] + Cardinality(granted \cup live) = Limit /\ free[b] \in Nat
      /\ leases[b] = Cardinality(waiting \cup live)
    BY <1>2, BudgetFacts DEF Slots, TenantsAre
<1> HIDE DEF granted, live, waiting, mine
<1>6. /\ Cardinality(granted \cup live) = Cardinality(granted) + Cardinality(live)
      /\ Cardinality(granted) \in Nat /\ Cardinality(live) \in Nat
    BY <1>3, <1>4, DisjointCount
<1>7. Cardinality(waiting \cup live) = Cardinality(waiting) + Cardinality(live)
    BY <1>3, <1>4, DisjointCount
<1>8. /\ free[b] + Cardinality(granted) + Cardinality(live) = Limit
      /\ leases[b] = Cardinality(waiting) + Cardinality(live)
    BY <1>5, <1>6, <1>7
<1> QED
    BY <1>8 DEF granted, live, waiting, mine

LEMMA LoginsAdmitted ==
    BudgetInv => AuthAdmitted
<1> SUFFICES ASSUME BudgetInv, NEW a \in Auth
             PROVE  /\ auth[a] = "pending" => reserved[a] # NoOne \/ lease[parent[a]] > 0
                    /\ auth[a] = "login" => reserved[a] # NoOne
                    /\ reserved[a] # NoOne => lease[reserved[a]] > 0
    BY DEF AuthAdmitted
<1>1. Pending(a) => LoginHeld(a)
    BY BudgetFacts DEF LoginsHeld
<1>2. auth[a] = "pending" /\ reserved[a] = NoOne => lease[parent[a]] > 0
    BY <1>1, LeaseOf DEF LoginHeld, Awaits, Pending
<1>3. reserved[a] # NoOne => reserved[a] \in Chain
    BY BudgetFacts DEF PlainTypes
<1>4. reserved[a] # NoOne => lease[reserved[a]] > 0
    BY <1>3, LeaseOf
<1> QED
    BY <1>1, <1>2, <1>4 DEF LoginHeld, Pending

-----------------------------------------------------------------------------
(* Theorems                                                                *)

LEMMA BudgetStarts ==
    Init => BudgetInv
<1> SUFFICES ASSUME Init PROVE BudgetInv
    OBVIOUS
<1>1. Limit \in Nat /\ NoOne \notin Client /\ NoOne \notin Chain /\ NoOne \notin Auth
    BY LimitAssumption, BudgetAssumption
<1>2. \A c \in Chain : Home[c] = NoOne /\ pc[c] = "new" /\ lease[c] = 0 /\ of[c] = NoOne
    BY DEF Init, Home
<1>3. Home \in [Chain -> Client \cup {NoOne}]
    BY DEF Init, Home
<1>4. ASSUME NEW b \in Client
      PROVE  /\ Holders(pc, lease, Home, b) = {} /\ Tenants(pc, lease, Home, b) = {}
             /\ OpenOn(stage, bud, b) = {}
    BY <1>1, <1>2, <1>4 DEF Init, Holders, Tenants, OpenOn
<1>5. \A c \in Chain : Reserves(reserved, c) = {}
    BY <1>1 DEF Init, Reserves
<1>6. TypeOK
    BY <1>1 DEF Init, TypeOK
<1>7. Slots(free, queue, pc, lease, Home)
    <2>1. \A b \in Client : Queued(queue[b], pc, Home, b)
        BY DEF Init, Queued
    <2>2. \A b \in Client : free[b] + Cardinality(Holders(pc, lease, Home, b)) = Limit
        <3>1. \A b \in Client : Cardinality(Holders(pc, lease, Home, b)) = 0
            BY <1>4, FS_EmptySet
        <3>2. \A b \in Client : free[b] = Limit
            BY DEF Init
        <3> QED
            BY <1>1, <3>1, <3>2
    <2>3. /\ free \in [Client -> Nat] /\ queue \in [Client -> Seq(Chain)]
          /\ pc \in [Chain -> Standing] /\ lease \in [Chain -> Nat]
        BY <1>1 DEF Init, Standing
    <2> QED
        BY <1>2, <1>3, <2>1, <2>2, <2>3 DEF Slots
<1>8. TenantsAre(leases, pc, lease, Home) /\ RefsAre(ref, stage, bud)
    BY <1>4, FS_EmptySet DEF Init, TenantsAre, RefsAre
<1>9. LeaseIs(lease, pc, reserved)
    BY <1>2, <1>5, FS_EmptySet DEF LeaseIs
<1>10. ChainsKnown /\ LoginsHeld /\ OneBudget
    BY DEF Init, ChainsKnown, LoginsHeld, OneBudget, Pending, CurrentOwned
<1> QED
    BY <1>6, <1>7, <1>8, <1>9, <1>10 DEF BudgetInv

LEMMA BudgetRests ==
    ASSUME BudgetInv, UNCHANGED vars
    PROVE  BudgetInv'
<1>1. UNCHANGED <<registry, ref, leases, free, queue, stage, bud, current, pc, of, lease, awaits,
                  auth, parent, reserved>>
    BY DEF vars, budgetVars, semVars, clientVars, authVars
<1>2. Home' = Home
    BY <1>1, HomeNext
<1>3. LoginsHeld'
    BY <1>1, LoginsStay
<1>4. PlainTypes' /\ ChainsKnown' /\ OneBudget'
    BY <1>1, BudgetFacts DEF PlainTypes, ChainsKnown, OneBudget
<1>5. /\ Slots(free', queue', pc', lease', Home') /\ TenantsAre(leases', pc', lease', Home')
      /\ RefsAre(ref', stage', bud') /\ LeaseIs(lease', pc', reserved')
    BY <1>1, <1>2, BudgetFacts
<1> QED
    BY <1>3, <1>4, <1>5, BudgetNext

LEMMA BudgetAlways ==
    Spec => []BudgetInv
<1>1. ASSUME BudgetInv, [Next]_vars
      PROVE  BudgetInv'
    BY <1>1, RegisterKeeps, UnloadKeeps, BeginKeeps, ReauthenticateKeeps, AdmittedKeeps,
       CancelWaitingKeeps, AnsweredKeeps, AuthDeliveredKeeps, CancelChainKeeps, AuthLoginKeeps,
       AuthEndKeeps, AuthFinishedKeeps, BudgetRests DEF Next
<1> QED
    BY <1>1, BudgetStarts, PTL DEF Spec

\* A budget with an owner, a waiter or a live lease is the account's, for any
\* clients, chains and authentication tasks: a reload never makes a second.
THEOREM AlwaysOneBudget ==
    Spec => []OneBudget
<1>1. BudgetInv => OneBudget
    BY DEF BudgetInv
<1> QED
    BY <1>1, BudgetAlways, PTL

\* For any limit, clients, chains and authentication tasks: at most Limit
\* requests run for the account, no slot is lost or made up, _leases and the
\* references are exact, and every pending login has an admission.
THEOREM AccountingHolds ==
    Spec => []Accounting
<1>1. BudgetInv => Accounting
    BY LimitHolds, SlotsHold, LoginsAdmitted DEF BudgetInv, Accounting
<1> QED
    BY <1>1, BudgetAlways, PTL

=============================================================================
