--------------------------- MODULE SidefetchBreaker ---------------------------
(***************************************************************************)
(* The connectivity breaker that the supplemental cloud fetches of one     *)
(* coordinator share (_breakered_cloud_call and the _sidefetch_note_*      *)
(* methods of coordinator_mixins.py).  Devices are processed concurrently, *)
(* so a verdict may come from a call that began before the breaker opened, *)
(* or beside a probe.  Time enters only as the order of the cooldown's     *)
(* deadline and the calls.                                                 *)
(***************************************************************************)
EXTENDS Naturals, FiniteSets

CONSTANTS
    Site,           \* call sites that may fetch concurrently
    Threshold       \* _SIDEFETCH_BREAKER_THRESHOLD

ASSUME ThresholdAssumption == Threshold \in Nat \ {0}

VARIABLES
    failures,       \* _sidefetch_consecutive_failures
    deadline,       \* _sidefetch_open_until: "none", "ahead" or "passed"
    halfOpen,       \* _sidefetch_half_open
    calling,        \* the sites with a call under way
    last,           \* history: how the last call ended
    misses          \* history: connectivity failures since the last answer,
                    \* as far as Threshold

breakerVars == <<failures, deadline, halfOpen>>
vars == <<breakerVars, calling, last, misses>>

TypeOK ==
    /\ failures \in 0..(Threshold - 1)
    /\ deadline \in {"none", "ahead", "passed"}
    /\ halfOpen \in BOOLEAN
    /\ calling \subseteq Site
    /\ last \in {"none", "answer", "failure", "nothing"}
    /\ misses \in 0..Threshold

Init ==
    /\ failures = 0
    /\ deadline = "none"
    /\ halfOpen = FALSE
    /\ calling = {}
    /\ last = "none"
    /\ misses = 0

-----------------------------------------------------------------------------

\* Mutant: the streak ends, the breaker stays as it is.
ReachableStreakOnly ==
    /\ failures' = 0
    /\ UNCHANGED <<deadline, halfOpen>>

\* _sidefetch_note_reachable
NoteReachable ==
    /\ failures' = 0
    /\ halfOpen' = FALSE
    /\ deadline' = "none"

\* _sidefetch_note_connectivity_failure: a half-open breaker needs one
\* failure to open, a closed one Threshold in a row.
NoteConnectivityFailure ==
    LET opens == halfOpen \/ failures + 1 >= Threshold
    IN  /\ failures' = IF opens THEN 0 ELSE failures + 1
        /\ halfOpen' = FALSE
        /\ deadline' = IF opens THEN "ahead" ELSE deadline

\* Mutants: an inconclusive probe leaves the breaker half-open; any
\* inconclusive call opens it.
InconclusiveIgnored == UNCHANGED breakerVars
InconclusiveOpens ==
    /\ halfOpen' = FALSE
    /\ deadline' = "ahead"
    /\ UNCHANGED failures

\* _sidefetch_note_inconclusive
NoteInconclusive ==
    IF halfOpen
      THEN /\ halfOpen' = FALSE
           /\ deadline' = "ahead"
           /\ UNCHANGED failures
      ELSE UNCHANGED breakerVars

-----------------------------------------------------------------------------

\* _breakered_cloud_call goes ahead unless the deadline is ahead; behind the
\* deadline it is the probe.
Admit(s) ==
    /\ s \notin calling
    /\ deadline # "ahead"
    /\ calling' = calling \cup {s}
    /\ IF deadline = "passed"
         THEN deadline' = "none" /\ halfOpen' = TRUE
         ELSE UNCHANGED <<deadline, halfOpen>>
    /\ UNCHANGED <<failures, last, misses>>

\* An answer, or an error that proves there was one.
Answered(s) ==
    /\ s \in calling
    /\ calling' = calling \ {s}
    /\ NoteReachable
    /\ last' = "answer"
    /\ misses' = 0

\* A timeout with the budget unsaturated, a transport error, or a result
\* made of such errors.
Unreachable(s) ==
    /\ s \in calling
    /\ calling' = calling \ {s}
    /\ NoteConnectivityFailure
    /\ last' = "failure"
    /\ misses' = IF misses < Threshold THEN misses + 1 ELSE misses

\* Cancelled, timed out behind a saturated budget, or a result that proves
\* nothing.
Inconclusive(s) ==
    /\ s \in calling
    /\ calling' = calling \ {s}
    /\ NoteInconclusive
    /\ last' = "nothing"
    /\ UNCHANGED misses

CooldownPasses ==
    /\ deadline = "ahead"
    /\ deadline' = "passed"
    /\ UNCHANGED <<failures, halfOpen, calling, last, misses>>

Next ==
    \/ CooldownPasses
    \/ \E s \in Site :
        \/ Admit(s)
        \/ Answered(s)
        \/ Unreachable(s)
        \/ Inconclusive(s)

Spec == Init /\ [][Next]_vars

\* The cooldown passes, polls go on fetching at every site, and each call
\* ends: it has a timeout.
Fairness ==
    /\ WF_vars(CooldownPasses)
    /\ \A s \in Site :
        /\ SF_vars(Admit(s))
        /\ WF_vars(Answered(s) \/ Unreachable(s) \/ Inconclusive(s))

FairSpec == Spec /\ Fairness

-----------------------------------------------------------------------------
(* Properties.                                                             *)

\* A half-open breaker, which admits everything, is always bounded by the
\* verdict of a call under way: no outcome of a probe, and no verdict of an
\* older call beside it, leaves the breaker half-open with nobody to close it.
HalfOpenProbed == halfOpen => deadline = "none" /\ calling # {}

\* Fetches are skipped only on evidence: since the last answer of the portal,
\* whichever call it answered, at least Threshold calls found it unreachable.
OpensOnEvidence == deadline # "none" \/ halfOpen => misses = Threshold

\* Once the portal answers every call, the breaker closes for good, from
\* whatever state the outage left it in.
RecoveryCloses == <>[](last = "answer") => <>[](deadline = "none" /\ ~halfOpen)

=============================================================================
