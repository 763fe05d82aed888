--------------------------- MODULE FirmwareFlight ---------------------------
(***************************************************************************)
(* SharedFirmwareStatusFlight of cloud_requests.py: the account-wide       *)
(* firmware status request that the config entries of one cloud account    *)
(* share.  Each call of run() joins the raw request in flight or starts    *)
(* one through its own entry's client; a request whose last caller leaves  *)
(* is cancelled; one whose entry is released is retired, and the callers   *)
(* of the surviving entries go on with a request of their own.  A prefetch *)
(* batch keeps a finished request for its siblings to join.                *)
(*                                                                         *)
(* Raw requests are numbers, given as they are created, and calls are      *)
(* used once.  The flight here is one object: from its first owner to the  *)
(* release of the last, after which an entry would get a fresh flight.     *)
(***************************************************************************)
EXTENDS Naturals, FiniteSets

CONSTANTS
    Entry,      \* config entries of the account
    Call,       \* calls of run()
    EntryOf,    \* the entry each call is made for
    Unowned,
    MaxTask     \* bound: raw requests the model may create

Task == 1..MaxTask
NoTask == 0

ASSUME FlightAssumption ==
    /\ IsFiniteSet(Call) /\ IsFiniteSet(Entry)
    /\ EntryOf \in [Call -> Entry]
    /\ MaxTask \in Nat

VARIABLES
    owners,         \* _owners
    task, taskOwner,    \* task and _task_owner
    batches,        \* _active_batches
    waiters,        \* _task_waiters
    retired,        \* _retired_tasks
    raw,            \* each raw request: "new", running, cancelling or its outcome
    settled,        \* requests whose done callbacks have run
    entry,          \* each entry: "new", "owner" or "released"
    inBatch,        \* entries between begin_batch and end_batch
    on,             \* the request each call awaits
    got             \* each call: "new", "waiting" or how it ended

sharedVars == <<owners, task, taskOwner, batches, waiters, retired>>
rawVars == <<raw, settled>>
callVars == <<on, got>>
flightVars == <<sharedVars, rawVars, entry, inBatch, callVars>>

\* An answer, or an exception or cancellation, which run() treats alike.
Outcome == {"ok", "failed"}
Done(t) == raw[t] \in Outcome

FlightTypeOK ==
    /\ owners \subseteq Entry
    /\ task \in Task \cup {NoTask}
    /\ taskOwner \in Entry \cup {Unowned}
    /\ batches \in 0..Cardinality(Entry)
    /\ waiters \in [Task -> 0..Cardinality(Call)]
    /\ retired \subseteq Task
    /\ raw \in [Task -> {"new", "running", "cancelling"} \cup Outcome]
    /\ settled \subseteq Task
    /\ entry \in [Entry -> {"new", "owner", "released"}]
    /\ inBatch \subseteq Entry
    /\ on \in [Call -> Task \cup {NoTask}]
    /\ got \in [Call -> {"new", "waiting", "timeout"} \cup Outcome]

FlightInit ==
    /\ owners = {} /\ task = NoTask /\ taskOwner = Unowned
    /\ batches = 0
    /\ waiters = [t \in Task |-> 0]
    /\ retired = {}
    /\ raw = [t \in Task |-> "new"]
    /\ settled = {}
    /\ entry = [e \in Entry |-> "new"]
    /\ inBatch = {}
    /\ on = [c \in Call |-> NoTask]
    /\ got = [c \in Call |-> "new"]

-----------------------------------------------------------------------------
(* Parts of the operations.                                                *)

\* task.cancel() of the requests in S that still run.
Cancelled(r, S) ==
    [t \in Task |-> IF t \in S /\ r[t] = "running" THEN "cancelling" ELSE r[t]]

NextTask == CHOOSE t \in Task : raw[t] = "new"

\* _discard_unobserved_task acts: with waiters w and b batches the flight
\* gives up its request and cancels it.
Unobserved(w, b) == b = 0 /\ task # NoTask /\ w[task] = 0

\* The body of run()'s loop up to its await, for call c on a flight with
\* request t of owner o and waiters w, and raw requests r: join, or start.
\* A finished request that a batch keeps is not awaited at all.
Join(c, t, o, w, r) ==
    IF t # NoTask /\ r[t] \in Outcome /\ batches > 0
      THEN /\ got' = [got EXCEPT ![c] = r[t]]
           /\ on' = [on EXCEPT ![c] = NoTask]
           /\ task' = t /\ taskOwner' = o /\ waiters' = w /\ raw' = r
      ELSE LET fresh == t = NoTask \/ r[t] \in Outcome
               u == IF fresh THEN NextTask ELSE t
           IN  /\ fresh => \E n \in Task : raw[n] = "new"
               /\ got' = [got EXCEPT ![c] = "waiting"]
               /\ on' = [on EXCEPT ![c] = u]
               /\ task' = u
               /\ taskOwner' = IF fresh THEN EntryOf[c] ELSE o
               /\ waiters' = [w EXCEPT ![u] = @ + 1]
               /\ raw' = IF fresh THEN [r EXCEPT ![u] = "running"] ELSE r

\* The finally clause of the await: call c leaves its request.
Left(c) == [waiters EXCEPT ![on[c]] = @ - 1]

RetiredAfter(c) ==
    IF Left(c)[on[c]] = 0 /\ Done(on[c]) THEN retired \ {on[c]} ELSE retired

-----------------------------------------------------------------------------
(* Entries.                                                                *)

RegisterEntry(e) ==
    /\ entry[e] = "new"
    /\ owners # {} \/ \A d \in Entry : entry[d] = "new"
    /\ entry' = [entry EXCEPT ![e] = "owner"]
    /\ owners' = owners \cup {e}
    /\ UNCHANGED <<task, taskOwner, batches, waiters, retired, rawVars, inBatch,
                   callVars>>

BeginBatch(e) ==
    /\ e \in owners \ inBatch
    /\ inBatch' = inBatch \cup {e}
    /\ batches' = batches + 1
    /\ UNCHANGED <<owners, task, taskOwner, waiters, retired, rawVars, entry,
                   callVars>>

\* Mutant: the end of a batch leaves the request alone.
EndBatchKeeping(e) ==
    /\ e \in inBatch
    /\ inBatch' = inBatch \ {e}
    /\ batches' = IF batches > 0 THEN batches - 1 ELSE 0
    /\ UNCHANGED <<owners, task, taskOwner, waiters, retired, rawVars, entry,
                   callVars>>

\* end_batch, which the closed flight of the last owner may still get.
EndBatch(e) ==
    LET b == IF batches > 0 THEN batches - 1 ELSE 0
        drop == Unobserved(waiters, b)
    IN  /\ e \in inBatch
        /\ inBatch' = inBatch \ {e}
        /\ batches' = b
        /\ task' = IF drop THEN NoTask ELSE task
        /\ taskOwner' = IF drop THEN Unowned ELSE taskOwner
        /\ raw' = IF drop THEN Cancelled(raw, {task}) ELSE raw
        /\ UNCHANGED <<owners, waiters, retired, settled, entry, callVars>>

\* An entry is released while others stay: its own running request is
\* retired, a finished one loses its owner.
Release(e) ==
    LET mine == task # NoTask /\ ~Done(task) /\ taskOwner = e
    IN  /\ entry[e] = "owner"
        /\ owners \ {e} # {}
        /\ entry' = [entry EXCEPT ![e] = "released"]
        /\ owners' = owners \ {e}
        /\ task' = IF mine THEN NoTask ELSE task
        /\ taskOwner' = IF taskOwner = e THEN Unowned ELSE taskOwner
        /\ retired' = IF mine THEN retired \cup {task} ELSE retired
        /\ raw' = IF mine THEN Cancelled(raw, {task}) ELSE raw
        /\ UNCHANGED <<batches, waiters, settled, inBatch, callVars>>

\* The last owner's release: the flight leaves hass.data and is closed.
ReleaseLast(e) ==
    /\ entry[e] = "owner"
    /\ owners = {e}
    /\ entry' = [entry EXCEPT ![e] = "released"]
    /\ owners' = {} /\ batches' = 0
    /\ task' = NoTask /\ taskOwner' = Unowned
    /\ raw' = Cancelled(raw, retired \cup {task})
    /\ UNCHANGED <<waiters, retired, settled, inBatch, callVars>>

-----------------------------------------------------------------------------
(* Calls of run().                                                         *)

Start(c) ==
    /\ got[c] = "new"
    /\ EntryOf[c] \in owners
    /\ Join(c, task, taskOwner, waiters, raw)
    /\ UNCHANGED <<owners, batches, retired, settled, entry, inBatch>>

\* The call ends and leaves the flight; how is what its caller sees.
Leave(c, how) ==
    LET drop == Unobserved(Left(c), batches)
    IN  /\ got' = [got EXCEPT ![c] = how]
        /\ on' = [on EXCEPT ![c] = NoTask]
        /\ waiters' = Left(c)
        /\ task' = IF drop THEN NoTask ELSE task
        /\ taskOwner' = IF drop THEN Unowned ELSE taskOwner
        /\ raw' = IF drop THEN Cancelled(raw, {task}) ELSE raw

\* Mutant: a surviving entry's call ends with the retired request.
ResumeInterrupted(c) ==
    /\ got[c] = "waiting"
    /\ on[c] \in settled
    /\ Leave(c, raw[on[c]])
    /\ retired' = RetiredAfter(c)
    /\ UNCHANGED <<owners, batches, settled, entry, inBatch>>

\* The awaited request is over and the call runs again.  Retired requests
\* have no answer: the call of a surviving entry takes another turn, that of
\* a released one is cancelled.
Resume(c) ==
    LET t == on[c]
        drop == Unobserved(Left(c), batches)
    IN  /\ got[c] = "waiting"
        /\ t \in settled
        /\ IF t \in retired /\ EntryOf[c] \in owners
             THEN Join(c, IF drop THEN NoTask ELSE task,
                       IF drop THEN Unowned ELSE taskOwner, Left(c),
                       IF drop THEN Cancelled(raw, {task}) ELSE raw)
             ELSE Leave(c, IF t \in retired THEN "failed" ELSE raw[t])
        /\ retired' = RetiredAfter(c)
        /\ UNCHANGED <<owners, batches, settled, entry, inBatch>>

\* The caller's own deadline or unload cancels the call in the await.
CancelCall(c) ==
    /\ got[c] = "waiting"
    /\ Leave(c, "timeout")
    /\ retired' = RetiredAfter(c)
    /\ UNCHANGED <<owners, batches, settled, entry, inBatch>>

-----------------------------------------------------------------------------
(* Raw requests.                                                           *)

\* A cancelled request ends promptly, cancelled or with an answer that was
\* already there; a running one answers or fails, or is cancelled from
\* inside its client.
RawEnd(t) ==
    /\ raw[t] \in {"running", "cancelling"}
    /\ \E o \in Outcome : raw' = [raw EXCEPT ![t] = o]
    /\ UNCHANGED <<sharedVars, settled, entry, inBatch, callVars>>

\* The done callbacks: _task_finished, then the shields'.
RawSettled(t) ==
    /\ Done(t)
    /\ t \notin settled
    /\ settled' = settled \cup {t}
    /\ IF task = t /\ batches = 0
         THEN task' = NoTask /\ taskOwner' = Unowned
         ELSE UNCHANGED <<task, taskOwner>>
    /\ retired' = IF waiters[t] = 0 THEN retired \ {t} ELSE retired
    /\ UNCHANGED <<owners, batches, waiters, raw, entry, inBatch, callVars>>

-----------------------------------------------------------------------------

FlightNext ==
    \/ \E e \in Entry :
        \/ RegisterEntry(e)
        \/ BeginBatch(e)
        \/ EndBatch(e)
        \/ Release(e)
        \/ ReleaseLast(e)
    \/ \E c \in Call :
        \/ Start(c)
        \/ Resume(c)
        \/ CancelCall(c)
    \/ \E t \in Task : RawEnd(t) \/ RawSettled(t)

FlightSpec == FlightInit /\ [][FlightNext]_flightVars

-----------------------------------------------------------------------------
(* Properties.                                                             *)

Live(t) == raw[t] = "running"

\* The bookkeeping is sound and drains: no count is below zero, _task_waiters
\* counts the calls that await each request, and a retired request is remembered
\* as long as it runs or some call has yet to see that it was retired, and no
\* longer; every request told to stop under a call of a loaded entry is one.
Bookkeeping ==
    /\ FlightTypeOK
    /\ \A t \in Task : waiters[t] = Cardinality({c \in Call : on[c] = t})
    /\ \A t \in retired : waiters[t] > 0 \/ t \notin settled
    /\ \A c \in Call :
         got[c] = "waiting" /\ EntryOf[c] \in owners /\ raw[on[c]] = "cancelling"
            => on[c] \in retired

\* One request at a time for the whole account, and none that nobody awaits
\* or that is bound to a closed client: a request that was not told to stop
\* is the flight's own, a call awaits it or a batch keeps it, and it belongs
\* to an entry that is still loaded.  The bookkeeping is part of it.
SingleFlight ==
    /\ Bookkeeping
    /\ \A t \in Task : Live(t) =>
        /\ task = t
        /\ waiters[t] > 0 \/ batches > 0
        /\ taskOwner \in owners

\* The release of one entry is invisible to the others: a call of an entry
\* that is still loaded never ends with the outcome of a retired request; it
\* goes on, at most to find a newer one finished and kept by a batch.
TransferInvisible ==
    [][\A c \in Call :
         got[c] = "waiting" /\ got'[c] \in Outcome /\ EntryOf[c] \in owners
            => \/ on[c] \notin retired
               \/ batches > 0 /\ task # NoTask /\ Done(task) /\ got'[c] = raw[task]]_flightVars

=============================================================================
