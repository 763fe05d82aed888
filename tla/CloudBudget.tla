----------------------------- MODULE CloudBudget -----------------------------
(***************************************************************************)
(* The request budget that the config entries of one cloud account share   *)
(* (SharedCloudRequestBudget, _CloudRequestLease, CloudRequestLimiter of   *)
(* cloud_requests.py).  A request chain takes one slot for all its retries *)
(* under a counted lease.  A chain that meets an expired session awaits    *)
(* its client's shared authentication task (pylxpweb, external), which     *)
(* must not queue behind the chains that await it: it goes ahead on the    *)
(* lease of the chain that created it, or of one that was cancelled while  *)
(* the task was pending.                                                   *)
(*                                                                         *)
(* Chains, authentication tasks and clients are used once: a retry of a    *)
(* call, or a reloaded entry, is another element.  A budget carries the    *)
(* name of the client that created it, and a lease that of its chain.      *)
(* _accepting is ref > 0.  asyncio.Semaphore is external: a release hands  *)
(* its slot to the head of the queue, which runs later ("granted").        *)
(***************************************************************************)
EXTENDS Naturals, Sequences, FiniteSets

CONSTANTS
    Client,     \* coordinators of the account, each with its own limiter
    Chain,      \* request chains
    Auth,       \* authentication tasks
    NoOne,
    Limit       \* the budget's limit

ASSUME LimitAssumption == Limit \in Nat \ {0}

\* Bounds: finitely many clients, chains and tasks; NoOne is none of them.
ASSUME BudgetAssumption ==
    /\ IsFiniteSet(Client) /\ IsFiniteSet(Chain) /\ IsFiniteSet(Auth)
    /\ NoOne \notin Client \cup Chain \cup Auth

VARIABLES
    registry,       \* hass.data: the account's budget
    ref, leases,    \* ref_count and _leases of each budget
    free, queue,    \* its semaphore: the value, the waiters not yet woken
    stage, bud,     \* each client: "new", "open" or "closed"; its budget
    current,        \* client._authentication_task
    pc, of,         \* where each chain stands; its client
    lease,          \* _references of the chain's lease
    awaits,         \* the authentication task an "awaiting" chain awaits
    auth, parent,   \* where each authentication task stands; its creator
    reserved        \* _auth_task_leases: the chain whose lease it holds

semVars == <<free, queue>>
budgetVars == <<registry, ref, leases>>
clientVars == <<stage, bud, current>>
authVars == <<auth, parent, reserved>>
vars == <<budgetVars, semVars, clientVars, pc, of, lease, awaits, authVars>>

-----------------------------------------------------------------------------

TypeOK ==
    /\ registry \in Client \cup {NoOne}
    /\ ref \in [Client -> Nat]
    /\ leases \in [Client -> Nat]
    /\ free \in [Client -> 0..Limit]
    /\ queue \in [Client -> Seq(Chain)]
    /\ stage \in [Client -> {"new", "open", "closed"}]
    /\ bud \in [Client -> Client \cup {NoOne}]
    /\ current \in [Client -> Auth \cup {NoOne}]
    /\ pc \in [Chain -> {"new", "queued", "granted", "request", "awaiting", "done"}]
    /\ of \in [Chain -> Client \cup {NoOne}]
    /\ lease \in [Chain -> Nat]
    /\ awaits \in [Chain -> Auth \cup {NoOne}]
    /\ auth \in [Auth -> {"new", "pending", "login", "finished", "done"}]
    /\ parent \in [Auth -> Chain \cup {NoOne}]
    /\ reserved \in [Auth -> Chain \cup {NoOne}]

Init ==
    /\ registry = NoOne
    /\ ref = [b \in Client |-> 0]
    /\ leases = [b \in Client |-> 0]
    /\ free = [b \in Client |-> Limit]
    /\ queue = [b \in Client |-> <<>>]
    /\ stage = [k \in Client |-> "new"]
    /\ bud = [k \in Client |-> NoOne]
    /\ current = [k \in Client |-> NoOne]
    /\ pc = [c \in Chain |-> "new"]
    /\ of = [c \in Chain |-> NoOne]
    /\ lease = [c \in Chain |-> 0]
    /\ awaits = [c \in Chain |-> NoOne]
    /\ auth = [a \in Auth |-> "new"]
    /\ parent = [a \in Auth |-> NoOne]
    /\ reserved = [a \in Auth |-> NoOne]

BudgetOf(c) == bud[of[c]]

-----------------------------------------------------------------------------
(* The budget and its semaphore.                                           *)

\* Semaphore.locked(): a woken waiter that has not run yet counts too.
Locked(b) ==
    \/ free[b] = 0
    \/ queue[b] # <<>>
    \/ \E c \in Chain : pc[c] = "granted" /\ BudgetOf(c) = b

\* With value f and waiters q the first n waiters are woken, each with its
\* slot; p is what the step makes of pc otherwise.
WakeUp(b, f, q, n, p) ==
    /\ free' = [free EXCEPT ![b] = f - n]
    /\ queue' = [queue EXCEPT ![b] = SubSeq(q, n + 1, Len(q))]
    /\ pc' = [c \in Chain |-> IF \E i \in 1..n : q[i] = c THEN "granted" ELSE p[c]]

AsManyAsAllowed(f, q) == IF f <= Len(q) THEN f ELSE Len(q)

\* _waiters.remove: the queue without its waiter c; a woken one is not in it.
Without(q, c) ==
    IF \E i \in 1..Len(q) : q[i] = c
      THEN LET i == CHOOSE j \in 1..Len(q) : q[j] = c
           IN  [j \in 1..Len(q) - 1 |-> IF j < i THEN q[j] ELSE q[j + 1]]
      ELSE q

\* Mutant: an unowned budget is retired while its chains still drain.
AccountDropping(b, r, l) ==
    /\ ref' = [ref EXCEPT ![b] = r]
    /\ leases' = [leases EXCEPT ![b] = l]
    /\ registry' = IF r = 0 /\ registry = b THEN NoOne ELSE registry

\* The counts change, and _remove_if_idle retires an unowned idle budget.
Account(b, r, l) ==
    /\ ref' = [ref EXCEPT ![b] = r]
    /\ leases' = [leases EXCEPT ![b] = l]
    /\ registry' = IF r = 0 /\ l = 0 /\ registry = b THEN NoOne ELSE registry

\* One reference of the lease of c is given up; the last one gives the slot
\* back (release_slot), which wakes one waiter.
DropLease(c, p) ==
    LET b == BudgetOf(c)
    IN  /\ lease' = [lease EXCEPT ![c] = @ - 1]
        /\ IF lease[c] = 1
             THEN /\ WakeUp(b, free[b] + 1, queue[b],
                            AsManyAsAllowed(1, queue[b]), p)
                  /\ Account(b, ref[b], leases[b] - 1)
             ELSE pc' = p /\ UNCHANGED <<semVars, budgetVars>>

-----------------------------------------------------------------------------
(* Clients.                                                                *)

\* A coordinator is constructed: it joins the account's budget, or makes one.
Register(k) ==
    LET b == IF registry = NoOne THEN k ELSE registry
    IN  /\ stage[k] = "new"
        /\ stage' = [stage EXCEPT ![k] = "open"]
        /\ bud' = [bud EXCEPT ![k] = b]
        /\ registry' = b
        /\ ref' = [ref EXCEPT ![b] = @ + 1]
        /\ UNCHANGED <<leases, semVars, current, pc, of, lease, awaits, authVars>>

\* Mutant: the owner leaves without _remove_if_idle.
UnloadUnretired(k) ==
    /\ stage[k] = "open"
    /\ stage' = [stage EXCEPT ![k] = "closed"]
    /\ ref' = [ref EXCEPT ![bud[k]] = @ - 1]
    /\ UNCHANGED <<registry, leases, semVars, bud, current, pc, of, lease, awaits,
                   authVars>>

\* _release_shared_cloud_request_budget: the limiter closes, the owner leaves.
Unload(k) ==
    /\ stage[k] = "open"
    /\ stage' = [stage EXCEPT ![k] = "closed"]
    /\ Account(bud[k], ref[bud[k]] - 1, leases[bud[k]])
    /\ UNCHANGED <<semVars, bud, current, pc, of, lease, awaits, authVars>>

-----------------------------------------------------------------------------
(* Chains.                                                                 *)

\* A call of request() that is neither a re-entry nor a login.
Begin(c, k) ==
    LET b == bud[k]
    IN  /\ pc[c] = "new"
        /\ stage[k] = "open"
        /\ ref[b] > 0
        /\ of' = [of EXCEPT ![c] = k]
        /\ leases' = [leases EXCEPT ![b] = @ + 1]
        /\ IF Locked(b)
             THEN /\ pc' = [pc EXCEPT ![c] = "queued"]
                  /\ queue' = [queue EXCEPT ![b] = Append(@, c)]
                  /\ UNCHANGED <<free, lease>>
             ELSE /\ pc' = [pc EXCEPT ![c] = "request"]
                  /\ lease' = [lease EXCEPT ![c] = 1]
                  /\ free' = [free EXCEPT ![b] = @ - 1]
                  /\ UNCHANGED queue
        /\ UNCHANGED <<registry, ref, clientVars, awaits, authVars>>

\* A woken waiter runs.  The client may have been unloaded while it queued;
\* then the chain ends here, and its slot goes to the next one.
Admitted(c) ==
    LET b == BudgetOf(c)
        q == queue[b]
    IN  /\ pc[c] = "granted"
        /\ IF stage[of[c]] = "closed"
             THEN /\ WakeUp(b, free[b] + 1, q, AsManyAsAllowed(free[b] + 1, q),
                            [pc EXCEPT ![c] = "done"])
                  /\ Account(b, ref[b], leases[b] - 1)
                  /\ UNCHANGED lease
             ELSE /\ lease' = [lease EXCEPT ![c] = 1]
                  /\ WakeUp(b, free[b], q, AsManyAsAllowed(free[b], q),
                            [pc EXCEPT ![c] = "request"])
                  /\ UNCHANGED budgetVars
        /\ UNCHANGED <<of, clientVars, awaits, authVars>>

\* Mutant: a waiter cancelled with the slot in hand loses it.
CancelWaitingLosing(c) ==
    LET b == BudgetOf(c)
        f == free[b]
        q == Without(queue[b], c)
    IN  /\ pc[c] \in {"queued", "granted"}
        /\ WakeUp(b, f, q, AsManyAsAllowed(f, q), [pc EXCEPT ![c] = "done"])
        /\ Account(b, ref[b], leases[b] - 1)
        /\ UNCHANGED <<of, lease, clientVars, awaits, authVars>>

\* A waiter is cancelled, before its slot came or with the slot in hand.
CancelWaiting(c) ==
    LET b == BudgetOf(c)
        f == IF pc[c] = "granted" THEN free[b] + 1 ELSE free[b]
        q == Without(queue[b], c)
    IN  /\ pc[c] \in {"queued", "granted"}
        /\ WakeUp(b, f, q, AsManyAsAllowed(f, q), [pc EXCEPT ![c] = "done"])
        /\ Account(b, ref[b], leases[b] - 1)
        /\ UNCHANGED <<of, lease, clientVars, awaits, authVars>>

\* The chain's last answer or error; a retry of a closed client is refused.
Answered(c) ==
    /\ pc[c] = "request"
    /\ DropLease(c, [pc EXCEPT ![c] = "done"])
    /\ UNCHANGED <<of, clientVars, awaits, authVars>>

Pending(a) == auth[a] \in {"pending", "login"}

\* The answer says that the session expired: the chain joins its client's
\* authentication task, or creates it.
Reauthenticate(c, a) ==
    LET k == of[c]
    IN  /\ pc[c] = "request"
        /\ IF current[k] # NoOne /\ Pending(current[k])
             THEN a = current[k] /\ UNCHANGED <<auth, parent, current>>
             ELSE /\ auth[a] = "new"
                  /\ auth' = [auth EXCEPT ![a] = "pending"]
                  /\ parent' = [parent EXCEPT ![a] = c]
                  /\ current' = [current EXCEPT ![k] = a]
        /\ pc' = [pc EXCEPT ![c] = "awaiting"]
        /\ awaits' = [awaits EXCEPT ![c] = a]
        /\ UNCHANGED <<budgetVars, semVars, stage, bud, of, lease, reserved>>

\* The authentication is over: the chain goes on, or fails with it.
AuthDelivered(c) ==
    /\ pc[c] = "awaiting"
    /\ ~Pending(awaits[c])
    /\ awaits' = [awaits EXCEPT ![c] = NoOne]
    /\ \/ /\ stage[of[c]] = "open"
          /\ pc' = [pc EXCEPT ![c] = "request"]
          /\ UNCHANGED <<semVars, budgetVars, lease>>
       \/ DropLease(c, [pc EXCEPT ![c] = "done"])
    /\ UNCHANGED <<of, clientVars, authVars>>

\* Cancelled, by its caller's timeout or an unload: the chain's reference
\* passes to its client's authentication task if that is pending and holds
\* no lease yet, and is dropped otherwise.
CancelChain(c) ==
    LET a == current[of[c]]
    IN  /\ pc[c] \in {"request", "awaiting"}
        /\ awaits' = [awaits EXCEPT ![c] = NoOne]
        /\ IF a # NoOne /\ Pending(a) /\ reserved[a] = NoOne
             THEN /\ reserved' = [reserved EXCEPT ![a] = c]
                  /\ pc' = [pc EXCEPT ![c] = "done"]
                  /\ UNCHANGED <<semVars, budgetVars, lease>>
             ELSE /\ DropLease(c, [pc EXCEPT ![c] = "done"])
                  /\ UNCHANGED reserved
        /\ UNCHANGED <<of, clientVars, auth, parent>>

-----------------------------------------------------------------------------
(* Authentication tasks.                                                   *)

\* Mutant: the login queues for a slot of its own.
AuthLoginQueued(a) ==
    LET c == parent[a]
    IN  /\ auth[a] = "pending"
        /\ ~Locked(BudgetOf(c))
        /\ auth' = [auth EXCEPT ![a] = "login"]
        /\ UNCHANGED <<budgetVars, semVars, clientVars, pc, of, lease, awaits,
                       parent, reserved>>

\* The login goes ahead on a lease reserved for the task, or on one more
\* reference of its creator's; a closed client refuses it, and without a
\* lease it fails rather than queue.
AuthLogin(a) ==
    LET c == parent[a]
    IN  /\ auth[a] = "pending"
        /\ stage[of[c]] = "open"
        /\ IF reserved[a] # NoOne
             THEN UNCHANGED <<reserved, lease>>
             ELSE /\ lease[c] > 0
                  /\ reserved' = [reserved EXCEPT ![a] = c]
                  /\ lease' = [lease EXCEPT ![c] = @ + 1]
        /\ auth' = [auth EXCEPT ![a] = "login"]
        /\ UNCHANGED <<budgetVars, semVars, clientVars, pc, of, awaits, parent>>

\* The task is over: authenticated, refused, failed, or cancelled by its
\* client's close.
AuthEnd(a) ==
    /\ Pending(a)
    /\ auth' = [auth EXCEPT ![a] = "finished"]
    /\ UNCHANGED <<budgetVars, semVars, clientVars, pc, of, lease, awaits,
                   parent, reserved>>

\* The done callback _auth_task_finished.
AuthFinished(a) ==
    /\ auth[a] = "finished"
    /\ auth' = [auth EXCEPT ![a] = "done"]
    /\ reserved' = [reserved EXCEPT ![a] = NoOne]
    /\ IF reserved[a] # NoOne
         THEN DropLease(reserved[a], pc)
         ELSE UNCHANGED <<semVars, budgetVars, pc, lease>>
    /\ UNCHANGED <<of, clientVars, awaits, parent>>

-----------------------------------------------------------------------------

Next ==
    \/ \E k \in Client : Register(k) \/ Unload(k)
    \/ \E c \in Chain :
        \/ \E k \in Client : Begin(c, k)
        \/ \E a \in Auth : Reauthenticate(c, a)
        \/ Admitted(c)
        \/ CancelWaiting(c)
        \/ Answered(c)
        \/ AuthDelivered(c)
        \/ CancelChain(c)
    \/ \E a \in Auth : AuthLogin(a) \/ AuthEnd(a) \/ AuthFinished(a)

Spec == Init /\ [][Next]_vars

\* The event loop runs what is ready.  Requests carry a timeout, so each is
\* answered, and an authentication task comes to its login and ends.
Fairness ==
    /\ \A c \in Chain :
        WF_vars(Admitted(c)) /\ WF_vars(Answered(c)) /\ WF_vars(AuthDelivered(c))
    /\ \A a \in Auth :
        /\ WF_vars(AuthLogin(a)) /\ WF_vars(AuthFinished(a))
        /\ WF_vars(auth[a] = "login" /\ AuthEnd(a))
        /\ WF_vars(auth[a] = "pending" /\ stage[of[parent[a]]] = "closed" /\ AuthEnd(a))

FairSpec == Spec /\ Fairness

-----------------------------------------------------------------------------
(* Properties.                                                             *)

Waiting(c) == pc[c] \in {"queued", "granted"}
OnTheWire == {c \in Chain : pc[c] = "request"} \cup {a \in Auth : auth[a] = "login"}

\* The account's limit holds over all its clients, plants and reloads: never
\* more than Limit requests run, logins that bypass the semaphore included.
AccountLimit == Cardinality(OnTheWire) <= Limit

\* No slot is lost or made up by any cancellation, hand-over or reservation:
\* a slot is free, in the hands of a woken waiter or under a live lease; and
\* _leases counts the waiters and the live leases.
SlotsConserved ==
    \A b \in Client :
        LET mine == {c \in Chain : of[c] # NoOne /\ BudgetOf(c) = b}
            live == {c \in mine : lease[c] > 0}
        IN  /\ free[b] + Cardinality({c \in mine : pc[c] = "granted"})
                       + Cardinality(live) = Limit
            /\ leases[b] = Cardinality({c \in mine : Waiting(c)}) + Cardinality(live)

\* A budget with an owner, a waiter or a live lease stays the account's
\* budget, so that a reloaded entry joins it and not a second one.
OneBudget ==
    \A b \in Client : ref[b] > 0 \/ leases[b] > 0 => registry = b

\* A pending authentication always has an admission to log in under -- its
\* own, or its creator's -- even when every chain that awaited it is gone.
AuthAdmitted ==
    \A a \in Auth :
        /\ auth[a] = "pending" => reserved[a] # NoOne \/ lease[parent[a]] > 0
        /\ auth[a] = "login" => reserved[a] # NoOne
        /\ reserved[a] # NoOne => lease[reserved[a]] > 0

\* The bookkeeping of an account: the types (no count below zero), the limit,
\* the slots, and an admission for every authentication.
Accounting == TypeOK /\ AccountLimit /\ SlotsConserved /\ AuthAdmitted

\* Every slot may be held by chains that await an authentication; a queued
\* chain is admitted all the same.
QueueServed == \A c \in Chain : pc[c] = "queued" ~> pc[c] \in {"request", "done"}

\* Once all clients are gone the account's budget leaves hass.data.
BudgetRetired == (\A k \in Client : stage[k] = "closed") ~> registry = NoOne

=============================================================================
