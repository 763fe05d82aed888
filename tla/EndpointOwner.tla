---------------------------- MODULE EndpointOwner ----------------------------
(***************************************************************************)
(* One _EndpointBusOwner of endpoint_bus.py and its _TaskReentrantGate:    *)
(* the tasks that invoke operations through capabilities of one physical   *)
(* endpoint, the wire tasks those operations run in (shielded, so they     *)
(* outlive a cancelled caller), and the terminal shutdown of each          *)
(* capability, which interrupts its own wire task or waits for the gate.   *)
(*                                                                         *)
(* One action is what one task does between two awaits that really         *)
(* suspend.  asyncio.Lock is external: it is free for the taking only when *)
(* it is unlocked and nobody queues; a release wakes the head of the       *)
(* queue, which owns nothing until it runs.  Between the two, the lock     *)
(* reads as unlocked (`~locked /\ queue # <<>>`, the hand-off window).     *)
(***************************************************************************)
EXTENDS Naturals, FiniteSets, SequencesExt

CONSTANTS
    Caller,         \* tasks that invoke operations and run transactions
    Token,          \* capabilities; the token also names its shutdown task
    NoOne,          \* no task and no capability
    MaxWaiters      \* MAX_ENDPOINT_WAITERS

Proc == Caller \cup Token

ASSUME ConstantsAssumption ==
    /\ Caller \cap Token = {}
    /\ NoOne \notin Proc
    /\ MaxWaiters \in Nat \ {0}

VARIABLES
    rec,            \* _records: each capability's record
    ownerState,     \* _state
    locked, queue,  \* _lock: held, and the FIFO of tasks awaiting it
    gateOwner,      \* _owner of the gate
    depth,          \* _depth
    holds,          \* _wire_holds
    waiters,        \* _waiters
    counted,        \* the queued tasks that added themselves to _waiters
    pc,             \* where each task stands
    tok, txn,       \* the capability a caller uses; inside transaction()?
    wire, wtok,     \* the wire task a caller created, and _wire_tasks' token
    victims,        \* a shutdown's snapshot of its own wire tasks
    interrupting,   \* shutdowns that hold the gate by hold_if_locked
    closedOk,       \* shutdowns whose terminal close succeeded
    failed          \* capabilities with a failed terminal close behind them

gateVars == <<locked, gateOwner, depth, holds>>
queueVars == <<queue, waiters, counted>>
recVars == <<rec, ownerState>>
callerVars == <<tok, txn>>
wireVars == <<wire, wtok>>
closeVars == <<victims, interrupting, closedOk, failed>>
vars == <<gateVars, queueVars, recVars, pc, callerVars, wireVars, closeVars>>

-----------------------------------------------------------------------------
(* Helper formulae.                                                        *)

Retained(t) == rec[t] \in {"open", "closing"}

\* _open_record succeeds.
Admitted(t) == rec[t] = "open" /\ ownerState = "open"

\* begin_shutdown and shutdown both derive the owner state from the records.
AllClosing(r) == \A t \in Token : r[t] # "open"
StateOf(r) ==
    IF \A t \in Token : r[t] \in {"absent", "gone"} THEN "closed"
    ELSE IF \E t \in Token : r[t] = "closing" THEN "closing" ELSE "open"

GateFree == ~locked /\ queue = <<>>

TakeGate(p) ==
    /\ locked' = TRUE
    /\ gateOwner' = p
    /\ depth' = 1

\* Mutant: the gate opens when its caller leaves, wire task or not.
SettleGateAtOnce(d, h) ==
    /\ depth' = d
    /\ holds' = h
    /\ IF d = 0 /\ locked
         THEN locked' = FALSE /\ gateOwner' = NoOne
         ELSE UNCHANGED <<locked, gateOwner>>

\* The gate after a release: _release_if_idle opens it once nothing is left.
SettleGate(d, h) ==
    /\ depth' = d
    /\ holds' = h
    /\ IF d = 0 /\ h = 0 /\ locked
         THEN locked' = FALSE /\ gateOwner' = NoOne
         ELSE UNCHANGED <<locked, gateOwner>>

\* acquire() that cannot have the lock now.  Only a task that saw the lock
\* locked counts as a waiter (and, for a caller, runs under the deadline).
JoinQueue(p) ==
    /\ queue' = Append(queue, p)
    /\ waiters' = IF locked THEN waiters + 1 ELSE waiters
    /\ counted' = IF locked THEN counted \cup {p} ELSE counted

\* Mutant: the wait keeps its place in _waiters.
LeaveQueueCounted(p, i) ==
    /\ queue[i] = p
    /\ queue' = RemoveAt(queue, i)
    /\ counted' = counted \ {p}
    /\ UNCHANGED waiters

\* The await on the lock ends, however it ends: the finally clause.
LeaveQueue(p, i) ==
    /\ queue[i] = p
    /\ queue' = RemoveAt(queue, i)
    /\ waiters' = IF p \in counted THEN waiters - 1 ELSE waiters
    /\ counted' = counted \ {p}

-----------------------------------------------------------------------------

TypeOK ==
    /\ rec \in [Token -> {"absent", "open", "closing", "gone"}]
    /\ ownerState \in {"open", "closing", "closed"}
    /\ locked \in BOOLEAN
    /\ queue \in Seq(Proc)
    /\ gateOwner \in Proc \cup {NoOne}
    /\ depth \in Nat
    /\ holds \in Nat
    /\ waiters \in Int
    /\ counted \subseteq Proc
    /\ pc \in [Proc -> {"idle", "queued", "body", "wire",
                        "begun", "terminal", "gathering"}]
    /\ tok \in [Caller -> Token \cup {NoOne}]
    /\ txn \in [Caller -> BOOLEAN]
    /\ wire \in [Caller -> {"none", "running", "cancelling", "finished"}]
    /\ wtok \in [Caller -> Token \cup {NoOne}]
    /\ victims \in [Token -> SUBSET Caller]
    /\ interrupting \subseteq Token
    /\ closedOk \subseteq Token
    /\ failed \subseteq Token

\* The owner as create_capability constructs it, before its first add().
Init ==
    /\ rec = [t \in Token |-> "absent"]
    /\ ownerState = "open"
    /\ locked = FALSE
    /\ queue = <<>>
    /\ gateOwner = NoOne
    /\ depth = 0
    /\ holds = 0
    /\ waiters = 0
    /\ counted = {}
    /\ pc = [p \in Proc |-> "idle"]
    /\ tok = [c \in Caller |-> NoOne]
    /\ txn = [c \in Caller |-> FALSE]
    /\ wire = [c \in Caller |-> "none"]
    /\ wtok = [c \in Caller |-> NoOne]
    /\ victims = [t \in Token |-> {}]
    /\ interrupting = {}
    /\ closedOk = {}
    /\ failed = {}

\* A sharer of the endpoint gets its record from an owner that is open.
AddCapability(t) ==
    /\ rec[t] = "absent"
    /\ ownerState = "open"
    /\ rec' = [rec EXCEPT ![t] = "open"]
    /\ UNCHANGED <<ownerState, gateVars, queueVars, pc, callerVars, wireVars,
                   closeVars>>

-----------------------------------------------------------------------------
(* Callers: invoke() and transaction().                                    *)

\* Inside the gate: the operation's task is created and the gate held for it.
StartWire(c, t) ==
    /\ pc' = [pc EXCEPT ![c] = "wire"]
    /\ wire' = [wire EXCEPT ![c] = "running"]
    /\ wtok' = [wtok EXCEPT ![c] = t]
    /\ holds' = holds + 1

\* What a caller does once it has the gate: run its operation, or enter the
\* body of its transaction.
Enter(c, t, x) ==
    IF x THEN /\ pc' = [pc EXCEPT ![c] = "body"]
              /\ UNCHANGED <<wireVars, holds>>
         ELSE StartWire(c, t)

InvokeFree(c, t, x) ==
    /\ pc[c] = "idle"
    /\ Admitted(t)
    /\ GateFree
    /\ TakeGate(c)
    /\ Enter(c, t, x)
    /\ tok' = [tok EXCEPT ![c] = t]
    /\ txn' = [txn EXCEPT ![c] = x]
    /\ UNCHANGED <<queueVars, recVars, closeVars>>

\* With the lock locked and MaxWaiters waiting the call fails at once.
InvokeQueue(c, t, x) ==
    /\ pc[c] = "idle"
    /\ Admitted(t)
    /\ ~GateFree
    /\ locked => waiters < MaxWaiters
    /\ JoinQueue(c)
    /\ pc' = [pc EXCEPT ![c] = "queued"]
    /\ tok' = [tok EXCEPT ![c] = t]
    /\ txn' = [txn EXCEPT ![c] = x]
    /\ UNCHANGED <<gateVars, recVars, wireVars, closeVars>>

\* Mutant: the record is not checked again after the wait.
GrantedUnchecked(c) ==
    /\ pc[c] = "queued"
    /\ ~locked
    /\ queue # <<>>
    /\ LeaveQueue(c, 1)
    /\ TakeGate(c) /\ Enter(c, tok[c], txn[c])
    /\ UNCHANGED <<recVars, callerVars, closeVars>>

\* The head of the queue runs with the lock free.  The record is checked
\* again, for a shutdown may have begun during the wait; then the gate is
\* released in the same breath.
Granted(c) ==
    /\ pc[c] = "queued"
    /\ ~locked
    /\ queue # <<>>
    /\ LeaveQueue(c, 1)
    /\ IF Admitted(tok[c])
         THEN TakeGate(c) /\ Enter(c, tok[c], txn[c])
         ELSE /\ pc' = [pc EXCEPT ![c] = "idle"]
              /\ UNCHANGED <<gateVars, wireVars>>
    /\ UNCHANGED <<recVars, callerVars, closeVars>>

\* ENDPOINT_ACQUIRE_TIMEOUT_SECONDS pass; only counted waiters have a deadline.
WaitTimeout(c) ==
    /\ pc[c] = "queued"
    /\ c \in counted
    /\ \E i \in DOMAIN queue : LeaveQueue(c, i)
    /\ pc' = [pc EXCEPT ![c] = "idle"]
    /\ UNCHANGED <<gateVars, recVars, callerVars, wireVars, closeVars>>

CancelQueued(c) ==
    /\ pc[c] = "queued"
    /\ \E i \in DOMAIN queue : LeaveQueue(c, i)
    /\ pc' = [pc EXCEPT ![c] = "idle"]
    /\ UNCHANGED <<gateVars, recVars, callerVars, wireVars, closeVars>>

\* A nested operation of a transaction: acquire() re-enters for its owner.
NestedInvoke(c) ==
    /\ pc[c] = "body"
    /\ Admitted(tok[c])
    /\ gateOwner = c /\ depth > 0
    /\ depth' = depth + 1
    /\ StartWire(c, tok[c])
    /\ UNCHANGED <<locked, gateOwner, queueVars, recVars, callerVars, closeVars>>

\* The body ends: done, refused by a closed record, failed or cancelled.
LeaveTransaction(c) ==
    /\ pc[c] = "body"
    /\ SettleGate(depth - 1, holds)
    /\ pc' = [pc EXCEPT ![c] = "idle"]
    /\ UNCHANGED <<queueVars, recVars, callerVars, wireVars, closeVars>>

\* Mutant: a transaction's release is not done at all.
UnwindOnce(c, stay) ==
    /\ pc' = [pc EXCEPT ![c] = IF stay THEN "body" ELSE "idle"]
    /\ SettleGate(depth - 1, holds)

\* The caller leaves invoke() and, unless its transaction goes on, the
\* transaction too: one release per nesting level.
Unwind(c, stay) ==
    /\ pc' = [pc EXCEPT ![c] = IF stay THEN "body" ELSE "idle"]
    /\ SettleGate(IF txn[c] /\ ~stay THEN depth - 2 ELSE depth - 1, holds)

\* The shielded wire task is over and the caller runs again, with a result,
\* an error, or the cancellation of an interrupted wire task.
Resume(c) ==
    /\ pc[c] = "wire"
    /\ wire[c] = "none"
    /\ \E stay \in BOOLEAN : (stay => txn[c]) /\ Unwind(c, stay)
    /\ UNCHANGED <<queueVars, recVars, callerVars, wireVars, closeVars>>

\* The caller is cancelled in the shield: the wire task is left running.
CancelCaller(c) ==
    /\ pc[c] = "wire"
    /\ wire[c] # "none"
    /\ Unwind(c, FALSE)
    /\ UNCHANGED <<queueVars, recVars, callerVars, wireVars, closeVars>>

-----------------------------------------------------------------------------
(* Wire tasks.                                                             *)

WireFinish(c) ==
    /\ wire[c] \in {"running", "cancelling"}
    /\ wire' = [wire EXCEPT ![c] = "finished"]
    /\ UNCHANGED <<gateVars, queueVars, recVars, pc, callerVars, wtok, closeVars>>

\* The done callbacks, in the order they were added: _wire_tasks.pop, then
\* _wire_task_done, then the shield's and the gather's.
WireCallbacks(c) ==
    /\ wire[c] = "finished"
    /\ wire' = [wire EXCEPT ![c] = "none"]
    /\ SettleGate(depth, holds - 1)
    /\ UNCHANGED <<queueVars, recVars, pc, callerVars, wtok, closeVars>>

-----------------------------------------------------------------------------
(* Shutdown of one capability.                                             *)

\* begin_shutdown(): admission closes at once, before anything is awaited.
CloseAdmission(t) ==
    LET r == [rec EXCEPT ![t] = "closing"]
    IN  /\ rec' = r
        /\ ownerState' = IF AllClosing(r) THEN "closing" ELSE ownerState

BeginShutdown(t) ==
    /\ rec[t] = "open"
    /\ CloseAdmission(t)
    /\ UNCHANGED <<gateVars, queueVars, pc, callerVars, wireVars, closeVars>>

\* EndpointBusCapability.async_shutdown: begin, then create the single task.
AsyncShutdown(t) ==
    /\ pc[t] = "idle"
    /\ Retained(t)
    /\ CloseAdmission(t)
    /\ pc' = [pc EXCEPT ![t] = "begun"]
    /\ UNCHANGED <<gateVars, queueVars, callerVars, wireVars, closeVars>>

OwnWires(t) == {c \in Caller : wire[c] # "none" /\ wtok[c] = t}

\* force_release_capabilities took the record before the task ran.
ShutdownNothing(t) ==
    /\ pc[t] = "begun"
    /\ ~Retained(t)
    /\ pc' = [pc EXCEPT ![t] = "idle"]
    /\ UNCHANGED <<gateVars, queueVars, recVars, callerVars, wireVars, closeVars>>

ShutdownInterrupt(t) ==
    /\ pc[t] = "begun"
    /\ Retained(t)
    /\ OwnWires(t) # {}
    /\ locked
    /\ CloseAdmission(t)
    /\ victims' = [victims EXCEPT ![t] = OwnWires(t)]
    /\ interrupting' = interrupting \cup {t}
    /\ holds' = holds + 1
    /\ pc' = [pc EXCEPT ![t] = "terminal"]
    /\ UNCHANGED <<locked, gateOwner, depth, queueVars, callerVars, wireVars,
                   closedOk, failed>>

\* Nothing of its own to interrupt: acquire(deadline=False).
ShutdownAcquire(t) ==
    /\ pc[t] = "begun"
    /\ Retained(t)
    /\ OwnWires(t) = {} \/ ~locked
    /\ CloseAdmission(t)
    /\ victims' = [victims EXCEPT ![t] = OwnWires(t)]
    /\ IF GateFree
         THEN /\ TakeGate(t)
              /\ pc' = [pc EXCEPT ![t] = "terminal"]
              /\ UNCHANGED <<holds, queueVars>>
         ELSE /\ JoinQueue(t)
              /\ pc' = [pc EXCEPT ![t] = "queued"]
              /\ UNCHANGED gateVars
    /\ UNCHANGED <<callerVars, wireVars, interrupting, closedOk, failed>>

ShutdownGranted(t) ==
    /\ pc[t] = "queued"
    /\ ~locked
    /\ queue # <<>>
    /\ LeaveQueue(t, 1)
    /\ TakeGate(t)
    /\ pc' = [pc EXCEPT ![t] = "terminal"]
    /\ UNCHANGED <<holds, recVars, callerVars, wireVars, closeVars>>

\* Mutant: the interrupting shutdown never calls release_hold.
ConcludeHolding(t, ok) ==
    /\ IF t \in interrupting THEN UNCHANGED gateVars
                             ELSE SettleGate(depth - 1, holds)
    /\ interrupting' = interrupting \ {t}
    /\ victims' = [victims EXCEPT ![t] = {}]
    /\ closedOk' = closedOk \ {t}
    /\ pc' = [pc EXCEPT ![t] = "idle"]
    /\ IF ok
         THEN LET r == [rec EXCEPT ![t] = "gone"]
              IN  rec' = r /\ ownerState' = StateOf(r) /\ UNCHANGED failed
         ELSE /\ ownerState' = "closing"
              /\ failed' = failed \cup {t}
              /\ UNCHANGED rec

\* The end of shutdown()'s finally clause.
Conclude(t, ok) ==
    /\ IF t \in interrupting THEN SettleGate(depth, holds - 1)
                             ELSE SettleGate(depth - 1, holds)
    /\ interrupting' = interrupting \ {t}
    /\ victims' = [victims EXCEPT ![t] = {}]
    /\ closedOk' = closedOk \ {t}
    /\ pc' = [pc EXCEPT ![t] = "idle"]
    /\ IF ok
         THEN LET r == [rec EXCEPT ![t] = "gone"]
              IN  rec' = r /\ ownerState' = StateOf(r) /\ UNCHANGED failed
         ELSE /\ ownerState' = "closing"
              /\ failed' = failed \cup {t}
              /\ UNCHANGED rec

\* The raw close returned or raised and there is no wire task to collect.
TerminalEnd(t) ==
    /\ pc[t] = "terminal"
    /\ victims[t] = {}
    /\ \E ok \in BOOLEAN : Conclude(t, ok)
    /\ UNCHANGED <<queueVars, callerVars, wireVars>>

\* Mutant: the wire tasks are awaited without being cancelled.
TerminalUncancelled(t) ==
    /\ pc[t] = "terminal"
    /\ victims[t] # {}
    /\ pc' = [pc EXCEPT ![t] = "gathering"]
    /\ \E ok \in BOOLEAN :
          closedOk' = IF ok THEN closedOk \cup {t} ELSE closedOk \ {t}
    /\ UNCHANGED <<gateVars, queueVars, recVars, callerVars, wireVars, victims,
                   interrupting, failed>>

\* Otherwise every one of them is cancelled, and then awaited.
TerminalCancel(t) ==
    /\ pc[t] = "terminal"
    /\ victims[t] # {}
    /\ pc' = [pc EXCEPT ![t] = "gathering"]
    /\ \E ok \in BOOLEAN :
          closedOk' = IF ok THEN closedOk \cup {t} ELSE closedOk \ {t}
    /\ wire' = [c \in Caller |->
                  IF c \in victims[t] /\ wire[c] = "running"
                    THEN "cancelling" ELSE wire[c]]
    /\ UNCHANGED <<gateVars, queueVars, recVars, callerVars, wtok, victims,
                   interrupting, failed>>

\* Mutant: the cancelled wire tasks are not awaited.
GatheredAtOnce(t) ==
    /\ pc[t] = "gathering"
    /\ Conclude(t, t \in closedOk)
    /\ UNCHANGED <<queueVars, callerVars, wireVars>>

Gathered(t) ==
    /\ pc[t] = "gathering"
    /\ \A c \in victims[t] : wire[c] = "none"
    /\ Conclude(t, t \in closedOk)
    /\ UNCHANGED <<queueVars, callerVars, wireVars>>

\* force_release_capabilities, the last resort of an unload whose terminal
\* close failed; a retry of that close may be under way for the same record.
ForceRelease(t) ==
    /\ rec[t] = "closing"
    /\ t \in failed
    /\ LET r == [rec EXCEPT ![t] = "gone"]
       IN  rec' = r /\ ownerState' = StateOf(r)
    /\ failed' = failed \ {t}
    /\ UNCHANGED <<gateVars, queueVars, pc, callerVars, wireVars, victims,
                   interrupting, closedOk>>

-----------------------------------------------------------------------------

CallerStep(c) ==
    \/ \E t \in Token, x \in BOOLEAN : InvokeFree(c, t, x) \/ InvokeQueue(c, t, x)
    \/ Granted(c)
    \/ WaitTimeout(c)
    \/ CancelQueued(c)
    \/ NestedInvoke(c)
    \/ LeaveTransaction(c)
    \/ Resume(c)
    \/ CancelCaller(c)

WireStep(c) == WireFinish(c) \/ WireCallbacks(c)

ShutdownStep(t) ==
    \/ BeginShutdown(t)
    \/ AsyncShutdown(t)
    \/ ShutdownNothing(t)
    \/ ShutdownInterrupt(t)
    \/ ShutdownAcquire(t)
    \/ ShutdownGranted(t)
    \/ TerminalEnd(t)
    \/ TerminalCancel(t)
    \/ Gathered(t)
    \/ ForceRelease(t)

Next ==
    \/ \E c \in Caller : CallerStep(c) \/ WireStep(c)
    \/ \E t \in Token : AddCapability(t) \/ ShutdownStep(t)

Spec == Init /\ [][Next]_vars

-----------------------------------------------------------------------------
(* Fairness.  The event loop runs every task that is ready, every timer    *)
(* fires, a cancelled wire task ends, and so does the close of a raw       *)
(* transport.  A transaction's body issues finitely many operations.       *)
(* Nothing says that an operation on the wire ever ends by itself.         *)

CancelledWireFinish(c) == wire[c] = "cancelling" /\ WireFinish(c)

Fairness ==
    /\ \A c \in Caller :
        /\ WF_vars(Granted(c)) /\ WF_vars(WaitTimeout(c))
        /\ WF_vars(Resume(c)) /\ SF_vars(LeaveTransaction(c))
        /\ WF_vars(CancelledWireFinish(c)) /\ WF_vars(WireCallbacks(c))
    /\ \A t \in Token :
        /\ WF_vars(ShutdownNothing(t)) /\ WF_vars(ShutdownInterrupt(t))
        /\ WF_vars(ShutdownAcquire(t)) /\ WF_vars(ShutdownGranted(t))
        /\ WF_vars(TerminalEnd(t)) /\ WF_vars(TerminalCancel(t))
        /\ WF_vars(Gathered(t))

FairSpec == Spec /\ Fairness

-----------------------------------------------------------------------------
(* Properties.                                                             *)

OnWire(c) == wire[c] \in {"running", "cancelling"}
Terminal(t) == pc[t] = "terminal"

\* The endpoint is a serial bus: no two operations are ever on the wire, no
\* two terminal closes run, and a terminal close overlaps no operation but
\* one of its own capability -- though a cancelled caller's operation runs on
\* by itself and a shutdown may enter without the gate (hold_if_locked).
WireExclusive ==
    /\ \A c, d \in Caller : OnWire(c) /\ OnWire(d) => c = d
    /\ \A t, u \in Token : Terminal(t) /\ Terminal(u) => t = u
    /\ \A c \in Caller, t \in Token : OnWire(c) /\ Terminal(t) => wtok[c] = t

\* How many releases task p still owes the gate.
Owes(p) ==
    CASE pc[p] = "body" -> 1
      [] pc[p] = "wire" -> IF txn[p] THEN 2 ELSE 1
      [] pc[p] \in {"terminal", "gathering"} -> IF p \in interrupting THEN 0 ELSE 1
      [] OTHER -> 0

\* The gate is neither leaked nor opened early, whatever is cancelled when:
\* the lock is held exactly while a task is inside it, a wire task has
\* callbacks to run, or a shutdown interrupts; the nesting depth is what the
\* one task inside owes, and that task is the owner acquire() re-enters for.
GateAccounting ==
    /\ locked <=> \/ \E p \in Proc : Owes(p) > 0
                  \/ \E c \in Caller : wire[c] # "none"
                  \/ interrupting # {}
    /\ \A p \in Proc : Owes(p) > 0 => Owes(p) = depth /\ gateOwner = p
    /\ depth > 0 => \E p \in Proc : Owes(p) > 0

\* Every finally clause of the wait gives its place back: _waiters counts the
\* queued tasks that joined behind a held lock, no more and no fewer.
WaitersExact ==
    /\ counted = {p \in counted : pc[p] = "queued"}
    /\ waiters = Cardinality(counted)
    /\ Cardinality(counted \cap Caller) <= MaxWaiters
    /\ {p \in Proc : pc[p] = "queued"} = ToSet(queue)

\* shutdown() drops a record only when nothing of it is left on the wire, and
\* so does force_release_capabilities, which looks at no task.
NothingAfterRelease ==
    \A t \in Token, c \in Caller : rec[t] = "gone" /\ OnWire(c) => wtok[c] # t

\* The owner implements the endpoint bus: its wire tasks are the operations,
\* its terminal closes the endings.
busOps == {<<c, wtok[c]>> : c \in {d \in Caller : OnWire(d)}}
busEnding == {t \in Token : Terminal(t)}
Bus == INSTANCE EndpointBus WITH access <- rec, ops <- busOps, ending <- busEnding
ImplementsBus == Bus!Spec

\* Unloading interrupts: once a shutdown runs beside its own wire task it
\* ends, even if the operation on the wire would have hung for ever.
InterruptCompletes ==
    \A t \in Token :
        pc[t] = "terminal" /\ victims[t] # {} ~> pc[t] = "idle"

\* If the transports answer, a shutdown gets through the queue -- it waits
\* without a deadline -- and no hand-off of the lock is lost on the way to it.
TransportAnswers == \A c \in Caller : []<>(wire[c] # "running")
ShutdownServed ==
    TransportAnswers => \A t \in Token : pc[t] = "begun" ~> pc[t] = "idle"

\* force_release_capabilities recomputes the state because the failed close
\* would otherwise "strand every surviving sharer behind
\* EndpointOwnerClosingError with no retry path".
NoStrandedSharer ==
    (\E t \in Token : rec[t] = "open")
        => (ownerState = "closing" => \E t \in Token : rec[t] = "closing")

=============================================================================
