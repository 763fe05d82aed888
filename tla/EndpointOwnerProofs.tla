------------------------- MODULE EndpointOwnerProofs -------------------------
(***************************************************************************)
(* Theorems about EndpointOwner for any number of callers and capabilities *)
(* and any bound on the waiters.  The argument is the inductive invariant  *)
(* GateInv: what the gate's two counters stand for, and what a task inside *)
(* the gate, a wire task and an interrupting shutdown exclude; for the     *)
(* count of waiters it is WaitInv: the queue holds each waiting task once. *)
(***************************************************************************)
EXTENDS EndpointOwner, SequenceTheorems, FiniteSetTheorems, TLAPS

\* Each task is where its kind of task can be.
Places ==
    /\ \A c \in Caller : pc[c] \in {"idle", "queued", "body", "wire"}
    /\ \A t \in Token :
         pc[t] \in {"idle", "begun", "queued", "terminal", "gathering"}
    /\ \A c \in Caller : pc[c] # "idle" => tok[c] \in Token
    /\ \A c \in Caller : pc[c] = "body" => txn[c]
    /\ \A c \in Caller : wire[c] # "none" => wtok[c] \in Token

Wired(c) == wire[c] # "none"

\* depth is what the one task inside the gate owes; holds is one for the wire
\* task plus one for the interrupting shutdown, and there is one of each at
\* most; the lock is held while either counter is not zero.
Counters ==
    /\ locked <=> depth > 0 \/ holds > 0
    /\ \A p \in Proc : Owes(p) = IF p = gateOwner THEN depth ELSE 0
    /\ depth > 0 => gateOwner \in Proc
    /\ holds = (IF \E c \in Caller : Wired(c) THEN 1 ELSE 0)
             + (IF interrupting # {} THEN 1 ELSE 0)
    /\ \A c, d \in Caller : Wired(c) /\ Wired(d) => c = d
    /\ \A t, u \in interrupting : t = u

\* A caller in the gate is alone with its own wire task, which exists only
\* while it awaits it; a shutdown in the gate sees no wire task.
InsideExcludes ==
    /\ \A c, d \in Caller :
         pc[c] \in {"body", "wire"} /\ Wired(d) => pc[c] = "wire" /\ d = c
    /\ \A c \in Caller : pc[c] = "wire" /\ Wired(c) => wtok[c] = tok[c]
    /\ \A t \in Token, c \in Caller :
         pc[t] \in {"terminal", "gathering"} /\ t \notin interrupting => ~Wired(c)

\* While a shutdown interrupts, whatever else is under way is its own.
InterruptExcludes ==
    \A t \in interrupting :
        /\ pc[t] \in {"terminal", "gathering"}
        /\ victims[t] # {}
        /\ \A c \in Caller : Wired(c) => wtok[c] = t /\ c \in victims[t]
        /\ \A c \in Caller : pc[c] \in {"body", "wire"} => tok[c] = t
        /\ \A u \in Token : pc[u] \in {"terminal", "gathering"} => u = t

\* A shutdown's record stopped admitting before it began, and once a close
\* of it has ended nothing of it is on the wire.
Closed ==
    /\ \A t \in Token : pc[t] # "idle" => rec[t] \in {"closing", "gone"}
    /\ \A t \in Token : pc[t] \in {"queued", "terminal"} /\ t \notin interrupting
                           => victims[t] = {}
    /\ \A t \in Token : pc[t] = "gathering" => t \in interrupting
    /\ \A t \in failed : rec[t] \in {"closing", "gone"}
    /\ \A t \in Token : rec[t] = "gone" \/ t \in failed
                           => \A c \in Caller : Wired(c) => wtok[c] # t
    /\ \A t \in Token, c \in Caller : Wired(c) /\ wtok[c] = t => rec[t] # "absent"

GateInv ==
    /\ TypeOK
    /\ Places
    /\ Counters
    /\ InsideExcludes
    /\ InterruptExcludes
    /\ Closed

-----------------------------------------------------------------------------
\* The state functions every leaf reads through.
USE DEF gateVars, queueVars, recVars, callerVars, wireVars, closeVars,
        Proc, Owes, Wired

\* Leaving the queue, from wherever the task stood in it, leaves a queue.
LEMMA LeaveQueueType ==
    ASSUME queue \in Seq(Proc), NEW p, NEW i \in DOMAIN queue, LeaveQueue(p, i)
    PROVE  /\ queue' \in Seq(Proc)
           /\ waiters \in Int => waiters' \in Int
           /\ counted \subseteq Proc => counted' \subseteq Proc
<1>1. /\ Len(queue) \in Nat
      /\ DOMAIN queue = 1 .. Len(queue)
  BY LenProperties
<1>2. /\ SubSeq(queue, 1, i - 1) \in Seq(Proc)
      /\ SubSeq(queue, i + 1, Len(queue)) \in Seq(Proc)
  BY <1>1, SubSeqProperties
<1>3. queue' = SubSeq(queue, 1, i - 1) \o SubSeq(queue, i + 1, Len(queue))
  BY DEF LeaveQueue, RemoveAt
<1>4. queue' \in Seq(Proc)
  BY <1>2, <1>3, ConcatProperties
<1> QED
  BY <1>4 DEF LeaveQueue

\* The owner starts with a gate nobody is in.
LEMMA InitGate == Init => GateInv
<1> SUFFICES ASSUME Init PROVE GateInv
  OBVIOUS
<1> USE ConstantsAssumption DEF ConstantsAssumption, Init
<1>1. TypeOK
  <2>1. queue \in Seq(Proc)
    BY EmptySeq
  <2>2. depth \in Nat /\ holds \in Nat /\ waiters \in Int
    OBVIOUS
  <2>3. pc \in [Proc -> {"idle", "queued", "body", "wire",
                       "begun", "terminal", "gathering"}]
    OBVIOUS
  <2>4. /\ rec \in [Token -> {"absent", "open", "closing", "gone"}]
        /\ wire \in [Caller -> {"none", "running", "cancelling", "finished"}]
        /\ victims \in [Token -> SUBSET Caller]
    OBVIOUS
  <2> QED
    BY <2>1, <2>2, <2>3, <2>4 DEF TypeOK
<1>2. Places /\ Counters /\ InsideExcludes
  BY DEF Places, Counters, InsideExcludes
<1>3. InterruptExcludes /\ Closed
  BY DEF InterruptExcludes, Closed
<1> QED
  BY <1>1, <1>2, <1>3 DEF GateInv

\* A caller that finds the gate free takes it once, for itself.
LEMMA InvokeFreeKeeps ==
    ASSUME GateInv, NEW c \in Caller, NEW t \in Token, NEW x \in BOOLEAN,
           InvokeFree(c, t, x)
    PROVE  GateInv'
<1> USE ConstantsAssumption DEF ConstantsAssumption, GateInv, InvokeFree,
        Admitted, GateFree, TakeGate, Enter, StartWire
<1>1. TypeOK'
  BY DEF TypeOK
<1>2. Places'
  BY DEF TypeOK, Places
<1>3. Counters'
  BY DEF TypeOK, Counters
<1>4. InsideExcludes'
  BY DEF TypeOK, Places, Counters, InsideExcludes
<1>5. InterruptExcludes'
  BY DEF TypeOK, Places, Counters, InterruptExcludes
<1>6. Closed'
  BY DEF TypeOK, Closed
<1> QED
  BY <1>1, <1>2, <1>3, <1>4, <1>5, <1>6

\* A caller that queues owes the gate nothing yet.
LEMMA InvokeQueueKeeps ==
    ASSUME GateInv, NEW c \in Caller, NEW t \in Token, NEW x \in BOOLEAN,
           InvokeQueue(c, t, x)
    PROVE  GateInv'
<1> USE ConstantsAssumption DEF ConstantsAssumption, GateInv, InvokeQueue,
        Admitted, GateFree, JoinQueue
<1>1. TypeOK'
  BY DEF TypeOK
<1>2. Places'
  BY DEF TypeOK, Places
<1>3. Counters'
  BY DEF TypeOK, Counters
<1>4. InsideExcludes'
  BY DEF TypeOK, InsideExcludes
<1>5. InterruptExcludes'
  BY DEF TypeOK, InterruptExcludes
<1>6. Closed'
  BY DEF TypeOK, Closed
<1> QED
  BY <1>1, <1>2, <1>3, <1>4, <1>5, <1>6

\* The head of the queue takes a free gate, or gives it back in the same step.
LEMMA GrantedKeeps ==
    ASSUME GateInv, NEW c \in Caller, Granted(c)
    PROVE  GateInv'
<1> USE ConstantsAssumption DEF ConstantsAssumption, GateInv, Granted,
        Admitted, TakeGate, Enter, StartWire
<1>1. 1 \in DOMAIN queue
  BY EmptySeq, LenProperties DEF TypeOK
<1>2. queue' \in Seq(Proc) /\ waiters' \in Int /\ counted' \subseteq Proc
  BY <1>1, LeaveQueueType DEF TypeOK
<1>3. depth' \in Nat /\ holds' \in Nat
  BY DEF TypeOK
<1>4. locked' \in BOOLEAN /\ gateOwner' \in Proc \cup {NoOne}
  BY DEF TypeOK
<1>5. pc' \in [Proc -> {"idle", "queued", "body", "wire",
                        "begun", "terminal", "gathering"}]
  BY DEF TypeOK
<1>6. /\ wire' \in [Caller -> {"none", "running", "cancelling", "finished"}]
      /\ wtok' \in [Caller -> Token \cup {NoOne}]
  BY DEF TypeOK, Places
<1>7. TypeOK'
  BY <1>2, <1>3, <1>4, <1>5, <1>6 DEF TypeOK
<1>8. Places'
  BY DEF TypeOK, Places
<1>9. Counters'
  BY DEF TypeOK, Counters
<1>10. InsideExcludes'
  BY DEF TypeOK, Places, Counters, InsideExcludes
<1>11. InterruptExcludes'
  BY DEF TypeOK, Places, Counters, InterruptExcludes
<1>12. Closed'
  BY DEF TypeOK, Closed
<1> QED
  BY <1>7, <1>8, <1>9, <1>10, <1>11, <1>12

\* An expired wait leaves the queue and its count together.
LEMMA WaitTimeoutKeeps ==
    ASSUME GateInv, NEW c \in Caller, WaitTimeout(c)
    PROVE  GateInv'
<1> USE ConstantsAssumption DEF ConstantsAssumption, GateInv, WaitTimeout
<1>1. queue' \in Seq(Proc) /\ waiters' \in Int /\ counted' \subseteq Proc
  BY LeaveQueueType DEF TypeOK
<1>2. TypeOK'
  BY <1>1 DEF TypeOK
<1>3. Places'
  BY DEF TypeOK, Places
<1>4. Counters'
  BY DEF TypeOK, Counters
<1>5. InsideExcludes'
  BY DEF TypeOK, InsideExcludes
<1>6. InterruptExcludes'
  BY DEF TypeOK, InterruptExcludes
<1>7. Closed'
  BY DEF TypeOK, Closed
<1> QED
  BY <1>2, <1>3, <1>4, <1>5, <1>6, <1>7

\* So does a cancelled wait, counted or not.
LEMMA CancelQueuedKeeps ==
    ASSUME GateInv, NEW c \in Caller, CancelQueued(c)
    PROVE  GateInv'
<1> USE ConstantsAssumption DEF ConstantsAssumption, GateInv, CancelQueued
<1>1. queue' \in Seq(Proc) /\ waiters' \in Int /\ counted' \subseteq Proc
  BY LeaveQueueType DEF TypeOK
<1>2. TypeOK'
  BY <1>1 DEF TypeOK
<1>3. Places'
  BY DEF TypeOK, Places
<1>4. Counters'
  BY DEF TypeOK, Counters
<1>5. InsideExcludes'
  BY DEF TypeOK, InsideExcludes
<1>6. InterruptExcludes'
  BY DEF TypeOK, InterruptExcludes
<1>7. Closed'
  BY DEF TypeOK, Closed
<1> QED
  BY <1>2, <1>3, <1>4, <1>5, <1>6, <1>7

\* Re-entry nests one level deeper for the owner of the gate.
LEMMA NestedInvokeKeeps ==
    ASSUME GateInv, NEW c \in Caller, NestedInvoke(c)
    PROVE  GateInv'
<1> USE ConstantsAssumption DEF ConstantsAssumption, GateInv, NestedInvoke,
        Admitted, StartWire
<1>1. txn[c] /\ depth = 1 /\ \A d \in Caller : ~Wired(d)
  BY DEF TypeOK, Places, Counters, InsideExcludes
<1>2. TypeOK'
  BY DEF TypeOK
<1>3. Places'
  BY DEF TypeOK, Places
<1>4. Counters'
  BY <1>1 DEF TypeOK, Places, Counters, InsideExcludes, InterruptExcludes,
      Closed
<1>5. InsideExcludes'
  BY DEF TypeOK, Places, Counters, InsideExcludes
<1>6. InterruptExcludes'
  BY DEF TypeOK, Places, Counters, InsideExcludes, InterruptExcludes, Closed
<1>7. Closed'
  BY DEF TypeOK, Closed
<1> QED
  BY <1>2, <1>3, <1>4, <1>5, <1>6, <1>7

\* The end of a transaction gives back the one level it took.
LEMMA LeaveTransactionKeeps ==
    ASSUME GateInv, NEW c \in Caller, LeaveTransaction(c)
    PROVE  GateInv'
<1> USE ConstantsAssumption DEF ConstantsAssumption, GateInv,
        LeaveTransaction, SettleGate
<1>1. depth = 1
  BY DEF TypeOK, Places, Counters
<1>2. depth' \in Nat
  BY <1>1 DEF TypeOK
<1>3. holds' \in Nat
  BY <1>1 DEF TypeOK
<1>4. locked' \in BOOLEAN /\ gateOwner' \in Proc \cup {NoOne}
  BY DEF TypeOK
<1>5. TypeOK'
  BY <1>2, <1>3, <1>4 DEF TypeOK
<1>6. Places'
  BY DEF TypeOK, Places
<1>7. Counters'
  BY DEF TypeOK, Counters
<1>8. InsideExcludes'
  BY DEF TypeOK, InsideExcludes
<1>9. InterruptExcludes'
  BY DEF TypeOK, InterruptExcludes
<1>10. Closed'
  BY DEF TypeOK, Closed
<1> QED
  BY <1>5, <1>6, <1>7, <1>8, <1>9, <1>10

\* A caller whose wire task is over gives back what it took.
LEMMA ResumeKeeps ==
    ASSUME GateInv, NEW c \in Caller, Resume(c)
    PROVE  GateInv'
<1> USE ConstantsAssumption DEF ConstantsAssumption, GateInv, Resume, Unwind,
        SettleGate
<1>1. depth = IF txn[c] THEN 2 ELSE 1
  BY DEF TypeOK, Places, Counters
<1>2. depth' \in Nat
  BY <1>1 DEF TypeOK
<1>3. holds' \in Nat
  BY <1>1 DEF TypeOK
<1>4. locked' \in BOOLEAN /\ gateOwner' \in Proc \cup {NoOne}
  BY DEF TypeOK
<1>5. TypeOK'
  BY <1>2, <1>3, <1>4 DEF TypeOK
<1>6. Places'
  BY DEF TypeOK, Places
<1>7. Counters'
  BY DEF TypeOK, Counters
<1>8. InsideExcludes'
  BY DEF TypeOK, InsideExcludes
<1>9. InterruptExcludes'
  BY DEF TypeOK, InterruptExcludes
<1>10. Closed'
  BY DEF TypeOK, Closed
<1> QED
  BY <1>5, <1>6, <1>7, <1>8, <1>9, <1>10

\* A cancelled caller leaves the gate held by its running wire task.
LEMMA CancelCallerKeeps ==
    ASSUME GateInv, NEW c \in Caller, CancelCaller(c)
    PROVE  GateInv'
<1> USE ConstantsAssumption DEF ConstantsAssumption, GateInv, CancelCaller,
        Unwind, SettleGate
<1>1. depth = IF txn[c] THEN 2 ELSE 1
  BY DEF TypeOK, Places, Counters
<1>2. depth' \in Nat
  BY <1>1 DEF TypeOK
<1>3. holds' \in Nat
  BY <1>1 DEF TypeOK
<1>4. locked' \in BOOLEAN /\ gateOwner' \in Proc \cup {NoOne}
  BY DEF TypeOK
<1>5. TypeOK'
  BY <1>2, <1>3, <1>4 DEF TypeOK
<1>6. Places'
  BY DEF TypeOK, Places
<1>7. Counters'
  BY DEF TypeOK, Counters
<1>8. InsideExcludes'
  BY DEF TypeOK, InsideExcludes
<1>9. InterruptExcludes'
  BY DEF TypeOK, InterruptExcludes
<1>10. Closed'
  BY DEF TypeOK, Closed
<1> QED
  BY <1>5, <1>6, <1>7, <1>8, <1>9, <1>10

\* A finished wire task still holds the gate until its callbacks run.
LEMMA WireFinishKeeps ==
    ASSUME GateInv, NEW c \in Caller, WireFinish(c)
    PROVE  GateInv'
<1> USE ConstantsAssumption DEF ConstantsAssumption, GateInv, WireFinish
<1>1. TypeOK'
  BY DEF TypeOK
<1>2. Places'
  BY DEF TypeOK, Places
<1>3. Counters'
  BY DEF TypeOK, Counters
<1>4. InsideExcludes'
  BY DEF TypeOK, InsideExcludes
<1>5. InterruptExcludes'
  BY DEF TypeOK, InterruptExcludes
<1>6. Closed'
  BY DEF TypeOK, Closed
<1> QED
  BY <1>1, <1>2, <1>3, <1>4, <1>5, <1>6

\* The callbacks give back the one hold of their wire task.
LEMMA WireCallbacksKeeps ==
    ASSUME GateInv, NEW c \in Caller, WireCallbacks(c)
    PROVE  GateInv'
<1> USE ConstantsAssumption DEF ConstantsAssumption, GateInv, WireCallbacks,
        SettleGate
<1>1. Wired(c) /\ holds > 0
  BY DEF TypeOK, Counters
<1>2. depth' \in Nat
  BY <1>1 DEF TypeOK
<1>3. holds' \in Nat
  BY <1>1 DEF TypeOK
<1>4. locked' \in BOOLEAN /\ gateOwner' \in Proc \cup {NoOne}
  BY DEF TypeOK
<1>5. TypeOK'
  BY <1>2, <1>3, <1>4 DEF TypeOK
<1>6. Places'
  BY DEF TypeOK, Places
<1>7. Counters'
  BY DEF TypeOK, Counters
<1>8. InsideExcludes'
  BY DEF TypeOK, InsideExcludes
<1>9. InterruptExcludes'
  BY DEF TypeOK, InterruptExcludes
<1>10. Closed'
  BY DEF TypeOK, Closed
<1> QED
  BY <1>5, <1>6, <1>7, <1>8, <1>9, <1>10

\* A new record touches no task.
LEMMA AddCapabilityKeeps ==
    ASSUME GateInv, NEW t \in Token, AddCapability(t)
    PROVE  GateInv'
<1> USE ConstantsAssumption DEF ConstantsAssumption, GateInv, AddCapability
<1>1. TypeOK'
  BY DEF TypeOK
<1>2. Places'
  BY DEF TypeOK, Places
<1>3. Counters'
  BY DEF TypeOK, Counters
<1>4. InsideExcludes'
  BY DEF TypeOK, InsideExcludes
<1>5. InterruptExcludes'
  BY DEF TypeOK, InterruptExcludes
<1>6. Closed'
  BY DEF TypeOK, Closed
<1> QED
  BY <1>1, <1>2, <1>3, <1>4, <1>5, <1>6

\* Closing the admission touches no task.
LEMMA BeginShutdownKeeps ==
    ASSUME GateInv, NEW t \in Token, BeginShutdown(t)
    PROVE  GateInv'
<1> USE ConstantsAssumption DEF ConstantsAssumption, GateInv, BeginShutdown,
        CloseAdmission, AllClosing
<1>1. TypeOK'
  BY DEF TypeOK
<1>2. Places'
  BY DEF TypeOK, Places
<1>3. Counters'
  BY DEF TypeOK, Counters
<1>4. InsideExcludes'
  BY DEF TypeOK, InsideExcludes
<1>5. InterruptExcludes'
  BY DEF TypeOK, InterruptExcludes
<1>6. Closed'
  BY DEF TypeOK, Closed
<1> QED
  BY <1>1, <1>2, <1>3, <1>4, <1>5, <1>6

\* Creating the shutdown task takes nothing of the gate.
LEMMA AsyncShutdownKeeps ==
    ASSUME GateInv, NEW t \in Token, AsyncShutdown(t)
    PROVE  GateInv'
<1> USE ConstantsAssumption DEF ConstantsAssumption, GateInv, AsyncShutdown,
        CloseAdmission, AllClosing, Retained
<1>1. TypeOK'
  BY DEF TypeOK
<1>2. Places'
  BY DEF TypeOK, Places
<1>3. Counters'
  BY DEF TypeOK, Counters
<1>4. InsideExcludes'
  BY DEF TypeOK, InsideExcludes
<1>5. InterruptExcludes'
  BY DEF TypeOK, InterruptExcludes
<1>6. Closed'
  BY DEF TypeOK, Closed
<1> QED
  BY <1>1, <1>2, <1>3, <1>4, <1>5, <1>6

\* A shutdown whose record is gone leaves as it came.
LEMMA ShutdownNothingKeeps ==
    ASSUME GateInv, NEW t \in Token, ShutdownNothing(t)
    PROVE  GateInv'
<1> USE ConstantsAssumption DEF ConstantsAssumption, GateInv, ShutdownNothing,
        Retained
<1>1. TypeOK'
  BY DEF TypeOK
<1>2. Places'
  BY DEF TypeOK, Places
<1>3. Counters'
  BY DEF TypeOK, Counters
<1>4. InsideExcludes'
  BY DEF TypeOK, InsideExcludes
<1>5. InterruptExcludes'
  BY DEF TypeOK, InterruptExcludes
<1>6. Closed'
  BY DEF TypeOK, Closed
<1> QED
  BY <1>1, <1>2, <1>3, <1>4, <1>5, <1>6

\* An interrupting shutdown adds a hold to a gate that is locked.
LEMMA ShutdownInterruptKeeps ==
    ASSUME GateInv, NEW t \in Token, ShutdownInterrupt(t)
    PROVE  GateInv'
<1> USE ConstantsAssumption DEF ConstantsAssumption, GateInv,
        ShutdownInterrupt, CloseAdmission, AllClosing, Retained, OwnWires
<1>1. TypeOK'
  BY DEF TypeOK
<1>2. Places'
  BY DEF TypeOK, Places
<1>3. Counters'
  BY DEF TypeOK, Places, Counters, InsideExcludes, InterruptExcludes, Closed
<1>4. InsideExcludes'
  BY DEF TypeOK, InsideExcludes
<1>5. InterruptExcludes'
  BY DEF TypeOK, Places, Counters, InsideExcludes, InterruptExcludes
<1>6. Closed'
  BY DEF TypeOK, Closed
<1> QED
  BY <1>1, <1>2, <1>3, <1>4, <1>5, <1>6

\* A shutdown takes a free gate or queues for it.
LEMMA ShutdownAcquireKeeps ==
    ASSUME GateInv, NEW t \in Token, ShutdownAcquire(t)
    PROVE  GateInv'
<1> USE ConstantsAssumption DEF ConstantsAssumption, GateInv, ShutdownAcquire,
        CloseAdmission, AllClosing, Retained, OwnWires, GateFree, TakeGate,
        JoinQueue
<1>1. queue' \in Seq(Proc)
  <2>1. CASE GateFree
    BY <2>1 DEF TypeOK
  <2>2. CASE ~GateFree
    <3>1. queue' = Append(queue, t) /\ t \in Proc
      BY <2>2
    <3> QED
      BY <3>1, AppendProperties DEF TypeOK
  <2> QED
    BY <2>1, <2>2
<1>2. waiters' \in Int /\ counted' \subseteq Proc
  BY DEF TypeOK
<1>3. depth' \in Nat /\ holds' \in Nat
  BY DEF TypeOK
<1>4. locked' \in BOOLEAN /\ gateOwner' \in Proc \cup {NoOne}
  BY DEF TypeOK
<1>5. pc' \in [Proc -> {"idle", "queued", "body", "wire",
                        "begun", "terminal", "gathering"}]
  BY DEF TypeOK
<1>6. TypeOK'
  BY <1>1, <1>2, <1>3, <1>4, <1>5 DEF TypeOK
<1>7. Places'
  BY DEF TypeOK, Places
<1>8. Counters'
  BY DEF TypeOK, Counters
<1>9. InsideExcludes'
  BY DEF TypeOK, Places, Counters, InsideExcludes
<1>10. InterruptExcludes'
  BY DEF TypeOK, Places, Counters, InterruptExcludes
<1>11. Closed'
  BY DEF TypeOK, Places, Counters, Closed
<1> QED
  BY <1>6, <1>7, <1>8, <1>9, <1>10, <1>11

\* A queued shutdown takes the gate when it is free.
LEMMA ShutdownGrantedKeeps ==
    ASSUME GateInv, NEW t \in Token, ShutdownGranted(t)
    PROVE  GateInv'
<1> USE ConstantsAssumption DEF ConstantsAssumption, GateInv, ShutdownGranted,
        TakeGate
<1>1. 1 \in DOMAIN queue
  BY EmptySeq, LenProperties DEF TypeOK
<1>2. queue' \in Seq(Proc) /\ waiters' \in Int /\ counted' \subseteq Proc
  BY <1>1, LeaveQueueType DEF TypeOK
<1>3. TypeOK'
  BY <1>2 DEF TypeOK
<1>4. Places'
  BY DEF TypeOK, Places
<1>5. Counters'
  BY DEF TypeOK, Counters
<1>6. InsideExcludes'
  BY DEF TypeOK, Places, Counters, InsideExcludes
<1>7. InterruptExcludes'
  BY DEF TypeOK, Places, Counters, InterruptExcludes
<1>8. Closed'
  BY DEF TypeOK, Closed
<1> QED
  BY <1>3, <1>4, <1>5, <1>6, <1>7, <1>8

\* A shutdown gives back its hold or its level, whether it closed or failed.
LEMMA TerminalEndKeeps ==
    ASSUME GateInv, NEW t \in Token, TerminalEnd(t)
    PROVE  GateInv'
<1> USE ConstantsAssumption DEF ConstantsAssumption, GateInv, TerminalEnd,
        Conclude, SettleGate, StateOf
<1>1. IF t \in interrupting THEN holds > 0 ELSE depth = 1
  BY DEF TypeOK, Counters
<1>2. depth' \in Nat
  BY <1>1 DEF TypeOK
<1>3. holds' \in Nat
  BY <1>1 DEF TypeOK
<1>4. locked' \in BOOLEAN /\ gateOwner' \in Proc \cup {NoOne}
  BY DEF TypeOK
<1>5. TypeOK'
  BY <1>2, <1>3, <1>4 DEF TypeOK
<1>6. Places'
  BY DEF TypeOK, Places
<1>7. Counters'
  BY DEF TypeOK, Counters
<1>8. InsideExcludes'
  BY DEF TypeOK, InsideExcludes
<1>9. InterruptExcludes'
  BY DEF TypeOK, InterruptExcludes
<1>10. Closed'
  BY DEF TypeOK, Places, Counters, InsideExcludes, InterruptExcludes, Closed
<1> QED
  BY <1>5, <1>6, <1>7, <1>8, <1>9, <1>10

\* Cancelling the wire tasks opens no gate.
LEMMA TerminalCancelKeeps ==
    ASSUME GateInv, NEW t \in Token, TerminalCancel(t)
    PROVE  GateInv'
<1> USE ConstantsAssumption DEF ConstantsAssumption, GateInv, TerminalCancel
<1>1. TypeOK'
  BY DEF TypeOK
<1>2. Places'
  BY DEF TypeOK, Places
<1>3. Counters'
  BY DEF TypeOK, Counters
<1>4. InsideExcludes'
  BY DEF TypeOK, InsideExcludes
<1>5. InterruptExcludes'
  BY DEF TypeOK, InterruptExcludes
<1>6. Closed'
  BY DEF TypeOK, Closed
<1> QED
  BY <1>1, <1>2, <1>3, <1>4, <1>5, <1>6

\* A shutdown that collected its wire tasks gives back what it took.
LEMMA GatheredKeeps ==
    ASSUME GateInv, NEW t \in Token, Gathered(t)
    PROVE  GateInv'
<1> USE ConstantsAssumption DEF ConstantsAssumption, GateInv, Gathered,
        Conclude, SettleGate, StateOf
<1>1. IF t \in interrupting THEN holds > 0 ELSE depth = 1
  BY DEF TypeOK, Counters
<1>2. depth' \in Nat
  BY <1>1 DEF TypeOK
<1>3. holds' \in Nat
  BY <1>1 DEF TypeOK
<1>4. locked' \in BOOLEAN /\ gateOwner' \in Proc \cup {NoOne}
  BY DEF TypeOK
<1>5. TypeOK'
  BY <1>2, <1>3, <1>4 DEF TypeOK
<1>6. Places'
  BY DEF TypeOK, Places
<1>7. Counters'
  BY DEF TypeOK, Counters
<1>8. InsideExcludes'
  BY DEF TypeOK, InsideExcludes
<1>9. InterruptExcludes'
  BY DEF TypeOK, InterruptExcludes
<1>10. Closed'
  BY DEF TypeOK, Places, Counters, InsideExcludes, InterruptExcludes, Closed
<1> QED
  BY <1>5, <1>6, <1>7, <1>8, <1>9, <1>10

\* A forced release touches no task.
LEMMA ForceReleaseKeeps ==
    ASSUME GateInv, NEW t \in Token, ForceRelease(t)
    PROVE  GateInv'
<1> USE ConstantsAssumption DEF ConstantsAssumption, GateInv, ForceRelease,
        StateOf
<1>1. TypeOK'
  BY DEF TypeOK
<1>2. Places'
  BY DEF TypeOK, Places
<1>3. Counters'
  BY DEF TypeOK, Counters
<1>4. InsideExcludes'
  BY DEF TypeOK, InsideExcludes
<1>5. InterruptExcludes'
  BY DEF TypeOK, InterruptExcludes
<1>6. Closed'
  BY DEF TypeOK, Closed
<1> QED
  BY <1>1, <1>2, <1>3, <1>4, <1>5, <1>6

\* Every step keeps the invariant.
LEMMA StepKeepsGate == GateInv /\ [Next]_vars => GateInv'
<1> SUFFICES ASSUME GateInv, [Next]_vars PROVE GateInv'
  OBVIOUS
<1>1. ASSUME NEW c \in Caller, CallerStep(c) PROVE GateInv'
  BY <1>1, InvokeFreeKeeps, InvokeQueueKeeps, GrantedKeeps, WaitTimeoutKeeps,
      CancelQueuedKeeps, NestedInvokeKeeps, LeaveTransactionKeeps,
      ResumeKeeps, CancelCallerKeeps DEF CallerStep
<1>2. ASSUME NEW c \in Caller, WireStep(c) PROVE GateInv'
  BY <1>2, WireFinishKeeps, WireCallbacksKeeps DEF WireStep
<1>3. ASSUME NEW t \in Token, AddCapability(t) PROVE GateInv'
  BY <1>3, AddCapabilityKeeps
<1>4. ASSUME NEW t \in Token, ShutdownStep(t) PROVE GateInv'
  BY <1>4, BeginShutdownKeeps, AsyncShutdownKeeps, ShutdownNothingKeeps,
      ShutdownInterruptKeeps, ShutdownAcquireKeeps, ShutdownGrantedKeeps,
      TerminalEndKeeps, TerminalCancelKeeps, GatheredKeeps, ForceReleaseKeeps
      DEF ShutdownStep
<1>5. CASE UNCHANGED vars
  <2>1. TypeOK' /\ Places' /\ Counters'
    BY <1>5 DEF GateInv, vars, TypeOK, Places, Counters
  <2>2. InsideExcludes' /\ InterruptExcludes' /\ Closed'
    BY <1>5 DEF GateInv, vars, InsideExcludes, InterruptExcludes, Closed
  <2> QED
    BY <2>1, <2>2 DEF GateInv
<1> QED
  BY <1>1, <1>2, <1>3, <1>4, <1>5 DEF Next

\* The gate's counters mean what they should at every moment: the invariant
\* the other theorems follow from.
THEOREM GateAlways == Spec => []GateInv
  BY InitGate, StepKeepsGate, PTL DEF Spec

\* Every variable keeps its type, so no release ever takes _depth or
\* _wire_holds below zero.
THEOREM TypeCorrect == Spec => []TypeOK
<1>1. GateInv => TypeOK
  BY DEF GateInv
<1> QED
  BY <1>1, GateAlways, PTL

\* The wire carries one operation at a time, and a terminal close overlaps
\* none but its own capability's, for any number of callers and sharers.
THEOREM WireAlwaysExclusive == Spec => []WireExclusive
<1>1. ASSUME GateInv PROVE WireExclusive
  <2> USE <1>1, ConstantsAssumption
      DEF GateInv, ConstantsAssumption, OnWire, Terminal
  <2>1. ASSUME NEW c \in Caller, NEW d \in Caller, OnWire(c), OnWire(d)
        PROVE  c = d
    BY <2>1 DEF Counters
  <2>2. ASSUME NEW t \in Token, NEW u \in Token, Terminal(t), Terminal(u)
        PROVE  t = u
    BY <2>2 DEF TypeOK, Counters, InterruptExcludes
  <2>3. ASSUME NEW c \in Caller, NEW t \in Token, OnWire(c), Terminal(t)
        PROVE  wtok[c] = t
    BY <2>3 DEF InsideExcludes, InterruptExcludes
  <2> QED
    BY <2>1, <2>2, <2>3 DEF WireExclusive
<1> QED
  BY <1>1, GateAlways, PTL

\* The lock is held exactly while something is inside, and the depth is what
\* the one task inside owes: no cancellation or interrupt leaks the gate.
THEOREM GateNeverLeaks == Spec => []GateAccounting
<1>1. ASSUME GateInv PROVE GateAccounting
  <2> USE <1>1, ConstantsAssumption DEF GateInv, ConstantsAssumption
  <2>1. depth > 0 <=> \E p \in Proc : Owes(p) > 0
    BY DEF TypeOK, Counters
  <2>2. holds > 0 <=> (\E c \in Caller : Wired(c)) \/ interrupting # {}
    BY DEF TypeOK, Counters
  <2>3. \A p \in Proc : Owes(p) > 0 => Owes(p) = depth /\ gateOwner = p
    BY DEF TypeOK, Counters
  <2> QED
    BY <2>1, <2>2, <2>3 DEF Counters, GateAccounting
<1> QED
  BY <1>1, GateAlways, PTL

\* A dropped record has nothing on the wire, whether its shutdown succeeded
\* or force_release_capabilities took it.
THEOREM NothingLeftOnWire == Spec => []NothingAfterRelease
<1>1. GateInv => NothingAfterRelease
  BY DEF GateInv, Closed, NothingAfterRelease, OnWire
<1> QED
  BY <1>1, GateAlways, PTL

-----------------------------------------------------------------------------
(* The places in the queue and their count.                                *)

\* Each queued task is in the queue once; those that joined behind a held
\* lock are counted, the callers among them up to the limit.
WaitInv ==
    /\ queue \in Seq(Proc)
    /\ \A i, j \in DOMAIN queue : queue[i] = queue[j] => i = j
    /\ \A p \in Proc : pc[p] = "queued" <=> \E i \in DOMAIN queue : queue[i] = p
    /\ \A p \in counted : p \in Proc /\ pc[p] = "queued"
    /\ IsFiniteSet(counted)
    /\ waiters = Cardinality(counted)
    /\ Cardinality(counted \cap Caller) <= MaxWaiters

\* What a step does to the queue: nothing, or one task joins, or one leaves.
SameElsewhere(p) == \A r \in Proc \ {p} : pc'[r] = "queued" <=> pc[r] = "queued"

QueueRests ==
    /\ UNCHANGED <<queue, waiters, counted>>
    /\ \A r \in Proc : pc'[r] = "queued" <=> pc[r] = "queued"

Joins(p) ==
    /\ p \in Proc /\ pc[p] # "queued" /\ pc'[p] = "queued"
    /\ p \in Caller => (locked => waiters < MaxWaiters)
    /\ JoinQueue(p)
    /\ SameElsewhere(p)

Leaves(p) ==
    /\ p \in Proc /\ pc[p] = "queued" /\ pc'[p] # "queued"
    /\ \E i \in DOMAIN queue : LeaveQueue(p, i)
    /\ SameElsewhere(p)

\* RemoveAt takes one element out of a sequence and leaves the others.
LEMMA RemoveAtProperties ==
    ASSUME NEW S, NEW q \in Seq(S), NEW i \in DOMAIN q
    PROVE  /\ RemoveAt(q, i) \in Seq(S)
           /\ DOMAIN RemoveAt(q, i) = 1 .. Len(q) - 1
           /\ \A j \in 1 .. Len(q) - 1 :
                RemoveAt(q, i)[j] = IF j < i THEN q[j] ELSE q[j + 1]
<1>1. /\ Len(q) \in Nat /\ DOMAIN q = 1 .. Len(q) /\ i \in 1 .. Len(q)
      /\ \A j \in 1 .. Len(q) : q[j] \in S
  BY LenProperties
<1> DEFINE l == SubSeq(q, 1, i - 1)
           r == SubSeq(q, i + 1, Len(q))
<1>2. /\ l \in Seq(S) /\ Len(l) = i - 1
      /\ \A j \in 1 .. i - 1 : l[j] = q[j]
  <2>1. \A j \in 1 .. i - 1 : q[j] \in S
    BY <1>1
  <2>2. /\ l \in Seq(S) /\ Len(l) = IF 1 <= i - 1 THEN (i - 1) - 1 + 1 ELSE 0
        /\ \A j \in 1 .. (i - 1) - 1 + 1 : l[j] = q[1 + j - 1]
    BY <1>1, <2>1, SubSeqProperties
  <2> QED
    BY <1>1, <2>2
<1>3. /\ r \in Seq(S) /\ Len(r) = Len(q) - i
      /\ \A j \in 1 .. Len(q) - i : r[j] = q[i + j]
  <2>1. \A j \in i + 1 .. Len(q) : q[j] \in S
    BY <1>1
  <2>2. /\ r \in Seq(S) /\ Len(r) = IF i + 1 <= Len(q) THEN Len(q) - (i + 1) + 1 ELSE 0
        /\ \A j \in 1 .. Len(q) - (i + 1) + 1 : r[j] = q[(i + 1) + j - 1]
    BY <1>1, <2>1, SubSeqProperties
  <2> QED
    BY <1>1, <2>2
<1>4. RemoveAt(q, i) = l \o r
  BY DEF RemoveAt
<1> HIDE DEF l, r
<1>5. /\ l \o r \in Seq(S) /\ Len(l \o r) = Len(l) + Len(r)
      /\ \A j \in 1 .. Len(l) + Len(r) :
            (l \o r)[j] = IF j <= Len(l) THEN l[j] ELSE r[j - Len(l)]
  BY <1>2, <1>3, ConcatProperties
<1>6. DOMAIN (l \o r) = 1 .. Len(q) - 1
  <2>1. Len(l \o r) = Len(q) - 1
    BY <1>1, <1>2, <1>3, <1>5
  <2>2. DOMAIN (l \o r) = 1 .. Len(l \o r)
    BY <1>5, LenProperties
  <2> QED
    BY <2>1, <2>2
<1>7. ASSUME NEW j \in 1 .. Len(q) - 1
      PROVE  (l \o r)[j] = IF j < i THEN q[j] ELSE q[j + 1]
  <2>1. CASE j < i
    BY <1>1, <1>2, <1>3, <1>5, <2>1
  <2>2. CASE ~(j < i)
    <3>1. j - (i - 1) \in 1 .. Len(q) - i /\ i + (j - (i - 1)) = j + 1
      BY <1>1, <2>2
    <3>2. (l \o r)[j] = r[j - (i - 1)]
      BY <1>1, <1>2, <1>3, <1>5, <2>2
    <3> QED
      BY <1>3, <2>2, <3>1, <3>2
  <2> QED
    BY <2>1, <2>2
<1> QED
  BY <1>4, <1>5, <1>6, <1>7

\* A step that leaves the queue as it is.
LEMMA RestKeepsPlaces ==
    ASSUME WaitInv, QueueRests
    PROVE  WaitInv'
BY DEF WaitInv, QueueRests

LEMMA JoinKeepsPlaces ==
    ASSUME WaitInv, NEW p \in Proc, Joins(p)
    PROVE  WaitInv'
<1>1. /\ queue' = Append(queue, p) /\ Len(queue) \in Nat /\ DOMAIN queue = 1 .. Len(queue)
  BY LenProperties DEF Joins, JoinQueue, WaitInv
<1>2. /\ queue' \in Seq(Proc) /\ Len(queue') = Len(queue) + 1
      /\ \A i \in 1 .. Len(queue) : queue'[i] = queue[i]
      /\ queue'[Len(queue) + 1] = p
  BY <1>1, AppendProperties DEF WaitInv
<1>3. DOMAIN queue' = 1 .. Len(queue) + 1
  BY <1>2, LenProperties
<1>4. \A i \in DOMAIN queue : queue[i] # p
  BY DEF Joins, WaitInv
<1>5. \A i, j \in DOMAIN queue' : queue'[i] = queue'[j] => i = j
  BY <1>1, <1>2, <1>3, <1>4 DEF WaitInv
<1>6. \A r \in Proc : pc'[r] = "queued" <=> \E i \in DOMAIN queue' : queue'[i] = r
  <2>1. \A r \in Proc : (\E i \in DOMAIN queue' : queue'[i] = r)
                           <=> r = p \/ \E i \in DOMAIN queue : queue[i] = r
    BY <1>1, <1>2, <1>3
  <2> QED
    BY <2>1 DEF WaitInv, Joins, SameElsewhere
<1>7. p \notin counted
  BY DEF WaitInv, Joins
<1>8. CASE locked
  <2>1. counted' = counted \cup {p} /\ waiters' = waiters + 1
    BY <1>8 DEF Joins, JoinQueue
  <2>2. IsFiniteSet(counted') /\ Cardinality(counted') = Cardinality(counted) + 1
    BY <1>7, <2>1, FS_AddElement DEF WaitInv
  <2>3. Cardinality(counted' \cap Caller) <= MaxWaiters
    <3>1. CASE p \in Caller
      <4>1. /\ Cardinality(counted') <= MaxWaiters /\ Cardinality(counted') \in Nat
        BY <1>8, <2>2, <3>1, FS_CardinalityType, ConstantsAssumption
           DEF Joins, WaitInv, ConstantsAssumption
      <4>2. /\ Cardinality(counted' \cap Caller) <= Cardinality(counted')
            /\ Cardinality(counted' \cap Caller) \in Nat
        BY <2>2, FS_Subset, FS_CardinalityType
      <4> QED
        BY <4>1, <4>2, ConstantsAssumption DEF ConstantsAssumption
    <3>2. CASE p \notin Caller
      <4>1. counted' \cap Caller = counted \cap Caller
        BY <2>1, <3>2
      <4> QED
        BY <4>1 DEF WaitInv
    <3> QED
      BY <3>1, <3>2
  <2>4. \A r \in counted' : r \in Proc /\ pc'[r] = "queued"
    BY <2>1 DEF WaitInv, Joins, SameElsewhere
  <2> QED
    BY <1>2, <1>5, <1>6, <2>1, <2>2, <2>3, <2>4 DEF WaitInv
<1>9. CASE ~locked
  <2>1. counted' = counted /\ waiters' = waiters
    BY <1>9 DEF Joins, JoinQueue
  <2>2. \A r \in counted' : r \in Proc /\ pc'[r] = "queued"
    BY <2>1 DEF WaitInv, Joins, SameElsewhere
  <2> QED
    BY <1>2, <1>5, <1>6, <2>1, <2>2 DEF WaitInv
<1> QED
  BY <1>8, <1>9

LEMMA LeaveKeepsPlaces ==
    ASSUME WaitInv, NEW p \in Proc, Leaves(p)
    PROVE  WaitInv'
<1>1. PICK i \in DOMAIN queue : LeaveQueue(p, i)
  BY DEF Leaves
<1>2. /\ queue[i] = p /\ queue' = RemoveAt(queue, i) /\ counted' = counted \ {p}
      /\ waiters' = IF p \in counted THEN waiters - 1 ELSE waiters
  BY <1>1 DEF LeaveQueue
<1>3. /\ Len(queue) \in Nat /\ DOMAIN queue = 1 .. Len(queue) /\ i \in 1 .. Len(queue)
  BY LenProperties DEF WaitInv
<1>4. /\ queue' \in Seq(Proc) /\ DOMAIN queue' = 1 .. Len(queue) - 1
      /\ \A j \in 1 .. Len(queue) - 1 :
            queue'[j] = IF j < i THEN queue[j] ELSE queue[j + 1]
  BY <1>2, RemoveAtProperties DEF WaitInv
<1>5. \A j, k \in DOMAIN queue' : queue'[j] = queue'[k] => j = k
  <2> SUFFICES ASSUME NEW j \in 1 .. Len(queue) - 1, NEW k \in 1 .. Len(queue) - 1,
                      queue'[j] = queue'[k]
               PROVE  j = k
    BY <1>4
  <2> DEFINE at(n) == IF n < i THEN n ELSE n + 1
  <2>1. /\ at(j) \in DOMAIN queue /\ at(k) \in DOMAIN queue
        /\ queue'[j] = queue[at(j)] /\ queue'[k] = queue[at(k)]
    BY <1>3, <1>4
  <2> HIDE DEF at
  <2>2. at(j) = at(k)
    BY <2>1 DEF WaitInv
  <2> QED
    BY <1>3, <2>2 DEF at
<1>6. \A r \in Proc : pc'[r] = "queued" <=> \E j \in DOMAIN queue' : queue'[j] = r
  <2>1. ASSUME NEW r \in Proc
        PROVE  (\E j \in DOMAIN queue' : queue'[j] = r)
                  <=> r # p /\ \E j \in DOMAIN queue : queue[j] = r
    <3>1. ASSUME NEW j \in 1 .. Len(queue) - 1
          PROVE  queue'[j] # p /\ \E k \in DOMAIN queue : queue[k] = queue'[j]
      <4>1. CASE j < i
        BY <1>2, <1>3, <1>4, <4>1 DEF WaitInv
      <4>2. CASE ~(j < i)
        <5>1. queue'[j] = queue[j + 1] /\ j + 1 \in DOMAIN queue /\ j + 1 # i
          BY <1>3, <1>4, <4>2
        <5> QED
          BY <1>2, <5>1 DEF WaitInv
      <4> QED
        BY <4>1, <4>2
    <3>2. ASSUME NEW k \in DOMAIN queue, queue[k] = r, r # p
          PROVE  \E j \in DOMAIN queue' : queue'[j] = r
      <4>1. CASE k < i
        BY <1>3, <1>4, <3>2, <4>1
      <4>2. CASE k > i
        <5>1. k - 1 \in DOMAIN queue' /\ queue'[k - 1] = queue[(k - 1) + 1]
          BY <1>3, <1>4, <4>2
        <5> QED
          BY <1>3, <3>2, <5>1
      <4> QED
        BY <1>2, <1>3, <3>2, <4>1, <4>2
    <3> QED
      BY <1>4, <3>1, <3>2
  <2> QED
    BY <2>1 DEF WaitInv, Leaves, SameElsewhere
<1>7. /\ IsFiniteSet(counted') /\ waiters' = Cardinality(counted')
  BY <1>2, FS_RemoveElement DEF WaitInv
<1>8. Cardinality(counted' \cap Caller) <= MaxWaiters
  <2>1. IsFiniteSet(counted \cap Caller)
    BY FS_Subset DEF WaitInv
  <2>2. /\ Cardinality(counted' \cap Caller) <= Cardinality(counted \cap Caller)
        /\ Cardinality(counted' \cap Caller) \in Nat /\ Cardinality(counted \cap Caller) \in Nat
    <3>1. counted' \cap Caller \in SUBSET (counted \cap Caller)
      BY <1>2
    <3> QED
      BY <2>1, <3>1, FS_Subset, FS_CardinalityType
  <2> QED
    BY <2>2, ConstantsAssumption DEF WaitInv, ConstantsAssumption
<1>9. \A r \in counted' : r \in Proc /\ pc'[r] = "queued"
  BY <1>2 DEF WaitInv, Leaves, SameElsewhere
<1> QED
  BY <1>4, <1>5, <1>6, <1>7, <1>8, <1>9 DEF WaitInv

\* What each action does to the queue.
LEMMA CallerStepOnQueue ==
    ASSUME GateInv, WaitInv, NEW c \in Caller, CallerStep(c)
    PROVE  QueueRests \/ Joins(c) \/ Leaves(c)
<1> USE ConstantsAssumption DEF ConstantsAssumption
<1>0. pc \in [Proc -> {"idle", "queued", "body", "wire", "begun", "terminal", "gathering"}]
  BY DEF GateInv, TypeOK
<1>1. ASSUME NEW t \in Token, NEW x \in BOOLEAN, InvokeFree(c, t, x)
      PROVE  QueueRests
  BY <1>0, <1>1 DEF InvokeFree, Enter, StartWire, QueueRests
<1>2. ASSUME NEW t \in Token, NEW x \in BOOLEAN, InvokeQueue(c, t, x)
      PROVE  Joins(c)
  BY <1>0, <1>2 DEF InvokeQueue, Joins, SameElsewhere
<1>3. ASSUME Granted(c) PROVE Leaves(c)
  <2>1. 1 \in DOMAIN queue
    BY <1>3, EmptySeq, LenProperties DEF Granted, WaitInv
  <2> QED
    BY <1>0, <1>3, <2>1 DEF Granted, Enter, StartWire, Leaves, SameElsewhere
<1>4. ASSUME WaitTimeout(c) \/ CancelQueued(c) PROVE Leaves(c)
  BY <1>0, <1>4 DEF WaitTimeout, CancelQueued, Leaves, SameElsewhere
<1>5. ASSUME NestedInvoke(c) \/ LeaveTransaction(c) PROVE QueueRests
  BY <1>0, <1>5 DEF NestedInvoke, LeaveTransaction, StartWire, QueueRests
<1>6. ASSUME Resume(c) \/ CancelCaller(c) PROVE QueueRests
  BY <1>0, <1>6 DEF Resume, CancelCaller, Unwind, QueueRests
<1> QED
  BY <1>1, <1>2, <1>3, <1>4, <1>5, <1>6 DEF CallerStep

LEMMA ShutdownStepOnQueue ==
    ASSUME GateInv, WaitInv, NEW t \in Token, ShutdownStep(t)
    PROVE  QueueRests \/ Joins(t) \/ Leaves(t)
<1> USE ConstantsAssumption DEF ConstantsAssumption
<1>0. pc \in [Proc -> {"idle", "queued", "body", "wire", "begun", "terminal", "gathering"}]
  BY DEF GateInv, TypeOK
<1>1. ASSUME BeginShutdown(t) \/ AsyncShutdown(t) \/ ShutdownNothing(t) \/ ForceRelease(t)
      PROVE  QueueRests
  BY <1>0, <1>1 DEF BeginShutdown, AsyncShutdown, ShutdownNothing, ForceRelease, QueueRests
<1>2. ASSUME ShutdownInterrupt(t) \/ TerminalCancel(t) PROVE QueueRests
  BY <1>0, <1>2 DEF ShutdownInterrupt, TerminalCancel, QueueRests
<1>3. ASSUME TerminalEnd(t) \/ Gathered(t) PROVE QueueRests
  BY <1>0, <1>3 DEF TerminalEnd, Gathered, Conclude, QueueRests
<1>4. ASSUME ShutdownAcquire(t) PROVE QueueRests \/ Joins(t)
  BY <1>0, <1>4 DEF ShutdownAcquire, Joins, SameElsewhere, QueueRests
<1>5. ASSUME ShutdownGranted(t) PROVE Leaves(t)
  <2>1. 1 \in DOMAIN queue
    BY <1>5, EmptySeq, LenProperties DEF ShutdownGranted, WaitInv
  <2> QED
    BY <1>0, <1>5, <2>1 DEF ShutdownGranted, Leaves, SameElsewhere
<1> QED
  BY <1>1, <1>2, <1>3, <1>4, <1>5 DEF ShutdownStep

LEMMA StepKeepsPlaces == GateInv /\ WaitInv /\ [Next]_vars => WaitInv'
<1> SUFFICES ASSUME GateInv, WaitInv, [Next]_vars PROVE WaitInv'
  OBVIOUS
<1>1. ASSUME NEW c \in Caller, CallerStep(c) PROVE WaitInv'
  BY <1>1, CallerStepOnQueue, RestKeepsPlaces, JoinKeepsPlaces, LeaveKeepsPlaces
<1>2. ASSUME NEW c \in Caller, WireStep(c) PROVE WaitInv'
  BY <1>2, RestKeepsPlaces DEF WireStep, WireFinish, WireCallbacks, QueueRests
<1>3. ASSUME NEW t \in Token, AddCapability(t) PROVE WaitInv'
  BY <1>3, RestKeepsPlaces DEF AddCapability, QueueRests
<1>4. ASSUME NEW t \in Token, ShutdownStep(t) PROVE WaitInv'
  BY <1>4, ShutdownStepOnQueue, RestKeepsPlaces, JoinKeepsPlaces, LeaveKeepsPlaces
<1>5. CASE UNCHANGED vars
  BY <1>5, RestKeepsPlaces DEF vars, QueueRests
<1> QED
  BY <1>1, <1>2, <1>3, <1>4, <1>5 DEF Next

LEMMA InitPlaces == Init => WaitInv
<1> SUFFICES ASSUME Init PROVE WaitInv
  OBVIOUS
<1>1. queue \in Seq(Proc) /\ DOMAIN queue = {}
  BY EmptySeq DEF Init
<1>2. \A p \in Proc : pc[p] # "queued"
  BY DEF Init
<1>3. IsFiniteSet(counted) /\ Cardinality(counted) = 0 /\ waiters = 0 /\ counted = {}
  BY FS_EmptySet DEF Init
<1>4. Cardinality(counted \cap Caller) <= MaxWaiters
  <2>1. counted \cap Caller = {}
    BY <1>3
  <2> QED
    BY <2>1, FS_EmptySet, ConstantsAssumption DEF ConstantsAssumption
<1> QED
  BY <1>1, <1>2, <1>3, <1>4 DEF WaitInv

\* Every wait gives its place back, however it ends: for any number of tasks
\* and any limit, _waiters is the number of queued tasks that joined behind a
\* held lock, and the queue holds each queued task.
THEOREM WaitersAlwaysExact == Spec => []WaitersExact
<1>1. ASSUME WaitInv PROVE WaitersExact
  <2>1. counted = {p \in counted : pc[p] = "queued"}
    BY <1>1 DEF WaitInv
  <2>2. {p \in Proc : pc[p] = "queued"} = ToSet(queue)
    <3>1. \A i \in DOMAIN queue : queue[i] \in Proc
      BY <1>1, LenProperties DEF WaitInv
    <3> QED
      BY <1>1, <3>1 DEF WaitInv, ToSet
  <2> QED
    BY <1>1, <2>1, <2>2 DEF WaitInv, WaitersExact
<1>2. Spec => []WaitInv
  BY InitPlaces, StepKeepsPlaces, GateAlways, PTL DEF Spec
<1> QED
  BY <1>1, <1>2, PTL

-----------------------------------------------------------------------------
(* The owner implements EndpointBus: each step of it is a step of the bus   *)
(* or leaves the bus as it is.                                              *)

\* The wire task of a caller inside the gate is the only operation there is.
LEMMA StartIsStart ==
    ASSUME GateInv, NEW c \in Caller, NEW t \in Token,
           \A d \in Caller : ~Wired(d), \A u \in Token : ~Terminal(u),
           rec[t] = "open", rec' = rec, StartWire(c, t)
    PROVE  Bus!Start(c, t)
<1> USE ConstantsAssumption DEF ConstantsAssumption, GateInv, TypeOK
<1>1. busOps = {} /\ busEnding = {}
  BY DEF busOps, busEnding, OnWire
<1>2. \A d \in Caller : OnWire(d)' <=> d = c
  BY DEF StartWire, OnWire
<1>3. wtok'[c] = t
  BY DEF StartWire
<1>4. busOps' = {<<c, t>>}
  BY <1>2, <1>3 DEF busOps
<1>5. busEnding' = {}
  BY DEF busEnding, Terminal, StartWire
<1> QED
  BY <1>1, <1>4, <1>5 DEF Bus!Start

\* What a step that creates and ends no wire task leaves alone.
LEMMA OpsUnchanged ==
    ASSUME wtok' = wtok, \A c \in Caller : OnWire(c)' <=> OnWire(c)
    PROVE  busOps' = busOps
  BY DEF busOps

\* What a step that begins and ends no terminal close leaves alone.
LEMMA EndingUnchanged ==
    ASSUME \A t \in Token : Terminal(t)' <=> Terminal(t)
    PROVE  busEnding' = busEnding
  BY DEF busEnding

\* A caller's step starts an operation or does not touch the bus.
LEMMA CallerStepOnBus ==
    ASSUME GateInv, NEW c \in Caller, CallerStep(c)
    PROVE  (\E t \in Token : Bus!Start(c, t)) \/ UNCHANGED Bus!vars
<1> USE ConstantsAssumption DEF ConstantsAssumption, GateInv
<1>e. ASSUME pc' = [pc EXCEPT ![c] = "idle"] \/ pc' = [pc EXCEPT ![c] = "body"]
             \/ pc' = [pc EXCEPT ![c] = "wire"] \/ pc' = [pc EXCEPT ![c] = "queued"]
      PROVE  busEnding' = busEnding
  <2>1. \A t \in Token : Terminal(t)' <=> Terminal(t)
    BY <1>e DEF TypeOK, Places, Terminal
  <2> QED
    BY <2>1, EndingUnchanged
<1>w. ASSUME wire' = wire, wtok' = wtok
      PROVE  busOps' = busOps
  BY <1>w, OpsUnchanged DEF OnWire
<1>f. ASSUME ~locked
      PROVE  (\A d \in Caller : ~Wired(d)) /\ (\A u \in Token : ~Terminal(u))
  <2>1. depth = 0 /\ holds = 0
    BY <1>f DEF TypeOK, Counters
  <2>2. interrupting = {} /\ \A d \in Caller : ~Wired(d)
    BY <2>1 DEF Counters
  <2>3. \A u \in Token : Owes(u) = 0
    BY <2>1 DEF Counters
  <2> QED
    BY <2>2, <2>3 DEF Terminal
<1>1. ASSUME NEW t \in Token, NEW x \in BOOLEAN, InvokeFree(c, t, x)
      PROVE  Bus!Start(c, t) \/ UNCHANGED Bus!vars
  <2>1. CASE x
    BY <1>1, <2>1, <1>e, <1>w DEF InvokeFree, Enter, Bus!vars
  <2>2. CASE ~x
    <3>1. rec[t] = "open" /\ rec' = rec /\ StartWire(c, t)
      BY <1>1, <2>2 DEF InvokeFree, Enter, Admitted
    <3>2. ~locked
      BY <1>1 DEF InvokeFree, GateFree
    <3> QED
      BY <3>1, <3>2, <1>f, StartIsStart
  <2> QED
    BY <2>1, <2>2
<1>2. ASSUME NEW t \in Token, NEW x \in BOOLEAN, InvokeQueue(c, t, x)
      PROVE  UNCHANGED Bus!vars
  BY <1>2, <1>e, <1>w DEF InvokeQueue, Bus!vars
<1>3. ASSUME Granted(c)
      PROVE  (\E t \in Token : Bus!Start(c, t)) \/ UNCHANGED Bus!vars
  <2>1. CASE Admitted(tok[c]) /\ ~txn[c]
    <3>1. rec[tok[c]] = "open" /\ rec' = rec /\ StartWire(c, tok[c])
      BY <1>3, <2>1 DEF Granted, Enter, Admitted
    <3>2. tok[c] \in Token /\ ~locked
      BY <1>3 DEF Granted, Places
    <3> QED
      BY <3>1, <3>2, <1>f, StartIsStart
  <2>2. CASE Admitted(tok[c]) /\ txn[c]
    BY <1>3, <2>2, <1>e, <1>w DEF Granted, Enter, Bus!vars
  <2>3. CASE ~Admitted(tok[c])
    BY <1>3, <2>3, <1>e, <1>w DEF Granted, Bus!vars
  <2> QED
    BY <2>1, <2>2, <2>3
<1>4. ASSUME WaitTimeout(c) \/ CancelQueued(c)
      PROVE  UNCHANGED Bus!vars
  BY <1>4, <1>e, <1>w DEF WaitTimeout, CancelQueued, Bus!vars
<1>5. ASSUME NestedInvoke(c)
      PROVE  Bus!Start(c, tok[c]) /\ tok[c] \in Token
  <2>1. /\ tok[c] \in Token
        /\ rec[tok[c]] = "open" /\ rec' = rec /\ StartWire(c, tok[c])
    BY <1>5 DEF NestedInvoke, Admitted, Places
  <2>2. \A d \in Caller : ~Wired(d)
    BY <1>5 DEF NestedInvoke, InsideExcludes
  <2>3. ASSUME NEW u \in Token, Terminal(u) PROVE FALSE
    <3>1. Owes(c) = 1 \/ Owes(c) = 2
      BY <1>5 DEF NestedInvoke
    <3>2. CASE u \in interrupting
      BY <2>1, <3>2, <1>5 DEF InterruptExcludes, NestedInvoke, Closed
    <3>3. CASE u \notin interrupting
      BY <2>3, <3>1, <3>3 DEF Counters, Terminal
    <3> QED
      BY <3>2, <3>3
  <2> QED
    BY <2>1, <2>2, <2>3, StartIsStart
<1>6. ASSUME LeaveTransaction(c) \/ CancelCaller(c) \/ Resume(c)
      PROVE  UNCHANGED Bus!vars
  <2>1. /\ pc' = [pc EXCEPT ![c] = "idle"] \/ pc' = [pc EXCEPT ![c] = "body"]
        /\ wire' = wire /\ wtok' = wtok /\ rec' = rec
    BY <1>6 DEF LeaveTransaction, CancelCaller, Resume, Unwind
  <2> QED
    BY <2>1, <1>e, <1>w DEF Bus!vars
<1> QED
  BY <1>1, <1>2, <1>3, <1>4, <1>5, <1>6 DEF CallerStep

\* A wire task's end is the end of its operation; its callbacks are not seen.
LEMMA WireStepOnBus ==
    ASSUME GateInv, NEW c \in Caller, WireStep(c)
    PROVE  (\E t \in Token : Bus!Finish(c, t)) \/ UNCHANGED Bus!vars
<1> USE ConstantsAssumption DEF ConstantsAssumption, GateInv
<1>1. busEnding' = busEnding
  BY EndingUnchanged DEF WireStep, WireFinish, WireCallbacks, Terminal
<1>2. ASSUME WireFinish(c)
      PROVE  Bus!Finish(c, wtok[c]) /\ wtok[c] \in Token
  <2>1. OnWire(c) /\ wtok[c] \in Token
    BY <1>2 DEF WireFinish, OnWire, Places
  <2>2. \A d \in Caller : OnWire(d)' <=> OnWire(d) /\ d # c
    BY <1>2 DEF WireFinish, OnWire, TypeOK
  <2>3. wtok' = wtok
    BY <1>2 DEF WireFinish
  <2>4. <<c, wtok[c]>> \in busOps
    BY <2>1 DEF busOps
  <2>5. busOps' = busOps \ {<<c, wtok[c]>>}
    BY <2>2, <2>3 DEF busOps
  <2>6. rec' = rec
    BY <1>2 DEF WireFinish
  <2> QED
    BY <2>1, <2>4, <2>5, <2>6, <1>1 DEF Bus!Finish
<1>3. ASSUME WireCallbacks(c)
      PROVE  UNCHANGED Bus!vars
  <2>1. \A d \in Caller : OnWire(d)' <=> OnWire(d)
    BY <1>3 DEF WireCallbacks, OnWire, TypeOK
  <2>2. wtok' = wtok /\ rec' = rec
    BY <1>3 DEF WireCallbacks
  <2> QED
    BY <2>1, <2>2, <1>1, OpsUnchanged DEF Bus!vars
<1> QED
  BY <1>2, <1>3 DEF WireStep

\* A shutdown's step seals, begins or ends its capability's close, or drops
\* its record.
LEMMA ShutdownStepOnBus ==
    ASSUME GateInv, GateInv', NEW t \in Token, ShutdownStep(t)
    PROVE  \/ Bus!Seal(t) \/ Bus!BeginEnd(t) \/ Bus!End(t) \/ Bus!Drop(t)
           \/ UNCHANGED Bus!vars
<1> USE ConstantsAssumption DEF ConstantsAssumption, GateInv
<1>w. ASSUME wire' = wire, wtok' = wtok
      PROVE  busOps' = busOps
  BY <1>w, OpsUnchanged DEF OnWire
\* Admission: what CloseAdmission does to the record.
<1>s. ASSUME Retained(t), CloseAdmission(t)
      PROVE  \/ rec[t] = "open" /\ rec' = [rec EXCEPT ![t] = "closing"]
             \/ rec[t] = "closing" /\ rec' = rec
  BY <1>s DEF CloseAdmission, Retained, TypeOK
<1>1. ASSUME BeginShutdown(t) \/ AsyncShutdown(t)
      PROVE  Bus!Seal(t) \/ UNCHANGED Bus!vars
  <2>1. \/ rec[t] = "open" /\ rec' = [rec EXCEPT ![t] = "closing"]
        \/ rec[t] = "closing" /\ rec' = rec
    BY <1>1, <1>s DEF BeginShutdown, AsyncShutdown, Retained
  <2>2. busOps' = busOps
    BY <1>1, <1>w DEF BeginShutdown, AsyncShutdown
  <2>3. \A u \in Token : Terminal(u)' <=> Terminal(u)
    BY <1>1 DEF BeginShutdown, AsyncShutdown, Terminal, TypeOK
  <2> QED
    BY <2>1, <2>2, <2>3, EndingUnchanged DEF Bus!Seal, Bus!vars
\* A shutdown past its begin has closed its record, so nothing changes there.
<1>r. ASSUME pc[t] = "begun", Retained(t), CloseAdmission(t)
      PROVE  rec[t] = "closing" /\ rec' = rec
  BY <1>r, <1>s DEF Closed
<1>b. ASSUME pc' = [pc EXCEPT ![t] = "terminal"], wire' = wire, wtok' = wtok,
             rec' = rec, pc[t] # "terminal", rec[t] \in {"closing", "gone"},
             \A u \in Token : ~Terminal(u),
             \A c \in Caller : Wired(c) => wtok[c] = t
      PROVE  Bus!BeginEnd(t)
  <2>1. busEnding = {} /\ busEnding' = {t}
    BY <1>b DEF busEnding, Terminal, TypeOK
  <2>2. busOps' = busOps /\ busOps \subseteq Caller \X {t}
    BY <1>b, <1>w DEF busOps, OnWire
  <2> QED
    BY <1>b, <2>1, <2>2 DEF Bus!BeginEnd
\* A free lock means an idle endpoint.
<1>f. ASSUME ~locked
      PROVE  (\A c \in Caller : ~Wired(c)) /\ (\A u \in Token : ~Terminal(u))
  <2>1. depth = 0 /\ holds = 0
    BY <1>f DEF TypeOK, Counters
  <2>2. interrupting = {} /\ \A c \in Caller : ~Wired(c)
    BY <2>1 DEF Counters
  <2>3. \A u \in Token : Owes(u) = 0
    BY <2>1 DEF Counters
  <2> QED
    BY <2>2, <2>3 DEF Terminal
<1>2. ASSUME ShutdownNothing(t)
      PROVE  UNCHANGED Bus!vars
  <2>1. \A u \in Token : Terminal(u)' <=> Terminal(u)
    BY <1>2 DEF ShutdownNothing, Terminal, TypeOK
  <2> QED
    BY <2>1, <1>2, <1>w, EndingUnchanged DEF ShutdownNothing, Bus!vars
<1>3. ASSUME ShutdownInterrupt(t)
      PROVE  Bus!BeginEnd(t)
  <2>1. PICK c \in Caller : Wired(c) /\ wtok[c] = t
    BY <1>3 DEF ShutdownInterrupt, OwnWires
  <2>2. \A d \in Caller : Wired(d) => wtok[d] = t
    BY <2>1 DEF Counters
  <2>3. ASSUME NEW u \in Token, Terminal(u) PROVE FALSE
    <3>1. u \in interrupting
      BY <2>1, <2>3 DEF Terminal, InsideExcludes
    <3>2. u = t
      BY <2>1, <3>1 DEF InterruptExcludes
    <3> QED
      BY <1>3, <2>3, <3>2 DEF ShutdownInterrupt, Terminal
  <2>4. /\ rec[t] = "closing" /\ rec' = rec /\ pc[t] # "terminal"
        /\ pc' = [pc EXCEPT ![t] = "terminal"] /\ wire' = wire /\ wtok' = wtok
    BY <1>3, <1>r DEF ShutdownInterrupt
  <2> QED
    BY <2>2, <2>3, <2>4, <1>b
<1>4. ASSUME ShutdownAcquire(t)
      PROVE  Bus!BeginEnd(t) \/ UNCHANGED Bus!vars
  <2>1. /\ rec[t] = "closing" /\ rec' = rec /\ pc[t] = "begun"
        /\ wire' = wire /\ wtok' = wtok
    BY <1>4, <1>r DEF ShutdownAcquire
  <2>2. CASE GateFree
    <3>1. pc' = [pc EXCEPT ![t] = "terminal"] /\ ~locked
      BY <1>4, <2>2 DEF ShutdownAcquire, GateFree
    <3> QED
      BY <2>1, <3>1, <1>f, <1>b
  <2>3. CASE ~GateFree
    <3>1. pc' = [pc EXCEPT ![t] = "queued"]
      BY <1>4, <2>3 DEF ShutdownAcquire
    <3>2. \A u \in Token : Terminal(u)' <=> Terminal(u)
      BY <2>1, <3>1 DEF Terminal, TypeOK
    <3> QED
      BY <2>1, <3>2, <1>w, EndingUnchanged DEF Bus!vars
  <2> QED
    BY <2>2, <2>3
<1>5. ASSUME ShutdownGranted(t)
      PROVE  Bus!BeginEnd(t)
  <2>1. /\ pc[t] = "queued" /\ ~locked /\ rec' = rec
        /\ pc' = [pc EXCEPT ![t] = "terminal"] /\ wire' = wire /\ wtok' = wtok
    BY <1>5 DEF ShutdownGranted
  <2>2. rec[t] \in {"closing", "gone"}
    BY <2>1 DEF Closed
  <2> QED
    BY <2>1, <2>2, <1>f, <1>b
\* The end of a close: t is no longer terminal, nobody else became so.
<1>e. ASSUME pc[t] = "terminal", pc' = [pc EXCEPT ![t] = "idle"]
             \/ pc' = [pc EXCEPT ![t] = "gathering"]
      PROVE  t \in busEnding /\ busEnding' = busEnding \ {t}
  BY <1>e DEF busEnding, Terminal, TypeOK
<1>6. ASSUME TerminalEnd(t)
      PROVE  Bus!End(t)
  <2>1. pc[t] = "terminal" /\ victims[t] = {} /\ wire' = wire /\ wtok' = wtok
    BY <1>6 DEF TerminalEnd
  <2>2. t \notin interrupting
    BY <2>1 DEF InterruptExcludes
  <2>3. \A c \in Caller : ~Wired(c)
    BY <2>1, <2>2 DEF InsideExcludes
  <2>4. busOps = {}
    BY <2>3 DEF busOps, OnWire
  <2>5. pc' = [pc EXCEPT ![t] = "idle"]
    BY <1>6 DEF TerminalEnd, Conclude
  <2>6. rec' = rec \/ rec' = [rec EXCEPT ![t] = "gone"]
    BY <1>6 DEF TerminalEnd, Conclude
  <2>7. rec[t] \in {"closing", "gone"}
    BY <2>1 DEF Closed
  <2> QED
    BY <2>1, <2>4, <2>5, <2>6, <2>7, <1>e, <1>w DEF Bus!End
<1>7. ASSUME TerminalCancel(t)
      PROVE  Bus!End(t)
  <2>1. pc[t] = "terminal" /\ pc' = [pc EXCEPT ![t] = "gathering"]
    BY <1>7 DEF TerminalCancel
  <2>2. wtok' = wtok /\ rec' = rec
    BY <1>7 DEF TerminalCancel
  <2>3. \A c \in Caller : OnWire(c)' <=> OnWire(c)
    BY <1>7 DEF TerminalCancel, OnWire, TypeOK
  <2> QED
    BY <2>1, <2>2, <2>3, <1>e, OpsUnchanged DEF Bus!End
<1>8. ASSUME Gathered(t)
      PROVE  Bus!Drop(t) \/ UNCHANGED Bus!vars
  <2>1. /\ pc[t] = "gathering" /\ wire' = wire /\ wtok' = wtok
        /\ pc' = [pc EXCEPT ![t] = "idle"]
        /\ rec' = rec \/ rec' = [rec EXCEPT ![t] = "gone"]
        /\ \A c \in victims[t] : ~Wired(c)
    BY <1>8 DEF Gathered, Conclude
  <2>2. t \in interrupting /\ rec[t] \in {"closing", "gone"}
    BY <2>1 DEF Closed
  <2>3. busOps = {}
    BY <2>1, <2>2 DEF InterruptExcludes, busOps, OnWire
  <2>4. \A u \in Token : Terminal(u)' <=> Terminal(u)
    BY <2>1 DEF Terminal, TypeOK
  <2>5. CASE rec[t] = "closing" /\ rec' = [rec EXCEPT ![t] = "gone"]
    BY <2>1, <2>3, <2>4, <2>5, <1>w, EndingUnchanged DEF Bus!Drop
  <2>6. CASE rec' = rec
    BY <2>1, <2>4, <2>6, <1>w, EndingUnchanged DEF Bus!vars
  <2>7. rec[t] = "gone" => rec' = rec
    BY <2>1 DEF TypeOK
  <2> QED
    BY <2>1, <2>2, <2>5, <2>6, <2>7
<1>9. ASSUME ForceRelease(t)
      PROVE  Bus!Drop(t)
  <2>1. /\ rec[t] = "closing" /\ rec' = [rec EXCEPT ![t] = "gone"]
        /\ t \in failed /\ wire' = wire /\ wtok' = wtok /\ pc' = pc
    BY <1>9 DEF ForceRelease
  <2>2. busOps \cap (Caller \X {t}) = {}
    BY <2>1 DEF Closed, busOps, OnWire
  <2>3. busEnding' = busEnding
    BY <2>1, EndingUnchanged DEF Terminal
  <2> QED
    BY <2>1, <2>2, <2>3, <1>w DEF Bus!Drop
<1> QED
  BY <1>1, <1>2, <1>3, <1>4, <1>5, <1>6, <1>7, <1>8, <1>9 DEF ShutdownStep

\* Whatever callers, cancellations, timeouts and shutdowns do, the owner
\* gives its sharers the endpoint that EndpointBus promises.
THEOREM OwnerImplementsBus == Spec => ImplementsBus
<1>1. Init => Bus!Init
  <2>1. ASSUME Init PROVE busOps = {} /\ busEnding = {}
    BY <2>1, ConstantsAssumption
       DEF ConstantsAssumption, Init, busOps, busEnding, OnWire, Terminal
  <2> QED
    BY <2>1 DEF Init, Bus!Init
<1>2. ASSUME GateInv, GateInv', [Next]_vars
      PROVE  [Bus!Next]_(Bus!vars)
  <2>1. ASSUME NEW c \in Caller, CallerStep(c)
        PROVE  [Bus!Next]_(Bus!vars)
    BY <1>2, <2>1, CallerStepOnBus DEF Bus!Next
  <2>2. ASSUME NEW c \in Caller, WireStep(c)
        PROVE  [Bus!Next]_(Bus!vars)
    BY <1>2, <2>2, WireStepOnBus DEF Bus!Next
  <2>3. ASSUME NEW t \in Token, AddCapability(t)
        PROVE  Bus!Issue(t)
    <3>1. busOps' = busOps /\ busEnding' = busEnding
      BY <2>3, OpsUnchanged, EndingUnchanged DEF AddCapability, OnWire, Terminal
    <3> QED
      BY <2>3, <3>1 DEF AddCapability, Bus!Issue
  <2>4. ASSUME NEW t \in Token, ShutdownStep(t)
        PROVE  [Bus!Next]_(Bus!vars)
    BY <1>2, <2>4, ShutdownStepOnBus DEF Bus!Next
  <2>5. CASE UNCHANGED vars
    <3>1. busOps' = busOps /\ busEnding' = busEnding
      BY <2>5, OpsUnchanged, EndingUnchanged DEF vars, OnWire, Terminal
    <3> QED
      BY <2>5, <3>1 DEF vars, Bus!vars
  <2> QED
    BY <1>2, <2>1, <2>2, <2>3, <2>4, <2>5 DEF Next, Bus!Next
<1> QED
  BY <1>1, <1>2, GateAlways, PTL DEF Spec, ImplementsBus, Bus!Spec

=============================================================================
