----------------------------- MODULE EndpointBus -----------------------------
(***************************************************************************)
(* What one physical endpoint promises to the devices that share it, with  *)
(* no gate, lock, queue or task in sight: the wire carries one operation   *)
(* at a time, an operation starts only through an open capability, and a   *)
(* terminal close may overlap nothing but the operations of the capability *)
(* it is closing.  EndpointOwner implements this module.                   *)
(***************************************************************************)
CONSTANTS Caller,   \* tasks that use the endpoint
          Token     \* capabilities issued on the endpoint

VARIABLES
    access,     \* access[t]: where capability t stands
    ops,        \* the operations on the wire, as <<caller, capability>>
    ending      \* the capabilities whose raw transport is being closed

vars == <<access, ops, ending>>

TypeOK ==
    /\ access \in [Token -> {"absent", "open", "closing", "gone"}]
    /\ ops \subseteq Caller \X Token
    /\ ending \subseteq Token

Init ==
    /\ access = [t \in Token |-> "absent"]
    /\ ops = {}
    /\ ending = {}

-----------------------------------------------------------------------------

Issue(t) ==
    /\ access[t] = "absent"
    /\ access' = [access EXCEPT ![t] = "open"]
    /\ UNCHANGED <<ops, ending>>

Start(c, t) ==
    /\ access[t] = "open"
    /\ ops = {}
    /\ ending = {}
    /\ ops' = {<<c, t>>}
    /\ UNCHANGED <<access, ending>>

Finish(c, t) ==
    /\ <<c, t>> \in ops
    /\ ops' = ops \ {<<c, t>>}
    /\ UNCHANGED <<access, ending>>

Seal(t) ==
    /\ access[t] = "open"
    /\ access' = [access EXCEPT ![t] = "closing"]
    /\ UNCHANGED <<ops, ending>>

BeginEnd(t) ==
    /\ access[t] \in {"closing", "gone"}
    /\ ending = {}
    /\ ops \subseteq Caller \X {t}
    /\ ending' = {t}
    /\ UNCHANGED <<access, ops>>

\* The raw transport of t is closed; with nothing of t left on the wire the
\* capability may be dropped by the same step.
End(t) ==
    /\ t \in ending
    /\ ending' = ending \ {t}
    /\ \/ UNCHANGED access
       \/ /\ access[t] \in {"closing", "gone"}
          /\ ops = {}
          /\ access' = [access EXCEPT ![t] = "gone"]
    /\ UNCHANGED ops

Drop(t) ==
    /\ access[t] = "closing"
    /\ ops \cap (Caller \X {t}) = {}
    /\ access' = [access EXCEPT ![t] = "gone"]
    /\ UNCHANGED <<ops, ending>>

Next ==
    \E t \in Token :
        \/ Issue(t)
        \/ Seal(t)
        \/ BeginEnd(t)
        \/ End(t)
        \/ Drop(t)
        \/ \E c \in Caller : Start(c, t) \/ Finish(c, t)

Spec == Init /\ [][Next]_vars

=============================================================================
