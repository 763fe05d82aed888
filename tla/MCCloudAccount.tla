---------------------------- MODULE MCCloudAccount ----------------------------
(***************************************************************************)
(* What the config entries of one cloud account share: the request budget  *)
(* and the firmware request.  The two share no state, so a behaviour is    *)
(* one of one part, chosen at the start, while the other rests.            *)
(*                                                                         *)
(* Two clients of the account (or a client and its reload) with chains     *)
(* that outnumber the slots; two entries, one with two calls, so that a    *)
(* retired request can have callers of both, or two that survive it; a     *)
(* request for every call, and more.                                       *)
(***************************************************************************)
EXTENDS CloudBudget, FirmwareFlight

CONSTANTS
    k1, k2, r1, r2, r3, a1,     \* clients, chains, an authentication
    e1, e2, q1, q2, q3          \* entries, calls

Client2 == {k1, k2}
Chain3 == {r1, r2, r3}
Auth1 == {a1}
Entry2 == {e1, e2}
Call3 == {q1, q2, q3}
EntryOfCall == [q \in Call3 |-> IF q \in {q1, q2} THEN e1 ELSE e2]

VARIABLE part       \* the part whose behaviour this is

AccountInit ==
    /\ part \in {"budget", "flight"}
    /\ Init
    /\ FlightInit

AccountNext ==
    \/ part = "budget" /\ Next /\ UNCHANGED <<flightVars, part>>
    \/ part = "flight" /\ FlightNext /\ UNCHANGED <<vars, part>>

\* The firmware request is checked for safety only: it needs no fairness.
AccountSpec ==
    AccountInit /\ [][AccountNext]_<<vars, flightVars, part>> /\ Fairness

=============================================================================
