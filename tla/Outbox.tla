------------------------------- MODULE Outbox -------------------------------
(***************************************************************************)
(* What the two outboxes of the program promise: a stored item is pending  *)
(* until it is settled, only a pending item is handed to the carrier, it   *)
(* is settled only after a carrier took it, and it is given up only after  *)
(* more than Retries failed attempts.  Nothing says it is delivered once.  *)
(***************************************************************************)
EXTENDS Naturals

CONSTANTS
  Items,
  Retries      \* failed attempts after which an item is still tried

VARIABLES
  status,      \* "none", "pending", "settled" or "abandoned"
  deliveries,  \* times the carrier took the item
  failures     \* failed attempts

vars == <<status, deliveries, failures>>

Accept(i) ==
  /\ status[i] = "none"
  /\ status' = [status EXCEPT ![i] = "pending"]
  /\ UNCHANGED <<deliveries, failures>>

Deliver(i) ==
  /\ status[i] = "pending"
  /\ deliveries' = [deliveries EXCEPT ![i] = @ + 1]
  /\ UNCHANGED <<status, failures>>

\* an attempt that failed, as far as the sender can tell
Fail(i) ==
  /\ status[i] = "pending"
  /\ failures' = [failures EXCEPT ![i] = @ + 1]
  /\ deliveries' \in {deliveries, [deliveries EXCEPT ![i] = @ + 1]}
  /\ UNCHANGED status

Settle(i) ==
  /\ status[i] = "pending" /\ deliveries[i] > 0
  /\ status' = [status EXCEPT ![i] = "settled"]
  /\ UNCHANGED <<deliveries, failures>>

Abandon(i) ==
  /\ status[i] = "pending" /\ failures[i] > Retries
  /\ status' = [status EXCEPT ![i] = "abandoned"]
  /\ UNCHANGED <<deliveries, failures>>

Init ==
  /\ status = [i \in Items |-> "none"]
  /\ deliveries = [i \in Items |-> 0]
  /\ failures = [i \in Items |-> 0]

Next == \E i \in Items : Accept(i) \/ Deliver(i) \/ Fail(i) \/ Settle(i) \/ Abandon(i)

Spec == Init /\ [][Next]_vars
=============================================================================
