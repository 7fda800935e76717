------------------------------- MODULE Payouts -------------------------------
(***************************************************************************)
(* What a withdrawal promises the shop: money is asked for out of a pool   *)
(* that covers it, is taken out of the pool while the request waits, and is*)
(* either paid or put back in full, once.  Sales and refunds move the pool,*)
(* never a request.                                                        *)
(***************************************************************************)
EXTENDS Integers, Sequences

VARIABLES
    pool,     \* what may be asked for; negative when refunds exceed it
    requests  \* the requests, in order: their amount and status

Init ==
    /\ pool = 0
    /\ requests = <<>>

Move == requests' = requests

Ask ==
    \E a \in 1 .. pool :
        /\ pool' = pool - a
        /\ requests' = Append(requests, [amount |-> a, status |-> "pending"])

Pay(q) ==
    /\ requests[q].status = "pending"
    /\ requests' = [requests EXCEPT ![q].status = "paid"]
    /\ pool' = pool

Reject(q) ==
    /\ requests[q].status = "pending"
    /\ requests' = [requests EXCEPT ![q].status = "rejected"]
    /\ pool' = pool + requests[q].amount

Next ==
    \/ Move
    \/ Ask
    \/ \E q \in DOMAIN requests : Pay(q) \/ Reject(q)

Spec == Init /\ [][Next]_<<pool, requests>>
==============================================================================
