-------------------------------- MODULE Credits --------------------------------
(***************************************************************************)
(* What the wallets promise: a source of money is credited to one user,    *)
(* once, and only when it is due, and a balance is what its user was       *)
(* credited and never negative.                                            *)
(***************************************************************************)
EXTENDS Integers

CONSTANTS Users, NoUser, Sources, Amount,
          Holders  \* the users each source may be credited to

VARIABLES due, credited, balance

Init(initiallyDue) ==
    /\ due = initiallyDue
    /\ credited = [s \in Sources |-> NoUser]
    /\ balance = [u \in Users |-> 0]

Earn(s) ==
    /\ s \notin due
    /\ due' = due \cup {s}
    /\ UNCHANGED <<credited, balance>>

Post(s, u) ==
    /\ s \in due /\ credited[s] = NoUser
    /\ u \in Holders[s]
    /\ balance[u] + Amount[s] >= 0
    /\ credited' = [credited EXCEPT ![s] = u]
    /\ balance' = [balance EXCEPT ![u] = @ + Amount[s]]
    /\ UNCHANGED due

Next == \E s \in Sources : Earn(s) \/ \E u \in Users : Post(s, u)
================================================================================
