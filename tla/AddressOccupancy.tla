-------------------------- MODULE AddressOccupancy --------------------------
(***************************************************************************)
(* What leasing promises about business addresses, whatever the tables,    *)
(* transactions and isolation level behind it: an address is free or held  *)
(* by one lease, a lease takes a free address only, one address at a time, *)
(* and an address never passes from one lease to another in one step.      *)
(***************************************************************************)
CONSTANTS Addresses, LeaseIds, Nobody

VARIABLE holder  \* the lease that holds each address

Held == {holder[a] : a \in Addresses} \ {Nobody}

Init == holder = [a \in Addresses |-> Nobody]

Take(a, id) ==
    /\ holder[a] = Nobody
    /\ id \notin Held
    /\ holder' = [holder EXCEPT ![a] = id]

\* Release, expiry, a forced import or a deletion: several at once are possible.
GiveUp(S) ==
    /\ \A a \in S : holder[a] # Nobody
    /\ holder' = [a \in Addresses |-> IF a \in S THEN Nobody ELSE holder[a]]

Next ==
    \/ \E a \in Addresses, id \in LeaseIds : Take(a, id)
    \/ \E S \in SUBSET Addresses : GiveUp(S)

Spec == Init /\ [][Next]_holder
=============================================================================
