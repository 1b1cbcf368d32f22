----------------------------- MODULE LeaseTable -----------------------------
(***************************************************************************)
(* What a pool of exclusive resources promises its users, without queues,  *)
(* mutexes or condition variables: a table that says who owns what.        *)
(***************************************************************************)
CONSTANTS Resources, Holders, Nobody

VARIABLE owner      \* owner[r]: the holder of r, or Nobody

Init == owner = [r \in Resources |-> Nobody]

\* A free resource is granted to a holder that owns nothing.
Grant(r, h) ==
    /\ owner[r] = Nobody
    /\ \A q \in Resources : owner[q] # h
    /\ owner' = [owner EXCEPT ![r] = h]

\* The holder gives the resource back.
Return(r) ==
    /\ owner[r] # Nobody
    /\ owner' = [owner EXCEPT ![r] = Nobody]

\* The resource changes hands without ever being free.
HandOver(r, h) ==
    /\ owner[r] # Nobody
    /\ \A q \in Resources : owner[q] # h
    /\ owner' = [owner EXCEPT ![r] = h]

Next ==
    \E r \in Resources :
        \/ Return(r)
        \/ \E h \in Holders : Grant(r, h) \/ HandOver(r, h)

Spec == Init /\ [][Next]_owner
=============================================================================
