---------------------------- MODULE MCWorkerPool ----------------------------
(***************************************************************************)
(* The instance of WorkerPool that TLC checks.  It counts the requests:     *)
(* with unboundedly many, a new request may always overtake a woken one,    *)
(* and the liveness property would not hold.                                *)
(***************************************************************************)
EXTENDS WorkerPool

CONSTANT MaxArrivals        \* bound: leases each thread ever asks for

VARIABLE arrivals           \* arrivals[t]: leases t has asked for

AskForLease(t) ==
    \E s \in Slots : Acquire(t, s) \/ TryAcquire(t, s)

CountedNext ==
    \E t \in Threads :
        \/ /\ arrivals[t] < MaxArrivals
           /\ AskForLease(t)
           /\ arrivals' = [arrivals EXCEPT ![t] = @ + 1]
        \/ /\ \/ \E s \in Slots : \/ Release(t, s)
                                  \/ \E from \in Slots : MoveAssign(t, s, from)
              \/ Recheck(t)
              \/ SpuriousWakeup(t)
              \/ Notify(t)
           /\ UNCHANGED arrivals

\* A request ends, so its Lease is destroyed; a thread that is between two
\* critical sections goes on.
CountedFairness ==
    \A t \in Threads :
        WF_poolVars((\E s \in Slots : Release(t, s)) \/ Recheck(t) \/ Notify(t))

CountedInit ==
    /\ PoolInit
    /\ arrivals = [t \in Threads |-> 0]

CountedSpec ==
    /\ CountedInit
    /\ [][CountedNext]_<<poolVars, arrivals>>
    /\ CountedFairness

\* Every blocked acquire() returns with a lease: the wakeups of the pool
\* suffice, provided the holders finish and the requests are finitely many.
EveryAcquireReturns ==
    \A t \in Threads : pc[t] = "waiting" ~> pc[t] = "idle"
=============================================================================
