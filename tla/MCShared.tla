------------------------------ MODULE MCShared ------------------------------
(***************************************************************************)
(* Instances of three modules about what request threads share besides the *)
(* model: the worker pool, and a chat session with its conversation and    *)
(* its lifetime.  They touch no state of each other.  A behaviour is a     *)
(* behaviour of one of them, chosen at the start, and the others rest.     *)
(***************************************************************************)
EXTENDS MCWorkerPool, ChatContext, ChatLifecycle

VARIABLE part

countedVars == <<poolVars, arrivals>>
sharedVars == <<countedVars, vars, lifeVars, part>>

SharedInit ==
    /\ part \in {"pool", "conversation", "lifetime"}
    /\ CountedInit /\ Init /\ LifeInit

PoolPart == part = "pool" /\ CountedNext /\ UNCHANGED <<vars, lifeVars, part>>
ConversationPart == part = "conversation" /\ Next /\ UNCHANGED <<countedVars, lifeVars, part>>
LifetimePart == part = "lifetime" /\ LifeNext /\ UNCHANGED <<countedVars, vars, part>>

\* The bound ends the requests for leases; nothing else may.
Ended ==
    /\ part = "pool"
    /\ \A t \in Threads : /\ arrivals[t] = MaxArrivals
                          /\ pc[t] = "idle"
                          /\ \A s \in Slots : lease[t][s] = NoResource
    /\ UNCHANGED sharedVars

SharedNext == PoolPart \/ ConversationPart \/ LifetimePart \/ Ended

\* The fairness of the pool's threads and of the calls on a session.
SharedSpec == SharedInit /\ [][SharedNext]_sharedVars /\ CountedFairness /\ LifeFairness
=============================================================================
