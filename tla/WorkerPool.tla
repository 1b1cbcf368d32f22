----------------------------- MODULE WorkerPool -----------------------------
(***************************************************************************)
(* The bounded blocking pool of src/core/worker_pool.h: the server keeps   *)
(* one backend instance per resource and hands each request a free one     *)
(* through a move-only RAII Lease.  The pool's mutex only protects short   *)
(* critical sections, so a critical section is one step here; what happens *)
(* between two of them (the notify after the unlock, the sleep in          *)
(* cv_.wait, the rest of a move-assignment after its release()) is a step  *)
(* of its own and interleaves with the other threads.                      *)
(***************************************************************************)
EXTENDS Naturals, Sequences, FiniteSets

CONSTANTS
    Threads,        \* the threads that use the pool (the HTTP worker threads)
    Slots,          \* the Lease objects a thread owns
    Resources,      \* owned_, the pooled backend instances
    NoResource,     \* a null res_
    NoSlot          \* "no second Lease object takes part"

ASSUME PoolAssumption ==
    /\ IsFiniteSet(Threads)
    /\ IsFiniteSet(Resources)
    /\ NoResource \notin Resources \cup (Threads \X Slots)
    /\ NoSlot \notin Slots

VARIABLES
    free,           \* free_, used as a stack: push_back, back, pop_back
    lease,          \* lease[t][s]: res_ of the Lease object s of thread t
    pc,             \* where the thread is between two critical sections
    dst,            \* the Lease object its current call assigns or releases
    src             \* the Lease object a move-assignment reads

poolVars == <<free, lease, pc, dst, src>>

PCs == {"idle", "waiting", "woken", "notify"}

\* Type invariant: the pool and the Lease objects only ever hold pointers the
\* pool owns, or null in a Lease.
PoolTypeOK ==
    /\ free \in Seq(Resources)
    /\ lease \in [Threads -> [Slots -> Resources \cup {NoResource}]]
    /\ pc \in [Threads -> PCs]
    /\ dst \in [Threads -> Slots \cup {NoSlot}]
    /\ src \in [Threads -> Slots \cup {NoSlot}]

\* A Lease inside release() still stores the pointer it has already pushed
\* back; it is cleared only when give_back has returned.
Holds(t, s, r) ==
    lease[t][s] = r /\ ~(pc[t] = "notify" /\ dst[t] = s)

FreeSet == {free[i] : i \in 1..Len(free)}

-----------------------------------------------------------------------------
\* The constructor: every owned resource is free, in some order, and no
\* Lease exists yet.
PoolInit ==
    /\ free \in [1..Cardinality(Resources) -> Resources]
    /\ \A i, j \in 1..Len(free) : i # j => free[i] # free[j]
    /\ FreeSet = Resources
    /\ lease = [t \in Threads |-> [s \in Slots |-> NoResource]]
    /\ pc = [t \in Threads |-> "idle"]
    /\ dst = [t \in Threads |-> NoSlot]
    /\ src = [t \in Threads |-> NoSlot]

\* back() and pop_back() into the Lease object s of t.
Take(t, s) ==
    /\ free # <<>>
    /\ lease' = [lease EXCEPT ![t][s] = free[Len(free)]]
    /\ free' = SubSeq(free, 1, Len(free) - 1)

Sleep(t, s) ==
    /\ free = <<>>
    /\ pc' = [pc EXCEPT ![t] = "waiting"]
    /\ dst' = [dst EXCEPT ![t] = s]
    /\ UNCHANGED <<free, lease, src>>

\* acquire() up to the first evaluation of the wait predicate.  A request
\* calls it once, holding no other lease (dispatch_transcribe).
Acquire(t, s) ==
    /\ pc[t] = "idle"
    /\ \A other \in Slots : lease[t][other] = NoResource
    /\ \/ Take(t, s) /\ UNCHANGED <<pc, dst, src>>
       \/ Sleep(t, s)

\* cv_.wait returned from its sleep, re-locked m_ and evaluates the
\* predicate again.
Recheck(t) ==
    /\ pc[t] = "woken"
    /\ \/ /\ Take(t, dst[t])
          /\ pc' = [pc EXCEPT ![t] = "idle"]
          /\ dst' = [dst EXCEPT ![t] = NoSlot]
          /\ UNCHANGED src
       \/ Sleep(t, dst[t])

\* The standard lets cv_.wait return without a notification.
SpuriousWakeup(t) ==
    /\ pc[t] = "waiting"
    /\ pc' = [pc EXCEPT ![t] = "woken"]
    /\ UNCHANGED <<free, lease, dst, src>>

\* try_acquire() into an empty Lease object; an empty pool returns nullopt
\* and changes nothing.
TryAcquire(t, s) ==
    /\ pc[t] = "idle"
    /\ lease[t][s] = NoResource
    /\ Take(t, s)
    /\ UNCHANGED <<pc, dst, src>>

\* The locked half of give_back(lease[t][s]).
GiveBack(t, s) ==
    /\ pc[t] = "idle"
    /\ lease[t][s] # NoResource
    /\ free' = Append(free, lease[t][s])
    /\ pc' = [pc EXCEPT ![t] = "notify"]
    /\ dst' = [dst EXCEPT ![t] = s]
    /\ UNCHANGED lease

\* ~Lease() of a Lease that still holds a resource.
Release(t, s) ==
    /\ GiveBack(t, s)
    /\ UNCHANGED src

\* Mutant: operator= forgets to release what the target holds.
MoveAssignOverwrites(t, s, from) ==
    /\ s # from
    /\ pc[t] = "idle"
    /\ lease[t][from] # NoResource
    /\ lease' = [lease EXCEPT ![t][s] = lease[t][from], ![t][from] = NoResource]
    /\ UNCHANGED <<free, pc, dst, src>>

\* s = std::move(from): a full s is released first; an empty one just takes
\* over what `from` holds.  Self-assignment is a no-op.
MoveAssign(t, s, from) ==
    /\ s # from
    /\ \/ /\ GiveBack(t, s)
          /\ src' = [src EXCEPT ![t] = from]
       \/ /\ pc[t] = "idle"
          /\ lease[t][s] = NoResource
          /\ lease[t][from] # NoResource
          /\ lease' = [lease EXCEPT ![t][s] = lease[t][from],
                                    ![t][from] = NoResource]
          /\ UNCHANGED <<free, pc, dst, src>>

\* Mutant: operator= leaves the moved-from Lease its pointer.
AfterReleaseKeepsSource(t) ==
    [lease[t] EXCEPT ![dst[t]] = IF src[t] = NoSlot THEN NoResource ELSE lease[t][src[t]]]

\* What the Lease objects of t hold once give_back has returned: release()
\* clears dst, and a move-assignment goes on to move src into it.
AfterRelease(t) ==
    IF src[t] = NoSlot
    THEN [lease[t] EXCEPT ![dst[t]] = NoResource]
    ELSE [lease[t] EXCEPT ![dst[t]] = lease[t][src[t]],
                          ![src[t]] = NoResource]

\* Mutant: only the return that ends an exhaustion notifies.
NotifyWhenOneFree(t) ==
    /\ pc[t] = "notify"
    /\ \/ /\ Len(free) # 1 \/ \A u \in Threads : pc[u] # "waiting"
          /\ pc' = [pc EXCEPT ![t] = "idle"]
       \/ \E u \in Threads :
             /\ Len(free) = 1 /\ pc[u] = "waiting"
             /\ pc' = [pc EXCEPT ![t] = "idle", ![u] = "woken"]
    /\ lease' = [lease EXCEPT ![t] = AfterRelease(t)]
    /\ dst' = [dst EXCEPT ![t] = NoSlot]
    /\ src' = [src EXCEPT ![t] = NoSlot]
    /\ UNCHANGED free

\* Mutant: give_back() does not notify.
NotifyNobody(t) ==
    /\ pc[t] = "notify"
    /\ pc' = [pc EXCEPT ![t] = "idle"]
    /\ lease' = [lease EXCEPT ![t] = AfterRelease(t)]
    /\ dst' = [dst EXCEPT ![t] = NoSlot]
    /\ src' = [src EXCEPT ![t] = NoSlot]
    /\ UNCHANGED free

\* notify_one() wakes one sleeper if there is one; the rest of release() and
\* of operator= follow it.
Notify(t) ==
    /\ pc[t] = "notify"
    /\ LET sleepers == {u \in Threads : pc[u] = "waiting"} IN
       \/ /\ sleepers = {}
          /\ pc' = [pc EXCEPT ![t] = "idle"]
       \/ \E u \in sleepers :
             pc' = [pc EXCEPT ![t] = "idle", ![u] = "woken"]
    /\ lease' = [lease EXCEPT ![t] = AfterRelease(t)]
    /\ dst' = [dst EXCEPT ![t] = NoSlot]
    /\ src' = [src EXCEPT ![t] = NoSlot]
    /\ UNCHANGED free

Calls(t) ==
    \E s \in Slots :
        \/ Acquire(t, s)
        \/ TryAcquire(t, s)
        \/ Release(t, s)
        \/ \E from \in Slots : MoveAssign(t, s, from)

PoolNext ==
    \E t \in Threads :
        Calls(t) \/ Recheck(t) \/ SpuriousWakeup(t) \/ Notify(t)

PoolSpec == PoolInit /\ [][PoolNext]_poolVars
-----------------------------------------------------------------------------
(* Properties *)

\* No double hand-out (test-worker-pool's first worry): a resource is never
\* free while a Lease holds it, never in the free stack twice, and never held
\* by two Lease objects, whatever moves and releases are in flight.
ExclusiveLease ==
    /\ \A i, j \in 1..Len(free) : i # j => free[i] # free[j]
    /\ \A t \in Threads, s \in Slots, r \in Resources :
          Holds(t, s, r) => /\ r \notin FreeSet
                            /\ \A u \in Threads, q \in Slots :
                                  Holds(u, q, r) => u = t /\ q = s

\* No resource leaks: whatever is not free is held by some Lease, so a
\* moved-from or released Lease never takes its backend with it.
NothingLost ==
    \A r \in Resources :
        r \in FreeSet \/ \E t \in Threads, s \in Slots : Holds(t, s, r)

Waiting   == {t \in Threads : pc[t] = "waiting"}
Notifying == {t \in Threads : pc[t] = "notify"}
Woken     == {t \in Threads : pc[t] = "woken"}

\* No lost wakeup: while a thread sleeps in acquire(), every free resource is
\* covered by a notification that is still to be sent or by a woken thread
\* that is still to look.  notify_one after the unlock must not break this.
NoLostWakeup ==
    Waiting # {} => Len(free) <= Cardinality(Notifying \cup Woken)

\* The pool implements the lease table: the owner of a resource is the Lease
\* object that holds it, and a resource in the free stack has none.
Owner ==
    [r \in Resources |->
        IF r \notin FreeSet /\ \E t \in Threads, s \in Slots : Holds(t, s, r)
        THEN CHOOSE h \in Threads \X Slots : Holds(h[1], h[2], r)
        ELSE NoResource]

Table == INSTANCE LeaseTable
            WITH Holders <- Threads \X Slots, Nobody <- NoResource, owner <- Owner

ImplementsLeaseTable == Table!Spec
=============================================================================
