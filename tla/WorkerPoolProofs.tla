-------------------------- MODULE WorkerPoolProofs --------------------------
(***************************************************************************)
(* Proofs about WorkerPool for every set of threads, Lease objects and     *)
(* resources.                                                              *)
(***************************************************************************)
EXTENDS WorkerPool, FiniteSetTheorems, SequenceTheorems, TLAPS

\* Which call a thread is in fixes which of its Lease objects can be full.
ControlOK ==
    \A t \in Threads :
        /\ pc[t] \in {"waiting", "woken", "notify"} => dst[t] \in Slots
        /\ pc[t] \in {"waiting", "woken"} =>
              \A s \in Slots : lease[t][s] = NoResource
        /\ pc[t] # "notify" => src[t] = NoSlot
        /\ src[t] # dst[t] \/ pc[t] # "notify"

\* The inductive invariant behind ExclusiveLease.
IInv == PoolTypeOK /\ ControlOK /\ ExclusiveLease

\* pop_back: what is left is a stack one shorter with the same entries.
LEMMA PopBack ==
    ASSUME NEW S, NEW f \in Seq(S), f # <<>>
    PROVE  /\ Len(f) \in 1..Len(f)
           /\ f[Len(f)] \in S
           /\ SubSeq(f, 1, Len(f) - 1) \in Seq(S)
           /\ Len(SubSeq(f, 1, Len(f) - 1)) = Len(f) - 1
           /\ \A i \in 1..(Len(f) - 1) : SubSeq(f, 1, Len(f) - 1)[i] = f[i]
<1>1. Len(f) \in Nat /\ Len(f) # 0
  OBVIOUS
<1>2. Len(f) \in 1..Len(f) /\ f[Len(f)] \in S
  BY <1>1
<1>3. \A i \in 1..(Len(f) - 1) : f[i] \in S
  BY <1>1
<1> DEFINE n == Len(f) - 1
<1>4. n \in Int /\ 1 \in Int /\ \A i \in 1..n : f[i] \in S
  BY <1>1, <1>3
<1>5. /\ SubSeq(f, 1, n) \in Seq(S)
      /\ Len(SubSeq(f, 1, n)) = IF 1 <= n THEN n - 1 + 1 ELSE 0
      /\ \A i \in 1..(n - 1 + 1) : SubSeq(f, 1, n)[i] = f[1 + i - 1]
  BY <1>4, SubSeqProperties
<1> HIDE DEF n
<1>6. n = Len(f) - 1
  BY DEF n
<1>7. /\ Len(SubSeq(f, 1, n)) = n
      /\ \A i \in 1..n : SubSeq(f, 1, n)[i] = f[i]
  BY <1>1, <1>5, <1>6
<1> QED BY <1>1, <1>2, <1>5, <1>6, <1>7

\* push_back: the old entries stay where they were and the new one is last.
LEMMA PushBack ==
    ASSUME NEW S, NEW f \in Seq(S), NEW x \in S
    PROVE  /\ Append(f, x) \in Seq(S)
           /\ Len(Append(f, x)) = Len(f) + 1
           /\ \A i \in 1..Len(f) : Append(f, x)[i] = f[i]
           /\ Append(f, x)[Len(f) + 1] = x
  OBVIOUS

\* Taking the top of the stack keeps the types, names the resource taken,
\* and leaves a free set without it.
LEMMA TakeEffect ==
    ASSUME PoolTypeOK, ExclusiveLease, NEW t \in Threads, NEW s \in Slots, Take(t, s)
    PROVE  /\ free' \in Seq(Resources)
           /\ lease' \in [Threads -> [Slots -> Resources \cup {NoResource}]]
           /\ \E r \in FreeSet :
                 /\ r \in Resources
                 /\ lease' = [lease EXCEPT ![t][s] = r]
                 /\ FreeSet' = FreeSet \ {r}
           /\ \A i, j \in 1..Len(free') : i # j => free'[i] # free'[j]
<1> DEFINE r == free[Len(free)]
<1>1. /\ Len(free) \in 1..Len(free) /\ r \in Resources
      /\ free' \in Seq(Resources) /\ Len(free') = Len(free) - 1
      /\ \A i \in 1..(Len(free) - 1) : free'[i] = free[i]
      /\ Len(free) \in Nat
  BY PopBack DEF Take, PoolTypeOK
<1>2. \A i, j \in 1..Len(free') : i # j => free'[i] # free'[j]
  BY <1>1 DEF ExclusiveLease
<1>3. FreeSet' = FreeSet \ {r}
  <2>1. \A x \in FreeSet' : x \in FreeSet /\ x # r
    BY <1>1 DEF FreeSet, ExclusiveLease
  <2>2. \A x \in FreeSet : x # r => x \in FreeSet'
    BY <1>1 DEF FreeSet
  <2> QED BY <2>1, <2>2
<1>4. r \in FreeSet
  BY <1>1 DEF FreeSet
<1>5. lease' = [lease EXCEPT ![t][s] = r]
  BY DEF Take
<1>6. lease' \in [Threads -> [Slots -> Resources \cup {NoResource}]]
  BY <1>1, <1>5 DEF PoolTypeOK
<1> QED BY <1>1, <1>2, <1>3, <1>4, <1>5, <1>6

\* A thread that takes a resource into an empty Lease leaves every lease
\* exclusive.
LEMMA TakeExclusive ==
    ASSUME IInv, NEW t \in Threads, NEW s \in Slots, Take(t, s),
           pc[t] # "notify",
           \/ pc' = pc /\ dst' = dst
           \/ /\ pc' = [pc EXCEPT ![t] = "idle"]
              /\ dst' = [dst EXCEPT ![t] = NoSlot]
    PROVE  ExclusiveLease'
<1> USE DEF IInv
<1>1. PICK r \in FreeSet :
         /\ r \in Resources
         /\ lease' = [lease EXCEPT ![t][s] = r]
         /\ FreeSet' = FreeSet \ {r}
         /\ \A i, j \in 1..Len(free') : i # j => free'[i] # free'[j]
  BY TakeEffect
<1>2. ASSUME NEW u \in Threads, NEW q \in Slots, NEW x \in Resources,
             Holds(u, q, x)'
      PROVE  \/ u = t /\ q = s /\ x = r
             \/ Holds(u, q, x) /\ x # r
  <2>1. CASE u = t /\ q = s
    BY <1>1, <1>2, <2>1 DEF PoolTypeOK, Holds
  <2>2. CASE ~(u = t /\ q = s)
    <3>1. lease'[u][q] = lease[u][q]
      BY <1>1, <2>2 DEF PoolTypeOK
    <3>2. Holds(u, q, x)
      BY <1>2, <3>1 DEF PoolTypeOK, Holds
    <3> QED BY <3>2, <1>1 DEF ExclusiveLease
  <2> QED BY <2>1, <2>2
<1> QED BY <1>1, <1>2 DEF ExclusiveLease

\* give_back() pushes what only the releasing Lease held: the stack stays
\* free of duplicates and of anything another Lease holds.
LEMMA GiveBackExclusive ==
    ASSUME IInv, NEW t \in Threads, NEW s \in Slots, GiveBack(t, s)
    PROVE  /\ free' \in Seq(Resources)
           /\ ExclusiveLease'
<1> USE DEF IInv
<1> DEFINE r == lease[t][s]
<1>1. r \in Resources /\ Holds(t, s, r)
  BY DEF GiveBack, PoolTypeOK, Holds
<1>2. /\ free' \in Seq(Resources) /\ Len(free) \in Nat
      /\ Len(free') = Len(free) + 1
      /\ \A i \in 1..Len(free) : free'[i] = free[i]
      /\ free'[Len(free) + 1] = r
  BY <1>1, PushBack DEF GiveBack, PoolTypeOK
<1>3. FreeSet' = FreeSet \cup {r}
  <2>1. \A i \in 1..Len(free') : i \in 1..Len(free) \/ i = Len(free) + 1
    BY <1>2
  <2>2. \A x \in FreeSet' : x \in FreeSet \cup {r}
    BY <1>2, <2>1 DEF FreeSet
  <2>3. \A x \in FreeSet \cup {r} : x \in FreeSet'
    BY <1>2 DEF FreeSet
  <2> QED BY <2>2, <2>3
<1>4. r \notin FreeSet
  BY <1>1 DEF ExclusiveLease
<1>5. \A i, j \in 1..Len(free') : i # j => free'[i] # free'[j]
  BY <1>2, <1>4 DEF FreeSet, ExclusiveLease
<1>6. ASSUME NEW u \in Threads, NEW q \in Slots, NEW x \in Resources,
             Holds(u, q, x)'
      PROVE  Holds(u, q, x) /\ x # r
  <2>1. lease' = lease /\ pc[t] = "idle"
    BY DEF GiveBack
  <2>2. Holds(u, q, x)
    BY <1>6, <2>1 DEF GiveBack, PoolTypeOK, Holds
  <2>3. CASE u = t /\ q = s
    BY <1>6, <2>3 DEF GiveBack, PoolTypeOK, Holds
  <2>4. CASE ~(u = t /\ q = s)
    BY <1>1, <2>2, <2>4 DEF ExclusiveLease
  <2> QED BY <2>2, <2>3, <2>4
<1> QED BY <1>2, <1>3, <1>5, <1>6 DEF ExclusiveLease

\* No call makes the pool hand out what somebody still holds, or lose track
\* of its types: IInv is inductive.
LEMMA Inductive == IInv /\ [PoolNext]_poolVars => IInv'
<1> SUFFICES ASSUME IInv, [PoolNext]_poolVars PROVE IInv'
  OBVIOUS
<1> USE DEF IInv
<1>1. ASSUME NEW t \in Threads, NEW s \in Slots, Acquire(t, s)
      PROVE  IInv'
  <2>1. CASE Take(t, s) /\ UNCHANGED <<pc, dst, src>>
    <3>1. PoolTypeOK'
      BY <2>1, TakeEffect DEF PoolTypeOK
    <3>2. ControlOK'
      BY <1>1, <2>1 DEF PoolTypeOK, ControlOK, Acquire, Take
    <3>3. ExclusiveLease'
      BY <1>1, <2>1, TakeExclusive DEF Acquire
    <3> QED BY <3>1, <3>2, <3>3
  <2>2. CASE Sleep(t, s)
    <3>1. PoolTypeOK'
      BY <2>2 DEF PoolTypeOK, Sleep, PCs
    <3>2. ControlOK'
      BY <1>1, <2>2 DEF PoolTypeOK, ControlOK, Acquire, Sleep
    <3>3. ExclusiveLease'
      BY <1>1, <2>2 DEF PoolTypeOK, ExclusiveLease, Holds, FreeSet, Acquire, Sleep
    <3> QED BY <3>1, <3>2, <3>3
  <2> QED BY <1>1, <2>1, <2>2 DEF Acquire
<1>2. ASSUME NEW t \in Threads, Recheck(t)
      PROVE  IInv'
  <2>0. dst[t] \in Slots
    BY <1>2 DEF ControlOK, Recheck
  <2>1. CASE /\ Take(t, dst[t])
             /\ pc' = [pc EXCEPT ![t] = "idle"]
             /\ dst' = [dst EXCEPT ![t] = NoSlot]
             /\ UNCHANGED src
    <3>1. PoolTypeOK'
      BY <2>0, <2>1, TakeEffect DEF PoolTypeOK, PCs
    <3>2. ControlOK'
      BY <1>2, <2>0, <2>1 DEF PoolTypeOK, ControlOK, Recheck, Take
    <3>3. ExclusiveLease'
      BY <1>2, <2>0, <2>1, TakeExclusive DEF Recheck
    <3> QED BY <3>1, <3>2, <3>3
  <2>2. CASE Sleep(t, dst[t])
    <3>1. PoolTypeOK'
      BY <2>0, <2>2 DEF PoolTypeOK, Sleep, PCs
    <3>2. ControlOK'
      BY <1>2, <2>0, <2>2 DEF PoolTypeOK, ControlOK, Recheck, Sleep
    <3>3. ExclusiveLease'
      BY <1>2, <2>0, <2>2 DEF PoolTypeOK, ExclusiveLease, Holds, FreeSet, Recheck, Sleep
    <3> QED BY <3>1, <3>2, <3>3
  <2> QED BY <1>2, <2>1, <2>2 DEF Recheck
<1>3. ASSUME NEW t \in Threads, SpuriousWakeup(t)
      PROVE  IInv'
  <2>1. PoolTypeOK'
    BY <1>3 DEF PoolTypeOK, SpuriousWakeup, PCs
  <2>2. ControlOK'
    BY <1>3 DEF PoolTypeOK, ControlOK, SpuriousWakeup
  <2>3. ExclusiveLease'
    BY <1>3 DEF PoolTypeOK, ExclusiveLease, Holds, FreeSet, SpuriousWakeup
  <2> QED BY <2>1, <2>2, <2>3
<1>4. ASSUME NEW t \in Threads, NEW s \in Slots, TryAcquire(t, s)
      PROVE  IInv'
  <2>1. PoolTypeOK'
    BY <1>4, TakeEffect DEF PoolTypeOK, TryAcquire
  <2>2. ControlOK'
    BY <1>4 DEF PoolTypeOK, ControlOK, TryAcquire, Take
  <2>3. ExclusiveLease'
    BY <1>4, TakeExclusive DEF TryAcquire
  <2> QED BY <2>1, <2>2, <2>3
<1>5. ASSUME NEW t \in Threads, NEW s \in Slots, Release(t, s)
      PROVE  IInv'
  <2>1. PoolTypeOK'
    BY <1>5, GiveBackExclusive DEF PoolTypeOK, Release, GiveBack, PCs
  <2>2. ControlOK'
    BY <1>5, PoolAssumption DEF PoolTypeOK, ControlOK, Release, GiveBack, PoolAssumption
  <2>3. ExclusiveLease'
    BY <1>5, GiveBackExclusive DEF Release
  <2> QED BY <2>1, <2>2, <2>3
<1>6. ASSUME NEW t \in Threads, NEW s \in Slots, NEW from \in Slots,
             MoveAssign(t, s, from)
      PROVE  IInv'
  <2>1. CASE GiveBack(t, s) /\ src' = [src EXCEPT ![t] = from]
    <3>1. PoolTypeOK'
      BY <2>1, GiveBackExclusive DEF PoolTypeOK, GiveBack, PCs
    <3>2. ControlOK'
      BY <1>6, <2>1 DEF PoolTypeOK, ControlOK, GiveBack, MoveAssign
    <3>3. ExclusiveLease'
      BY <2>1, GiveBackExclusive
    <3> QED BY <3>1, <3>2, <3>3
  <2>2. CASE /\ pc[t] = "idle"
             /\ lease[t][s] = NoResource
             /\ lease[t][from] # NoResource
             /\ lease' = [lease EXCEPT ![t][s] = lease[t][from],
                                       ![t][from] = NoResource]
             /\ UNCHANGED <<free, pc, dst, src>>
    <3>1. PoolTypeOK'
      BY <2>2 DEF PoolTypeOK
    <3>2. ControlOK'
      BY <2>2 DEF PoolTypeOK, ControlOK
    <3>3. \A u \in Threads, q \in Slots, x \in Resources :
             Holds(u, q, x)' => \/ u = t /\ q = s /\ Holds(t, from, x)
                                \/ /\ ~(u = t /\ q \in {s, from})
                                   /\ Holds(u, q, x)
      BY <1>6, <2>2, PoolAssumption
         DEF PoolTypeOK, Holds, MoveAssign, PoolAssumption
    <3>4. FreeSet' = FreeSet
      BY <2>2 DEF FreeSet
    <3>5. ExclusiveLease'
      BY <2>2, <3>3, <3>4 DEF ExclusiveLease
    <3> QED BY <3>1, <3>2, <3>5
  <2> QED BY <1>6, <2>1, <2>2 DEF MoveAssign
<1>7. ASSUME NEW t \in Threads, Notify(t)
      PROVE  IInv'
  <2>0. /\ dst[t] \in Slots /\ src[t] # dst[t]
        /\ src[t] \in Slots \cup {NoSlot}
    BY <1>7 DEF ControlOK, Notify, PoolTypeOK
  <2>1. AfterRelease(t) \in [Slots -> Resources \cup {NoResource}]
    BY <2>0 DEF AfterRelease, PoolTypeOK
  <2>2. /\ lease' = [lease EXCEPT ![t] = AfterRelease(t)]
        /\ dst' = [dst EXCEPT ![t] = NoSlot]
        /\ src' = [src EXCEPT ![t] = NoSlot]
        /\ free' = free
    BY <1>7 DEF Notify
  <2>3. /\ pc' \in [Threads -> PCs]
        /\ pc'[t] = "idle"
        /\ \A u \in Threads \ {t} :
              pc'[u] = pc[u] \/ (pc[u] = "waiting" /\ pc'[u] = "woken")
    BY <1>7 DEF Notify, PoolTypeOK, PCs
  <2>4. PoolTypeOK'
    BY <2>1, <2>2, <2>3 DEF PoolTypeOK
  <2>5. ControlOK'
    BY <2>2, <2>3, <2>4, PoolAssumption
       DEF PoolTypeOK, ControlOK, PoolAssumption
  <2>6. ASSUME NEW u \in Threads, NEW q \in Slots, NEW x \in Resources,
               Holds(u, q, x)'
        PROVE  \/ u = t /\ q = dst[t] /\ src[t] \in Slots /\ Holds(t, src[t], x)
               \/ ~(u = t /\ q \in {dst[t], src[t]}) /\ Holds(u, q, x)
    <3>1. CASE u # t
      BY <2>2, <2>3, <2>6, <3>1 DEF PoolTypeOK, Holds
    <3>2. CASE u = t
      <4>1. x = AfterRelease(t)[q] /\ x # NoResource
        BY <2>2, <2>6, <3>2, PoolAssumption DEF PoolTypeOK, Holds, PoolAssumption
      <4>2. CASE src[t] = NoSlot
        BY <1>7, <2>0, <3>2, <4>1, <4>2, PoolAssumption
           DEF AfterRelease, PoolTypeOK, Holds, PoolAssumption
      <4>3. CASE src[t] \in Slots
        <5>1. CASE q = dst[t]
          BY <1>7, <2>0, <3>2, <4>1, <4>3, <5>1, PoolAssumption
             DEF AfterRelease, PoolTypeOK, Holds, PoolAssumption
        <5>2. CASE q # dst[t]
          BY <1>7, <2>0, <3>2, <4>1, <4>3, <5>2, PoolAssumption
             DEF AfterRelease, PoolTypeOK, Holds, PoolAssumption
        <5> QED BY <5>1, <5>2
      <4> QED BY <2>0, <4>2, <4>3
    <3> QED BY <3>1, <3>2
  <2>7. FreeSet' = FreeSet
    BY <2>2 DEF FreeSet
  <2>8. ExclusiveLease'
    BY <2>2, <2>6, <2>7 DEF ExclusiveLease
  <2> QED BY <2>4, <2>5, <2>8
<1>8. CASE UNCHANGED poolVars
  BY <1>8 DEF poolVars, PoolTypeOK, ControlOK, ExclusiveLease, Holds, FreeSet
<1> QED
  BY <1>1, <1>2, <1>3, <1>4, <1>5, <1>6, <1>7, <1>8 DEF PoolNext, Calls

\* The constructor establishes the invariant.
LEMMA Initial == PoolInit => IInv
<1> SUFFICES ASSUME PoolInit PROVE IInv
  OBVIOUS
<1>1. PoolTypeOK
  <2>1. Cardinality(Resources) \in Nat
    BY PoolAssumption, FS_CardinalityType DEF PoolAssumption
  <2>2. free \in Seq(Resources)
    BY <2>1 DEF PoolInit
  <2> QED BY <2>2 DEF PoolInit, PoolTypeOK, PCs
<1>2. ControlOK
  BY DEF PoolInit, ControlOK
<1>3. ExclusiveLease
  BY PoolAssumption DEF PoolInit, ExclusiveLease, Holds, PoolAssumption
<1> QED BY <1>1, <1>2, <1>3 DEF IInv

\* The pool and its Lease objects are well typed in every reachable state.
THEOREM PoolTypeCorrect == PoolSpec => []PoolTypeOK
<1>1. IInv => PoolTypeOK
  BY DEF IInv
<1> QED BY Initial, Inductive, <1>1, PTL DEF PoolSpec

\* No double hand-out, for every number of threads, Lease objects and
\* backends: what one Lease holds is neither free nor held by another.
THEOREM PoolExclusive == PoolSpec => []ExclusiveLease
<1>1. IInv => ExclusiveLease
  BY DEF IInv
<1> QED BY Initial, Inductive, <1>1, PTL DEF PoolSpec

-----------------------------------------------------------------------------
(* Wakeups.  Active threads are the ones a free resource is accounted to.  *)

Active == Notifying \cup Woken

\* How the set of active threads changes when one thread changes its pc.
LEMMA ActiveCardinality ==
    ASSUME PoolTypeOK
    PROVE  /\ IsFiniteSet(Active) /\ Cardinality(Active) \in Nat
           /\ \A t \in Threads :
                 /\ t \in Active => Cardinality(Active \ {t}) = Cardinality(Active) - 1
                 /\ t \notin Active => Cardinality(Active \cup {t}) = Cardinality(Active) + 1
<1>1. IsFiniteSet(Active)
  <2>1. Active \subseteq Threads
    BY DEF Active, Notifying, Woken
  <2> QED BY <2>1, PoolAssumption, FS_Subset DEF PoolAssumption
<1> QED BY <1>1, FS_CardinalityType, FS_AddElement, FS_RemoveElement

\* The steps that put a resource back or take one move the two sides of
\* NoLostWakeup together.
LEMMA NoLostWakeupStep ==
    IInv /\ IInv' /\ NoLostWakeup /\ [PoolNext]_poolVars => NoLostWakeup'
<1> SUFFICES ASSUME IInv, IInv', NoLostWakeup, [PoolNext]_poolVars
             PROVE  NoLostWakeup'
  OBVIOUS
<1> USE DEF IInv
<1>0. /\ Len(free) \in Nat /\ Len(free') \in Nat
      /\ Cardinality(Active) \in Nat /\ Cardinality(Active') \in Nat
  <2>1. Len(free) \in Nat /\ Len(free') \in Nat
    BY DEF PoolTypeOK
  <2>2. PoolTypeOK' => Cardinality(Active') \in Nat
    <3>1. Active' \subseteq Threads
      BY DEF Active, Notifying, Woken
    <3> QED BY <3>1, PoolAssumption, FS_Subset, FS_CardinalityType DEF PoolAssumption
  <2> QED BY <2>1, <2>2, ActiveCardinality
<1>a. NoLostWakeup <=> (Waiting # {} => Len(free) <= Cardinality(Active))
  BY DEF NoLostWakeup, Active
<1>b. NoLostWakeup' <=> (Waiting' # {} => Len(free') <= Cardinality(Active'))
  BY DEF NoLostWakeup, Active
<1>1. ASSUME NEW t \in Threads, NEW s \in Slots, Take(t, s)
      PROVE  Len(free) # 0 /\ Len(free') = Len(free) - 1
  BY <1>1, PopBack DEF Take, PoolTypeOK
<1>2. ASSUME NEW t \in Threads, NEW s \in Slots, Sleep(t, s)
      PROVE  NoLostWakeup'
  <2>1. Len(free') = 0
    BY <1>2 DEF Sleep
  <2> QED BY <1>0, <2>1, <1>a, <1>b
<1>3. ASSUME UNCHANGED pc, Len(free') <= Len(free)
      PROVE  NoLostWakeup'
  <2>1. Active' = Active /\ Waiting' = Waiting
    BY <1>3 DEF Active, Notifying, Woken, Waiting
  <2> QED BY <1>0, <1>3, <2>1, <1>a, <1>b
<1>4. ASSUME NEW t \in Threads, NEW s \in Slots, Acquire(t, s)
      PROVE  NoLostWakeup'
  <2>1. CASE Take(t, s) /\ UNCHANGED <<pc, dst, src>>
    BY <1>0, <1>1, <1>3, <2>1
  <2> QED BY <1>2, <1>4, <2>1 DEF Acquire
<1>5. ASSUME NEW t \in Threads, Recheck(t)
      PROVE  NoLostWakeup'
  <2>0. dst[t] \in Slots
    BY <1>5 DEF ControlOK, Recheck
  <2>1. CASE Take(t, dst[t]) /\ pc' = [pc EXCEPT ![t] = "idle"]
    <3>1. Active' = Active \ {t} /\ Waiting' = Waiting /\ t \in Active
      BY <1>5, <2>1 DEF Active, Notifying, Woken, Waiting, Recheck, PoolTypeOK
    <3>2. Cardinality(Active') = Cardinality(Active) - 1
      BY <3>1, ActiveCardinality
    <3>3. Len(free') = Len(free) - 1
      BY <1>1, <2>0, <2>1
    <3> QED BY <1>0, <3>1, <3>2, <3>3, <1>a, <1>b
  <2> QED BY <1>2, <1>5, <2>0, <2>1 DEF Recheck
<1>6. ASSUME NEW t \in Threads, SpuriousWakeup(t)
      PROVE  NoLostWakeup'
  <2>1. Active' = Active \cup {t} /\ t \notin Active /\ Waiting' \subseteq Waiting
    BY <1>6 DEF Active, Notifying, Woken, Waiting, SpuriousWakeup, PoolTypeOK
  <2>2. Cardinality(Active') = Cardinality(Active) + 1 /\ free' = free
    BY <1>6, <2>1, ActiveCardinality DEF SpuriousWakeup
  <2> QED BY <1>0, <2>1, <2>2, <1>a, <1>b
<1>7. ASSUME NEW t \in Threads, NEW s \in Slots, TryAcquire(t, s)
      PROVE  NoLostWakeup'
  BY <1>0, <1>1, <1>3, <1>7 DEF TryAcquire
<1>8. ASSUME NEW t \in Threads, NEW s \in Slots, GiveBack(t, s)
      PROVE  NoLostWakeup'
  <2>1. Active' = Active \cup {t} /\ t \notin Active /\ Waiting' = Waiting
    BY <1>8 DEF Active, Notifying, Woken, Waiting, GiveBack, PoolTypeOK
  <2>2. Cardinality(Active') = Cardinality(Active) + 1
    BY <2>1, ActiveCardinality
  <2>3. Len(free') = Len(free) + 1
    <3>1. lease[t][s] \in Resources
      BY <1>8 DEF GiveBack, PoolTypeOK
    <3> QED BY <1>8, <3>1, PushBack DEF GiveBack, PoolTypeOK
  <2> QED BY <1>0, <2>1, <2>2, <2>3, <1>a, <1>b
<1>9. ASSUME NEW t \in Threads, Notify(t)
      PROVE  NoLostWakeup'
  <2>0. t \in Active /\ free' = free
    BY <1>9 DEF Active, Notifying, Woken, Notify
  <2>1. CASE Waiting = {} /\ pc' = [pc EXCEPT ![t] = "idle"]
    <3>1. Waiting' = {}
      BY <2>1 DEF Waiting, PoolTypeOK
    <3> QED BY <3>1, <1>b
  <2>2. ASSUME NEW u \in Waiting, pc' = [pc EXCEPT ![t] = "idle", ![u] = "woken"]
        PROVE  NoLostWakeup'
    <3>1. /\ u \in Threads /\ u # t /\ u \notin Active
          /\ Active' = (Active \cup {u}) \ {t}
          /\ Waiting # {}
      BY <1>9, <2>2 DEF Active, Notifying, Woken, Waiting, Notify, PoolTypeOK
    <3>2. Cardinality(Active \cup {u}) = Cardinality(Active) + 1
      BY <3>1, ActiveCardinality
    <3>3. Cardinality(Active') = Cardinality(Active)
      <4>1. IsFiniteSet(Active \cup {u}) /\ t \in Active \cup {u}
        BY <2>0, ActiveCardinality, FS_AddElement
      <4>2. Cardinality((Active \cup {u}) \ {t}) = Cardinality(Active \cup {u}) - 1
        BY <4>1, FS_RemoveElement
      <4> QED BY <1>0, <3>1, <3>2, <4>2
    <3> QED BY <1>0, <2>0, <3>1, <3>3, <1>a, <1>b
  <2> QED BY <1>9, <2>1, <2>2 DEF Notify, Waiting
<1>10. CASE UNCHANGED poolVars
  BY <1>0, <1>3, <1>10 DEF poolVars
<1>11. ASSUME NEW t \in Threads, NEW s \in Slots, NEW from \in Slots,
              MoveAssign(t, s, from)
       PROVE  NoLostWakeup'
  <2>1. CASE GiveBack(t, s)
    BY <1>8, <2>1
  <2>2. CASE UNCHANGED <<free, pc>>
    BY <1>0, <1>3, <2>2
  <2> QED BY <1>11, <2>1, <2>2 DEF MoveAssign
<1> QED
  BY <1>4, <1>5, <1>6, <1>7, <1>8, <1>9, <1>10, <1>11
     DEF PoolNext, Calls, Release

\* No thread sleeps beside a free backend without somebody about to wake it,
\* although notify_one is called after the unlock.
THEOREM PoolNoLostWakeup == PoolSpec => []NoLostWakeup
<1>1. PoolInit => NoLostWakeup
  BY DEF PoolInit, NoLostWakeup, Waiting
<1> QED BY Initial, Inductive, NoLostWakeupStep, <1>1, PTL DEF PoolSpec

-----------------------------------------------------------------------------
(* Conservation: what leaves the free stack is in a Lease, and vice versa. *)

\* A Lease that holds r before and is not the one the step empties holds r
\* afterwards; the step that empties it passes r on.
LEMMA NothingLostStep ==
    IInv /\ NothingLost /\ [PoolNext]_poolVars => NothingLost'
<1> SUFFICES ASSUME IInv, NothingLost, [PoolNext]_poolVars,
                    NEW r \in Resources
             PROVE  \/ r \in FreeSet'
                    \/ \E t \in Threads, s \in Slots : Holds(t, s, r)'
  BY DEF NothingLost
<1> USE DEF IInv
<1> DEFINE Kept == \/ r \in FreeSet'
                   \/ \E t \in Threads, s \in Slots : Holds(t, s, r)'
<1>0. r \in FreeSet \/ \E t \in Threads, s \in Slots : Holds(t, s, r)
  BY DEF NothingLost
<1>1. ASSUME NEW t \in Threads, NEW s \in Slots, Take(t, s),
             pc[t] # "notify", lease[t][s] = NoResource,
             \/ pc' = pc /\ dst' = dst
             \/ /\ pc' = [pc EXCEPT ![t] = "idle"]
                /\ dst' = [dst EXCEPT ![t] = NoSlot]
      PROVE  Kept
  <2>1. PICK x \in FreeSet :
           /\ x \in Resources
           /\ lease' = [lease EXCEPT ![t][s] = x]
           /\ FreeSet' = FreeSet \ {x}
    BY <1>1, TakeEffect
  <2>2. Holds(t, s, x)'
    BY <1>1, <2>1 DEF PoolTypeOK, Holds
  <2>3. ASSUME NEW u \in Threads, NEW q \in Slots, Holds(u, q, r)
        PROVE  Holds(u, q, r)'
    BY <1>1, <2>1, <2>3, PoolAssumption DEF PoolTypeOK, Holds, PoolAssumption
  <2> QED BY <1>0, <2>1, <2>2, <2>3
<1>2. ASSUME NEW t \in Threads, NEW s \in Slots, GiveBack(t, s)
      PROVE  Kept
  <2>1. lease[t][s] \in Resources
    BY <1>2 DEF GiveBack, PoolTypeOK
  <2>2. free' = Append(free, lease[t][s]) /\ Len(free) \in Nat
    BY <1>2 DEF GiveBack, PoolTypeOK
  <2>3. FreeSet \subseteq FreeSet' /\ lease[t][s] \in FreeSet'
    BY <2>1, <2>2, PushBack DEF FreeSet, PoolTypeOK
  <2>4. ASSUME NEW u \in Threads, NEW q \in Slots, Holds(u, q, r)
        PROVE  Holds(u, q, r)' \/ r = lease[t][s]
    BY <1>2, <2>4 DEF GiveBack, PoolTypeOK, Holds
  <2> QED BY <1>0, <2>3, <2>4
<1>3. ASSUME UNCHANGED <<free, lease>>,
             \A u \in Threads : \/ pc'[u] # "notify"
                                \/ UNCHANGED <<pc[u], dst[u]>>
      PROVE  Kept
  BY <1>0, <1>3 DEF Holds, FreeSet
<1>4. ASSUME NEW t \in Threads, NEW s \in Slots, Acquire(t, s)
      PROVE  Kept
  <2>1. CASE Take(t, s) /\ UNCHANGED <<pc, dst, src>>
    BY <1>1, <1>4, <2>1 DEF Acquire
  <2>2. CASE Sleep(t, s)
    BY <1>3, <2>2 DEF Sleep, PoolTypeOK
  <2> QED BY <1>4, <2>1, <2>2 DEF Acquire
<1>5. ASSUME NEW t \in Threads, Recheck(t)
      PROVE  Kept
  <2>0. dst[t] \in Slots /\ lease[t][dst[t]] = NoResource
    BY <1>5 DEF ControlOK, Recheck
  <2>1. CASE /\ Take(t, dst[t])
             /\ pc' = [pc EXCEPT ![t] = "idle"]
             /\ dst' = [dst EXCEPT ![t] = NoSlot]
    BY <1>1, <1>5, <2>0, <2>1 DEF Recheck
  <2>2. CASE Sleep(t, dst[t])
    BY <1>3, <2>2 DEF Sleep, PoolTypeOK
  <2> QED BY <1>5, <2>1, <2>2 DEF Recheck
<1>6. ASSUME NEW t \in Threads, SpuriousWakeup(t)
      PROVE  Kept
  BY <1>3, <1>6 DEF SpuriousWakeup, PoolTypeOK
<1>7. ASSUME NEW t \in Threads, NEW s \in Slots, TryAcquire(t, s)
      PROVE  Kept
  BY <1>1, <1>7 DEF TryAcquire
<1>8. ASSUME NEW t \in Threads, NEW s \in Slots, NEW from \in Slots,
             MoveAssign(t, s, from)
      PROVE  Kept
  <2>1. CASE GiveBack(t, s)
    BY <1>2, <2>1
  <2>2. CASE /\ pc[t] = "idle"
             /\ lease[t][s] = NoResource
             /\ lease' = [lease EXCEPT ![t][s] = lease[t][from],
                                       ![t][from] = NoResource]
             /\ UNCHANGED <<free, pc, dst, src>>
    <3>1. FreeSet' = FreeSet
      BY <2>2 DEF FreeSet
    <3>2. lease'[t][s] = lease[t][from]
      BY <1>8, <2>2 DEF MoveAssign, PoolTypeOK
    <3>3. ASSUME NEW u \in Threads, NEW q \in Slots, Holds(u, q, r)
          PROVE  Holds(u, q, r)' \/ Holds(t, s, r)'
      <4>1. CASE u = t /\ q = from
        BY <2>2, <3>2, <3>3, <4>1 DEF Holds
      <4>2. CASE u = t /\ q = s
        BY <2>2, <3>3, <4>2, PoolAssumption DEF Holds, PoolAssumption
      <4>3. CASE ~(u = t /\ q \in {s, from})
        <5>1. lease'[u][q] = lease[u][q]
          BY <2>2, <4>3 DEF PoolTypeOK
        <5> QED BY <2>2, <3>3, <5>1 DEF Holds
      <4> QED BY <4>1, <4>2, <4>3
    <3> QED BY <1>0, <3>1, <3>3
  <2> QED BY <1>8, <2>1, <2>2 DEF MoveAssign
<1>9. ASSUME NEW t \in Threads, Notify(t)
      PROVE  Kept
  <2>0. /\ dst[t] \in Slots /\ src[t] # dst[t] /\ pc[t] = "notify"
        /\ src[t] \in Slots \cup {NoSlot}
    BY <1>9 DEF ControlOK, Notify, PoolTypeOK
  <2>1. /\ lease' = [lease EXCEPT ![t] = AfterRelease(t)]
        /\ dst' = [dst EXCEPT ![t] = NoSlot]
        /\ FreeSet' = FreeSet
    BY <1>9 DEF Notify, FreeSet
  <2>2. /\ pc'[t] = "idle"
        /\ \A u \in Threads \ {t} :
              pc'[u] = pc[u] \/ (pc[u] = "waiting" /\ pc'[u] = "woken")
    BY <1>9 DEF Notify, PoolTypeOK
  <2>3. ASSUME NEW u \in Threads, NEW q \in Slots, Holds(u, q, r)
        PROVE  \E w \in Slots : Holds(u, w, r)'
    <3>1. CASE u # t
      BY <2>1, <2>2, <2>3, <3>1 DEF PoolTypeOK, Holds
    <3>2. CASE u = t /\ q = src[t]
      <4>1. AfterRelease(t)[dst[t]] = r
        BY <2>0, <2>3, <3>2, PoolAssumption
           DEF AfterRelease, PoolTypeOK, Holds, PoolAssumption
      <4>2. lease'[t][dst[t]] = r
        BY <2>1, <4>1 DEF PoolTypeOK
      <4> QED BY <2>0, <2>2, <3>2, <4>2 DEF Holds
    <3>3. CASE u = t /\ q # src[t]
      <4>1. q # dst[t] /\ lease[t][q] = r
        BY <2>0, <2>3, <3>3 DEF Holds
      <4>2. AfterRelease(t)[q] = r
        BY <2>0, <3>3, <4>1 DEF AfterRelease, PoolTypeOK
      <4>3. lease'[t][q] = r
        BY <2>1, <4>2 DEF PoolTypeOK
      <4> QED BY <2>2, <3>3, <4>3 DEF Holds
    <3> QED BY <3>1, <3>2, <3>3
  <2> QED BY <1>0, <2>1, <2>3
<1>10. CASE UNCHANGED poolVars
  BY <1>3, <1>10 DEF poolVars
<1> QED
  BY <1>2, <1>4, <1>5, <1>6, <1>7, <1>8, <1>9, <1>10
     DEF PoolNext, Calls, Release

\* No backend ever leaks, for every number of threads, Lease objects and
\* backends: it is free or some Lease will return it.
THEOREM PoolNothingLost == PoolSpec => []NothingLost
<1>1. PoolInit => NothingLost
  BY DEF PoolInit, NothingLost
<1> QED BY Initial, Inductive, NothingLostStep, <1>1, PTL DEF PoolSpec

-----------------------------------------------------------------------------
(* Refinement: the pool is a lease table *)

\* The table names the one Lease object that holds a resource, if one does.
OwnerOK ==
    \A r \in Resources :
        /\ \A t \in Threads, s \in Slots : Holds(t, s, r) <=> Owner[r] = <<t, s>>
        /\ (\A t \in Threads, s \in Slots : ~Holds(t, s, r)) => Owner[r] = NoResource

\* That a resource has at most one holder makes the choice in Owner definite.
LEMMA OwnerIs == IInv => OwnerOK
<1> SUFFICES ASSUME IInv, NEW r \in Resources
             PROVE  /\ \A t \in Threads, s \in Slots :
                          Holds(t, s, r) <=> Owner[r] = <<t, s>>
                    /\ (\A t \in Threads, s \in Slots : ~Holds(t, s, r)) =>
                          Owner[r] = NoResource
  BY DEF OwnerOK
<1> DEFINE held == \E t \in Threads, s \in Slots : Holds(t, s, r)
           pick == CHOOSE h \in Threads \X Slots : Holds(h[1], h[2], r)
<1>1. Owner[r] = IF r \notin FreeSet /\ held THEN pick ELSE NoResource
  BY DEF Owner
<1>2. CASE ~held
  BY <1>1, <1>2, PoolAssumption DEF PoolAssumption
<1>3. CASE held
  <2>1. PICK t \in Threads, s \in Slots : Holds(t, s, r)
    BY <1>3
  <2>2. \E h \in Threads \X Slots : Holds(h[1], h[2], r)
    <3>1. <<t, s>> \in Threads \X Slots /\ Holds(<<t, s>>[1], <<t, s>>[2], r)
      BY <2>1
    <3> QED BY <3>1
  <2>3. pick \in Threads \X Slots /\ Holds(pick[1], pick[2], r)
    BY <2>2
  <2>4. pick = <<t, s>>
    BY <2>1, <2>3 DEF IInv, ExclusiveLease
  <2>5. /\ \A u \in Threads, q \in Slots : Holds(u, q, r) => u = t /\ q = s
        /\ r \notin FreeSet
    BY <2>1 DEF IInv, ExclusiveLease
  <2> HIDE DEF pick, held
  <2> QED BY <1>1, <1>3, <2>1, <2>4, <2>5
<1> QED BY <1>2, <1>3

\* The same after a step.
LEMMA OwnerIsNext == IInv' => OwnerOK'
BY OwnerIs, PTL

\* Owner follows the holders: unchanged where they are.
LEMMA OwnerFollows ==
    ASSUME OwnerOK, OwnerOK', NEW r \in Resources,
           \A t \in Threads, s \in Slots : Holds(t, s, r)' <=> Holds(t, s, r)
    PROVE  Owner'[r] = Owner[r]
<1>1. CASE \E t \in Threads, s \in Slots : Holds(t, s, r)
  <2>1. PICK t \in Threads, s \in Slots : Holds(t, s, r)
    BY <1>1
  <2>2. Owner[r] = <<t, s>> /\ Owner'[r] = <<t, s>>
    BY <2>1 DEF OwnerOK
  <2> QED BY <2>2
<1>2. CASE \A t \in Threads, s \in Slots : ~Holds(t, s, r)
  BY <1>2 DEF OwnerOK
<1> QED BY <1>1, <1>2

\* No holder changes.
LEMMA SameOwners ==
    ASSUME OwnerOK, OwnerOK',
           \A t \in Threads, s \in Slots, r \in Resources :
              Holds(t, s, r)' <=> Holds(t, s, r)
    PROVE  UNCHANGED Owner
<1>1. \A r \in Resources : Owner'[r] = Owner[r]
  BY OwnerFollows
<1>2. Owner = [r \in Resources |-> Owner[r]] /\ Owner' = [r \in Resources |-> Owner'[r]]
  BY DEF Owner
<1> QED BY <1>1, <1>2

\* One resource changes its holder to h, or to nobody.
LEMMA OneOwner ==
    ASSUME OwnerOK, OwnerOK', NEW r \in Resources, NEW h,
           \A t \in Threads, s \in Slots, x \in Resources \ {r} :
              Holds(t, s, x)' <=> Holds(t, s, x),
           \/ h = NoResource /\ \A t \in Threads, s \in Slots : ~Holds(t, s, r)'
           \/ \E t \in Threads, s \in Slots : h = <<t, s>> /\ Holds(t, s, r)'
    PROVE  Owner' = [Owner EXCEPT ![r] = h]
<1>1. \A x \in Resources \ {r} : Owner'[x] = Owner[x]
  BY OwnerFollows
<1>2. Owner'[r] = h
  BY DEF OwnerOK
<1>3. /\ Owner = [x \in Resources |-> Owner[x]]
      /\ Owner' = [x \in Resources |-> Owner'[x]]
  BY DEF Owner
<1> QED BY <1>1, <1>2, <1>3

\* pop_back into a Lease is a grant.
LEMMA TakeGrants ==
    ASSUME IInv, OwnerOK, OwnerOK', NEW t \in Threads, NEW s \in Slots,
           Take(t, s), lease[t][s] = NoResource, pc[t] # "notify",
           \/ pc' = pc /\ dst' = dst
           \/ /\ pc' = [pc EXCEPT ![t] = "idle"]
              /\ dst' = [dst EXCEPT ![t] = NoSlot]
    PROVE  Table!Next
<1> USE DEF IInv
<1>1. PICK r \in FreeSet :
         /\ r \in Resources
         /\ lease' = [lease EXCEPT ![t][s] = r]
  BY TakeEffect
<1>2. ASSUME NEW u \in Threads, NEW q \in Slots, NEW x \in Resources
      PROVE  Holds(u, q, x)' <=> Holds(u, q, x) \/ (u = t /\ q = s /\ x = r)
  <2>1. CASE u = t /\ q = s
    BY <1>1, <2>1, PoolAssumption DEF PoolAssumption, PoolTypeOK, Holds
  <2>2. CASE ~(u = t /\ q = s)
    <3>1. lease'[u][q] = lease[u][q]
      BY <1>1, <2>2 DEF PoolTypeOK
    <3>2. pc'[u] = "notify" /\ dst'[u] = q <=> pc[u] = "notify" /\ dst[u] = q
      BY DEF PoolTypeOK
    <3> QED BY <2>2, <3>1, <3>2 DEF Holds
  <2> QED BY <2>1, <2>2
<1>3. Owner' = [Owner EXCEPT ![r] = <<t, s>>]
  <2>1. \A u \in Threads, q \in Slots, x \in Resources \ {r} :
           Holds(u, q, x)' <=> Holds(u, q, x)
    BY <1>2
  <2>2. Holds(t, s, r)'
    BY <1>1, <1>2
  <2> QED BY <1>1, <2>1, <2>2, OneOwner
<1>4. Owner[r] = NoResource
  BY <1>1 DEF ExclusiveLease, OwnerOK
<1>5. \A x \in Resources : Owner[x] # <<t, s>>
  BY PoolAssumption DEF PoolAssumption, OwnerOK, Holds
<1>6. <<t, s>> \in Threads \X Slots
  OBVIOUS
<1>7. Table!Grant(r, <<t, s>>)
  BY <1>3, <1>4, <1>5 DEF Table!Grant
<1> QED BY <1>1, <1>6, <1>7 DEF Table!Next

\* The locked half of give_back() is the return.
LEMMA GiveBackReturns ==
    ASSUME IInv, OwnerOK, OwnerOK', NEW t \in Threads, NEW s \in Slots,
           GiveBack(t, s)
    PROVE  Table!Next
<1> USE DEF IInv
<1>1. PICK r \in Resources : lease[t][s] = r /\ Holds(t, s, r)
  BY DEF GiveBack, PoolTypeOK, Holds
<1>2. ASSUME NEW u \in Threads, NEW q \in Slots, NEW x \in Resources
      PROVE  Holds(u, q, x)' <=> Holds(u, q, x) /\ ~(u = t /\ q = s)
  BY DEF GiveBack, PoolTypeOK, Holds
<1>3. \A u \in Threads, q \in Slots, x \in Resources \ {r} :
         Holds(u, q, x)' <=> Holds(u, q, x)
  BY <1>1, <1>2 DEF Holds
<1>4. \A u \in Threads, q \in Slots : ~Holds(u, q, r)'
  BY <1>1, <1>2 DEF ExclusiveLease
<1>5. Owner' = [Owner EXCEPT ![r] = NoResource]
  BY <1>1, <1>3, <1>4, OneOwner
<1>6. Owner[r] # NoResource
  <2>1. Owner[r] = <<t, s>> /\ <<t, s>> \in Threads \X Slots
    BY <1>1 DEF OwnerOK
  <2> QED BY <2>1, PoolAssumption DEF PoolAssumption
<1>7. Table!Return(r)
  BY <1>5, <1>6 DEF Table!Return
<1> QED BY <1>1, <1>7 DEF Table!Next

\* The second half of a move hands the resource over without freeing it.
LEMMA MoveHandsOver ==
    ASSUME IInv, OwnerOK, OwnerOK', NEW t \in Threads,
           NEW s \in Slots, NEW from \in Slots, NEW r \in Resources,
           Holds(t, from, r), \A x \in Resources : ~Holds(t, s, x),
           Holds(t, s, r)',
           \A u \in Threads, q \in Slots, x \in Resources \ {r} :
              Holds(u, q, x)' <=> Holds(u, q, x)
    PROVE  Table!Next
<1>1. Owner' = [Owner EXCEPT ![r] = <<t, s>>]
  BY OneOwner
<1>2. Owner[r] # NoResource /\ \A x \in Resources : Owner[x] # <<t, s>>
  <2>1. Owner[r] = <<t, from>> /\ <<t, from>> \in Threads \X Slots
    BY DEF OwnerOK
  <2>2. \A x \in Resources : Owner[x] # <<t, s>>
    BY DEF OwnerOK
  <2> QED BY <2>1, <2>2, PoolAssumption DEF PoolAssumption
<1>3. <<t, s>> \in Threads \X Slots
  OBVIOUS
<1>4. Table!HandOver(r, <<t, s>>)
  BY <1>1, <1>2 DEF Table!HandOver
<1> QED BY <1>3, <1>4 DEF Table!Next

\* Every step of the pool is a step of the table, or none.
LEMMA TableStep ==
    IInv /\ IInv' /\ [PoolNext]_poolVars => [Table!Next]_Owner
<1> SUFFICES ASSUME IInv, IInv', [PoolNext]_poolVars
             PROVE  Table!Next \/ UNCHANGED Owner
  OBVIOUS
<1> USE DEF IInv
<1>0. OwnerOK /\ OwnerOK'
  BY OwnerIs, OwnerIsNext
<1>1. ASSUME UNCHANGED lease,
             \A u \in Threads : \/ pc[u] # "notify" /\ pc'[u] # "notify"
                                \/ UNCHANGED <<pc[u], dst[u]>>
      PROVE  UNCHANGED Owner
  <2>1. \A u \in Threads, q \in Slots, x \in Resources :
           Holds(u, q, x)' <=> Holds(u, q, x)
    BY <1>1 DEF Holds
  <2> QED BY <1>0, <2>1, SameOwners
<1>2. ASSUME NEW t \in Threads, NEW s \in Slots, Acquire(t, s)
      PROVE  Table!Next \/ UNCHANGED Owner
  <2>1. CASE Take(t, s) /\ UNCHANGED <<pc, dst, src>>
    BY <1>0, <1>2, <2>1, TakeGrants DEF Acquire
  <2>2. CASE Sleep(t, s)
    BY <1>1, <1>2, <2>2 DEF Acquire, Sleep, PoolTypeOK
  <2> QED BY <1>2, <2>1, <2>2 DEF Acquire
<1>3. ASSUME NEW t \in Threads, Recheck(t)
      PROVE  Table!Next \/ UNCHANGED Owner
  <2>0. dst[t] \in Slots /\ lease[t][dst[t]] = NoResource /\ pc[t] = "woken"
    BY <1>3 DEF ControlOK, Recheck
  <2>1. CASE /\ Take(t, dst[t])
             /\ pc' = [pc EXCEPT ![t] = "idle"]
             /\ dst' = [dst EXCEPT ![t] = NoSlot]
    BY <1>0, <2>0, <2>1, TakeGrants
  <2>2. CASE Sleep(t, dst[t])
    BY <1>1, <2>0, <2>2 DEF Sleep, PoolTypeOK
  <2> QED BY <1>3, <2>1, <2>2 DEF Recheck
<1>4. ASSUME NEW t \in Threads, SpuriousWakeup(t)
      PROVE  UNCHANGED Owner
  BY <1>1, <1>4 DEF SpuriousWakeup, PoolTypeOK
<1>5. ASSUME NEW t \in Threads, NEW s \in Slots, TryAcquire(t, s)
      PROVE  Table!Next
  BY <1>0, <1>5, TakeGrants DEF TryAcquire
<1>6. ASSUME NEW t \in Threads, NEW s \in Slots, Release(t, s)
      PROVE  Table!Next
  BY <1>0, <1>6, GiveBackReturns DEF Release
<1>7. ASSUME NEW t \in Threads, NEW s \in Slots, NEW from \in Slots,
             MoveAssign(t, s, from)
      PROVE  Table!Next
  <2>1. CASE GiveBack(t, s)
    BY <1>0, <2>1, GiveBackReturns
  <2>2. CASE /\ pc[t] = "idle"
             /\ lease[t][s] = NoResource
             /\ lease[t][from] # NoResource
             /\ lease' = [lease EXCEPT ![t][s] = lease[t][from],
                                       ![t][from] = NoResource]
             /\ UNCHANGED <<free, pc, dst, src>>
    <3>0. s # from /\ lease[t][from] \in Resources
      BY <1>7, <2>2 DEF MoveAssign, PoolTypeOK
    <3>1. PICK r \in Resources : r = lease[t][from]
      BY <3>0
    <3>2. lease'[t][s] = r /\ lease'[t][from] = NoResource
      BY <2>2, <3>0, <3>1 DEF PoolTypeOK
    <3>3. Holds(t, from, r) /\ Holds(t, s, r)'
      BY <2>2, <3>1, <3>2 DEF Holds
    <3>4. \A x \in Resources : ~Holds(t, s, x)
      BY <2>2, PoolAssumption DEF PoolAssumption, Holds
    <3>5. ASSUME NEW u \in Threads, NEW q \in Slots, NEW x \in Resources \ {r}
          PROVE  Holds(u, q, x)' <=> Holds(u, q, x)
      <4>1. CASE u = t /\ q \in {s, from}
        BY <2>2, <3>1, <3>2, <4>1, PoolAssumption DEF PoolAssumption, Holds
      <4>2. CASE ~(u = t /\ q \in {s, from})
        <5>1. lease'[u][q] = lease[u][q]
          BY <2>2, <4>2 DEF PoolTypeOK
        <5> QED BY <2>2, <5>1 DEF Holds
      <4> QED BY <4>1, <4>2
    <3> QED BY <1>0, <3>1, <3>3, <3>4, <3>5, MoveHandsOver
  <2> QED BY <1>7, <2>1, <2>2 DEF MoveAssign
<1>8. ASSUME NEW t \in Threads, Notify(t)
      PROVE  Table!Next \/ UNCHANGED Owner
  <2>0. /\ dst[t] \in Slots /\ src[t] # dst[t] /\ pc[t] = "notify"
        /\ src[t] \in Slots \cup {NoSlot}
    BY <1>8 DEF ControlOK, Notify, PoolTypeOK
  <2>1. /\ lease' = [lease EXCEPT ![t] = AfterRelease(t)]
        /\ lease'[t] = AfterRelease(t)
        /\ dst' = [dst EXCEPT ![t] = NoSlot]
    BY <1>8 DEF Notify, PoolTypeOK
  <2>2. /\ pc'[t] = "idle"
        /\ \A u \in Threads \ {t} :
              pc'[u] = pc[u] \/ (pc[u] = "waiting" /\ pc'[u] = "woken")
    BY <1>8 DEF Notify, PoolTypeOK
  <2>3. ASSUME NEW u \in Threads \ {t}, NEW q \in Slots, NEW x \in Resources
        PROVE  Holds(u, q, x)' <=> Holds(u, q, x)
    <3>1. lease'[u] = lease[u] /\ dst'[u] = dst[u]
      BY <2>1 DEF PoolTypeOK
    <3>2. pc'[u] = "notify" <=> pc[u] = "notify"
      BY <2>2
    <3> QED BY <3>1, <3>2 DEF Holds
  <2>4. \A q \in Slots, x \in Resources :
           /\ Holds(t, q, x)' <=> AfterRelease(t)[q] = x
           /\ Holds(t, q, x) <=> lease[t][q] = x /\ q # dst[t]
    BY <2>0, <2>1, <2>2 DEF Holds
  <2>5. CASE src[t] = NoSlot \/ lease[t][src[t]] = NoResource
    <3>1. \A q \in Slots :
             AfterRelease(t)[q] = IF q = dst[t] THEN NoResource ELSE lease[t][q]
      BY <2>0, <2>5, PoolAssumption DEF PoolAssumption, AfterRelease, PoolTypeOK
    <3>2. \A q \in Slots, x \in Resources : Holds(t, q, x)' <=> Holds(t, q, x)
      BY <2>4, <3>1, PoolAssumption DEF PoolAssumption
    <3> QED BY <1>0, <2>3, <3>2, SameOwners
  <2>6. CASE src[t] # NoSlot /\ lease[t][src[t]] # NoResource
    <3>0. src[t] \in Slots /\ lease[t][src[t]] \in Resources
      BY <2>0, <2>6 DEF PoolTypeOK
    <3>1. PICK r \in Resources, from \in Slots, to \in Slots :
              r = lease[t][src[t]] /\ from = src[t] /\ to = dst[t]
      BY <2>0, <3>0
    <3>2. \A q \in Slots :
             AfterRelease(t)[q] = IF q = src[t] THEN NoResource
                                  ELSE IF q = dst[t] THEN r ELSE lease[t][q]
      BY <2>0, <2>6, <3>0, <3>1 DEF AfterRelease, PoolTypeOK
    <3>3. /\ Holds(t, from, r) /\ Holds(t, to, r)'
          /\ \A x \in Resources : ~Holds(t, to, x)
      BY <2>0, <2>4, <3>0, <3>1, <3>2
    <3>4. \A q \in Slots, x \in Resources \ {r} :
             Holds(t, q, x)' <=> Holds(t, q, x)
      BY <2>0, <2>4, <3>0, <3>1, <3>2, PoolAssumption DEF PoolAssumption
    <3>5. \A u \in Threads, q \in Slots, x \in Resources \ {r} :
             Holds(u, q, x)' <=> Holds(u, q, x)
      BY <2>3, <3>4
    <3> QED BY <1>0, <2>0, <3>0, <3>1, <3>3, <3>5, MoveHandsOver
  <2> QED BY <2>5, <2>6
<1>9. CASE UNCHANGED poolVars
  BY <1>1, <1>9 DEF poolVars
<1> QED
  BY <1>2, <1>3, <1>4, <1>5, <1>6, <1>7, <1>8, <1>9 DEF PoolNext, Calls

\* The pool implements the lease table: what a user of it can rely on is
\* LeaseTable, which ModelServer uses in its place.
THEOREM PoolImplementsTable == PoolSpec => ImplementsLeaseTable
<1>1. PoolInit => Table!Init
  <2> SUFFICES ASSUME PoolInit PROVE Owner = [r \in Resources |-> NoResource]
    BY DEF Table!Init
  <2>1. \A r \in Resources, t \in Threads, s \in Slots : ~Holds(t, s, r)
    BY PoolAssumption DEF PoolAssumption, PoolInit, Holds
  <2> QED BY <2>1 DEF Owner
<1> QED
  BY Initial, Inductive, TableStep, <1>1, PTL
     DEF PoolSpec, ImplementsLeaseTable, Table!Spec
=============================================================================
