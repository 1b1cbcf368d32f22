-------------------------- MODULE ModelServerProofs --------------------------
(***************************************************************************)
(* Proofs about ModelServer for every set of threads, every pool and any   *)
(* number of loads.                                                        *)
(***************************************************************************)
EXTENDS ModelServer, TLAPS

\* A handler inside model_mutex: a load, or a call outside the pool.
Locked(t) ==
    \/ at[t] \in {"loading", "swapped"}
    \/ at[t] = "running" /\ ptr[t] \notin Workers

\* What it means to be inside: the mutex or the lease is one's own.
LocksOK ==
    /\ \A t \in Handlers : Locked(t) => mutex = t
    /\ \A t \in Handlers :
          at[t] = "running" /\ ptr[t] \in Workers => owner[ptr[t]] = t

\* A pool rules every load out, and only a pool puts a call on a worker.
PoolOK ==
    /\ pooled => backend = 0 /\ loaded = 0
    /\ \A t \in Handlers : kind[t] = "load" => ~pooled
    /\ \A t \in Handlers : at[t] \in {"loading", "swapped"} => kind[t] = "load"
    /\ \A t \in Handlers :
          at[t] = "running" /\ ptr[t] \in Workers => pooled /\ kind[t] = "pure"

\* The disclaimer is synthesized inside call_once's function only.
OnceOK == \A t \in Handlers : at[t] = "disclosing" => once = t

\* What a load in progress leaves inconsistent, it is inside the mutex for.
LoadOK ==
    /\ loaded # backend => \E t \in Handlers : at[t] = "swapped"
    /\ ~ready /\ ~thrown => \E t \in Handlers : at[t] \in {"loading", "swapped"}

\* Before its call a handler has no worker of the pool, and none at all if it
\* captures the pointer by reference.
ReferenceOK ==
    \A t \in Handlers :
        /\ at[t] # "running" => ptr[t] \notin Workers
        /\ kind[t] \in ByReference /\ at[t] = "queued" => ptr[t] = None

\* The inductive invariant.
IInv ==
    /\ ServerTypeOK /\ LocksOK /\ PoolOK /\ OnceOK /\ LoadOK /\ ReferenceOK
    /\ ByReferenceIsCurrent

\* The server's start establishes the invariant.
LEMMA Initial == ServerInit => IInv
<1> SUFFICES ASSUME ServerInit PROVE IInv
  OBVIOUS
<1>1. ServerTypeOK
  <2>1. owner \in [Workers -> Handlers \cup {Nobody}]
    BY DEF ServerInit, Pool!Init
  <2>2. 0 \in Versions
    BY ServerAssumption DEF ServerAssumption, Versions
  <2> QED BY <2>1, <2>2 DEF ServerInit, ServerTypeOK, ServerStages
<1>2. LocksOK /\ PoolOK /\ OnceOK /\ LoadOK /\ ReferenceOK /\ ByReferenceIsCurrent
  BY ServerAssumption
     DEF ServerAssumption, Kinds, ByReference, ServerInit, LocksOK, Locked, PoolOK, OnceOK,
         LoadOK, ReferenceOK, ByReferenceIsCurrent
<1> QED BY <1>1, <1>2 DEF IInv

\* Every step keeps it, one action after another.
LEMMA Inductive == IInv /\ [ServerNext]_serverVars => IInv'
<1> SUFFICES ASSUME IInv, [ServerNext]_serverVars PROVE IInv'
  OBVIOUS
<1> USE ServerAssumption DEF IInv, ServerAssumption, disclaimer, ByReference
<1>1. ASSUME NEW t \in Handlers, NEW k \in Kinds, Arrive(t, k)
      PROVE  IInv'
  <2>1. ServerTypeOK'
    BY <1>1 DEF ServerTypeOK, Arrive, ServerStages
  <2>2. \A u \in Handlers : u # t => at'[u] = at[u] /\ kind'[u] = kind[u]
    BY <1>1 DEF ServerTypeOK, Arrive
  <2>3. /\ at[t] = "idle" /\ at'[t] = "admitted" /\ kind'[t] = k
        /\ k = "load" => ~pooled
        /\ UNCHANGED <<backend, loaded, ready, mutex, pooled, owner, ptr, disclaimer, thrown>>
    BY <1>1 DEF ServerTypeOK, Arrive, Admitted
  <2>4. LocksOK'
    BY <2>2, <2>3 DEF LocksOK, Locked
  <2>5. PoolOK'
    BY <2>2, <2>3 DEF PoolOK
  <2>6. OnceOK' /\ LoadOK'
    BY <2>2, <2>3 DEF OnceOK, LoadOK
  <2>7. ReferenceOK' /\ ByReferenceIsCurrent'
    BY <2>2, <2>3 DEF ReferenceOK, ByReferenceIsCurrent
  <2> QED BY <2>1, <2>4, <2>5, <2>6, <2>7
<1>2. ASSUME NEW t \in Handlers, NEW w \in Workers, Lease(t, w)
      PROVE  IInv'
  <2>1. ServerTypeOK'
    BY <1>2 DEF ServerTypeOK, Lease, Pool!Grant, ServerStages
  <2>2. \A u \in Handlers : u # t => at'[u] = at[u] /\ ptr'[u] = ptr[u]
    BY <1>2 DEF ServerTypeOK, Lease
  <2>3. /\ at[t] = "admitted" /\ at'[t] = "running" /\ kind[t] = "pure"
        /\ ptr'[t] = w /\ pooled
        /\ owner[w] = Nobody /\ owner' = [owner EXCEPT ![w] = t]
        /\ UNCHANGED <<backend, loaded, ready, mutex, pooled, kind, disclaimer, thrown>>
    BY <1>2 DEF ServerTypeOK, Lease, Pool!Grant
  <2>4. LocksOK'
    BY <2>2, <2>3 DEF LocksOK, Locked, ServerTypeOK
  <2>5. PoolOK'
    BY <2>2, <2>3 DEF PoolOK
  <2>6. OnceOK' /\ LoadOK'
    BY <2>2, <2>3 DEF OnceOK, LoadOK
  <2>7. ReferenceOK'
    BY <2>2, <2>3 DEF ReferenceOK
  <2>8. ByReferenceIsCurrent'
    BY <2>2, <2>3 DEF ByReferenceIsCurrent
  <2> QED BY <2>1, <2>4, <2>5, <2>6, <2>7, <2>8
<1>3. ASSUME NEW t \in Handlers, Prepare(t)
      PROVE  IInv'
  <2>1. ServerTypeOK'
    BY <1>3 DEF ServerTypeOK, Prepare, ServerStages, Versions
  <2>2. \A u \in Handlers : u # t => at'[u] = at[u] /\ ptr'[u] = ptr[u]
    BY <1>3 DEF ServerTypeOK, Prepare
  <2>3. /\ at[t] = "admitted" /\ at'[t] = "queued"
        /\ kind[t] \in ByReference => ptr'[t] = None
        /\ UNCHANGED <<backend, loaded, ready, mutex, pooled, owner, kind, disclaimer, thrown>>
    BY <1>3 DEF ServerTypeOK, Prepare, ReadsPointerFirst
  <2>4. LocksOK'
    BY <2>2, <2>3 DEF LocksOK, Locked
  <2>5. PoolOK'
    BY <2>2, <2>3 DEF PoolOK
  <2>6. OnceOK' /\ LoadOK'
    BY <2>2, <2>3 DEF OnceOK, LoadOK
  <2>7. ReferenceOK'
    <3>1. ptr'[t] \in Versions \cup {None}
      BY <1>3 DEF ServerTypeOK, Prepare, Versions
    <3>2. ptr'[t] \notin Workers
      BY <3>1 DEF Versions
    <3> QED BY <2>2, <2>3, <3>2 DEF ReferenceOK
  <2>8. ByReferenceIsCurrent'
    BY <2>2, <2>3 DEF ByReferenceIsCurrent
  <2> QED BY <2>1, <2>4, <2>5, <2>6, <2>7, <2>8
<1>4. ASSUME NEW t \in Handlers, Call(t)
      PROVE  IInv'
  <2>1. ServerTypeOK'
    BY <1>4 DEF ServerTypeOK, Call, ServerStages, Versions
  <2>2. \A u \in Handlers : u # t => at'[u] = at[u] /\ ptr'[u] = ptr[u]
    BY <1>4 DEF ServerTypeOK, Call
  <2>3. /\ at[t] = "queued" /\ at'[t] = "running" /\ kind[t] # "load"
        /\ mutex = Nobody /\ mutex' = t
        /\ ptr'[t] = IF ptr[t] = None THEN backend ELSE ptr[t]
        /\ UNCHANGED <<backend, loaded, ready, pooled, owner, kind, disclaimer, thrown>>
    BY <1>4 DEF ServerTypeOK, Call
  <2>4. ptr'[t] \notin Workers
    BY <2>3 DEF ReferenceOK, ServerTypeOK, Versions
  <2>5. LocksOK'
    BY <2>2, <2>3, <2>4 DEF LocksOK, Locked
  <2>6. PoolOK'
    BY <2>2, <2>3, <2>4 DEF PoolOK
  <2>7. OnceOK' /\ LoadOK'
    BY <2>2, <2>3 DEF OnceOK, LoadOK
  <2>8. ReferenceOK' /\ ByReferenceIsCurrent'
    BY <2>2, <2>3 DEF ReferenceOK, ByReferenceIsCurrent
  <2> QED BY <2>1, <2>5, <2>6, <2>7, <2>8
<1>5. ASSUME NEW t \in Handlers, Return(t)
      PROVE  IInv'
  <2>1. ServerTypeOK'
    BY <1>5 DEF ServerTypeOK, Return, Leave, EndOnce, Pool!Return, ServerStages
  <2>2. \A u \in Handlers : u # t => /\ at'[u] = at[u] /\ ptr'[u] = ptr[u]
                                   /\ kind'[u] = kind[u]
    BY <1>5 DEF ServerTypeOK, Return, Leave
  <2>3. /\ at[t] = "running" /\ at'[t] = "idle" /\ ptr'[t] = None /\ kind'[t] = None
        /\ once' = once \/ (once = t /\ once' = Nobody)
        /\ UNCHANGED <<backend, loaded, ready, pooled, thrown>>
    BY <1>5 DEF ServerTypeOK, Return, Leave, EndOnce
  <2>4. LocksOK'
    <3>1. CASE ptr[t] \in Workers
      <4>1. mutex' = mutex /\ owner' = [owner EXCEPT ![ptr[t]] = Nobody]
        BY <1>5, <3>1 DEF Return, Pool!Return
      <4>2. ASSUME NEW u \in Handlers, u # t, at[u] = "running", ptr[u] \in Workers
            PROVE  owner'[ptr[u]] = u
        BY <2>3, <3>1, <4>1, <4>2 DEF LocksOK, ServerTypeOK
      <4> QED BY <2>2, <2>3, <4>1, <4>2 DEF LocksOK, Locked
    <3>2. CASE ptr[t] \notin Workers
      <4>1. mutex' = Nobody /\ owner' = owner
        BY <1>5, <3>2 DEF Return
      <4>2. \A u \in Handlers : u # t => ~Locked(u)
        BY <2>3, <3>2 DEF LocksOK, Locked
      <4> QED BY <2>2, <2>3, <4>1, <4>2 DEF LocksOK, Locked
    <3> QED BY <3>1, <3>2
  <2>5. PoolOK'
    BY <2>2, <2>3 DEF PoolOK, Kinds
  <2>6. OnceOK' /\ LoadOK'
    BY <2>2, <2>3 DEF OnceOK, LoadOK
  <2>7. ReferenceOK' /\ ByReferenceIsCurrent'
    BY <2>2, <2>3 DEF ReferenceOK, ByReferenceIsCurrent, ServerTypeOK
  <2> QED BY <2>1, <2>4, <2>5, <2>6, <2>7
<1>6. ASSUME NEW t \in Handlers, BeginLoad(t)
      PROVE  IInv'
  <2>1. ServerTypeOK'
    BY <1>6 DEF ServerTypeOK, BeginLoad, ServerStages
  <2>2. \A u \in Handlers : u # t => at'[u] = at[u]
    BY <1>6 DEF ServerTypeOK, BeginLoad
  <2>3. /\ at[t] = "queued" /\ at'[t] = "loading" /\ kind[t] = "load"
        /\ mutex = Nobody /\ mutex' = t
        /\ UNCHANGED <<backend, loaded, pooled, owner, kind, ptr, disclaimer, thrown>>
    BY <1>6 DEF ServerTypeOK, BeginLoad
  <2>4. LocksOK'
    BY <2>2, <2>3 DEF LocksOK, Locked
  <2>5. PoolOK'
    BY <2>2, <2>3 DEF PoolOK
  <2>6. OnceOK' /\ LoadOK'
    BY <2>2, <2>3 DEF OnceOK, LoadOK
  <2>7. ReferenceOK' /\ ByReferenceIsCurrent'
    BY <2>2, <2>3 DEF ReferenceOK, ByReferenceIsCurrent
  <2> QED BY <2>1, <2>4, <2>5, <2>6, <2>7
<1>7. ASSUME NEW t \in Handlers, at[t] \in {"loading", "swapped"}, EndLoad(t),
             ready' \in BOOLEAN, thrown' \in BOOLEAN, ready' \/ thrown',
             loaded' \in Versions, loaded' = backend
      PROVE  IInv'
  <2>1. ServerTypeOK'
    BY <1>7 DEF ServerTypeOK, EndLoad, ServerStages
  <2>2. \A u \in Handlers : u # t => at'[u] = at[u] /\ kind'[u] = kind[u]
    BY <1>7 DEF ServerTypeOK, EndLoad
  <2>3. /\ at'[t] = "idle" /\ kind'[t] = None /\ mutex' = Nobody
        /\ UNCHANGED <<backend, pooled, owner, ptr, disclaimer>>
    BY <1>7 DEF ServerTypeOK, EndLoad
  <2>4. \A u \in Handlers : u # t => ~Locked(u)
    BY <1>7 DEF LocksOK, Locked
  <2>5. LocksOK'
    BY <2>2, <2>3, <2>4 DEF LocksOK, Locked
  <2>6. PoolOK'
    BY <1>7, <2>2, <2>3 DEF PoolOK
  <2>7. LoadOK'
    BY <1>7, <2>3 DEF LoadOK
  <2>8. OnceOK'
    BY <2>2, <2>3 DEF OnceOK
  <2>9. ReferenceOK' /\ ByReferenceIsCurrent'
    BY <1>7, <2>2, <2>3 DEF ReferenceOK, ByReferenceIsCurrent
  <2> QED BY <2>1, <2>5, <2>6, <2>7, <2>8, <2>9
<1>8. ASSUME NEW t \in Handlers, at[t] = "loading"
      PROVE  loaded = backend
  BY <1>8 DEF LoadOK, LocksOK, Locked
<1>9. ASSUME NEW t \in Handlers, KeepOld(t) \/ LoadThrows(t) \/ FinishLoad(t)
      PROVE  IInv'
  <2>1. /\ at[t] \in {"loading", "swapped"} /\ EndLoad(t)
        /\ ready' \in BOOLEAN /\ thrown' \in BOOLEAN /\ (ready' \/ thrown')
        /\ loaded' \in Versions /\ loaded' = backend
    BY <1>8, <1>9 DEF KeepOld, LoadThrows, FinishLoad, ServerTypeOK
  <2> QED BY <1>7, <2>1
<1>10. ASSUME NEW t \in Handlers, Swap(t)
       PROVE  IInv'
  <2>1. ServerTypeOK'
    BY <1>10 DEF ServerTypeOK, Swap, ServerStages, Versions
  <2>2. \A u \in Handlers : u # t => at'[u] = at[u]
    BY <1>10 DEF ServerTypeOK, Swap
  <2>3. /\ at[t] = "loading" /\ at'[t] = "swapped"
        /\ UNCHANGED <<loaded, ready, mutex, pooled, owner, kind, ptr, disclaimer, thrown>>
    BY <1>10 DEF ServerTypeOK, Swap
  <2>4. LocksOK'
    BY <2>2, <2>3 DEF LocksOK, Locked
  <2>5. PoolOK'
    BY <2>2, <2>3 DEF PoolOK
  <2>6. OnceOK' /\ LoadOK'
    BY <2>2, <2>3 DEF OnceOK, LoadOK
  <2>7. ReferenceOK'
    BY <2>2, <2>3 DEF ReferenceOK
  <2>8. ByReferenceIsCurrent'
    <3>1. ASSUME NEW u \in Handlers, at'[u] = "running"
          PROVE  u # t /\ at[u] = "running" /\ ptr[u] \in Workers /\ pooled
      BY <2>2, <2>3, <3>1 DEF LocksOK, Locked, PoolOK
    <3>2. ~pooled
      BY <2>3 DEF PoolOK
    <3> QED BY <3>1, <3>2 DEF ByReferenceIsCurrent
  <2> QED BY <2>1, <2>4, <2>5, <2>6, <2>7, <2>8
<1>11. ASSUME NEW t \in Handlers, Refuse(t)
       PROVE  IInv'
  <2>1. ServerTypeOK'
    BY <1>11 DEF ServerTypeOK, Refuse, ServerStages
  <2>2. \A u \in Handlers : u # t => at'[u] = at[u] /\ kind'[u] = kind[u]
    BY <1>11 DEF ServerTypeOK, Refuse
  <2>3. /\ at[t] = "admitted" /\ at'[t] = "idle" /\ kind'[t] = None
        /\ UNCHANGED <<backend, loaded, ready, mutex, pooled, owner, ptr, disclaimer, thrown>>
    BY <1>11 DEF ServerTypeOK, Refuse
  <2>4. None \notin ByReference \cup {"load"}
    BY DEF Kinds
  <2>5. LocksOK' /\ PoolOK' /\ OnceOK' /\ LoadOK'
    BY <2>2, <2>3, <2>4 DEF LocksOK, Locked, PoolOK, OnceOK, LoadOK
  <2>6. ReferenceOK' /\ ByReferenceIsCurrent'
    BY <2>2, <2>3, <2>4 DEF ReferenceOK, ByReferenceIsCurrent
  <2> QED BY <2>1, <2>5, <2>6
<1>12. ASSUME NEW t \in Handlers, DiscloseInCall(t)
       PROVE  IInv'
  <2>1. ServerTypeOK'
    BY <1>12 DEF ServerTypeOK, DiscloseInCall
  <2>2. /\ once = Nobody
        /\ UNCHANGED <<backend, loaded, ready, mutex, pooled, owner, at, kind, ptr, thrown>>
    BY <1>12 DEF DiscloseInCall
  <2> QED
    BY <2>1, <2>2 DEF LocksOK, Locked, PoolOK, OnceOK, LoadOK, ReferenceOK,
                      ByReferenceIsCurrent
<1>13. ASSUME NEW t \in Handlers, Spoken(t)
       PROVE  IInv'
  <2>1. ServerTypeOK'
    BY <1>13 DEF ServerTypeOK, Spoken, ServerStages
  <2>2. \A u \in Handlers : u # t => at'[u] = at[u] /\ ptr'[u] = ptr[u]
    BY <1>13 DEF ServerTypeOK, Spoken
  <2>3. /\ at[t] = "running" /\ at'[t] = "spoken" /\ ptr'[t] = None
        /\ kind[t] = "speech" /\ mutex' = Nobody
        /\ UNCHANGED <<backend, loaded, ready, pooled, owner, kind, disclaimer, thrown>>
    BY <1>13 DEF ServerTypeOK, Spoken
  <2>4. ptr[t] \notin Workers
    BY <2>3 DEF PoolOK
  <2>5. \A u \in Handlers : u # t => ~Locked(u)
    BY <2>3, <2>4 DEF LocksOK, Locked
  <2>6. LocksOK'
    BY <2>2, <2>3, <2>5 DEF LocksOK, Locked
  <2>7. PoolOK'
    BY <2>2, <2>3 DEF PoolOK
  <2>8. OnceOK' /\ LoadOK'
    BY <2>2, <2>3 DEF OnceOK, LoadOK
  <2>9. ReferenceOK' /\ ByReferenceIsCurrent'
    BY <2>2, <2>3 DEF ReferenceOK, ByReferenceIsCurrent
  <2> QED BY <2>1, <2>6, <2>7, <2>8, <2>9
<1>14. ASSUME NEW t \in Handlers, PrependDisclaimer(t) \/ Disclose(t)
       PROVE  IInv'
  <2>1. ServerTypeOK'
    BY <1>14 DEF ServerTypeOK, PrependDisclaimer, Disclose, ServerStages
  <2>2. \A u \in Handlers : u # t => at'[u] = at[u] /\ ptr'[u] = ptr[u]
    BY <1>14 DEF ServerTypeOK, PrependDisclaimer, Disclose
  <2>3. /\ at[t] \in {"spoken", "prepending"} /\ at'[t] \in {"prepending", "disclosing"}
        /\ ptr'[t] \in {ptr[t], backend}
        /\ UNCHANGED <<backend, loaded, ready, mutex, pooled, owner, kind, thrown>>
    BY <1>14 DEF ServerTypeOK, PrependDisclaimer, Disclose
  <2>4. \/ at'[t] = "prepending" /\ once' = once
        \/ once = Nobody /\ once' = t
    BY <1>14 DEF ServerTypeOK, PrependDisclaimer, Disclose
  <2>5. ptr'[t] \notin Workers
    BY <2>3 DEF ReferenceOK, ServerTypeOK, Versions
  <2>6. LocksOK'
    BY <2>2, <2>3 DEF LocksOK, Locked
  <2>7. PoolOK'
    BY <2>2, <2>3 DEF PoolOK
  <2>8. OnceOK' /\ LoadOK'
    BY <2>2, <2>3, <2>4 DEF OnceOK, LoadOK
  <2>9. ReferenceOK' /\ ByReferenceIsCurrent'
    BY <2>2, <2>3, <2>5 DEF ReferenceOK, ByReferenceIsCurrent
  <2> QED BY <2>1, <2>6, <2>7, <2>8, <2>9
<1>15. ASSUME NEW t \in Handlers, AnswerSpeech(t)
       PROVE  IInv'
  <2>1. ServerTypeOK'
    BY <1>15 DEF ServerTypeOK, AnswerSpeech, Leave, EndOnce, ServerStages
  <2>2. \A u \in Handlers : u # t => /\ at'[u] = at[u] /\ ptr'[u] = ptr[u]
                                   /\ kind'[u] = kind[u]
    BY <1>15 DEF ServerTypeOK, AnswerSpeech, Leave
  <2>3. /\ at[t] \in {"disclosing", "prepending"} /\ at'[t] = "idle"
        /\ ptr'[t] = None /\ kind'[t] = None
        /\ once' = once \/ (once = t /\ once' = Nobody)
        /\ UNCHANGED <<backend, loaded, ready, mutex, pooled, owner, thrown>>
    BY <1>15 DEF ServerTypeOK, AnswerSpeech, Leave, EndOnce
  <2>4. LocksOK'
    BY <2>2, <2>3 DEF LocksOK, Locked
  <2>5. PoolOK'
    BY <2>2, <2>3 DEF PoolOK, Kinds
  <2>6. OnceOK' /\ LoadOK'
    BY <2>2, <2>3 DEF OnceOK, LoadOK
  <2>7. ReferenceOK' /\ ByReferenceIsCurrent'
    BY <2>2, <2>3 DEF ReferenceOK, ByReferenceIsCurrent
  <2> QED BY <2>1, <2>4, <2>5, <2>6, <2>7
<1>16. CASE UNCHANGED serverVars
  BY <1>16 DEF serverVars, ServerTypeOK, LocksOK, Locked, PoolOK, OnceOK, LoadOK, ReferenceOK,
               ByReferenceIsCurrent
<1> QED
  BY <1>1, <1>2, <1>3, <1>4, <1>5, <1>6, <1>9, <1>10, <1>11, <1>12, <1>13, <1>14,
     <1>15, <1>16 DEF ServerNext

\* The server's every reachable state satisfies it.
LEMMA Invariance == ServerSpec => []IInv
BY Initial, Inductive, PTL DEF ServerSpec

-----------------------------------------------------------------------------
\* The server is well typed in every reachable state.
THEOREM ServerTypeCorrect == ServerSpec => []ServerTypeOK
<1>1. IInv => ServerTypeOK
  BY DEF IInv
<1> QED BY Invariance, <1>1, PTL

\* Two calls are inside one backend object only when exactly one of them is
\* the disclaimer made outside the lock, for every number of threads, pooled
\* workers and loads.
THEOREM ServerOneCallBesideDisclaimer == ServerSpec => []OneCallBesideDisclaimer
<1>1. IInv => OneCallBesideDisclaimer
  <2> SUFFICES ASSUME IInv, NEW t \in Handlers, NEW u \in Handlers, t # u,
                      Inside(t), Inside(u), ptr[t] = ptr[u]
               PROVE  {at[t], at[u]} = {"running", "disclosing"}
    BY DEF OneCallBesideDisclaimer
  <2> USE DEF IInv
  <2>1. ~(at[t] = "running" /\ at[u] = "running")
    <3>1. CASE ptr[t] \in Workers
      BY <3>1 DEF LocksOK
    <3>2. CASE ptr[t] \notin Workers
      BY <3>2 DEF LocksOK, Locked
    <3> QED BY <3>1, <3>2
  <2>2. ~(at[t] = "disclosing" /\ at[u] = "disclosing")
    BY DEF OnceOK
  <2> QED BY <2>1, <2>2 DEF Inside
<1> QED BY Invariance, <1>1, PTL

\* Whenever model_mutex is free the server reports the model it has loaded.
THEOREM ServerReportsLoaded == ServerSpec => []UnlockedReportsLoaded
<1>1. IInv => UnlockedReportsLoaded
  BY ServerAssumption
     DEF ServerAssumption, IInv, LoadOK, LocksOK, Locked, UnlockedReportsLoaded
<1> QED BY Invariance, <1>1, PTL

\* Whenever model_mutex is free the server is ready, or a load has thrown.
THEOREM ServerIsReady == ServerSpec => []UnlockedIsReady
<1>1. IInv => UnlockedIsReady
  BY ServerAssumption
     DEF ServerAssumption, IInv, LoadOK, LocksOK, Locked, UnlockedIsReady
<1> QED BY Invariance, <1>1, PTL

\* A pooled worker never serves another model than the server reports.
THEOREM ServerPoolServesLoaded == ServerSpec => []PoolServesLoaded
<1>1. IInv => PoolServesLoaded
  BY DEF IInv, PoolOK, PoolServesLoaded
<1> QED BY Invariance, <1>1, PTL

\* Names, ready and the pool agree with the loaded model.
THEOREM ServerServesWhatItReports == ServerSpec => []ServesWhatItReports
BY ServerReportsLoaded, ServerIsReady, ServerPoolServesLoaded, PTL DEF ServesWhatItReports

\* A handler that captures the pointer by reference calls the loaded model.
THEOREM ServerByReferenceIsCurrent == ServerSpec => []ByReferenceIsCurrent
<1>1. IInv => ByReferenceIsCurrent
  BY DEF IInv
<1> QED BY Invariance, <1>1, PTL

\* /load destroys no backend that a call under the mutex or a lease is inside.
THEOREM ServerSwapsOutsideCalls == ServerSpec => SwapsOutsideCalls
<1> DEFINE Outside == backend' # backend =>
                         \A t \in Handlers : at[t] = "running" => ptr[t] # backend
<1>1. IInv /\ [ServerNext]_serverVars => [Outside]_serverVars
  <2> SUFFICES ASSUME IInv, ServerNext, backend' # backend,
                      NEW u \in Handlers, at[u] = "running"
               PROVE  ptr[u] # backend
    OBVIOUS
  <2>1. PICK t \in Handlers : Swap(t)
    BY DEF ServerNext, Arrive, Lease, Prepare, Refuse, Call, DiscloseInCall, Return, Spoken,
           PrependDisclaimer, Disclose, AnswerSpeech, BeginLoad, KeepOld, LoadThrows,
           FinishLoad, EndLoad
  <2>2. ptr[u] \in Workers
    BY <2>1 DEF IInv, LocksOK, Locked, Swap
  <2> QED
    BY <2>2, ServerAssumption DEF ServerAssumption, IInv, ServerTypeOK, Versions
<1> QED BY Invariance, <1>1, PTL DEF ServerSpec, SwapsOutsideCalls
=============================================================================
