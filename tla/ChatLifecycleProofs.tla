------------------------- MODULE ChatLifecycleProofs -------------------------
(***************************************************************************)
(* Proofs about ChatLifecycle for every finite set of threads.             *)
(***************************************************************************)
EXTENDS ChatLifecycle, FiniteSetTheorems, TLAPS

\* s->in_use counts the calls between their hold's constructor and
\* destructor.
CountOK == inUse = Cardinality(Holding)

\* Who is closing, and what closing implies for everybody else.
CloseOK ==
    /\ Closing # {} => alive /\ retiring
    /\ \A t \in Users : at[t] = "freeing" => inUse = 0
    /\ ~alive => inUse = 0

\* The inductive invariant behind FreesOnlyWhenIdle and OneCloser.
IInv == LifeTypeOK /\ CountOK /\ CloseOK /\ OneCloser

\* Holding is finite, so its cardinality moves by one with one thread.
LEMMA HoldingCardinality ==
    ASSUME NEW H \in SUBSET Users
    PROVE  /\ IsFiniteSet(H) /\ Cardinality(H) \in Nat
           /\ Cardinality(H) = 0 <=> H = {}
           /\ \A t \in Users :
                 /\ t \in H => Cardinality(H \ {t}) = Cardinality(H) - 1
                 /\ t \notin H => Cardinality(H \cup {t}) = Cardinality(H) + 1
<1>1. IsFiniteSet(H)
  BY LifecycleAssumption, FS_Subset DEF LifecycleAssumption
<1> QED BY <1>1, FS_CardinalityType, FS_EmptySet, FS_AddElement, FS_RemoveElement

\* Every step keeps the count right and the close alone.
LEMMA Inductive == IInv /\ [LifeNext]_lifeVars => IInv'
<1> SUFFICES ASSUME IInv, [LifeNext]_lifeVars PROVE IInv'
  OBVIOUS
<1> USE DEF IInv
<1>0. Holding \in SUBSET Users
  BY DEF Holding
<1>1. ASSUME NEW t \in Users, NEW next \in {"held", "reading"}, Enter(t, next)
      PROVE  IInv'
  <2>1. CASE retiring
    <3>1. UNCHANGED <<alive, retiring, inUse, mu, at>>
      BY <1>1, <2>1 DEF Enter
    <3>2. LifeTypeOK'
      BY <1>1, <2>1, <3>1 DEF LifeTypeOK, Enter
    <3>3. Holding' = Holding /\ Closing' = Closing
      BY <3>1 DEF Holding, Closing
    <3> QED BY <3>1, <3>2, <3>3 DEF CountOK, CloseOK, OneCloser
  <2>2. CASE ~retiring
    <3>1. /\ at' = [at EXCEPT ![t] = next] /\ inUse' = inUse + 1
          /\ at[t] = "out" /\ alive
          /\ UNCHANGED <<alive, retiring, mu>>
      BY <1>1, <2>2 DEF Enter
    <3>2. LifeTypeOK'
      BY <1>1, <2>2, <3>1 DEF LifeTypeOK, Enter, Places
    <3>3. Holding' = Holding \cup {t} /\ t \notin Holding
      BY <3>1 DEF LifeTypeOK, Holding
    <3>4. CountOK'
      BY <1>0, <3>1, <3>3, HoldingCardinality DEF CountOK
    <3>5. Closing = {} /\ Closing' = {}
      BY <2>2, <3>1 DEF LifeTypeOK, CloseOK, Closing
    <3>6. CloseOK' /\ OneCloser'
      BY <3>1, <3>5 DEF CloseOK, OneCloser, Closing
    <3> QED BY <3>2, <3>4, <3>6
  <2> QED BY <2>1, <2>2
<1>2. ASSUME NEW t \in Users, LockSession(t) \/ UnlockSession(t)
      PROVE  IInv'
  <2>1. LifeTypeOK'
    BY <1>2 DEF LifeTypeOK, LockSession, UnlockSession, Places
  <2>2. Holding' = Holding /\ Closing' = Closing
    BY <1>2 DEF LifeTypeOK, Holding, Closing, LockSession, UnlockSession
  <2>3. UNCHANGED <<alive, retiring, inUse>>
    BY <1>2 DEF LockSession, UnlockSession
  <2>4. \A u \in Users : at'[u] = "freeing" => at[u] = "freeing"
    BY <1>2 DEF LifeTypeOK, LockSession, UnlockSession
  <2> QED BY <2>1, <2>2, <2>3, <2>4 DEF CountOK, CloseOK, OneCloser
<1>3. ASSUME NEW t \in Users, Leave(t)
      PROVE  IInv'
  <2> DEFINE gone == [at EXCEPT ![t] = "out"]
  <2>1. /\ at' = IF inUse' = 0 THEN Wake(gone) ELSE gone
        /\ inUse' = inUse - 1
        /\ at[t] \in {"leaving", "reading"}
        /\ UNCHANGED <<alive, retiring, mu>>
    BY <1>3 DEF Leave
  <2>2. Holding' = Holding \ {t} /\ t \in Holding
    BY <2>1 DEF LifeTypeOK, Holding, Wake
  <2>3. CountOK' /\ inUse \in Nat \ {0}
    BY <1>0, <2>1, <2>2, HoldingCardinality DEF CountOK, LifeTypeOK
  <2>4. LifeTypeOK'
    BY <1>3, <2>1, <2>3 DEF LifeTypeOK, Leave, Wake, Places
  <2>5. Closing' = Closing
    BY <2>1 DEF LifeTypeOK, Closing, Wake
  <2>6. \A u \in Users : at'[u] = "freeing" => at[u] = "freeing"
    BY <2>1 DEF LifeTypeOK, Wake
  <2>7. CloseOK'
    BY <2>1, <2>3, <2>5, <2>6 DEF CloseOK
  <2> QED BY <2>3, <2>4, <2>5, <2>7 DEF OneCloser
<1>4. ASSUME NEW t \in Users, Close(t)
      PROVE  IInv'
  <2>1. CASE retiring
    <3>1. UNCHANGED <<alive, retiring, inUse, mu, at>>
      BY <1>4, <2>1 DEF Close
    <3>2. LifeTypeOK'
      BY <1>4, <2>1, <3>1 DEF LifeTypeOK, Close
    <3>3. Holding' = Holding /\ Closing' = Closing
      BY <3>1 DEF Holding, Closing
    <3> QED BY <3>1, <3>2, <3>3 DEF CountOK, CloseOK, OneCloser
  <2>2. CASE ~retiring
    <3>1. /\ at' = [at EXCEPT ![t] = IF inUse = 0 THEN "freeing" ELSE "closing"]
          /\ retiring' = TRUE /\ alive /\ at[t] = "out"
          /\ UNCHANGED <<alive, inUse, mu, outcome>>
      BY <1>4, <2>2 DEF Close, AwaitIdle
    <3>2. LifeTypeOK'
      BY <3>1 DEF LifeTypeOK, Places
    <3>3. Holding' = Holding
      BY <3>1 DEF LifeTypeOK, Holding
    <3>4. Closing = {} /\ Closing' = {t}
      BY <2>2, <3>1 DEF LifeTypeOK, CloseOK, Closing
    <3>5. CloseOK'
      BY <3>1, <3>4 DEF LifeTypeOK, CloseOK, Closing
    <3> QED BY <3>1, <3>2, <3>3, <3>4, <3>5 DEF CountOK, OneCloser
  <2> QED BY <2>1, <2>2
<1>5. ASSUME NEW t \in Users, RecheckIdle(t) \/ WakeForNothing(t)
      PROVE  IInv'
  <2>1. UNCHANGED <<alive, retiring, inUse, mu, outcome>>
    BY <1>5 DEF RecheckIdle, WakeForNothing
  <2>2. LifeTypeOK'
    BY <1>5, <2>1 DEF LifeTypeOK, RecheckIdle, WakeForNothing, AwaitIdle, Places
  <2>3. Holding' = Holding /\ Closing' = Closing
    BY <1>5 DEF LifeTypeOK, Holding, Closing, RecheckIdle, WakeForNothing, AwaitIdle
  <2>4. \A u \in Users : at'[u] = "freeing" => at[u] = "freeing" \/ inUse = 0
    BY <1>5 DEF LifeTypeOK, RecheckIdle, WakeForNothing, AwaitIdle
  <2> QED BY <2>1, <2>2, <2>3, <2>4 DEF CountOK, CloseOK, OneCloser
<1>6. ASSUME NEW t \in Users, Free(t)
      PROVE  IInv'
  <2>1. /\ at' = [at EXCEPT ![t] = "out"] /\ alive' = FALSE /\ at[t] = "freeing"
        /\ inUse' = inUse /\ inUse = 0
    BY <1>6 DEF Free, CloseOK
  <2>2. LifeTypeOK'
    BY <1>6 DEF LifeTypeOK, Free, Places
  <2>3. Holding' = Holding
    BY <2>1 DEF LifeTypeOK, Holding
  <2>4. Closing' = {}
    BY <2>1 DEF LifeTypeOK, OneCloser, Closing
  <2>5. CloseOK'
    BY <2>1, <2>4 DEF CloseOK
  <2> QED BY <2>1, <2>2, <2>3, <2>4, <2>5 DEF CountOK, OneCloser
<1>7. ASSUME NEW t \in Users, Open(t)
      PROVE  IInv'
  <2>1. /\ at' = at /\ inUse' = 0 /\ inUse = 0 /\ Closing = {}
    BY <1>7 DEF Open, CloseOK
  <2>2. LifeTypeOK'
    BY <1>7 DEF LifeTypeOK, Open
  <2>3. Holding' = Holding /\ Closing' = {}
    BY <2>1 DEF Holding, Closing
  <2> QED BY <1>7, <2>1, <2>2, <2>3 DEF CountOK, CloseOK, OneCloser, Open
<1>8. CASE UNCHANGED lifeVars
  <2>1. Holding' = Holding /\ Closing' = Closing
    BY <1>8 DEF lifeVars, Holding, Closing
  <2> QED BY <1>8, <2>1 DEF lifeVars, LifeTypeOK, CountOK, CloseOK, OneCloser
<1> QED
  BY <1>1, <1>2, <1>3, <1>4, <1>5, <1>6, <1>7, <1>8 DEF LifeNext

\* A session just opened satisfies the invariant.
LEMMA Initial == LifeInit => IInv
<1> SUFFICES ASSUME LifeInit PROVE IInv
  OBVIOUS
<1>1. Holding = {} /\ Closing = {}
  BY DEF LifeInit, Holding, Closing
<1>2. CountOK
  BY <1>1, FS_EmptySet DEF LifeInit, CountOK
<1> QED BY <1>1, <1>2 DEF LifeInit, IInv, LifeTypeOK, CloseOK, OneCloser, Places

\* The lifetime bookkeeping is well typed: in particular in_use never goes
\* below zero.
THEOREM LifecycleTypeCorrect == LifeSpec => []LifeTypeOK
<1>1. IInv => LifeTypeOK
  BY DEF IInv
<1> QED BY Initial, Inductive, <1>1, PTL DEF LifeSpec

\* For any number of threads a close frees the session only when no call is
\* inside it, and no call is ever inside a freed session.
THEOREM CloseFreesOnlyWhenIdle == LifeSpec => []FreesOnlyWhenIdle
<1>1. IInv => FreesOnlyWhenIdle
  <2> SUFFICES ASSUME IInv PROVE FreesOnlyWhenIdle
    OBVIOUS
  <2>1. Holding \in SUBSET Users
    BY DEF Holding
  <2>2. inUse = 0 => Holding = {}
    BY <2>1, HoldingCardinality DEF IInv, CountOK
  <2> QED BY <2>2 DEF IInv, CloseOK, FreesOnlyWhenIdle
<1> QED BY Initial, Inductive, <1>1, PTL DEF LifeSpec

\* At most one close is ever past the retirement of the session, so nothing
\* is freed twice.
THEOREM CloseIsUnique == LifeSpec => []OneCloser
<1>1. IInv => OneCloser
  BY DEF IInv
<1> QED BY Initial, Inductive, <1>1, PTL DEF LifeSpec
=============================================================================
