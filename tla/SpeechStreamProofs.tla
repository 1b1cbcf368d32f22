-------------------------- MODULE SpeechStreamProofs --------------------------
(***************************************************************************)
(* Proofs about SpeechStream for every set of requests, number of chunks,  *)
(* sentence length and depth of the queue.                                 *)
(***************************************************************************)
EXTENDS SpeechStream, SequenceTheorems, TLAPS

\* How far the worker of r has come, by where it is; and that nothing but a
\* failure or a cancellation ends the synthesis early.
WorkerOK(r) ==
    /\ worker[r] \in {"synth", "full", "roused"} => made[r] < Chunks
    /\ worker[r] \in {"unwind", "finish", "announce", "ended"} =>
           made[r] = Chunks \/ cancelled[r] \/ failed[r]
    /\ done[r] => worker[r] \in {"announce", "ended"}

\* What the provider of r holds, by where it is: a chunk between pop and
\* write; only a failed write cancels, and then the provider is not called
\* again.
ProviderOK(r) ==
    /\ provider[r] \in {"popped", "writing"} <=> inHand[r] # 0
    /\ cancelled[r] => provider[r] = "closed"
    /\ provider[r] = "finished" => q[r] = <<>> /\ done[r]

\* The invariants of one request.
SkipsNothing(r) == ~cancelled[r] => received[r] \o Held(r) \o q[r] = Upto(made[r])
Notified(r) ==
    /\ provider[r] = "waiting" =>
          \/ q[r] = <<>> /\ ~done[r] /\ ~cancelled[r]
          \/ worker[r] \in {"notify", "announce"}
    /\ worker[r] = "full" =>
          \/ Len(q[r]) >= MaxDepth /\ ~cancelled[r]
          \/ provider[r] = "popped"

RequestOK(r) == WorkerOK(r) /\ ProviderOK(r) /\ SkipsNothing(r) /\ Notified(r)

\* The inductive invariant.
IInv == TypeOK /\ \A r \in Requests : RequestOK(r)

-----------------------------------------------------------------------------
\* One more chunk is appended to the numbers so far.
LEMMA UptoNext ==
    ASSUME NEW n \in Nat
    PROVE  Upto(n + 1) = Upto(n) \o <<n + 1>>
BY DEF Upto

\* A popped chunk leaves the queue for the provider's hand ...
LEMMA Popped ==
    ASSUME NEW S, NEW s \in Seq(S), NEW t \in Seq(S), t # <<>>
    PROVE  (s \o <<Head(t)>>) \o Tail(t) = (s \o <<>>) \o t
<1>1. Head(t) \in S /\ Tail(t) \in Seq(S) /\ t = <<Head(t)>> \o Tail(t)
  BY HeadTailProperties
<1>2. <<Head(t)>> \in Seq(S)
  BY <1>1
<1>3. (s \o <<Head(t)>>) \o Tail(t) = s \o (<<Head(t)>> \o Tail(t))
  BY <1>1, <1>2, ConcatAssociative
<1> QED BY <1>1, <1>3, ConcatEmptySeq

\* ... a written one the hand for the client ...
LEMMA Written ==
    ASSUME NEW S, NEW s \in Seq(S), NEW n \in S
    PROVE  Append(s, n) \o <<>> = s \o <<n>>
<1>1. Append(s, n) = s \o <<n>> /\ Append(s, n) \in Seq(S)
  OBVIOUS
<1> QED BY <1>1, ConcatEmptySeq

\* ... and a new one joins the end.
LEMMA Queued ==
    ASSUME NEW S, NEW s \in Seq(S), NEW t \in Seq(S), NEW n \in S
    PROVE  s \o Append(t, n) = (s \o t) \o <<n>>
<1>1. Append(t, n) = t \o <<n>> /\ <<n>> \in Seq(S)
  OBVIOUS
<1> QED BY <1>1, ConcatAssociative

\* What is received, in hand and queued are sequences of chunks.
LEMMA Parts ==
    ASSUME TypeOK, NEW r \in Requests
    PROVE  /\ received[r] \in Seq(1 .. Chunks) /\ q[r] \in Seq(1 .. Chunks)
           /\ Held(r) \in Seq(1 .. Chunks)
           /\ received[r] \o Held(r) \in Seq(1 .. Chunks)
<1>1. received[r] \in Seq(1 .. Chunks) /\ q[r] \in Seq(1 .. Chunks)
  BY DEF TypeOK
<1>2. inHand[r] \in 0 .. Chunks
  BY DEF TypeOK
<1>3. Held(r) \in Seq(1 .. Chunks)
  <2>1. CASE inHand[r] = 0
    BY <2>1 DEF Held
  <2>2. CASE inHand[r] # 0
    <3>1. inHand[r] \in 1 .. Chunks
      BY <1>2, <2>2, StreamAssumption DEF StreamAssumption
    <3> QED BY <2>2, <3>1 DEF Held
  <2> QED BY <2>1, <2>2
<1> QED BY <1>1, <1>3

\* What a queue is with one more chunk.
LEMMA OneMore ==
    ASSUME NEW S, NEW s \in Seq(S), NEW n \in S
    PROVE  /\ Append(s, n) \in Seq(S) /\ Append(s, n) # <<>>
           /\ Len(s) \in Nat /\ Len(Append(s, n)) = Len(s) + 1
BY AppendProperties

\* Chunk n + 1 continues a queue that ends with chunk n.
LEMMA QueuedNext ==
    ASSUME NEW s \in Seq(1 .. Chunks), NEW t \in Seq(1 .. Chunks), NEW n \in Nat,
           n + 1 \in 1 .. Chunks, s \o t = Upto(n)
    PROVE  s \o Append(t, n + 1) = Upto(n + 1)
<1>1. s \o Append(t, n + 1) = (s \o t) \o <<n + 1>>
  BY Queued
<1> QED BY <1>1, UptoNext

\* A request on which nothing changes keeps what it has.
LEMMA Untouched ==
    ASSUME NEW r \in Requests, RequestOK(r),
           q'[r] = q[r], done'[r] = done[r], failed'[r] = failed[r],
           cancelled'[r] = cancelled[r], made'[r] = made[r], worker'[r] = worker[r],
           provider'[r] = provider[r], inHand'[r] = inHand[r],
           received'[r] = received[r]
    PROVE  RequestOK(r)'
BY DEF RequestOK, WorkerOK, ProviderOK, SkipsNothing, Notified, Held

\* A step of one request touches no other, but for model_mutex.
LEMMA OneAtATime ==
    ASSUME TypeOK, NEW r \in Requests, NEW u \in Requests, u # r,
           WorkerStep(r) \/ ProviderStep(r) \/ Disconnect(r)
    PROVE  /\ q'[u] = q[u] /\ done'[u] = done[u] /\ failed'[u] = failed[u]
           /\ cancelled'[u] = cancelled[u] /\ made'[u] = made[u]
           /\ worker'[u] = worker[u] /\ provider'[u] = provider[u]
           /\ inHand'[u] = inHand[u] /\ received'[u] = received[u]
<1> USE DEF TypeOK, queue, Goto, Become, RouseProvider, RouseWorker
<1>1. CASE WorkerStep(r)
  BY <1>1 DEF WorkerStep, LockModel, PollCancelled, Enqueue, WorkerNotify, Throw,
              UnlockModel, MarkDone, Announce
<1>2. CASE ProviderStep(r)
  BY <1>2 DEF ProviderStep, LoopHead, Provide, ProviderNotify, Write
<1>3. CASE Disconnect(r)
  BY <1>3 DEF Disconnect
<1> QED BY <1>1, <1>2, <1>3

\* The invariant holds when the worker has been started.
LEMMA Initial == Init => IInv
<1> SUFFICES ASSUME Init PROVE IInv
  OBVIOUS
<1>1. TypeOK
  BY StreamAssumption DEF StreamAssumption, Init, TypeOK, Each
<1>2. ASSUME NEW r \in Requests PROVE RequestOK(r)
  <2>1. Upto(0) = <<>>
    BY DEF Upto
  <2>2. Held(r) = <<>> /\ q[r] = <<>> /\ received[r] = <<>> /\ made[r] = 0
    BY DEF Held, Init, Each
  <2>3. <<>> \o <<>> \o <<>> = <<>>
    OBVIOUS
  <2>4. SkipsNothing(r)
    BY <2>1, <2>2, <2>3 DEF SkipsNothing
  <2> QED
    BY <2>4 DEF Init, Each, RequestOK, WorkerOK, ProviderOK, Notified
<1> QED BY <1>1, <1>2 DEF IInv
-----------------------------------------------------------------------------
\* The worker keeps the invariant of its request.
LEMMA WorkerKeeps ==
    ASSUME IInv, NEW r \in Requests, WorkerStep(r)
    PROVE  TypeOK' /\ RequestOK(r)'
<1> SUFFICES /\ TypeOK' /\ WorkerOK(r)' /\ ProviderOK(r)' /\ Notified(r)'
             /\ SkipsNothing(r)'
  BY DEF RequestOK
<1>a. TypeOK /\ WorkerOK(r) /\ ProviderOK(r) /\ SkipsNothing(r) /\ Notified(r)
  BY DEF IInv, RequestOK
<1> USE <1>a, StreamAssumption
        DEF StreamAssumption, TypeOK, WorkerOK, ProviderOK, Notified, Goto, RouseProvider,
            queue, AfterChunk
<1>1. CASE LockModel(r)
  <2>1. /\ TypeOK' /\ WorkerOK(r)' /\ ProviderOK(r)' /\ Notified(r)'
    BY <1>1 DEF LockModel
  <2>2. SkipsNothing(r)'
    BY <1>1 DEF LockModel, TypeOK, SkipsNothing, Held, queue
  <2> QED BY <2>1, <2>2
<1>2. CASE PollCancelled(r)
  <2>1. /\ TypeOK' /\ WorkerOK(r)' /\ ProviderOK(r)' /\ Notified(r)'
    BY <1>2 DEF PollCancelled
  <2>2. SkipsNothing(r)'
    BY <1>2 DEF PollCancelled, TypeOK, SkipsNothing, Held, queue
  <2> QED BY <2>1, <2>2
<1>3. CASE Enqueue(r)
  <2> DEFINE n == made[r] + 1
  <2>1. /\ worker[r] \in {"synth", "roused"} /\ made[r] \in 0 .. Chunks /\ n \in 1 .. Chunks
        /\ made[r] < Chunks
        /\ UNCHANGED <<done, failed, cancelled, provider, inHand, received, gone, model>>
    BY <1>3 DEF Enqueue
  <2>2. /\ AfterChunk(n) \in {"sentence", "synth"}
        /\ AfterChunk(n) = "synth" => n < Chunks
    BY <2>1
  <2>3. CASE /\ cancelled[r] /\ UNCHANGED q
             /\ made' = [made EXCEPT ![r] = n]
             /\ worker' = [worker EXCEPT ![r] = AfterChunk(n)]
    <3>1. /\ made'[r] = n /\ worker'[r] = AfterChunk(n)
          /\ made' \in [Requests -> 0 .. Chunks]
      BY <2>1, <2>3
    <3>2. TypeOK'
      BY <2>1, <2>2, <2>3, <3>1
    <3>3. WorkerOK(r)'
      <4>1. worker'[r] \in {"synth", "full", "roused"} => made'[r] < Chunks
        BY <2>2, <3>1
      <4>2. ~done[r]
        BY <2>1, Zenon
      <4>3. worker'[r] \in {"sentence", "synth"}
        BY <2>2, <3>1
      <4> QED BY <2>1, <4>1, <4>2, <4>3
    <3>4. ProviderOK(r)' /\ Notified(r)' /\ SkipsNothing(r)'
      <4>1. worker'[r] \notin {"full"} /\ provider'[r] = "closed"
        BY <2>1, <2>2, <2>3, <3>1
      <4> QED BY <2>1, <2>3, <4>1 DEF SkipsNothing
    <3> QED BY <3>2, <3>3, <3>4
  <2>4. CASE /\ ~cancelled[r] /\ Len(q[r]) < MaxDepth
             /\ made' = [made EXCEPT ![r] = n]
             /\ q' = [q EXCEPT ![r] = Append(@, n)]
             /\ worker' = [worker EXCEPT ![r] = "notify"]
    <3>1. /\ Append(q[r], n) \in Seq(1 .. Chunks)
          /\ Len(Append(q[r], n)) = Len(q[r]) + 1 /\ Len(q[r]) \in Nat
          /\ Append(q[r], n) # <<>>
      <4>1. q[r] \in Seq(1 .. Chunks) /\ n \in 1 .. Chunks
        BY <2>1
      <4> HIDE DEF n, TypeOK
      <4> QED BY <4>1, OneMore
    <3>2. /\ made'[r] = n /\ worker'[r] = "notify" /\ q'[r] = Append(q[r], n)
          /\ \A u \in Requests : u # r => q'[u] = q[u]
          /\ made' \in [Requests -> 0 .. Chunks]
          /\ q' \in [Requests -> Seq(1 .. Chunks)]
      BY <2>1, <2>4, <3>1
    <3>3. \A u \in Requests : Len(q'[u]) <= MaxDepth
      BY <2>4, <3>1, <3>2
    <3>4. TypeOK'
      BY <2>1, <2>4, <3>2, <3>3
    <3>5. WorkerOK(r)' /\ ProviderOK(r)' /\ Notified(r)'
      <4>1. ~done[r] /\ provider[r] # "finished"
        BY <2>1, Zenon
      <4> QED BY <2>1, <3>2, <4>1
    <3>6. SkipsNothing(r)'
      <4>1. received[r] \o Held(r) \o q[r] = Upto(made[r])
        BY <2>4, Zenon DEF SkipsNothing
      <4>2. (received[r] \o Held(r)) \o Append(q[r], n) = Upto(n)
        <5>1. made[r] \in Nat /\ made[r] + 1 \in 1 .. Chunks
          BY <2>1
        <5> HIDE DEF TypeOK
        <5> QED BY <4>1, <5>1, Parts, QueuedNext
      <4>4. received'[r] = received[r] /\ Held(r)' = Held(r)
        BY <2>1 DEF Held
      <4> QED BY <3>2, <4>2, <4>4 DEF SkipsNothing
    <3> QED BY <3>4, <3>5, <3>6
  <2>5. CASE /\ ~cancelled[r] /\ Len(q[r]) >= MaxDepth
             /\ worker' = [worker EXCEPT ![r] = "full"]
             /\ UNCHANGED <<q, made>>
    <3>1. worker'[r] = "full"
      BY <2>1, <2>5
    <3>2. ~done[r] /\ provider[r] # "finished"
      BY <2>1, Zenon
    <3>3. TypeOK'
      BY <2>1, <2>5
    <3>4. WorkerOK(r)' /\ ProviderOK(r)'
      BY <2>1, <2>5, <3>1, <3>2
    <3>5. Notified(r)'
      BY <2>1, <2>5, <3>1, <3>2
    <3>6. SkipsNothing(r)'
      BY <2>1, <2>5 DEF SkipsNothing, Held
    <3> QED BY <3>3, <3>4, <3>5, <3>6
  <2>6. \/ /\ cancelled[r] /\ UNCHANGED q
           /\ made' = [made EXCEPT ![r] = n]
           /\ worker' = [worker EXCEPT ![r] = AfterChunk(n)]
        \/ /\ ~cancelled[r] /\ Len(q[r]) < MaxDepth
           /\ made' = [made EXCEPT ![r] = n]
           /\ q' = [q EXCEPT ![r] = Append(@, n)]
           /\ worker' = [worker EXCEPT ![r] = "notify"]
        \/ /\ ~cancelled[r] /\ Len(q[r]) >= MaxDepth
           /\ worker' = [worker EXCEPT ![r] = "full"]
           /\ UNCHANGED <<q, made>>
    BY <1>3, Zenon DEF Enqueue
  <2> QED BY <2>3, <2>4, <2>5, <2>6, Zenon
<1>4. CASE WorkerNotify(r)
  <2>1. /\ TypeOK' /\ WorkerOK(r)' /\ ProviderOK(r)' /\ Notified(r)'
    BY <1>4 DEF WorkerNotify
  <2>2. SkipsNothing(r)'
    BY <1>4 DEF WorkerNotify, TypeOK, SkipsNothing, Held, queue
  <2> QED BY <2>1, <2>2
<1>5. CASE Throw(r)
  <2>1. /\ TypeOK' /\ WorkerOK(r)' /\ ProviderOK(r)' /\ Notified(r)'
    BY <1>5 DEF Throw
  <2>2. SkipsNothing(r)'
    BY <1>5 DEF Throw, TypeOK, SkipsNothing, Held, queue
  <2> QED BY <2>1, <2>2
<1>6. CASE UnlockModel(r)
  <2>1. /\ TypeOK' /\ WorkerOK(r)' /\ ProviderOK(r)' /\ Notified(r)'
    BY <1>6 DEF UnlockModel
  <2>2. SkipsNothing(r)'
    BY <1>6 DEF UnlockModel, TypeOK, SkipsNothing, Held, queue
  <2> QED BY <2>1, <2>2
<1>7. CASE MarkDone(r)
  <2>1. /\ TypeOK' /\ WorkerOK(r)' /\ ProviderOK(r)' /\ Notified(r)'
    BY <1>7 DEF MarkDone
  <2>2. SkipsNothing(r)'
    BY <1>7 DEF MarkDone, TypeOK, SkipsNothing, Held, queue
  <2> QED BY <2>1, <2>2
<1>8. CASE Announce(r)
  <2>1. /\ TypeOK' /\ WorkerOK(r)' /\ ProviderOK(r)' /\ Notified(r)'
    BY <1>8 DEF Announce
  <2>2. SkipsNothing(r)'
    BY <1>8 DEF Announce, TypeOK, SkipsNothing, Held, queue
  <2> QED BY <2>1, <2>2
<1> QED
  BY <1>1, <1>2, <1>3, <1>4, <1>5, <1>6, <1>7, <1>8 DEF WorkerStep

\* The request thread keeps it too.
LEMMA ProviderKeeps ==
    ASSUME IInv, NEW r \in Requests, ProviderStep(r)
    PROVE  TypeOK' /\ RequestOK(r)'
<1> SUFFICES /\ TypeOK' /\ WorkerOK(r)' /\ ProviderOK(r)' /\ Notified(r)'
             /\ SkipsNothing(r)'
  BY DEF RequestOK
<1>a. TypeOK /\ WorkerOK(r) /\ ProviderOK(r) /\ SkipsNothing(r) /\ Notified(r)
  BY DEF IInv, RequestOK
<1> USE <1>a, StreamAssumption
        DEF StreamAssumption, TypeOK, WorkerOK, ProviderOK, Notified, Become, RouseWorker,
            queue
<1>1. CASE LoopHead(r)
  <2>1. /\ TypeOK' /\ WorkerOK(r)' /\ ProviderOK(r)' /\ Notified(r)'
    BY <1>1 DEF LoopHead
  <2>2. SkipsNothing(r)'
    BY <1>1 DEF LoopHead, SkipsNothing, Held
  <2> QED BY <2>1, <2>2
<1>2. CASE Provide(r)
  <2>1. /\ provider[r] \in {"enter", "roused"} /\ ~cancelled[r] /\ inHand[r] = 0
        /\ UNCHANGED <<done, failed, cancelled, made, worker, received, gone, model>>
    BY <1>2 DEF Provide
  <2>2. CASE /\ q[r] # <<>>
             /\ inHand' = [inHand EXCEPT ![r] = Head(q[r])]
             /\ q' = [q EXCEPT ![r] = Tail(@)]
             /\ provider' = [provider EXCEPT ![r] = "popped"]
    <3>1. /\ Head(q[r]) \in 1 .. Chunks /\ Tail(q[r]) \in Seq(1 .. Chunks)
          /\ Len(Tail(q[r])) <= MaxDepth
      BY <2>2, HeadTailProperties
    <3>2. /\ inHand'[r] = Head(q[r]) /\ q'[r] = Tail(q[r]) /\ provider'[r] = "popped"
          /\ \A u \in Requests : u # r => q'[u] = q[u]
          /\ inHand' \in [Requests -> 0 .. Chunks]
          /\ q' \in [Requests -> Seq(1 .. Chunks)]
      BY <2>2, <3>1
    <3>3. TypeOK'
      BY <2>1, <2>2, <3>1, <3>2
    <3>4. WorkerOK(r)' /\ ProviderOK(r)' /\ Notified(r)'
      BY <2>1, <3>1, <3>2
    <3>5. SkipsNothing(r)'
      <4>1. /\ received[r] \o Held(r) \o q[r] = Upto(made[r])
            /\ Held(r) = <<>> /\ Held(r)' = <<Head(q[r])>>
        <5>1. received[r] \o Held(r) \o q[r] = Upto(made[r])
          BY <2>1, Zenon DEF SkipsNothing
        <5>2. Held(r) = <<>> /\ Held(r)' = <<Head(q[r])>>
          BY <2>1, <3>1, <3>2 DEF Held
        <5> QED BY <5>1, <5>2
      <4>2. received'[r] = received[r] /\ made'[r] = made[r]
        BY <2>1
      <4> HIDE DEF TypeOK
      <4>3. (received[r] \o <<Head(q[r])>>) \o Tail(q[r]) = (received[r] \o <<>>) \o q[r]
        BY <2>2, Parts, Popped
      <4> QED BY <3>2, <4>1, <4>2, <4>3 DEF SkipsNothing
    <3> QED BY <3>3, <3>4, <3>5
  <2>3. CASE /\ q[r] = <<>> /\ (done[r] \/ cancelled[r])
             /\ provider' = [provider EXCEPT ![r] = "finished"]
             /\ UNCHANGED <<q, inHand>>
    <3>1. TypeOK' /\ provider'[r] = "finished"
      BY <2>1, <2>3
    <3>2. WorkerOK(r)' /\ ProviderOK(r)' /\ Notified(r)'
      BY <2>1, <2>3, <3>1
    <3>3. SkipsNothing(r)'
      BY <2>1, <2>3 DEF SkipsNothing, Held
    <3> QED BY <3>1, <3>2, <3>3
  <2>4. CASE /\ q[r] = <<>> /\ ~done[r] /\ ~cancelled[r]
             /\ provider' = [provider EXCEPT ![r] = "waiting"]
             /\ UNCHANGED <<q, inHand>>
    <3>1. TypeOK' /\ provider'[r] = "waiting"
      BY <2>1, <2>4
    <3>2. WorkerOK(r)' /\ ProviderOK(r)' /\ Notified(r)'
      BY <2>1, <2>4, <3>1
    <3>3. SkipsNothing(r)'
      BY <2>1, <2>4 DEF SkipsNothing, Held
    <3> QED BY <3>1, <3>2, <3>3
  <2> QED BY <1>2, <2>2, <2>3, <2>4, Zenon DEF Provide
<1>3. CASE ProviderNotify(r)
  <2>1. /\ TypeOK' /\ WorkerOK(r)' /\ ProviderOK(r)' /\ Notified(r)'
    BY <1>3 DEF ProviderNotify
  <2>2. SkipsNothing(r)'
    BY <1>3 DEF ProviderNotify, SkipsNothing, Held
  <2> QED BY <2>1, <2>2
<1>4. CASE Write(r)
  <2>1. /\ provider[r] = "writing" /\ inHand[r] # 0 /\ ~cancelled[r]
        /\ inHand' = [inHand EXCEPT ![r] = 0]
        /\ UNCHANGED <<q, done, failed, made, gone, model>>
    BY <1>4 DEF Write
  <2>2. inHand[r] \in 1 .. Chunks
    BY <2>1
  <2>3. CASE /\ received' = [received EXCEPT ![r] = Append(@, inHand[r])]
             /\ provider' = [provider EXCEPT ![r] = "head"]
             /\ UNCHANGED <<cancelled, worker>>
    <3>1. Append(received[r], inHand[r]) \in Seq(1 .. Chunks)
      BY <2>2
    <3>2. /\ received'[r] = Append(received[r], inHand[r])
          /\ inHand'[r] = 0 /\ provider'[r] = "head"
      BY <2>1, <2>3
    <3>3. TypeOK'
      BY <2>1, <2>3, <3>1
    <3>4. WorkerOK(r)' /\ ProviderOK(r)' /\ Notified(r)'
      BY <2>1, <2>3, <3>2
    <3>5. SkipsNothing(r)'
      <4>1. received[r] \o Held(r) \o q[r] = Upto(made[r])
        BY <2>1, Zenon DEF SkipsNothing
      <4>2. Held(r) = <<inHand[r]>> /\ Held(r)' = <<>>
        BY <2>1, <3>2 DEF Held
      <4>3. q'[r] = q[r] /\ made'[r] = made[r]
        BY <2>1
      <4> HIDE DEF TypeOK
      <4>4. Append(received[r], inHand[r]) \o <<>> = received[r] \o <<inHand[r]>>
        BY <2>2, Parts, Written
      <4> QED BY <3>2, <4>1, <4>2, <4>3, <4>4 DEF SkipsNothing
    <3> QED BY <3>3, <3>4, <3>5
  <2>4. CASE /\ cancelled' = [cancelled EXCEPT ![r] = TRUE]
             /\ RouseWorker(r)
             /\ provider' = [provider EXCEPT ![r] = "closed"]
             /\ UNCHANGED received
    <3>1. cancelled'[r] /\ provider'[r] = "closed" /\ inHand'[r] = 0
      BY <2>1, <2>4
    <3>2. /\ worker'[r] = IF worker[r] = "full" THEN "roused" ELSE worker[r]
          /\ worker' \in [Requests -> {"start", "sentence", "synth", "full", "roused",
                            "notify", "unwind", "finish", "announce", "ended"}]
      BY <2>4
    <3>3. TypeOK'
      BY <2>1, <2>4, <3>2
    <3>4. WorkerOK(r)' /\ ProviderOK(r)' /\ Notified(r)' /\ SkipsNothing(r)'
      BY <2>1, <3>1, <3>2 DEF SkipsNothing
    <3> QED BY <3>3, <3>4
  <2> QED BY <1>4, <2>3, <2>4, Zenon DEF Write
<1> QED
  BY <1>1, <1>2, <1>3, <1>4 DEF ProviderStep

\* So does every step.
LEMMA Inductive == IInv /\ [Next]_vars => IInv'
<1> SUFFICES ASSUME IInv, [Next]_vars PROVE IInv'
  OBVIOUS
<1>1. ASSUME NEW r \in Requests, WorkerStep(r) \/ ProviderStep(r) \/ Disconnect(r)
      PROVE  IInv'
  <2>1. TypeOK' /\ RequestOK(r)'
    <3>1. CASE WorkerStep(r)
      BY <3>1, WorkerKeeps
    <3>2. CASE ProviderStep(r)
      BY <3>2, ProviderKeeps
    <3>3. CASE Disconnect(r)
      <4>1. TypeOK'
        BY <3>3 DEF Disconnect, IInv, TypeOK, queue
      <4> QED
        BY <3>3, <4>1, Untouched DEF Disconnect, IInv, queue
    <3> QED BY <1>1, <3>1, <3>2, <3>3
  <2>2. ASSUME NEW u \in Requests, u # r PROVE RequestOK(u)'
    BY <1>1, <2>2, OneAtATime, Untouched DEF IInv
  <2> QED BY <2>1, <2>2 DEF IInv
<1>2. CASE UNCHANGED vars
  <2>1. TypeOK'
    BY <1>2 DEF vars, queue, IInv, TypeOK
  <2>2. ASSUME NEW u \in Requests PROVE RequestOK(u)'
    BY <1>2, Untouched DEF vars, queue, IInv
  <2> QED BY <2>1, <2>2 DEF IInv
<1> QED BY <1>1, <1>2 DEF Next

\* Every reachable state satisfies the invariant.
LEMMA Invariance == Spec => []IInv
BY Initial, Inductive, PTL DEF Spec

-----------------------------------------------------------------------------
\* Types, and the bound of the queue: kMaxQueueDepth is never exceeded.
THEOREM StreamTypeCorrect == Spec => []TypeOK
<1>1. IInv => TypeOK
  BY DEF IInv
<1> QED BY Invariance, <1>1, PTL

\* Until the stream is cancelled its client has, in order and without gaps,
\* every chunk that was made and is neither queued nor in the provider's hand.
THEOREM StreamSkipsNothing == Spec => []NothingSkipped
<1>1. IInv => NothingSkipped
  BY DEF IInv, RequestOK, SkipsNothing, NothingSkipped
<1> QED BY Invariance, <1>1, PTL

\* A response that ends normally without a failure carries the whole clip.
THEOREM StreamComplete == Spec => []CompleteWhenFinished
<1>1. IInv => CompleteWhenFinished
  <2> SUFFICES ASSUME IInv, NEW r \in Requests, provider[r] = "finished", ~failed[r]
               PROVE  received[r] = Upto(Chunks)
    BY DEF CompleteWhenFinished
  <2>1. TypeOK /\ WorkerOK(r) /\ ProviderOK(r) /\ SkipsNothing(r)
    BY DEF IInv, RequestOK
  <2>2. q[r] = <<>> /\ done[r] /\ ~cancelled[r] /\ inHand[r] = 0
    BY <2>1 DEF ProviderOK
  <2>3. made[r] = Chunks
    BY <2>1, <2>2 DEF WorkerOK
  <2>4. received[r] \o <<>> \o <<>> = Upto(Chunks)
    BY <2>1, <2>2, <2>3 DEF SkipsNothing, Held
  <2>5. received[r] \in Seq(1 .. Chunks)
    BY <2>1, Parts
  <2> QED BY <2>4, <2>5, ConcatEmptySeq
<1> QED BY Invariance, <1>1, PTL

\* Worker and provider, which share one condition variable, never sleep past
\* a notification they need.
THEOREM StreamNoLostWakeup == Spec => []NoLostWakeup
<1>1. IInv => NoLostWakeup
  BY DEF IInv, RequestOK, Notified, NoLostWakeup
<1> QED BY Invariance, <1>1, PTL
=============================================================================
