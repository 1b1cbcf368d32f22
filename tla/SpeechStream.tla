---------------------------- MODULE SpeechStream ----------------------------
(***************************************************************************)
(* Streaming POST /v1/audio/speech: a detached worker thread synthesizes   *)
(* under model_mutex and pushes chunks into a bounded StreamQueue; the     *)
(* content provider, which httplib calls again and again from the request  *)
(* thread, pops them and writes them to the client.  Both sides sleep on   *)
(* the queue's one condition variable.  Several requests stream at once    *)
(* and share model_mutex.                                                  *)
(*                                                                         *)
(* Chunks are numbered in the order the worker produces them.              *)
(***************************************************************************)
EXTENDS Naturals, Sequences

CONSTANTS
    Requests,
    NoRequest,      \* model_mutex is free
    Chunks,         \* bound: chunks one request synthesizes
    PerSentence,    \* chunks per sentence: cancelled is polled between two
    MaxDepth        \* kMaxQueueDepth

ASSUME StreamAssumption ==
    /\ NoRequest \notin Requests
    /\ Chunks \in Nat \ {0} /\ PerSentence \in Nat \ {0} /\ MaxDepth \in Nat \ {0}

VARIABLES
    q, done, failed, cancelled,     \* the StreamQueue of each request
    made,           \* chunks its worker has pushed or dropped
    worker,         \* where its worker thread is
    provider,       \* where its request thread is
    inHand,         \* the chunk its provider has popped and not yet written
    received,       \* chunks its client has got
    gone,           \* its client has disconnected or stalls past the timeout
    model           \* who holds model_mutex

queue == <<q, done, failed, cancelled>>
vars == <<queue, made, worker, provider, inHand, received, gone, model>>

\* Type invariant, with the backpressure bound on the queue.
TypeOK ==
    /\ q \in [Requests -> Seq(1..Chunks)] /\ received \in [Requests -> Seq(1..Chunks)]
    /\ inHand \in [Requests -> 0..Chunks] /\ made \in [Requests -> 0..Chunks]
    /\ {done, failed, cancelled, gone} \subseteq [Requests -> BOOLEAN]
    /\ worker \in [Requests -> {"start", "sentence", "synth", "full", "roused", "notify",
                               "unwind", "finish", "announce", "ended"}]
    /\ provider \in [Requests -> {"head", "enter", "waiting", "roused", "popped",
                                 "writing", "finished", "closed"}]
    /\ model \in Requests \cup {NoRequest}
    /\ \A r \in Requests : Len(q[r]) <= MaxDepth

Each(value) == [r \in Requests |-> value]

\* The handler has started the worker and installed the provider.
Init ==
    /\ q = Each(<<>>) /\ done = Each(FALSE) /\ failed = Each(FALSE)
    /\ cancelled = Each(FALSE)
    /\ made = Each(0)
    /\ worker = Each("start") /\ provider = Each("head")
    /\ inHand = Each(0) /\ received = Each(<<>>)
    /\ gone = Each(FALSE)
    /\ model = NoRequest

-----------------------------------------------------------------------------
(* The worker thread *)

Goto(r, place) == worker' = [worker EXCEPT ![r] = place]

\* notify_one and notify_all from one side reach the other side's sleeper.
RouseProvider(r) ==
    provider' = [provider EXCEPT ![r] = IF @ = "waiting" THEN "roused" ELSE @]
RouseWorker(r) ==
    worker' = [worker EXCEPT ![r] = IF @ = "full" THEN "roused" ELSE @]

LockModel(r) ==
    /\ worker[r] = "start"
    /\ model = NoRequest
    /\ model' = r
    /\ Goto(r, "sentence")
    /\ UNCHANGED <<queue, made, provider, inHand, received, gone>>

\* is_cancelled() before each sentence.
PollCancelled(r) ==
    /\ worker[r] = "sentence"
    /\ Goto(r, IF cancelled[r] \/ made[r] = Chunks THEN "unwind" ELSE "synth")
    /\ UNCHANGED <<queue, made, provider, inHand, received, gone, model>>

\* Where the worker goes on after n chunks.
AfterChunk(n) == IF n = Chunks \/ n % PerSentence = 0 THEN "sentence" ELSE "synth"

\* Mutant: a full queue drops the chunk.
EnqueueDropsWhenFull(r) ==
    /\ worker[r] \in {"synth", "roused"}
    /\ made' = [made EXCEPT ![r] = @ + 1]
    /\ IF cancelled[r] \/ Len(q[r]) >= MaxDepth
       THEN Goto(r, AfterChunk(made[r] + 1)) /\ UNCHANGED q
       ELSE /\ q' = [q EXCEPT ![r] = Append(@, made[r] + 1)]
            /\ Goto(r, "notify")
    /\ UNCHANGED <<done, failed, cancelled, provider, inHand, received, gone, model>>

\* enqueue() under the queue's lock; push_pcm ignores what it returns, so a
\* cancelled sentence is still synthesized to its end, chunk by chunk.
Enqueue(r) ==
    /\ worker[r] \in {"synth", "roused"}
    /\ \/ /\ cancelled[r]
          /\ made' = [made EXCEPT ![r] = @ + 1]
          /\ Goto(r, AfterChunk(made[r] + 1))
          /\ UNCHANGED q
       \/ /\ ~cancelled[r] /\ Len(q[r]) < MaxDepth
          /\ q' = [q EXCEPT ![r] = Append(@, made[r] + 1)]
          /\ made' = [made EXCEPT ![r] = @ + 1]
          /\ Goto(r, "notify")
       \/ /\ ~cancelled[r] /\ Len(q[r]) >= MaxDepth
          /\ Goto(r, "full")
          /\ UNCHANGED <<q, made>>
    /\ UNCHANGED <<done, failed, cancelled, provider, inHand, received, gone, model>>

WorkerNotify(r) ==
    /\ worker[r] = "notify"
    /\ RouseProvider(r)
    /\ Goto(r, AfterChunk(made[r]))
    /\ UNCHANGED <<queue, made, inHand, received, gone, model>>

\* The synthesis throws: the stack unwinds, releasing model_mutex, and the
\* catch block marks the stream.
Throw(r) ==
    /\ worker[r] = "synth"
    /\ failed' = [failed EXCEPT ![r] = TRUE]
    /\ model' = NoRequest
    /\ Goto(r, "finish")
    /\ UNCHANGED <<q, done, cancelled, made, provider, inHand, received, gone>>

\* The loop is over and the lock_guard goes out of scope.
UnlockModel(r) ==
    /\ worker[r] = "unwind"
    /\ model' = NoRequest
    /\ Goto(r, "finish")
    /\ UNCHANGED <<queue, made, provider, inHand, received, gone>>

MarkDone(r) ==
    /\ worker[r] = "finish"
    /\ done' = [done EXCEPT ![r] = TRUE]
    /\ Goto(r, "announce")
    /\ UNCHANGED <<q, failed, cancelled, made, provider, inHand, received, gone, model>>

\* Mutant: the end of the stream is not notified.
AnnounceNobody(r) ==
    /\ worker[r] = "announce"
    /\ Goto(r, "ended")
    /\ UNCHANGED <<queue, made, provider, inHand, received, gone, model>>

Announce(r) ==
    /\ worker[r] = "announce"
    /\ RouseProvider(r)
    /\ Goto(r, "ended")
    /\ UNCHANGED <<queue, made, inHand, received, gone, model>>

-----------------------------------------------------------------------------
(* The request thread *)

Become(r, place) == provider' = [provider EXCEPT ![r] = place]

\* The loop of httplib's write_content_chunked: it gives up without calling
\* the provider when the socket is not writable, which a client that has left
\* or stalls may show here or only at the next write.
LoopHead(r) ==
    /\ provider[r] = "head"
    /\ \/ Become(r, "enter")
       \/ gone[r] /\ Become(r, "closed")
    /\ UNCHANGED <<queue, made, worker, inHand, received, gone, model>>

\* Mutant: `done` ends the response although chunks are still queued.
ProvideEndsOnDone(r) ==
    /\ provider[r] \in {"enter", "roused"}
    /\ IF done[r] \/ cancelled[r]
       THEN Become(r, "finished") /\ UNCHANGED <<q, inHand>>
       ELSE IF q[r] = <<>>
       THEN Become(r, "waiting") /\ UNCHANGED <<q, inHand>>
       ELSE /\ inHand' = [inHand EXCEPT ![r] = Head(q[r])]
            /\ q' = [q EXCEPT ![r] = Tail(@)]
            /\ Become(r, "popped")
    /\ UNCHANGED <<done, failed, cancelled, made, worker, received, gone, model>>

\* The provider takes the lock, waits for something to do, and either ends
\* the response or takes the next chunk.
Provide(r) ==
    /\ provider[r] \in {"enter", "roused"}
    /\ \/ /\ q[r] # <<>>
          /\ inHand' = [inHand EXCEPT ![r] = Head(q[r])]
          /\ q' = [q EXCEPT ![r] = Tail(@)]
          /\ Become(r, "popped")
       \/ /\ q[r] = <<>> /\ (done[r] \/ cancelled[r])
          /\ Become(r, "finished")
          /\ UNCHANGED <<q, inHand>>
       \/ /\ q[r] = <<>> /\ ~done[r] /\ ~cancelled[r]
          /\ Become(r, "waiting")
          /\ UNCHANGED <<q, inHand>>
    /\ UNCHANGED <<done, failed, cancelled, made, worker, received, gone, model>>

\* Mutant: the pop does not release the worker's backpressure wait.
ProviderNotifyNobody(r) ==
    /\ provider[r] = "popped"
    /\ Become(r, "writing")
    /\ UNCHANGED <<queue, made, worker, inHand, received, gone, model>>

ProviderNotify(r) ==
    /\ provider[r] = "popped"
    /\ RouseWorker(r)
    /\ Become(r, "writing")
    /\ UNCHANGED <<queue, made, inHand, received, gone, model>>

\* sink.write; a failed one cancels the stream and notifies everybody.
Write(r) ==
    /\ provider[r] = "writing"
    /\ inHand' = [inHand EXCEPT ![r] = 0]
    /\ \/ /\ ~gone[r]
          /\ received' = [received EXCEPT ![r] = Append(@, inHand[r])]
          /\ Become(r, "head")
          /\ UNCHANGED <<cancelled, worker>>
       \/ /\ gone[r]
          /\ cancelled' = [cancelled EXCEPT ![r] = TRUE]
          /\ RouseWorker(r)
          /\ Become(r, "closed")
          /\ UNCHANGED received
    /\ UNCHANGED <<q, done, failed, made, gone, model>>

\* The client goes away, or stops reading for longer than the write timeout.
Disconnect(r) ==
    /\ provider[r] \notin {"finished", "closed"}
    /\ gone' = [gone EXCEPT ![r] = TRUE]
    /\ UNCHANGED <<queue, made, worker, provider, inHand, received, model>>

WorkerStep(r) ==
    \/ LockModel(r) \/ PollCancelled(r) \/ Enqueue(r) \/ WorkerNotify(r)
    \/ Throw(r) \/ UnlockModel(r) \/ MarkDone(r) \/ Announce(r)

ProviderStep(r) ==
    LoopHead(r) \/ Provide(r) \/ ProviderNotify(r) \/ Write(r)

Next == \E r \in Requests : WorkerStep(r) \/ ProviderStep(r) \/ Disconnect(r)

\* Both threads of a request run whenever they can, and a finite set of
\* requests cannot keep a worker from model_mutex for ever.
Spec == Init /\ [][Next]_vars
FairSpec ==
    Spec /\ \A r \in Requests : WF_vars(WorkerStep(r)) /\ WF_vars(ProviderStep(r))
-----------------------------------------------------------------------------
(* Properties *)

Upto(n) == [i \in 1..n |-> i]
Held(r) == IF inHand[r] = 0 THEN <<>> ELSE <<inHand[r]>>

\* Until the stream is cancelled, what the client has, what is on its way to
\* it and what is queued are exactly the chunks produced, in order: nothing is
\* skipped, repeated or reordered across the two threads.
NothingSkipped ==
    \A r \in Requests :
        ~cancelled[r] => received[r] \o Held(r) \o q[r] = Upto(made[r])

\* A response that ends with the terminating chunk and no synthesis failure
\* carries the whole clip: `done` never overtakes queued audio.
CompleteWhenFinished ==
    \A r \in Requests :
        provider[r] = "finished" /\ ~failed[r] => received[r] = Upto(Chunks)

\* Neither thread sleeps while it has something to do and nobody is about to
\* notify it, although both sleep on the same condition variable.
NoLostWakeup ==
    \A r \in Requests :
        /\ provider[r] = "waiting" =>
              \/ q[r] = <<>> /\ ~done[r] /\ ~cancelled[r]
              \/ worker[r] \in {"notify", "announce"}
        /\ worker[r] = "full" =>
              \/ Len(q[r]) >= MaxDepth /\ ~cancelled[r]
              \/ provider[r] = "popped"

\* httplib gave the response up and the worker was never told.
LeftUntold(r) == provider[r] = "closed" /\ ~cancelled[r]

\* Every request ends, also the ones that wait for the model behind another
\* and those whose client left in a write; only a client that httplib misses
\* at the head of its loop can hold the others up.
EveryStreamEnds ==
    \/ <>(\E r \in Requests : LeftUntold(r))
    \/ \A r \in Requests :
          <>(provider[r] \in {"finished", "closed"} /\ worker[r] = "ended")

\* "The worker stops enqueuing so a detached synth does not keep ... holding
\* model_mutex for audio nobody is reading": the model is released.
ModelReleased == \A r \in Requests : model = r ~> model # r
=============================================================================
