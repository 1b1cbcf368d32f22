# A verification project for the cielvox / StelneTTS speech server

This directory holds TLA+ modules that model the parts of the repository where
correctness depends on order: which thread runs when, which call came before,
what was on disk when a process died. TLC checks the models on small
instances; TLAPS proves their safety properties for every value of their
constants.

The repository is a C++ speech toolkit derived from whisper.cpp: some eighty
model backends behind one C ABI, a command-line program, an HTTP server with
three companion protocols, a chat facility on top of llama.cpp, and a model
cache. Most of its lines are tensor arithmetic, tables and vendored code, on
which a state machine has nothing to say. What is modelled here is the glue
that serves several clients at once, and the bookkeeping of speech recognition
that is carried from one window, piece or call to the next.

Contents: [1 Inventory](#1-inventory) ·
[2 Modules and their correspondence to the code](#2-modules-and-their-correspondence-to-the-code) ·
[3 Runs](#3-runs) · [4 Fairness](#4-fairness) · [5 Proofs](#5-proofs) ·
[6 What the code does differently from what it says](#6-what-the-code-does-differently-from-what-it-says) ·
[7 Not modelled](#7-not-modelled) · [8 Plan](#8-plan)

To run it:

    tlc -workers 2 -config MCShared.cfg MCShared.tla
    tlapm WorkerPoolProofs.tla

Section 3 says which `.cfg` belongs to which module.

## 1 Inventory

### How the parts interact

`run_server()` in `examples/cli/stelnettts_server.cpp` loads one model into a
`unique_ptr<StelnettsBackend> backend` and, for pure ASR with a parallelism
above one, a `WorkerPool` of further instances. It installs the HTTP handlers,
which httplib runs on a pool of request threads, starts the companion servers
(Wyoming over TCP, streaming ASR and a realtime API over WebSockets), and
blocks in `svr.listen`. When that returns it stops the companions and its
locals, the backend among them, are destroyed.

The shared state is: `backend` with `model_mutex`, the `ready` flag and the
names `backend_name` and `params.model`; the pool; one lazily opened chat
session with `chat_init_mutex` and `chat_call_mutex`; for every streamed
speech response a `StreamQueue` between a detached worker thread and the
request thread; and, in each companion server, a listener thread with detached
handlers. A WebSocket connection drives a streaming session of the C ABI, a
realtime connection keeps its own buffer and calls the backend, and both end in
the whisper core, which keeps context in its state from call to call. Models come
from the cache directory, which the threads of several processes of the toolkit
share without a lock.

### Components

| Component | State | Operations | What is hard | What makes it correct |
|---|---|---|---|---|
| Worker pool (`src/core/worker_pool.h`) | free stack, mutex, condition variable, the pointer in every `Lease` | `acquire`, `try_acquire`, `give_back`, move, move-assign, destruction | notify after unlock, re-check after wake-up, moves that release | no resource twice, none lost, no thread asleep beside a free one, every acquire returns |
| Chat session, conversation (`src/chat.cpp`) | token history, KV cache, logits, abort callback | `reset`, `set_abort_callback`, `generate`, `generate_stream` with `prepare_prompt` and `generate_loop` | state carried from call to call, prefix reuse, calls that end in the middle of either loop | the history describes the cache; tokens are sampled from their own context; an abort flushes |
| Chat session, lifetime | call count, `retiring`, session mutex, `idle` | `session_hold`, `open`, `close` | a close beside running and arriving calls | frees once, never under a call, and terminates |
| `/v1/chat/completions` | the shared session, two mutexes | reset then generate, per request | two calls that must be one | no request sees another's conversation |
| Streaming `/v1/audio/speech` | `StreamQueue`, `model_mutex` | worker: lock, synthesize, enqueue; provider: pop, write | one condition variable for two directions, backpressure, vanishing clients, exceptions | chunks whole and in order, bounded queue, no lost wake-up, the model is released |
| Model handlers, pool dispatch, `POST /load` | `backend`, names, `ready`, `model_mutex`, pool | transcribe, stream, translate, load, companion calls | a pointer read before the lock it needs; a call made after the lock is gone; early exits | one call per backend, swap outside calls, what is reported is what is loaded, ready again |
| Wyoming server (`examples/cli/wyoming.cpp`) | `g_running`, `g_clients`, `g_active`, listener | start, accept, handle, stop | connections that arrive during the stop; descriptor reuse; a bounded wait | stop returns; nobody is left asleep; nobody sets out to call a destroyed backend |
| Model cache (`src/stelnettts_cache.cpp`) | file, `.src` sidecar, temporary files, the counter that names them | `ensure_cached_file`, `fetch` | two renames without a lock, crashes between them, failures nobody checks | only whole files; the bytes of the URL asked for |
| WebSocket streaming ASR (`examples/server/ws_stream.cpp`) with the rolling-window stream of the session C ABI | listening descriptor, detached handlers; sample count, buffer, old window, held output | start, accept, frame, flush, stop; feed, decode, flush | a listener blocked in `accept`; pieces of any size, decodes that fail and are retried | no listener outlives the server; every sample is heard and dated truly |
| Realtime API (`examples/server/realtime_server.cpp`) | audio buffer, `text_sent` | append, incremental pass, commit, stop | deltas against text already sent, exceptions in a pass; handlers nobody waits for | deltas end in the transcript; at most one late call per handler |
| Teardown of the server (end of `run_server()`) | which companion is stopped, whether the backend exists | stop Wyoming, then the two WebSocket listeners, destroy | one stop that blocks keeps the others from happening | it ends; nobody starts a call on the destroyed backend |
| Whisper core (`src/stelnettts.cpp`), window loop | rolling and carried prompt, `seek`, best decoder | window, temperature fallback, emit | state carried over windows, temperatures and calls | prompt fits, text is of this window, the loop ends |
| Whisper core, beam search | shared cells of the KV cache, tags, the decoders' tokens | sample, deal, move histories, decode | decoders inherit from each other at the same moment; fragmentation | each decoder attends to its own history; a slot is found; no sequence is searched twice |
| Reference cache for voice cloning, transcription helpers, chat program, model backends, signal and text processing, marking, bindings, tools, vendored code | | | file times, thresholds, arithmetic and tables | not modelled, see section 7 |

`PROJECT.json` lists every component with its sources, and under "hazards"
each place where an order, a failure or a limit can go wrong, with the
properties that would notice.

## 2 Modules and their correspondence to the code

A critical section of a mutex is one step unless a module says otherwise; what
happens between two of them is a step of its own. Operators named in a comment
as "Mutant" are deliberately wrong variants of the definition that follows
them. They belong to no specification and document which bug each property
notices.

### LeaseTable, WorkerPool, MCWorkerPool

`LeaseTable` is the abstract promise: a table from resources to owners, with
granting, returning and handing over. `WorkerPool` is the code: `free` is
`free_`, `lease[t][s]` the `res_` of the Lease object in variable `s` of thread
`t`, and `pc`, `dst`, `src` say where a thread is between the critical section
of `give_back` and its `notify_one`, or asleep in `cv_.wait`. `Acquire` and
`Recheck` are `acquire` up to its first and a later evaluation of the predicate,
`GiveBack` and `Notify` the two halves of `give_back`, `MoveAssign` is
`operator=`, which releases its target first. `SpuriousWakeup` is what the
standard permits. A thread asks for a blocking lease only while it holds none,
as `dispatch_transcribe` does. `MCWorkerPool` counts the leases each thread asks
for: with unboundedly many requests a new one may always overtake a woken one,
and `EveryAcquireReturns` would be false of any unfair queue.

### ChatContext, ChatServer

`ChatContext` is a session as a sequence of calls. `history` is `s->history`,
`cache` the tokens whose keys and values llama.cpp holds for sequence 0, and
`logits` the context of the last successful decode. `PreparePrompt` is
`prepare_prompt` with the longest common prefix, the held-back last token, the
removal that the memory may refuse, and the full flush. `PrefillPiece`,
`BuildSampler`, `Sample` and `Advance` are `generate_loop`: every place where it
looks at the abort callback, where a decode fails, where the token budget or
`n_ctx` ends it, and where a stop sequence does. Tokens are abstract; the
sampler, the decoder, the stop search and the callback may answer anything.
`generate` and `generate_stream` differ in whether pieces are delivered and share
everything else, so they are one action.

`ChatServer` EXTENDS it with the handlers of `/v1/chat/completions`: a request is
`Receive`, `Lock`, `CallReset`, `CallGenerate`, `Respond`.

### ChatLifecycle

`Enter` is the constructor of `session_hold`, `Leave` its destructor, `Close`,
`RecheckIdle` and `Free` are `stelnettts_chat_close` before, in and after its wait.
What the header asks of callers is taken as given: a call reaches the lock
`life` before the session is freed. What the hold is for, calls that arrive
while a close is waiting, is in the model.

`MCShared` gives the pool, the conversation and the lifetime one run; see section 3
for why that is sound.

### SpeechStream

The worker thread is `LockModel`, then for each sentence `PollCancelled` and for
each chunk `Enqueue` and `WorkerNotify`, then `UnlockModel`, `MarkDone` and
`Announce`; `Throw` is an exception out of the synthesis. The request thread is
`LoopHead` (the loop of httplib's `write_content_chunked`), `Provide` and
`ProviderNotify` (the wait and the pop), and `Write`. `push_pcm` ignores what
`enqueue` returns, so a cancelled sentence is synthesized to its end; the model
does the same. A client may leave or stall at any time, and httplib may notice
either at the head of its loop or only in a write.

### ModelServer

A backend object is the number of the load that made it. A request of kind
"pure" goes to a pool worker when there is a pool; the other kinds queue for
`model_mutex`, and differ in when they read the pointer (`Prepare` or `Call`);
`Refuse` is every answer a handler gives before it calls a model.
`BeginLoad`, `KeepOld`, `LoadThrows`, `Swap` and `FinishLoad` are `POST /load`.
The pool is the `LeaseTable` that `WorkerPool` implements, so this module
composes with that one through its specification. `thrown` is a history
variable: the last load to end left by an exception.

Kind "speech" is the buffered `/v1/audio/speech`. It makes one model call that
is not under the mutex: after its lock scope (`Spoken`) it reads the pointer
again (`PrependDisclaimer`) and, for a cloned voice, has the backend synthesize
the spoken disclaimer (`Disclose`, `AnswerSpeech`). `std::call_once` makes that
happen once per process and blocks the others meanwhile: `once` is the thread
inside it, `disclosed` its flag, which an exception leaves unset (`EndOnce`). The
streaming worker and Wyoming enter the same `call_once` inside a call that holds
the mutex (`DiscloseInCall`).

### Wyoming, WsListeners, Companions

`Wyoming` is the listener, the handlers and `wyoming_stop`, with descriptors as a
small set that accept reuses. A message is only whether it makes the handler call
the backend. `DrainAndReturn` is the wait of at most two seconds: it ends when
`g_active` is zero, or when nothing but backend calls and peers is left to wait for,
every other step being far shorter.

`WsListeners` is the two WebSocket servers, which are one program twice: a listener
that blocks in `accept`, detached handlers that nobody counts, and a stop that clears
a flag, closes the descriptor and joins. Whether a blocked `accept` notices the
`close` is left to the platform: it may fail, return a connection, or stay.

`Companions` puts both into the end of `run_server()`. `ListenReturns` ends
`svr.listen`; then Wyoming, the streaming and the realtime listener are stopped in
this order, each only if it was started, and `Destroy` is the destruction of the
backend. Handlers go on running throughout, as the detached threads do.

### ModelCache

One file name, the URL whose bytes it holds, its sidecar, and the temporary
files of living processes. A process has several threads with one counter.
`ReadSidecar`, `OpenTemp`, `Complete`, `Fail`, `Rename` and `WriteSidecar` are the
steps of `ensure_cached_file` and `fetch`; `Crash` ends a process with all its
threads and may happen between any two. `TakeNumber` and `CountUp` are the read
and the write of the counter in `unique_temp_path`, which is a plain `static int`:
two threads may read it before either writes. The transfer itself is one step, with
three ends: it completes, it fails, or it breaks off and is taken for complete
("broken"), because the read loop of `fetch_winhttp` ends alike in both cases and no
write is checked. `WriteSidecar` may leave the old text, no text or a part of it,
because `write_text_file` reports nothing. The histories `misreported`, `raced`,
`unrecorded`, `overlapped` and `died` say which of these has happened.
`MCModelCache` is the instance, a server with two handler threads and a command
line; `MCModels` runs it together with `ModelServer`.

### StreamSession, RealtimeSession

`StreamSession` is `stelnettts_stream_feed`, `_run_decode` and `_flush` with the frame
loop of `ws_stream.cpp` around them. A sample is its position in the stream, so that
a window is a sequence of positions and the time of a message can be compared with
what was decoded. A decode succeeds or not; one that fails leaves the buffer.

`RealtimeSession` is `rt_session`: `AppendAudio` is the append event with the commit
past thirty seconds and the pass at every half second, `Processed` is
`process_audio`, `HandleCommit` the commit, `Throws` an exception out of the backend
at any of those places, after which the buffer has already grown.

### WhisperFull, WhisperBeam, MCRecognition

`WhisperFull` is the loop of `whisper_full_with_state` over windows and temperatures,
for several calls on one state. Token sequences are their lengths. What a decoding
yields is open, so every pattern of failing decoders, temperatures and timestamps is
a behaviour. `Begin` is the head of a call with its initial prompt, `Window` the
encoding of the next window, `Attempt` one temperature, `Emit` the output with the
next `seek` and context. `AttemptFails` is a decoding that fails (-8, -9),
`AttemptFrees` the exit -7, which frees the state it was given when there is no
memory for a larger cache (`made` is `kv_self_n_dec`); nothing follows it.

A call brings its number of temperatures, and that may be zero: the list is filled
while the temperature is below 1. `Window` then goes straight to the output, and what
is put out is `LeftBehind`, decoder 0 as an earlier call left it. `ran` says whether
there has been one; if not, the memory was never written, so that the shift of the
window is any number (`LeftBehind`) or the behaviour ends (`EmitUndefined`).
`AttemptUndefined` is the place where the code computes a range that ends before it
begins (section 6); what the program does after it is not followed.

`WhisperBeam` is the beam search inside one temperature. `Sample` is one step of it
up to the decoding: every live decoder proposes continuations, `Candidates` are what
they propose in the order of the scores, `Dealt` leaves out a candidate equal to the
one before (not in the first step, as in the code), `Deal` gives the `n`-th live
decoder the `n`-th candidate and starts again from the best when they run out, and
`MoveHistories` moves the tags. The code does that in two loops over the decoders,
which are two recursive functions here: `SaveHistories` tags the history of each
chosen source with a scratch id, and only then `Move` replaces each decoder's own
history by the one saved for it. `SeqRm`, `SeqCp` and `FindSlot` are
`whisper_kv_cache_seq_rm`, `_seq_cp` and `_find_slot` with the `head` they leave.
`DecodeNext` ends some decoders and decodes one token for the others in the first free
slot. The cache has as many cells as the code gives it: for more than one decoder
the context times two more than their number, for one decoder the context. The
content of a cell is the token sequence it was computed from, so that "the cache of
decoder `j`" is a fact of the state and not an assumption.

The two are separate because the search starts from a cleared cache and hands only
its result to the window loop. `MCRecognition` gives these two and the two sessions
above their instances.

## 3 Runs

| Run | Module and `.cfg` | Instance | Shows |
|---|---|---|---|
| `shared` | `MCShared` | pool: 3 threads, 2 Lease objects each, 2 resources, 2 leases per thread; conversation: 2 tokens, prompts to 3, context 4, batches of 2, 2 generated tokens, no stop sequences; lifetime: 3 threads, any number of opens and closes | `ExclusiveLease`, `NothingLost`, `NoLostWakeup`, that the pool implements `LeaseTable` and that every acquire returns; whichever way calls end, `HistoryIsCache`, `SampledInContext`, `AbortedIsFlushed`; one close frees, only when idle, and it terminates |
| `chat_stop_history` | `ChatContext`, `MCChatStopHistory.cfg` | the same conversation with stop sequences | `HistoryIsCache` is violated (section 6) |
| `chat_server` | `ChatServer`, `MCChatServer.cfg` | 2 clients, prompts to 2, with and without stop sequences | a request runs its own prompt, and every token is sampled from its own context although stop sequences leave the history wrong |
| `speech_stream` | `SpeechStream`, `MCSpeechStream.cfg` | 2 requests, 3 chunks in sentences of 2, queue of 2 | order, completeness, wake-ups, and that streams end |
| `speech_stall` | `SpeechStream`, `MCSpeechStall.cfg` | the same with a queue of 1 | `ModelReleased` is violated (section 6) |
| `models` | `MCModels` | server: 3 threads, 2 pooled workers, 2 loads; cache: 2 threads of a server and a command line, 2 URLs, 3 requests in all | calls under the mutex or a lease are exclusive and no swap is made in one, reported = loaded = ready, ready again; what a partial file takes, the right bytes for well-separated and recorded requests, no litter |
| `stale_backend` | `ModelServer`, `MCStaleBackend.cfg` | the server with 1 load | `RunsOnPrimary` is violated (section 6) |
| `unlocked_disclaimer` | `ModelServer`, `MCUnlockedDisclaimer.cfg` | the server with 1 load | `OneCallPerBackend` is violated (section 6) |
| `lost_sidecar` | `MCModelCache`, `MCLostSidecar.cfg` | the cache as in `models` | `LaterServesRequested` is violated (section 6) |
| `companions` | `Companions`, `MCCompanions.cfg` | 2 Wyoming handlers on 2 descriptors, one WebSocket listener or none, 1 handler | every Wyoming handler is woken, descriptors are never confused, who may still call the backend, and that the teardown ends |
| `recognition` | `MCRecognition`, `MCRecognition.cfg` | see below | cells, slots and deals of the beam search; prompts and texts of windows; times and samples of streams; deltas |
| `no_temperature` | `MCRecognition`, `MCNoTemperature.cfg` | the same | `EmitsDecoded` is violated (section 6) |

`MCShared`, `MCModels` and `MCRecognition` put modules that share no state into one
run. A behaviour of such a run is a behaviour of one of its modules, chosen in the
initial state, while the variables of the others keep their initial values. Every
behaviour of each module is there, none is changed, and the states add up instead of
multiplying; fairness is that of each module, on its own variables.

The type invariants are in no run of their own: they are theorems (section 5), and
the properties above would fail on an ill-typed state.

Why the bounds are enough to meet the interesting cases:

- The pool has more threads than resources, so threads sleep, and two Lease
  objects per thread, so that every move has a full and an empty target.
- A context of 4 is shorter than a prompt of 3 and two tokens, so prefill and
  decoding both run out of it; a batch of 2 makes a prompt of 3 take two pieces,
  with an abort between them; prompts of 3 over 2 tokens extend, cut and repeat
  each other in every way, the identical prompt (the held-back token) included.
- Three threads are a closer, a call inside and a late arrival, or two closers
  and a call.
- A queue of 2 for 3 chunks fills, drains and fills; sentences of 2 put the poll
  of `cancelled` between chunks that are queued; the second request waits for
  the first one's model.
- Three server threads are a load, a call and a waiter that has read the
  pointer already, or two disclaimers and a call; two loads are a stale pointer and a
  later one.
- Two Wyoming handlers on two descriptors: one that registers before the wake-up and
  one after it, each on a descriptor the other has used. One WebSocket listener shows
  what a stop that blocks does to the teardown; a second one adds only the same
  behaviour again, and the proof covers both.
- Beams: two decoders for four steps after a prompt of two (cells freed and reused,
  so the cache fragments), three for two steps (a decoder continues from one that
  itself continues from a third), and one alone, whose cache has no cell to spare; over
  two tokens.
- Windows: audio of four units in chunks of two, two temperatures of which the second
  has no context, one decoder first and two later or two and one, so that the cache
  grows and the best decoder may be one that does not run again, or no temperature at
  all; budgets of nothing, one token, two tokens and half of the context; two calls on
  one state, so that one without a temperature comes first or after another.
- Streams: a step of 3, a length of 4 and one sample kept, fed in pieces of 1 to 6 up
  to 14 samples, so that a piece is shorter than a step, longer than a window, and
  arrives after a failed decode.
- Realtime: a pass at every 2 units and a commit past 4, appends of 0 to 3 units,
  transcripts of up to two words out of two, three deltas in an utterance.
- Three cache requests of three threads: two in one process race for the counter while
  the other process renames; or one after the other a download, a second one for the
  other URL whose sidecar is lost, and the request that is served the wrong bytes. The
  counter of temporary names is bounded by the requests.

`CHECK_DEADLOCK FALSE` is set where the system may really stop: in `speech_stream` and
`speech_stall` when every response has ended, in `companions` when the server is down,
in `recognition` and `no_temperature` when the beam search is done, the calls are used
up or a bound of a session is reached, in `lost_sidecar` when the requests are used up.
In `shared` and `models` a step `Ended` stands for that end, of the pool's and of the
cache's bounded requests alone, so that anything else that stops is reported: a chat
session, its lifetime and the model server never do.

## 4 Fairness

Fairness is weak everywhere and only on steps the code takes by itself: a thread
between two critical sections goes on; the holder of a lease, of the model or of
a session finishes, because a generation is bounded by `max_tokens` and a
synthesis by its sentences; `select` times out after its second; a socket that
was shut down ends its `recv`. Nothing is assumed of clients: they need not send,
read, disconnect or keep quiet. Mutexes are not assumed to be strongly fair, so a
liveness property that a stream of further requests could defeat is stated for
finitely many requests, which is what the counters in `MCWorkerPool` and the
finite set of requests in `SpeechStream` are.

- `EveryAcquireReturns`: the holders release, woken threads run.
- `CloseReturns`: calls inside the session finish. Arriving calls need no
  assumption, because a retired session declines them.
- `EveryStreamEnds`: both threads of a request run. It exempts the runs in which
  httplib gave a response up without the worker being told; section 6 says what
  happens then.
- `ComesBack`: resolving, downloading and initialising a model terminate.
- `TeardownReturns`: the main thread, the listeners outside `accept`, and the Wyoming
  handlers run; `select` times out and backend calls end. Nothing is assumed of a
  WebSocket handler, which the code does not wait for, nor of a blocked `accept`: the
  property exempts exactly the behaviours in which a listener stays in one, because
  there the join never returns.
- `EveryCallReturns`: a transcription call goes on. No temperature need succeed; that
  windows advance is what is shown. It exempts a call that has no temperature on a
  state that has never decoded: such a call advances by a number nobody has written,
  which may be zero.

## 5 Proofs

Every theorem is of the form `Spec => []Invariant`, an action property or a
refinement, and holds for every value of the constants that the named assumption
of its module allows. TLC checked each inductive invariant before it was proved.

**Worker pool** (`WorkerPoolProofs`). Assumption: `PoolAssumption` (finitely many
threads and resources; the two null values are distinct from what they stand
beside). The type invariant and `ExclusiveLease` are not inductive: a thread that
wakes up and takes a resource overwrites what its Lease object held, and a
move-assignment in progress reads its source after its target was released.
`ControlOK` says that a sleeping or woken thread holds nothing (`acquire` is called
with no lease in hand), that only a thread inside `give_back` has a source, and
that it is not the target. `IInv == PoolTypeOK /\ ControlOK /\ ExclusiveLease` is
inductive (`Inductive`, one step per action; `PopBack`, `PushBack` and `TakeEffect`
say what the stack operations do). The rest follows with it:

- `NoLostWakeup` counts: every step that puts a resource back makes one more
  thread active, every step that deactivates one takes a resource or finds none
  asleep. This is where the finiteness of `Threads` is used.
- `NothingLost` follows every resource through each step; the move-assignment is
  the interesting case, because the source is emptied after the target is given
  back.
- `PoolImplementsTable` is the refinement. `ExclusiveLease` makes the `CHOOSE` in
  the mapping definite (`OwnerIs`); a pop is then a grant, the locked half of
  `give_back` the return, the second half of a move-assignment a hand-over, and
  every other step a stutter. `ModelServer` rests on this theorem.

**Chat session, conversation** (`ChatContextProofs`). Assumption:
`ContextAssumption` (the sizes are positive). The invariant is `ContextOK`, which
says for each part of a call how history, cache and logits relate to the prompt
and to what was sampled; in particular that between two calls a session that has
a history also has its logits, which is why a prompt that repeats the history
exactly may be sampled from without decoding anything. `Prepared` is the lemma
about `prepare_prompt`: what is kept of the history followed by `prompt_new` is
the prompt. It rests on `Cut` and `CommonCut`, about prefixes of sequences. That
types hold and that an abort flushes is proved for all callers.
`ContextHistoryIsCache` and `ContextSampled` assume `NoStops`, that callers pass no
stop sequences: the run `chat_stop_history` shows that they are false otherwise.

**Chat session, lifetime** (`ChatLifecycleProofs`). Assumption:
`LifecycleAssumption` (finitely many threads, of which the free mutex is none).
`FreesOnlyWhenIdle` needs `CountOK`, that `in_use` is the number of calls between
constructor and destructor, and `CloseOK`, that a closer exists only on a session
that is alive and retiring, that a closer that is past its wait still finds the
count zero, and that a freed session has none. `OneCloser` is part of the invariant
because a second closer could free a session that the first has freed.

**Model server** (`ModelServerProofs`). Assumption: `ServerAssumption` (the null
values differ from what they stand beside; workers are not load numbers). The two
locks are related to the control state by `LocksOK`: who is inside a load or a
call outside the pool has `model_mutex`, the disclaimer's excepted, and who runs on
a worker owns it in the table. `OnceOK` says that the disclaimer is synthesized only
inside `call_once`, so that there is never a second one. `PoolOK` says that a pool rules loads out, `LoadOK` that only a load in
progress leaves the names or `ready` behind the backend, `ReferenceOK` that a
by-reference capture has not read the pointer before its call. What follows is what
the two locks do give: two calls meet in a backend only if one is the disclaimer
(`OneCallBesideDisclaimer`), and no swap is made inside a call that holds a lock
(`SwapsOutsideCalls`). The run `unlocked_disclaimer` shows the exception.
`ServesWhatItReports`
says in one formula what every exit of `/load` owes the next reader of the server:
whenever the mutex is free, the names are those of the loaded model and the server is
ready unless a load has thrown, and with a pool no load has happened at all.

**Model cache** (`ModelCacheProofs`). Assumption: `CacheAssumption` (every thread is
of a process; the two texts that are no URL differ from every URL). `NamesOK` makes
temporary names private unless the counter was raced for: then at most one thread of
a process is between its read and its write of the counter, what it has read is still
there, and the names in use are below it. Hence a rename puts one complete download
in place, however many processes run, fail and die, unless the download itself was
misreported (`CacheOnlyWholeFiles`). The lemmas `Counted`, `NamesKept` and
`NamesDropped` carry this through the steps. `LitterOK` ties every temporary file to a
thread that is writing it, with or without a race. `AloneOK` is about runs without
overlap, death or lost sidecar, the ones `ServesRequested` speaks of: then only the
request between its two renames finds the sidecar behind the file. None of the
conditions can be left out: section 6 has what happens then, and `lost_sidecar` is the
counterexample for the least expected of them.

**Chat server** (in `ChatContextProofs`). Assumptions: those of the two modules. Here
nothing is assumed of stop sequences. `HandlersOK` says that the holder of
`chat_call_mutex` is the one handler between its two calls, and that after the reset
history and cache are empty; `RunOK` relates cache and logits, but not the history, to
the prompt of the call. A call that begins on an empty session decodes its whole
prompt, so `SampledInContext` holds on the server without `NoStops`.

**Speech stream** (`SpeechStreamProofs`). Assumptions: those of the module, on the
sizes. Every conjunct of the invariant is about one request, so `RequestOK` is proved
for the request that moves and is untouched for the others. `WorkerOK` says that only
a failure or a cancellation ends a synthesis early, `ProviderOK` what the provider
holds between pop and write and that after `finished` the queue is empty. With them
`received \o Held \o q` is everything made: each step moves one chunk over one of the
two seams. `Notified` is the wake-up invariant of the shared condition variable: a
sleeping provider has nothing to fetch or the worker stands before its `notify_one`,
and the same the other way round.

**Window loop** (`RecognitionProofs`). Assumption: `FullAssumption` (budgets are at
most half of the text context, as the code computes them; a call may have any number
of temperatures, none included). `ContextOK` bounds the
carried prompt by the budget it was cut for, which is what makes `PromptFits` name the
only two ways into the undefined range. `BestOK` is the reason that no window emits
the text of an earlier one, of its own call or of another: decoder 0 runs at every
temperature, and the search for the best begins with it. That needs one temperature,
so that `FullEmitsThisWindow` says nothing of a call that has none; `no_temperature`
shows what such a call does.

**Streamed session** (`RecognitionProofs`). Assumption: `StreamAssumption` (step and
length are positive). The three statements of the run follow from one picture of the
state, `StreamIInv`: what is buffered is the stretch of the stream from `Consumed` to
`fed`, what is kept of the last window is a stretch that ends at `Consumed`, and so is
the window of the output held. `LastOfStretch` and `JoinedStretch` say that cutting off
a beginning and appending what follows keep a sequence a stretch, hence
`WindowIsStretch`: the window is a stretch that ends at the end of the stream and
contains all that is new. `DecodePreserves` is shared by the feed and the flush. No
bound on pieces, steps, overlaps or failures enters.

**Companions** (`CompanionsProofs`). Assumption: `WyomingAssumption` (finitely many
handlers; the null descriptor is none). `WyInv` is the invariant of the Wyoming server
alone: `CountOK` makes `g_active` the number of handlers between their first and last
line, `OneOwner` makes a descriptor belong to one of them, which together with
`RegisteredIsOpen` is why `shutdown` and the erase never hit another connection.
`StopOK` says what each stage of `wyoming_stop` has achieved: the last one, that no
handler is in `recv` any more, follows from `NobodySleepsThroughStop` and the wait,
and is what `NoCallAfterTeardown` needs. Above it `WsOK`, `MainOK` and `LateOK` say
that a stopped listener's flag is down, that the backend is destroyed after all stops,
and that a handler that has made its late call never waits for a frame again.

**Beam search** (`RecognitionProofs`). Assumption: `BeamAssumption` (finitely many
tokens; a call has a decoder, a prompt and a step). `OwnHistory` speaks of
cardinalities and of live decoders only; inductive is `BeamIInv`: the types, that all
cells in use lie below `Mark`, the prompt and one cell per decoder and step
(`Sound`), `HistoriesKept`, that what carries the tag of a live decoder holds each
position once with what its tokens make it, and `NoneDealtTwice`. The argument has
three parts.

- The tags. `RmEffect` and `CpEffect` say what the two cache operations do to the tags
  of a cell. `SaveLoop` and `MoveLoop` turn the two recursive functions into loops
  that can be walked, `SaveStep` and `MoveStep` are one round of each, with which tags
  the rounds so far have set, and `MoveEffect` is the end: the two loops together are one simultaneous assignment, in
  which every live decoder's history becomes what its source had before the step,
  whatever the sources are. That is the point of the scratch ids; with one loop it is
  false (the mutant `MoveOneByOne`).
- The deal. `Places` says that the members of a finite set, put in any strict total
  order, have the places `0 .. n - 1`. Hence the `CHOOSE` of `Deal` is definite
  (`DealEffect`): every live decoder gets a candidate, different ones as long as there
  are enough. `CandidatesEffect` counts them: after the equal ones are passed over
  there are as many as the code keeps of the different proposals. `SampleEffect` joins
  the two, and `NoneDealtTwice` follows.
- The room. A cache in which everything lies below `Mark` has free cells in a row from
  there on. `SlotFound` is then a comparison of products: the cells below `Mark` and a
  batch more never exceed `CellCount` (`Room`, `MarkFits`). One cell per decoder and
  step would do, however fragmented the cache is: the factor of the code is generous.

**Realtime session** (`RecognitionProofs`). Assumption: `RealtimeAssumption` (the half
second and the limit are positive, the bounds are numbers). `RtIInv` says that the
deltas, one after the other, end in the text so far, and those of the last completed
event in its transcript. `FlattenAppend` says that one more delta goes to the end;
`ProcessedKeeps` splits on what `Diff` sends: a new end makes the old text the new
one, anything else is the whole text. A commit moves the text with its deltas, and an
exception leaves both.

**Induction.** The library's induction theorems cannot be instantiated by the provers
here, because they take an operator. `SetInduction` is induction over the numbers
stated for a set instead of an operator; it follows from `LeastNatural`, the
least-number principle, which in turn follows from the well-foundedness of the order
of the naturals. With it the recursive functions of `WhisperBeam` and the fold inside
`FlattenSeq` are within reach: `SaveLoop`, `MoveLoop`, `MoveEffect`, `Flattening` and `FlattenAppend`
rest on it.

**Only model-checked** are the liveness properties (the prover has no `ENABLED`):
`EveryAcquireReturns`, `CloseReturns`, `EveryStreamEnds`, `ComesBack`,
`TeardownReturns` and `EveryCallReturns`; and what the runs marked as violations show,
which is a counterexample and not a theorem. Every other property of a run is a
theorem.

## 6 What the code does differently from what it says

Each of these is a run that TLC ends with a counterexample.

1. **`chat_stop_history`.** `generate_loop` appends the sampled token to
   `s->history` (`src/chat.cpp:622`) before the search for stop sequences, and a
   match leaves the loop without decoding it. The history is then one token longer
   than the cache, although `src/chat.cpp:186` calls it "tokens already in the KV
   cache". The next prompt that extends the history is decoded onto a cache that
   lacks the token. `chat_server` shows that the HTTP server is not affected,
   because it resets the session before every request.
2. **`speech_stall`.** Only a failed `sink.write` sets `cancelled`. When httplib
   finds the socket unwritable or the peer gone at the head of its loop, it does
   not call the provider again; the worker fills the queue and sleeps for ever,
   with `model_mutex` held. The comment at `stelnettts_server.cpp:2603` says the
   flag is there to prevent this.
3. **`stale_backend`.** `dispatch_transcribe` evaluates `backend.get()` before it
   waits for `model_mutex`; a `/load` in between destroys that object. The
   companion servers keep the pointer they were started with, across every
   `/load`.
4. **`unlocked_disclaimer`.** The lock scope of the buffered `/v1/audio/speech` ends at
   `stelnettts_server.cpp:2765`. For a cloned voice the handler then has the backend
   synthesize the spoken disclaimer (`:2783`, `stelnettts_tts_disclaimer.h:50-57`), the
   first time in the life of the process, without `model_mutex`: a second call runs in
   the same backend. The comment at `stelnettts_server.cpp:1225` says that TTS on the
   primary must stay serialized. Nor does the call keep `/load` out: the mutex is free, and
   a swap destroys the backend that is synthesizing, which is why `SwapsOutsideCalls`
   speaks of calls that hold a lock.
5. **`lost_sidecar`.** `write_text_file` (`stelnettts_cache.cpp:424-433`) reports no failure, and
   `ensure_cached_file` returns the path (`:636-637`). The new bytes keep the old
   origin, or none, which is trusted; a later request for another URL is served the
   wrong bytes, with no overlap and no crash, which `:401` says the sidecar prevents.
6. **`no_temperature`.** The list of temperatures (`src/stelnettts.cpp:7720-7727`) is
   empty when the first one is above 1 and there is an increment; the server takes the
   temperature from a form without a bound. No decoder runs, and the text and the shift
   of the window are what an earlier call left in decoder 0, or memory that nothing has
   been written to (`:1291`, `:1309`), with which the call need not end.

Also met while reading, and not a run of their own, mostly because one look at the source
shows them:

- `fetch_winhttp` (`stelnettts_cache.cpp:180-195`) cannot tell a read that failed from
  the end of the body and does not check its writes, and `fetch_download` (`:479`) takes
  any file that is not empty. A partial file is renamed into place and stays there,
  although `:548` says that only a complete download is. `OnlyWholeFiles` exempts such a
  file through `misreported`.
- The counter in `unique_temp_path` (`:387`) is a plain static. Two threads of one process
  can be given one name and write into one file; `:384` says they never do.
  `OnlyWholeFiles` exempts this through `raced`.
- A `/load` whose resolve or init throws leaves `ready` false
  (`ServesWhatItReports` and `ComesBack` exempt it through `thrown`).
- The cache renames a file into place before it writes its sidecar
  (`src/stelnettts_cache.cpp:634` and `:636`). Also where every write succeeds, a crash
  between the two, or two processes that interleave them, leave one URL recorded beside
  the other's bytes, and later requests trust the sidecar. `ServesRequested` therefore
  speaks of requests that neither overlap nor die.
- `docs/server.md:602` says that the realtime endpoint streams deltas incrementally. A
  pass that rewrites or repeats the text sends all of it again, so a client that adds
  the deltas up holds more than the transcript; `DeltasEndInTranscript` states what
  does hold.
- The prompt budget: at `src/stelnettts.cpp:8002` the room for the rolling context is
  negative when the budget is one token and a carried prompt exists, or when the
  carried prompt was cut for the larger budget of an earlier call on the same state.
  The range inserted next then begins behind its end, which is undefined.
  `PromptFits` shows that there is no third way.
- With token timestamps by DTW, the loop at `src/stelnettts.cpp:8684` runs `seg` from
  `size - n_segments` while `seg < n_segments`: from the second window on, the callback
  for new segments is not called, or called for too few.
- A realtime handler that waits for a frame while the server is torn down makes one
  call of the destroyed backend (`OneLateCall` bounds it; it does not exclude it).
- A Wyoming backend call longer than the wait in `wyoming_stop` goes on using a
  backend that is being destroyed, and a handler that was already waiting for
  `model_mutex` may enter it (`NoCallAfterTeardown` speaks of handlers that set out to
  call).
- A streaming chat caller receives the text of a stop sequence that the returned
  string no longer has, because the piece is delivered before the search.
- `StreamQueue::failed` is written and never read: a synthesis that throws looks
  to the client like a short clip.
- When there is no memory for a larger cache, `whisper_full_with_state` frees the state
  it was given (`src/stelnettts.cpp:8031`), which its caller still holds
  (`AttemptFrees`).
- `whisper_full` returns 0 without decoding anything for less than 100 ms of audio. To
  the streamed session such a window counts as decoded: in `NothingUnheard` and
  `FinalReachesEnd`, "decoded" is what was handed to the recogniser with success.
- `/health` and `/v1/models` read the model's names without `model_mutex`.
- The two WebSocket listeners join a thread that may be blocked in `accept`; the
  Wyoming listener, which polls, does not have the problem.

## 7 Not modelled

- Inference, sampling, signal processing, grapheme-to-phoneme tables, marking and
  watermarking: functions of their input without a protocol. In the whisper core this
  is the encoder, the tensors, the log-probabilities, the timestamp and grammar
  filters, segmentation and word times.
- The C ABI in `src/stelnettts_c_api.cpp` besides the rolling-window stream: one
  dispatch over the families; each call forwards to the handle of its family and keeps
  nothing between calls.
- The microphone: four calls over a vendored device library, whose threads decide
  every order there is.
- The transcription helpers (`asr_overlap_trim`, `asr_time_order`, `vad_failover` and
  their like): pure functions with heuristic thresholds. There is no definition of the
  right answer to compare them with other than the functions themselves.
- The reference cache for voice cloning: written like the model cache, by temporary
  file and rename; whether an entry is stale is decided by the resolution of file times.
- The interactive chat program: a loop that appends to a list and calls `generate`,
  which is `ChatContext`. Its pointers into a growing vector are a question about
  `std::vector` and not about an order of steps.
- The bindings, crates, tools and examples: wrappers and scripts. The command line: a
  sequential program.
- The model backends other than whisper: some eighty implementations of one interface,
  without state that outlives a call in a way the server depends on.
- The vendored libraries. Where the models rest on one (httplib's write loop,
  condition variables, sockets, llama.cpp's memory) it appears as an action marked
  external, modelled from how the code here uses it.
- Data races below a step: `/health`, `/v1/models` and capability queries that read
  without `model_mutex` what `/load` assigns.
- Inside the modelled parts: formats, parsing, logging, audio data, the HTTP routes
  that change no state, and the search of several cache directories.

Most of the repository's lines are model backends, vendored libraries and signal
processing, so the modelled lines are a small share of the whole and will stay one.

## 8 Plan

Done, in this order, each with the proofs that section 5 names:

1. `LeaseTable`, `WorkerPool`: the pool and its refinement.
2. `ChatContext`, `ChatServer`: the conversation and its shared use.
3. `ChatLifecycle`: close against calls.
4. `SpeechStream`: producer, consumer and the model mutex.
5. `ModelServer`, composed with the pool through `LeaseTable`: dispatch and hot swap.
6. `ModelCache`: crashes and processes without a lock.
7. `Wyoming`, `WsListeners`, `Companions`: who may still call the backend when it is
   destroyed.
8. `StreamSession`, `RealtimeSession`: what a client has been told of its audio.
9. `WhisperFull`, `WhisperBeam`: the recogniser's own bookkeeping.

Left: the other streaming families of the session C ABI, should they come to share a
protocol.
