----------------------------- MODULE ModelServer -----------------------------
(***************************************************************************)
(* run_server(): the loaded model behind the HTTP handlers.                *)
(*                                                                         *)
(* `backend` is a unique_ptr that POST /load replaces under model_mutex.   *)
(* Model calls are made under that mutex, with two exceptions: "pure ASR"  *)
(* requests when a worker pool was built at start-up, and the spoken       *)
(* disclaimer of a cloned voice, which the buffered speech handler has     *)
(* synthesized AFTER its lock scope, once per process (std::call_once).    *)
(* Handlers differ in WHEN they read the pointer: the streaming, speech    *)
(* and text handlers capture it by reference and read it under the mutex,  *)
(* dispatch_transcribe passes backend.get() before it, and the companion   *)
(* servers (Wyoming, realtime) got backend.get() once, when started.       *)
(* Queries of what never changes in a backend (capabilities, sample rate)  *)
(* are made without the mutex everywhere; they are not calls here.         *)
(*                                                                         *)
(* A backend object is the number of the successful load that made it; the *)
(* swap destroys the previous one, so only the current number is alive.    *)
(***************************************************************************)
EXTENDS Naturals

CONSTANTS
    Handlers,        \* httplib workers and companion sessions
    Workers,        \* backends of the pool, made from the start-up model
    Nobody, None,
    MaxLoads        \* bound: successful loads

\* "stream" is a streaming transcription or a streaming speech request,
\* "speech" a buffered speech request.
Kinds == {"pure", "transcribe", "stream", "speech", "translate", "companion", "load"}
ByReference == {"stream", "speech", "translate"}

ASSUME ServerAssumption ==
    /\ MaxLoads \in Nat
    /\ Nobody \notin Handlers
    /\ None \notin Nat
    /\ None \notin Workers \cup Kinds
    /\ Workers \cap Nat = {}

VARIABLES
    backend,        \* the primary backend object
    loaded,         \* backend_name and params.model: the load they come from
    ready,
    mutex,          \* the holder of model_mutex, or Nobody
    pooled,         \* asr_pool was built
    owner,          \* owner[w]: who leases worker w of the pool
    at,             \* at[t]: where t's handler is
    kind,           \* kind[t]: the request it serves
    ptr,            \* ptr[t]: the backend it will call or is calling
    once,           \* the thread inside call_once's function, or Nobody
    disclosed,      \* call_once is done: the disclaimer is cached
    thrown          \* history: the last load to end left by an exception

serverVars == <<backend, loaded, ready, mutex, pooled, owner, at, kind, ptr,
          once, disclosed, thrown>>
disclaimer == <<once, disclosed>>

Pool == INSTANCE LeaseTable WITH Resources <- Workers, Holders <- Handlers

Versions == 0 .. MaxLoads
ServerStages == {"idle", "admitted", "queued", "running", "loading", "swapped",
           "spoken", "prepending", "disclosing"}

\* Type invariant of the server.
ServerTypeOK ==
    /\ backend \in Versions /\ loaded \in Versions
    /\ ready \in BOOLEAN /\ pooled \in BOOLEAN /\ thrown \in BOOLEAN
    /\ mutex \in Handlers \cup {Nobody}
    /\ once \in Handlers \cup {Nobody} /\ disclosed \in BOOLEAN
    /\ owner \in [Workers -> Handlers \cup {Nobody}]
    /\ at \in [Handlers -> ServerStages]
    /\ kind \in [Handlers -> Kinds \cup {None}]
    /\ ptr \in [Handlers -> Versions \cup Workers \cup {None}]
    /\ \A t \in Handlers : at[t] = "running" => ptr[t] # None

\* The initial model load ends with ready; one worker that fails to
\* initialise clears the pool and leaves the single instance.
ServerInit ==
    /\ backend = 0 /\ loaded = 0
    /\ ready = TRUE
    /\ mutex = Nobody
    /\ pooled \in BOOLEAN
    /\ Pool!Init
    /\ at = [t \in Handlers |-> "idle"]
    /\ kind = [t \in Handlers |-> None]
    /\ ptr = [t \in Handlers |-> None]
    /\ once = Nobody /\ disclosed = FALSE
    /\ thrown = FALSE

----------------------------------------------------------------------------
\* A handler starts.  All but /load and the companions answer 503 and end
\* when the model is not ready; /load answers 409 when there is a pool.
Admitted(k) ==
    /\ k = "load" => ~pooled
    /\ k \notin {"load", "companion"} => ready

Arrive(t, k) ==
    /\ at[t] = "idle"
    /\ Admitted(k)
    /\ at' = [at EXCEPT ![t] = "admitted"]
    /\ kind' = [kind EXCEPT ![t] = k]
    /\ UNCHANGED <<backend, loaded, ready, mutex, pooled, owner, ptr, disclaimer, thrown>>

\* dispatch_transcribe: a pooled worker for pure ASR; a null pool or another
\* request goes to model_mutex, with the pointer read here.
Lease(t, w) ==
    /\ at[t] = "admitted" /\ kind[t] = "pure" /\ pooled
    /\ Pool!Grant(w, t)
    /\ ptr' = [ptr EXCEPT ![t] = w]
    /\ at' = [at EXCEPT ![t] = "running"]
    /\ UNCHANGED <<backend, loaded, ready, mutex, pooled, kind, disclaimer, thrown>>

\* Mutant: the streaming provider captures backend.get() too.
ReadsPointerFirstAlways(t) ==
    \/ kind[t] \in {"transcribe", "stream"}
    \/ kind[t] = "pure" /\ ~pooled

ReadsPointerFirst(t) ==
    \/ kind[t] = "transcribe"
    \/ kind[t] = "pure" /\ ~pooled

\* The part of a handler before the mutex: parsing, audio decoding, VAD.
Prepare(t) ==
    /\ at[t] = "admitted"
    /\ ~(kind[t] = "pure" /\ pooled)
    /\ at' = [at EXCEPT ![t] = "queued"]
    /\ ptr' = [ptr EXCEPT ![t] = IF ReadsPointerFirst(t) THEN backend
                                 ELSE IF kind[t] = "companion" THEN 0
                                 ELSE None]
    /\ UNCHANGED <<backend, loaded, ready, mutex, pooled, owner, kind, disclaimer, thrown>>

\* It answers before any model call: a field is missing or malformed, the
\* audio cannot be decoded or is empty, VAD leaves nothing to transcribe.
Refuse(t) ==
    /\ at[t] = "admitted" /\ kind[t] # "load"
    /\ at' = [at EXCEPT ![t] = "idle"]
    /\ kind' = [kind EXCEPT ![t] = None]
    /\ UNCHANGED <<backend, loaded, ready, mutex, pooled, owner, ptr, disclaimer, thrown>>

\* The model call begins, under model_mutex: of every handler's calls outside
\* the pool, all but the disclaimer's.
Call(t) ==
    /\ at[t] = "queued" /\ kind[t] # "load"
    /\ mutex = Nobody
    /\ mutex' = t
    /\ at' = [at EXCEPT ![t] = "running"]
    /\ ptr' = [ptr EXCEPT ![t] = IF @ = None THEN backend ELSE @]
    /\ UNCHANGED <<backend, loaded, ready, pooled, owner, kind, disclaimer, thrown>>

\* The streaming speech worker and Wyoming synthesize the disclaimer inside
\* the call they make under the mutex.
DiscloseInCall(t) ==
    /\ at[t] = "running" /\ kind[t] \in {"stream", "companion"}
    /\ ~disclosed /\ once = Nobody
    /\ once' = t
    /\ UNCHANGED <<backend, loaded, ready, mutex, pooled, owner, at, kind, ptr,
                   disclosed, thrown>>

\* call_once's function ends: an exception leaves the flag unset.
EndOnce(t) ==
    IF once = t
    THEN once' = Nobody /\ disclosed' \in BOOLEAN
    ELSE UNCHANGED disclaimer

Leave(t) ==
    /\ at' = [at EXCEPT ![t] = "idle"]
    /\ kind' = [kind EXCEPT ![t] = None]
    /\ ptr' = [ptr EXCEPT ![t] = None]

\* It returns, or throws: the lock_guard or the Lease is destroyed.
Return(t) ==
    /\ at[t] = "running"
    /\ IF ptr[t] \in Workers
       THEN Pool!Return(ptr[t]) /\ UNCHANGED mutex
       ELSE mutex' = Nobody /\ UNCHANGED owner
    /\ EndOnce(t)
    /\ Leave(t)
    /\ UNCHANGED <<backend, loaded, ready, pooled, thrown>>

----------------------------------------------------------------------------
\* A buffered speech request with a cloned voice: the sentences are done and
\* the lock scope ends, with the disclaimer still to be prepended ...
Spoken(t) ==
    /\ at[t] = "running" /\ kind[t] = "speech"
    /\ mutex' = Nobody
    /\ at' = [at EXCEPT ![t] = "spoken"]
    /\ ptr' = [ptr EXCEPT ![t] = None]
    /\ UNCHANGED <<backend, loaded, ready, pooled, owner, kind, disclaimer, thrown>>

\* ... on whatever backend.get() returns by now ...
PrependDisclaimer(t) ==
    /\ at[t] = "spoken"
    /\ at' = [at EXCEPT ![t] = "prepending"]
    /\ ptr' = [ptr EXCEPT ![t] = backend]
    /\ UNCHANGED <<backend, loaded, ready, mutex, pooled, owner, kind, disclaimer, thrown>>

\* Mutant: an `if (pcm.empty())` in call_once's place.
DiscloseEach(t) ==
    /\ at[t] = "prepending"
    /\ ~disclosed
    /\ once' = t
    /\ at' = [at EXCEPT ![t] = "disclosing"]
    /\ UNCHANGED <<backend, loaded, ready, mutex, pooled, owner, kind, ptr, disclosed, thrown>>

\* ... which the first to come here has synthesize it, without the mutex,
\* while the others block on the flag.
Disclose(t) ==
    /\ at[t] = "prepending"
    /\ ~disclosed /\ once = Nobody
    /\ once' = t
    /\ at' = [at EXCEPT ![t] = "disclosing"]
    /\ UNCHANGED <<backend, loaded, ready, mutex, pooled, owner, kind, ptr, disclosed, thrown>>

\* The request is answered, with the disclaimer just made or the cached one,
\* or by the exception handler.
AnswerSpeech(t) ==
    /\ at[t] = "disclosing" \/ (at[t] = "prepending" /\ disclosed)
    /\ EndOnce(t)
    /\ Leave(t)
    /\ UNCHANGED <<backend, loaded, ready, mutex, pooled, owner, thrown>>

----------------------------------------------------------------------------
\* Mutant: the swap waits for nobody.
BeginLoadUnlocked(t) ==
    /\ at[t] = "queued" /\ kind[t] = "load"
    /\ mutex' = t
    /\ ready' = FALSE
    /\ at' = [at EXCEPT ![t] = "loading"]
    /\ UNCHANGED <<backend, loaded, pooled, owner, kind, ptr, disclaimer, thrown>>

\* POST /load.  The lock and ready.store(false) are one step: a reader of
\* ready between them is one that read before the lock.
BeginLoad(t) ==
    /\ at[t] = "queued" /\ kind[t] = "load"
    /\ mutex = Nobody
    /\ mutex' = t
    /\ ready' = FALSE
    /\ at' = [at EXCEPT ![t] = "loading"]
    /\ UNCHANGED <<backend, loaded, pooled, owner, kind, ptr, disclaimer, thrown>>

EndLoad(t) ==
    /\ mutex' = Nobody
    /\ at' = [at EXCEPT ![t] = "idle"]
    /\ kind' = [kind EXCEPT ![t] = None]
    /\ UNCHANGED <<backend, pooled, owner, ptr, disclaimer>>

\* Mutant: one of the early returns forgets ready.store(true).
KeepOldSilently(t) ==
    /\ at[t] = "loading"
    /\ EndLoad(t)
    /\ thrown' = FALSE
    /\ UNCHANGED <<loaded, ready>>

\* No model field, unknown backend, unresolved model, init failed: the old
\* model stays.
KeepOld(t) ==
    /\ at[t] = "loading"
    /\ ready' = TRUE
    /\ EndLoad(t)
    /\ thrown' = FALSE
    /\ UNCHANGED loaded

\* resolve or init throws: httplib answers 500, the lock is released, but
\* ready stays as it is.
LoadThrows(t) ==
    /\ at[t] = "loading"
    /\ EndLoad(t)
    /\ thrown' = TRUE
    /\ UNCHANGED <<loaded, ready>>

\* backend = std::move(nb) destroys the old object ...
Swap(t) ==
    /\ at[t] = "loading"
    /\ backend < MaxLoads
    /\ backend' = backend + 1
    /\ at' = [at EXCEPT ![t] = "swapped"]
    /\ UNCHANGED <<loaded, ready, mutex, pooled, owner, kind, ptr, disclaimer, thrown>>

\* Mutant: the reported model is not updated.
FinishLoadKeepsName(t) ==
    /\ at[t] = "swapped"
    /\ ready' = TRUE
    /\ EndLoad(t)
    /\ thrown' = FALSE
    /\ UNCHANGED loaded

\* ... and then the names and ready follow.
FinishLoad(t) ==
    /\ at[t] = "swapped"
    /\ loaded' = backend
    /\ ready' = TRUE
    /\ EndLoad(t)
    /\ thrown' = FALSE

ServerNext ==
    \E t \in Handlers :
        \/ \E k \in Kinds : Arrive(t, k)
        \/ \E w \in Workers : Lease(t, w)
        \/ Prepare(t) \/ Refuse(t) \/ Call(t) \/ DiscloseInCall(t) \/ Return(t)
        \/ Spoken(t) \/ PrependDisclaimer(t) \/ Disclose(t) \/ AnswerSpeech(t)
        \/ BeginLoad(t) \/ KeepOld(t) \/ LoadThrows(t)
        \/ Swap(t) \/ FinishLoad(t)

ServerSpec == ServerInit /\ [][ServerNext]_serverVars

\* A load that has begun goes on: resolving, downloading and init terminate.
LoadFairness ==
    \A t \in Handlers :
        WF_serverVars(KeepOld(t) \/ LoadThrows(t) \/ Swap(t) \/ FinishLoad(t))

ServerFairSpec == ServerSpec /\ LoadFairness

----------------------------------------------------------------------------
Inside(t) == at[t] \in {"running", "disclosing"}

\* Two calls are inside the same backend object, pooled or primary, only when
\* one of them is the disclaimer that the buffered speech handler synthesizes
\* after its lock scope, and never two of those.
OneCallBesideDisclaimer ==
    \A t, u \in Handlers :
        t # u /\ Inside(t) /\ Inside(u) /\ ptr[t] = ptr[u]
            => {at[t], at[u]} = {"running", "disclosing"}

\* /load destroys a backend only while no call under the mutex or a lease is
\* inside it.  Nothing keeps it from one that the disclaimer is inside.
SwapsOutsideCalls ==
    [][backend' # backend =>
          \A t \in Handlers : at[t] = "running" => ptr[t] # backend]_serverVars

\* Whenever model_mutex is free the server reports the model it really has.
UnlockedReportsLoaded == mutex = Nobody => loaded = backend

\* Whenever model_mutex is free the server is ready: every return of /load,
\* also of a failed one ("keep old model"), lets the model serve again.  The
\* one exit that does not is an exception out of resolve or init.
UnlockedIsReady == mutex = Nobody => ready \/ thrown

\* A pooled worker never serves another model than the server reports.
PoolServesLoaded ==
    \A t \in Handlers :
        at[t] = "running" /\ ptr[t] \in Workers => loaded = 0 /\ backend = 0

\* What a request can see from outside agrees with what is loaded, wherever
\* /load left: names, ready and the pool.
ServesWhatItReports == UnlockedReportsLoaded /\ UnlockedIsReady /\ PoolServesLoaded

\* The handlers that capture the pointer by reference call the model that is
\* loaded when their call begins, whatever was loaded while they waited.
ByReferenceIsCurrent ==
    \A t \in Handlers :
        at[t] = "running" /\ kind[t] \in ByReference => ptr[t] = backend

\* After /load has taken the server down it comes back, or has thrown.
ComesBack == ~ready ~> ready \/ thrown

\* Requests outside the pool run "on the primary" backend (server.cpp:1470),
\* and the one that companion servers were given "must remain valid"
\* (wyoming.h:32): not one that /load destroyed while they waited.
RunsOnPrimary ==
    \A t \in Handlers :
        at[t] = "running" /\ ptr[t] \notin Workers => ptr[t] = backend

\* TTS on the primary backend and what touches shared state "must stay
\* serialized" (server.cpp:1225-1228): no two calls are inside one backend.
OneCallPerBackend ==
    \A t, u \in Handlers :
        t # u /\ Inside(t) /\ Inside(u) => ptr[t] # ptr[u]
=============================================================================
