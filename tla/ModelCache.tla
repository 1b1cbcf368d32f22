----------------------------- MODULE ModelCache -----------------------------
(***************************************************************************)
(* src/stelnettts_cache.cpp: one file name of the model cache, requested   *)
(* from several URLs by the threads of several processes.                  *)
(*                                                                         *)
(* ensure_cached_file() reuses the file unless its `.src` sidecar names    *)
(* another URL; a file without a sidecar is trusted.  Otherwise it         *)
(* downloads into a temporary file, renames that into place and then       *)
(* writes the sidecar, which is a second temporary file and rename.        *)
(*                                                                         *)
(* The bytes of a file are the URL they came from.  Temporary files are    *)
(* numbered by a plain static counter, read and written in two steps.      *)
(* Only the canonical cache directory is modelled: the other probed        *)
(* directories are never written.                                          *)
(***************************************************************************)
EXTENDS Naturals

CONSTANTS
    Callers,
    Processes,
    ProcessOf,      \* ProcessOf[t]: the process that t is a thread of
    Urls,
    NoUrl,
    Garbled,        \* a sidecar that is neither empty nor any URL
    MaxRequests     \* bound: requests of all threads together

ASSUME CacheAssumption ==
    /\ ProcessOf \in [Callers -> Processes]
    /\ NoUrl \notin Urls /\ Garbled \notin Urls /\ NoUrl # Garbled
    /\ MaxRequests \in Nat

VARIABLES
    file,       \* the URL whose bytes are at dest, or NoUrl
    whole,      \* those bytes are one complete download
    sidecar,    \* the text of dest.src; NoUrl when it is empty or absent
    temps,      \* the temporary files of living processes
    counter,    \* counter[p]: the static counter of p's unique_temp_path
    doing,      \* doing[t]: where t's request is
    url,        \* url[t]: what it asks for
    name,       \* name[t]: t's temporary file
    requests,   \* requests made
    misreported,\* history: file was put there by a download that broke off
    raced,      \* history: two threads read one process's counter at once
    unrecorded, \* history: a sidecar was left as it was, or without its text
    overlapped, \* history: a request began before another had ended
    died        \* history: a process died in a request

Disk == <<file, whole, sidecar>>
Naming == <<temps, counter, name>>
Caller == <<url, requests, overlapped, died>>
cacheVars == <<Disk, Naming, doing, Caller, misreported, raced, unrecorded>>

\* The pid stands for the process: a restarted one has another.
Names == Processes \X Nat
NoName == <<"none", 0>>
CacheStages == {"idle", "present", "fetch", "naming", "download", "downloaded",
           "broken", "renamed", "recording", "served"}

\* Type invariant of the cache and its clients; a sidecar has its file.
CacheTypeOK ==
    /\ file \in Urls \cup {NoUrl} /\ whole \in BOOLEAN
    /\ sidecar \in Urls \cup {NoUrl, Garbled}
    /\ temps \subseteq Names
    /\ counter \in [Processes -> Nat]
    /\ doing \in [Callers -> CacheStages]
    /\ url \in [Callers -> Urls \cup {NoUrl}]
    /\ name \in [Callers -> Names \cup {NoName}]
    /\ requests \in 0 .. MaxRequests
    /\ misreported \in BOOLEAN /\ raced \in BOOLEAN /\ unrecorded \in BOOLEAN
    /\ overlapped \in BOOLEAN /\ died \in BOOLEAN
    /\ sidecar # NoUrl => file # NoUrl

\* An empty cache.  A file from before sidecars is trusted whatever it is
\* ("hand-managed model dir"), so nothing could be said of it.
CacheInit ==
    /\ file = NoUrl /\ whole = TRUE /\ sidecar = NoUrl
    /\ temps = {}
    /\ counter = [p \in Processes |-> 0]
    /\ doing = [t \in Callers |-> "idle"]
    /\ url = [t \in Callers |-> NoUrl]
    /\ name = [t \in Callers |-> NoName]
    /\ requests = 0
    /\ misreported = FALSE /\ raced = FALSE /\ unrecorded = FALSE
    /\ overlapped = FALSE /\ died = FALSE

Go(t, s) == doing' = [doing EXCEPT ![t] = s]
Drop(t) == name' = [name EXCEPT ![t] = NoName]

----------------------------------------------------------------------------
\* ensure_cached_file(): is the file there?
Request(t, u) ==
    /\ doing[t] = "idle"
    /\ requests < MaxRequests
    /\ requests' = requests + 1
    /\ url' = [url EXCEPT ![t] = u]
    /\ overlapped' = (overlapped \/ \E o \in Callers : doing[o] # "idle")
    /\ Go(t, IF file = NoUrl THEN "fetch" ELSE "present")
    /\ UNCHANGED <<Disk, Naming, died, misreported, raced, unrecorded>>

\* Mutant: the sidecar is never compared.
ReadSidecarAndTrust(t) ==
    /\ doing[t] = "present"
    /\ Go(t, "served")
    /\ UNCHANGED <<Disk, Naming, Caller, misreported, raced, unrecorded>>

\* No sidecar, or the same origin: reuse.
ReadSidecar(t) ==
    /\ doing[t] = "present"
    /\ Go(t, IF sidecar \in {NoUrl, url[t]} THEN "served" ELSE "fetch")
    /\ UNCHANGED <<Disk, Naming, Caller, misreported, raced, unrecorded>>

\* unique_temp_path() reads the counter, for the download or for the
\* sidecar; another thread may be between its read and its write.
Numbering(t) == doing[t] \in {"naming", "recording"}

TakeNumber(t) ==
    LET p == ProcessOf[t] IN
    /\ doing[t] \in {"fetch", "renamed"}
    /\ name' = [name EXCEPT ![t] = <<p, counter[p]>>]
    /\ raced' = (raced \/ \E o \in Callers \ {t} : Numbering(o) /\ ProcessOf[o] = p)
    /\ Go(t, IF doing[t] = "fetch" THEN "naming" ELSE "recording")
    /\ UNCHANGED <<Disk, temps, counter, Caller, misreported, unrecorded>>

\* ... and writes back one more than it read.
CountUp(t) ==
    counter' = [counter EXCEPT ![ProcessOf[t]] = name[t][2] + 1]

\* Mutant: a temporary file named after the destination only.
OpenTempByDest(t) ==
    LET n == <<CHOOSE p \in Processes : TRUE, 0>> IN
    /\ doing[t] = "naming"
    /\ CountUp(t)
    /\ name' = [name EXCEPT ![t] = n]
    /\ temps' = temps \cup {n}
    /\ Go(t, "download")
    /\ UNCHANGED <<Disk, Caller, misreported, raced, unrecorded>>

\* The downloader creates the file and begins to write.
OpenTemp(t) ==
    /\ doing[t] = "naming"
    /\ CountUp(t)
    /\ temps' = temps \cup {name[t]}
    /\ Go(t, "download")
    /\ UNCHANGED <<Disk, name, Caller, misreported, raced, unrecorded>>

\* One of the downloaders reports success: WinHTTP, libcurl, curl or wget,
\* each of which creates the file anew.  Neither a WinHTTP read that fails
\* nor a write or close that fails is noticed, so what is there may be a
\* part of the file ("broken").
Complete(t, s) ==
    /\ doing[t] = "download" /\ s \in {"downloaded", "broken"}
    /\ temps' = temps \cup {name[t]}
    /\ Go(t, s)
    /\ UNCHANGED <<Disk, counter, name, Caller, misreported, raced, unrecorded>>

Writing(t) == doing[t] \in {"download", "downloaded", "broken"}

\* Mutant: the temporary file of a failed download stays.
FailAndLeaveTemp(t) ==
    /\ Writing(t)
    /\ Drop(t)
    /\ Go(t, "idle")
    /\ UNCHANGED <<Disk, temps, counter, Caller, misreported, raced, unrecorded>>

\* Every downloader fails, or the file is gone or cannot be renamed: it is
\* removed and "" returned.
Fail(t) ==
    /\ Writing(t)
    /\ temps' = temps \ {name[t]}
    /\ Drop(t)
    /\ Go(t, "idle")
    /\ UNCHANGED <<Disk, counter, Caller, misreported, raced, unrecorded>>

\* Nobody else is writing the file that t renames.
Private(t) == \A o \in Callers \ {t} : Writing(o) => name[o] # name[t]

\* atomic_rename() over whatever is there.  What two threads have written
\* into one file does not count as whole.
Rename(t) ==
    /\ doing[t] \in {"downloaded", "broken"} /\ name[t] \in temps
    /\ file' = url[t]
    /\ whole' = (doing[t] = "downloaded" /\ Private(t))
    /\ misreported' = (doing[t] = "broken")
    /\ temps' = temps \ {name[t]}
    /\ Drop(t)
    /\ Go(t, "renamed")
    /\ UNCHANGED <<sidecar, counter, Caller, raced, unrecorded>>

\* write_text_file(): its own temporary file (dest.src.part...) and rename
\* make it one step, and nothing of it is checked.  It may not be created or
\* not be renamed (the old text stays), or be written not at all or in part.
WriteSidecar(t, text) ==
    /\ doing[t] = "recording" /\ text \in {url[t], sidecar, NoUrl, Garbled}
    /\ CountUp(t)
    /\ sidecar' = text
    /\ unrecorded' = (unrecorded \/ text \notin {url[t], Garbled})
    /\ Drop(t)
    /\ Go(t, "served")
    /\ UNCHANGED <<file, whole, temps, Caller, misreported, raced>>

\* The caller opens the path it was given.
Open(t) ==
    /\ doing[t] = "served"
    /\ Go(t, "idle")
    /\ UNCHANGED <<Disk, Naming, Caller, misreported, raced, unrecorded>>

\* A process dies with all its threads, and another is started, whose counter
\* begins at 0 and whose pid is another: the temporary files of the dead one
\* stay on the disk for good, out of everybody's way.
Crash(p) ==
    /\ \E t \in Callers : ProcessOf[t] = p /\ doing[t] # "idle"
    /\ doing' = [t \in Callers |-> IF ProcessOf[t] = p THEN "idle" ELSE doing[t]]
    /\ name' = [t \in Callers |-> IF ProcessOf[t] = p THEN NoName ELSE name[t]]
    /\ counter' = [counter EXCEPT ![p] = 0]
    /\ temps' = {n \in temps : n[1] # p}
    /\ died' = TRUE
    /\ UNCHANGED <<Disk, url, requests, overlapped, misreported, raced, unrecorded>>

CacheNext ==
    \/ \E t \in Callers :
        \/ \E u \in Urls : Request(t, u)
        \/ ReadSidecar(t) \/ TakeNumber(t)
        \/ OpenTemp(t) \/ Fail(t) \/ Rename(t)
        \/ \E s \in {"downloaded", "broken"} : Complete(t, s)
        \/ \E text \in Urls \cup {NoUrl, Garbled} : WriteSidecar(t, text)
        \/ Open(t)
    \/ \E p \in Processes : Crash(p)

CacheSpec == CacheInit /\ [][CacheNext]_cacheVars

----------------------------------------------------------------------------
Quiet == \A t \in Callers : doing[t] = "idle"

\* With crashes, failures and concurrent downloads the cached file is a
\* partial one only when the downloader called a broken transfer a success,
\* or two threads of one process had been given the same temporary file.
OnlyWholeFiles == whole \/ misreported \/ raced

\* As long as requests did not overlap, no process died in one and no sidecar
\* lost its text, a caller that is given the path finds the bytes of its own
\* URL there.
ServesRequested ==
    ~overlapped /\ ~died /\ ~unrecorded =>
        \A t \in Callers : doing[t] = "served" => file = url[t]

\* When no request is under way, no living process has left a temporary file,
\* whatever failed, overlapped, raced or died.
NoLitter == Quiet => temps = {}

\* A request for another URL of the same base name "is not silently served
\* the wrong bytes" (stelnettts_cache.cpp:402): not even a later one, with no
\* overlap and no death.
LaterServesRequested ==
    ~overlapped /\ ~died =>
        \A t \in Callers : doing[t] = "served" => file = url[t]
=============================================================================
