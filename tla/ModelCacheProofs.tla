-------------------------- MODULE ModelCacheProofs --------------------------
(***************************************************************************)
(* Proofs about ModelCache for every set of processes, threads and URLs    *)
(* and any number of requests.                                             *)
(***************************************************************************)
EXTENDS ModelCache, TLAPS

\* A thread that holds a name holds one of its own process.
OwnName ==
    \A t \in Callers :
        Numbering(t) \/ Writing(t) => name[t] \in Names /\ name[t][1] = ProcessOf[t]

\* Without a race at most one thread of a process is between its read and its
\* write of the counter, and what it has read is still there; the names in
\* use are used up, and each is one thread's.
NamesOK ==
    ~raced =>
        /\ \A t \in Callers : Numbering(t) => name[t] = <<ProcessOf[t], counter[ProcessOf[t]]>>
        /\ \A t, o \in Callers :
              Numbering(t) /\ Numbering(o) /\ ProcessOf[t] = ProcessOf[o] => t = o
        /\ \A t \in Callers : Writing(t) => name[t][2] < counter[ProcessOf[t]]
        /\ \A t, o \in Callers : Writing(t) /\ Writing(o) /\ name[t] = name[o] => t = o

\* Only files that somebody is writing are there.
LitterOK == \A n \in temps : \E t \in Callers : Writing(t) /\ name[t] = n

\* A request has a URL, and the stages that rely on the file have one.
RequestOK ==
    \A t \in Callers :
        /\ doing[t] # "idle" => url[t] \in Urls
        /\ doing[t] \in {"present", "renamed", "recording"} => file # NoUrl

\* One request at a time, by living processes that record what they put
\* there: only the one between its two renames finds the sidecar behind the
\* file, and it has put the file there.
AloneOK ==
    ~overlapped /\ ~died /\ ~unrecorded =>
        /\ \A t, o \in Callers : doing[t] # "idle" /\ doing[o] # "idle" => t = o
        /\ \A t \in Callers : doing[t] \in {"renamed", "recording", "served"} => file = url[t]
        /\ sidecar \notin {file, Garbled} =>
              \E t \in Callers : doing[t] \in {"renamed", "recording"}

\* The inductive invariant.
IInv ==
    /\ CacheTypeOK /\ OnlyWholeFiles
    /\ OwnName /\ NamesOK /\ LitterOK
    /\ RequestOK /\ AloneOK

\* The empty cache satisfies the invariant.
LEMMA Initial == CacheInit => IInv
<1> SUFFICES ASSUME CacheInit PROVE IInv
  OBVIOUS
<1>1. CacheTypeOK
  <2>1. 0 \in 0 .. MaxRequests
    BY CacheAssumption DEF CacheAssumption
  <2> QED BY <2>1 DEF CacheInit, CacheTypeOK, CacheStages
<1>2. OnlyWholeFiles /\ OwnName /\ NamesOK /\ LitterOK /\ RequestOK /\ AloneOK
  BY DEF CacheInit, OnlyWholeFiles, OwnName, NamesOK, Numbering, Writing, LitterOK, RequestOK,
         AloneOK
<1> QED BY <1>1, <1>2 DEF IInv

\* Without a race every thread writes into a file of its own.
LEMMA AlwaysPrivate ==
    ASSUME NamesOK, ~raced, NEW t \in Callers, Writing(t)
    PROVE  Private(t)
BY DEF NamesOK, Private

\* A thread that removes its temporary file, or renames it away, and stops
\* writing leaves the others theirs.
LEMMA Dropped ==
    ASSUME LitterOK, NEW t \in Callers, Writing(t),
           temps' = temps \ {name[t]},
           \A o \in Callers : o # t => doing'[o] = doing[o] /\ name'[o] = name[o]
    PROVE  LitterOK'
<1> SUFFICES ASSUME NEW n \in temps, n # name[t]
             PROVE  \E o \in Callers : Writing(o)' /\ name'[o] = n
  BY DEF LitterOK
<1>1. PICK o \in Callers : Writing(o) /\ name[o] = n
  BY DEF LitterOK
<1> QED BY <1>1 DEF Writing

\* A thread that lets go of its name leaves the names as good as they were.
LEMMA NamesDropped ==
    ASSUME OwnName, NamesOK, NEW t \in Callers, ~Numbering(t)', ~Writing(t)',
           \A o \in Callers : o # t => doing'[o] = doing[o] /\ name'[o] = name[o],
           counter' = counter, raced' = raced
    PROVE  OwnName' /\ NamesOK'
<1>1. \A o \in Callers : /\ Numbering(o)' => Numbering(o) /\ name'[o] = name[o]
                         /\ Writing(o)' => Writing(o) /\ name'[o] = name[o]
  BY DEF Numbering, Writing
<1>2. OwnName'
  BY <1>1 DEF OwnName
<1>3. NamesOK'
  BY <1>1 DEF NamesOK
<1> QED BY <1>2, <1>3

\* A thread that keeps its name, and goes on writing or stays out of it, too.
LEMMA NamesKept ==
    ASSUME OwnName, NamesOK, NEW t \in Callers,
           Numbering(t)' = Numbering(t), Writing(t)' = Writing(t),
           \A o \in Callers : o # t => doing'[o] = doing[o],
           name' = name, counter' = counter, raced' = raced
    PROVE  OwnName' /\ NamesOK'
<1>1. \A o \in Callers : Numbering(o)' = Numbering(o) /\ Writing(o)' = Writing(o)
  BY DEF Numbering, Writing
<1>2. OwnName'
  BY <1>1 DEF OwnName
<1>3. NamesOK'
  BY <1>1 DEF NamesOK
<1> QED BY <1>2, <1>3

\* The write of the counter ends the numbering: the names in use stay below
\* the counter, and its own becomes one of them or is let go.
LEMMA Counted ==
    ASSUME CacheTypeOK, OwnName, NamesOK, NEW t \in Callers, Numbering(t), CountUp(t),
           ~Numbering(t)', Writing(t)' => name'[t] = name[t],
           \A o \in Callers : o # t => doing'[o] = doing[o] /\ name'[o] = name[o],
           raced' = raced
    PROVE  OwnName' /\ NamesOK' /\ counter' \in [Processes -> Nat]
<1> DEFINE p == ProcessOf[t]
<1>0. p \in Processes
  BY CacheAssumption DEF CacheAssumption
<1>1. name[t] \in Names /\ name[t][1] = p /\ name[t][2] \in Nat
  BY DEF OwnName, Names
<1>2. counter' \in [Processes -> Nat] /\ counter'[p] = name[t][2] + 1
      /\ \A q \in Processes : q # p => counter'[q] = counter[q]
  BY <1>0, <1>1 DEF CountUp, CacheTypeOK
<1>3. ~Writing(t)
  BY DEF Writing, Numbering
<1>4. OwnName'
  BY <1>1 DEF OwnName, Numbering, Writing
<1>5. ASSUME ~raced PROVE NamesOK'
  <2>1. name[t] = <<p, counter[p]>> /\ counter[p] \in Nat /\ counter'[p] = counter[p] + 1
    BY <1>0, <1>2, <1>5 DEF NamesOK, CacheTypeOK
  <2>2. \A o \in Callers : o # t => /\ Numbering(o)' = Numbering(o)
                                   /\ Writing(o)' = Writing(o)
                                   /\ name'[o] = name[o] /\ ProcessOf[o] \in Processes
    BY CacheAssumption DEF Numbering, Writing, CacheAssumption
  <2>3. \A o \in Callers : Numbering(o)' => o # t /\ Numbering(o) /\ ProcessOf[o] # p
    BY <1>5, <2>2 DEF NamesOK
  <2>4. \A o \in Callers : o # t /\ Writing(o) =>
            /\ name[o][2] \in Nat /\ name[o][2] < counter'[ProcessOf[o]]
            /\ name[o] # name[t]
    <3> SUFFICES ASSUME NEW o \in Callers, o # t, Writing(o)
                 PROVE  /\ name[o][2] \in Nat /\ name[o][2] < counter'[ProcessOf[o]]
                        /\ name[o] # name[t]
      OBVIOUS
    <3>1. name[o] \in Names /\ name[o][1] = ProcessOf[o] /\ name[o][2] \in Nat
      BY DEF OwnName, Names
    <3>2. name[o][2] < counter[ProcessOf[o]]
      BY <1>5 DEF NamesOK
    <3>3. CASE ProcessOf[o] = p
      BY <2>1, <3>1, <3>2, <3>3
    <3>4. CASE ProcessOf[o] # p
      BY <1>1, <1>2, <2>2, <3>1, <3>2, <3>4
    <3> QED BY <3>3, <3>4
  <2>5. \A o \in Callers : Numbering(o)' => name'[o] = <<ProcessOf[o], counter'[ProcessOf[o]]>>
    BY <1>2, <1>5, <2>2, <2>3 DEF NamesOK
  <2>6. \A o, u \in Callers :
            Numbering(o)' /\ Numbering(u)' /\ ProcessOf[o] = ProcessOf[u] => o = u
    BY <1>5, <2>3 DEF NamesOK
  <2>7. \A o \in Callers : Writing(o)' => name'[o][2] < counter'[ProcessOf[o]]
    BY <1>1, <1>2, <2>2, <2>4
  <2>8. \A o, u \in Callers : Writing(o)' /\ Writing(u)' /\ name'[o] = name'[u] => o = u
    BY <1>5, <2>2, <2>4 DEF NamesOK
  <2> QED BY <2>5, <2>6, <2>7, <2>8 DEF NamesOK
<1> QED BY <1>2, <1>4, <1>5 DEF NamesOK

\* A step of one thread that leaves the disk alone and names nothing served
\* or renamed keeps what a lone request relies on.
LEMMA AloneKept ==
    ASSUME AloneOK, NEW t \in Callers, doing[t] # "idle",
           doing[t] \notin {"renamed", "recording"},
           doing'[t] \notin {"renamed", "recording", "served"},
           \A o \in Callers : o # t => doing'[o] = doing[o],
           UNCHANGED <<file, sidecar, url, overlapped, died, unrecorded>>
    PROVE  AloneOK'
BY DEF AloneOK

\* Every step keeps it, one action after another.
LEMMA Inductive == IInv /\ [CacheNext]_cacheVars => IInv'
<1> SUFFICES ASSUME IInv, [CacheNext]_cacheVars PROVE IInv'
  OBVIOUS
<1> USE CacheAssumption DEF IInv, CacheAssumption
<1>1. ASSUME NEW t \in Callers, NEW u \in Urls, Request(t, u)
      PROVE  IInv'
  <2>1. CacheTypeOK'
    BY <1>1 DEF CacheTypeOK, Request, Go, CacheStages, Disk, Naming
  <2>2. \A o \in Callers : o # t => doing'[o] = doing[o] /\ url'[o] = url[o]
    BY <1>1 DEF CacheTypeOK, Request, Go
  <2>3. /\ doing[t] = "idle" /\ doing'[t] = IF file = NoUrl THEN "fetch" ELSE "present"
        /\ url'[t] = u
        /\ overlapped' = (overlapped \/ \E o \in Callers : doing[o] # "idle")
        /\ UNCHANGED <<file, whole, sidecar, temps, counter, name, died, misreported,
                       raced, unrecorded>>
    BY <1>1 DEF CacheTypeOK, Request, Go, Disk, Naming
  <2>4. OnlyWholeFiles'
    BY <2>3 DEF OnlyWholeFiles
  <2>5. OwnName' /\ NamesOK'
    BY <2>2, <2>3, NamesKept DEF Numbering, Writing
  <2>6. LitterOK'
    BY <2>2, <2>3 DEF LitterOK, Writing
  <2>7. RequestOK'
    BY <2>2, <2>3 DEF RequestOK
  <2>8. AloneOK'
    BY <2>2, <2>3 DEF AloneOK
  <2> QED BY <2>1, <2>4, <2>5, <2>6, <2>7, <2>8
<1>2. ASSUME NEW t \in Callers, ReadSidecar(t)
      PROVE  IInv'
  <2>1. CacheTypeOK'
    BY <1>2 DEF CacheTypeOK, ReadSidecar, Go, CacheStages, Disk, Naming, Caller
  <2>2. \A o \in Callers : o # t => doing'[o] = doing[o]
    BY <1>2 DEF CacheTypeOK, ReadSidecar, Go
  <2>3. /\ doing[t] = "present"
        /\ doing'[t] = IF sidecar \in {NoUrl, url[t]} THEN "served" ELSE "fetch"
        /\ UNCHANGED <<file, whole, sidecar, temps, counter, name, url, overlapped, died,
                       misreported, raced, unrecorded>>
    BY <1>2 DEF CacheTypeOK, ReadSidecar, Go, Disk, Naming, Caller
  <2>4. OnlyWholeFiles'
    BY <2>3 DEF OnlyWholeFiles
  <2>5. OwnName' /\ NamesOK'
    BY <2>2, <2>3, NamesKept DEF Numbering, Writing
  <2>6. LitterOK'
    BY <2>2, <2>3 DEF LitterOK, Writing
  <2>7. RequestOK'
    BY <2>2, <2>3 DEF RequestOK
  <2>8. AloneOK'
    <3> SUFFICES ASSUME ~overlapped, ~died, ~unrecorded PROVE AloneOK'
      BY <2>3 DEF AloneOK
    <3>1. sidecar \in {file, Garbled}
      BY <2>3 DEF AloneOK
    <3>2. file # NoUrl /\ url[t] \in Urls
      BY <2>3 DEF RequestOK
    <3>3. doing'[t] = "served" => file = url[t]
      BY <2>3, <3>1, <3>2
    <3> QED BY <2>2, <2>3, <3>1, <3>3 DEF AloneOK
  <2> QED BY <2>1, <2>4, <2>5, <2>6, <2>7, <2>8
<1>3. ASSUME NEW t \in Callers, TakeNumber(t)
      PROVE  IInv'
  <2> DEFINE p == ProcessOf[t]
  <2>0. p \in Processes /\ counter[p] \in Nat /\ <<p, counter[p]>> \in Names
    BY DEF CacheTypeOK, Names
  <2>1. CacheTypeOK'
    BY <1>3, <2>0 DEF CacheTypeOK, TakeNumber, Go, CacheStages, Disk, Caller
  <2>2. \A o \in Callers : o # t => doing'[o] = doing[o] /\ name'[o] = name[o]
    BY <1>3 DEF CacheTypeOK, TakeNumber, Go
  <2>3. /\ doing[t] \in {"fetch", "renamed"}
        /\ doing'[t] = IF doing[t] = "fetch" THEN "naming" ELSE "recording"
        /\ name'[t] = <<p, counter[p]>>
        /\ raced' = (raced \/ \E o \in Callers \ {t} : Numbering(o) /\ ProcessOf[o] = p)
        /\ UNCHANGED <<file, whole, sidecar, temps, counter, url, overlapped, died,
                       misreported, unrecorded>>
    BY <1>3 DEF CacheTypeOK, TakeNumber, Go, Disk, Caller
  <2>4. OnlyWholeFiles'
    BY <2>3 DEF OnlyWholeFiles
  <2>5. \A o \in Callers : o # t => Numbering(o)' = Numbering(o) /\ Writing(o)' = Writing(o)
    BY <2>2 DEF Numbering, Writing
  <2>6. Numbering(t)' /\ ~Writing(t)' /\ ~Writing(t)
    BY <2>3 DEF Numbering, Writing
  <2>7. OwnName'
    BY <2>0, <2>2, <2>3, <2>5, <2>6 DEF OwnName
  <2>8. NamesOK'
    BY <2>2, <2>3, <2>5, <2>6 DEF NamesOK
  <2>9. LitterOK'
    BY <2>2, <2>3, <2>5, <2>6 DEF LitterOK
  <2>10. RequestOK'
    BY <2>2, <2>3 DEF RequestOK
  <2>11. AloneOK'
    <3>1. \A o \in Callers : /\ doing'[o] # "idle" <=> doing[o] # "idle"
                             /\ doing'[o] \in {"renamed", "recording"}
                                   <=> doing[o] \in {"renamed", "recording"}
                             /\ doing'[o] = "served" <=> doing[o] = "served"
      BY <2>2, <2>3
    <3> QED BY <2>3, <3>1 DEF AloneOK
  <2> QED BY <2>1, <2>4, <2>7, <2>8, <2>9, <2>10, <2>11
<1>4. ASSUME NEW t \in Callers, OpenTemp(t)
      PROVE  IInv'
  <2>0. Numbering(t) /\ name[t] \in Names
    BY <1>4 DEF OpenTemp, OwnName, Numbering
  <2>1. \A o \in Callers : o # t => doing'[o] = doing[o]
    BY <1>4 DEF CacheTypeOK, OpenTemp, Go
  <2>2. /\ doing[t] = "naming" /\ doing'[t] = "download" /\ CountUp(t)
        /\ temps' = temps \cup {name[t]}
        /\ UNCHANGED <<file, whole, sidecar, name, url, overlapped, died, misreported,
                       raced, unrecorded>>
    BY <1>4 DEF CacheTypeOK, OpenTemp, Go, Disk, Caller
  <2>3. OwnName' /\ NamesOK' /\ counter' \in [Processes -> Nat]
    BY <2>0, <2>1, <2>2, Counted DEF Numbering
  <2>4. CacheTypeOK'
    BY <1>4, <2>0, <2>3 DEF CacheTypeOK, OpenTemp, Go, CacheStages, Disk, Caller
  <2>5. OnlyWholeFiles'
    BY <2>2 DEF OnlyWholeFiles
  <2>6. LitterOK'
    <3>1. Writing(t)' /\ \A o \in Callers : Writing(o) => Writing(o)'
      BY <2>1, <2>2 DEF Writing
    <3> QED BY <2>2, <3>1 DEF LitterOK
  <2>7. RequestOK'
    BY <2>1, <2>2 DEF RequestOK
  <2>8. AloneOK'
    BY <2>1, <2>2, AloneKept
  <2> QED BY <2>3, <2>4, <2>5, <2>6, <2>7, <2>8
<1>5. ASSUME NEW t \in Callers, NEW s, Complete(t, s)
      PROVE  IInv'
  <2>0. name[t] \in Names
    BY <1>5 DEF Complete, OwnName, Writing
  <2>1. CacheTypeOK'
    BY <1>5, <2>0 DEF CacheTypeOK, Complete, Go, CacheStages, Disk, Caller
  <2>2. \A o \in Callers : o # t => doing'[o] = doing[o]
    BY <1>5 DEF CacheTypeOK, Complete, Go
  <2>3. /\ doing[t] = "download" /\ doing'[t] \in {"downloaded", "broken"}
        /\ temps' = temps \cup {name[t]}
        /\ UNCHANGED <<file, whole, sidecar, counter, name, url, overlapped, died,
                       misreported, raced, unrecorded>>
    BY <1>5 DEF CacheTypeOK, Complete, Go, Disk, Caller
  <2>4. OnlyWholeFiles'
    BY <2>3 DEF OnlyWholeFiles
  <2>5. OwnName' /\ NamesOK'
    BY <2>2, <2>3, NamesKept DEF Numbering, Writing
  <2>6. LitterOK'
    <3>1. Writing(t)' /\ \A o \in Callers : Writing(o) => Writing(o)'
      BY <2>2, <2>3 DEF Writing
    <3> QED BY <2>3, <3>1 DEF LitterOK
  <2>7. RequestOK'
    BY <2>2, <2>3 DEF RequestOK
  <2>8. AloneOK'
    BY <2>2, <2>3, AloneKept
  <2> QED BY <2>1, <2>4, <2>5, <2>6, <2>7, <2>8
<1>6. ASSUME NEW t \in Callers, Fail(t)
      PROVE  IInv'
  <2>1. CacheTypeOK'
    BY <1>6 DEF CacheTypeOK, Fail, Go, CacheStages, Disk, Caller, Drop
  <2>2. \A o \in Callers : o # t => doing'[o] = doing[o] /\ name'[o] = name[o]
    BY <1>6 DEF CacheTypeOK, Fail, Go, Drop
  <2>3. /\ Writing(t) /\ doing'[t] = "idle"
        /\ temps' = temps \ {name[t]}
        /\ UNCHANGED <<file, whole, sidecar, counter, url, overlapped, died, misreported,
                       raced, unrecorded>>
    BY <1>6 DEF CacheTypeOK, Fail, Go, Disk, Caller
  <2>4. OnlyWholeFiles'
    BY <2>3 DEF OnlyWholeFiles
  <2>5. OwnName' /\ NamesOK'
    BY <2>2, <2>3, NamesDropped DEF Numbering, Writing
  <2>6. LitterOK'
    BY <2>2, <2>3, Dropped
  <2>7. RequestOK'
    BY <2>2, <2>3 DEF RequestOK
  <2>8. AloneOK'
    BY <2>2, <2>3, AloneKept DEF Writing
  <2> QED BY <2>1, <2>4, <2>5, <2>6, <2>7, <2>8
<1>7. ASSUME NEW t \in Callers, Rename(t)
      PROVE  IInv'
  <2>0. url[t] \in Urls /\ Writing(t)
    BY <1>7 DEF Rename, RequestOK, Writing
  <2>1. CacheTypeOK'
    BY <1>7, <2>0 DEF CacheTypeOK, Rename, Go, Drop, CacheStages, Disk, Caller
  <2>2. \A o \in Callers : o # t => doing'[o] = doing[o] /\ name'[o] = name[o]
    BY <1>7 DEF CacheTypeOK, Rename, Go, Drop
  <2>3. /\ doing[t] \in {"downloaded", "broken"} /\ doing'[t] = "renamed"
        /\ file' = url[t]
        /\ whole' = (doing[t] = "downloaded" /\ Private(t))
        /\ misreported' = (doing[t] = "broken")
        /\ temps' = temps \ {name[t]}
        /\ UNCHANGED <<sidecar, counter, url, overlapped, died, raced, unrecorded>>
    BY <1>7 DEF CacheTypeOK, Rename, Go, Disk, Caller
  <2>4. OnlyWholeFiles'
    BY <2>0, <2>3, AlwaysPrivate DEF OnlyWholeFiles
  <2>5. OwnName' /\ NamesOK'
    BY <2>2, <2>3, NamesDropped DEF Numbering, Writing
  <2>6. LitterOK'
    BY <2>0, <2>2, <2>3, Dropped
  <2>7. RequestOK'
    BY <2>0, <2>2, <2>3 DEF RequestOK
  <2>8. AloneOK'
    BY <2>2, <2>3 DEF AloneOK
  <2> QED BY <2>1, <2>4, <2>5, <2>6, <2>7, <2>8
<1>8. ASSUME NEW t \in Callers, NEW text, WriteSidecar(t, text)
      PROVE  IInv'
  <2>0. Numbering(t) /\ url[t] \in Urls /\ file # NoUrl
    BY <1>8 DEF WriteSidecar, RequestOK, Numbering
  <2>1. \A o \in Callers : o # t => doing'[o] = doing[o] /\ name'[o] = name[o]
    BY <1>8 DEF CacheTypeOK, WriteSidecar, Go, Drop
  <2>2. /\ doing[t] = "recording" /\ doing'[t] = "served" /\ CountUp(t)
        /\ sidecar' \in {url[t], sidecar, NoUrl, Garbled}
        /\ unrecorded' = (unrecorded \/ sidecar' \notin {url[t], Garbled})
        /\ UNCHANGED <<file, whole, temps, url, overlapped, died, misreported, raced>>
    BY <1>8 DEF CacheTypeOK, WriteSidecar, Go, Caller
  <2>3. OwnName' /\ NamesOK' /\ counter' \in [Processes -> Nat]
    BY <2>0, <2>1, <2>2, Counted DEF Numbering, Writing
  <2>4. CacheTypeOK'
    BY <1>8, <2>0, <2>2, <2>3 DEF CacheTypeOK, WriteSidecar, Go, Drop, CacheStages, Caller
  <2>5. OnlyWholeFiles'
    BY <2>2 DEF OnlyWholeFiles
  <2>6. LitterOK'
    <3>1. \A o \in Callers : Writing(o) => Writing(o)' /\ name'[o] = name[o]
      BY <2>1, <2>2 DEF Writing
    <3> QED BY <2>2, <3>1 DEF LitterOK
  <2>7. RequestOK'
    BY <2>1, <2>2 DEF RequestOK
  <2>8. AloneOK'
    BY <2>1, <2>2 DEF AloneOK
  <2> QED BY <2>3, <2>4, <2>5, <2>6, <2>7, <2>8
<1>9. ASSUME NEW t \in Callers, Open(t)
      PROVE  IInv'
  <2>1. CacheTypeOK'
    BY <1>9 DEF CacheTypeOK, Open, Go, CacheStages, Disk, Naming, Caller
  <2>2. \A o \in Callers : o # t => doing'[o] = doing[o]
    BY <1>9 DEF CacheTypeOK, Open, Go
  <2>3. /\ doing[t] = "served" /\ doing'[t] = "idle"
        /\ UNCHANGED <<file, whole, sidecar, temps, counter, name, url, overlapped, died,
                       misreported, raced, unrecorded>>
    BY <1>9 DEF CacheTypeOK, Open, Go, Disk, Naming, Caller
  <2>4. OnlyWholeFiles'
    BY <2>3 DEF OnlyWholeFiles
  <2>5. OwnName' /\ NamesOK'
    BY <2>2, <2>3, NamesKept DEF Numbering, Writing
  <2>6. LitterOK'
    BY <2>2, <2>3 DEF LitterOK, Writing
  <2>7. RequestOK'
    BY <2>2, <2>3 DEF RequestOK
  <2>8. AloneOK'
    BY <2>2, <2>3, AloneKept
  <2> QED BY <2>1, <2>4, <2>5, <2>6, <2>7, <2>8
<1>10. ASSUME NEW p \in Processes, Crash(p)
       PROVE  IInv'
  <2>1. CacheTypeOK'
    BY <1>10 DEF CacheTypeOK, Crash, CacheStages, Disk
  <2>2. \A o \in Callers : /\ ProcessOf[o] = p => doing'[o] = "idle"
                           /\ ProcessOf[o] # p => doing'[o] = doing[o] /\ name'[o] = name[o]
    BY <1>10 DEF Crash
  <2>3. /\ died' /\ temps' = {n \in temps : n[1] # p}
        /\ counter \in [Processes -> Nat] /\ counter' = [counter EXCEPT ![p] = 0]
        /\ UNCHANGED <<file, whole, sidecar, url, overlapped, misreported, raced,
                       unrecorded>>
    BY <1>10 DEF CacheTypeOK, Crash, Disk
  <2>4. OnlyWholeFiles'
    BY <2>3 DEF OnlyWholeFiles
  <2>5. \A o \in Callers :
            /\ Numbering(o)' => Numbering(o) /\ name'[o] = name[o] /\ ProcessOf[o] # p
            /\ Writing(o)' => Writing(o) /\ name'[o] = name[o] /\ ProcessOf[o] # p
    BY <2>2 DEF Numbering, Writing
  <2>6. OwnName'
    BY <2>5 DEF OwnName
  <2>7. \A o \in Callers : ProcessOf[o] # p => counter'[ProcessOf[o]] = counter[ProcessOf[o]]
    BY <2>3
  <2>8. NamesOK'
    BY <2>3, <2>5, <2>7 DEF NamesOK
  <2>9. LitterOK'
    <3> SUFFICES ASSUME NEW n \in temps, n[1] # p
                 PROVE  \E o \in Callers : Writing(o)' /\ name'[o] = n
      BY <2>3 DEF LitterOK
    <3>1. PICK o \in Callers : Writing(o) /\ name[o] = n
      BY DEF LitterOK
    <3>2. ProcessOf[o] # p
      BY <3>1 DEF OwnName
    <3> QED BY <2>2, <3>1, <3>2 DEF Writing
  <2>10. RequestOK'
    BY <2>2, <2>3 DEF RequestOK
  <2>11. AloneOK'
    BY <2>3 DEF AloneOK
  <2> QED BY <2>1, <2>4, <2>6, <2>8, <2>9, <2>10, <2>11
<1>11. CASE UNCHANGED cacheVars
  <2>1. UNCHANGED <<file, whole, sidecar, temps, counter, name, doing, url, requests,
                    overlapped, died, misreported, raced, unrecorded>>
    BY <1>11 DEF cacheVars, Disk, Naming, Caller
  <2>2. CacheTypeOK' /\ OnlyWholeFiles'
    BY <2>1 DEF CacheTypeOK, OnlyWholeFiles
  <2>3. OwnName' /\ NamesOK' /\ LitterOK'
    BY <2>1 DEF OwnName, NamesOK, LitterOK, Numbering, Writing
  <2>4. RequestOK' /\ AloneOK'
    BY <2>1 DEF RequestOK, AloneOK
  <2> QED BY <2>2, <2>3, <2>4
<1> QED
  BY <1>1, <1>2, <1>3, <1>4, <1>5, <1>6, <1>7, <1>8, <1>9, <1>10, <1>11 DEF CacheNext

\* Every reachable state of the cache satisfies it.
LEMMA Invariance == CacheSpec => []IInv
BY Initial, Inductive, PTL DEF CacheSpec

-----------------------------------------------------------------------------
\* The cache is well typed in every reachable state.
THEOREM CacheTypeCorrect == CacheSpec => []CacheTypeOK
<1>1. IInv => CacheTypeOK
  BY DEF IInv
<1> QED BY Invariance, <1>1, PTL

\* The cached file is one complete download, for every number of processes
\* and threads, however they fail, die and overlap, unless the download that
\* put it there was misreported or the counter was raced for.
THEOREM CacheOnlyWholeFiles == CacheSpec => []OnlyWholeFiles
<1>1. IInv => OnlyWholeFiles
  BY DEF IInv
<1> QED BY Invariance, <1>1, PTL

\* Requests that neither overlap nor die, and whose sidecars keep their text,
\* are given the bytes of their URL.
THEOREM CacheServesRequested == CacheSpec => []ServesRequested
<1>1. IInv => ServesRequested
  BY DEF IInv, AloneOK, ServesRequested
<1> QED BY Invariance, <1>1, PTL

\* Living processes leave no temporary file behind.
THEOREM CacheNoLitter == CacheSpec => []NoLitter
<1>1. IInv => NoLitter
  BY DEF IInv, LitterOK, Writing, NoLitter, Quiet
<1> QED BY Invariance, <1>1, PTL
=============================================================================
