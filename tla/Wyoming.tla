------------------------------- MODULE Wyoming -------------------------------
(***************************************************************************)
(* examples/cli/wyoming.cpp: the TCP server of the Wyoming protocol, and   *)
(* how it is taken down.                                                   *)
(*                                                                         *)
(* A listener thread accepts; every connection gets a detached handler     *)
(* thread that registers its descriptor in g_clients, reads messages and   *)
(* calls the backend.  wyoming_stop() clears g_running, shuts every        *)
(* registered descriptor down to wake its handler, joins the listener and  *)
(* waits, at most 100 * 20 ms, for g_active to reach zero.  What the server *)
(* does before and after it is in Companions.                              *)
(*                                                                         *)
(* Handlers share nothing else, so a message is only what it makes the     *)
(* handler do: call the backend or not.  Time is abstracted: the bounded   *)
(* wait expires only when every handler left is in a backend call or waits *)
(* for its peer, all other steps being far shorter than two seconds.       *)
(***************************************************************************)
EXTENDS Naturals, FiniteSets

CONSTANTS
    Handlers,   \* bound: handler threads alive at once
    Fds,        \* descriptors of the process
    NoFd

ASSUME WyomingAssumption ==
    /\ NoFd \notin Fds
    /\ IsFiniteSet(Handlers)

VARIABLES
    running,    \* g_running
    clients,    \* g_clients: the registered descriptors
    active,     \* g_active
    listener,   \* the listener thread
    stopper,    \* the thread in wyoming_stop
    at,         \* at[h]: where handler h is
    fd,         \* fd[h]: its descriptor
    down        \* descriptors whose connection is shut down

vars == <<running, clients, active, listener, stopper, at, fd, down>>

HandlerStages == {"none", "spawned", "counted", "head", "recv", "call",
                  "leave", "erased", "closed"}
StopStages == {"serving", "flagged", "woken", "joined", "returned"}
InUse == {fd[h] : h \in Handlers} \ {NoFd}

\* Type invariant; the descriptor of a thread is set while it is alive.
TypeOK ==
    /\ running \in BOOLEAN
    /\ clients \subseteq Fds /\ down \subseteq Fds
    /\ active \in 0 .. Cardinality(Handlers)
    /\ listener \in {"head", "select", "exited"}
    /\ stopper \in StopStages
    /\ at \in [Handlers -> HandlerStages]
    /\ fd \in [Handlers -> Fds \cup {NoFd}]
    /\ \A h \in Handlers : fd[h] = NoFd <=> at[h] \in {"none", "closed"}

\* wyoming_start() has succeeded.
Init ==
    /\ running = TRUE
    /\ clients = {} /\ down = {}
    /\ active = 0
    /\ listener = "head"
    /\ stopper = "serving"
    /\ at = [h \in Handlers |-> "none"]
    /\ fd = [h \in Handlers |-> NoFd]

----------------------------------------------------------------------------
\* The listener: check g_running, select() for a second, accept.
CheckRunning ==
    /\ listener = "head"
    /\ listener' = IF running THEN "select" ELSE "exited"
    /\ UNCHANGED <<running, clients, active, stopper, at, fd, down>>

\* select() times out, is interrupted, or accept fails.
SelectTimeout ==
    /\ listener = "select"
    /\ listener' = "head"
    /\ UNCHANGED <<running, clients, active, stopper, at, fd, down>>

\* A connection gets any free descriptor and a detached thread.
Accept(h, f) ==
    /\ listener = "select"
    /\ at[h] = "none"
    /\ f \notin InUse
    /\ fd' = [fd EXCEPT ![h] = f]
    /\ down' = down \ {f}
    /\ at' = [at EXCEPT ![h] = "spawned"]
    /\ listener' = "head"
    /\ UNCHANGED <<running, clients, active, stopper>>

----------------------------------------------------------------------------
\* The handler counts itself, then registers under g_clients_mtx.
Count(h) ==
    /\ at[h] = "spawned"
    /\ active' = active + 1
    /\ at' = [at EXCEPT ![h] = "counted"]
    /\ UNCHANGED <<running, clients, listener, stopper, fd, down>>

Register(h) ==
    /\ at[h] = "counted"
    /\ clients' = clients \cup {fd[h]}
    /\ at' = [at EXCEPT ![h] = "head"]
    /\ UNCHANGED <<running, active, listener, stopper, fd, down>>

\* Mutant: a connection that was accepted is always read.
HeadUnchecked(h) ==
    /\ at[h] = "head"
    /\ at' = [at EXCEPT ![h] = "recv"]
    /\ UNCHANGED <<running, clients, active, listener, stopper, fd, down>>

\* while (g_running.load())
Head(h) ==
    /\ at[h] = "head"
    /\ at' = [at EXCEPT ![h] = IF running THEN "recv" ELSE "leave"]
    /\ UNCHANGED <<running, clients, active, listener, stopper, fd, down>>

\* recv() returns a message; what was sent before a shutdown may still be
\* read after it.
Message(h) ==
    /\ at[h] = "recv"
    /\ at' \in {[at EXCEPT ![h] = s] : s \in {"head", "call"}}
    /\ UNCHANGED <<running, clients, active, listener, stopper, fd, down>>

\* The peer closes, the header is bad or the payload too large ...
Disconnect(h) ==
    /\ at[h] = "recv"
    /\ at' = [at EXCEPT ![h] = "leave"]
    /\ UNCHANGED <<running, clients, active, listener, stopper, fd, down>>

\* ... or the descriptor was shut down, which ends a recv() for certain.
WokenUp(h) ==
    /\ fd[h] \in down
    /\ Disconnect(h)

\* model_mutex was locked and transcribe() or synthesize() has returned; its
\* result is sent, or not.
CallReturns(h) ==
    /\ at[h] = "call"
    /\ at' = [at EXCEPT ![h] = "head"]
    /\ UNCHANGED <<running, clients, active, listener, stopper, fd, down>>

\* Mutant: the descriptor is closed without being taken out of g_clients.
UnregisterNothing(h) ==
    /\ at[h] = "leave"
    /\ at' = [at EXCEPT ![h] = "erased"]
    /\ UNCHANGED <<running, clients, active, listener, stopper, fd, down>>

\* The descriptor leaves g_clients, is closed, and the handler uncounts.
Unregister(h) ==
    /\ at[h] = "leave"
    /\ clients' = clients \ {fd[h]}
    /\ at' = [at EXCEPT ![h] = "erased"]
    /\ UNCHANGED <<running, active, listener, stopper, fd, down>>

CloseSocket(h) ==
    /\ at[h] = "erased"
    /\ fd' = [fd EXCEPT ![h] = NoFd]
    /\ at' = [at EXCEPT ![h] = "closed"]
    /\ UNCHANGED <<running, clients, active, listener, stopper, down>>

Uncount(h) ==
    /\ at[h] = "closed"
    /\ active' = active - 1
    /\ at' = [at EXCEPT ![h] = "none"]
    /\ UNCHANGED <<running, clients, listener, stopper, fd, down>>

----------------------------------------------------------------------------
\* wyoming_stop().
Stop ==
    /\ stopper = "serving"
    /\ running' = FALSE
    /\ stopper' = "flagged"
    /\ UNCHANGED <<clients, active, listener, at, fd, down>>

WakeClients ==
    /\ stopper = "flagged"
    /\ down' = down \cup clients
    /\ stopper' = "woken"
    /\ UNCHANGED <<running, clients, active, listener, at, fd>>

JoinListener ==
    /\ stopper = "woken"
    /\ listener = "exited"
    /\ stopper' = "joined"
    /\ UNCHANGED <<running, clients, active, listener, at, fd, down>>

\* Mutant: no wait for the handlers.
ReturnAtOnce ==
    /\ stopper = "joined"
    /\ stopper' = "returned"
    /\ UNCHANGED <<running, clients, active, listener, at, fd, down>>

\* No step of h can be expected within the bounded wait.
Blocked(h) ==
    \/ at[h] \in {"none", "call"}
    \/ at[h] = "recv" /\ fd[h] \notin down

\* g_active is zero or the wait expires, and wyoming_stop() returns.
DrainAndReturn ==
    /\ stopper = "joined"
    /\ active = 0 \/ \A h \in Handlers : Blocked(h)
    /\ stopper' = "returned"
    /\ UNCHANGED <<running, clients, active, listener, at, fd, down>>

Next ==
    \/ CheckRunning \/ SelectTimeout
    \/ \E h \in Handlers :
          \/ \E f \in Fds : Accept(h, f)
          \/ Count(h) \/ Register(h) \/ Head(h)
          \/ Message(h) \/ Disconnect(h) \/ CallReturns(h)
          \/ Unregister(h) \/ CloseSocket(h) \/ Uncount(h)
    \/ Stop \/ WakeClients \/ JoinListener \/ DrainAndReturn

Spec == Init /\ [][Next]_vars

\* What h does without its peer: a shut-down socket ends recv().
HandlerStep(h) ==
    \/ Count(h) \/ Register(h) \/ Head(h) \/ WokenUp(h) \/ CallReturns(h)
    \/ Unregister(h) \/ CloseSocket(h) \/ Uncount(h)

----------------------------------------------------------------------------
\* Once wyoming_stop() has woken the clients, no handler sleeps in recv() on
\* a connection that is still up: one that registered too late to be woken
\* has seen g_running cleared (wyoming.cpp H3).
NobodySleepsThroughStop ==
    stopper \in {"woken", "joined", "returned"} =>
        \A h \in Handlers : at[h] = "recv" => fd[h] \in down

\* g_clients holds exactly the open descriptors of the handlers between
\* registration and unregistration: shutdown() never hits a closed or
\* reused descriptor, and an erase never unregisters another connection.
RegisteredIsOpen ==
    clients = {fd[h] : h \in {k \in Handlers :
                        at[k] \in {"head", "recv", "call", "leave"}}}

=============================================================================
