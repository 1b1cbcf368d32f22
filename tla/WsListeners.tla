----------------------------- MODULE WsListeners -----------------------------
(***************************************************************************)
(* examples/server/ws_stream.cpp and realtime_server.cpp: the two          *)
(* WebSocket listeners of the server.  They are the same program twice: a  *)
(* thread that blocks in accept() and starts a detached, unregistered      *)
(* handler per connection; a stop that clears the running flag, closes the *)
(* listening descriptor and joins the thread.                              *)
(*                                                                         *)
(* close() need not wake a thread that blocks in accept() on the           *)
(* descriptor, and such an accept() may still return a connection; whether *)
(* it does is the platform's choice.  A handler is not woken by the stop:  *)
(* it sees the flag when its recv() returns.  Only the handlers of the     *)
(* realtime listener call the server's backend; one of the streaming       *)
(* listener opens a session of its own.                                    *)
(***************************************************************************)
EXTENDS Naturals, FiniteSets

CONSTANTS
    WsHandlers,  \* bound: handler threads alive at once
    MaxStarted   \* bound: listeners started in one run

Kinds == {"stream", "realtime"}

VARIABLES
    wsRunning,   \* wsRunning[k]: g_ws_running, g_rt_running
    wsOpen,      \* wsOpen[k]: the listening descriptor is open
    wsListener,  \* wsListener[k]: the listener thread
    wsStop,      \* wsStop[k]: how far the stop of listener k has come
    wsAt,        \* wsAt[h]: where handler h is
    wsKind       \* wsKind[h]: the listener that started it

wsVars == <<wsRunning, wsOpen, wsListener, wsStop, wsAt, wsKind>>

WsTypeOK ==
    /\ wsRunning \in [Kinds -> BOOLEAN]
    /\ wsOpen \in [Kinds -> BOOLEAN]
    /\ wsListener \in [Kinds -> {"head", "accept", "exited"}]
    /\ wsStop \in [Kinds -> {"serving", "flagged", "closed", "stopped"}]
    /\ wsAt \in [WsHandlers -> {"none", "handshake", "head", "recv", "call"}]
    /\ wsKind \in [WsHandlers -> Kinds]

\* Listener k has been started, or run_server() was not asked to start it or
\* could not: then it is never stopped either.
WsInit ==
    \E started \in SUBSET Kinds :
        /\ Cardinality(started) <= MaxStarted
        /\ wsRunning = [k \in Kinds |-> k \in started]
        /\ wsOpen = [k \in Kinds |-> k \in started]
        /\ wsListener = [k \in Kinds |-> IF k \in started THEN "head" ELSE "exited"]
        /\ wsStop = [k \in Kinds |-> IF k \in started THEN "serving" ELSE "stopped"]
        /\ wsAt = [h \in WsHandlers |-> "none"]
        /\ wsKind = [h \in WsHandlers |-> "stream"]

----------------------------------------------------------------------------
\* The listener thread: while (running), accept(), which blocks on an open
\* descriptor and fails at once on a closed one.
WsEnterAccept(k) ==
    /\ wsListener[k] = "head"
    /\ wsListener' = [wsListener EXCEPT ![k] =
                        IF ~wsRunning[k] THEN "exited"
                        ELSE IF wsOpen[k] THEN "accept" ELSE "head"]
    /\ UNCHANGED <<wsRunning, wsOpen, wsStop, wsAt, wsKind>>

\* A blocked accept() fails, because of the close or for another reason.
WsAcceptFails(k) ==
    /\ wsListener[k] = "accept"
    /\ wsListener' = [wsListener EXCEPT ![k] = "head"]
    /\ UNCHANGED <<wsRunning, wsOpen, wsStop, wsAt, wsKind>>

WsAccept(k, h) ==
    /\ wsListener[k] = "accept"
    /\ wsAt[h] = "none"
    /\ wsKind' = [wsKind EXCEPT ![h] = k]
    /\ wsAt' = [wsAt EXCEPT ![h] = "handshake"]
    /\ wsListener' = [wsListener EXCEPT ![k] = "head"]
    /\ UNCHANGED <<wsRunning, wsOpen, wsStop>>

----------------------------------------------------------------------------
\* A handler: the upgrade request, then while (running) one frame after the
\* other.  It ends with the descriptor closed, from any of three places.
WsUpgrade(h) ==
    /\ wsAt[h] = "handshake"
    /\ wsAt' = [wsAt EXCEPT ![h] = "head"]
    /\ UNCHANGED <<wsRunning, wsOpen, wsListener, wsStop, wsKind>>

\* Mutant: the loop does not look at the flag.
WsHeadUnchecked(h) ==
    /\ wsAt[h] = "head"
    /\ wsAt' = [wsAt EXCEPT ![h] = "recv"]
    /\ UNCHANGED <<wsRunning, wsOpen, wsListener, wsStop, wsKind>>

WsHead(h) ==
    /\ wsAt[h] = "head"
    /\ wsRunning[wsKind[h]]
    /\ wsAt' = [wsAt EXCEPT ![h] = "recv"]
    /\ UNCHANGED <<wsRunning, wsOpen, wsListener, wsStop, wsKind>>

\* A frame arrives.  A commit, or an append that completes half a second,
\* makes a realtime handler call the backend under model_mutex.
WsFrame(h) ==
    /\ wsAt[h] = "recv"
    /\ \/ wsAt' = [wsAt EXCEPT ![h] = "head"]
       \/ wsKind[h] = "realtime" /\ wsAt' = [wsAt EXCEPT ![h] = "call"]
    /\ UNCHANGED <<wsRunning, wsOpen, wsListener, wsStop, wsKind>>

WsCallReturns(h) ==
    /\ wsAt[h] = "call"
    /\ wsAt' = [wsAt EXCEPT ![h] = "head"]
    /\ UNCHANGED <<wsRunning, wsOpen, wsListener, wsStop, wsKind>>

\* The peer is gone or sent a close or a bad request, or the flag is down.
WsLeave(h) ==
    /\ \/ wsAt[h] \in {"handshake", "recv"}
       \/ wsAt[h] = "head" /\ ~wsRunning[wsKind[h]]
    /\ wsAt' = [wsAt EXCEPT ![h] = "none"]
    /\ UNCHANGED <<wsRunning, wsOpen, wsListener, wsStop, wsKind>>

----------------------------------------------------------------------------
\* Mutant: the descriptor is closed with the flag still up.
WsForgetFlag(k) ==
    /\ wsStop[k] = "serving"
    /\ wsStop' = [wsStop EXCEPT ![k] = "flagged"]
    /\ UNCHANGED <<wsRunning, wsOpen, wsListener, wsAt, wsKind>>

\* ws_stream_stop(), realtime_server_stop(): flag, close, join.
WsClearFlag(k) ==
    /\ wsStop[k] = "serving"
    /\ wsRunning' = [wsRunning EXCEPT ![k] = FALSE]
    /\ wsStop' = [wsStop EXCEPT ![k] = "flagged"]
    /\ UNCHANGED <<wsOpen, wsListener, wsAt, wsKind>>

WsCloseListen(k) ==
    /\ wsStop[k] = "flagged"
    /\ wsOpen' = [wsOpen EXCEPT ![k] = FALSE]
    /\ wsStop' = [wsStop EXCEPT ![k] = "closed"]
    /\ UNCHANGED <<wsRunning, wsListener, wsAt, wsKind>>

\* Mutant: the listener thread is detached.
WsJoinNobody(k) ==
    /\ wsStop[k] = "closed"
    /\ wsStop' = [wsStop EXCEPT ![k] = "stopped"]
    /\ UNCHANGED <<wsRunning, wsOpen, wsListener, wsAt, wsKind>>

WsJoin(k) ==
    /\ wsStop[k] = "closed"
    /\ wsListener[k] = "exited"
    /\ wsStop' = [wsStop EXCEPT ![k] = "stopped"]
    /\ UNCHANGED <<wsRunning, wsOpen, wsListener, wsAt, wsKind>>

\* What the listeners and handlers do; the stop belongs to run_server().
WsServe ==
    \/ \E k \in Kinds :
          \/ WsEnterAccept(k) \/ WsAcceptFails(k)
          \/ \E h \in WsHandlers : WsAccept(k, h)
    \/ \E h \in WsHandlers :
          WsUpgrade(h) \/ WsHead(h) \/ WsFrame(h) \/ WsCallReturns(h) \/ WsLeave(h)
=============================================================================
