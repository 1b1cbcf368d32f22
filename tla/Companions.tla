------------------------------ MODULE Companions ------------------------------
(***************************************************************************)
(* The end of run_server() (examples/cli/stelnettts_server.cpp): when      *)
(* svr.listen() returns, the main thread stops the companion servers that  *)
(* were started, Wyoming first, then the two WebSocket listeners, and      *)
(* returns, which destroys the backend.                                    *)
(*                                                                         *)
(* Composes Wyoming and WsListeners, which share only the backend.         *)
(***************************************************************************)
EXTENDS Wyoming, WsListeners

VARIABLES
    main,      \* run_server(): in svr.listen(), stopping, returned
    lateCalls  \* history: lateCalls[h] calls of handler h begun after that

compVars == <<vars, wsVars, main, lateCalls>>

CompTypeOK ==
    /\ TypeOK /\ WsTypeOK
    /\ main \in {"listening", "stopping", "destroyed"}
    /\ lateCalls \in [WsHandlers -> Nat]

\* Each companion has been started or not; one that was not is never stopped.
WyomingOff ==
    /\ running = FALSE
    /\ clients = {} /\ down = {}
    /\ active = 0
    /\ listener = "exited"
    /\ stopper = "returned"
    /\ at = [h \in Handlers |-> "none"]
    /\ fd = [h \in Handlers |-> NoFd]

CompInit ==
    /\ Init \/ WyomingOff
    /\ WsInit
    /\ main = "listening"
    /\ lateCalls = [h \in WsHandlers |-> 0]

----------------------------------------------------------------------------
\* svr.listen() returns: the address cannot be bound, or accepting failed.
ListenReturns ==
    /\ main = "listening"
    /\ main' = "stopping"
    /\ UNCHANGED <<vars, wsVars, lateCalls>>

\* The Wyoming server at work, wyoming_stop() included once it is called.
WyomingStep ==
    /\ Next
    /\ main = "listening" => stopper' = stopper
    /\ UNCHANGED <<wsVars, main, lateCalls>>

\* The WebSocket servers at work.
WsStep ==
    /\ WsServe
    /\ lateCalls' = [h \in WsHandlers |->
         lateCalls[h] + IF main = "destroyed" /\ wsAt[h] # "call" /\ wsAt'[h] = "call"
                        THEN 1 ELSE 0]
    /\ UNCHANGED <<vars, main>>

\* The main thread has come to the stop of listener k.
Turn(k) ==
    /\ main = "stopping"
    /\ stopper = "returned"
    /\ k = "realtime" => wsStop["stream"] = "stopped"

WsStopStep(k) ==
    /\ Turn(k)
    /\ WsClearFlag(k) \/ WsCloseListen(k) \/ WsJoin(k)
    /\ UNCHANGED <<vars, main, lateCalls>>

\* run_server() returns; its backend is destroyed.
Destroy ==
    /\ main = "stopping"
    /\ stopper = "returned"
    /\ \A k \in Kinds : wsStop[k] = "stopped"
    /\ main' = "destroyed"
    /\ UNCHANGED <<vars, wsVars, lateCalls>>

CompNext ==
    \/ ListenReturns \/ WyomingStep \/ WsStep
    \/ \E k \in Kinds : WsStopStep(k)
    \/ Destroy

CompSpec == CompInit /\ [][CompNext]_compVars

\* What the main thread does once svr.listen() has returned.
MainStep ==
    \/ WyomingStep /\ (Stop \/ WakeClients \/ JoinListener \/ DrainAndReturn)
    \/ \E k \in Kinds : WsStopStep(k)
    \/ Destroy

\* Every thread that is not blocked goes on: the main thread, the listeners
\* outside accept(), and the Wyoming handlers, which a shutdown wakes from
\* recv() and whose backend calls end.  Nobody has to connect, to send or to
\* leave, and WebSocket handlers owe nothing.
CompFairSpec ==
    /\ CompSpec
    /\ WF_compVars(MainStep)
    /\ WF_compVars(WyomingStep /\ (CheckRunning \/ SelectTimeout))
    /\ \A h \in Handlers : WF_compVars(WyomingStep /\ HandlerStep(h))
    /\ \A k \in Kinds : WF_compVars(WsStep /\ WsEnterAccept(k))

----------------------------------------------------------------------------
\* When run_server() has returned, no listener thread runs: no accept() on
\* behalf of a server that is gone, and no joinable std::thread that would
\* end the process in its destructor.
NoListenerOutlives ==
    main = "destroyed" =>
        listener = "exited" /\ \A k \in Kinds : wsListener[k] = "exited"

\* No Wyoming handler sets out to call the backend once it is destroyed.
\* (One that was already in its call, or waiting for model_mutex to make it,
\* when the bounded wait expired does go on.)
NoCallAfterTeardown ==
    [][\A h \in Handlers :
          at[h] # "call" /\ at'[h] = "call" => main # "destroyed"]_compVars

\* The realtime handlers are not waited for: each may set out to call the
\* destroyed backend, but once, for the frame it was waiting for when the
\* flag was cleared.
OneLateCall == \A h \in WsHandlers : lateCalls[h] <= 1

\* The server comes down once svr.listen() has returned, whatever the
\* clients do, unless a WebSocket listener stays blocked in accept(): its
\* stop joins the thread, and close() need not wake it.
TeardownReturns ==
    \/ <>[](\E k \in Kinds : wsListener[k] = "accept")
    \/ main = "stopping" ~> main = "destroyed"
=============================================================================
