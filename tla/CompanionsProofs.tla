-------------------------- MODULE CompanionsProofs --------------------------
(***************************************************************************)
(* Proofs about the teardown of the server, for every finite set of        *)
(* Wyoming handlers and every set of descriptors and WebSocket handlers.   *)
(***************************************************************************)
EXTENDS Companions, FiniteSetTheorems, TLAPS

\* The handlers that g_active counts and those that g_clients lists.
Counted == {h \in Handlers : at[h] \notin {"none", "spawned"}}
Registered == {h \in Handlers : at[h] \in {"head", "recv", "call", "leave"}}

\* The types without the bound of g_active, which follows from CountOK.
Typed ==
    /\ running \in BOOLEAN
    /\ clients \subseteq Fds /\ down \subseteq Fds
    /\ active \in Nat
    /\ listener \in {"head", "select", "exited"}
    /\ stopper \in StopStages
    /\ at \in [Handlers -> HandlerStages]
    /\ fd \in [Handlers -> Fds \cup {NoFd}]
    /\ \A h \in Handlers : fd[h] = NoFd <=> at[h] \in {"none", "closed"}

\* g_active counts the handlers between their first and their last line.
CountOK == active = Cardinality(Counted)

\* An open descriptor belongs to one handler.
OneOwner == \A h, k \in Handlers : fd[h] = fd[k] /\ fd[h] # NoFd => h = k

\* What wyoming_stop() has achieved at each of its stages.
StopOK ==
    /\ stopper # "serving" => running = FALSE
    /\ stopper \in {"joined", "returned"} => listener = "exited"
    /\ stopper = "returned" => \A h \in Handlers : at[h] # "recv"

\* The inductive invariant of the Wyoming server.
WyInv ==
    /\ Typed /\ CountOK /\ OneOwner
    /\ RegisteredIsOpen /\ StopOK /\ NobodySleepsThroughStop

\* Counted is finite, so its cardinality moves by one with one handler.
LEMMA CountedCardinality ==
    ASSUME NEW H \in SUBSET Handlers
    PROVE  /\ IsFiniteSet(H) /\ Cardinality(H) \in Nat
           /\ Cardinality(H) <= Cardinality(Handlers)
           /\ Cardinality(Handlers) \in Nat
           /\ Cardinality(H) = 0 <=> H = {}
           /\ \A h \in Handlers :
                 /\ h \in H => Cardinality(H \ {h}) = Cardinality(H) - 1
                 /\ h \notin H => Cardinality(H \cup {h}) = Cardinality(H) + 1
<1>1. IsFiniteSet(H) /\ Cardinality(H) <= Cardinality(Handlers)
  BY WyomingAssumption, FS_Subset DEF WyomingAssumption
<1> QED
  BY <1>1, WyomingAssumption, FS_CardinalityType, FS_EmptySet, FS_AddElement,
     FS_RemoveElement DEF WyomingAssumption

\* g_active never exceeds the number of handlers.
LEMMA WyTyped == WyInv => TypeOK
<1> SUFFICES ASSUME WyInv PROVE TypeOK
  OBVIOUS
<1>1. Counted \in SUBSET Handlers
  BY DEF Counted
<1>2. active <= Cardinality(Handlers) /\ Cardinality(Handlers) \in Nat
  BY <1>1, CountedCardinality DEF WyInv, CountOK
<1> QED BY <1>2 DEF WyInv, Typed, TypeOK

\* The server just started, or not at all.
LEMMA WyInitial == Init \/ WyomingOff => WyInv
<1> SUFFICES ASSUME Init \/ WyomingOff PROVE WyInv
  OBVIOUS
<1>1. /\ running \in BOOLEAN /\ clients = {} /\ down = {} /\ active = 0
      /\ listener \in {"head", "exited"} /\ stopper \in {"serving", "returned"}
      /\ stopper = "returned" => running = FALSE /\ listener = "exited"
      /\ at = [h \in Handlers |-> "none"] /\ fd = [h \in Handlers |-> NoFd]
  BY DEF Init, WyomingOff
<1>2. Typed
  BY <1>1 DEF Typed, StopStages, HandlerStages
<1>3. Counted = {} /\ Registered = {}
  BY <1>1 DEF Counted, Registered
<1>4. CountOK
  BY <1>1, <1>3, FS_EmptySet DEF CountOK
<1>5. OneOwner /\ StopOK /\ NobodySleepsThroughStop
  BY <1>1 DEF OneOwner, StopOK, NobodySleepsThroughStop
<1>6. RegisteredIsOpen
  BY <1>1 DEF RegisteredIsOpen
<1> QED BY <1>2, <1>4, <1>5, <1>6 DEF WyInv

\* A handler that moves without crossing a boundary of Counted or Registered
\* disturbs nothing, if it does not fall asleep after the stop.
LEMMA QuietMove ==
    ASSUME WyInv, NEW h \in Handlers, NEW s \in HandlerStages,
           at' = [at EXCEPT ![h] = s],
           at[h] \in {"head", "recv", "call"},
           s \in {"head", "recv", "call", "leave"},
           s = "recv" => running,
           UNCHANGED <<running, clients, active, listener, stopper, fd, down>>
    PROVE  WyInv'
<1> USE DEF WyInv
<1>1. Typed'
  BY DEF Typed
<1>2. Counted' = Counted /\ Registered' = Registered
  BY DEF Typed, Counted, Registered
<1>3. CountOK' /\ RegisteredIsOpen'
  BY <1>2 DEF CountOK, RegisteredIsOpen, Registered
<1>4. OneOwner'
  BY DEF OneOwner
<1>5. StopOK' /\ NobodySleepsThroughStop'
  BY DEF Typed, StopOK, NobodySleepsThroughStop
<1> QED BY <1>1, <1>3, <1>4, <1>5

\* The listener accepts a connection on a free descriptor.
LEMMA AcceptPreserves ==
    ASSUME WyInv, NEW h \in Handlers, NEW f \in Fds, Accept(h, f)
    PROVE  WyInv'
<1> USE DEF WyInv
<1>1. /\ listener = "select" /\ at[h] = "none" /\ f \notin InUse
      /\ fd' = [fd EXCEPT ![h] = f] /\ down' = down \ {f}
      /\ at' = [at EXCEPT ![h] = "spawned"] /\ listener' = "head"
      /\ UNCHANGED <<running, clients, active, stopper>>
  BY DEF Accept
<1>2. Typed'
  BY <1>1, WyomingAssumption DEF Typed, HandlerStages, WyomingAssumption
<1>3. \A k \in Handlers : fd[k] # f
  BY <1>1, WyomingAssumption DEF InUse, WyomingAssumption
<1>4. Counted' = Counted /\ Registered' = Registered /\ h \notin Registered
  BY <1>1 DEF Typed, Counted, Registered
<1>5. CountOK'
  BY <1>1, <1>4 DEF CountOK
<1>6. RegisteredIsOpen'
  <2>1. \A k \in Registered : fd'[k] = fd[k]
    BY <1>1, <1>4 DEF Typed, Registered
  <2>2. clients' = {fd'[k] : k \in Registered'}
    BY <1>1, <1>4, <2>1 DEF RegisteredIsOpen, Registered
  <2> QED BY <2>2 DEF RegisteredIsOpen, Registered
<1>7. OneOwner'
  BY <1>1, <1>3 DEF Typed, OneOwner
<1>8. StopOK'
  BY <1>1 DEF Typed, StopOK
<1>9. NobodySleepsThroughStop'
  BY <1>1, <1>3 DEF Typed, NobodySleepsThroughStop
<1> QED BY <1>2, <1>5, <1>6, <1>7, <1>8, <1>9

\* The handler's own bookkeeping: counting, registering and their reversal.
LEMMA BookkeepingPreserves ==
    ASSUME WyInv, NEW h \in Handlers,
           Count(h) \/ Register(h) \/ Unregister(h) \/ CloseSocket(h) \/ Uncount(h)
    PROVE  WyInv'
<1> USE DEF WyInv
<1>0. Counted \in SUBSET Handlers
  BY DEF Counted
<1>1. ASSUME Count(h) PROVE WyInv'
  <2>1. Counted' = Counted \cup {h} /\ h \notin Counted /\ Registered' = Registered
    BY <1>1 DEF Typed, Count, Counted, Registered
  <2>2. CountOK'
    BY <1>0, <1>1, <2>1, CountedCardinality DEF CountOK, Count
  <2>3. Typed'
    BY <1>1 DEF Typed, Count, HandlerStages
  <2>4. OneOwner' /\ StopOK' /\ NobodySleepsThroughStop'
    BY <1>1 DEF Typed, Count, OneOwner, StopOK, NobodySleepsThroughStop
  <2>5. RegisteredIsOpen'
    BY <1>1, <2>1 DEF Count, RegisteredIsOpen, Registered
  <2> QED BY <2>2, <2>3, <2>4, <2>5
<1>2. ASSUME Register(h) PROVE WyInv'
  <2>1. Counted' = Counted /\ Registered' = Registered \cup {h} /\ fd[h] \in Fds
    BY <1>2 DEF Typed, Register, Counted, Registered
  <2>2. Typed'
    BY <1>2, <2>1 DEF Typed, Register, HandlerStages
  <2>3. CountOK'
    BY <1>2, <2>1 DEF CountOK, Register
  <2>4. OneOwner' /\ StopOK' /\ NobodySleepsThroughStop'
    BY <1>2 DEF Typed, Register, OneOwner, StopOK, NobodySleepsThroughStop
  <2>5. clients' = {fd'[k] : k \in Registered'}
    BY <1>2, <2>1 DEF Register, RegisteredIsOpen, Registered
  <2> QED BY <2>2, <2>3, <2>4, <2>5 DEF RegisteredIsOpen, Registered
<1>3. ASSUME Unregister(h) PROVE WyInv'
  <2>1. Counted' = Counted /\ Registered' = Registered \ {h} /\ h \in Registered
    BY <1>3 DEF Typed, Unregister, Counted, Registered
  <2>2. Typed'
    BY <1>3 DEF Typed, Unregister, HandlerStages
  <2>3. CountOK'
    BY <1>3, <2>1 DEF CountOK, Unregister
  <2>4. OneOwner' /\ StopOK' /\ NobodySleepsThroughStop'
    BY <1>3 DEF Typed, Unregister, OneOwner, StopOK, NobodySleepsThroughStop
  <2>5. \A k \in Registered : fd[k] # NoFd
    BY DEF Typed, Registered
  <2>6. \A k \in Registered : fd[k] = fd[h] => k = h
    BY <2>5 DEF OneOwner, Registered
  <2>7. clients = {fd[k] : k \in Registered}
    BY DEF RegisteredIsOpen, Registered
  <2>8. clients' = clients \ {fd[h]} /\ fd' = fd
    BY <1>3 DEF Unregister
  <2>9. clients' = {fd'[k] : k \in Registered'}
    BY <2>1, <2>6, <2>7, <2>8
  <2> QED BY <2>2, <2>3, <2>4, <2>9 DEF RegisteredIsOpen, Registered
<1>4. ASSUME CloseSocket(h) PROVE WyInv'
  <2>1. Counted' = Counted /\ Registered' = Registered /\ h \notin Registered
    BY <1>4 DEF Typed, CloseSocket, Counted, Registered
  <2>2. Typed'
    BY <1>4 DEF Typed, CloseSocket, HandlerStages
  <2>3. CountOK'
    BY <1>4, <2>1 DEF CountOK, CloseSocket
  <2>4. OneOwner' /\ StopOK' /\ NobodySleepsThroughStop'
    BY <1>4 DEF Typed, CloseSocket, OneOwner, StopOK, NobodySleepsThroughStop
  <2>5. \A k \in Registered : fd'[k] = fd[k]
    BY <1>4, <2>1 DEF Typed, CloseSocket, Registered
  <2>6. clients' = {fd'[k] : k \in Registered'}
    BY <1>4, <2>1, <2>5 DEF CloseSocket, RegisteredIsOpen, Registered
  <2> QED BY <2>2, <2>3, <2>4, <2>6 DEF RegisteredIsOpen, Registered
<1>5. ASSUME Uncount(h) PROVE WyInv'
  <2>1. Counted' = Counted \ {h} /\ h \in Counted /\ Registered' = Registered
    BY <1>5 DEF Typed, Uncount, Counted, Registered
  <2>2. CountOK' /\ active \in Nat \ {0}
    BY <1>0, <1>5, <2>1, CountedCardinality DEF CountOK, Uncount
  <2>3. Typed'
    BY <1>5, <2>2 DEF Typed, Uncount, HandlerStages
  <2>4. OneOwner' /\ StopOK' /\ NobodySleepsThroughStop'
    BY <1>5 DEF Typed, Uncount, OneOwner, StopOK, NobodySleepsThroughStop
  <2>5. RegisteredIsOpen'
    BY <1>5, <2>1 DEF Uncount, RegisteredIsOpen, Registered
  <2> QED BY <2>2, <2>3, <2>4, <2>5
<1> QED BY <1>1, <1>2, <1>3, <1>4, <1>5

\* The stages of wyoming_stop() and the listener's loop.
LEMMA StopPreserves ==
    ASSUME WyInv,
           \/ CheckRunning \/ SelectTimeout
           \/ Stop \/ WakeClients \/ JoinListener \/ DrainAndReturn
    PROVE  WyInv'
<1> USE DEF WyInv
<1>0. UNCHANGED <<clients, active, at, fd>>
  BY DEF CheckRunning, SelectTimeout, Stop, WakeClients, JoinListener, DrainAndReturn
<1>1. CountOK' /\ OneOwner' /\ RegisteredIsOpen'
  BY <1>0 DEF CountOK, Counted, OneOwner, RegisteredIsOpen
<1>2. Typed'
  BY <1>0 DEF Typed, StopStages, CheckRunning, SelectTimeout, Stop, WakeClients,
              JoinListener, DrainAndReturn
<1>3. CASE CheckRunning \/ SelectTimeout
  BY <1>1, <1>2, <1>3 DEF Typed, CheckRunning, SelectTimeout, StopOK, NobodySleepsThroughStop
<1>4. CASE Stop \/ JoinListener
  BY <1>1, <1>2, <1>4 DEF Stop, JoinListener, StopOK, NobodySleepsThroughStop
<1>5. CASE WakeClients
  <2>1. StopOK'
    BY <1>5 DEF WakeClients, StopOK
  <2>2. \A h \in Handlers : at[h] = "recv" => fd[h] \in clients
    BY DEF RegisteredIsOpen
  <2>3. NobodySleepsThroughStop'
    BY <1>5, <2>2 DEF WakeClients, NobodySleepsThroughStop
  <2> QED BY <1>1, <1>2, <2>1, <2>3
<1>6. CASE DrainAndReturn
  <2>1. \A h \in Handlers : at[h] = "recv" => fd[h] \in down
    BY <1>6 DEF DrainAndReturn, NobodySleepsThroughStop
  <2>2. \A h \in Handlers : at[h] # "recv"
    <3>1. CASE active = 0
      <4>1. Counted \in SUBSET Handlers
        BY DEF Counted
      <4>2. Counted = {}
        BY <3>1, <4>1, CountedCardinality DEF CountOK
      <4> QED BY <4>2 DEF Counted
    <3>2. CASE \A h \in Handlers : Blocked(h)
      BY <2>1, <3>2 DEF Blocked
    <3> QED BY <1>6, <3>1, <3>2 DEF DrainAndReturn
  <2>3. StopOK' /\ NobodySleepsThroughStop'
    BY <1>6, <2>2 DEF DrainAndReturn, StopOK, NobodySleepsThroughStop
  <2> QED BY <1>1, <1>2, <2>3
<1> QED BY <1>3, <1>4, <1>5, <1>6

\* Every step of the Wyoming server preserves its invariant.
LEMMA WyInductive == WyInv /\ [Next]_vars => WyInv'
<1> SUFFICES ASSUME WyInv, [Next]_vars PROVE WyInv'
  OBVIOUS
<1>1. ASSUME NEW h \in Handlers, Head(h) \/ Message(h) \/ Disconnect(h) \/ CallReturns(h)
      PROVE  WyInv'
  <2>1. PICK s \in {"head", "recv", "call", "leave"} :
           /\ at' = [at EXCEPT ![h] = s]
           /\ at[h] \in {"head", "recv", "call"}
           /\ s = "recv" => running
    BY <1>1 DEF Head, Message, Disconnect, CallReturns
  <2>2. UNCHANGED <<running, clients, active, listener, stopper, fd, down>>
    BY <1>1 DEF Head, Message, Disconnect, CallReturns
  <2> QED BY <2>1, <2>2, QuietMove DEF HandlerStages
<1>2. CASE UNCHANGED vars
  BY <1>2 DEF vars, WyInv, Typed, CountOK, Counted, OneOwner, RegisteredIsOpen, StopOK,
              NobodySleepsThroughStop
<1> QED
  BY <1>1, <1>2, AcceptPreserves, BookkeepingPreserves, StopPreserves DEF Next

----------------------------------------------------------------------------
\* What the stop of a WebSocket listener has achieved.
WsOK ==
    \A k \in Kinds :
        /\ wsStop[k] # "serving" => ~wsRunning[k]
        /\ wsStop[k] = "stopped" => wsListener[k] = "exited"

\* run_server() has returned only when every stop has.
MainOK ==
    main = "destroyed" => stopper = "returned" /\ \A k \in Kinds : wsStop[k] = "stopped"

\* A late call is one that its handler cannot repeat: it never waits for a
\* frame again.
LateOK ==
    \A h \in WsHandlers :
        /\ lateCalls[h] \in {0, 1}
        /\ main # "destroyed" => lateCalls[h] = 0
        /\ lateCalls[h] = 1 => wsAt[h] # "recv"

\* The inductive invariant of the teardown.
CompInv == WyInv /\ CompTypeOK /\ WsOK /\ MainOK /\ LateOK

LEMMA CompInitial == CompInit => CompInv
<1> SUFFICES ASSUME CompInit PROVE CompInv
  OBVIOUS
<1>1. WyInv /\ TypeOK
  BY WyInitial, WyTyped DEF CompInit
<1>2. PICK started \in SUBSET Kinds :
        /\ wsRunning = [k \in Kinds |-> k \in started]
        /\ wsOpen = [k \in Kinds |-> k \in started]
        /\ wsListener = [k \in Kinds |-> IF k \in started THEN "head" ELSE "exited"]
        /\ wsStop = [k \in Kinds |-> IF k \in started THEN "serving" ELSE "stopped"]
        /\ wsAt = [h \in WsHandlers |-> "none"]
        /\ wsKind = [h \in WsHandlers |-> "stream"]
  BY DEF CompInit, WsInit
<1>3. WsTypeOK
  <2>1. wsRunning \in [Kinds -> BOOLEAN] /\ wsOpen \in [Kinds -> BOOLEAN]
    BY <1>2
  <2>2. wsKind \in [WsHandlers -> Kinds]
    BY <1>2 DEF Kinds
  <2> QED BY <1>2, <2>1, <2>2 DEF WsTypeOK
<1>4. WsOK
  BY <1>2 DEF WsOK
<1>5. main = "listening" /\ lateCalls = [h \in WsHandlers |-> 0]
  BY DEF CompInit
<1> QED BY <1>1, <1>3, <1>4, <1>5 DEF CompInv, CompTypeOK, MainOK, LateOK

\* The listeners and handlers leave the flags and the stops alone, an exited
\* listener stays so, and once the flag is down no handler starts to wait.
LEMMA WsServes ==
    ASSUME WsTypeOK, WsOK, WsServe
    PROVE  /\ WsTypeOK' /\ WsOK'
           /\ wsStop' = wsStop
           /\ \A h \in WsHandlers :
                 /\ wsAt'[h] = "recv" => wsAt[h] = "recv" \/ wsRunning[wsKind[h]]
                 /\ wsAt'[h] = "call" => wsAt[h] \in {"recv", "call"}
<1>0. UNCHANGED <<wsRunning, wsOpen, wsStop>>
  BY DEF WsServe, WsEnterAccept, WsAcceptFails, WsAccept, WsUpgrade, WsHead, WsFrame,
         WsCallReturns, WsLeave
<1>1. CASE \E k \in Kinds : WsEnterAccept(k) \/ WsAcceptFails(k)
  <2>1. PICK k \in Kinds : WsEnterAccept(k) \/ WsAcceptFails(k)
    BY <1>1
  <2>2. PICK s \in {"head", "accept", "exited"} :
           wsListener' = [wsListener EXCEPT ![k] = s]
    BY <2>1 DEF WsEnterAccept, WsAcceptFails
  <2>3. wsListener[k] # "exited" /\ UNCHANGED <<wsAt, wsKind>>
    BY <2>1 DEF WsEnterAccept, WsAcceptFails
  <2> QED BY <1>0, <2>2, <2>3 DEF WsTypeOK, WsOK
<1>2. CASE \E k \in Kinds, h \in WsHandlers : WsAccept(k, h)
  BY <1>0, <1>2 DEF WsAccept, WsTypeOK, WsOK
<1>3. CASE \E h \in WsHandlers :
              WsUpgrade(h) \/ WsHead(h) \/ WsFrame(h) \/ WsCallReturns(h) \/ WsLeave(h)
  <2>1. PICK h \in WsHandlers :
           WsUpgrade(h) \/ WsHead(h) \/ WsFrame(h) \/ WsCallReturns(h) \/ WsLeave(h)
    BY <1>3
  <2>2. PICK s \in {"none", "head", "recv", "call"} :
           /\ wsAt' = [wsAt EXCEPT ![h] = s]
           /\ s = "recv" => wsRunning[wsKind[h]]
           /\ s = "call" => wsAt[h] = "recv"
    BY <2>1 DEF WsUpgrade, WsHead, WsFrame, WsCallReturns, WsLeave
  <2>3. UNCHANGED <<wsListener, wsKind>>
    BY <2>1 DEF WsUpgrade, WsHead, WsFrame, WsCallReturns, WsLeave
  <2> QED BY <1>0, <2>2, <2>3 DEF WsTypeOK, WsOK
<1> QED BY <1>1, <1>2, <1>3 DEF WsServe

\* One step of the stop of a WebSocket listener.
LEMMA WsStops ==
    ASSUME WsTypeOK, WsOK, NEW k \in Kinds,
           WsClearFlag(k) \/ WsCloseListen(k) \/ WsJoin(k)
    PROVE  WsTypeOK' /\ WsOK' /\ UNCHANGED <<wsAt, wsListener, wsKind>>
<1>1. UNCHANGED <<wsAt, wsListener, wsKind>>
  BY DEF WsClearFlag, WsCloseListen, WsJoin
<1>2. WsTypeOK'
  BY <1>1 DEF WsTypeOK, WsClearFlag, WsCloseListen, WsJoin
<1>3. WsOK'
  BY <1>1 DEF WsTypeOK, WsOK, WsClearFlag, WsCloseListen, WsJoin
<1> QED BY <1>1, <1>2, <1>3

\* A Wyoming server that has returned from its stop stays so.
LEMMA StoppedForGood == Next /\ stopper = "returned" => stopper' = "returned"
BY DEF Next, CheckRunning, SelectTimeout, Accept, Count, Register, Head, Message, Disconnect,
       CallReturns, Unregister, CloseSocket, Uncount, Stop, WakeClients, JoinListener,
       DrainAndReturn

\* Every step preserves the invariant of the teardown.
LEMMA CompInductive == CompInv /\ [CompNext]_compVars => CompInv'
<1> SUFFICES ASSUME CompInv, [CompNext]_compVars PROVE CompInv'
  OBVIOUS
<1> USE DEF CompInv
<1>0. WyInv' => TypeOK'
  BY WyTyped, PTL
<1>1. CASE ListenReturns
  <2>1. UNCHANGED vars /\ UNCHANGED <<wsVars, lateCalls>> /\ main = "listening" /\ main' = "stopping"
    BY <1>1 DEF ListenReturns
  <2>2. WyInv'
    BY <2>1, WyInductive
  <2>3. WsTypeOK' /\ WsOK'
    BY <2>1 DEF CompTypeOK, WsTypeOK, WsOK, wsVars
  <2>4. LateOK'
    BY <2>1 DEF LateOK, wsVars
  <2> QED BY <1>0, <2>1, <2>2, <2>3, <2>4 DEF CompTypeOK, MainOK
<1>2. CASE WyomingStep
  <2>1. Next /\ UNCHANGED <<wsVars, main, lateCalls>>
    BY <1>2 DEF WyomingStep
  <2>2. WyInv'
    BY <2>1, WyInductive
  <2>3. WsTypeOK' /\ WsOK'
    BY <2>1 DEF CompTypeOK, WsTypeOK, WsOK, wsVars
  <2>4. LateOK'
    BY <2>1 DEF LateOK, wsVars
  <2>5. MainOK'
    BY <2>1, StoppedForGood DEF MainOK, wsVars
  <2> QED BY <1>0, <2>1, <2>2, <2>3, <2>4, <2>5 DEF CompTypeOK
<1>3. CASE WsStep
  <2>1. WsServe /\ UNCHANGED vars /\ main' = main
    BY <1>3 DEF WsStep
  <2>2. WyInv'
    BY <2>1, WyInductive
  <2>3. /\ WsTypeOK' /\ WsOK' /\ wsStop' = wsStop
        /\ \A h \in WsHandlers :
              /\ wsAt'[h] = "recv" => wsAt[h] = "recv" \/ wsRunning[wsKind[h]]
              /\ wsAt'[h] = "call" => wsAt[h] \in {"recv", "call"}
    BY <2>1, WsServes DEF CompTypeOK
  <2>4. MainOK'
    BY <2>1, <2>3 DEF MainOK, vars
  <2>5. main = "destroyed" => \A h \in WsHandlers : ~wsRunning[wsKind[h]]
    BY DEF CompTypeOK, WsTypeOK, WsOK, MainOK
  <2>6. \A h \in WsHandlers :
           lateCalls'[h] = lateCalls[h]
             + IF main = "destroyed" /\ wsAt[h] # "call" /\ wsAt'[h] = "call" THEN 1 ELSE 0
    BY <1>3 DEF WsStep
  <2>7. LateOK'
    BY <2>1, <2>3, <2>5, <2>6 DEF LateOK
  <2>8. lateCalls' \in [WsHandlers -> Nat]
    BY <1>3 DEF WsStep, CompTypeOK
  <2> QED BY <1>0, <2>1, <2>2, <2>3, <2>4, <2>7, <2>8 DEF CompTypeOK
<1>4. ASSUME NEW k \in Kinds, WsStopStep(k) PROVE CompInv'
  <2>1. /\ WsClearFlag(k) \/ WsCloseListen(k) \/ WsJoin(k)
        /\ UNCHANGED vars /\ UNCHANGED <<main, lateCalls>> /\ main = "stopping"
    BY <1>4 DEF WsStopStep, Turn
  <2>2. WyInv'
    BY <2>1, WyInductive
  <2>3. WsTypeOK' /\ WsOK' /\ UNCHANGED wsAt
    BY <2>1, WsStops DEF CompTypeOK
  <2>4. LateOK' /\ MainOK'
    BY <2>1, <2>3 DEF LateOK, MainOK
  <2> QED BY <1>0, <2>1, <2>2, <2>3, <2>4 DEF CompTypeOK
<1>5. CASE Destroy
  <2>1. UNCHANGED vars /\ UNCHANGED <<wsVars, lateCalls>> /\ main = "stopping" /\ main' = "destroyed"
    BY <1>5 DEF Destroy
  <2>2. WyInv'
    BY <2>1, WyInductive
  <2>3. WsTypeOK' /\ WsOK'
    BY <2>1 DEF CompTypeOK, WsTypeOK, WsOK, wsVars
  <2>4. LateOK'
    BY <2>1 DEF LateOK, wsVars
  <2>5. MainOK'
    BY <1>5, <2>1 DEF Destroy, MainOK, vars, wsVars
  <2> QED BY <1>0, <2>1, <2>2, <2>3, <2>4, <2>5 DEF CompTypeOK
<1>6. CASE UNCHANGED compVars
  <2>1. UNCHANGED vars /\ UNCHANGED <<wsVars, main, lateCalls>>
    BY <1>6 DEF compVars
  <2>2. WyInv'
    BY <2>1, WyInductive
  <2>3. WsTypeOK' /\ WsOK'
    BY <2>1 DEF CompTypeOK, WsTypeOK, WsOK, wsVars
  <2>4. LateOK' /\ MainOK'
    BY <2>1 DEF LateOK, MainOK, vars, wsVars
  <2> QED BY <1>0, <2>1, <2>2, <2>3, <2>4 DEF CompTypeOK
<1> QED BY <1>1, <1>2, <1>3, <1>4, <1>5, <1>6 DEF CompNext

----------------------------------------------------------------------------
\* The companions and the teardown keep their types; in particular g_active
\* stays between zero and the number of handlers.
THEOREM CompTypeCorrect == CompSpec => []CompTypeOK
<1>1. CompInv => CompTypeOK
  BY DEF CompInv
<1> QED BY CompInitial, CompInductive, <1>1, PTL DEF CompSpec

\* For any number of handlers and descriptors, no Wyoming handler sleeps on a
\* live connection once wyoming_stop() has woken the clients.
THEOREM CompNobodySleeps == CompSpec => []NobodySleepsThroughStop
<1>1. CompInv => NobodySleepsThroughStop
  BY DEF CompInv, WyInv
<1> QED BY CompInitial, CompInductive, <1>1, PTL DEF CompSpec

\* g_clients always holds exactly the open descriptors of the registered
\* handlers, however descriptors are reused.
THEOREM CompRegisteredIsOpen == CompSpec => []RegisteredIsOpen
<1>1. CompInv => RegisteredIsOpen
  BY DEF CompInv, WyInv
<1> QED BY CompInitial, CompInductive, <1>1, PTL DEF CompSpec

\* No listener thread outlives run_server().
THEOREM CompNoListenerOutlives == CompSpec => []NoListenerOutlives
<1>1. CompInv => NoListenerOutlives
  BY DEF CompInv, WyInv, StopOK, WsOK, MainOK, NoListenerOutlives
<1> QED BY CompInitial, CompInductive, <1>1, PTL DEF CompSpec

\* A realtime handler sets out to call the destroyed backend at most once.
THEOREM CompOneLateCall == CompSpec => []OneLateCall
<1>1. CompInv => OneLateCall
  BY DEF CompInv, LateOK, OneLateCall
<1> QED BY CompInitial, CompInductive, <1>1, PTL DEF CompSpec

\* No Wyoming handler sets out to call the backend once it is destroyed.
THEOREM CompNoCallAfterTeardown == CompSpec => NoCallAfterTeardown
<1> DEFINE Calls(h) == at[h] # "call" /\ at'[h] = "call" => main # "destroyed"
<1>1. CompInv /\ [CompNext]_compVars => [\A h \in Handlers : Calls(h)]_compVars
  <2> SUFFICES ASSUME CompInv, CompNext, NEW h \in Handlers,
                      at[h] # "call", at'[h] = "call"
               PROVE  main # "destroyed"
    OBVIOUS
  <2>1. Next
    BY DEF CompNext, ListenReturns, WyomingStep, WsStep, WsStopStep, Destroy, vars
  <2>2. at[h] = "recv"
    <3>1. UNCHANGED at \/ \E k \in Handlers :
             \/ \E f \in Fds : Accept(k, f)
             \/ Count(k) \/ Register(k) \/ Head(k)
             \/ Message(k) \/ Disconnect(k) \/ CallReturns(k)
             \/ Unregister(k) \/ CloseSocket(k) \/ Uncount(k)
      BY <2>1 DEF Next, CheckRunning, SelectTimeout, Stop, WakeClients, JoinListener,
                  DrainAndReturn
    <3> QED
      BY <3>1 DEF CompInv, WyInv, Typed, Accept, Count, Register, Head, Message, Disconnect,
                  CallReturns, Unregister, CloseSocket, Uncount
  <2> QED BY <2>2 DEF CompInv, WyInv, StopOK, MainOK
<1> QED BY CompInitial, CompInductive, <1>1, PTL DEF CompSpec, NoCallAfterTeardown
=============================================================================
