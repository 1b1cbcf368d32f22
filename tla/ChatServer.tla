----------------------------- MODULE ChatServer -----------------------------
(***************************************************************************)
(* POST /v1/chat/completions of the HTTP server: requests from several     *)
(* clients share one lazily opened chat session.  A request is two calls   *)
(* on it, reset and then generate, made under chat_call_mutex; the session *)
(* itself is ChatContext.  Unlike the callers of the C ABI in general, the *)
(* server passes the client's stop sequences and registers no abort        *)
(* callback.                                                               *)
(***************************************************************************)
EXTENDS ChatContext

CONSTANTS
    Clients,
    Nobody          \* chat_call_mutex is free

ASSUME ServerAssumption == Nobody \notin Clients

VARIABLES
    opened,         \* chat_sess has a session
    callLock,       \* who holds chat_call_mutex
    at,             \* at[c]: where the handler of c's request is
    prompt,         \* prompt[c]: c's messages
    stopping        \* stopping[c]: c's body has a "stop" field

handler == <<opened, callLock, at, prompt, stopping>>
allVars == <<vars, handler>>

Stages == {"none", "parsed", "locked", "reset", "generating"}

\* Type invariant of the handlers.
ServerTypeOK ==
    /\ TypeOK
    /\ opened \in BOOLEAN
    /\ callLock \in Clients \cup {Nobody}
    /\ at \in [Clients -> Stages]
    /\ prompt \in [Clients -> Prompts \cup {<<>>}]
    /\ stopping \in [Clients -> BOOLEAN]

ServerInit ==
    /\ Init
    /\ opened = FALSE
    /\ callLock = Nobody
    /\ at = [c \in Clients |-> "none"]
    /\ prompt = [c \in Clients |-> <<>>]
    /\ stopping = [c \in Clients |-> FALSE]

\* ensure_chat_session() under chat_init_mutex, then the parsing of the body;
\* a failed open is tried again by the next request.
Receive(c) ==
    /\ at[c] = "none"
    /\ opened' \in {opened, TRUE}
    /\ IF opened'
       THEN /\ at' = [at EXCEPT ![c] = "parsed"]
            /\ \E p \in Prompts : prompt' = [prompt EXCEPT ![c] = p]
            /\ \E s \in StopChoices : stopping' = [stopping EXCEPT ![c] = s]
       ELSE UNCHANGED <<at, prompt, stopping>>
    /\ UNCHANGED <<vars, callLock>>

\* Mutant: every handler goes straight on to its two calls.
LockNothing(c) ==
    /\ at[c] = "parsed"
    /\ callLock' = c
    /\ at' = [at EXCEPT ![c] = "locked"]
    /\ UNCHANGED <<vars, opened, prompt, stopping>>

\* The whole transaction takes one lock.
Lock(c) ==
    /\ at[c] = "parsed"
    /\ callLock = Nobody
    /\ callLock' = c
    /\ at' = [at EXCEPT ![c] = "locked"]
    /\ UNCHANGED <<vars, opened, prompt, stopping>>

\* Mutant: the handler relies on the session to cut back what is left over.
ResetNothing(c) ==
    /\ at[c] = "locked"
    /\ at' = [at EXCEPT ![c] = "reset"]
    /\ UNCHANGED <<vars, opened, callLock, prompt, stopping>>

CallReset(c) ==
    /\ at[c] = "locked"
    /\ Reset
    /\ at' = [at EXCEPT ![c] = "reset"]
    /\ UNCHANGED <<opened, callLock, prompt, stopping>>

\* The generate call; prepare_prompt may decline the messages.
CallGenerate(c) ==
    /\ at[c] = "reset"
    /\ Begin(prompt[c], FALSE, stopping[c]) \/ UNCHANGED vars
    /\ at' = [at EXCEPT ![c] = "generating"]
    /\ UNCHANGED <<opened, callLock, prompt, stopping>>

\* The generate call of whichever handler is inside it.
Generating ==
    /\ \E c \in Clients : at[c] = "generating"
    /\ PrefillPiece \/ BuildSampler \/ Sample \/ Advance
    /\ UNCHANGED handler

\* The response is written and the lock_guard goes out of scope.
Respond(c) ==
    /\ at[c] = "generating"
    /\ phase = "idle"
    /\ callLock' = Nobody
    /\ at' = [at EXCEPT ![c] = "none"]
    /\ prompt' = [prompt EXCEPT ![c] = <<>>]
    /\ stopping' = [stopping EXCEPT ![c] = FALSE]
    /\ UNCHANGED <<vars, opened>>

ServerNext ==
    \/ \E c \in Clients :
          Receive(c) \/ Lock(c) \/ CallReset(c) \/ CallGenerate(c) \/ Respond(c)
    \/ Generating

ServerSpec == ServerInit /\ [][ServerNext]_allVars
-----------------------------------------------------------------------------
(* Properties *)

\* "Each call is treated as a stateless conversation": the session never runs
\* a prompt other than that of the handler that holds chat_call_mutex.  That
\* nothing an earlier request left behind reaches the answer, also when that
\* request ended at a stop sequence, is SampledInContext of the session.
AnswersItsOwnPrompt ==
    phase # "idle" => callLock # Nobody /\ full = prompt[callLock]
=============================================================================
