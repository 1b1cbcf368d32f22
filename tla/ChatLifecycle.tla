---------------------------- MODULE ChatLifecycle ----------------------------
(***************************************************************************)
(* Teardown of a chat session (src/chat.cpp): session_hold counts the      *)
(* calls inside the session, stelnettts_chat_close retires the session,    *)
(* waits for that count to reach zero and frees everything.  What a call   *)
(* does to the conversation once it holds the session mutex is             *)
(* ChatContext.                                                            *)
(*                                                                         *)
(* The header's ordering rule is taken as the callers' duty: a call or a   *)
(* close reaches the lock `life` before the session is freed.  The calls   *)
(* that do so while a close is already waiting are what the holds are for. *)
(***************************************************************************)
EXTENDS Naturals, FiniteSets

CONSTANTS
    Users,
    Nobody          \* the session mutex is free

ASSUME LifecycleAssumption == IsFiniteSet(Users) /\ Nobody \notin Users

VARIABLES
    alive,          \* the session, its context and its model are allocated
    retiring,       \* s->retiring
    inUse,          \* s->in_use
    mu,             \* who holds s->mu
    at,             \* where each thread is in its call
    outcome         \* how its last call on the session went

lifeVars == <<alive, retiring, inUse, mu, at, outcome>>

\* Between the constructor and the destructor of its session_hold.
Holding == {t \in Users : at[t] \in {"held", "inside", "reading", "leaving"}}
Closing == {t \in Users : at[t] \in {"closing", "woken", "freeing"}}

Places == {"out", "held", "inside", "reading", "leaving", "closing", "woken", "freeing"}

\* Type invariant.
LifeTypeOK ==
    /\ alive \in BOOLEAN /\ retiring \in BOOLEAN
    /\ inUse \in Nat
    /\ mu \in Users \cup {Nobody}
    /\ at \in [Users -> Places]
    /\ outcome \in [Users -> {"none", "done", "declined", "closed"}]

LifeInit ==
    /\ alive = TRUE /\ retiring = FALSE /\ inUse = 0
    /\ mu = Nobody
    /\ at = [t \in Users |-> "out"]
    /\ outcome = [t \in Users |-> "none"]

-----------------------------------------------------------------------------
\* Mutant: the hold is granted on a retiring session.
EnterIgnoresRetiring(t, next) ==
    /\ at[t] = "out"
    /\ alive
    /\ inUse' = inUse + 1
    /\ at' = [at EXCEPT ![t] = next]
    /\ outcome' = [outcome EXCEPT ![t] = "none"]
    /\ UNCHANGED <<alive, retiring, mu>>

\* session_hold's constructor, under `life`: a retiring session declines.
\* reset, count_tokens, set_abort_callback and the generate calls go on to
\* lock s->mu; template_name and n_ctx read without it.
Enter(t, next) ==
    /\ at[t] = "out"
    /\ alive
    /\ IF retiring
       THEN /\ outcome' = [outcome EXCEPT ![t] = "declined"]
            /\ UNCHANGED <<inUse, at>>
       ELSE /\ inUse' = inUse + 1
            /\ at' = [at EXCEPT ![t] = next]
            /\ outcome' = [outcome EXCEPT ![t] = "none"]
    /\ UNCHANGED <<alive, retiring, mu>>

LockSession(t) ==
    /\ at[t] = "held"
    /\ mu = Nobody
    /\ mu' = t
    /\ at' = [at EXCEPT ![t] = "inside"]
    /\ UNCHANGED <<alive, retiring, inUse, outcome>>

\* The work is done; the lock_guard, declared after the hold, goes first.
UnlockSession(t) ==
    /\ at[t] = "inside"
    /\ mu' = Nobody
    /\ at' = [at EXCEPT ![t] = "leaving"]
    /\ UNCHANGED <<alive, retiring, inUse, outcome>>

Wake(place) == [t \in Users |-> IF place[t] = "closing" THEN "woken" ELSE place[t]]

\* Mutant: the last call out does not notify.
LeaveSilently(t) ==
    /\ at[t] \in {"leaving", "reading"}
    /\ inUse' = inUse - 1
    /\ at' = [at EXCEPT ![t] = "out"]
    /\ outcome' = [outcome EXCEPT ![t] = "done"]
    /\ UNCHANGED <<alive, retiring, mu>>

\* ~session_hold(): the last one out notifies the close, under `life`.
Leave(t) ==
    /\ at[t] \in {"leaving", "reading"}
    /\ inUse' = inUse - 1
    /\ LET gone == [at EXCEPT ![t] = "out"] IN
       at' = IF inUse' = 0 THEN Wake(gone) ELSE gone
    /\ outcome' = [outcome EXCEPT ![t] = "done"]
    /\ UNCHANGED <<alive, retiring, mu>>

\* The wait predicate of stelnettts_chat_close.
AwaitIdle(t) == at' = [at EXCEPT ![t] = IF inUse = 0 THEN "freeing" ELSE "closing"]

\* stelnettts_chat_close up to its wait; a second close that finds the
\* session retiring returns at once.
Close(t) ==
    /\ at[t] = "out"
    /\ alive
    /\ IF retiring
       THEN outcome' = [outcome EXCEPT ![t] = "declined"] /\ UNCHANGED <<retiring, at>>
       ELSE retiring' = TRUE /\ AwaitIdle(t) /\ UNCHANGED outcome
    /\ UNCHANGED <<alive, inUse, mu>>

\* idle.wait returns, notified or not, and evaluates its predicate.
RecheckIdle(t) ==
    /\ at[t] = "woken"
    /\ AwaitIdle(t)
    /\ UNCHANGED <<alive, retiring, inUse, mu, outcome>>

WakeForNothing(t) ==
    /\ at[t] = "closing"
    /\ at' = [at EXCEPT ![t] = "woken"]
    /\ UNCHANGED <<alive, retiring, inUse, mu, outcome>>

\* llama_free, llama_model_free and delete.
Free(t) ==
    /\ at[t] = "freeing"
    /\ alive' = FALSE
    /\ at' = [at EXCEPT ![t] = "out"]
    /\ outcome' = [outcome EXCEPT ![t] = "closed"]
    /\ UNCHANGED <<retiring, inUse, mu>>

\* stelnettts_chat_open makes the next session.
Open(t) ==
    /\ at[t] = "out"
    /\ ~alive
    /\ alive' = TRUE /\ retiring' = FALSE /\ inUse' = 0 /\ mu' = Nobody
    /\ UNCHANGED <<at, outcome>>

LifeNext ==
    \E t \in Users :
        \/ Enter(t, "held") \/ Enter(t, "reading")
        \/ LockSession(t) \/ UnlockSession(t) \/ Leave(t)
        \/ Close(t) \/ RecheckIdle(t) \/ WakeForNothing(t) \/ Free(t)
        \/ Open(t)

LifeSpec == LifeInit /\ [][LifeNext]_lifeVars

\* A call that is inside the session finishes (a generation is bounded by
\* max_tokens), and a thread that can go on does.
LifeFairness ==
    \A t \in Users :
        WF_lifeVars(\/ LockSession(t) \/ UnlockSession(t) \/ Leave(t)
                    \/ RecheckIdle(t) \/ Free(t))

LifeFairSpec == LifeSpec /\ LifeFairness
-----------------------------------------------------------------------------
(* Properties *)

\* "It waits for calls that are ALREADY RUNNING inside the session": nothing
\* is freed while a call is between taking and dropping its hold, and no call
\* is ever inside a freed session.
FreesOnlyWhenIdle ==
    /\ (\E t \in Users : at[t] = "freeing") => Holding = {}
    /\ ~alive => Holding = {} /\ Closing = {}

\* The session is freed by one close only, however many are attempted.
OneCloser ==
    \A t, u \in Closing : t = u

\* A close terminates although further calls keep arriving, because the
\* session is retired before the wait.
CloseReturns ==
    \A t \in Users : at[t] = "closing" ~> outcome[t] = "closed"
=============================================================================
