----------------------------- MODULE ChatContext -----------------------------
(***************************************************************************)
(* The conversation a chat session of src/chat.cpp carries from one call   *)
(* to the next: the token history it records and the KV cache it believes  *)
(* that history describes.  Every call below runs under the session mutex, *)
(* so at most one generation is in progress; ChatLifecycle models who gets *)
(* that far.                                                               *)
(*                                                                         *)
(* Tokens are abstract and a prompt is the token sequence that the chat    *)
(* template and the tokenizer make of the messages.  The sampler, the      *)
(* decoder and the caller's abort callback are free to answer anything.    *)
(***************************************************************************)
EXTENDS Naturals, Sequences

CONSTANTS
    Tokens,
    MaxPrompt,      \* bound: length of a prompt
    NCtx,           \* n_ctx: a decode past it fails
    NBatch,         \* n_batch: prefill walks the prompt in pieces of it
    MaxTokens,      \* gp.max_tokens
    Removal,        \* what llama_memory_seq_rm may answer, a set of BOOLEANs
    StopChoices     \* whether callers pass stop sequences, a set of BOOLEANs

ASSUME ContextAssumption ==
    /\ MaxPrompt \in Nat \ {0} /\ NCtx \in Nat \ {0} /\ NBatch \in Nat \ {0}
    /\ MaxTokens \in Nat \ {0}
    /\ Removal \in SUBSET BOOLEAN /\ StopChoices \in SUBSET BOOLEAN

VARIABLES
    history,    \* s->history
    cache,      \* the tokens whose keys and values sequence 0 holds
    logits,     \* the context the last successful decode computed logits for
    abortable,  \* s->abort_cb # nullptr
    phase,      \* where the running generate call is
    full,       \* its whole prompt
    todo,       \* the part of prompt_new that is not decoded yet
    fresh,      \* prompt_new
    sampled,    \* the tokens it has sampled
    delivered,  \* pieces handed to on_token
    kept,       \* pieces of `out` that the call returns
    prefillOnly, stops,     \* gp.prefill_only, gp.n_stop > 0
    result      \* how the last call ended

memory == <<history, cache, logits>>
request == <<full, fresh, prefillOnly, stops>>
vars == <<memory, abortable, phase, todo, sampled, delivered, kept, request, result>>

Prompts == UNION {[1..n -> Tokens] : n \in 1..MaxPrompt}

\* Type invariant: token sequences stay token sequences, and the pieces a
\* call returns never outnumber the pieces it streamed.
TypeOK ==
    /\ history \in Seq(Tokens) /\ cache \in Seq(Tokens) /\ logits \in Seq(Tokens)
    /\ full \in Seq(Tokens) /\ todo \in Seq(Tokens) /\ fresh \in Seq(Tokens)
    /\ sampled \in Seq(Tokens)
    /\ delivered \in Nat /\ kept \in 0..delivered
    /\ abortable \in BOOLEAN /\ prefillOnly \in BOOLEAN /\ stops \in BOOLEAN
    /\ phase \in {"idle", "prefill", "sampler", "decode", "advance"}
    /\ result \in {"none", "ok", "aborted", "failed"}

Init ==
    /\ history = <<>> /\ cache = <<>> /\ logits = <<>>
    /\ abortable = FALSE
    /\ phase = "idle"
    /\ full = <<>> /\ todo = <<>> /\ fresh = <<>> /\ sampled = <<>>
    /\ delivered = 0 /\ kept = 0
    /\ prefillOnly = FALSE /\ stops = FALSE
    /\ result = "none"

-----------------------------------------------------------------------------
\* Mutants: one of the two is forgotten.
FlushCacheOnly == cache' = <<>> /\ UNCHANGED history
\* llama_memory_clear and history.clear(), always together.
Flush == history' = <<>> /\ cache' = <<>>

\* The prefix of s of length n (or all of s when it is shorter).
Prefix(s, n) == SubSeq(s, 1, IF n < Len(s) THEN n ELSE Len(s))
Rest(s, n) == SubSeq(s, n + 1, Len(s))

\* n is the length of the largest common prefix of s and t.
IsCommon(s, t, n) ==
    /\ n <= Len(s) /\ n <= Len(t)
    /\ \A i \in 1..n : s[i] = t[i]
    /\ n < Len(s) /\ n < Len(t) => s[n + 1] # t[n + 1]

End(outcome) ==
    /\ phase' = "idle"
    /\ result' = outcome

\* Mutant: a cancelled call keeps its half-finished turn.
CancelKeepsTurn == abortable /\ End("aborted") /\ UNCHANGED <<history, cache>>

\* The callback, if there is one, asks to abort: abort_requested is true.
Cancel == abortable /\ Flush /\ End("aborted")

\* llama_decode fails; on the CPU backend that may be a cancel.
DecodeFails ==
    /\ Flush
    /\ \E outcome \in {"failed"} \cup (IF abortable THEN {"aborted"} ELSE {}) :
          End(outcome)

\* stelnettts_chat_reset
Reset ==
    /\ phase = "idle"
    /\ Flush
    /\ UNCHANGED <<logits, abortable, phase, todo, sampled, delivered, kept, request, result>>

\* stelnettts_chat_set_abort_callback
SetAbortCallback(registered) ==
    /\ phase = "idle"
    /\ abortable' = registered
    /\ UNCHANGED <<memory, phase, todo, sampled, delivered, kept, request, result>>

\* Mutant: a prompt that is a strict prefix of the history keeps all of it.
PreparePromptNoHoldBack(p) ==
    \/ /\ history = <<>>
       /\ fresh' = p
       /\ UNCHANGED memory
    \/ /\ history # <<>>
       /\ \E common \in 0..Len(history) :
             /\ IsCommon(history, p, common)
             /\ history' = Prefix(history, common)
             /\ cache' = Prefix(cache, common)
             /\ fresh' = Rest(p, common)
             /\ UNCHANGED logits

\* prepare_prompt: truncate history and cache to what they share with the
\* prompt p, of which prompt_new is the rest.
PreparePrompt(p) ==
    \/ /\ history = <<>>
       /\ fresh' = p
       /\ UNCHANGED memory
    \/ /\ history # <<>>
       /\ \E common \in 0..Len(history) :
             /\ IsCommon(history, p, common)
             /\ IF common = Len(history)
                THEN fresh' = Rest(p, common) /\ UNCHANGED memory
                ELSE LET keep == IF common = Len(p) THEN common - 1 ELSE common IN
                     /\ UNCHANGED logits
                     /\ \/ /\ keep > 0 /\ TRUE \in Removal
                           /\ history' = Prefix(history, keep)
                           /\ cache' = Prefix(cache, keep)
                           /\ fresh' = Rest(p, keep)
                        \/ /\ keep = 0 \/ FALSE \in Removal
                           /\ Flush
                           /\ fresh' = p

\* stelnettts_chat_generate and _generate_stream up to generate_loop.
Begin(p, only, withStops) ==
    /\ phase = "idle"
    /\ PreparePrompt(p)
    /\ full' = p
    /\ todo' = fresh'
    /\ sampled' = <<>> /\ delivered' = 0 /\ kept' = 0
    /\ prefillOnly' = only /\ stops' = withStops
    /\ phase' = IF fresh' # <<>> THEN "prefill"
                ELSE IF only THEN "idle" ELSE "sampler"
    /\ result' = IF fresh' = <<>> /\ only THEN "ok" ELSE result
    /\ UNCHANGED abortable

\* One piece of the prefill loop.
PrefillPiece ==
    /\ phase = "prefill"
    /\ LET piece == Prefix(todo, NBatch)
           rest  == Rest(todo, Len(piece)) IN
       \/ Cancel /\ UNCHANGED <<logits, todo>>
       \/ DecodeFails /\ UNCHANGED <<logits, todo>>
       \/ /\ Len(cache) + Len(piece) <= NCtx
          /\ cache' = cache \o piece
          /\ logits' = cache'
          /\ todo' = rest
          /\ IF rest # <<>>
             THEN UNCHANGED <<history, phase, result>>
             ELSE /\ history' = history \o fresh
                  /\ IF prefillOnly
                     THEN End("ok")
                     ELSE phase' = "sampler" /\ UNCHANGED result
    /\ UNCHANGED <<abortable, sampled, delivered, kept, request>>

\* build_sampler_chain, which may fail.
BuildSampler ==
    /\ phase = "sampler"
    /\ \/ phase' = "decode" /\ UNCHANGED result
       \/ End("failed")
    /\ UNCHANGED <<memory, abortable, todo, sampled, delivered, kept, request>>

\* The decode loop from its head to the decode of the sampled token: give up
\* after max_tokens, honour a cancel, stop at an end-of-generation token, or
\* deliver the piece, record the token and look for a stop sequence, whose
\* match may begin in an earlier piece.
Sample ==
    /\ phase = "decode"
    /\ \/ /\ Len(sampled) = MaxTokens
          /\ End("ok")
          /\ UNCHANGED <<memory, sampled, delivered, kept>>
       \/ /\ Len(sampled) < MaxTokens
          /\ Cancel
          /\ UNCHANGED <<logits, sampled, delivered, kept>>
       \/ /\ Len(sampled) < MaxTokens
          /\ End("ok")
          /\ UNCHANGED <<memory, sampled, delivered, kept>>
       \/ /\ Len(sampled) < MaxTokens
          /\ \E t \in Tokens :
                /\ sampled' = Append(sampled, t)
                /\ history' = Append(history, t)
          /\ delivered' = delivered + 1
          /\ \/ /\ phase' = "advance"
                /\ kept' = kept + 1
                /\ UNCHANGED result
             \/ /\ stops
                /\ kept' \in 0..kept
                /\ End("ok")
          /\ UNCHANGED <<cache, logits>>
    /\ UNCHANGED <<abortable, todo, request>>

\* Decode the token just sampled.
Advance ==
    /\ phase = "advance"
    /\ \/ /\ Len(cache) < NCtx
          /\ cache' = Append(cache, sampled[Len(sampled)])
          /\ logits' = cache'
          /\ phase' = "decode"
          /\ UNCHANGED <<history, result>>
       \/ DecodeFails /\ UNCHANGED logits
    /\ UNCHANGED <<abortable, todo, sampled, delivered, kept, request>>

Generate ==
    \E p \in Prompts, only \in BOOLEAN, withStops \in StopChoices :
        Begin(p, only, withStops)

Next ==
    \/ Reset
    \/ \E registered \in BOOLEAN : SetAbortCallback(registered)
    \/ Generate
    \/ PrefillPiece
    \/ BuildSampler
    \/ Sample
    \/ Advance

Spec == Init /\ [][Next]_vars
-----------------------------------------------------------------------------
(* Properties *)

\* "History of tokens already in the KV cache for this conversation": between
\* two calls the recorded history is what the cache holds, whichever way the
\* calls before ended.
HistoryIsCache == phase = "idle" => history = cache

\* Every token is sampled from logits computed for the whole prompt followed
\* by everything generated since, although most of that context may have been
\* decoded by earlier calls and part of it cut away again.
SampledInContext ==
    phase = "decode" => logits = full \o sampled /\ cache = logits

\* "An abort flushes the session back to its just-opened state", wherever in
\* the prefill or the decode loop it is noticed and on whichever backend.
AbortedIsFlushed ==
    phase = "idle" /\ result = "aborted" => history = <<>> /\ cache = <<>>
=============================================================================
