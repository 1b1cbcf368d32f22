----------------------------- MODULE WhisperFull -----------------------------
(***************************************************************************)
(* src/stelnettts.cpp, whisper_full_with_state: the windows of one or more *)
(* transcription calls on one state.  A window is decoded at one           *)
(* temperature after the other until a decoding is good enough; it yields  *)
(* a piece of text, the distance to the next window and the context that   *)
(* the next prompt begins with.  A call whose first temperature is above 1 *)
(* has none to go on to either: it decodes nothing, and puts out what the  *)
(* first decoder of the state was left with.                               *)
(*                                                                         *)
(* What a decoding yields is open: whether each decoder failed, how far it *)
(* moves the window and how many tokens it keeps.  Token sequences are     *)
(* their lengths; time is in units coarser than the source's 10 ms.        *)
(***************************************************************************)
EXTENDS Integers, FiniteSets

CONSTANTS
    SeekEnd,    \* bound: length of the audio
    Chunk,      \* 100 * STELNETTTS_CHUNK_SIZE
    DeltaMin,   \* delta_min
    ShortTail,  \* a window this near the end is decoded without context
    TextCtx,    \* n_text_ctx
    InitLen,    \* prompt_init.size()
    Shapes,     \* bound: decoders at the first temperature and at the later
                \* ones, temperatures.size(), and how many of them are below
                \* STELNETTTS_HISTORY_CONDITIONING_TEMP_CUTOFF
    Budgets,    \* bound: what max_prompt_ctx may be
    Lengths,    \* bound: tokens of an initial prompt, or kept of a decoding
    MaxCalls    \* bound

MaxSteps == (TextCtx \div 2) - 4

ShapeType == [first : Nat \ {0}, later : Nat \ {0}, temps : Nat, cold : Nat]

ASSUME FullAssumption ==
    /\ {SeekEnd, Chunk} \subseteq Nat \ {0}
    /\ {DeltaMin, ShortTail, TextCtx, MaxCalls} \subseteq Nat
    /\ InitLen \in 0 .. 4
    /\ Shapes \subseteq ShapeType
    /\ Lengths \subseteq Nat
    /\ \A n \in Lengths : n <= MaxSteps
    /\ Budgets \subseteq 0 .. TextCtx \div 2

VARIABLES
    phase,   \* "idle", "window", "decode", "emit", "freed", or "undefined"
    calls,   \* calls begun
    req,     \* the call's parameters: budget (max_prompt_ctx), carry, shape
    past0,   \* prompt_past0.size()
    past1,   \* prompt_past1.size()
    cutFor,  \* history: the budget that prompt_past0 was cut for
    seek,
    temp,    \* it, from 1
    prompt,  \* prompt.size() without prompt_init: 0, or 1 more than the context
    best,    \* best_decoder_id
    cand,    \* what that decoder last decoded, and the call and window it was of
    ran,     \* history: the first decoder of the state has been run, or reset to run
    made     \* kv_self_n_dec

\* What a call and its windows work on, and what the state keeps beside.
callVars == <<calls, req, past0, past1, cutFor>>
fullVars == <<phase, callVars, seek, temp, prompt, best, cand, ran, made>>

\* Type invariant.
FullTypeOK ==
    /\ phase \in {"idle", "window", "decode", "emit", "freed", "undefined"}
    /\ calls \in 0 .. MaxCalls
    /\ req \in [budget : 0 .. TextCtx \div 2, carry : BOOLEAN, shape : ShapeType]
    /\ past0 \in Nat /\ past1 \in Nat /\ cutFor \in Nat
    /\ seek \in Nat /\ prompt \in Nat /\ best \in Nat /\ made \in Nat
    /\ temp \in Nat \ {0}
    /\ cand \in [failed : BOOLEAN, delta : Nat, len : Nat, of : Nat \X Nat]
    /\ ran \in BOOLEAN

Lower(a, b) == IF a <= b THEN a ELSE b
Higher(a, b) == IF a <= b THEN b ELSE a

\* A temperature above 1 with an increment makes an empty list of them.
NoTemperature == req.shape.temps = 0

\* No window: no call has this number.
Elsewhere == <<0, 0>>

FullInit ==
    /\ phase = "idle"
    /\ calls = 0
    /\ req = [budget |-> 0, carry |-> FALSE,
              shape |-> [first |-> 1, later |-> 1, temps |-> 1, cold |-> 0]]
    /\ past0 = 0 /\ past1 = 0 /\ cutFor = 0
    /\ seek = 0 /\ temp = 1 /\ prompt = 0 /\ best = 0
    /\ cand = [failed |-> FALSE, delta |-> Chunk, len |-> 0, of |-> Elsewhere]
    /\ ran = FALSE /\ made = 1

----------------------------------------------------------------------------
\* Mutant: a window may be told to stay where it is.
StayingDeltas == 0 .. Chunk

\* A timestamp beyond <|0.00|> moves the window, otherwise it moves by Chunk.
Deltas == 1 .. Chunk

\* What a call without a temperature finds in the first decoder: what an
\* earlier one left there, or memory that nothing has been written to.
LeftBehind ==
    IF ran
    THEN [failed : {FALSE}, delta : Deltas, len : Lengths, of : {Elsewhere}]
    ELSE [failed : {FALSE}, delta : 0 .. Chunk, len : {0}, of : {Elsewhere}]

\* The call begins with n tokens of initial prompt: carried along unchanged,
\* if there is none yet, or put before the rolling context.
Begin(budget, carry, shape, noContext, n) ==
    LET old0 == IF noContext THEN 0 ELSE past0
        old1 == IF noContext THEN 0 ELSE past1
        keeps == n > 0 /\ carry /\ old0 = 0
    IN
    /\ phase = "idle" /\ calls < MaxCalls
    /\ calls' = calls + 1
    /\ req' = [budget |-> budget, carry |-> carry, shape |-> shape]
    /\ past0' = IF keeps THEN Lower(n, Higher(1, budget - 1)) ELSE old0
    /\ cutFor' = IF keeps THEN budget ELSE cutFor
    /\ past1' = IF n > 0 /\ ~carry THEN old1 + n ELSE old1
    /\ seek' = 0 /\ prompt' = 0
    /\ IF shape.temps = 0 THEN cand' \in LeftBehind ELSE cand' = cand
    /\ phase' = "window"
    /\ UNCHANGED <<temp, best, ran, made>>

\* A call ends at the end of the audio, or when a window cannot be encoded.
Return ==
    /\ phase = "window"
    /\ phase' = "idle"
    /\ UNCHANGED <<callVars, seek, temp, prompt, best, cand, ran, made>>

\* Near the end of the audio the context goes.
DropContextNearEnd ==
    IF seek > 0 /\ seek + ShortTail >= SeekEnd
    THEN past0' = 0 /\ past1' = 0
    ELSE UNCHANGED <<past0, past1>>

\* Mutant: the search for the best decoder goes on from the last window's.
WindowKeepsBest ==
    /\ phase = "window"
    /\ seek + DeltaMin < SeekEnd
    /\ DropContextNearEnd
    /\ temp' = 1
    /\ phase' = IF NoTemperature THEN "emit" ELSE "decode"
    /\ UNCHANGED <<calls, req, cutFor, seek, prompt, best, cand, ran, made>>

\* The next window is encoded, and decoded if there is a temperature to.
Window ==
    /\ phase = "window"
    /\ seek + DeltaMin < SeekEnd
    /\ DropContextNearEnd
    /\ temp' = 1
    /\ best' = 0
    /\ phase' = IF NoTemperature THEN "emit" ELSE "decode"
    /\ UNCHANGED <<calls, req, cutFor, seek, prompt, cand, ran, made>>

\* A window of silence is passed over, by models that name the speakers.
SkipSilence ==
    /\ phase = "window"
    /\ seek + DeltaMin < SeekEnd
    /\ seek' = seek + Lower(SeekEnd - seek, Chunk)
    /\ UNCHANGED <<phase, callVars, temp, prompt, best, cand, ran, made>>

Take0 == IF req.carry THEN past0 ELSE 0

\* Mutant: the token that marks the context is not counted.
Take1Unmarked == Lower(req.budget - Take0, past1)

\* How much of the rolling context fits beside the carried prompt.
Take1 == Lower(req.budget - Take0 - 1, past1)

HasContext ==
    /\ temp <= req.shape.cold
    /\ req.budget > 0
    /\ Take0 > 0 \/ past1 > 0

Running == 0 .. (IF temp = 1 THEN req.shape.first ELSE req.shape.later) - 1

\* What the decoders make of this window: one that has not failed is the best
\* of those; if all have failed, the best so far is what it was, or what it
\* has now failed to be.
Decodings ==
    LET run == [failed : BOOLEAN, delta : Deltas, len : Lengths, of : {<<calls, seek>>}] IN
    {[best |-> j, cand |-> r] : j \in Running, r \in {q \in run : ~q.failed}}
    \cup IF best \in Running
         THEN {[best |-> best, cand |-> r] : r \in {q \in run : q.failed}}
         ELSE {[best |-> best, cand |-> cand]}

\* The carried prompt leaves less than no room for the rolling context.
Overdrawn == HasContext /\ Take1 < 0

\* The first decoders are reset, and the cache is large enough for them.
Prepared ==
    /\ phase = "decode"
    /\ ~Overdrawn
    /\ ran' = TRUE
    /\ made' = Higher(made, Cardinality(Running))

\* One temperature: the prompt and what follows it is decoded.  The last
\* temperature is final, an earlier one if the candidate is good enough.
Attempt ==
    /\ Prepared
    /\ prompt' = IF HasContext THEN 1 + Take0 + Take1 ELSE 0
    /\ \E d \in Decodings :
          /\ best' = d.best
          /\ cand' = d.cand
          /\ \/ /\ temp = req.shape.temps \/ ~d.cand.failed
                /\ phase' = "emit"
                /\ temp' = temp
             \/ temp < req.shape.temps /\ temp' = temp + 1 /\ phase' = phase
    /\ UNCHANGED <<callVars, seek>>

\* The call ends because a step of the decoding fails.
AttemptFails ==
    /\ Prepared
    /\ phase' = "idle"
    /\ UNCHANGED <<callVars, seek, temp, prompt, best, cand>>

\* There is no memory for a cache of more decoders: the call frees the state
\* it was given, which is never to be used again.
AttemptFrees ==
    /\ phase = "decode"
    /\ ~Overdrawn
    /\ made < Cardinality(Running)
    /\ phase' = "freed"
    /\ UNCHANGED <<callVars, seek, temp, prompt, best, cand, ran, made>>

\* The code takes a range of context tokens that ends before it begins.
AttemptUndefined ==
    /\ phase = "decode"
    /\ Overdrawn
    /\ phase' = "undefined"
    /\ UNCHANGED <<callVars, seek, temp, prompt, best, cand, ran, made>>

\* The text of the best decoder is put out and, unless it is taken for no
\* speech, becomes context; a single timestamp at its end skips the chunk.
Emit(noSpeech, skips) ==
    /\ phase = "emit"
    /\ past1' = (IF ~req.carry /\ prompt > 0 THEN prompt - 1 ELSE 0)
                + (IF noSpeech THEN 0 ELSE cand.len)
    /\ seek' = seek + IF skips THEN Lower(SeekEnd - seek, Chunk) ELSE cand.delta
    /\ phase' = "window"
    /\ UNCHANGED <<calls, req, past0, cutFor, temp, prompt, best, cand, ran, made>>

\* A decoder that nothing has been written to may say that it holds tokens.
EmitUndefined ==
    /\ phase = "emit" /\ NoTemperature /\ ~ran
    /\ phase' = "undefined"
    /\ UNCHANGED <<callVars, seek, temp, prompt, best, cand, ran, made>>

FullStep ==
    \/ Return \/ SkipSilence \/ Window
    \/ Attempt \/ AttemptFails \/ AttemptFrees \/ AttemptUndefined
    \/ EmitUndefined
    \/ \E noSpeech, skips \in BOOLEAN : Emit(noSpeech, skips)

FullNext ==
    \/ FullStep
    \/ \E budget \in Budgets, carry, noContext \in BOOLEAN,
         shape \in Shapes, n \in Lengths : Begin(budget, carry, shape, noContext, n)

FullSpec == FullInit /\ [][FullNext]_fullVars

----------------------------------------------------------------------------
\* The context never crowds out the decoding: marker, context, initial
\* tokens and the longest decoding fit the text context exactly.  With a
\* temperature to decode at, a call is undefined only for a budget of one
\* token, or one smaller than that of the earlier call whose carried prompt
\* is still there.
PromptFits ==
    /\ phase = "emit" => prompt + InitLen + MaxSteps <= TextCtx
    /\ phase = "undefined" /\ ~NoTemperature => req.budget = 1 \/ req.budget < cutFor

\* No window is given the text of another, of its call or of an earlier one:
\* whichever decoders fail at which temperature, the decoder whose text is
\* put out has run on this window, if there is a temperature to run at.
EmitsThisWindow == phase = "emit" /\ ~NoTemperature => cand.of = <<calls, seek>>

\* A call comes to its end, however its windows are cut, if a decoder has
\* ever run on the state: what the call has for a decoding says how far to
\* move the window, even when it is an earlier call's.
EveryCallReturns ==
    phase = "window" /\ (NoTemperature => ran) ~> phase \in {"idle", "freed", "undefined"}

\* What a call puts out is what a decoder made of the window it is put out
\* for: "PCM -> log mel spectrogram -> encoder -> decoder -> text" (the
\* comment on whisper_full).  On a state that has decoded before, a call
\* without a temperature puts out the text of the earlier call.
EmitsDecoded == phase = "emit" /\ ran /\ cand.len > 0 => cand.of = <<calls, seek>>
=============================================================================
