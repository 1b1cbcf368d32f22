---------------------------- MODULE StreamSession ----------------------------
(***************************************************************************)
(* src/stelnettts_c_api.cpp, the rolling window of stelnettts_stream_*,    *)
(* and the frame loop of examples/server/ws_stream.cpp that drives it: a   *)
(* client feeds audio in pieces of any size, every `step` samples the last *)
(* `length + keep` are decoded at once, and the text is sent with times    *)
(* that count from the first sample of the stream.                         *)
(*                                                                         *)
(* A sample is its position in the stream; a decode is the window it saw   *)
(* and whether it succeeded.                                               *)
(***************************************************************************)
EXTENDS Integers, Sequences, SequencesExt, FiniteSetsExt

CONSTANTS
    Step, Length, Keep,  \* n_samples_step, n_samples_length, n_samples_keep
    MaxFed,              \* bound: samples of one stream
    MaxPiece             \* bound: samples of one frame

ASSUME StreamAssumption ==
    /\ {Step, Length} \subseteq Nat \ {0}
    /\ Keep \in Nat

VARIABLES
    fed,      \* stream_time_s: samples fed so far
    accum,    \* samples fed since the last successful decode
    history,  \* the end of the last decoded window
    out,      \* the output held: its window, the time of its start, its counter
    sent,     \* the last message to the client: an output, and whether it is
              \* partial or final (then, what the flush returned)
    heard     \* history: samples that were in a successfully decoded window

streamVars == <<fed, accum, history, out, sent, heard>>

\* Outputs: the samples decoded, the time of the first, how many before.
Outputs == [window : Seq(Int), start : Int, counter : Nat]

\* Type invariant.
StreamTypeOK ==
    /\ fed \in Nat
    /\ accum \in Seq(Int) /\ history \in Seq(Int)
    /\ out \in Outputs
    /\ sent \in [out : Outputs, kind : {"partial", "nothing", "decoded", "failed"}]
    /\ heard \subseteq Int

NoOutput == [window |-> <<>>, start |-> 0, counter |-> 0]

StreamInit ==
    /\ fed = 0
    /\ accum = <<>> /\ history = <<>>
    /\ out = NoOutput
    /\ sent = [out |-> NoOutput, kind |-> "partial"]
    /\ heard = {}

----------------------------------------------------------------------------
LastOf(s, n) == SubSeq(s, Len(s) - n + 1, Len(s))

\* Mutant: the history is cut at its end instead of its beginning.
WindowFromHead(old, new) ==
    SubSeq(old, 1, Min({Len(old), Max({0, Keep + Length - Len(new)})})) \o new

\* The samples that are decoded: the tail of the old window, then the new.
WindowOf(old, new) ==
    LastOf(old, Min({Len(old), Max({0, Keep + Length - Len(new)})})) \o new

\* Mutant: the buffer is dropped although the decode failed.
DecodeOrDrop(new, now, ok) ==
    LET window == WindowOf(history, new) IN
    /\ accum' = <<>>
    /\ history' = LastOf(window, Min({Len(window), Length + Keep}))
    /\ IF ok
       THEN /\ out' = [window |-> window, start |-> now - Len(window),
                       counter |-> out.counter + 1]
            /\ heard' = heard \cup ToSet(window)
       ELSE UNCHANGED <<out, heard>>

\* stelnettts_stream_run_decode() on what is buffered once the stream is
\* `now` samples long.  A decode that fails leaves everything as it was.
RunDecode(new, now, ok) ==
    LET window == WindowOf(history, new) IN
    IF ok
    THEN /\ out' = [window |-> window, start |-> now - Len(window),
                    counter |-> out.counter + 1]
         /\ history' = LastOf(window, Min({Len(window), Length + Keep}))
         /\ accum' = <<>>
         /\ heard' = heard \cup ToSet(window)
    ELSE accum' = new /\ UNCHANGED <<out, history, heard>>

\* A binary frame of n samples; the client is told only of new text.
Feed(n, ok) ==
    LET now == fed + n
        new == accum \o [i \in 1 .. n |-> fed + i]
    IN
    /\ now <= MaxFed
    /\ fed' = now
    /\ IF Len(new) < Step
       THEN accum' = new /\ UNCHANGED <<history, out, sent, heard>>
       ELSE /\ RunDecode(new, now, ok)
            /\ sent' = IF ok THEN [out |-> out', kind |-> "partial"] ELSE sent

\* What stelnettts_stream_flush() returns, given whether its decode succeeds.
FlushCode(ok) == IF accum = <<>> THEN "nothing" ELSE IF ok THEN "decoded" ELSE "failed"

\* Mutant: the flush decodes only what would have been decoded anyway.
FlushFullSteps(ok) ==
    /\ IF Len(accum) < Step THEN UNCHANGED <<accum, out, history, heard>>
       ELSE RunDecode(accum, fed, ok)
    /\ sent' = [out |-> out', kind |-> FlushCode(ok)]
    /\ UNCHANGED fed

\* "flush": the output held goes out as final, whatever the flush returned.
Flush(ok) ==
    /\ IF accum = <<>> THEN UNCHANGED <<accum, out, history, heard>>
       ELSE RunDecode(accum, fed, ok)
    /\ sent' = [out |-> out', kind |-> FlushCode(ok)]
    /\ UNCHANGED fed

StreamNext ==
    \E ok \in BOOLEAN : Flush(ok) \/ \E n \in 1 .. MaxPiece : Feed(n, ok)

\* The specification.
StreamSpec == StreamInit /\ [][StreamNext]_streamVars

----------------------------------------------------------------------------
\* Times are true: the window behind every message is the unbroken stretch of
\* the stream that starts where the message says, through any mix of piece
\* sizes, failed decodes and flushes.
TimesAreTrue ==
    \A o \in {out, sent.out} : \A i \in DOMAIN o.window : o.window[i] = o.start + i

\* Nothing is skipped: every sample fed has been decoded in some window or
\* waits for the next decode.  A failed decode may be retried but loses
\* nothing.  Decoded is what the recogniser was given and returned 0 for.
NothingUnheard == heard \cup ToSet(accum) = 1 .. fed

\* A final message has heard the stream to its end, unless the decode that
\* the flush asked for failed: then the samples still wait, and the message
\* repeats the text of the last decode that did not.
FinalReachesEnd ==
    [][sent' # sent /\ sent'.kind \in {"nothing", "decoded"}
         => sent'.out.start + Len(sent'.out.window) = fed']_streamVars
=============================================================================
