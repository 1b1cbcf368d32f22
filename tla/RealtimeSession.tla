--------------------------- MODULE RealtimeSession ---------------------------
(***************************************************************************)
(* examples/server/realtime_server.cpp, rt_session: one client of the      *)
(* realtime API.  Audio is appended in pieces; at every half second of     *)
(* buffer the whole buffer is transcribed again and what is new is sent as *)
(* a delta; a commit sends the transcript and starts the next utterance.   *)
(*                                                                         *)
(* Sizes are in units in which Half divides the limit.  A transcript is a  *)
(* sequence of words; which one a pass over the buffer yields is open, and *)
(* the call may throw, which the frame loop swallows.                      *)
(***************************************************************************)
EXTENDS Naturals, Sequences, SequencesExt

CONSTANTS
    Words,
    Half,       \* 8000 samples
    Limit,      \* 30 s of samples
    MaxAppend,  \* bound: samples of one append
    MaxWords,   \* bound: length of a transcript
    MaxDeltas   \* bound: deltas of one utterance

ASSUME RealtimeAssumption ==
    /\ {Half, Limit} \subseteq Nat \ {0}
    /\ {MaxAppend, MaxWords} \subseteq Nat

VARIABLES
    buffer,     \* audio_buffer: its size
    textSent,   \* text_sent
    deltas,     \* history: the deltas sent since the last completed event
    completed,  \* the last completed event, with the deltas before it
    threw       \* history: the last event ended in an exception

rtVars == <<buffer, textSent, deltas, completed, threw>>

RtInit ==
    /\ buffer = 0
    /\ textSent = <<>> /\ deltas = <<>>
    /\ completed = [transcript |-> <<>>, deltas |-> <<>>]
    /\ threw = FALSE

----------------------------------------------------------------------------
\* Mutant: what is longer than the text sent is taken to extend it.
LongerTail(text) ==
    IF Len(text) > Len(textSent) THEN SubSeq(text, Len(textSent) + 1, Len(text)) ELSE text

\* What is sent of a new transcript: its new end if it extends what was
\* sent, otherwise all of it.
Diff(text) ==
    IF IsStrictPrefix(textSent, text)
    THEN SubSeq(text, Len(textSent) + 1, Len(text))
    ELSE text

\* process_audio() on a buffer of n samples that transcribes to `text`: the
\* text it leaves in text_sent and the deltas sent by then.  Without a buffer
\* or a text it sends nothing and keeps what it had.
Processed(n, text) ==
    IF n = 0 \/ Diff(text) = <<>>
    THEN [text |-> textSent, deltas |-> deltas]
    ELSE [text |-> text, deltas |-> Append(deltas, Diff(text))]

ProcessAudio(n, text) ==
    /\ buffer' = n
    /\ textSent' = Processed(n, text).text
    /\ deltas' = Processed(n, text).deltas
    /\ UNCHANGED completed

\* Mutant: the text is not cleared for the next utterance.
CommitKeepsText(n, text) ==
    LET p == Processed(n, text) IN
    /\ completed' = [transcript |-> p.text, deltas |-> p.deltas]
    /\ buffer' = 0
    /\ deltas' = <<>>
    /\ textSent' = p.text

\* handle_commit(): the completed event, and an empty start for the next
\* utterance.
HandleCommit(n, text) ==
    LET p == Processed(n, text) IN
    /\ completed' = [transcript |-> p.text, deltas |-> p.deltas]
    /\ buffer' = 0
    /\ textSent' = <<>> /\ deltas' = <<>>

\* An exception from the backend leaves all but the buffer as it was.
Throws(n) ==
    /\ buffer' = n
    /\ threw' = TRUE
    /\ UNCHANGED <<textSent, deltas, completed>>

\* input_audio_buffer.append with n samples: past the limit a commit, at
\* every half second a pass over the buffer.
AppendAudio(n, text) ==
    LET size == buffer + n
        full == size > Limit
        passes == ~full /\ size % Half < n
    IN
    \/ full /\ HandleCommit(size, text) /\ threw' = FALSE
    \/ passes /\ ProcessAudio(size, text) /\ threw' = FALSE
    \/ (full \/ passes) /\ Throws(size)
    \/ /\ ~full /\ ~passes
       /\ buffer' = size
       /\ threw' = FALSE
       /\ UNCHANGED <<textSent, deltas, completed>>

\* input_audio_buffer.commit
Commit(text) ==
    \/ HandleCommit(buffer, text) /\ threw' = FALSE
    \/ buffer > 0 /\ Throws(buffer)

RtNext ==
    /\ Len(deltas) < MaxDeltas /\ buffer <= Limit + MaxAppend
    /\ \E text \in BoundedSeq(Words, MaxWords) :
          Commit(text) \/ \E n \in 0 .. MaxAppend : AppendAudio(n, text)

\* The specification.
RtSpec == RtInit /\ [][RtNext]_rtVars

----------------------------------------------------------------------------
\* Type invariant.
RtTypeOK ==
    /\ buffer \in Nat
    /\ textSent \in Seq(Words) /\ deltas \in Seq(Seq(Words))
    /\ completed \in [transcript : Seq(Words), deltas : Seq(Seq(Words))]
    /\ threw \in BOOLEAN

\* A client that concatenates the deltas of an utterance holds a text that
\* ends in the transcript so far, and in the completed one when it comes,
\* however passes extend, rewrite or repeat each other and whatever throws.
\* (It holds more than the transcript once a pass rewrote or repeated the
\* text: the delta is then the whole text again.)
DeltasEndInTranscript ==
    /\ IsSuffix(textSent, FlattenSeq(deltas))
    /\ IsSuffix(completed.transcript, FlattenSeq(completed.deltas))
=============================================================================
