---------------------------- MODULE MCRecognition ----------------------------
(***************************************************************************)
(* Instances of the four sequential modules of speech recognition.  They   *)
(* share no state and never interact: a behaviour is a behaviour of one of *)
(* them, chosen at the start, and the others rest.                         *)
(***************************************************************************)
EXTENDS WhisperBeam, WhisperFull, StreamSession, RealtimeSession

VARIABLE part

recVars == <<beamVars, fullVars, streamVars, rtVars, part>>

MCCalls == {[dec |-> 1, prompt |-> 1, steps |-> 3], [dec |-> 2, prompt |-> 2, steps |-> 4],
            [dec |-> 3, prompt |-> 1, steps |-> 2]}
MCShapes == {[first |-> 1, later |-> 2, temps |-> 2, cold |-> 1],
             [first |-> 2, later |-> 1, temps |-> 2, cold |-> 1],
             [first |-> 1, later |-> 1, temps |-> 0, cold |-> 0]}

RecInit ==
    /\ part \in {"beam", "full", "stream", "realtime"}
    /\ BeamInit /\ FullInit /\ StreamInit /\ RtInit
    /\ part # "beam" => call = CHOOSE c \in Calls : TRUE

BeamPart == part = "beam" /\ BeamNext
            /\ UNCHANGED <<fullVars, streamVars, rtVars, part>>
FullPart == part = "full" /\ FullNext
            /\ UNCHANGED <<beamVars, streamVars, rtVars, part>>
FullPartStep == part = "full" /\ FullStep
                /\ UNCHANGED <<beamVars, streamVars, rtVars, part>>
StreamPart == part = "stream" /\ StreamNext
              /\ UNCHANGED <<beamVars, fullVars, rtVars, part>>
RtPart == part = "realtime" /\ RtNext
          /\ UNCHANGED <<beamVars, fullVars, streamVars, part>>

RecNext == BeamPart \/ FullPart \/ StreamPart \/ RtPart

\* A transcription call, once begun, goes on.
RecSpec == RecInit /\ [][RecNext]_recVars /\ WF_recVars(FullPartStep)
=============================================================================
