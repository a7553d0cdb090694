----------------------------- MODULE MCPipeline -----------------------------
(* The two ends of a recording's video, one per behaviour: the pump that    *)
(* takes frames from the compositor and the clock it puts them on, and what *)
(* reaches the disk, a full session's segments or the file saved beside a   *)
(* replay buffer.                                                           *)
EXTENDS CapturePump, SessionFiles, SessionSink
EarlierSets == {{}, {0, 1}}
AskedWindows == {[pre |-> 1, post |-> 0], [pre |-> 3, post |-> 3]}
VARIABLE kind

pipelineVars == <<kind, captureVars, clockVars, filesVars, sinkVars>>
PartsInit ==
    /\ FilesInit /\ SinkInit /\ ClockInit
    /\ kind # "segments" => disk = <<>>
    /\ \E delivers \in BOOLEAN : CaptureInit(delivers) /\ (kind # "pump" => delivers)
MCInit == kind \in {"pump", "clock", "segments", "part"} /\ PartsInit
MCNext ==
    \/ kind = "pump" /\ CaptureNext /\ UNCHANGED <<kind, clockVars, filesVars, sinkVars>>
    \/ kind = "clock" /\ ClockNext /\ UNCHANGED <<kind, captureVars, filesVars, sinkVars>>
    \/ kind = "segments" /\ FilesNext /\ UNCHANGED <<kind, captureVars, clockVars, sinkVars>>
    \/ kind = "part" /\ SinkNext /\ UNCHANGED <<kind, captureVars, clockVars, filesVars>>
MCSpec == MCInit /\ [][MCNext]_pipelineVars

(* Taking frames costs no time and the frames keep theirs, on the pump's    *)
(* side and on the clock's.                                                 *)
CaptureKeepsTime == CaptureIsNotStarved /\ PaceIsKept /\ TimelineKeepsItsRate

(* Footage is never lost sight of: what the ledger lists is on the disk, the *)
(* clips and the session's file are cut from it, and what is saved beside a *)
(* replay buffer is whole to its end.                                       *)
FootageIsAccountedFor ==
    LedgerIsTrue /\ ClipsComeOut /\ SessionFileIsTheRecording /\ SavedSessionIsAPrefix
=============================================================================
