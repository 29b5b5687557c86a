--------------------------- MODULE FramePipelines ---------------------------
(***************************************************************************)
(* What the repository does to a document on its way to the client: the    *)
(* Stream entity of the domain, which the sessions use, the                *)
(* PriorityStreamer with its JsonReconstructor, which a client uses        *)
(* without a session, and the compression of frames.  They share no state, *)
(* so a behaviour follows one of them.                                     *)
(***************************************************************************)
EXTENDS PriorityStreaming, StreamCompression

CONSTANTS
  StreamId, EntityDocument, Rules, Threshold, FrameLimit, MaxFrames

VARIABLES
  pipeline,                             \* "entity", "streamer" or "compression"
  document, stream, emitted, request    \* of StreamEntity

Entity == INSTANCE StreamEntity WITH Document <- EntityDocument

entityVars == <<document, stream, emitted, request>>
vars == <<pipeline, entityVars, compressionVars, json, plan, client>>

Unused(other) ==
  /\ other # "entity" =>
       /\ document = <<>> /\ stream = Entity!NewStream(StreamId, <<>>, <<>>)
       /\ emitted = <<>> /\ request = Entity!NoRequest
  /\ other # "compression" =>
       strategy = <<>> /\ wire = <<>> /\ received = NoFrame

Init ==
  /\ pipeline \in {"entity", "streamer", "compression"}
  /\ StreamInit
  /\ Unused(pipeline)
  /\ pipeline = "entity" => Entity!Init
  /\ pipeline = "compression" => CompressionInit

Next ==
  /\ UNCHANGED pipeline
  /\ \/ /\ pipeline = "entity" /\ Entity!Next
        /\ UNCHANGED <<streamVars, compressionVars>>
     \/ /\ pipeline = "streamer" /\ StreamNext
        /\ UNCHANGED <<entityVars, compressionVars>>
     \/ /\ pipeline = "compression" /\ CompressionNext
        /\ UNCHANGED <<streamVars, entityVars>>

Spec == Init /\ [][Next]_vars

-----------------------------------------------------------------------------
(* StreamEntity's properties, of the entity pipeline. *)

(* Frames are numbered in order and every byte is counted once, whichever  *)
(* mixture of frame constructors of the Stream produced them.              *)
EmissionsAccounted == Entity!EmissionsAccounted

(* The frames of a call to create_patch_frames carry the stable sort of    *)
(* exactly the admitted leaves, by their rule or by the clamped sum of the *)
(* heuristic's adjustments, cut into no more frames than allowed.          *)
FramesCarryExtraction == Entity!FramesCarryExtraction

=============================================================================
