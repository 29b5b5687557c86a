--------------------------- MODULE SessionService ---------------------------
(***************************************************************************)
(* What the command handlers promise for one session: every command takes  *)
(* effect on the stored session at one instant, its events are drained at  *)
(* that instant, and the frames of a generate command are what the         *)
(* document and the rules of the stream give at that instant.              *)
(***************************************************************************)
EXTENDS StreamSession

CONSTANTS
  Rules,         \* priority_rules maps, the empty one included
  Threshold,     \* priority thresholds a caller can ask for
  FrameLimit     \* max_frames values a caller can ask for

VARIABLES
  session,       \* the stored session, or NoSession
  now            \* wall clock

Stored == session # NoSession

ServiceInit ==
  /\ session = NoSession
  /\ now = 0

(* The stored session becomes result, its events drained. *)
Store(result) == session' = take_events(result)

ServiceCreate ==
  /\ ~Stored
  /\ Store(activate(NewSession(now)))

ServiceCreateStream(id, source, rules) ==
  /\ Stored
  /\ ~HasStream(session, id)
  /\ CanCreateStream(session, now)
  /\ Store(create_stream(session, id, source, rules))

ServiceUpdate ==
  /\ Stored
  /\ \/ \E id \in DOMAIN session.streams :
          \/ CanStartStream(session, id) /\ Store(start_stream(session, id))
          \/ CanCompleteStream(session, id) /\ Store(complete_stream(session, id))
     \/ CanClose(session) /\ Store(close(session))

ServiceGenerate(id, threshold, max_frames) ==
  /\ Stored
  /\ CanCommitForStream(session, id)
  /\ Store(commit_for_stream(session, id,
                             extract_for_stream(session, id, threshold), max_frames))

(* A batch visits some of the session's streams, one after the other; those *)
(* that are Streaming at that instant are served.  (A stream started after *)
(* the lock-free extraction is left for later.)                            *)
ServiceBatch(threshold, batch_size) ==
  /\ Stored
  /\ CanCommitPriorityFrames(session, now)
  /\ \E visited \in SUBSET DOMAIN session.streams :
       \E order \in SetToSeqs(visited) :
         LET extracted == [id \in visited |-> extract_for_stream(session, id, threshold)]
         IN  Store(commit_priority_frames(session, Candidates(session, extracted, order),
                                          batch_size))

ServiceNext ==
  \/ /\ \/ ServiceCreate
        \/ \E id \in StreamId, source \in Source, rules \in Rules :
             ServiceCreateStream(id, source, rules)
        \/ ServiceUpdate
        \/ \E id \in StreamId, t \in Threshold, n \in FrameLimit : ServiceGenerate(id, t, n)
        \/ \E t \in Threshold, n \in FrameLimit : ServiceBatch(t, n)
     /\ UNCHANGED now
  \/ now' = now + 1 /\ UNCHANGED session

ServiceSpec == ServiceInit /\ [][ServiceNext]_<<session, now>>

=============================================================================
