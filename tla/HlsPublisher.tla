---------------------------- MODULE HlsPublisher ----------------------------
(***************************************************************************)
(* The HLS output (src/glasscoder/hlsconnector.cpp): encoded audio is cut  *)
(* into segments of at most SegFrames frames; at each cut the finished     *)
(* segment and a new playlist go to the conveyor, and the segments that    *)
(* left the playlist are deleted one cut later.  Composed with the         *)
(* conveyor, so what listeners see at the publishing point is part of the  *)
(* state.                                                                  *)
(***************************************************************************)
EXTENDS NetConveyor, FiniteSets

CONSTANTS
  SegFrames,      \* HLS_SEGMENT_SIZE * audioSamplerate()
  MinSegments,    \* HLS_MINIMUM_SEGMENT_QUAN
  WriteSizes,     \* frame counts of the codec's writeData() calls
  MaxSeq          \* bound: number of the last segment that is cut

ASSUME HlsAssumption ==
  /\ SegFrames \in Nat \ {0} /\ MinSegments \in Nat \ {0}
  /\ WriteSizes \subseteq 1 .. SegFrames
  /\ MaxSeq \in Nat

VARIABLES
  seqHead,        \* hls_sequence_head
  seqBack,        \* hls_sequence_back
  killtimes,      \* hls_media_killtimes: segment -> frame count
  durations,      \* hls_media_durations: segment -> frames
  mediaFrames,    \* hls_media_frames
  totalFrames,    \* hls_total_media_frames
  toPush,         \* events the running handler has still to push
  stopping        \* stop() was called

hlsVars == <<seqHead, seqBack, killtimes, durations, mediaFrames, totalFrames>>
vars    == <<conveyorVars, hlsVars, toPush, stopping>>

Init ==
  /\ ConveyorInit
  /\ seqHead = 0 /\ seqBack = 0
  /\ killtimes = [n \in {} |-> 0] /\ durations = [n \in {} |-> 0]
  /\ mediaFrames = 0
  /\ totalFrames = SegFrames
  /\ toPush = <<>>
  /\ stopping = FALSE

-----------------------------------------------------------------------------
(* RotateMediaFile().                                                      *)

\* (EagerTrash and ListFirst are what a mistake would make of the operators
\* that follow them.)
\* Head of the playlist after the cut of segment seqBack.
HeadAfterCut == IF seqBack - seqHead >= MinSegments THEN seqHead + 1 ELSE seqHead

KilltimesAfterCut ==
  [n \in DOMAIN killtimes \cup (seqHead .. HeadAfterCut - 1) |->
     IF n \in DOMAIN killtimes THEN killtimes[n] ELSE totalFrames]

\* The segments whose time to be deleted has come: those that left the
\* playlist at an earlier cut.
EagerTrash == DOMAIN KilltimesAfterCut
Trash == IF NoDeletes THEN {}
         ELSE {n \in DOMAIN KilltimesAfterCut : KilltimesAfterCut[n] < totalFrames}

\* The numbers of a set in increasing order.
Ascending(S) ==
  [i \in 1 .. Cardinality(S) |->
     CHOOSE n \in S : Cardinality({m \in S : m < n}) = i - 1]

ListFirst(list, media, deletes)  == <<list, media>> \o deletes
CutOrder(list, media, deletes)   == <<media, list>> \o deletes

CutEvents ==
  CutOrder(Event("PUT", Playlist, HeadAfterCut .. seqBack),
           Event("PUT", seqBack, {}),
           [i \in 1 .. Cardinality(Trash) |->
              Event("DELETE", Ascending(Trash)[i], {})])

\* A write of so many frames starts a new segment.
IsCut(frames) == mediaFrames + frames > SegFrames

RotateMediaFile ==
  /\ seqHead' = HeadAfterCut
  /\ killtimes' = [n \in DOMAIN KilltimesAfterCut \ Trash |-> KilltimesAfterCut[n]]
  /\ durations' = [n \in (DOMAIN durations \cup {seqBack}) \ Trash |->
                     IF n = seqBack THEN mediaFrames ELSE durations[n]]
  /\ toPush' = CutEvents
  /\ seqBack' = seqBack + 1

\* writeDataConnector(): after stop() the audio goes on until glasscoder
\* ends, and so do the cuts.
WriteData(frames) ==
  /\ coder = "running" /\ toPush = <<>>
  /\ IF IsCut(frames)
       THEN seqBack <= MaxSeq /\ RotateMediaFile /\ mediaFrames' = frames
       ELSE /\ mediaFrames' = mediaFrames + frames
            /\ UNCHANGED <<seqHead, seqBack, killtimes, durations, toPush>>
  /\ totalFrames' = totalFrames + frames
  /\ UNCHANGED <<conveyorVars, stopping>>

\* One push of the running handler.
PushNext ==
  /\ coder = "running" /\ toPush # <<>>
  /\ Push(Head(toPush))
  /\ toPush' = Tail(toPush)
  /\ UNCHANGED <<spoolExists, proc, left, pub, coder, crashes, faults, applied,
                 hlsVars, stopping>>

Stop ==
  /\ coder = "running" /\ toPush = <<>> /\ ~stopping
  /\ stopping' = TRUE
  /\ toPush' = StopEvents
  /\ UNCHANGED <<conveyorVars, hlsVars>>

ConveyorStep == Conveyor /\ UNCHANGED <<hlsVars, toPush, stopping>>
ConveyorCrash == Crash /\ UNCHANGED <<hlsVars, toPush, stopping>>

Next ==
  \/ \E frames \in WriteSizes : WriteData(frames)
  \/ PushNext \/ Stop
  \/ ConveyorStep \/ ConveyorCrash

Spec == Init /\ [][Next]_vars

\* glasscoder's event loop and the scan timer of glassconv keep running; how
\* much audio there is, when the stream is stopped and what crashes is open.
FairSpec == Spec /\ WF_vars(PushNext) /\ WF_vars(ConveyorStep)

-----------------------------------------------------------------------------
(* Properties.                                                             *)

Segment == 0 .. MaxSeq + 1
Name    == Segment \cup {Playlist}
EventType ==
  [op : {"PUT", "DELETE", "STOP"}, name : Name, content : SUBSET Segment]

TypeOK ==
  /\ spool \in Seq(EventType) /\ toPush \in Seq(EventType) /\ log \in Seq(EventType)
  /\ putted \in Seq(Name)
  /\ spoolExists \in BOOLEAN /\ stopping \in BOOLEAN
  /\ proc \in ProcStates /\ coder \in {"running", "stopped", "failed"}
  /\ left \in 0 .. Len(spool)
  /\ proc \in {"transfer", "unlink"} => left > 0
  /\ DOMAIN pub \subseteq Name /\ \A n \in DOMAIN pub : pub[n] \subseteq Segment
  /\ seqHead \in Segment /\ seqBack \in Segment
  /\ DOMAIN killtimes \subseteq Segment /\ DOMAIN durations \subseteq Segment
  /\ mediaFrames \in Nat /\ totalFrames \in Nat
  /\ crashes \in 0 .. MaxCrashes /\ faults \in 0 .. MaxFaults

Listed == IF Playlist \in DOMAIN pub THEN pub[Playlist] ELSE {}

\* Entries of the log that were given up after a failed transfer.
GivenUp == {i \in 1 .. Current - 1 : i \notin applied}
PutFailed(n) == \E i \in GivenUp : log[i].op = "PUT" /\ log[i].name = n
DeleteFailed(n) == \E i \in GivenUp : log[i].op = "DELETE" /\ log[i].name = n

(***************************************************************************)
(* The publishing point is what the pushed events make of it one after the *)
(* other in the order of the pushes, whatever crashed in between: an event *)
(* done twice counts once, and none overtakes another.                     *)
(***************************************************************************)
PublishedInOrder ==
  LET after[n \in 0 .. Len(log)] ==
        IF n = 0 THEN [m \in {} |-> {}]
        ELSE IF n \in applied THEN Effect(after[n - 1], log[n])
        ELSE after[n - 1]
  IN  /\ pub = after[Len(log)]
      /\ \A i \in applied : i <= Current

(***************************************************************************)
(* A listener who follows the published playlist finds every segment it    *)
(* lists, except one whose own upload failed, or while an upload of a      *)
(* newer playlist failed, or once the stream is being taken down.          *)
(***************************************************************************)
PlaylistResolves ==
  \A k \in Listed :
    k \in DOMAIN pub \/ PutFailed(k) \/ PutFailed(Playlist) \/ stopping

(***************************************************************************)
(* A listener who still holds the playlist published before the present    *)
(* one finds its segments too: a segment is deleted only when it has been  *)
(* out of the playlist for a whole cut.                                    *)
(***************************************************************************)
KeepsOneGeneration ==
  [][\A k \in DOMAIN pub \ ({Playlist} \cup DOMAIN pub') :
       stopping \/ PutFailed(Playlist) \/ \A j \in Listed : j >= k + 2]_vars

(***************************************************************************)
(* When glasscoder has ended normally nothing of the stream is left at the *)
(* publishing point but what it refused to delete: audio that was cut      *)
(* after stop(), crashes and restarts included.                            *)
(***************************************************************************)
TakenDown ==
  (coder = "stopped" /\ ~NoDeletes) => \A n \in DOMAIN pub : DeleteFailed(n)

\* A crash after the STOP entry was unlinked: nothing tells the next
\* glassconv to end.
StopLost ==
  /\ stopping /\ toPush = <<>>
  /\ \A i \in DOMAIN spool : spool[i].op # "STOP"
  /\ proc \notin {"cleanup", "rmdir", "exiting", "exited"}

(***************************************************************************)
(* stop() ends the program, unless the STOP entry was lost.                *)
(***************************************************************************)
StopCompletes == stopping ~> (coder # "running" \/ StopLost)

\* The upload of segment k is among the first n events of the log.
PutWithin(k, n) == \E i \in 1 .. n : log[i].op = "PUT" /\ log[i].name = k

(***************************************************************************)
(* The upload of every segment is tried, however often glassconv crashes,  *)
(* unless the program ends before.                                         *)
(***************************************************************************)
EverySegmentTreated ==
  \A k \in 0 .. MaxSeq :
    PutWithin(k, Len(log)) ~> (PutWithin(k, Current - 1) \/ coder # "running")

=============================================================================
