---------------------------- MODULE MediaProcess ----------------------------
(***************************************************************************)
(* The ffmpeg, ffprobe and ffplay children of command-line processes: how  *)
(* they are run, timed out, cancelled and reaped (_process.py,             *)
(* media_stream.py, audio_talk.py), and the recordings they write.         *)
(*                                                                         *)
(* A child is external: it may exit at any time, well or badly, ignore     *)
(* SIGTERM, and leave a partial or an empty file.  ffmpeg -n creates its   *)
(* output only if it is absent, as it promises; -y replaces it.  A child   *)
(* that exited is reaped when the event loop notices, which sets its       *)
(* returncode.  Each process runs one operation.                           *)
(***************************************************************************)
EXTENDS CliProcesses

CONSTANT
  Clips        (* where processes write recordings and snapshots           *)

VARIABLES
  clip,        (* what each path holds: whose, and how much                *)
  media,       (* the operation of each process                            *)
  child        (* its child                                                *)

mediaVars == <<clip, media, child>>

(* The operations with an output file; and those that may run without an    *)
(* end: play_rtsp without a duration, and the frames of talk audio.         *)
Writing == {"record", "snapshot", "decode"}
Endless == {"play", "talk"}
Kinds   == Writing \cup Endless \cup {"probe", "playFor"}

NoClip   == [by |-> "nobody", data |-> "none"]
UserClip == [by |-> "user", data |-> "whole"]
Exists(path) == clip[path].data # "none"

MediaInit ==
  /\ clip \in [Clips -> {NoClip, UserClip}]
  /\ \E path \in Clips :
       media = [p \in Processes |->
         [pc |-> "idle", kind |-> "probe", path |-> path, overwrite |-> FALSE,
          error |-> "none", cancelled |-> FALSE]]
  /\ child = [p \in Processes |-> [state |-> "none", ok |-> FALSE, wrote |-> FALSE]]

AtPc(p, pc) == media[p].pc = pc

Go(p, pc) == media' = [media EXCEPT ![p].pc = pc]

(* The caller gets its result (error "none") or an exception.               *)
EndMedia(p, error) ==
  media' = [media EXCEPT ![p] = [@ EXCEPT !.pc = "ended", !.error = error]]

StopFor(p, error) ==
  media' = [media EXCEPT ![p] = [@ EXCEPT !.pc = "stop", !.error = error]]

-----------------------------------------------------------------------------
(* prepare_media_output, before the camera is asked for its stream ...      *)
Refused(p) ==
  media[p].kind \in Writing /\ ~media[p].overwrite /\ Exists(media[p].path)

BeginMedia(p, kind, path, overwrite) ==
  /\ AtPc(p, "idle")
  /\ media' = [media EXCEPT ![p] = [@ EXCEPT !.pc = "stream", !.kind = kind,
                                            !.path = path, !.overwrite = overwrite]]
  /\ UNCHANGED <<clip, child>>

CheckOutput(p) ==
  /\ AtPc(p, "stream")
  /\ IF Refused(p) THEN EndMedia(p, "exists") ELSE Go(p, "camera")
  /\ UNCHANGED <<clip, child>>

(* ... and again after it, by the operation itself.                         *)
StreamFound(p) ==
  /\ AtPc(p, "camera")
  /\ \/ EndMedia(p, "camera")
     \/ IF Refused(p) THEN EndMedia(p, "exists") ELSE Go(p, "start")
  /\ UNCHANGED <<clip, child>>

(* start_media_process: there may be no such tool.                          *)
StartChild(p) ==
  /\ AtPc(p, "start")
  /\ \/ EndMedia(p, "unavailable") /\ child' = child
     \/ /\ Go(p, IF media[p].kind = "talk" THEN "frames" ELSE "wait")
        /\ child' = [child EXCEPT ![p].state = "running"]
  /\ clip' = clip

-----------------------------------------------------------------------------
(* The child.                                                               *)
Running(p) == child[p].state = "running"

(* Mutant of KeepsExisting: the command line always says -y.                *)
NeverKeeps(p) == FALSE

(* -n or -y on its command line.                                            *)
KeepsExisting(p) == ~media[p].overwrite

OpenOutput(p) ==
  /\ Running(p) /\ media[p].kind \in Writing /\ ~child[p].wrote
  /\ IF KeepsExisting(p) /\ Exists(media[p].path)
     THEN /\ child' = [child EXCEPT ![p].state = "dead"]
          /\ clip' = clip
     ELSE /\ child' = [child EXCEPT ![p].wrote = TRUE]
          /\ clip' = [clip EXCEPT ![media[p].path] = [by |-> p, data |-> "empty"]]
  /\ media' = media

WriteOutput(p) ==
  /\ Running(p) /\ child[p].wrote
  /\ clip[media[p].path] = [by |-> p, data |-> "empty"]
  /\ clip' = [clip EXCEPT ![media[p].path].data = "partial"]
  /\ UNCHANGED <<media, child>>

ChildExits(p) ==
  /\ Running(p)
  /\ \E ok \in BOOLEAN :
       /\ ok /\ media[p].kind \in Writing => child[p].wrote
       /\ child' = [child EXCEPT ![p] = [@ EXCEPT !.state = "dead", !.ok = ok]]
       /\ clip' = IF ok /\ clip[media[p].path] = [by |-> p, data |-> "partial"]
                  THEN [clip EXCEPT ![media[p].path].data = "whole"] ELSE clip
  /\ media' = media

Reap(p) ==
  /\ child[p].state = "dead"
  /\ child' = [child EXCEPT ![p].state = "reaped"]
  /\ UNCHANGED <<clip, media>>

Reaped(p) == child[p].state = "reaped"

-----------------------------------------------------------------------------
(* communicate() returned: an output must not be empty, a probe must be     *)
(* well-formed.                                                             *)
Communicated(p) ==
  /\ AtPc(p, "wait") /\ Reaped(p)
  /\ \/ ~child[p].ok /\ EndMedia(p, "failed")
     \/ /\ child[p].ok
        /\ IF media[p].kind \in Writing
           THEN EndMedia(p, IF clip[media[p].path].data \in {"none", "empty"}
                            THEN "empty" ELSE "none")
           ELSE \/ EndMedia(p, "none")
                \/ media[p].kind = "probe" /\ EndMedia(p, "malformed")
  /\ UNCHANGED <<clip, child>>

TimedOut(p) ==
  /\ AtPc(p, "wait") /\ media[p].kind \notin Endless
  /\ StopFor(p, "timeout")
  /\ UNCHANGED <<clip, child>>

(* The frames of talk audio end with the child's output; their consumer may *)
(* close the generator before.                                              *)
FramesEnd(p) ==
  /\ AtPc(p, "frames") /\ child[p].state \in {"dead", "reaped"}
  /\ Go(p, "wait")
  /\ UNCHANGED <<clip, child>>

FramesClosed(p) ==
  /\ AtPc(p, "frames")
  /\ StopFor(p, "closed")
  /\ UNCHANGED <<clip, child>>

(* stop_process: nothing to do for a child that was reaped; its cleanup     *)
(* asks the others to terminate.                                            *)
Terminate(p) ==
  /\ AtPc(p, "stop")
  /\ IF Reaped(p) THEN EndMedia(p, media[p].error) ELSE Go(p, "terminated")
  /\ UNCHANGED <<clip, child>>

(* Mutant of Kill: the child is asked again.                                *)
AskAgain(p) ==
  /\ AtPc(p, "terminated") /\ ~Reaped(p)
  /\ Go(p, "killed")
  /\ UNCHANGED <<clip, child>>

(* Two seconds have passed.                                                 *)
Kill(p) ==
  /\ AtPc(p, "terminated") /\ ~Reaped(p)
  /\ Go(p, "killed")
  /\ child' = [child EXCEPT ![p].state = "dead"]
  /\ clip' = clip

(* The cleanup is over; a cancellation it withstood comes before the error. *)
Stopped(p) ==
  /\ media[p].pc \in {"terminated", "killed"} /\ Reaped(p)
  /\ EndMedia(p, IF media[p].cancelled THEN "cancelled" ELSE media[p].error)
  /\ UNCHANGED <<clip, child>>

-----------------------------------------------------------------------------
(* A cancellation.  While the child is being created asyncio reaps it.      *)
CancelBefore(p) ==
  /\ media[p].pc \in {"camera", "start"}
  /\ EndMedia(p, "cancelled")
  /\ UNCHANGED <<clip, child>>

CancelWait(p) ==
  /\ media[p].pc \in {"wait", "frames"}
  /\ StopFor(p, "cancelled")
  /\ UNCHANGED <<clip, child>>

(* Mutant of CancelStop: the caller is let go, the cleanup is not awaited.  *)
LeaveCleanup(p) ==
  /\ media[p].pc \in {"terminated", "killed"}
  /\ EndMedia(p, "cancelled")
  /\ UNCHANGED <<clip, child>>

(* stop_process goes on, however often it is cancelled.                     *)
CancelStop(p) ==
  /\ media[p].pc \in {"terminated", "killed"}
  /\ media' = [media EXCEPT ![p].cancelled = TRUE]
  /\ UNCHANGED <<clip, child>>

CancelMedia(p) == CancelBefore(p) \/ CancelWait(p) \/ CancelStop(p)

ChildStep(p) == OpenOutput(p) \/ WriteOutput(p) \/ ChildExits(p)

MediaStep(p) ==
  \/ CheckOutput(p) \/ StreamFound(p) \/ StartChild(p) \/ Reap(p) \/ Communicated(p)
  \/ TimedOut(p) \/ FramesEnd(p) \/ Terminate(p) \/ Kill(p) \/ Stopped(p)

(* The process is killed; its child may go on.                              *)
Dead(m) == [m EXCEPT !.pc = "dead", !.error = "none", !.cancelled = FALSE]

MediaDies(p) ==
  /\ media' = [media EXCEPT ![p] = Dead(@)]
  /\ UNCHANGED <<clip, child>>

MediaPowerLoss ==
  /\ media' = [p \in Processes |->
                 IF media[p].pc \in {"idle", "ended"} THEN media[p]
                 ELSE Dead(media[p])]
  /\ child' = [p \in Processes |-> [child[p] EXCEPT !.state = "none"]]
  /\ clip' = clip

MediaNext ==
  \/ \E p \in Processes :
       \/ \E kind \in Kinds, path \in Clips, overwrite \in BOOLEAN :
            BeginMedia(p, kind, path, overwrite)
       \/ MediaStep(p) \/ ChildStep(p) \/ FramesClosed(p) \/ CancelMedia(p)
       \/ MediaDies(p)
  \/ MediaPowerLoss

MediaSpec == MediaInit /\ [][MediaNext]_mediaVars
-----------------------------------------------------------------------------
(***************************************************************************)
(* Properties.                                                             *)
(***************************************************************************)
(* The variables have their types; a child runs only for an operation.      *)
MediaTypeOK ==
  /\ clip \in [Clips -> [by : Processes \cup {"nobody", "user"},
                         data : {"none", "empty", "partial", "whole"}]]
  /\ media \in [Processes ->
       [pc : {"idle", "stream", "camera", "start", "wait", "frames", "stop",
              "terminated", "killed", "ended", "dead"},
        kind : Kinds, path : Clips, overwrite : BOOLEAN,
        error : {"none", "exists", "camera", "unavailable", "failed", "empty",
                 "malformed", "timeout", "closed", "cancelled"},
        cancelled : BOOLEAN]]
  /\ child \in [Processes -> [state : {"none", "running", "dead", "reaped"},
                              ok : BOOLEAN, wrote : BOOLEAN]]

(* Whoever is told how an operation ended has no child left, although the   *)
(* child ignored SIGTERM and the cleanup was cancelled again and again; and *)
(* such a cancellation is not taken for the timeout or the failure that     *)
(* began the cleanup (_process.py 31-62).                                   *)
CleanupWithstandsCancellation ==
  \A p \in Processes : AtPc(p, "ended") =>
    /\ child[p].state \in {"none", "reaped"}
    /\ media[p].cancelled => media[p].error = "cancelled"

(* Without overwrite no operation touches a recording that is there: not    *)
(* one that another process began after the check (media_stream.py 255,     *)
(* 296, 422, 505).                                                          *)
ClipsAreNotClobbered ==
  [][\A path \in Clips : clip'[path] # clip[path] /\ Exists(path) =>
       \/ clip'[path].by = clip[path].by
       \/ \E p \in Processes : clip'[path].by = p /\ media[p].overwrite]_mediaVars
=============================================================================
