------------------------------ MODULE Livestream ------------------------------
(***************************************************************************)
(* send_talk_audio() and capture_pppp_snapshot() (camera.py): operations   *)
(* that start the camera's livestream, use it and stop it on the same      *)
(* session, with the video capture of that session (transport_aiopppp.py). *)
(*                                                                         *)
(* Each runs under the livestream lock and a lease of the session, while   *)
(* other tasks connect, close and send requests that may quarantine it.    *)
(* The stop and the disarm run as child tasks that a cancellation does not *)
(* reach (_await_cancellation_safe_cleanup): it is raised after them.      *)
(***************************************************************************)
EXTENDS Integers

CONSTANTS
  Tasks,       (* asyncio tasks that talk or take snapshots                 *)
  Nobody,      (* the owner of a free lock                                  *)
  MaxSession   (* bound: sessions opened                                    *)

ASSUME NobodyAssumption == Nobody \notin Tasks
ASSUME BoundAssumption  == MaxSession \in Nat \ {0}

Sessions == 1 .. MaxSession

VARIABLES
  connected,   (* transport.connected                                       *)
  session,     (* the number of the session opened last                     *)
  livestream,  (* the owner of _livestream_lock                             *)
  lifecycle,   (* the owner of the lease of the session                     *)
  capture,     (* per session, the video capture: "none", "armed" or how    *)
               (* its future was resolved, "frame" or "failed"              *)
  streaming,   (* camera: the sessions it sends a livestream to             *)
  refused,     (* history: sessions on which it answered a stop with an     *)
               (* error                                                     *)
  at           (* per task: where it awaits (pc), the operation (kind), the *)
               (* session of its lease (on), the error that will be raised  *)
               (* (error), the one of the cleanup (late), and whether it    *)
               (* was cancelled                                             *)

transport == <<connected, session>>
locks     == <<livestream, lifecycle>>
camera    == <<streaming, refused>>
vars      == <<transport, locks, capture, camera, at>>

Idle == [pc |-> "idle", kind |-> "talk", on |-> 0, error |-> "none", late |-> "none",
         cancelled |-> FALSE]

Init ==
  /\ connected = FALSE /\ session = 0
  /\ livestream = Nobody /\ lifecycle = Nobody
  /\ capture = [s \in Sessions |-> "none"]
  /\ streaming = {} /\ refused = {}
  /\ at = [t \in Tasks |-> Idle]

In(t, where)   == at[t].pc = where
Goto(t, where) == at' = [at EXCEPT ![t].pc = where]

(* _abort_video_capture() of a session that ends.                           *)
Aborted(s) == [capture EXCEPT ![s] = IF @ = "armed" THEN "failed" ELSE @]

-----------------------------------------------------------------------------
(* Other tasks and the network.                                             *)

Opens ==
  /\ ~connected /\ session < MaxSession
  /\ connected' = TRUE
  /\ session' = session + 1

(* connect() and close(), which wait for a lease to end.                    *)
OtherConnects ==
  /\ lifecycle = Nobody
  /\ Opens
  /\ UNCHANGED <<locks, capture, camera, at>>

(* The session ends, or a request of another task quarantines it.           *)
SessionEnds ==
  /\ connected
  /\ connected' = FALSE
  /\ capture' = Aborted(session)
  /\ UNCHANGED <<session, locks, camera, at>>

OtherCloses == lifecycle = Nobody /\ SessionEnds

(* handle_drw(): the stream resolves the future of an armed capture with a  *)
(* key unit or with the error of a malformed one.                           *)
VideoArrives ==
  /\ connected /\ session \in streaming
  /\ capture[session] = "armed"
  /\ \E how \in {"frame", "failed"} : capture' = [capture EXCEPT ![session] = how]
  /\ UNCHANGED <<transport, locks, camera, at>>

-----------------------------------------------------------------------------
Call(t, kind) ==
  /\ In(t, "idle")
  /\ at' = [at EXCEPT ![t] = [Idle EXCEPT !.pc = "livestream", !.kind = kind]]
  /\ UNCHANGED <<transport, locks, capture, camera>>

Locked(t) ==
  /\ In(t, "livestream") /\ livestream = Nobody
  /\ livestream' = t
  /\ Goto(t, IF connected THEN "lease" ELSE "connect")
  /\ UNCHANGED <<transport, lifecycle, capture, camera>>

Connect(t) ==
  /\ In(t, "connect") /\ lifecycle = Nobody
  /\ Opens \/ (connected /\ UNCHANGED transport)
  /\ Goto(t, "lease")
  /\ UNCHANGED <<locks, capture, camera>>

(* The operation ends: the error of its body, else that of its cleanup.     *)
Finish(t, error) ==
  /\ at' = [at EXCEPT ![t].pc = "idle", ![t].error = error]
  /\ livestream' = IF livestream = t THEN Nobody ELSE livestream
  /\ lifecycle' = IF lifecycle = t THEN Nobody ELSE lifecycle

ConnectFails(t) ==
  /\ In(t, "connect")
  /\ Finish(t, "error")
  /\ UNCHANGED <<transport, capture, camera>>

(* Mutant: the session is not leased.                                       *)
NoLease(t) ==
  /\ In(t, "lease")
  /\ connected
  /\ at' = [at EXCEPT ![t].pc = IF at[t].kind = "talk" THEN "source" ELSE "arm",
                      ![t].on = session]
  /\ UNCHANGED <<transport, locks, capture, camera>>

Lease(t) ==
  /\ In(t, "lease") /\ lifecycle = Nobody
  /\ \/ /\ connected
        /\ lifecycle' = t
        /\ at' = [at EXCEPT ![t].pc = IF at[t].kind = "talk" THEN "source" ELSE "arm",
                            ![t].on = session]
        /\ UNCHANGED livestream
     \/ ~connected /\ Finish(t, "error")
  /\ UNCHANGED <<transport, capture, camera>>

(* start_video_capture(): an active capture is left alone.                  *)
Arm(t) ==
  /\ In(t, "arm")
  /\ \/ /\ connected /\ capture[session] = "none"
        /\ capture' = [capture EXCEPT ![session] = "armed"]
        /\ Goto(t, "start")
        /\ UNCHANGED locks
     \/ /\ ~connected \/ capture[session] # "none"
        /\ Finish(t, "error")
        /\ UNCHANGED capture
  /\ UNCHANGED <<transport, camera>>

(* The first frame of the talk input, before anything is sent.              *)
FirstFrame(t) ==
  /\ In(t, "source")
  /\ Goto(t, "start")
  /\ UNCHANGED <<transport, locks, capture, camera>>

NoFirstFrame(t) ==
  /\ In(t, "source")
  /\ at' = [at EXCEPT ![t].pc = "drain", ![t].error = "error"]
  /\ UNCHANGED <<transport, locks, capture, camera>>

-----------------------------------------------------------------------------
(* Mutant: after an error of the body only the capture is disarmed.         *)
NoStopAfterError(t, error) ==
  at' = [at EXCEPT ![t].pc = IF at[t].kind = "talk" THEN "drain" ELSE "disarm",
                   ![t].error = error]

(* The body is over, well or badly: the stop is attempted in any case.      *)
CleanUp(t, error) == at' = [at EXCEPT ![t].pc = "stop", ![t].error = error]

(* A livestream command on the existing session: it reaches the camera or   *)
(* is lost, or there is no session to send it on.                           *)
SendStart(t) ==
  /\ In(t, "start")
  /\ \/ /\ connected
        /\ Goto(t, "starting")
        /\ streaming' \in {streaming, streaming \cup {session}}
     \/ ~connected /\ CleanUp(t, "error") /\ UNCHANGED streaming
  /\ UNCHANGED <<transport, locks, capture, refused>>

Started(t) ==
  /\ In(t, "starting") /\ at[t].on \in streaming
  /\ Goto(t, IF at[t].kind = "talk" THEN "talk" ELSE "video")
  /\ UNCHANGED <<transport, locks, capture, camera>>

StartRefused(t) ==
  /\ In(t, "starting")
  /\ CleanUp(t, "error")
  /\ UNCHANGED <<transport, locks, capture, camera>>

(* The session of an abandoned request is quarantined.                      *)
Quarantine(s) ==
  /\ connected' = (connected /\ session # s)
  /\ capture' = Aborted(s)
  /\ UNCHANGED session

StartFails(t) ==
  /\ In(t, "starting")
  /\ Quarantine(at[t].on)
  /\ CleanUp(t, "error")
  /\ UNCHANGED <<locks, camera>>

(* receive_video_keyframe(): what the future holds, a timeout, or a session *)
(* that is no longer current.                                               *)
Keyframe(t) ==
  /\ In(t, "video") /\ capture[at[t].on] = "frame"
  /\ connected /\ session = at[t].on
  /\ CleanUp(t, "none")
  /\ UNCHANGED <<transport, locks, capture, camera>>

NoKeyframe(t) ==
  /\ In(t, "video")
  /\ CleanUp(t, "error")
  /\ UNCHANGED <<transport, locks, capture, camera>>

(* send_channel_parts(): the next audio frame.                              *)
TalkFrame(t) ==
  /\ In(t, "talk") /\ connected
  /\ UNCHANGED vars

(* The duration passed or the input ended; or the input or a delivery       *)
(* failed.                                                                  *)
TalkEnds(t) ==
  /\ In(t, "talk")
  /\ \E error \in {"none", "error"} : CleanUp(t, error)
  /\ UNCHANGED <<transport, locks, capture, camera>>

-----------------------------------------------------------------------------
(* An error of the cleanup counts if nothing went wrong before.             *)
Late(t, error) == IF at[t].late = "none" THEN error ELSE at[t].late
AfterStop(t)   == IF at[t].kind = "talk" THEN "drain" ELSE "disarm"
Stopped(t, error) ==
  at' = [at EXCEPT ![t].pc = AfterStop(t), ![t].late = Late(t, error)]

(* Mutant: the stop reconnects, which waits for its own lease.              *)
StopConnects(t) ==
  /\ In(t, "stop")
  /\ connected
  /\ Goto(t, "stopping")
  /\ streaming' \in {streaming, streaming \ {session}}
  /\ UNCHANGED <<transport, locks, capture, refused>>

SendStop(t) ==
  /\ In(t, "stop")
  /\ \/ /\ connected
        /\ Goto(t, "stopping")
        /\ streaming' \in {streaming, streaming \ {session}}
     \/ ~connected /\ Stopped(t, "error") /\ UNCHANGED streaming
  /\ UNCHANGED <<transport, locks, capture, refused>>

StopAcked(t) ==
  /\ In(t, "stopping") /\ at[t].on \notin streaming
  /\ Stopped(t, "none")
  /\ UNCHANGED <<transport, locks, capture, camera>>

StopRefused(t) ==
  /\ In(t, "stopping") /\ at[t].on \in streaming
  /\ refused' = refused \cup {at[t].on}
  /\ Stopped(t, "error")
  /\ UNCHANGED <<transport, locks, capture, streaming>>

StopFails(t) ==
  /\ In(t, "stopping")
  /\ Quarantine(at[t].on)
  /\ Stopped(t, "error")
  /\ UNCHANGED <<locks, camera>>

(* What is raised in the end, if anything.                                  *)
Outcome(t) ==
  IF at[t].error # "none" THEN at[t].error
  ELSE IF at[t].late # "none" THEN at[t].late
  ELSE IF at[t].cancelled THEN "cancelled" ELSE "none"

(* stop_video_capture() of the session that is current now.                 *)
Disarm(t) ==
  /\ In(t, "disarm")
  /\ capture' = [capture EXCEPT ![session] = "none"]
  /\ Finish(t, Outcome(t))
  /\ UNCHANGED <<transport, camera>>

(* Mutant: a cancellation during the cleanup is forgotten.                  *)
DrainForgets(t) ==
  /\ In(t, "drain")
  /\ \E error \in {"none", "error"} :
       Finish(t, IF at[t].error # "none" THEN at[t].error ELSE Late(t, error))
  /\ UNCHANGED <<transport, capture, camera>>

(* The talk input is cancelled and closed, within a timeout.                *)
Drain(t) ==
  /\ In(t, "drain")
  /\ \E error \in {"none", "error"} :
       Finish(t, IF Outcome(t) = "none" THEN error ELSE Outcome(t))
  /\ UNCHANGED <<transport, capture, camera>>

-----------------------------------------------------------------------------
(* A cancellation ends the body where it awaits; before it has begun, the   *)
(* locks are given back and nothing else.                                   *)
CancelWaiting(t) ==
  /\ at[t].pc \in {"livestream", "connect", "lease", "arm"}
  /\ Finish(t, "cancelled")
  /\ UNCHANGED <<transport, capture, camera>>

CancelSource(t) ==
  /\ In(t, "source")
  /\ at' = [at EXCEPT ![t].pc = "drain", ![t].error = "cancelled",
                      ![t].cancelled = TRUE]
  /\ UNCHANGED <<transport, locks, capture, camera>>

(* A command in flight is abandoned with its session.                       *)
CancelBody(t) ==
  /\ at[t].pc \in {"start", "starting", "video", "talk"}
  /\ at' = [at EXCEPT ![t].pc = "stop", ![t].error = "cancelled",
                      ![t].cancelled = TRUE]
  /\ \/ In(t, "starting") /\ Quarantine(at[t].on)
     \/ ~In(t, "starting") /\ UNCHANGED <<transport, capture>>
  /\ UNCHANGED <<locks, camera>>

(* The cleanup goes on.                                                     *)
CancelCleanup(t) ==
  /\ at[t].pc \in {"stop", "stopping", "disarm", "drain"}
  /\ at' = [at EXCEPT ![t].cancelled = TRUE]
  /\ UNCHANGED <<transport, locks, capture, camera>>

Cancel(t) == CancelWaiting(t) \/ CancelSource(t) \/ CancelBody(t) \/ CancelCleanup(t)

Step(t) ==
  \/ Locked(t) \/ Connect(t) \/ ConnectFails(t) \/ Lease(t) \/ Arm(t)
  \/ FirstFrame(t) \/ NoFirstFrame(t) \/ SendStart(t) \/ Started(t)
  \/ StartRefused(t) \/ StartFails(t) \/ Keyframe(t) \/ NoKeyframe(t) \/ TalkEnds(t)
  \/ SendStop(t) \/ StopAcked(t) \/ StopRefused(t) \/ StopFails(t)
  \/ Disarm(t) \/ Drain(t)

Next ==
  \/ \E t \in Tasks :
       \/ \E kind \in {"talk", "snapshot"} : Call(t, kind)
       \/ Step(t) \/ TalkFrame(t) \/ Cancel(t)
  \/ OtherConnects \/ OtherCloses \/ SessionEnds \/ VideoArrives

Spec == Init /\ [][Next]_vars

(* Every await of an operation has a deadline, or waits for a lock that is  *)
(* handed over in order.                                                    *)
FairSpec == Spec /\ \A t \in Tasks : SF_vars(Step(t))
-----------------------------------------------------------------------------
(***************************************************************************)
(* Properties.                                                             *)
(***************************************************************************)
Errors == {"none", "error", "cancelled"}

(* The variables have their types, and an operation holds the livestream    *)
(* lock and the lease exactly while it is inside (959, 1049, 1272, 1287).   *)
TypeOK ==
  /\ \A t \in Tasks :
       /\ livestream = t <=> at[t].pc \notin {"idle", "livestream"}
       /\ lifecycle = t <=> at[t].pc \notin {"idle", "livestream", "connect", "lease"}
  /\ connected \in BOOLEAN
  /\ session \in 0 .. MaxSession
  /\ livestream \in Tasks \cup {Nobody}
  /\ lifecycle \in Tasks \cup {Nobody}
  /\ capture \in [Sessions -> {"none", "armed", "frame", "failed"}]
  /\ streaming \subseteq Sessions
  /\ refused \subseteq Sessions
  /\ at \in [Tasks ->
       [pc : {"idle", "livestream", "connect", "lease", "source", "arm", "start",
              "starting", "video", "talk", "stop", "stopping", "disarm", "drain"},
        kind : {"talk", "snapshot"}, on : 0 .. MaxSession, error : Errors,
        late : Errors, cancelled : BOOLEAN]]

(* No live session is left streaming: whichever way an operation ended, the *)
(* stop was acknowledged, or the camera refused it, or the session is gone  *)
(* (1174-1187, 1323-1335); nor with a capture that would keep the next      *)
(* snapshot from starting (1344-1348, 250-252).                             *)
NothingLeftBehind ==
  livestream = Nobody /\ connected =>
    /\ session \in streaming => session \in refused
    /\ capture[session] = "none"

(* The stop reaches the session of its start, or none: while the operation  *)
(* runs nobody replaces the session (1049, 1287).                           *)
StopFollowsStart ==
  [][\A t \in Tasks : In(t, "stop") /\ at'[t].pc = "stopping" => session = at[t].on]_vars

(* An operation that was cancelled, during its cleanup too, does not report *)
(* success (227-228, 1249, 1354).                                           *)
CancelledIsNotSuccess ==
  \A t \in Tasks : In(t, "idle") /\ at[t].cancelled => at[t].error # "none"

(* Every operation ends, also when the session ends before its stop: the    *)
(* stop does not wait for the lease its own operation holds (972).          *)
OperationEnds == \A t \in Tasks : at[t].pc # "idle" ~> at[t].pc = "idle"
=============================================================================
