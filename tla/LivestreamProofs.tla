--------------------------- MODULE LivestreamProofs ---------------------------
(***************************************************************************)
(* Proofs about Livestream, for any tasks and any number of sessions.      *)
(*                                                                         *)
(* The lease has one owner at a time and the session is not replaced while *)
(* it has one, so the session of a lease is the session that is current;   *)
(* what streams there, and what is armed there, is its owner's to end.     *)
(***************************************************************************)
EXTENDS Livestream, TLAPS

Leased  == {"source", "arm", "start", "starting", "video", "talk", "stop", "stopping",
            "disarm", "drain"}

(* Where an operation may have a stream to stop, and a capture to disarm.   *)
Streams == {"starting", "video", "talk", "stop", "stopping"}
Films   == {"start", "starting", "video", "stop", "stopping", "disarm"}

LeaseInv ==
  \A t \in Tasks : at[t].pc \in Leased => session \in Sessions /\ at[t].on = session

Kind(t) ==
  /\ at[t].pc \in {"source", "talk", "drain"} => at[t].kind = "talk"
  /\ at[t].pc \in {"arm", "video", "disarm"} => at[t].kind = "snapshot"

Told(t) == at[t].pc = "idle" /\ at[t].cancelled => at[t].error # "none"

TaskInv == \A t \in Tasks : Kind(t) /\ Told(t)

(* A session that is not opened yet has no stream and no capture.           *)
SessionInv ==
  /\ connected => session \in Sessions
  /\ \A s \in streaming : s <= session
  /\ \A s \in Sessions : s > session => capture[s] = "none"

ToStop   == connected /\ session \in streaming /\ session \notin refused
ToDisarm == connected /\ capture[session] # "none"

StreamInv  == ToStop => \E t \in Tasks : at[t].pc \in Streams
CaptureInv == ToDisarm => \E t \in Tasks : at[t].pc \in Films /\ at[t].kind = "snapshot"

LiveInv == TypeOK /\ LeaseInv /\ TaskInv /\ SessionInv /\ StreamInv /\ CaptureInv

-----------------------------------------------------------------------------
(* Types.                                                                   *)
Places ==
  [pc : {"idle", "livestream", "connect", "lease"} \cup Leased,
   kind : {"talk", "snapshot"}, on : 0 .. MaxSession, error : Errors,
   late : Errors, cancelled : BOOLEAN]

Captures == {"none", "armed", "frame", "failed"}

DataOK ==
  /\ connected \in BOOLEAN /\ session \in 0 .. MaxSession
  /\ capture \in [Sessions -> Captures]
  /\ streaming \subseteq Sessions /\ refused \subseteq Sessions

LEMMA TaskTyped ==
  ASSUME TypeOK, NEW t \in Tasks
  PROVE  /\ at \in [Tasks -> Places] /\ at[t] \in Places /\ DataOK
         /\ livestream = t <=> at[t].pc \notin {"idle", "livestream"}
         /\ lifecycle = t <=> at[t].pc \in Leased
BY DEF TypeOK, Places, Leased, Captures, DataOK

(* A step of t leaves the other tasks where they are.                       *)
Moves(t) ==
  /\ at' \in [Tasks -> Places]
  /\ \A q \in Tasks \ {t} : at'[q] = at[q]

LEMMA RecordStep ==
  ASSUME TypeOK, NEW t \in Tasks, NEW r \in Places, at' = [at EXCEPT ![t] = r]
  PROVE  Moves(t) /\ at'[t] = r
BY TaskTyped DEF Moves

(* A lock changes hands through its owner.                                  *)
Hands(t, owner, next) ==
  \/ next = t /\ owner \in {t, Nobody}
  \/ next = Nobody /\ owner = t
  \/ next = owner /\ owner # t

LEMMA TaskStep ==
  ASSUME TypeOK, NEW t \in Tasks, Moves(t),
         Hands(t, livestream, livestream'), Hands(t, lifecycle, lifecycle'),
         livestream' = t <=> at'[t].pc \notin {"idle", "livestream"},
         lifecycle' = t <=> at'[t].pc \in Leased,
         DataOK'
  PROVE  TypeOK'
<1>1. livestream' \in Tasks \cup {Nobody} /\ lifecycle' \in Tasks \cup {Nobody}
  BY DEF TypeOK, Hands
<1>2. \A q \in Tasks : livestream' = q <=> at'[q].pc \notin {"idle", "livestream"}
  BY NobodyAssumption DEF TypeOK, Moves, Hands
<1>3. \A q \in Tasks : at'[q].pc \in {"idle", "livestream", "connect", "lease"} \cup Leased
  BY DEF Places, Moves
<1>4. \A q \in Tasks :
        lifecycle' = q <=> at'[q].pc \notin {"idle", "livestream", "connect", "lease"}
  <2> SUFFICES ASSUME NEW q \in Tasks
      PROVE lifecycle' = q <=> at'[q].pc \notin {"idle", "livestream", "connect", "lease"}
    OBVIOUS
  <2>1. CASE q = t
    BY <2>1, <1>3 DEF Leased
  <2>2. CASE q # t
    BY <2>2, NobodyAssumption DEF TypeOK, Moves, Hands
  <2> QED
    BY <2>1, <2>2
<1> QED
  BY <1>1, <1>2, <1>4 DEF TypeOK, Moves, Places, Leased, Captures, DataOK

LEMMA QuarantineTyped ==
  ASSUME DataOK, NEW s \in 0 .. MaxSession, Quarantine(s), UNCHANGED camera
  PROVE  DataOK'
BY DEF DataOK, Quarantine, Aborted, Captures, camera

-----------------------------------------------------------------------------
(* The lease and what it protects.                                          *)

(* What the owner of the lease may rely on.                                 *)
LEMMA OwnerFacts ==
  ASSUME LiveInv, NEW t \in Tasks, at[t].pc \in Leased
  PROVE  /\ lifecycle = t /\ livestream = t
         /\ \A q \in Tasks \ {t} : at[q].pc \notin Leased
         /\ session \in Sessions /\ at[t].on = session /\ Kind(t)
         /\ ToStop => at[t].pc \in Streams
         /\ ToDisarm => at[t].pc \in Films /\ at[t].kind = "snapshot"
<1>1. lifecycle = t /\ livestream = t
  BY TaskTyped DEF LiveInv, Leased
<1>2. \A q \in Tasks \ {t} : at[q].pc \notin Leased
  BY <1>1, TaskTyped DEF LiveInv
<1>3. Streams \subseteq Leased /\ Films \subseteq Leased
  BY DEF Streams, Films, Leased
<1>4. session \in Sessions /\ at[t].on = session /\ Kind(t)
  BY DEF LiveInv, LeaseInv, TaskInv
<1> QED
  BY <1>1, <1>2, <1>3, <1>4 DEF LiveInv, StreamInv, CaptureInv

(* A step of the owner of the lease: it may stop and disarm what is there,  *)
(* must keep what it has started for its own cleanup, and does not replace  *)
(* the session.                                                             *)
LEMMA OwnerStep ==
  ASSUME LiveInv, TypeOK', NEW t \in Tasks, at[t].pc \in Leased, Moves(t),
         session' = session, connected' => connected,
         at'[t].pc \in Leased => at'[t].on = session,
         Kind(t)', Told(t)',
         streaming' \subseteq streaming \cup {session},
         \A s \in Sessions : s # session => capture'[s] = capture[s],
         ToStop' => at'[t].pc \in Streams,
         ToDisarm' => at'[t].pc \in Films /\ at'[t].kind = "snapshot"
  PROVE  LiveInv'
<1>1. session \in Sessions /\ session \in Int
  BY OwnerFacts DEF Sessions
<1>2. LeaseInv'
  BY <1>1, OwnerFacts DEF LeaseInv, Moves
<1>3. TaskInv'
  BY DEF LiveInv, TaskInv, Moves, Kind, Told
<1>4. SessionInv'
  BY <1>1 DEF LiveInv, SessionInv
<1>5. StreamInv' /\ CaptureInv'
  BY DEF StreamInv, CaptureInv
<1> QED
  BY <1>2, <1>3, <1>4, <1>5 DEF LiveInv

(* A step between two awaits of an operation.                               *)
Continues(t) ==
  /\ at[t].pc \in Leased /\ at'[t].pc \in Leased
  /\ at'[t].on = at[t].on /\ at'[t].kind = at[t].kind
  /\ Moves(t)
  /\ UNCHANGED locks

LEMMA BodyStep ==
  ASSUME LiveInv, NEW t \in Tasks, Continues(t), DataOK', Kind(t)',
         session' = session, connected' => connected,
         streaming' \subseteq streaming \cup {session},
         \A s \in Sessions : s # session => capture'[s] = capture[s],
         ToStop' => at'[t].pc \in Streams,
         ToDisarm' => at'[t].pc \in Films /\ at'[t].kind = "snapshot"
  PROVE  LiveInv'
<1>1. livestream = t /\ lifecycle = t /\ at[t].on = session
  BY OwnerFacts DEF Continues
<1>2. Hands(t, livestream, livestream') /\ Hands(t, lifecycle, lifecycle')
  BY <1>1 DEF Hands, locks, Continues
<1>3. TypeOK'
  BY <1>1, <1>2, TaskStep DEF Leased, locks, Continues, LiveInv
<1>4. Told(t)'
  BY DEF Told, Continues, Leased
<1> QED
  BY <1>1, <1>3, <1>4, OwnerStep DEF Continues

(* ... of those that leave the camera and the session alone.                *)
LEMMA PlainBodyStep ==
  ASSUME LiveInv, NEW t \in Tasks, Continues(t), Kind(t)',
         UNCHANGED <<transport, capture, camera>>,
         at[t].pc \in Streams => at'[t].pc \in Streams,
         at[t].pc \in Films /\ at[t].kind = "snapshot" => at'[t].pc \in Films
  PROVE  LiveInv'
<1>1. DataOK'
  BY TaskTyped DEF LiveInv, DataOK, transport, camera
<1>2. (ToStop' => ToStop) /\ (ToDisarm' => ToDisarm)
  BY DEF ToStop, ToDisarm, transport, camera
<1>3. /\ ToStop' => at'[t].pc \in Streams
      /\ ToDisarm' => at'[t].pc \in Films /\ at'[t].kind = "snapshot"
  BY <1>2, OwnerFacts DEF Continues
<1> QED
  BY <1>1, <1>3, BodyStep DEF transport, camera

(* ... and of those that quarantine the session of the lease.               *)
LEMMA QuarantineBodyStep ==
  ASSUME LiveInv, NEW t \in Tasks, Continues(t), Kind(t)',
         Quarantine(at[t].on), UNCHANGED camera
  PROVE  LiveInv'
<1>1. at[t].on = session /\ session \in Sessions
  BY OwnerFacts DEF Continues
<1>2. DataOK /\ at[t].on \in 0 .. MaxSession
  BY TaskTyped DEF LiveInv, Places
<1>3. DataOK'
  BY <1>2, QuarantineTyped
<1>4. ~connected' /\ session' = session
  BY <1>1 DEF Quarantine
<1>5. \A s \in Sessions : s # session => capture'[s] = capture[s]
  BY <1>1, <1>2 DEF Quarantine, Aborted, DataOK
<1> QED
  BY <1>3, <1>4, <1>5, BodyStep DEF ToStop, ToDisarm, camera

(* However an operation ends, both locks are free of it.                    *)
LEMMA FinishTyped ==
  ASSUME TypeOK, NEW t \in Tasks, NEW error \in Errors, Finish(t, error), DataOK'
  PROVE  /\ Moves(t) /\ TypeOK'
         /\ at'[t] = [at[t] EXCEPT !.pc = "idle", !.error = error]
         /\ at'[t].pc = "idle" /\ at'[t].error = error
         /\ at'[t].cancelled = at[t].cancelled
<1> DEFINE r == [at[t] EXCEPT !.pc = "idle", !.error = error]
<1>1. Moves(t) /\ at'[t] = r
  <2>1. r \in Places
    BY TaskTyped DEF Places
  <2>2. at' = [at EXCEPT ![t] = r]
    BY TaskTyped DEF Finish
  <2> QED
    BY <2>1, <2>2, RecordStep
<1>2. at'[t].pc = "idle" /\ at'[t].error = error /\ at'[t].cancelled = at[t].cancelled
  BY <1>1, TaskTyped DEF Places
<1>3. Hands(t, livestream, livestream') /\ Hands(t, lifecycle, lifecycle')
  BY DEF Finish, Hands
<1>4. livestream' # t /\ lifecycle' # t
  BY NobodyAssumption DEF Finish
<1> QED
  BY <1>1, <1>2, <1>3, <1>4, TaskStep DEF Leased

(* An operation may end under its lease when it has nothing to stop and     *)
(* leaves nothing armed.                                                    *)
LEMMA OwnerFinishes ==
  ASSUME LiveInv, NEW t \in Tasks, NEW error \in Errors, Finish(t, error),
         at[t].pc \in Leased \ Streams,
         at[t].cancelled => error # "none",
         UNCHANGED <<transport, camera>>,
         capture' \in [Sessions -> Captures],
         \A s \in Sessions : s # session => capture'[s] = capture[s],
         connected => capture'[session] = "none"
  PROVE  LiveInv'
<1>1. DataOK'
  BY TaskTyped DEF LiveInv, DataOK, transport, camera
<1>2. /\ Moves(t) /\ TypeOK' /\ at'[t].pc = "idle" /\ at'[t].error = error
      /\ at'[t].cancelled = at[t].cancelled
  BY <1>1, FinishTyped DEF LiveInv
<1>3. Kind(t)' /\ Told(t)' /\ "idle" \notin Leased
  BY <1>2 DEF Kind, Told, Leased
<1>4. ~ToStop
  BY OwnerFacts
<1>5. ~ToStop' /\ ~ToDisarm'
  BY <1>4 DEF ToStop, ToDisarm, transport, camera
<1> QED
  BY <1>2, <1>3, <1>5, OwnerStep DEF transport, camera

-----------------------------------------------------------------------------
(* The steps of an operation under its lease.                               *)

LEMMA FirstFrameInv ==
  ASSUME LiveInv, NEW t \in Tasks, FirstFrame(t)
  PROVE  LiveInv'
<1>1. at[t] \in Places /\ at \in [Tasks -> Places] /\ at[t].pc = "source" /\ Kind(t)
  BY TaskTyped DEF LiveInv, TaskInv, FirstFrame, In
<1>2. Continues(t) /\ at'[t].pc = "start"
  BY <1>1 DEF FirstFrame, In, Goto, Moves, Continues, Places, Leased, Errors
<1> QED
  BY <1>1, <1>2, PlainBodyStep DEF Continues, FirstFrame, Kind, Streams, Films, Places

LEMMA NoFirstFrameInv ==
  ASSUME LiveInv, NEW t \in Tasks, NoFirstFrame(t)
  PROVE  LiveInv'
<1>1. at[t] \in Places /\ at \in [Tasks -> Places] /\ at[t].pc = "source" /\ Kind(t)
  BY TaskTyped DEF LiveInv, TaskInv, NoFirstFrame, In
<1>2. Continues(t) /\ at'[t].pc = "drain"
  BY <1>1 DEF NoFirstFrame, In, Moves, Continues, Places, Leased, Errors
<1> QED
  BY <1>1, <1>2, PlainBodyStep DEF Continues, NoFirstFrame, Kind, Streams, Films, Places

LEMMA StartedInv ==
  ASSUME LiveInv, NEW t \in Tasks, Started(t)
  PROVE  LiveInv'
<1>1. at[t] \in Places /\ at \in [Tasks -> Places] /\ at[t].pc = "starting" /\ Kind(t)
  BY TaskTyped DEF LiveInv, TaskInv, Started, In
<1>2. Continues(t) /\ at'[t].pc = IF at[t].kind = "talk" THEN "talk" ELSE "video"
  BY <1>1 DEF Started, In, Goto, Moves, Continues, Places, Leased, Errors
<1> QED
  BY <1>1, <1>2, PlainBodyStep DEF Continues, Started, Kind, Streams, Films, Places

LEMMA StartRefusedInv ==
  ASSUME LiveInv, NEW t \in Tasks, StartRefused(t)
  PROVE  LiveInv'
<1>1. at[t] \in Places /\ at \in [Tasks -> Places] /\ at[t].pc = "starting" /\ Kind(t)
  BY TaskTyped DEF LiveInv, TaskInv, StartRefused, In
<1>2. Continues(t) /\ at'[t].pc = "stop"
  BY <1>1 DEF StartRefused, In, CleanUp, Moves, Continues, Places, Leased, Errors
<1> QED
  BY <1>1, <1>2, PlainBodyStep DEF Continues, StartRefused, Kind, Streams, Films, Places

LEMMA KeyframeInv ==
  ASSUME LiveInv, NEW t \in Tasks, Keyframe(t)
  PROVE  LiveInv'
<1>1. at[t] \in Places /\ at \in [Tasks -> Places] /\ at[t].pc = "video" /\ Kind(t)
  BY TaskTyped DEF LiveInv, TaskInv, Keyframe, In
<1>2. Continues(t) /\ at'[t].pc = "stop"
  BY <1>1 DEF Keyframe, In, CleanUp, Moves, Continues, Places, Leased, Errors
<1> QED
  BY <1>1, <1>2, PlainBodyStep DEF Continues, Keyframe, Kind, Streams, Films, Places

LEMMA NoKeyframeInv ==
  ASSUME LiveInv, NEW t \in Tasks, NoKeyframe(t)
  PROVE  LiveInv'
<1>1. at[t] \in Places /\ at \in [Tasks -> Places] /\ at[t].pc = "video" /\ Kind(t)
  BY TaskTyped DEF LiveInv, TaskInv, NoKeyframe, In
<1>2. Continues(t) /\ at'[t].pc = "stop"
  BY <1>1 DEF NoKeyframe, In, CleanUp, Moves, Continues, Places, Leased, Errors
<1> QED
  BY <1>1, <1>2, PlainBodyStep DEF Continues, NoKeyframe, Kind, Streams, Films, Places

LEMMA TalkEndsInv ==
  ASSUME LiveInv, NEW t \in Tasks, TalkEnds(t)
  PROVE  LiveInv'
<1>1. at[t] \in Places /\ at \in [Tasks -> Places] /\ at[t].pc = "talk" /\ Kind(t)
  BY TaskTyped DEF LiveInv, TaskInv, TalkEnds, In
<1>2. PICK error \in {"none", "error"} : CleanUp(t, error)
  BY DEF TalkEnds
<1>3. Continues(t) /\ at'[t].pc = "stop"
  BY <1>1, <1>2 DEF TalkEnds, CleanUp, Moves, Continues, Places, Leased, Errors
<1> QED
  BY <1>1, <1>3, PlainBodyStep DEF Continues, TalkEnds, Kind, Streams, Films, Places

LEMMA StartFailsInv ==
  ASSUME LiveInv, NEW t \in Tasks, StartFails(t)
  PROVE  LiveInv'
<1>1. at[t] \in Places /\ at \in [Tasks -> Places] /\ at[t].pc = "starting"
  BY TaskTyped DEF LiveInv, StartFails, In
<1>2. Continues(t) /\ Kind(t)'
  BY <1>1 DEF StartFails, CleanUp, Moves, Continues, Places, Leased, Errors,
         Kind
<1> QED
  BY <1>2, QuarantineBodyStep DEF StartFails

LEMMA StopFailsInv ==
  ASSUME LiveInv, NEW t \in Tasks, StopFails(t)
  PROVE  LiveInv'
<1>1. at[t] \in Places /\ at \in [Tasks -> Places] /\ at[t].pc = "stopping"
  BY TaskTyped DEF LiveInv, StopFails, In
<1>2. Continues(t) /\ Kind(t)'
  BY <1>1 DEF StopFails, Stopped, AfterStop, Late, Moves, Continues, Places, Leased, Errors,
         Kind
<1> QED
  BY <1>2, QuarantineBodyStep DEF StopFails

(* A start that may have reached the camera is followed by a stop.          *)
LEMMA SendStartInv ==
  ASSUME LiveInv, NEW t \in Tasks, SendStart(t)
  PROVE  LiveInv'
<1>1. at[t] \in Places /\ at \in [Tasks -> Places] /\ at[t].pc = "start" /\ DataOK
  BY TaskTyped DEF LiveInv, SendStart, In
<1>2. Continues(t) /\ at'[t].pc \in {"starting", "stop"}
  BY <1>1 DEF SendStart, Goto, CleanUp, Moves, Continues, Places, Leased, Errors
<1>3. /\ UNCHANGED <<connected, session, capture>>
      /\ streaming' \subseteq streaming \cup {session} /\ refused' = refused
  BY DEF SendStart, transport
<1>4. session \in Sessions
  BY <1>1, OwnerFacts DEF Leased
<1>5. DataOK'
  BY <1>1, <1>3, <1>4 DEF DataOK
<1>6. Kind(t)' /\ at'[t].pc \in Streams /\ at'[t].pc \in Films
  BY <1>2 DEF Kind, Streams, Films
<1>7. ToDisarm' => at'[t].kind = "snapshot"
  BY <1>1, <1>2, <1>3, OwnerFacts DEF ToDisarm, Continues
<1> QED
  BY <1>2, <1>3, <1>5, <1>6, <1>7, BodyStep

LEMMA SendStopInv ==
  ASSUME LiveInv, NEW t \in Tasks, SendStop(t)
  PROVE  LiveInv'
<1>1. at[t] \in Places /\ at \in [Tasks -> Places] /\ at[t].pc = "stop" /\ DataOK
  BY TaskTyped DEF LiveInv, SendStop, In
<1>2. /\ Continues(t)
      /\ IF connected THEN at'[t].pc = "stopping"
         ELSE at'[t].pc = IF at[t].kind = "talk" THEN "drain" ELSE "disarm"
  BY <1>1
  DEF SendStop, Goto, Stopped, AfterStop, Late, Moves, Continues, Places, Leased, Errors
<1>3. /\ UNCHANGED <<connected, session, capture>>
      /\ streaming' \subseteq streaming /\ refused' = refused
  BY DEF SendStop, transport
<1>4. DataOK'
  BY <1>1, <1>3 DEF DataOK
<1>5. Kind(t)' /\ (connected => at'[t].pc \in Streams /\ at'[t].pc \in Films)
  BY <1>1, <1>2 DEF Kind, Streams, Films, Continues, Places
<1>6. ToDisarm' => at'[t].kind = "snapshot"
  BY <1>1, <1>2, <1>3, OwnerFacts DEF ToDisarm, Continues
<1> QED
  BY <1>2, <1>3, <1>4, <1>5, <1>6, BodyStep DEF ToStop, ToDisarm

LEMMA StopAckedInv ==
  ASSUME LiveInv, NEW t \in Tasks, StopAcked(t)
  PROVE  LiveInv'
<1>1. at[t] \in Places /\ at \in [Tasks -> Places] /\ at[t].pc = "stopping" /\ DataOK
  BY TaskTyped DEF LiveInv, StopAcked, In
<1>2. /\ Continues(t)
      /\ at'[t].pc = IF at[t].kind = "talk" THEN "drain" ELSE "disarm"
  BY <1>1
  DEF StopAcked, Stopped, AfterStop, Late, Moves, Continues, Places, Leased, Errors
<1>3. session \in Sessions /\ at[t].on = session
  BY <1>1, OwnerFacts DEF Leased
<1>4. UNCHANGED <<connected, session, capture, streaming>> /\ ~ToStop' /\ DataOK'
  BY <1>1, <1>3 DEF StopAcked, transport, camera, ToStop, DataOK
<1>5. Kind(t)'
  BY <1>1, <1>2 DEF Kind, Continues, Places
<1>6. ToDisarm' => at'[t].pc \in Films /\ at'[t].kind = "snapshot"
  BY <1>1, <1>2, <1>4, OwnerFacts DEF ToDisarm, Continues, Films, Leased
<1> QED
  BY <1>2, <1>4, <1>5, <1>6, BodyStep

LEMMA StopRefusedInv ==
  ASSUME LiveInv, NEW t \in Tasks, StopRefused(t)
  PROVE  LiveInv'
<1>1. at[t] \in Places /\ at \in [Tasks -> Places] /\ at[t].pc = "stopping" /\ DataOK
  BY TaskTyped DEF LiveInv, StopRefused, In
<1>2. /\ Continues(t)
      /\ at'[t].pc = IF at[t].kind = "talk" THEN "drain" ELSE "disarm"
  BY <1>1
  DEF StopRefused, Stopped, AfterStop, Late, Moves, Continues, Places, Leased, Errors
<1>3. session \in Sessions /\ at[t].on = session
  BY <1>1, OwnerFacts DEF Leased
<1>4. UNCHANGED <<connected, session, capture, streaming>> /\ ~ToStop' /\ DataOK'
  BY <1>1, <1>3 DEF StopRefused, transport, camera, ToStop, DataOK
<1>5. Kind(t)'
  BY <1>1, <1>2 DEF Kind, Continues, Places
<1>6. ToDisarm' => at'[t].pc \in Films /\ at'[t].kind = "snapshot"
  BY <1>1, <1>2, <1>4, OwnerFacts DEF ToDisarm, Continues, Films, Leased
<1> QED
  BY <1>2, <1>4, <1>5, <1>6, BodyStep

LEMMA ArmInv ==
  ASSUME LiveInv, NEW t \in Tasks, Arm(t)
  PROVE  LiveInv'
<1>1. at[t] \in Places /\ at \in [Tasks -> Places] /\ at[t].pc = "arm" /\ DataOK
  BY TaskTyped DEF LiveInv, Arm, In
<1>2. session \in Sessions /\ Kind(t) /\ ~ToStop /\ ~ToDisarm
  BY <1>1, OwnerFacts DEF Leased, Streams, Films
<1>3. CASE connected /\ capture[session] = "none"
  <2>1. /\ capture' = [capture EXCEPT ![session] = "armed"]
        /\ Goto(t, "start") /\ UNCHANGED <<transport, locks, camera>>
    BY <1>3 DEF Arm
  <2>2. Continues(t) /\ at'[t].pc = "start"
    BY <1>1, <2>1 DEF Goto, Moves, Continues, Places, Leased
  <2>3. DataOK' /\ \A s \in Sessions : s # session => capture'[s] = capture[s]
    BY <1>1, <1>2, <2>1 DEF DataOK, Captures, transport, camera
  <2>4. at'[t].pc \in Films /\ at'[t].kind = "snapshot" /\ Kind(t)'
    BY <1>1, <1>2, <2>2 DEF Films, Kind, Continues
  <2>5. ~ToStop'
    BY <1>2, <2>1 DEF ToStop, transport, camera
  <2> QED
    BY <2>1, <2>2, <2>3, <2>4, <2>5, BodyStep DEF transport, camera
<1>4. CASE ~(connected /\ capture[session] = "none")
  <2>1. ~connected
    BY <1>2, <1>4 DEF ToDisarm
  <2>2. Finish(t, "error") /\ UNCHANGED <<transport, capture, camera>>
    BY <1>4 DEF Arm
  <2>3. "error" \in Errors /\ at[t].pc \in Leased \ Streams
    BY <1>1 DEF Errors, Leased, Streams
  <2> QED
    BY <1>1, <2>1, <2>2, <2>3, OwnerFinishes DEF DataOK
<1> QED
  BY <1>3, <1>4

LEMMA OutcomeTyped ==
  ASSUME TypeOK, NEW t \in Tasks
  PROVE  Outcome(t) \in Errors /\ (at[t].cancelled => Outcome(t) # "none")
BY TaskTyped DEF Outcome, Places, Errors

LEMMA DisarmInv ==
  ASSUME LiveInv, NEW t \in Tasks, Disarm(t)
  PROVE  LiveInv'
<1>1. at[t].pc = "disarm" /\ DataOK
  BY TaskTyped DEF LiveInv, Disarm, In
<1>2. session \in Sessions
  BY <1>1, OwnerFacts DEF Leased
<1>3. /\ capture' \in [Sessions -> Captures] /\ capture'[session] = "none"
      /\ \A s \in Sessions : s # session => capture'[s] = capture[s]
  BY <1>1, <1>2 DEF Disarm, DataOK, Captures
<1>4. at[t].pc \in Leased \ Streams
  BY <1>1 DEF Leased, Streams
<1> QED
  BY <1>3, <1>4, OutcomeTyped, OwnerFinishes DEF Disarm, LiveInv

LEMMA DrainInv ==
  ASSUME LiveInv, NEW t \in Tasks, Drain(t)
  PROVE  LiveInv'
<1>1. at[t].pc = "drain" /\ DataOK
  BY TaskTyped DEF LiveInv, Drain, In
<1>2. ~ToDisarm
  BY <1>1, OwnerFacts DEF Leased, Films
<1>3. PICK e \in {"none", "error"} :
        Finish(t, IF Outcome(t) = "none" THEN e ELSE Outcome(t))
  BY DEF Drain
<1> DEFINE error == IF Outcome(t) = "none" THEN e ELSE Outcome(t)
<1>4. error \in Errors /\ (at[t].cancelled => error # "none")
  BY OutcomeTyped DEF Errors, LiveInv
<1>5. at[t].pc \in Leased \ Streams
  BY <1>1 DEF Leased, Streams
<1>6. UNCHANGED <<transport, capture, camera>> /\ (connected => capture[session] = "none")
  BY <1>2 DEF Drain, ToDisarm
<1> HIDE DEF error
<1>7. Finish(t, error)
  BY <1>3 DEF error
<1> QED
  BY <1>1, <1>4, <1>5, <1>6, <1>7, OwnerFinishes DEF DataOK

-----------------------------------------------------------------------------
(* Cancellation.                                                            *)

LEMMA CancelSourceInv ==
  ASSUME LiveInv, NEW t \in Tasks, CancelSource(t)
  PROVE  LiveInv'
<1> DEFINE r == [at[t] EXCEPT !.pc = "drain", !.error = "cancelled", !.cancelled = TRUE]
<1>1. at[t] \in Places /\ at \in [Tasks -> Places] /\ at[t].pc = "source" /\ Kind(t)
  BY TaskTyped DEF LiveInv, TaskInv, CancelSource, In
<1>2. r \in Places /\ r.pc = "drain" /\ r.on = at[t].on /\ r.kind = at[t].kind
  BY <1>1 DEF Places, Leased, Errors
<1>3. at' = [at EXCEPT ![t] = r]
  BY <1>1 DEF CancelSource
<1> HIDE DEF r
<1>4. Moves(t) /\ at'[t] = r
  BY <1>2, <1>3, RecordStep DEF LiveInv
<1>5. Continues(t) /\ at'[t].pc = "drain"
  BY <1>1, <1>2, <1>4 DEF Continues, CancelSource, Leased
<1> QED
  BY <1>1, <1>5, PlainBodyStep DEF Continues, CancelSource, Kind, Streams, Films

(* Wherever the body is cancelled, the stop comes next.                     *)
LEMMA CancelBodyInv ==
  ASSUME LiveInv, NEW t \in Tasks, CancelBody(t)
  PROVE  LiveInv'
<1> DEFINE r == [at[t] EXCEPT !.pc = "stop", !.error = "cancelled", !.cancelled = TRUE]
<1>1. /\ at[t] \in Places /\ at \in [Tasks -> Places]
      /\ at[t].pc \in {"start", "starting", "video", "talk"}
  BY TaskTyped DEF LiveInv, CancelBody
<1>2. r \in Places /\ r.pc = "stop" /\ r.on = at[t].on /\ r.kind = at[t].kind
  BY <1>1 DEF Places, Leased, Errors
<1>3. at' = [at EXCEPT ![t] = r]
  BY <1>1 DEF CancelBody
<1> HIDE DEF r
<1>4. Moves(t) /\ at'[t] = r
  BY <1>2, <1>3, RecordStep DEF LiveInv
<1>5. Continues(t) /\ at'[t].pc = "stop" /\ Kind(t)'
  BY <1>1, <1>2, <1>4 DEF Continues, CancelBody, Leased, Kind
<1>6. CASE In(t, "starting")
  BY <1>5, <1>6, QuarantineBodyStep DEF CancelBody
<1>7. CASE ~In(t, "starting")
  BY <1>5, <1>7, PlainBodyStep DEF CancelBody, Streams, Films
<1> QED
  BY <1>6, <1>7

LEMMA CancelCleanupInv ==
  ASSUME LiveInv, NEW t \in Tasks, CancelCleanup(t)
  PROVE  LiveInv'
<1> DEFINE r == [at[t] EXCEPT !.cancelled = TRUE]
<1>1. /\ at[t] \in Places /\ at \in [Tasks -> Places] /\ Kind(t)
      /\ at[t].pc \in {"stop", "stopping", "disarm", "drain"}
  BY TaskTyped DEF LiveInv, TaskInv, CancelCleanup
<1>2. r \in Places /\ r.pc = at[t].pc /\ r.on = at[t].on /\ r.kind = at[t].kind
  BY <1>1 DEF Places
<1>3. at' = [at EXCEPT ![t] = r]
  BY <1>1 DEF CancelCleanup
<1> HIDE DEF r
<1>4. Moves(t) /\ at'[t] = r
  BY <1>2, <1>3, RecordStep DEF LiveInv
<1>5. Continues(t) /\ at'[t].pc = at[t].pc
  BY <1>1, <1>2, <1>4 DEF Continues, CancelCleanup, Leased
<1> QED
  BY <1>1, <1>5, PlainBodyStep DEF Continues, CancelCleanup, Kind

-----------------------------------------------------------------------------
(* The steps outside a lease.                                               *)

(* A task without a lease takes it, or moves on without.                    *)
LEMMA OutsideStep ==
  ASSUME LiveInv, TypeOK', NEW t \in Tasks, at[t].pc \notin Leased, Moves(t),
         UNCHANGED <<transport, capture, camera>>,
         at'[t].pc \in Leased => connected /\ at'[t].on = session,
         Kind(t)', Told(t)'
  PROVE  LiveInv'
<1>1. Streams \subseteq Leased /\ Films \subseteq Leased
  BY DEF Streams, Films, Leased
<1>2. LeaseInv'
  BY DEF LiveInv, LeaseInv, SessionInv, Moves, transport
<1>3. TaskInv'
  BY DEF LiveInv, TaskInv, Moves, Kind, Told
<1>4. SessionInv'
  BY DEF LiveInv, SessionInv, transport, camera
<1>5. \A q \in Tasks : at[q].pc \in Leased => at'[q] = at[q]
  BY DEF Moves
<1>6. StreamInv'
  BY <1>1, <1>5 DEF LiveInv, StreamInv, ToStop, transport, camera
<1>7. CaptureInv'
  BY <1>1, <1>5 DEF LiveInv, CaptureInv, ToDisarm, transport, camera
<1> QED
  BY <1>2, <1>3, <1>4, <1>6, <1>7 DEF LiveInv

(* A new session: nobody has a lease, and nothing streams there yet.        *)
LEMMA OpensStep ==
  ASSUME LiveInv, TypeOK', Opens, UNCHANGED <<capture, camera>>,
         \A t \in Tasks : at'[t].pc \notin Leased, TaskInv'
  PROVE  LiveInv'
<1>1. /\ session \in 0 .. MaxSession /\ session' = session + 1
      /\ session' \in Sessions /\ streaming \subseteq Sessions
  BY BoundAssumption DEF Opens, Sessions, LiveInv, TypeOK
<1>2. LeaseInv'
  BY DEF LeaseInv
<1>3. SessionInv'
  BY <1>1 DEF LiveInv, SessionInv, Sessions, camera
<1>4. ~ToStop' /\ ~ToDisarm'
  BY <1>1 DEF LiveInv, SessionInv, ToStop, ToDisarm, Sessions, camera
<1> QED
  BY <1>2, <1>3, <1>4 DEF LiveInv, StreamInv, CaptureInv

LEMMA IdleTyped == Idle \in Places /\ Idle.pc = "idle" /\ Idle.cancelled = FALSE
BY BoundAssumption DEF Idle, Places, Errors

LEMMA CallInv ==
  ASSUME LiveInv, NEW t \in Tasks, NEW kind \in {"talk", "snapshot"}, Call(t, kind)
  PROVE  LiveInv'
<1> DEFINE r == [Idle EXCEPT !.pc = "livestream", !.kind = kind]
<1>1. at[t] \in Places /\ at[t].pc = "idle" /\ DataOK /\ livestream # t /\ lifecycle # t
  BY TaskTyped DEF LiveInv, Call, In, Leased
<1>2. r \in Places /\ r.pc = "livestream"
  BY IdleTyped DEF Places
<1>3. at' = [at EXCEPT ![t] = r]
  BY DEF Call
<1> HIDE DEF r
<1>4. Moves(t) /\ at'[t].pc = "livestream"
  BY <1>2, <1>3, RecordStep DEF LiveInv
<1>5. TypeOK'
  BY <1>1, <1>4, TaskStep
  DEF LiveInv, Call, Hands, locks, Leased, DataOK, transport, camera
<1>6. Kind(t)' /\ Told(t)'
  BY <1>4 DEF Kind, Told
<1> QED
  BY <1>1, <1>4, <1>5, <1>6, OutsideStep DEF Leased, Call

LEMMA LockedInv ==
  ASSUME LiveInv, NEW t \in Tasks, Locked(t)
  PROVE  LiveInv'
<1>1. at[t] \in Places /\ at \in [Tasks -> Places] /\ at[t].pc = "livestream" /\ DataOK
      /\ lifecycle # t
  BY TaskTyped DEF LiveInv, Locked, In, Leased
<1>2. Moves(t) /\ at'[t].pc \in {"lease", "connect"}
  BY <1>1 DEF Locked, Goto, Moves, Places
<1>3. TypeOK'
  BY <1>1, <1>2, TaskStep DEF LiveInv, Locked, Hands, Leased, DataOK, transport, camera
<1>4. Kind(t)' /\ Told(t)'
  BY <1>2 DEF Kind, Told
<1> QED
  BY <1>1, <1>2, <1>3, <1>4, OutsideStep DEF Leased, Locked

LEMMA ConnectInv ==
  ASSUME LiveInv, NEW t \in Tasks, Connect(t)
  PROVE  LiveInv'
<1>1. /\ at[t] \in Places /\ at \in [Tasks -> Places] /\ at[t].pc = "connect" /\ DataOK
      /\ lifecycle # t /\ livestream = t
  BY TaskTyped DEF LiveInv, Connect, In, Leased
<1>2. Moves(t) /\ at'[t].pc = "lease"
  BY <1>1 DEF Connect, Goto, Moves, Places
<1>3. DataOK'
  <2>1. CASE Opens
    BY <1>1, <2>1, BoundAssumption DEF Connect, Opens, DataOK, camera
  <2>2. CASE UNCHANGED transport
    BY <1>1, <2>2 DEF Connect, DataOK, transport, camera
  <2> QED
    BY <2>1, <2>2 DEF Connect
<1>4. TypeOK'
  BY <1>1, <1>2, <1>3, TaskStep DEF LiveInv, Connect, Hands, Leased, locks
<1>5. Kind(t)' /\ Told(t)'
  BY <1>2 DEF Kind, Told
<1>6. CASE Opens
  <2>1. \A q \in Tasks : at[q].pc \notin Leased
    BY TaskTyped, NobodyAssumption DEF LiveInv, Connect
  <2>2. \A q \in Tasks : at'[q].pc \notin Leased
    BY <1>2, <2>1 DEF Moves, Leased
  <2>3. TaskInv'
    BY <1>2, <1>5 DEF LiveInv, TaskInv, Moves, Kind, Told
  <2> QED
    BY <1>4, <1>6, <2>2, <2>3, OpensStep DEF Connect
<1>7. CASE UNCHANGED transport
  BY <1>1, <1>2, <1>4, <1>5, <1>7, OutsideStep DEF Leased, Connect
<1> QED
  BY <1>6, <1>7 DEF Connect

(* An operation ends before it has the lease.                               *)
LEMMA OutsideFinishes ==
  ASSUME LiveInv, NEW t \in Tasks, at[t].pc \notin Leased, NEW error \in Errors \ {"none"},
         Finish(t, error), UNCHANGED <<transport, capture, camera>>
  PROVE  LiveInv'
<1>1. DataOK'
  BY TaskTyped DEF LiveInv, DataOK, transport, camera
<1>2. Moves(t) /\ TypeOK' /\ at'[t].pc = "idle" /\ at'[t].error = error
  BY <1>1, FinishTyped DEF LiveInv
<1> QED
  BY <1>2, OutsideStep DEF Leased, Kind, Told

LEMMA ConnectFailsInv ==
  ASSUME LiveInv, NEW t \in Tasks, ConnectFails(t)
  PROVE  LiveInv'
BY OutsideFinishes DEF ConnectFails, In, Leased, Errors

LEMMA LeaseStepInv ==
  ASSUME LiveInv, NEW t \in Tasks, Lease(t)
  PROVE  LiveInv'
<1>1. /\ at[t] \in Places /\ at \in [Tasks -> Places] /\ at[t].pc = "lease" /\ DataOK
      /\ livestream = t
  BY TaskTyped DEF LiveInv, Lease, In
<1>2. CASE ~connected
  BY <1>1, <1>2, OutsideFinishes DEF Lease, Leased, Errors
<1>3. CASE connected
  <2>1. /\ lifecycle = Nobody /\ lifecycle' = t
        /\ UNCHANGED <<livestream, transport, capture, camera>>
        /\ at' = [at EXCEPT ![t].pc = IF at[t].kind = "talk" THEN "source" ELSE "arm",
                            ![t].on = session]
    BY <1>3 DEF Lease
  <2>2. /\ Moves(t) /\ at'[t].on = session /\ at'[t].kind = at[t].kind
        /\ at'[t].pc = IF at[t].kind = "talk" THEN "source" ELSE "arm"
    BY <1>1, <2>1 DEF Moves, Places, Leased, DataOK
  <2>3. Kind(t)' /\ Told(t)' /\ at'[t].pc \in Leased
    BY <1>1, <2>2 DEF Kind, Told, Leased, Places
  <2>4. TypeOK'
    BY <1>1, <2>1, <2>2, <2>3, TaskStep
    DEF LiveInv, Hands, Leased, DataOK, transport, camera
  <2> QED
    BY <1>1, <1>3, <2>1, <2>2, <2>3, <2>4, OutsideStep DEF Leased
<1> QED
  BY <1>2, <1>3

LEMMA CancelWaitingInv ==
  ASSUME LiveInv, NEW t \in Tasks, CancelWaiting(t)
  PROVE  LiveInv'
<1>1. "cancelled" \in Errors /\ "cancelled" # "none"
  BY DEF Errors
<1>2. CASE at[t].pc = "arm"
  <2>1. ~ToDisarm
    BY <1>2, OwnerFacts DEF Leased, Films
  <2>2. DataOK /\ at[t].pc \in Leased \ Streams
    BY <1>2, TaskTyped DEF LiveInv, Leased, Streams
  <2> QED
    BY <1>1, <2>1, <2>2, OwnerFinishes DEF CancelWaiting, ToDisarm, DataOK
<1>3. CASE at[t].pc # "arm"
  BY <1>1, <1>3, OutsideFinishes DEF CancelWaiting, Leased
<1> QED
  BY <1>2, <1>3

-----------------------------------------------------------------------------
(* Other tasks and the network.                                             *)

LEMMA OthersTyped ==
  ASSUME TypeOK, UNCHANGED <<locks, at>>, DataOK'
  PROVE  TypeOK'
BY DEF TypeOK, DataOK, Captures, locks

LEMMA OtherConnectsInv ==
  ASSUME LiveInv, OtherConnects
  PROVE  LiveInv'
<1>1. DataOK'
  BY BoundAssumption DEF LiveInv, TypeOK, OtherConnects, Opens, DataOK, Captures, camera
<1>2. TypeOK'
  BY <1>1, OthersTyped DEF LiveInv, OtherConnects
<1>3. \A q \in Tasks : at'[q].pc \notin Leased
  BY TaskTyped, NobodyAssumption DEF LiveInv, OtherConnects
<1>4. TaskInv'
  BY DEF LiveInv, TaskInv, Kind, Told, OtherConnects
<1> QED
  BY <1>2, <1>3, <1>4, OpensStep DEF OtherConnects

LEMMA SessionEndsInv ==
  ASSUME LiveInv, SessionEnds
  PROVE  LiveInv'
<1>1. session \in Sessions /\ session \in Int /\ capture \in [Sessions -> Captures]
  BY DEF LiveInv, SessionInv, SessionEnds, TypeOK, Captures, Sessions
<1>2. /\ capture' \in [Sessions -> Captures]
      /\ \A s \in Sessions : s # session => capture'[s] = capture[s]
  BY <1>1 DEF SessionEnds, Aborted, Captures
<1>3. TypeOK'
  BY <1>2, OthersTyped DEF LiveInv, TypeOK, DataOK, SessionEnds, camera
<1>4. LeaseInv' /\ TaskInv'
  BY DEF LiveInv, LeaseInv, TaskInv, Kind, Told, SessionEnds
<1>5. SessionInv'
  BY <1>1, <1>2 DEF LiveInv, SessionInv, SessionEnds, camera
<1> QED
  BY <1>3, <1>4, <1>5 DEF LiveInv, StreamInv, CaptureInv, ToStop, ToDisarm, SessionEnds

LEMMA VideoArrivesInv ==
  ASSUME LiveInv, VideoArrives
  PROVE  LiveInv'
<1>1. session \in Sessions /\ session \in Int /\ capture \in [Sessions -> Captures]
  BY DEF LiveInv, SessionInv, VideoArrives, TypeOK, Captures, Sessions
<1>2. /\ capture' \in [Sessions -> Captures]
      /\ \A s \in Sessions : s # session => capture'[s] = capture[s]
  BY <1>1 DEF VideoArrives, Captures
<1>3. TypeOK'
  BY <1>2, OthersTyped DEF LiveInv, TypeOK, DataOK, VideoArrives, transport, camera
<1>4. LeaseInv' /\ TaskInv'
  BY DEF LiveInv, LeaseInv, TaskInv, Kind, Told, VideoArrives, transport
<1>5. SessionInv'
  BY <1>1, <1>2 DEF LiveInv, SessionInv, VideoArrives, transport, camera
<1>6. ToDisarm /\ (ToStop' => ToStop)
  BY DEF ToDisarm, ToStop, VideoArrives, transport, camera
<1> QED
  BY <1>3, <1>4, <1>5, <1>6 DEF LiveInv, StreamInv, CaptureInv, VideoArrives

-----------------------------------------------------------------------------
LEMMA InitLiveInv == Init => LiveInv
<1> SUFFICES ASSUME Init PROVE LiveInv
  OBVIOUS
<1>1. \A t \in Tasks : at[t] = Idle
  BY DEF Init
<1>2. at \in [Tasks -> Places]
  BY IdleTyped DEF Init
<1>3. DataOK /\ livestream = Nobody /\ lifecycle = Nobody
  <2>1. 0 \in 0 .. MaxSession
    BY BoundAssumption
  <2>2. capture \in [Sessions -> Captures]
    BY DEF Init, Captures
  <2> QED
    BY <2>1, <2>2 DEF Init, DataOK
<1>4. TypeOK
  BY <1>1, <1>2, <1>3, IdleTyped, NobodyAssumption
  DEF TypeOK, DataOK, Captures, Places, Leased
<1>5. LeaseInv /\ TaskInv
  BY <1>1, IdleTyped DEF LeaseInv, TaskInv, Kind, Told, Leased
<1>6. SessionInv /\ StreamInv /\ CaptureInv
  BY DEF Init, SessionInv, StreamInv, CaptureInv, ToStop, ToDisarm
<1> QED
  BY <1>4, <1>5, <1>6 DEF LiveInv

LEMMA NextLiveInv == LiveInv /\ [Next]_vars => LiveInv'
<1> SUFFICES ASSUME LiveInv, [Next]_vars PROVE LiveInv'
  OBVIOUS
<1>1. ASSUME NEW t \in Tasks, Step(t) PROVE LiveInv'
  BY <1>1, LockedInv, ConnectInv, ConnectFailsInv, LeaseStepInv, ArmInv, FirstFrameInv,
     NoFirstFrameInv, SendStartInv, StartedInv, StartRefusedInv, StartFailsInv, KeyframeInv,
     NoKeyframeInv, TalkEndsInv, SendStopInv, StopAckedInv, StopRefusedInv, StopFailsInv,
     DisarmInv, DrainInv
  DEF Step
<1>2. ASSUME NEW t \in Tasks, Cancel(t) PROVE LiveInv'
  BY <1>2, CancelWaitingInv, CancelSourceInv, CancelBodyInv, CancelCleanupInv DEF Cancel
<1>3. ASSUME UNCHANGED vars PROVE LiveInv'
  BY <1>3 DEF vars, transport, locks, camera, LiveInv, TypeOK, LeaseInv, TaskInv, Kind,
     Told, SessionInv, StreamInv, CaptureInv, ToStop, ToDisarm
<1>4. CASE \E t \in Tasks, kind \in {"talk", "snapshot"} : Call(t, kind)
  BY <1>4, CallInv
<1>5. CASE OtherCloses \/ SessionEnds
  BY <1>5, SessionEndsInv DEF OtherCloses
<1> QED
  BY <1>1, <1>2, <1>3, <1>4, <1>5, OtherConnectsInv, VideoArrivesInv DEF Next, TalkFrame

(* At any time: an operation holds the livestream lock and the lease of the *)
(* session exactly while it is inside, the session of a lease is the        *)
(* current one, and what it started there is its own to stop and disarm     *)
(* (camera.py:959, 1049, 1272, 1287).                                       *)
THEOREM Invariant == Spec => []LiveInv
BY InitLiveInv, NextLiveInv, PTL DEF Spec

(* The variables have their types, and the locks their owners.              *)
THEOREM TypeCorrect == Spec => []TypeOK
<1>1. LiveInv => TypeOK
  BY DEF LiveInv
<1> QED
  BY <1>1, Invariant, PTL

(* When no operation is inside, the live session is not streaming, unless   *)
(* the camera refused the stop, and nothing is armed on it, however the     *)
(* operations before ended: answered, refused, failed, quarantined or       *)
(* cancelled at any await (camera.py:1174-1187, 1323-1335, 1344-1348).      *)
THEOREM NothingIsLeftBehind == Spec => []NothingLeftBehind
<1>1. LiveInv => NothingLeftBehind
  <2> SUFFICES ASSUME LiveInv, livestream = Nobody PROVE ~ToStop /\ ~ToDisarm
    BY DEF NothingLeftBehind, ToStop, ToDisarm
  <2>1. \A t \in Tasks : at[t].pc \notin Leased
    BY TaskTyped, NobodyAssumption DEF LiveInv, Leased
  <2>2. Streams \subseteq Leased /\ Films \subseteq Leased
    BY DEF Streams, Films, Leased
  <2> QED
    BY <2>1, <2>2 DEF LiveInv, StreamInv, CaptureInv
<1> QED
  BY <1>1, Invariant, PTL

(* An operation that was cancelled, be it during its cleanup, does not      *)
(* report success (camera.py:227-228, 1249, 1354).                          *)
THEOREM CancellationIsTold == Spec => []CancelledIsNotSuccess
<1>1. LiveInv => CancelledIsNotSuccess
  BY DEF LiveInv, TaskInv, Told, CancelledIsNotSuccess, In
<1> QED
  BY <1>1, Invariant, PTL

LEMMA StopSent ==
  ASSUME LiveInv, [Next]_vars, NEW t \in Tasks, In(t, "stop"), at'[t].pc = "stopping"
  PROVE  session = at[t].on
BY OwnerFacts DEF In, Leased

(* A stop is sent on the session of its operation's lease, the one its      *)
(* start was sent on: no task replaces the session while the operation runs *)
(* (camera.py:972, 1049, 1287).                                             *)
THEOREM StopsFollowTheirStart == Spec => StopFollowsStart
<1>1. LiveInv /\ [Next]_vars =>
        [\A t \in Tasks : In(t, "stop") /\ at'[t].pc = "stopping" => session = at[t].on]_vars
  BY StopSent
<1> QED
  BY <1>1, Invariant, PTL DEF Spec, StopFollowsStart
=============================================================================
