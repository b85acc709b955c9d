------------------------------- MODULE PtzMove -------------------------------
(***************************************************************************)
(* move_ptz() (camera.py): start the motor, wait for the duration, stop it. *)
(* The stop runs as a child task that a cancellation does not reach; start *)
(* and stop have deadlines that cancel the command in flight.  Moves are   *)
(* serialized; stop_ptz() and the other commands of the camera are not.    *)
(***************************************************************************)
EXTENDS Integers

CONSTANTS
  Tasks,       (* asyncio tasks that move the camera                        *)
  Nobody,      (* the owner of a free lock, the mover of a motor at rest    *)
  Directions   (* "left", "right", ...                                      *)

ASSUME NobodyAssumption == Nobody \notin Tasks

VARIABLES
  connected,  (* transport.connected                                        *)
  owner,      (* the owner of _ptz_move_lock                                *)
  motor,      (* camera: the direction it moves in, and the task it moves   *)
              (* for                                                        *)
  unstopped,  (* history: tasks whose movement no stop of theirs ended      *)
  at          (* per task: where it awaits (pc), its direction, whether the *)
              (* camera carried out the command in flight (done), whether   *)
              (* the deadline passed (expired), whether it was cancelled,   *)
              (* and the error that will be raised                          *)

vars == <<connected, owner, motor, unstopped, at>>

Rest == [direction |-> "none", by |-> Nobody]
Idle == [pc |-> "idle", direction |-> "none", done |-> FALSE, expired |-> FALSE,
         cancelled |-> FALSE, error |-> "none"]

Init ==
  /\ connected = FALSE /\ owner = Nobody
  /\ motor = Rest /\ unstopped = {}
  /\ at = [t \in Tasks |-> Idle]

In(t, where)   == at[t].pc = where
Goto(t, where) == at' = [at EXCEPT ![t].pc = where]

-----------------------------------------------------------------------------
(* Other tasks and the network: sessions begin and end.                     *)
SessionChanges ==
  /\ connected' = ~connected
  /\ UNCHANGED <<owner, motor, unstopped, at>>

(* stop_ptz() of any task.                                                  *)
ManualStop(direction) ==
  /\ motor.direction = direction
  /\ motor' = Rest
  /\ connected' \in BOOLEAN
  /\ UNCHANGED <<owner, unstopped, at>>

-----------------------------------------------------------------------------
Call(t, direction) ==
  /\ In(t, "idle")
  /\ at' = [at EXCEPT ![t] = [Idle EXCEPT !.pc = "lock", !.direction = direction]]
  /\ UNCHANGED <<connected, owner, motor, unstopped>>

(* Mutant: moves are not serialized.                                        *)
Unserialized(t) ==
  /\ In(t, "lock")
  /\ owner' = t
  /\ Goto(t, "applicable")
  /\ UNCHANGED <<connected, motor, unstopped>>

Locked(t) ==
  /\ In(t, "lock") /\ owner = Nobody
  /\ owner' = t
  /\ Goto(t, "applicable")
  /\ UNCHANGED <<connected, motor, unstopped>>

Return(t, error) ==
  /\ at' = [at EXCEPT ![t].pc = "idle", ![t].error = error]
  /\ owner' = IF owner = t THEN Nobody ELSE owner

(* _require_command_applicable(), a read.                                   *)
Applicable(t) ==
  /\ In(t, "applicable")
  /\ connected' \in BOOLEAN
  /\ \/ Goto(t, "start") /\ UNCHANGED owner
     \/ Return(t, "error")
  /\ UNCHANGED <<motor, unstopped>>

(* Mutant: an error of the body goes to the caller at once.                 *)
NoStopAfterError(t, error) ==
  /\ at' = [at EXCEPT ![t].pc = IF error = "none" THEN "stop" ELSE "idle",
                      ![t].error = error]
  /\ owner' = IF error = "none" \/ owner # t THEN owner ELSE Nobody

(* The body is over: the stop is attempted in any case.                     *)
BodyEnds(t, error) ==
  /\ at' = [at EXCEPT ![t].pc = "stop", ![t].error = error]
  /\ UNCHANGED owner

(* _send_service_change(): a session, connected first if there is none; the *)
(* command reaches the camera or is lost.                                   *)
SendStart(t) ==
  /\ In(t, "start") /\ ~at[t].expired /\ ~at[t].cancelled
  /\ connected' = TRUE
  /\ \E reached \in BOOLEAN :
       /\ motor' = IF reached THEN [direction |-> at[t].direction, by |-> t] ELSE motor
       /\ unstopped' = IF reached THEN unstopped \ {t} ELSE unstopped
       /\ at' = [at EXCEPT ![t].pc = "starting", ![t].done = reached]
  /\ UNCHANGED owner

NoConnection(t) ==
  /\ In(t, "start")
  /\ connected' = FALSE
  /\ BodyEnds(t, "error")
  /\ UNCHANGED <<motor, unstopped>>

Started(t) ==
  /\ In(t, "starting") /\ at[t].done
  /\ Goto(t, "moving")
  /\ UNCHANGED <<connected, owner, motor, unstopped>>

(* No response, or not the expected one.                                    *)
StartFails(t) ==
  /\ In(t, "starting")
  /\ connected' \in {FALSE, connected}
  /\ BodyEnds(t, "uncertain")
  /\ UNCHANGED <<motor, unstopped>>

(* timeout_at(deadline) cancels the task; so may anybody.  The command in   *)
(* flight is abandoned with its session.                                    *)
Deadline(t) ==
  /\ at[t].pc \in {"start", "starting", "moving"} /\ ~at[t].expired
  /\ at' = [at EXCEPT ![t].expired = TRUE]
  /\ UNCHANGED <<connected, owner, motor, unstopped>>

Interrupted(t) ==
  /\ at[t].pc \in {"start", "starting"} /\ (at[t].expired \/ at[t].cancelled)
  /\ connected' = (connected /\ In(t, "start"))
  /\ BodyEnds(t, IF at[t].expired THEN "uncertain" ELSE "cancelled")
  /\ UNCHANGED <<motor, unstopped>>

MoveEnds(t) ==
  /\ In(t, "moving") /\ (at[t].expired \/ at[t].cancelled)
  /\ BodyEnds(t, IF at[t].cancelled THEN "cancelled" ELSE "none")
  /\ UNCHANGED <<connected, motor, unstopped>>

-----------------------------------------------------------------------------
(* _send_ptz_stop_once().                                                   *)
SendStop(t) ==
  /\ In(t, "stop")
  /\ connected' = TRUE
  /\ \E reached \in BOOLEAN :
       /\ motor' = IF reached /\ motor.direction = at[t].direction THEN Rest ELSE motor
       /\ at' = [at EXCEPT ![t].pc = "stopping", ![t].done = reached]
  /\ UNCHANGED <<owner, unstopped>>

(* What move_ptz() raises: the error of the body, a cancellation of the     *)
(* cleanup, the error of the stop.                                          *)
Outcome(t, error) ==
  IF at[t].error # "none" THEN at[t].error
  ELSE IF at[t].cancelled THEN "cancelled" ELSE error

Stopped(t) ==
  /\ In(t, "stopping") /\ at[t].done
  /\ Return(t, Outcome(t, "none"))
  /\ UNCHANGED <<connected, motor, unstopped>>

(* Mutant: a failing stop is tried again.                                   *)
StopUntilAcknowledged(t) ==
  /\ at[t].pc \in {"stop", "stopping"}
  /\ connected' \in {FALSE, connected}
  /\ Goto(t, "stop")
  /\ UNCHANGED <<owner, motor, unstopped>>

(* No connection, no response, not the expected one, or the timeout.        *)
StopFails(t) ==
  /\ at[t].pc \in {"stop", "stopping"}
  /\ connected' \in {FALSE, connected}
  /\ unstopped' = unstopped \cup {t}
  /\ Return(t, Outcome(t, "uncertain"))
  /\ UNCHANGED motor

-----------------------------------------------------------------------------
(* Before the start the lock is given back; later the task is woken, and    *)
(* the stop runs in any case.                                               *)
Cancel(t) ==
  /\ ~In(t, "idle") /\ ~at[t].cancelled
  /\ IF at[t].pc \in {"lock", "applicable"}
     THEN Return(t, "cancelled")
     ELSE at' = [at EXCEPT ![t].cancelled = TRUE] /\ UNCHANGED owner
  /\ UNCHANGED <<connected, motor, unstopped>>

Step(t) ==
  \/ Locked(t) \/ Applicable(t) \/ SendStart(t) \/ NoConnection(t) \/ Started(t)
  \/ StartFails(t) \/ Deadline(t) \/ Interrupted(t) \/ MoveEnds(t)
  \/ SendStop(t) \/ Stopped(t) \/ StopFails(t)

Next ==
  \/ \E t \in Tasks :
       \/ \E direction \in Directions : Call(t, direction)
       \/ Step(t) \/ Cancel(t)
  \/ \E direction \in Directions : ManualStop(direction)
  \/ SessionChanges

Spec == Init /\ [][Next]_vars

(* Start and stop have deadlines, and the lock is first come, first served. *)
FairSpec == Spec /\ \A t \in Tasks : SF_vars(Step(t))
-----------------------------------------------------------------------------
(***************************************************************************)
(* Properties.                                                             *)
(***************************************************************************)
Errors == {"none", "error", "uncertain", "cancelled"}
TypeOK ==
  /\ connected \in BOOLEAN
  /\ owner \in Tasks \cup {Nobody}
  /\ motor \in [direction : Directions \cup {"none"}, by : Tasks \cup {Nobody}]
  /\ unstopped \subseteq Tasks
  /\ at \in [Tasks ->
       [pc : {"idle", "lock", "applicable", "start", "starting", "moving", "stop",
              "stopping"},
        direction : Directions \cup {"none"}, done : BOOLEAN, expired : BOOLEAN,
        cancelled : BOOLEAN, error : Errors]]
  /\ \A t \in Tasks : owner = t <=> at[t].pc \notin {"idle", "lock"}

(* A move that is over leaves the motor moving only if its stop was tried   *)
(* and failed: whatever became of the start, and whoever cancelled          *)
(* (1919-1938).                                                             *)
NeverLeftUnattended ==
  \A t \in Tasks : In(t, "idle") /\ motor.by = t => t \in unstopped

(* A move that reports success has stopped the motor (1925-1933).           *)
SuccessIsStopped ==
  \A t \in Tasks :
    In(t, "idle") /\ at[t].error = "none" => motor.by # t

(* While a move waits for its duration the motor moves for it or rests:     *)
(* nobody else's start overtakes it (1854).                                 *)
MovesDoNotOverlap ==
  \A t \in Tasks : In(t, "moving") => motor.by \in {t, Nobody}

(* Every move ends: the stop is sent once and does not wait for its         *)
(* acknowledgement beyond the timeout (1960-1981).                          *)
MoveReturns == \A t \in Tasks : at[t].pc # "idle" ~> at[t].pc = "idle"
=============================================================================
