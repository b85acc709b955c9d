---------------------------- MODULE PtzMoveProofs ----------------------------
(***************************************************************************)
(* Proofs about PtzMove, for any number of tasks and directions.           *)
(*                                                                         *)
(* From the start to the stop of a move the motor moves for it only in its *)
(* direction, which its stop ends; what an earlier stop failed to end is   *)
(* accounted for in "unstopped".  The lock keeps the moves of others out.  *)
(***************************************************************************)
EXTENDS PtzMove, TLAPS

(* How the motor stands to the move of t, by where t awaits.                *)
MoveInv(t) ==
  /\ at[t].pc \in {"idle", "lock", "applicable", "start"} \/ (In(t, "stopping") /\ at[t].done)
       => (motor.by = t => t \in unstopped)
  /\ motor.by = t => t \in unstopped \/ motor.direction = at[t].direction
  /\ In(t, "moving") \/ (In(t, "starting") /\ at[t].done)
       => t \notin unstopped /\ motor.by \in {t, Nobody}
  /\ at[t].pc \in {"stop", "stopping"} /\ at[t].error = "none" => t \notin unstopped
  /\ In(t, "idle") /\ at[t].error = "none" => motor.by # t

Inv == TypeOK /\ \A t \in Tasks : MoveInv(t)

Moves ==
  [pc : {"idle", "lock", "applicable", "start", "starting", "moving", "stop", "stopping"},
   direction : Directions \cup {"none"}, done : BOOLEAN, expired : BOOLEAN,
   cancelled : BOOLEAN, error : Errors]

LEMMA InitInv == Init => Inv
<1> SUFFICES ASSUME Init PROVE Inv
  OBVIOUS
<1>1. Idle \in Moves /\ Idle.pc = "idle"
  BY DEF Idle, Moves, Errors
<1>2. at \in [Tasks -> Moves] /\ \A t \in Tasks : at[t] = Idle /\ motor.by # t /\ owner # t
  BY <1>1, NobodyAssumption DEF Init, Rest
<1>3. TypeOK
  BY <1>1, <1>2 DEF Init, TypeOK, Moves, Rest
<1>4. \A t \in Tasks : MoveInv(t)
  BY <1>1, <1>2 DEF MoveInv, In
<1> QED
  BY <1>3, <1>4 DEF Inv

-----------------------------------------------------------------------------
(***************************************************************************)
(* Types, and the lock.                                                    *)
(***************************************************************************)

(* The call of one task changes to m and the lock follows it.               *)
LEMMA MoveTyped ==
  ASSUME TypeOK, NEW t \in Tasks, NEW m \in Moves,
         at' = [at EXCEPT ![t] = m],
         owner' \in Tasks \cup {Nobody},
         owner' = t <=> m.pc \notin {"idle", "lock"},
         \A u \in Tasks : u # t => (owner' = u <=> owner = u),
         connected' \in BOOLEAN,
         motor' \in [direction : Directions \cup {"none"}, by : Tasks \cup {Nobody}],
         unstopped' \subseteq Tasks
  PROVE  TypeOK'
<1>1. at' \in [Tasks -> Moves]
  BY DEF TypeOK, Moves
<1>2. ASSUME NEW u \in Tasks
      PROVE  owner' = u <=> at'[u].pc \notin {"idle", "lock"}
  BY DEF TypeOK
<1> QED
  BY <1>1, <1>2 DEF TypeOK, Moves

(* A task that holds the lock goes on holding it.                           *)
LEMMA InsideTyped ==
  ASSUME TypeOK, NEW t \in Tasks, NEW m \in Moves,
         at' = [at EXCEPT ![t] = m],
         at[t].pc \notin {"idle", "lock"} <=> m.pc \notin {"idle", "lock"},
         UNCHANGED owner,
         connected' \in BOOLEAN,
         motor' \in [direction : Directions \cup {"none"}, by : Tasks \cup {Nobody}],
         unstopped' \subseteq Tasks
  PROVE  TypeOK'
<1>1. owner' = t <=> m.pc \notin {"idle", "lock"}
  BY DEF TypeOK
<1> QED
  BY <1>1, MoveTyped DEF TypeOK

(* A call returns.                                                          *)
LEMMA ReturnTyped ==
  ASSUME TypeOK, NEW t \in Tasks, NEW error \in Errors, Return(t, error),
         connected' \in BOOLEAN,
         motor' = motor,
         unstopped' \subseteq Tasks
  PROVE  TypeOK'
<1> DEFINE m == [at[t] EXCEPT !.pc = "idle", !.error = error]
<1>0. at[t] \in Moves
  BY DEF TypeOK, Moves
<1>1. m \in Moves /\ m.pc = "idle"
  BY <1>0 DEF Moves
<1>2. at' = [at EXCEPT ![t] = m]
  BY DEF Return
<1>3. owner' \in Tasks \cup {Nobody} /\ owner' # t
  BY NobodyAssumption DEF Return, TypeOK
<1>4. \A u \in Tasks : u # t => (owner' = u <=> owner = u)
  BY NobodyAssumption DEF Return
<1> QED
  BY <1>1, <1>2, <1>3, <1>4, MoveTyped DEF TypeOK

LEMMA StepTyped ==
  ASSUME TypeOK, NEW t \in Tasks, Step(t)
  PROVE  TypeOK'
<1> USE DEF In, Goto
<1>0. at[t] \in Moves /\ at \in [Tasks -> Moves]
  BY DEF TypeOK, Moves
<1>1. CASE Locked(t)
  <2> DEFINE m == [at[t] EXCEPT !.pc = "applicable"]
  <2>1. m \in Moves /\ m.pc = "applicable"
    BY <1>0 DEF Moves
  <2>2. \A u \in Tasks : u # t => (owner' = u <=> owner = u)
    BY <1>1, NobodyAssumption DEF Locked
  <2> QED
    BY <1>1, <2>1, <2>2, MoveTyped DEF Locked, TypeOK
<1>2. CASE Applicable(t)
  <2>1. CASE Goto(t, "start") /\ UNCHANGED owner
    <3> DEFINE m == [at[t] EXCEPT !.pc = "start"]
    <3>1. m \in Moves /\ m.pc = "start"
      BY <1>0 DEF Moves
    <3> QED
      BY <1>2, <2>1, <3>1, InsideTyped DEF Applicable, TypeOK
  <2>2. CASE Return(t, "error")
    BY <1>2, <2>2, ReturnTyped DEF Applicable, TypeOK, Errors
  <2> QED
    BY <1>2, <2>1, <2>2 DEF Applicable
<1>3. CASE SendStart(t)
  <2>1. PICK reached \in BOOLEAN :
          /\ motor' = IF reached THEN [direction |-> at[t].direction, by |-> t] ELSE motor
          /\ unstopped' = IF reached THEN unstopped \ {t} ELSE unstopped
          /\ at' = [at EXCEPT ![t].pc = "starting", ![t].done = reached]
    BY <1>3 DEF SendStart
  <2> DEFINE m == [at[t] EXCEPT !.pc = "starting", !.done = reached]
  <2>2. m \in Moves /\ m.pc = "starting" /\ at' = [at EXCEPT ![t] = m]
    BY <1>0, <2>1 DEF Moves
  <2>3. motor' \in [direction : Directions \cup {"none"}, by : Tasks \cup {Nobody}]
    BY <1>0, <2>1 DEF TypeOK, Moves
  <2>4. unstopped' \subseteq Tasks
    BY <2>1 DEF TypeOK
  <2> QED
    BY <1>3, <2>2, <2>3, <2>4, InsideTyped DEF SendStart
<1>4. ASSUME NEW error \in Errors, BodyEnds(t, error),
             at[t].pc \in {"start", "starting", "moving"},
             connected' \in BOOLEAN, UNCHANGED <<motor, unstopped>>
      PROVE  TypeOK'
  <2> DEFINE m == [at[t] EXCEPT !.pc = "stop", !.error = error]
  <2>1. m \in Moves /\ m.pc = "stop" /\ at' = [at EXCEPT ![t] = m]
    BY <1>0, <1>4 DEF Moves, BodyEnds
  <2> QED
    BY <1>4, <2>1, InsideTyped DEF BodyEnds, TypeOK
<1>5. CASE NoConnection(t)
  BY <1>5, <1>4 DEF NoConnection, Errors
<1>6. CASE Started(t)
  <2> DEFINE m == [at[t] EXCEPT !.pc = "moving"]
  <2>1. m \in Moves /\ m.pc = "moving"
    BY <1>0 DEF Moves
  <2> QED
    BY <1>6, <2>1, InsideTyped DEF Started, TypeOK
<1>7. CASE StartFails(t)
  BY <1>7, <1>4 DEF StartFails, Errors, TypeOK
<1>8. CASE Deadline(t)
  <2> DEFINE m == [at[t] EXCEPT !.expired = TRUE]
  <2>1. m \in Moves /\ m.pc = at[t].pc
    BY <1>0 DEF Moves
  <2> QED
    BY <1>8, <2>1, InsideTyped DEF Deadline, TypeOK
<1>9. CASE Interrupted(t)
  BY <1>9, <1>4 DEF Interrupted, Errors, TypeOK
<1>10. CASE MoveEnds(t)
  BY <1>10, <1>4 DEF MoveEnds, Errors, TypeOK
<1>11. CASE SendStop(t)
  <2>1. PICK reached \in BOOLEAN :
          /\ motor' = IF reached /\ motor.direction = at[t].direction THEN Rest ELSE motor
          /\ at' = [at EXCEPT ![t].pc = "stopping", ![t].done = reached]
    BY <1>11 DEF SendStop
  <2> DEFINE m == [at[t] EXCEPT !.pc = "stopping", !.done = reached]
  <2>2. m \in Moves /\ m.pc = "stopping" /\ at' = [at EXCEPT ![t] = m]
    BY <1>0, <2>1 DEF Moves
  <2>3. motor' \in [direction : Directions \cup {"none"}, by : Tasks \cup {Nobody}]
    BY <2>1 DEF TypeOK, Rest
  <2> QED
    BY <1>11, <2>2, <2>3, InsideTyped DEF SendStop, TypeOK
<1>12. ASSUME NEW error \in Errors
       PROVE  Outcome(t, error) \in Errors
  BY <1>0, <1>12 DEF Outcome, Errors, Moves
<1>13. CASE Stopped(t)
  <2>1. Outcome(t, "none") \in Errors
    BY <1>12 DEF Errors
  <2> QED
    BY <1>13, <2>1, ReturnTyped DEF Stopped, TypeOK
<1>14. CASE StopFails(t)
  <2>1. Outcome(t, "uncertain") \in Errors
    BY <1>12 DEF Errors
  <2> QED
    BY <1>14, <2>1, ReturnTyped DEF StopFails, TypeOK
<1> QED
  BY <1>1, <1>2, <1>3, <1>5, <1>6, <1>7, <1>8, <1>9, <1>10, <1>11, <1>13, <1>14 DEF Step

LEMMA NextTyped == TypeOK /\ [Next]_vars => TypeOK'
<1> SUFFICES ASSUME TypeOK, [Next]_vars PROVE TypeOK'
  OBVIOUS
<1> USE DEF In
<1>1. ASSUME NEW t \in Tasks, NEW direction \in Directions, Call(t, direction)
      PROVE  TypeOK'
  <2> DEFINE m == [Idle EXCEPT !.pc = "lock", !.direction = direction]
  <2>1. m \in Moves /\ m.pc = "lock"
    BY DEF Idle, Moves, Errors
  <2>2. owner # t
    BY <1>1 DEF Call, TypeOK
  <2> QED
    BY <1>1, <2>1, <2>2, MoveTyped DEF Call, TypeOK
<1>2. ASSUME NEW t \in Tasks, Cancel(t)
      PROVE  TypeOK'
  <2> DEFINE m == [at[t] EXCEPT !.cancelled = TRUE]
  <2>1. at[t] \in Moves
    BY DEF TypeOK, Moves
  <2>2. m \in Moves /\ m.pc = at[t].pc
    BY <2>1 DEF Moves
  <2>3. CASE at[t].pc \in {"lock", "applicable"}
    BY <1>2, <2>3, ReturnTyped DEF Cancel, TypeOK, Errors
  <2>4. CASE at[t].pc \notin {"lock", "applicable"}
    BY <1>2, <2>2, <2>4, InsideTyped, ZenonT(40) DEF Cancel, TypeOK
  <2> QED
    BY <2>3, <2>4
<1>3. ASSUME NEW direction \in Directions, ManualStop(direction)
      PROVE  TypeOK'
  BY <1>3 DEF ManualStop, TypeOK, Rest
<1>4. CASE SessionChanges
  BY <1>4 DEF SessionChanges, TypeOK
<1>5. CASE UNCHANGED vars
  BY <1>5 DEF vars, TypeOK
<1> QED
  BY <1>1, <1>2, <1>3, <1>4, <1>5, StepTyped DEF Next

-----------------------------------------------------------------------------
(***************************************************************************)
(* The motor.                                                              *)
(***************************************************************************)

(* The step of one task leaves the moves of the others as they were; only   *)
(* a start sets the motor moving.                                           *)
LEMMA OthersUntouched ==
  ASSUME TypeOK, NEW t \in Tasks,
         Step(t) \/ Cancel(t) \/ (\E d \in Directions : Call(t, d)),
         NEW u \in Tasks, u # t
  PROVE  /\ at'[u] = at[u]
         /\ u \in unstopped' <=> u \in unstopped
         /\ motor' = motor \/ motor'.by = Nobody \/ (SendStart(t) /\ motor'.by = t)
<1>0. at \in [Tasks -> Moves]
  BY DEF TypeOK, Moves
<1> USE <1>0 DEF Goto, Return, BodyEnds
<1>1. CASE \E d \in Directions : Call(t, d)
  BY <1>1 DEF Call
<1>2. CASE Cancel(t)
  BY <1>2 DEF Cancel
<1>3. CASE Locked(t) \/ Applicable(t) \/ NoConnection(t) \/ Started(t)
  BY <1>3 DEF Locked, Applicable, NoConnection, Started
<1>4. CASE SendStart(t)
  <2>1. PICK reached \in BOOLEAN :
          /\ motor' = IF reached THEN [direction |-> at[t].direction, by |-> t] ELSE motor
          /\ unstopped' = IF reached THEN unstopped \ {t} ELSE unstopped
          /\ at' = [at EXCEPT ![t].pc = "starting", ![t].done = reached]
    BY <1>4 DEF SendStart
  <2>2. motor' = motor \/ motor'.by = t
    BY <2>1
  <2> QED
    BY <1>4, <2>1, <2>2
<1>5. CASE StartFails(t) \/ Deadline(t) \/ Interrupted(t) \/ MoveEnds(t)
  BY <1>5 DEF StartFails, Deadline, Interrupted, MoveEnds
<1>6. CASE SendStop(t)
  BY <1>6 DEF SendStop, Rest
<1>7. CASE Stopped(t) \/ StopFails(t)
  BY <1>7 DEF Stopped, StopFails
<1> QED
  BY <1>1, <1>2, <1>3, <1>4, <1>5, <1>6, <1>7 DEF Step

LEMMA OthersKeep ==
  ASSUME Inv, NEW t \in Tasks,
         Step(t) \/ Cancel(t) \/ (\E d \in Directions : Call(t, d)),
         NEW u \in Tasks, u # t
  PROVE  MoveInv(u)'
<1>1. /\ at'[u] = at[u]
      /\ u \in unstopped' <=> u \in unstopped
      /\ motor' = motor \/ motor'.by = Nobody \/ (SendStart(t) /\ motor'.by = t)
  BY OthersUntouched DEF Inv
<1>2. SendStart(t) => at[u].pc \in {"idle", "lock"}
  BY DEF SendStart, In, Inv, TypeOK
<1>3. MoveInv(u)
  BY DEF Inv
<1> QED
  BY <1>1, <1>2, <1>3, NobodyAssumption DEF MoveInv, In

(* The step of a task, for its own move.                                    *)
LEMMA OwnMove ==
  ASSUME Inv, NEW t \in Tasks, Step(t)
  PROVE  MoveInv(t)'
<1>0. at[t] \in Moves /\ at \in [Tasks -> Moves] /\ MoveInv(t)
  BY DEF Inv, TypeOK, Moves
<1> USE <1>0 DEF In, Goto
<1>1. CASE Locked(t)
  BY <1>1 DEF Locked, MoveInv
<1>2. CASE Applicable(t)
  <2>1. motor' = motor /\ unstopped' = unstopped /\ at[t].pc = "applicable"
    BY <1>2 DEF Applicable
  <2>2. \/ at'[t] = [at[t] EXCEPT !.pc = "start"]
        \/ at'[t] = [at[t] EXCEPT !.pc = "idle", !.error = "error"]
    BY <1>2 DEF Applicable, Return
  <2> QED
    BY <2>1, <2>2 DEF MoveInv, Moves
<1>3. CASE SendStart(t)
  BY <1>3 DEF SendStart, MoveInv
<1>4. CASE NoConnection(t)
  BY <1>4 DEF NoConnection, BodyEnds, MoveInv
<1>5. CASE Started(t)
  BY <1>5 DEF Started, MoveInv
<1>6. CASE StartFails(t)
  BY <1>6 DEF StartFails, BodyEnds, MoveInv
<1>7. CASE Deadline(t)
  BY <1>7 DEF Deadline, MoveInv
<1>8. CASE Interrupted(t)
  BY <1>8 DEF Interrupted, BodyEnds, MoveInv
<1>9. CASE MoveEnds(t)
  BY <1>9 DEF MoveEnds, BodyEnds, MoveInv
<1>10. CASE SendStop(t)
  BY <1>10, NobodyAssumption DEF SendStop, Rest, MoveInv
<1>11. CASE Stopped(t)
  BY <1>11 DEF Stopped, Outcome, Return, MoveInv
<1>12. CASE StopFails(t)
  BY <1>12 DEF StopFails, Outcome, Return, MoveInv
<1> QED
  BY <1>1, <1>2, <1>3, <1>4, <1>5, <1>6, <1>7, <1>8, <1>9, <1>10, <1>11, <1>12 DEF Step

LEMMA NextInv == Inv /\ [Next]_vars => Inv'
<1> SUFFICES ASSUME Inv, [Next]_vars PROVE Inv'
  OBVIOUS
<1>0. TypeOK' /\ at \in [Tasks -> Moves]
  BY NextTyped DEF Inv, TypeOK, Moves
<1>1. ASSUME NEW t \in Tasks,
             Step(t) \/ Cancel(t) \/ (\E d \in Directions : Call(t, d)),
             NEW u \in Tasks
      PROVE  MoveInv(u)'
  <2>1. CASE u # t
    BY <1>1, <2>1, OthersKeep
  <2>2. CASE u = t /\ Step(t)
    BY <2>2, OwnMove
  <2>3. CASE u = t /\ Cancel(t)
    <3>1. motor' = motor /\ unstopped' = unstopped
      BY <2>3 DEF Cancel
    <3>2. \/ at'[t] = [at[t] EXCEPT !.cancelled = TRUE]
          \/ /\ at[t].pc \in {"lock", "applicable"}
             /\ at'[t] = [at[t] EXCEPT !.pc = "idle", !.error = "cancelled"]
      BY <1>0, <2>3 DEF Cancel, Return
    <3> QED
      BY <1>0, <2>3, <3>1, <3>2 DEF Inv, MoveInv, In, Moves
  <2>4. CASE u = t /\ \E d \in Directions : Call(t, d)
    BY <1>0, <2>4 DEF Inv, Call, Idle, MoveInv, In
  <2> QED
    BY <1>1, <2>1, <2>2, <2>3, <2>4
<1>2. ASSUME NEW direction \in Directions, ManualStop(direction), NEW u \in Tasks
      PROVE  MoveInv(u)'
  BY <1>2, NobodyAssumption DEF Inv, ManualStop, Rest, MoveInv, In
<1>3. ASSUME SessionChanges \/ UNCHANGED vars, NEW u \in Tasks
      PROVE  MoveInv(u)'
  BY <1>3 DEF Inv, SessionChanges, vars, MoveInv, In
<1> QED
  BY <1>0, <1>1, <1>2, <1>3 DEF Next, Inv

LEMMA Invariant == Spec => []Inv
  BY InitInv, NextInv, PTL DEF Spec

-----------------------------------------------------------------------------
(* The variables keep their types, and the lock is held exactly by the move *)
(* that is inside (1854).                                                   *)
THEOREM TypeCorrect == Spec => []TypeOK
<1>1. Inv => TypeOK
  BY DEF Inv
<1> QED
  BY <1>1, Invariant, PTL

(* Whatever becomes of its start, its deadline and its cancellation, a move *)
(* that is over has left the motor moving only if its stop was tried and    *)
(* failed (1919-1938).                                                      *)
THEOREM MotorIsAttended == Spec => []NeverLeftUnattended
<1>1. Inv => NeverLeftUnattended
  BY DEF Inv, MoveInv, In, NeverLeftUnattended
<1> QED
  BY <1>1, Invariant, PTL

(* A move that reports success has stopped the motor (1925-1933).           *)
THEOREM SuccessfulMovesStop == Spec => []SuccessIsStopped
<1>1. Inv => SuccessIsStopped
  BY DEF Inv, MoveInv, In, SuccessIsStopped
<1> QED
  BY <1>1, Invariant, PTL

(* While a move waits for its duration the motor moves for nobody else      *)
(* (1854).                                                                  *)
THEOREM MovesAreSerialized == Spec => []MovesDoNotOverlap
<1>1. Inv => MovesDoNotOverlap
  BY DEF Inv, MoveInv, In, MovesDoNotOverlap
<1> QED
  BY <1>1, Invariant, PTL
=============================================================================
