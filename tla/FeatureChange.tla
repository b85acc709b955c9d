---------------------------- MODULE FeatureChange ----------------------------
(***************************************************************************)
(* The setters of VStarcamCamera (camera.py) that take more than one       *)
(* command: those that read the fields they are not asked to change before *)
(* they write all of them (time, motion, rtsp), the night-vision           *)
(* transition in two writes, and Wi-Fi, which scans first and closes the   *)
(* session afterwards.  Several tasks call them; some take a lock.         *)
(*                                                                         *)
(* A write is the one-shot change of ServiceChange: sent at most once, and *)
(* an abandoned one has reached the camera or never will, since the camera *)
(* drops what belongs to a closed session.                                 *)
(***************************************************************************)
EXTENDS Integers

CONSTANTS
  Tasks,      (* asyncio tasks that call setters                            *)
  Nobody,     (* the owner of a free lock                                   *)
  Values,     (* what a field is set to                                     *)
  Keep,       (* an argument that is left out                               *)
  LampFirst,  (* the night-vision modes that set the lamp before the image  *)
  MaxCalls    (* bound: calls made                                          *)

ASSUME NobodyAssumption == Nobody \notin Tasks
ASSUME KeepAssumption   == Keep \notin Values
ASSUME LampAssumption   == LampFirst \subseteq Values
ASSUME BoundAssumption  == MaxCalls \in Nat

Features == {"time", "motion", "rtsp", "night", "wifi"}
Locking  == {"time", "night", "wifi"}
Reading  == {"time", "motion", "rtsp"}

(* Two fields stand for all of a feature; a night-vision mode is two        *)
(* parameters, lamp and image, each written by a command of its own.        *)
Fields   == 1 .. 2
Steps(f) == IF f = "night" THEN 2 ELSE 1

VARIABLES
  settings,  (* camera: per feature, the value of each field                *)
  wanted,    (* history: per feature and field, the value last asked for in *)
             (* a write that reached the camera                             *)
  owner,     (* per feature, the owner of its lock                          *)
  at,        (* per task: where it awaits (pc), the feature, the arguments  *)
             (* given, the values to write, the writes acknowledged (done), *)
             (* whether one was sent, whether the last one reached the      *)
             (* camera, and the outcome                                     *)
  calls      (* bound: calls made so far                                    *)

camera == <<settings, wanted>>
vars   == <<camera, owner, at, calls>>

Arguments == [Fields -> Values \cup {Keep}]
Nothing   == [i \in Fields |-> Keep]

Idle == [pc |-> "idle", feature |-> "time", given |-> Nothing, values |-> Nothing,
         done |-> 0, sent |-> FALSE, reached |-> FALSE, outcome |-> "none"]

Init ==
  /\ settings \in [Features -> {[i \in Fields |-> v] : v \in Values}]
  /\ \A f, g \in Features : settings[f] = settings[g]
  /\ wanted = settings
  /\ owner = [f \in Locking |-> Nobody]
  /\ at = [t \in Tasks |-> Idle]
  /\ calls = 0

In(t, where)   == at[t].pc = where
Goto(t, where) == at' = [at EXCEPT ![t].pc = where]

(* The arguments of a call: a mode and a network are given whole, motion    *)
(* detection is told to be on or off, something is given at all.            *)
Admissible(f, given) ==
  /\ f \notin Reading => given[1] # Keep /\ given[2] = given[1]
  /\ f = "motion" => given[1] # Keep
  /\ given # Nothing

-----------------------------------------------------------------------------
Call(t, f, given) ==
  /\ In(t, "idle") /\ calls < MaxCalls
  /\ Admissible(f, given)
  /\ at' = [at EXCEPT ![t] = [Idle EXCEPT
              !.pc = IF f \in Locking THEN "lock" ELSE "read",
              !.feature = f, !.given = given, !.values = given]]
  /\ calls' = calls + 1
  /\ UNCHANGED <<camera, owner>>

(* Mutant: the lock is taken after the read.                                *)
LockIgnored(t) ==
  /\ In(t, "lock")
  /\ Goto(t, "read")
  /\ UNCHANGED <<camera, owner, calls>>

Locked(t) ==
  /\ In(t, "lock") /\ owner[at[t].feature] = Nobody
  /\ owner' = [owner EXCEPT ![at[t].feature] = t]
  /\ Goto(t, "read")
  /\ UNCHANGED <<camera, calls>>

(* The getter, whose values complete the arguments; for night vision and    *)
(* Wi-Fi a capability query and a scan.  With every argument given there is *)
(* nothing to read of time and RTSP settings.                               *)
Read(t) ==
  /\ In(t, "read")
  /\ at' = [at EXCEPT
       ![t].pc = "connect",
       ![t].values = [i \in Fields |-> IF at[t].given[i] = Keep
                                       THEN settings[at[t].feature][i]
                                       ELSE at[t].given[i]]]
  /\ UNCHANGED <<camera, owner, calls>>

(* The call ends; Wi-Fi closes the session before it does.                  *)
Return(t, outcome) ==
  /\ at' = [at EXCEPT ![t].pc = "idle", ![t].outcome = outcome]
  /\ owner' = [f \in Locking |-> IF owner[f] = t THEN Nobody ELSE owner[f]]

(* Mutant: an error keeps the lock.                                         *)
EndLocked(t, outcome) ==
  /\ at' = [at EXCEPT ![t].pc = IF at[t].feature = "wifi" THEN "close" ELSE "idle",
                      ![t].outcome = outcome]
  /\ UNCHANGED owner

End(t, outcome) ==
  \/ at[t].feature # "wifi" /\ Return(t, outcome)
  \/ /\ at[t].feature = "wifi"
     /\ at' = [at EXCEPT ![t].pc = "close", ![t].outcome = outcome]
     /\ UNCHANGED owner

Closed(t) ==
  /\ In(t, "close")
  /\ Return(t, at[t].outcome)
  /\ UNCHANGED <<camera, calls>>

(* ... or the command cannot be built from them.                            *)
ReadFails(t) ==
  /\ In(t, "read")
  /\ End(t, "error")
  /\ UNCHANGED <<camera, calls>>

-----------------------------------------------------------------------------
(* What a write sets: every field, or the parameter of its step, in an      *)
(* order that depends on the mode.                                          *)
Written(t) ==
  IF at[t].feature # "night" THEN Fields
  ELSE {IF at[t].values[1] \in LampFirst THEN at[t].done + 1 ELSE 2 - at[t].done}

Applied(t) ==
  LET f == at[t].feature
  IN  /\ settings' = [settings EXCEPT ![f] =
            [i \in Fields |-> IF i \in Written(t) THEN at[t].values[i] ELSE @[i]]]
      /\ wanted' = [wanted EXCEPT ![f] =
            [i \in Fields |-> IF i \in Written(t) /\ at[t].given[i] # Keep
                              THEN at[t].given[i] ELSE @[i]]]

(* The session is there, or connected, and the write is sent.               *)
Send(t) ==
  /\ In(t, "connect")
  /\ \E reached \in BOOLEAN :
       /\ at' = [at EXCEPT ![t].pc = "sent", ![t].sent = TRUE, ![t].reached = reached]
       /\ \/ reached /\ Applied(t)
          \/ ~reached /\ UNCHANGED camera
  /\ UNCHANGED <<owner, calls>>

(* After one step of a transition nothing is plain any more.                *)
ConnectFails(t) ==
  /\ In(t, "connect")
  /\ End(t, IF at[t].done > 0 THEN "uncertain" ELSE "error")
  /\ UNCHANGED <<camera, calls>>

(* A response: the next step, or the end.  What the responses of motion,    *)
(* RTSP and Wi-Fi mean is not proven.                                       *)
Acknowledged(t) ==
  /\ In(t, "sent") /\ at[t].reached
  /\ \/ /\ at[t].done + 1 < Steps(at[t].feature)
        /\ at' = [at EXCEPT ![t].pc = "connect", ![t].done = @ + 1]
        /\ UNCHANGED owner
     \/ /\ at[t].done + 1 = Steps(at[t].feature)
        /\ End(t, IF at[t].feature \in {"time", "night"} THEN "ok" ELSE "uncertain")
  /\ UNCHANGED <<camera, calls>>

(* None, or one that is not the expected.                                   *)
NotAcknowledged(t) ==
  /\ In(t, "sent")
  /\ End(t, "uncertain")
  /\ UNCHANGED <<camera, calls>>

-----------------------------------------------------------------------------
(* Mutant: a cancellation between the steps is passed on as it is.          *)
CancelPlain(t) ==
  /\ at[t].pc \in {"lock", "read", "connect"}
  /\ End(t, "cancelled")
  /\ UNCHANGED <<camera, calls>>

CancelQuiet(t) ==
  /\ at[t].pc \in {"lock", "read", "connect"}
  /\ \/ In(t, "lock") /\ Return(t, "cancelled")
     \/ ~In(t, "lock") /\ End(t, IF at[t].done > 0 THEN "changeCancelled" ELSE "cancelled")
  /\ UNCHANGED <<camera, calls>>

CancelSent(t) ==
  /\ In(t, "sent")
  /\ End(t, "changeCancelled")
  /\ UNCHANGED <<camera, calls>>

(* The cancellation takes the place of the error that is being raised.      *)
CancelClose(t) ==
  /\ In(t, "close")
  /\ Return(t, "cancelled")
  /\ UNCHANGED <<camera, calls>>

Step(t) ==
  \/ Locked(t) \/ Read(t) \/ ReadFails(t) \/ Send(t) \/ ConnectFails(t)
  \/ Acknowledged(t) \/ NotAcknowledged(t) \/ Closed(t)

Next ==
  \E t \in Tasks :
    \/ \E f \in Features, given \in Arguments : Call(t, f, given)
    \/ Step(t)
    \/ CancelQuiet(t) \/ CancelSent(t) \/ CancelClose(t)

Spec == Init /\ [][Next]_vars

(* Commands end (ServiceChange), and locks are first come, first served.    *)
FairSpec == Spec /\ \A t \in Tasks : SF_vars(Step(t))
-----------------------------------------------------------------------------
(***************************************************************************)
(* Properties.                                                             *)
(***************************************************************************)
CallState ==
  [pc : {"idle", "lock", "read", "connect", "sent", "close"}, feature : Features,
   given : Arguments, values : Arguments, done : 0 .. 1, sent : BOOLEAN,
   reached : BOOLEAN,
   outcome : {"none", "ok", "error", "uncertain", "cancelled", "changeCancelled"}]

(* The types; no unset value is ever written; a lock is held exactly by the *)
(* call that is inside.                                                     *)
TypeOK ==
  /\ settings \in [Features -> [Fields -> Values]]
  /\ wanted \in [Features -> [Fields -> Values]]
  /\ owner \in [Locking -> Tasks \cup {Nobody}]
  /\ at \in [Tasks -> CallState]
  /\ calls \in 0 .. MaxCalls
  /\ \A t \in Tasks : at[t].pc \in {"connect", "sent"} => at[t].values \in [Fields -> Values]
  /\ \A t \in Tasks, f \in Locking :
       owner[f] = t <=> at[t].feature = f /\ at[t].pc \notin {"idle", "lock"}

(* A setter of the time settings changes what it was asked to, and every    *)
(* other field keeps the value somebody last asked for: two tasks do not    *)
(* undo each other's changes (1436-1476).                                   *)
AdjacentFieldsArePreserved == settings["time"] = wanted["time"]

(* A setter that reports success leaves the camera with its values: the     *)
(* steps of two transitions do not mix (1515, 1534-1550).                   *)
SuccessIsApplied ==
  [][\A t \in Tasks :
       ~In(t, "idle") /\ at'[t].pc = "idle" /\ at'[t].outcome = "ok" =>
         settings'[at[t].feature] = at[t].values]_vars

(* Once a write was sent no setter but Wi-Fi's ends in an error or a        *)
(* cancellation that reads as if nothing had happened, in the middle of a   *)
(* transition either (505-520, 1551-1564).                                  *)
Denied(t) == In(t, "idle") /\ at[t].sent /\ at[t].outcome \in {"error", "cancelled"}
PartialChangeIsUncertain ==
  \A t \in Tasks : at[t].feature # "wifi" => ~Denied(t)

(* Every setter returns and gives its lock back.                            *)
SetterReturns == \A t \in Tasks : ~In(t, "idle") ~> In(t, "idle")

(* "Cancellation interrupted a one-shot Wi-Fi write with an unknown         *)
(* outcome" (errors.py:63) is what the caller of a cancelled Wi-Fi write is *)
(* told.                                                                    *)
CancelledWifiChangeIsUncertain ==
  \A t \in Tasks : at[t].feature = "wifi" => ~Denied(t)
=============================================================================
