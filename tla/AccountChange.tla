---------------------------- MODULE AccountChange ----------------------------
(***************************************************************************)
(* set_camera_account_password() (camera.py): change the external WebPwd   *)
(* of the camera with one write, or enable it for the first time with up   *)
(* to four writes on one session, and then read it back on a fresh one.    *)
(*                                                                         *)
(* Once the preflight is over, the change runs as a child task that a      *)
(* cancellation of the caller does not reach.  Other tasks of the camera   *)
(* open and close its sessions meanwhile.  The steps that open no session  *)
(* when there is none are those of the first enable.                       *)
(***************************************************************************)
EXTENDS Integers, Sequences

CONSTANTS
  Tasks,       (* asyncio tasks that change the account                     *)
  Nobody,      (* the owner of the free account lock                        *)
  Passwords,   (* the passwords they set                                    *)
  Empty,       (* no WebPwd                                                 *)
  MaxSession   (* bound: sessions opened                                    *)

ASSUME NobodyAssumption == Nobody \notin Tasks
ASSUME EmptyAssumption  == Empty \notin Passwords /\ Passwords # {}
ASSUME BoundAssumption  == MaxSession \in Nat

(* The commands of a change: the owner's credential, the reading that       *)
(* confirms it, the empty password that opens the slot, the password and    *)
(* the restart.  A change of an existing password is its password step.     *)
Steps == {"owner", "confirm", "plaintext", "password", "restart"}

VARIABLES
  connected,  (* transport.connected                                        *)
  session,    (* the number of the session opened last                      *)
  owner,      (* the owner of _account_lock                                 *)
  web,        (* camera: WebPwd                                             *)
  dual,       (* camera: DualAuthentication                                 *)
  sent,       (* history: per task, the commands of its call: the step, the *)
              (* session, and whether it was acknowledged as expected       *)
  at          (* per task: where it awaits (pc), the password, whether it   *)
              (* enables the account for the first time (first), the step,  *)
              (* whether others replaced the session (replaced), what the   *)
              (* fresh session showed (verified) and on which (fresh),      *)
              (* whether the caller was cancelled, and the error so far,    *)
              (* in the end that of the call                                *)

transport == <<connected, session>>
camera    == <<web, dual>>
vars      == <<transport, owner, camera, sent, at>>

Idle ==
  [pc |-> "idle", password |-> Empty, first |-> FALSE, step |-> "password",
   replaced |-> FALSE, verified |-> "no", fresh |-> 0, cancelled |-> FALSE,
   error |-> "none"]

Init ==
  /\ connected = FALSE /\ session = 0 /\ owner = Nobody
  /\ web \in Passwords \cup {Empty}
  /\ dual \in 0 .. 2
  /\ sent = [t \in Tasks |-> <<>>]
  /\ at = [t \in Tasks |-> Idle]

In(t, where) == at[t].pc = where
Goto(t, where) == at' = [at EXCEPT ![t].pc = where]

-----------------------------------------------------------------------------
(* Other tasks of the camera and the network.                               *)

Opens ==
  /\ session < MaxSession
  /\ connected' = TRUE
  /\ session' = session + 1

OtherConnects ==
  /\ ~connected /\ Opens
  /\ at' = [t \in Tasks |-> [at[t] EXCEPT !.replaced = ~In(t, "idle")]]
  /\ UNCHANGED <<owner, camera, sent>>

SessionEnds ==
  /\ connected /\ connected' = FALSE
  /\ UNCHANGED <<session, owner, camera, sent, at>>

-----------------------------------------------------------------------------
Call(t, password) ==
  /\ In(t, "idle")
  /\ at' = [at EXCEPT ![t] = [Idle EXCEPT !.pc = "lock", !.password = password]]
  /\ UNCHANGED <<transport, owner, camera, sent>>

Locked(t) ==
  /\ In(t, "lock") /\ owner = Nobody
  /\ owner' = t
  /\ Goto(t, "params")
  /\ UNCHANGED <<transport, camera, sent>>

(* The call ends.  A cancellation of the caller replaces every outcome but  *)
(* an AccountChangeCancelledError.                                          *)
Raised(t, error) ==
  IF at[t].cancelled /\ error # "changeCancelled" THEN "cancelled" ELSE error

(* Mutant: a caller that is cancelled keeps the lock.                       *)
CancelledKeepsLock(t, error) ==
  /\ at' = [at EXCEPT ![t] = [Idle EXCEPT !.error = Raised(t, error)]]
  /\ sent' = [sent EXCEPT ![t] = <<>>]
  /\ owner' = IF owner = t /\ ~at[t].cancelled THEN Nobody ELSE owner

Finish(t, error) ==
  /\ at' = [at EXCEPT ![t] = [Idle EXCEPT !.error = Raised(t, error)]]
  /\ sent' = [sent EXCEPT ![t] = <<>>]
  /\ owner' = IF owner = t THEN Nobody ELSE owner

-----------------------------------------------------------------------------
(* The preflight: reads with retries, on the session there is or on a new   *)
(* one.                                                                     *)
Reads == (connected /\ UNCHANGED transport) \/ Opens

GiveUp(t, error) == at' = [at EXCEPT ![t].pc = "giveUp", ![t].error = error]

(* get_params(): the user slot must be the configured one.                  *)
Params(t) ==
  /\ In(t, "params") /\ Reads
  /\ \/ at' = [at EXCEPT ![t].pc = IF web = Empty THEN "status" ELSE "send",
                         ![t].first = (web = Empty), ![t].replaced = FALSE]
     \/ GiveUp(t, "error")
  /\ UNCHANGED <<owner, camera, sent>>

FirstStep(state) == CASE state = 0 -> "owner" [] state = 1 -> "plaintext" [] OTHER -> "password"

(* _get_login_status(); then the child task starts, and refuses an account  *)
(* that its configuration or the camera's state does not allow to enable.   *)
Status(t) ==
  /\ In(t, "status") /\ Reads
  /\ \/ at' = [at EXCEPT ![t].pc = "send", ![t].step = FirstStep(dual),
                         ![t].replaced = FALSE]
     \/ at' = [at EXCEPT ![t].pc = "close", ![t].error = "error"]
  /\ UNCHANGED <<owner, camera, sent>>

PreflightFails(t) ==
  /\ at[t].pc \in {"params", "status"}
  /\ connected' \in {FALSE, connected}
  /\ GiveUp(t, "error")
  /\ UNCHANGED <<session, owner, camera, sent>>

GivesUp(t) ==
  /\ In(t, "giveUp")
  /\ connected' = FALSE
  /\ Finish(t, at[t].error)
  /\ UNCHANGED <<session, camera>>

-----------------------------------------------------------------------------
(* The writes, each at most once.  What the camera does with one that       *)
(* reaches it:                                                              *)
Effect(t, step) ==
  /\ web' = IF step = "password" THEN at[t].password ELSE web
  /\ dual' = IF step = "owner" /\ dual = 0 THEN 1
             ELSE IF step = "plaintext" /\ dual < 2 THEN 2 ELSE dual

Put(t) ==
  sent' = [sent EXCEPT ![t] = Append(@, [step |-> at[t].step, on |-> session',
                                         acked |-> FALSE])]

(* Mutant: every step connects when there is no session.                    *)
SendConnects(t) ==
  /\ In(t, "send")
  /\ \/ connected /\ UNCHANGED transport
     \/ ~connected /\ Opens
  /\ \/ Effect(t, at[t].step)
     \/ UNCHANGED camera
  /\ Put(t)
  /\ Goto(t, "sent")
  /\ UNCHANGED owner

Send(t) ==
  /\ In(t, "send")
  /\ \/ connected /\ UNCHANGED transport
     \/ ~connected /\ ~at[t].first /\ Opens
  /\ \/ Effect(t, at[t].step)
     \/ UNCHANGED camera
  /\ Put(t)
  /\ Goto(t, "sent")
  /\ UNCHANGED owner

Fails(t, error) == at' = [at EXCEPT ![t].pc = "close", ![t].error = error]

(* No session, or a login before the command that fails with its session.   *)
NotSent(t) ==
  /\ In(t, "send")
  /\ connected' \in {FALSE, connected}
  /\ Fails(t, "uncertain")
  /\ UNCHANGED <<session, owner, camera, sent>>

Following(step) ==
  CASE step = "owner"     -> "confirm"
    [] step = "confirm"   -> "plaintext"
    [] step = "plaintext" -> "password"
    [] OTHER              -> "restart"

(* Mutant: any answer to a step will do.                                    *)
AnyAnswerWillDo(t) ==
  /\ In(t, "sent")
  /\ IF at[t].step = "restart" \/ ~at[t].first
     THEN Goto(t, "close")
     ELSE at' = [at EXCEPT ![t].pc = "send", ![t].step = Following(at[t].step)]
  /\ sent' \in {sent, [sent EXCEPT ![t][Len(sent[t])].acked = TRUE]}
  /\ UNCHANGED <<transport, owner, camera>>

(* The expected acknowledgement, which may be a lie; or, to the reading,    *)
(* the expected state.                                                      *)
Acknowledged(t) ==
  /\ In(t, "sent")
  /\ at[t].step = "confirm" => dual = 1
  /\ IF at[t].step = "restart" \/ ~at[t].first
     THEN Goto(t, "close")
     ELSE at' = [at EXCEPT ![t].pc = "send", ![t].step = Following(at[t].step)]
  /\ sent' = [sent EXCEPT ![t][Len(sent[t])].acked = TRUE]
  /\ UNCHANGED <<transport, owner, camera>>

(* Mutant: a malformed acknowledgement is reported as such.                 *)
ErrorAsItIs(t) ==
  /\ In(t, "sent")
  /\ Fails(t, "error")
  /\ UNCHANGED <<transport, owner, camera, sent>>

OtherAnswer(t) ==
  /\ In(t, "sent")
  /\ Fails(t, "uncertain")
  /\ UNCHANGED <<transport, owner, camera, sent>>

(* No answer: the request is abandoned, with its session if that is still   *)
(* the current one.                                                         *)
NoAnswer(t) ==
  /\ In(t, "sent")
  /\ connected' \in {FALSE, connected}
  /\ Fails(t, "uncertain")
  /\ UNCHANGED <<session, owner, camera, sent>>

-----------------------------------------------------------------------------
(* Mutant: the session of the writes is kept for the reading.               *)
CloseKeeps(t) ==
  /\ In(t, "close")
  /\ IF at[t].first /\ at[t].error # "none"
     THEN Finish(t, at[t].error)
     ELSE Goto(t, "verify") /\ UNCHANGED <<owner, sent>>
  /\ UNCHANGED <<transport, camera>>

(* transport.close(); an error of the first enable ends the call, one of    *)
(* the single write does not.                                               *)
Close(t) ==
  /\ In(t, "close")
  /\ connected' = FALSE
  /\ IF at[t].first /\ at[t].error # "none"
     THEN Finish(t, at[t].error)
     ELSE Goto(t, "verify") /\ UNCHANGED <<owner, sent>>
  /\ UNCHANGED <<session, camera>>

(* get_params() with retries.                                               *)
Verify(t) ==
  /\ In(t, "verify") /\ Reads
  /\ at' = [at EXCEPT ![t].pc = "end", ![t].fresh = session',
                      ![t].verified = IF web = at[t].password THEN "yes" ELSE "no"]
  /\ UNCHANGED <<owner, camera, sent>>

VerifyFails(t) ==
  /\ In(t, "verify")
  /\ connected' \in {FALSE, connected}
  /\ at' = [at EXCEPT ![t].pc = "end", ![t].verified = "failed", ![t].error = "uncertain"]
  /\ UNCHANGED <<session, owner, camera, sent>>

(* A password that was not verified is uncertain; one that was succeeds if  *)
(* its write did.                                                           *)
Outcome(t) ==
  IF at[t].verified = "no" /\ at[t].error = "none" THEN "uncertain" ELSE at[t].error

End(t) ==
  /\ In(t, "end")
  /\ connected' = FALSE
  /\ Finish(t, Outcome(t))
  /\ UNCHANGED <<session, camera>>

-----------------------------------------------------------------------------
(* The caller is cancelled: before the change it gives up, then it waits    *)
(* for the change and its verification.                                     *)
CancelWaiting(t) ==
  /\ In(t, "lock")
  /\ Finish(t, "cancelled")
  /\ UNCHANGED <<transport, camera>>

CancelPreflight(t) ==
  /\ at[t].pc \in {"params", "status"}
  /\ connected' \in {FALSE, connected}
  /\ at' = [at EXCEPT ![t].pc = "giveUp", ![t].error = "cancelled",
                      ![t].cancelled = TRUE]
  /\ UNCHANGED <<session, owner, camera, sent>>

CancelChange(t) ==
  /\ at[t].pc \in {"giveUp", "send", "sent", "close", "verify", "end"}
  /\ at' = [at EXCEPT ![t].cancelled = TRUE]
  /\ UNCHANGED <<transport, owner, camera, sent>>

(* The event loop is shut down and cancels the child task too, while a      *)
(* command of it is on the wire.                                            *)
ShutDown(t) ==
  /\ at[t].pc \in {"sent", "verify"}
  /\ connected' \in {FALSE, connected}
  /\ at' = [at EXCEPT ![t].pc = IF In(t, "sent") THEN "close" ELSE "end",
                      ![t].verified = IF In(t, "sent") THEN "no" ELSE "failed",
                      ![t].error = "changeCancelled", ![t].cancelled = TRUE]
  /\ UNCHANGED <<session, owner, camera, sent>>

Cancel(t) == CancelWaiting(t) \/ CancelPreflight(t) \/ CancelChange(t) \/ ShutDown(t)

Step(t) ==
  \/ Locked(t) \/ Params(t) \/ Status(t) \/ PreflightFails(t) \/ GivesUp(t)
  \/ Send(t) \/ NotSent(t) \/ Acknowledged(t) \/ OtherAnswer(t) \/ NoAnswer(t)
  \/ Close(t) \/ Verify(t) \/ VerifyFails(t) \/ End(t)

Next ==
  \/ \E t \in Tasks :
       \/ \E p \in Passwords : Call(t, p)
       \/ Step(t) \/ Cancel(t)
  \/ OtherConnects \/ SessionEnds

Spec == Init /\ [][Next]_vars

(* Requests and connections have deadlines, and the lock is handed over in  *)
(* order.                                                                   *)
FairSpec == Spec /\ \A t \in Tasks : SF_vars(Step(t))
-----------------------------------------------------------------------------
(***************************************************************************)
(* Properties.                                                             *)
(***************************************************************************)
Errors == {"none", "error", "cancelled", "uncertain", "changeCancelled"}

Command == [step : Steps, on : Nat, acked : BOOLEAN]

(* The variables have their types, and the lock is held exactly by the call *)
(* inside.                                                                  *)
TypeOK ==
  /\ connected \in BOOLEAN /\ session \in 0 .. MaxSession
  /\ owner \in Tasks \cup {Nobody}
  /\ \A t \in Tasks : owner = t <=> at[t].pc \notin {"idle", "lock"}
  /\ web \in Passwords \cup {Empty} /\ dual \in 0 .. 2
  /\ sent \in [Tasks -> Seq(Command)]
  /\ at \in [Tasks ->
       [pc : {"idle", "lock", "params", "status", "giveUp", "send", "sent", "close",
              "verify", "end"},
        password : Passwords \cup {Empty}, first : BOOLEAN, step : Steps, replaced : BOOLEAN,
        verified : {"no", "yes", "failed"}, fresh : 0 .. MaxSession,
        cancelled : BOOLEAN, error : Errors]]

(* No command of an account change is sent twice, whatever config.retries   *)
(* says and however it fails; and none follows one that the camera did not  *)
(* acknowledge as expected (728, 816-832, 847-893).                         *)
EachStepOnceInTurn ==
  \A t \in Tasks : \A i, j \in DOMAIN sent[t] :
    i < j => sent[t][i].acked /\ sent[t][i].step # sent[t][j].step

(* The first enable stays on one session: between its commands it never     *)
(* opens another one (817, 851, 880).                                       *)
EnableStaysOnItsSession ==
  \A t \in Tasks : at[t].first /\ ~at[t].replaced =>
    \A i, j \in DOMAIN sent[t] : sent[t][i].on = sent[t][j].on

Returns(t, errors) ==
  ~In(t, "idle") /\ at'[t].pc = "idle" /\ at'[t].error \in errors

(* Success is what a session that carried none of the writes showed, and    *)
(* still true when it is reported (738-782).                                *)
SuccessIsVerified ==
  [][\A t \in Tasks : Returns(t, {"none"}) =>
       /\ web = at[t].password
       /\ sent[t] # <<>>
       /\ \A i \in DOMAIN sent[t] : sent[t][i].on < at[t].fresh]_vars

(* A change of which anything was sent never ends in an error that reads as *)
(* if nothing had happened, nor as merely cancelled unless its caller was   *)
(* cancelled (734-737, 743-777, 823-832, 884-893, 211-229).                 *)
SentIsNotDenied ==
  [][\A t \in Tasks : sent[t] # <<>> =>
       /\ ~Returns(t, {"error"})
       /\ Returns(t, {"cancelled"}) => at[t].cancelled]_vars

(* Every call ends, and its lock is free for the next.                      *)
ChangeEnds == \A t \in Tasks : ~In(t, "idle") ~> In(t, "idle")
=============================================================================
