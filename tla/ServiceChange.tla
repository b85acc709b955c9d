---------------------------- MODULE ServiceChange ----------------------------
(***************************************************************************)
(* The commands of VStarcamCamera (camera.py): a read is repeated on a new *)
(* session when it fails, a service change is sent at most once and ends   *)
(* in an acknowledgement or in an error that says whether it may have been *)
(* applied.  Several tasks use one camera.                                 *)
(*                                                                         *)
(* The transport is what AioppppTransport promises of it: one session at a *)
(* time, one request at a time, a session is not reused after a request on *)
(* it was given up, close() waits for the request in flight.               *)
(***************************************************************************)
EXTENDS Integers, FiniteSets

CONSTANTS
  Tasks,       (* asyncio tasks that use the camera                         *)
  Nobody,      (* the owner of the free request lock                        *)
  Retries,     (* config.retries                                            *)
  MaxSession,  (* bound: sessions opened                                    *)
  MaxCalls     (* bound: calls made                                         *)

ASSUME NobodyAssumption  == Nobody \notin Tasks
ASSUME BoundsAssumption == Retries \in Nat /\ MaxSession \in Nat /\ MaxCalls \in Nat

(* A read, a change, and a change that requires the existing session.       *)
Kinds == {"read", "change", "bound"}

VARIABLES
  connected,  (* transport.connected                                        *)
  session,    (* the number of the session opened last                      *)
  busy,       (* the task whose request holds the transport's request lock  *)
  at,         (* per task, the call it is in: where it awaits (pc), its     *)
              (* kind, the attempt of the request (attempt) and of the      *)
              (* connection (tries) and the session of its request (on)     *)
  sentOn,     (* history: per task, the sessions its command was sent on    *)
  sends,      (* history: per task, how often                               *)
  result,     (* per task, how its last call ended                          *)
  calls       (* bound: calls made so far                                   *)

transport == <<connected, session, busy>>
wire      == <<sentOn, sends>>
vars      == <<transport, at, wire, result, calls>>

Idle == [pc |-> "idle", kind |-> "read", attempt |-> 0, tries |-> 0, on |-> 0]

Init ==
  /\ connected = FALSE /\ session = 0 /\ busy = Nobody
  /\ at = [t \in Tasks |-> Idle]
  /\ sentOn = [t \in Tasks |-> {}]
  /\ sends = [t \in Tasks |-> 0]
  /\ result = [t \in Tasks |-> "none"]
  /\ calls = 0

In(t, where)    == at[t].pc = where
Goto(t, where)  == at' = [at EXCEPT ![t].pc = where]
Return(t, how) ==
  /\ at' = [at EXCEPT ![t].pc = "idle"]
  /\ result' = [result EXCEPT ![t] = how]

(* The session ends on its own.                                             *)
Drop ==
  /\ connected
  /\ connected' = FALSE
  /\ UNCHANGED <<session, busy, at, wire, result, calls>>

-----------------------------------------------------------------------------
(* _send_cgi() and _send_service_change(), up to the first await.           *)
Call(t, kind) ==
  /\ In(t, "idle") /\ calls < MaxCalls
  /\ calls' = calls + 1
  /\ sentOn' = [sentOn EXCEPT ![t] = {}]
  /\ sends' = [sends EXCEPT ![t] = 0]
  /\ \/ /\ connected \/ kind # "bound"
        /\ at' = [at EXCEPT ![t] = [Idle EXCEPT
                    !.pc = IF connected THEN "request" ELSE "connect", !.kind = kind]]
        /\ result' = [result EXCEPT ![t] = "none"]
     \/ /\ ~connected /\ kind = "bound"
        /\ at' = [at EXCEPT ![t] = [Idle EXCEPT !.kind = kind]]
        /\ result' = [result EXCEPT ![t] = "error"]
  /\ UNCHANGED transport

(* connect(): the transport connects, or another task already did.          *)
Connected(t) ==
  /\ In(t, "connect")
  /\ \/ connected /\ UNCHANGED <<connected, session>>
     \/ /\ ~connected /\ session < MaxSession
        /\ connected' = TRUE
        /\ session' = session + 1
  /\ Goto(t, "request")
  /\ UNCHANGED <<busy, wire, result, calls>>

ConnectFails(t) ==
  /\ In(t, "connect") /\ ~connected
  /\ Goto(t, "cleanup")
  /\ UNCHANGED <<transport, wire, result, calls>>

(* Mutant: the attempt is not counted.                                      *)
CleanupUncounted(t) ==
  /\ In(t, "cleanup") /\ busy = Nobody
  /\ connected' = FALSE
  /\ Goto(t, "connect")
  /\ UNCHANGED <<session, busy, wire, result, calls>>

(* transport.close() after a failed attempt, which may close what another   *)
(* task opened meanwhile.                                                   *)
Cleanup(t) ==
  /\ In(t, "cleanup") /\ busy = Nobody
  /\ connected' = FALSE
  /\ \/ /\ at[t].tries < Retries
        /\ at' = [at EXCEPT ![t].pc = "connect", ![t].tries = @ + 1]
        /\ UNCHANGED result
     \/ /\ at[t].tries >= Retries
        /\ Return(t, "error")
  /\ UNCHANGED <<session, busy, wire, calls>>

-----------------------------------------------------------------------------
(***************************************************************************)
(* transport.request(), as _request() sees it.                             *)
(***************************************************************************)

Send(t) ==
  /\ sends' = [sends EXCEPT ![t] = @ + 1]
  /\ sentOn' = [sentOn EXCEPT ![t] = @ \cup {session}]
  /\ busy' = t
  /\ at' = [at EXCEPT ![t].pc = "sent", ![t].on = session]
  /\ UNCHANGED <<connected, session, result, calls>>

(* Mutant: whatever is not a success is tried again.                        *)
EverythingIsRetried(t) ==
  \/ /\ at[t].attempt < Retries
     /\ Goto(t, "retry")
     /\ UNCHANGED result
  \/ /\ at[t].attempt >= Retries
     /\ Return(t, IF at[t].kind = "read" THEN "error" ELSE "uncertain")

(* _request() and _send_service_change() after a failed attempt.            *)
AttemptFails(t) ==
  \/ /\ at[t].kind = "read" /\ at[t].attempt < Retries
     /\ Goto(t, "retry")
     /\ UNCHANGED result
  \/ /\ at[t].kind = "read" /\ at[t].attempt >= Retries
     /\ Return(t, "error")
  \/ /\ at[t].kind # "read"
     /\ Return(t, "uncertain")

(* The request lock is free: the request fails for want of a session, or    *)
(* starts with the login or, on an authenticated session, with the command. *)
Request(t) ==
  /\ In(t, "request") /\ busy = Nobody
  /\ \/ ~connected /\ AttemptFails(t) /\ UNCHANGED <<transport, wire, calls>>
     \/ connected /\ Send(t)
     \/ /\ connected
        /\ busy' = t
        /\ at' = [at EXCEPT ![t].pc = "login", ![t].on = session]
        /\ UNCHANGED <<connected, session, wire, result, calls>>

LoginAccepted(t) == In(t, "login") /\ connected /\ Send(t)

(* The camera rejects the login, which nobody repeats.                      *)
LoginRejected(t) ==
  /\ In(t, "login")
  /\ busy' = Nobody
  /\ Return(t, IF at[t].kind = "read" THEN "error" ELSE "uncertain")
  /\ UNCHANGED <<connected, session, wire, calls>>

(* A response, valid or not.                                                *)
Answered(t) ==
  /\ In(t, "sent")
  /\ busy' = Nobody
  /\ \/ Return(t, "ok")
     \/ Return(t, IF at[t].kind = "read" THEN "error" ELSE "uncertain")
  /\ UNCHANGED <<connected, session, wire, calls>>

(* The transport gives the request up and quarantines its session.          *)
Abandoned(t) ==
  /\ In(t, "login") \/ In(t, "sent")
  /\ busy' = Nobody
  /\ connected' = (connected /\ session # at[t].on)
  /\ UNCHANGED session

RequestFails(t) ==
  /\ Abandoned(t)
  /\ AttemptFails(t)
  /\ UNCHANGED <<wire, calls>>

(* The camera reports that access is denied: the request is not repeated.   *)
RequestDenied(t) ==
  /\ In(t, "sent")
  /\ Abandoned(t)
  /\ Return(t, IF at[t].kind = "read" THEN "error" ELSE "uncertain")
  /\ UNCHANGED <<wire, calls>>

(* The next attempt of a read: close(), then connect().                     *)
Retry(t) ==
  /\ In(t, "retry") /\ busy = Nobody
  /\ connected' = FALSE
  /\ at' = [at EXCEPT ![t].pc = "connect", ![t].attempt = @ + 1, ![t].tries = 0]
  /\ UNCHANGED <<session, busy, wire, result, calls>>

-----------------------------------------------------------------------------
(* Mutant: a cancellation is passed on as it is.                            *)
CancelledAsIs(t) ==
  /\ Abandoned(t)
  /\ Return(t, "cancelled")
  /\ UNCHANGED <<wire, calls>>

(* TransportCommandCancelledError: a frame of the request was sent.         *)
CancelCommand(t) ==
  /\ Abandoned(t)
  /\ Return(t, IF at[t].kind = "read" THEN "cancelled" ELSE "changeCancelled")
  /\ UNCHANGED <<wire, calls>>

(* A plain CancelledError.                                                  *)
CancelWait(t) ==
  /\ at[t].pc \in {"connect", "cleanup", "request", "retry"}
  /\ Return(t, "cancelled")
  /\ UNCHANGED <<transport, wire, calls>>

Step(t) ==
  \/ Connected(t) \/ ConnectFails(t) \/ Cleanup(t)
  \/ Request(t) \/ LoginAccepted(t) \/ LoginRejected(t) \/ Answered(t)
  \/ RequestFails(t) \/ RequestDenied(t) \/ Retry(t)

Next ==
  \/ \E t \in Tasks :
       \/ \E kind \in Kinds : Call(t, kind)
       \/ Step(t) \/ CancelCommand(t) \/ CancelWait(t)
  \/ Drop

Spec == Init /\ [][Next]_vars

(* The transport's calls return (AioppppTransport) and its lock is first    *)
(* come, first served.                                                      *)
FairSpec == Spec /\ \A t \in Tasks : SF_vars(Step(t))
-----------------------------------------------------------------------------
(***************************************************************************)
(* Properties.                                                             *)
(***************************************************************************)
CallState ==
  [pc : {"idle", "connect", "cleanup", "request", "login", "sent", "retry"},
   kind : Kinds, attempt : 0 .. Retries, tries : 0 .. Retries, on : 0 .. MaxSession]

Outcome == {"none", "ok", "error", "cancelled", "uncertain", "changeCancelled"}

TypeOK ==
  /\ connected \in BOOLEAN
  /\ session \in 0 .. MaxSession
  /\ busy \in Tasks \cup {Nobody}
  /\ at \in [Tasks -> CallState]
  /\ sentOn \in [Tasks -> SUBSET (0 .. MaxSession)]
  /\ sends \in [Tasks -> Nat]
  /\ result \in [Tasks -> Outcome]
  /\ calls \in 0 .. MaxCalls

(* A change is on the wire at most once, whatever config.retries says and   *)
(* however its login, its session or another task's retry fails (337, 502). *)
ChangeIsSentOnce == \A t \in Tasks : at[t].kind # "read" => sends[t] <= 1

(* A change that was sent ends as done or as possibly done: no error or     *)
(* cancellation that reads as "nothing happened" (505-520).                 *)
SentIsNeverDenied ==
  \A t \in Tasks :
    In(t, "idle") /\ at[t].kind # "read" /\ sends[t] > 0 =>
      result[t] \in {"ok", "uncertain", "changeCancelled"}

(* No other command is repeated; a read is, only on a session that has not  *)
(* carried it yet, where no late response to its earlier attempt can        *)
(* arrive, and at most Retries times (337-363).                             *)
RepeatsOnNewSessions ==
  /\ ChangeIsSentOnce
  /\ \A t \in Tasks :
       sends[t] = Cardinality(sentOn[t]) /\ sends[t] <= Retries + 1

(* Every call ends: attempts and connections are bounded, and the failures  *)
(* of one task do not keep another one retrying forever.                    *)
CallEnds == \A t \in Tasks : at[t].pc # "idle" ~> at[t].pc = "idle"
=============================================================================
