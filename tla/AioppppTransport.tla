-------------------------- MODULE AioppppTransport --------------------------
(***************************************************************************)
(* AioppppTransport (transport_aiopppp.py): one PPPP session at a time,    *)
(* shared by the tasks of an asyncio program.  The lifecycle lock guards   *)
(* which session is current (connect, close, lease); the request lock      *)
(* serializes what is sent on it.  The protocol carries no request token:  *)
(* a response is recognized by its code alone, so a session on which a     *)
(* request was abandoned is quarantined and never used again.              *)
(*                                                                         *)
(* A task runs without interruption from one await to the next: that is    *)
(* one action.  The camera, the network and aiopppp (the dependency that   *)
(* runs a session's tasks) are the environment.                            *)
(***************************************************************************)
EXTENDS Integers, FiniteSets, SequencesExt

CONSTANTS
  Tasks,       (* asyncio tasks that use the transport                      *)
  NoTask,      (* the owner of a free lock                                  *)
  Calls,       (* the calls they make: some of the methods and commands     *)
  MaxSession,  (* bound: sessions opened                                    *)
  MaxFrame,    (* bound: CGI frames sent when the last request is called      *)
  MaxStatus    (* bound: status frames the camera volunteers per session    *)

Lifecycle   == {"connect", "close", "lease"}
AllCommands == {"get_status", "get_params", "raw"}
Commands    == Calls \cap AllCommands

ASSUME TasksAssumption == NoTask \notin Tasks
ASSUME CallsAssumption == Calls \subseteq Lifecycle \cup {"channel"} \cup AllCommands
ASSUME BoundsAssumption == MaxSession \in Nat /\ MaxFrame \in Nat /\ MaxStatus \in Nat

Sessions  == 1 .. MaxSession
NoSession == 0

VARIABLES
  session,        (* _session: the current session, or NoSession            *)
  connected,      (* _connected                                             *)
  authenticated,  (* _authenticated                                         *)
  lifecycle,      (* _lifecycle_lock                                        *)
  request         (* _request_lock                                          *)

VARIABLES         (* one value per session                                  *)
  phase,          (* "unborn", "starting", "running" (device_is_ready),     *)
                  (* "failed" (a session task ended, its callback has not   *)
                  (* run) or "stopped"                                      *)
  inbox,          (* cgi_responses                                          *)
  seen            (* _recent_cgi_fragments: what was ever queued            *)

VARIABLES
  at,             (* per task, the call it is in: where it awaits (pc), the *)
                  (* session it works on (on), what follows a close in      *)
                  (* progress (next), the command it was called with, what  *)
                  (* is being sent for it (stage) and in which frame        *)
  leased          (* the task inside session_lease(), or NoTask             *)

VARIABLES         (* history, read by the properties and by Responses       *)
  sent,           (* every CGI frame put on the wire                        *)
  logins,         (* sessions on which the camera accepted a login          *)
  abandoned,      (* sessions with a frame given up before its response     *)
  answer          (* the response accepted last, and for which frame        *)

transport == <<session, connected, authenticated>>
locks     == <<lifecycle, request>>
device    == <<phase, inbox, seen>>
history   == <<sent, logins, abandoned, answer>>
vars      == <<transport, locks, device, at, leased, history>>

-----------------------------------------------------------------------------
(* asyncio.Lock: first come, first served.                                  *)
Free            == [owner |-> NoTask, waiters |-> << >>]
Joined(lock, t) == [lock EXCEPT !.waiters = Append(@, t)]
Turn(lock, t)   == lock.owner = NoTask /\ lock.waiters # << >> /\ Head(lock.waiters) = t
Taken(lock)     == [owner |-> Head(lock.waiters), waiters |-> Tail(lock.waiters)]
Released(lock)  == [lock EXCEPT !.owner = NoTask]
Left(lock, t)   ==
  {[lock EXCEPT !.waiters = RemoveAt(@, i)] :
     i \in {j \in DOMAIN lock.waiters : lock.waiters[j] = t}}

Connected == connected /\ session # NoSession

Idle == [pc |-> "idle", on |-> NoSession, next |-> "none", command |-> "none",
         stage |-> "none", frame |-> 0]
In(t, where)    == at[t].pc = where
Await(t, where) == at' = [at EXCEPT ![t].pc = where]

(* What the camera answers with.  A command without an entry in             *)
(* RESPONSE_CODES accepts any code that is not known to be unsolicited.     *)
Unsolicited == {"status"}
ResponseCode(kind) ==
  IF kind \in {"login", "get_status"} THEN "status" ELSE kind
Matches(kind, code) ==
  IF kind = "raw" THEN code \notin Unsolicited ELSE code = ResponseCode(kind)
NeedsAuth(c) == c # "get_status"

(* What is awaited for t: the response to its command or to a step of the   *)
(* login that precedes it.                                                  *)
Kind(t) == IF at[t].stage = "command" THEN at[t].command ELSE at[t].stage

(* What the camera may send on s: the response to any frame it got there,   *)
(* whenever it likes, and status frames nobody asked for.                   *)
Responses(s) ==
  {[of |-> f.id, code |-> ResponseCode(f.kind)] : f \in {g \in sent : g.on = s}}
    \cup {[of |-> -n, code |-> "status"] : n \in 1 .. MaxStatus}

-----------------------------------------------------------------------------
Init ==
  /\ session = NoSession
  /\ connected = FALSE
  /\ authenticated = FALSE
  /\ lifecycle = Free
  /\ request = Free
  /\ phase = [s \in Sessions |-> "unborn"]
  /\ inbox = [s \in Sessions |-> << >>]
  /\ seen = [s \in Sessions |-> {}]
  /\ at = [t \in Tasks |-> Idle]
  /\ leased = NoTask
  /\ sent = {}
  /\ logins = {}
  /\ abandoned = {}
  /\ answer = [frame |-> 0, kind |-> "none", of |-> 0]

-----------------------------------------------------------------------------
(***************************************************************************)
(* The session and its callbacks.                                          *)
(***************************************************************************)

(* Mutant: whatever session it is told about.                               *)
AnySessionDisconnects(s) == connected' = FALSE

(* _mark_disconnected(): only the current session can disconnect.           *)
MarkDisconnected(s) == connected' = (connected /\ session # s)

(* session.stop(), or the direct cancellation where aiopppp refuses to stop *)
Stopped(s) == [phase EXCEPT ![s] = "stopped"]

(* P2pRdy, setup_device().  It takes network round trips and a pause of     *)
(* 90 ms (382), in which the loop has run every task it already woke.       *)
LoopIdle == \A t \in Tasks : In(t, "response") => inbox[at[t].on] = << >>
SessionReady(s) ==
  /\ phase[s] = "starting"
  /\ LoopIdle
  /\ phase' = [phase EXCEPT ![s] = "running"]
  /\ UNCHANGED <<transport, locks, inbox, seen, at, leased, history>>

SessionTaskFails(s) ==
  /\ phase[s] \in {"starting", "running"}
  /\ phase' = [phase EXCEPT ![s] = "failed"]
  /\ UNCHANGED <<transport, locks, inbox, seen, at, leased, history>>

(* session_task_done(): a replaced session must not touch its successor.    *)
SessionTaskDone(s) ==
  /\ phase[s] = "failed"
  /\ session = s
  /\ MarkDisconnected(s)
  /\ phase' = Stopped(s)
  /\ UNCHANGED <<session, authenticated, locks, inbox, seen, at, leased, history>>

(* The camera closes the session or stops answering keepalives: aiopppp     *)
(* stops it and calls on_disconnect.                                        *)
PeerDisconnects(s) ==
  /\ phase[s] \in {"starting", "running"}
  /\ phase' = Stopped(s)
  /\ MarkDisconnected(s)
  /\ UNCHANGED <<session, authenticated, locks, inbox, seen, at, leased, history>>

(* handle_drw(), _queue_cgi_response(): a fragment seen before is dropped.  *)
Receive(s, m) ==
  /\ phase[s] = "running"
  /\ m \notin seen[s]
  /\ seen' = [seen EXCEPT ![s] = @ \cup {m}]
  /\ inbox' = [inbox EXCEPT ![s] = Append(@, m)]
  /\ UNCHANGED <<transport, locks, phase, at, leased, history>>

-----------------------------------------------------------------------------
(***************************************************************************)
(* connect(), close() and session_lease(), under the lifecycle lock.       *)
(***************************************************************************)

(* The locks a call gives back when it returns or raises; a lease outlives  *)
(* the calls of its body.                                                   *)
Return(t) ==
  /\ at' = [at EXCEPT ![t] = Idle]
  /\ lifecycle' = IF lifecycle.owner = t /\ leased # t
                  THEN Released(lifecycle) ELSE lifecycle
  /\ request' = IF request.owner = t THEN Released(request) ELSE request

(* The head of _close_unlocked(), which forgets the session; "next" is what *)
(* its caller does once the session is gone.  The close packet is sent, and *)
(* awaited, while the UDP transport is there; a stopped session has none.   *)
CloseUnlocked(t, next) ==
  /\ session' = NoSession
  /\ connected' = FALSE
  /\ authenticated' = FALSE
  /\ at' = [at EXCEPT ![t] = [Idle EXCEPT
              !.pc = IF phase[session] = "stopped" THEN "gather" ELSE "closepkt",
              !.on = session,
              !.next = next]]

(* Mutant: where aiopppp refuses stop(), nothing else closes the session.   *)
StopRefused(t, next) ==
  /\ In(t, "closepkt")
  /\ phase' = IF phase[at[t].on] = "starting" THEN phase ELSE Stopped(at[t].on)
  /\ at' = [at EXCEPT ![t].pc = "gather", ![t].next = next]
  /\ UNCHANGED <<transport, locks, inbox, seen, leased, history>>

(* The close packet left, failed, or the task was cancelled awaiting it:    *)
(* the session is stopped in any case.                                      *)
StopClosing(t, next) ==
  /\ In(t, "closepkt")
  /\ phase' = Stopped(at[t].on)
  /\ at' = [at EXCEPT ![t].pc = "gather", ![t].next = next]
  /\ UNCHANGED <<transport, locks, inbox, seen, leased, history>>
ClosePacketSent(t)      == StopClosing(t, at[t].next)
ClosePacketCancelled(t) == StopClosing(t, "return")

(* gather() of the cancelled session tasks ended.                           *)
SessionGone(t) ==
  /\ In(t, "gather")
  /\ \/ /\ at[t].next = "discover"
        /\ authenticated' = FALSE
        /\ at' = [at EXCEPT ![t] = [Idle EXCEPT !.pc = "discover"]]
        /\ UNCHANGED locks
     \/ /\ at[t].next = "return"
        /\ Return(t)
        /\ UNCHANGED authenticated
  /\ UNCHANGED <<session, connected, device, leased, history>>

GatherCancelled(t) ==
  /\ In(t, "gather")
  /\ Return(t)
  /\ UNCHANGED <<transport, device, leased, history>>

CallLifecycle(t, method) ==
  /\ In(t, "idle") /\ leased # t
  /\ lifecycle' = Joined(lifecycle, t)
  /\ Await(t, method)
  /\ UNCHANGED <<transport, request, device, leased, history>>

(* connect(): nothing to do, an unusable session to close first, or a new   *)
(* one to look for.                                                         *)
ConnectLocked(t) ==
  /\ In(t, "connect") /\ Turn(lifecycle, t)
  /\ \/ /\ Connected
        /\ lifecycle' = Released(Taken(lifecycle))
        /\ Await(t, "idle")
        /\ UNCHANGED transport
     \/ /\ ~Connected /\ session # NoSession
        /\ lifecycle' = Taken(lifecycle)
        /\ CloseUnlocked(t, "discover")
     \/ /\ ~Connected /\ session = NoSession
        /\ lifecycle' = Taken(lifecycle)
        /\ authenticated' = FALSE
        /\ Await(t, "discover")
        /\ UNCHANGED <<session, connected>>
  /\ UNCHANGED <<request, device, leased, history>>

(* _resolve_descriptor() found the camera: the new session becomes current  *)
(* and is started.                                                          *)
Discovered(t, s) ==
  /\ In(t, "discover")
  /\ LoopIdle
  /\ \A r \in Sessions : phase[r] = "unborn" <=> r >= s
  /\ session' = s
  /\ phase' = [phase EXCEPT ![s] = "starting"]
  /\ at' = [at EXCEPT ![t].pc = "ready", ![t].on = s]
  /\ UNCHANGED <<connected, authenticated, locks, inbox, seen, leased, history>>

NotDiscovered(t) ==
  /\ In(t, "discover")
  /\ Return(t)
  /\ UNCHANGED <<transport, device, leased, history>>

(* Mutant: readiness alone decides, whatever happened to the session tasks. *)
ReadyThoughEnded(t) ==
  /\ In(t, "ready")
  /\ phase[at[t].on] \in {"running", "stopped"} /\ session = at[t].on
  /\ connected' = TRUE
  /\ Return(t)
  /\ UNCHANGED <<session, authenticated, device, leased, history>>

(* Ready in time, with every session task alive and the transport open.     *)
Started(t) ==
  /\ In(t, "ready")
  /\ phase[at[t].on] = "running" /\ session = at[t].on
  /\ connected' = TRUE
  /\ Return(t)
  /\ UNCHANGED <<session, authenticated, device, leased, history>>

(* Timeout, a session task that ended, a transport that vanished, or the    *)
(* cancellation of connect(): the session is closed before it is reported.  *)
NotStarted(t) ==
  /\ In(t, "ready")
  /\ CloseUnlocked(t, "return")
  /\ UNCHANGED <<locks, device, leased, history>>

(* close() takes the request lock too: it waits for the request in flight.  *)
CloseLocked(t) ==
  /\ In(t, "close") /\ Turn(lifecycle, t)
  /\ lifecycle' = Taken(lifecycle)
  /\ request' = Joined(request, t)
  /\ Await(t, "close2")
  /\ UNCHANGED <<transport, device, leased, history>>

Close(t) ==
  /\ In(t, "close2") /\ Turn(request, t)
  /\ \/ /\ session = NoSession
        /\ lifecycle' = Released(lifecycle)
        /\ request' = Released(Taken(request))
        /\ connected' = FALSE
        /\ authenticated' = FALSE
        /\ Await(t, "idle")
        /\ UNCHANGED session
     \/ /\ session # NoSession
        /\ request' = Taken(request)
        /\ CloseUnlocked(t, "return")
        /\ UNCHANGED lifecycle
  /\ UNCHANGED <<device, leased, history>>

(* Mutant: the lease only checks that the session is connected.             *)
LeaseWithoutLock(t) ==
  /\ In(t, "lease") /\ Turn(lifecycle, t)
  /\ Await(t, "idle")
  /\ lifecycle' = Released(Taken(lifecycle))
  /\ leased' = IF Connected THEN t ELSE leased
  /\ UNCHANGED <<transport, request, device, history>>

(* session_lease(): connect and close wait until the body has ended.        *)
LeaseLocked(t) ==
  /\ In(t, "lease") /\ Turn(lifecycle, t)
  /\ Await(t, "idle")
  /\ \/ /\ Connected
        /\ lifecycle' = Taken(lifecycle)
        /\ leased' = t
     \/ /\ ~Connected
        /\ lifecycle' = Released(Taken(lifecycle))
        /\ UNCHANGED leased
  /\ UNCHANGED <<transport, request, device, history>>

EndLease(t) ==
  /\ In(t, "idle") /\ leased = t
  /\ lifecycle' = Released(lifecycle)
  /\ leased' = NoTask
  /\ UNCHANGED <<transport, request, device, at, history>>

-----------------------------------------------------------------------------
(***************************************************************************)
(* request() and send_channel_parts(), under the request lock.             *)
(***************************************************************************)

CallRequest(t, c) ==
  /\ In(t, "idle")
  /\ Cardinality(sent) + Cardinality({u \in Tasks : at[u].command # "none"}) < MaxFrame
  /\ request' = Joined(request, t)
  /\ at' = [at EXCEPT ![t].pc = "request", ![t].command = c]
  /\ UNCHANGED <<transport, lifecycle, device, leased, history>>

(* The head of _send_framed(): what is left in the queue of the current     *)
(* session is discarded and the frame is put on the wire, in one go.        *)
SendFramed(t, stage, kind) ==
  LET id == Cardinality(sent) + 1 IN
  /\ session # NoSession
  /\ inbox' = [inbox EXCEPT ![session] = << >>]
  /\ sent' = sent \cup {[id |-> id, on |-> session, kind |-> kind]}
  /\ at' = [at EXCEPT ![t].pc = "ack", ![t].on = session, ![t].stage = stage,
                      ![t].frame = id]
  /\ UNCHANGED <<phase, seen>>

(* _request_unlocked(): a protected command is preceded by a login, unless  *)
(* the transport believes the session to be authenticated.                  *)
NotConnected(t) ==
  /\ In(t, "request") \/ In(t, "channel")
  /\ Turn(request, t)
  /\ ~Connected
  /\ request' = Released(Taken(request))
  /\ at' = [at EXCEPT ![t] = Idle]
  /\ UNCHANGED <<transport, lifecycle, device, leased, history>>

RequestLocked(t) ==
  /\ In(t, "request") /\ Turn(request, t)
  /\ Connected
  /\ request' = Taken(request)
  /\ LET first == IF NeedsAuth(at[t].command) /\ ~authenticated
                  THEN [stage |-> "login", kind |-> "login"]
                  ELSE [stage |-> "command", kind |-> at[t].command]
     IN  SendFramed(t, first.stage, first.kind)
  /\ UNCHANGED <<transport, lifecycle, leased, logins, abandoned, answer>>

CallChannel(t) ==
  /\ In(t, "idle")
  /\ request' = Joined(request, t)
  /\ Await(t, "channel")
  /\ UNCHANGED <<transport, lifecycle, device, leased, history>>

(* A channel payload asks for an acknowledgement and has no response.       *)
ChannelLocked(t) ==
  /\ In(t, "channel") /\ Turn(request, t)
  /\ Connected
  /\ request' = Taken(request)
  /\ at' = [at EXCEPT ![t].pc = "ack", ![t].on = session, ![t].stage = "parts"]
  /\ UNCHANGED <<transport, lifecycle, device, leased, history>>

Acknowledged(t) ==
  /\ In(t, "ack") /\ phase[at[t].on] = "running"
  /\ \/ at[t].stage # "parts" /\ Await(t, "response") /\ UNCHANGED locks
     \/ at[t].stage = "parts" /\ Return(t)
  /\ UNCHANGED <<transport, device, leased, history>>

Arrived(t)  == In(t, "response") /\ inbox[at[t].on] # << >>
Arriving(t) == Head(inbox[at[t].on])
TakeNext(t) == inbox' = [inbox EXCEPT ![at[t].on] = Tail(@)]

(* A complete response with a foreign code is dropped.                      *)
IgnoreResponse(t) ==
  /\ Arrived(t)
  /\ ~Matches(Kind(t), Arriving(t).code)
  /\ TakeNext(t)
  /\ UNCHANGED <<transport, locks, phase, seen, at, leased, history>>

Accept(t) ==
  /\ Arrived(t)
  /\ Matches(Kind(t), Arriving(t).code)
  /\ answer' = [frame |-> at[t].frame, kind |-> Kind(t), of |-> Arriving(t).of]
  /\ UNCHANGED <<session, connected, leased, abandoned>>

(* request() ends with the response to the command, a login the camera      *)
(* rejects or malformed login metadata.                                     *)
AcceptLast(t) ==
  /\ Accept(t)
  /\ TakeNext(t)
  /\ Return(t)
  /\ UNCHANGED <<authenticated, phase, seen, sent, logins>>

(* The next frame of the same request() goes to what is now the current     *)
(* session; without one the request fails.                                  *)
Continue(t, stage, kind) ==
  \/ SendFramed(t, stage, kind) /\ UNCHANGED locks
  \/ session = NoSession /\ TakeNext(t) /\ Return(t) /\ UNCHANGED <<phase, seen, sent>>

(* DualAuthentication asks for the additional account authentication.       *)
AcceptLoginDual(t) ==
  /\ at[t].stage = "login"
  /\ Accept(t)
  /\ Continue(t, "eye4", "eye4")
  /\ UNCHANGED <<authenticated, logins>>

(* The login is complete: the command follows without an await between.     *)
AcceptLogin(t) ==
  /\ at[t].stage \in {"login", "eye4"}
  /\ Accept(t)
  /\ authenticated' = TRUE
  /\ logins' = logins \cup {at[t].on}
  /\ Continue(t, "command", at[t].command)

(* Mutant: the session of an abandoned frame stays in use.                  *)
NoQuarantine(s) == UNCHANGED <<connected, phase>>

(* _quarantine_session(): the session may still deliver the response that   *)
(* is no longer awaited.                                                    *)
Quarantine(s) ==
  /\ MarkDisconnected(s)
  /\ phase' = IF session = s THEN Stopped(s) ELSE phase

(* Mutant: a deadline on the acknowledgement only.                          *)
AbandonUnacknowledged(t) ==
  /\ at[t].stage # "parts"
  /\ In(t, "ack")
  /\ Quarantine(at[t].on)
  /\ abandoned' = abandoned \cup {at[t].on}
  /\ Return(t)
  /\ UNCHANGED <<session, authenticated, inbox, seen, leased, sent, logins, answer>>

(* The deadline passed, the send failed, the session ended under the wait,  *)
(* or the task was cancelled: the outcome of the frame is unknown.          *)
AbandonFrame(t) ==
  /\ at[t].stage # "parts"
  /\ In(t, "ack") \/ In(t, "response")
  /\ Quarantine(at[t].on)
  /\ abandoned' = abandoned \cup {at[t].on}
  /\ Return(t)
  /\ UNCHANGED <<session, authenticated, inbox, seen, leased, sent, logins, answer>>

AbandonParts(t) ==
  /\ In(t, "ack")
  /\ at[t].stage = "parts"
  /\ Return(t)
  /\ UNCHANGED <<transport, device, leased, history>>

-----------------------------------------------------------------------------
(* Cancellation of a task that waits for a lock.                            *)
CancelWaiting(t) ==
  /\ \/ /\ In(t, "connect") \/ In(t, "close") \/ In(t, "lease")
        /\ lifecycle' \in Left(lifecycle, t)
        /\ UNCHANGED request
     \/ /\ In(t, "request") \/ In(t, "channel")
        /\ request' \in Left(request, t)
        /\ UNCHANGED lifecycle
     \/ /\ In(t, "close2")
        /\ request' \in Left(request, t)
        /\ lifecycle' = Released(lifecycle)
  /\ at' = [at EXCEPT ![t] = Idle]
  /\ UNCHANGED <<transport, device, leased, history>>

Call(t) ==
  \/ \E method \in Calls \cap Lifecycle : CallLifecycle(t, method)
  \/ \E c \in Commands : CallRequest(t, c)
  \/ "channel" \in Calls /\ CallChannel(t)

Cancel(t) == CancelWaiting(t) \/ ClosePacketCancelled(t) \/ GatherCancelled(t)

(* What a task does on its own once it made a call; deadlines included.     *)
Step(t) ==
  \/ ClosePacketSent(t) \/ SessionGone(t)
  \/ ConnectLocked(t) \/ (\E s \in Sessions : Discovered(t, s)) \/ NotDiscovered(t)
  \/ Started(t) \/ NotStarted(t)
  \/ CloseLocked(t) \/ Close(t) \/ LeaseLocked(t)
  \/ NotConnected(t) \/ RequestLocked(t) \/ ChannelLocked(t) \/ Acknowledged(t)
  \/ IgnoreResponse(t) \/ AcceptLast(t) \/ AcceptLoginDual(t) \/ AcceptLogin(t)
  \/ AbandonFrame(t) \/ AbandonParts(t)

Environment(s) ==
  \/ SessionReady(s) \/ SessionTaskFails(s) \/ SessionTaskDone(s)
  \/ PeerDisconnects(s) \/ \E m \in Responses(s) : Receive(s, m)

Next ==
  \/ \E t \in Tasks : Call(t) \/ Step(t) \/ Cancel(t) \/ EndLease(t)
  \/ \E s \in Sessions : Environment(s)

Spec == Init /\ [][Next]_vars

(* The event loop runs every task it woke, every deadline passes, a done    *)
(* callback is run, and a lease body ends.  Nothing is assumed of the       *)
(* camera, the network or the callers.                                      *)
Fairness ==
  /\ \A t \in Tasks : WF_vars(Step(t)) /\ SF_vars(EndLease(t))
  /\ \A s \in Sessions : WF_vars(SessionTaskDone(s))

FairSpec == Spec /\ Fairness

-----------------------------------------------------------------------------
(***************************************************************************)
(* Properties.                                                             *)
(***************************************************************************)
Kinds   == AllCommands \cup {"login", "eye4"}
Frames  == [id : Nat, on : Sessions, kind : Kinds]
Message == [of : Int, code : Kinds \cup {"status"}]
Calling ==
  [pc : {"idle", "connect", "discover", "ready", "close", "close2", "closepkt",
         "gather", "lease", "request", "channel", "ack", "response"},
   on : Sessions \cup {NoSession}, next : {"none", "discover", "return"},
   command : AllCommands \cup {"none"},
   stage : {"none", "login", "eye4", "command", "parts"}, frame : Nat]

TypeOK ==
  /\ session \in Sessions \cup {NoSession}
  /\ connected \in BOOLEAN
  /\ authenticated \in BOOLEAN
  /\ lifecycle \in [owner : Tasks \cup {NoTask}, waiters : Seq(Tasks)]
  /\ request \in [owner : Tasks \cup {NoTask}, waiters : Seq(Tasks)]
  /\ phase \in [Sessions -> {"unborn", "starting", "running", "failed", "stopped"}]
  /\ inbox \in [Sessions -> Seq(Message)]
  /\ seen \in [Sessions -> SUBSET Message]
  /\ at \in [Tasks -> Calling]
  /\ \A t \in Tasks :
       /\ at[t].pc \in {"ready", "closepkt", "gather", "ack", "response"}
            => at[t].on \in Sessions
       /\ at[t].pc = "request" \/ at[t].stage \in {"login", "eye4", "command"}
            => at[t].command \in Commands
  /\ leased \in Tasks \cup {NoTask}
  /\ sent \subseteq Frames
  /\ logins \subseteq Sessions
  /\ abandoned \subseteq Sessions
  /\ answer \in [frame : Nat, kind : Kinds \cup {"none"}, of : Int]

(* A session occupies one of the camera's session slots while its UDP       *)
(* transport is open.                                                       *)
Open(s) == phase[s] \in {"starting", "running", "failed"}

(* The response request() accepts is the camera's response to that very     *)
(* frame: late and repeated responses to earlier frames are never taken for *)
(* it, across reconnections and cancellations.  Where the expected code is  *)
(* one the camera also volunteers, nothing tells the frames apart           *)
(* (_response_code_matches, 749-755), and nothing is claimed.               *)
AnswersItsOwnRequest ==
  answer.of # answer.frame => ResponseCode(answer.kind) \in Unsolicited

(* The transport never holds two of the camera's session slots, and an open *)
(* session is the current one or is being closed: no failed, cancelled or   *)
(* replaced connection attempt leaves a slot occupied (711-713).            *)
NoSlotLeak ==
  /\ \A r, s \in Sessions : Open(r) /\ Open(s) => r = s
  /\ \A s \in Sessions :
       Open(s) => s = session \/ \E t \in Tasks : In(t, "closepkt") /\ at[t].on = s

(* connected says that the current session finished its startup and that    *)
(* nobody stopped it: neither a session that failed in the same loop turn   *)
(* as it became ready, nor one that was closed or quarantined (620-641).    *)
ConnectedIsUsable == Connected => phase[session] \in {"running", "failed"}

(* A session with a frame whose response was given up carries no further    *)
(* CGI frame: its late response cannot meet another request (990-993).      *)
AbandonedIsNeverReused ==
  [][\A f \in sent' \ sent : f.on \notin abandoned]_vars

(* While a media operation holds the lease, the session it started on stays *)
(* the current one: its stop command reaches the session of its start, or   *)
(* none.                                                                    *)
LeaseKeepsSession ==
  [][leased # NoTask /\ leased' = leased => session' = session]_vars

(* connected turns false only by the end of the current session itself: the *)
(* late callbacks of a replaced session do not disconnect its successor     *)
(* (602, 645, 655).                                                         *)
DisconnectedByItsOwnEnd ==
  [][connected /\ ~connected' =>
       session' = NoSession \/ phase'[session] = "stopped"]_vars

(* Every call returns: the two locks are never waited for in a cycle, and a *)
(* dead session or a silent camera does not hold a caller forever.          *)
EveryCallReturns ==
  \A t \in Tasks : at[t].pc # "idle" ~> at[t].pc = "idle"

(* "Before protected commands, the library checks the login state and       *)
(* completes any required local authentication in the same session"         *)
(* (docs/getting-started.md:208-210).                                       *)
ProtectedCommandsFollowLogin ==
  \A f \in sent : f.kind \in Commands /\ NeedsAuth(f.kind) => f.on \in logins
=============================================================================
