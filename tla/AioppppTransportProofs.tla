----------------------- MODULE AioppppTransportProofs -----------------------
(***************************************************************************)
(* Proofs about AioppppTransport, for any number of tasks and any bounds.  *)
(*                                                                         *)
(* The argument rests on the two locks.  Whoever opens or closes a session *)
(* owns the lifecycle lock, so that while one task does, no session is     *)
(* current but the one it opens, and the transport is not connected; a     *)
(* frame is in flight only under the request lock, so that the session a   *)
(* frame was abandoned on is not in use by another.                        *)
(***************************************************************************)
EXTENDS AioppppTransport, FiniteSetTheorems, SequenceTheorems, TLAPS

Locks   == [owner : Tasks \cup {NoTask}, waiters : Seq(Tasks)]
Holding == {"discover", "ready", "close2", "closepkt", "gather"}
Sending == {"ack", "response"}

(* The owners of the two locks, by what the tasks are doing.                *)
LockInv ==
  \A t \in Tasks :
    /\ at[t].pc \in Holding => lifecycle.owner = t
    /\ leased = t => lifecycle.owner = t /\ at[t].pc \in {"idle", "request", "channel"} \cup Sending
    /\ at[t].pc \in Sending => request.owner = t

(* The current session, by what the lifecycle lock's owner is doing.        *)
SessionInv ==
  /\ \A t \in Tasks :
       /\ at[t].pc \in {"discover", "closepkt", "gather"} => session = NoSession /\ ~connected
       /\ at[t].pc = "ready" => session = at[t].on /\ ~connected
       /\ at[t].pc \in {"ready", "closepkt", "gather"} \cup Sending => phase[at[t].on] # "unborn"
  /\ \A s \in Sessions :
       Open(s) => s = session \/ \E t \in Tasks : In(t, "closepkt") /\ at[t].on = s
  /\ session # NoSession => phase[session] # "unborn"
  /\ connected => session # NoSession /\ phase[session] \in {"running", "failed"}

(* A session with an abandoned frame is out of use.                         *)
AbandonInv ==
  /\ \A s \in abandoned : phase[s] # "unborn"
  /\ session \in abandoned => phase[session] = "stopped"
  /\ \A t \in Tasks :
       at[t].pc \in Sending /\ at[t].stage # "parts" => session \notin abandoned

-----------------------------------------------------------------------------
(* Sequences of waiting tasks.                                              *)
LEMMA RemoveAtTyped ==
  ASSUME NEW S, NEW q \in Seq(S), NEW i \in DOMAIN q
  PROVE  RemoveAt(q, i) \in Seq(S)
<1>1. i \in 1 .. Len(q) /\ Len(q) \in Nat
  OBVIOUS
<1>2. SubSeq(q, 1, i - 1) \in Seq(S)
  <2>1. \A j \in 1 .. i - 1 : q[j] \in S
    BY <1>1
  <2> QED
    BY <1>1, <2>1, SubSeqProperties
<1>3. SubSeq(q, i + 1, Len(q)) \in Seq(S)
  <2>1. \A j \in i + 1 .. Len(q) : q[j] \in S
    BY <1>1
  <2> QED
    BY <1>1, <2>1, SubSeqProperties
<1> QED
  BY <1>2, <1>3, ConcatProperties DEF RemoveAt

(* The elements of a queue that grows or is taken from.                     *)
LEMMA AppendElements ==
  ASSUME NEW S, NEW q \in Seq(S), NEW m \in S
  PROVE  ToSet(Append(q, m)) = ToSet(q) \cup {m}
<1>1. /\ DOMAIN q = 1 .. Len(q) /\ Len(q) \in Nat
      /\ DOMAIN Append(q, m) = 1 .. Len(q) + 1
      /\ \A i \in 1 .. Len(q) : Append(q, m)[i] = q[i]
      /\ Append(q, m)[Len(q) + 1] = m
  BY AppendProperties, LenProperties
<1>2. 1 .. Len(q) + 1 = (1 .. Len(q)) \cup {Len(q) + 1}
  BY <1>1
<1> QED
  BY <1>1, <1>2 DEF ToSet

LEMMA TailElements ==
  ASSUME NEW S, NEW q \in Seq(S), q # << >>
  PROVE  ToSet(Tail(q)) \subseteq ToSet(q)
<1>1. /\ DOMAIN q = 1 .. Len(q) /\ Len(q) \in Nat \ {0}
      /\ Tail(q) \in Seq(S) /\ Len(Tail(q)) = Len(q) - 1
      /\ \A i \in 1 .. Len(Tail(q)) : Tail(q)[i] = q[i + 1]
  BY HeadTailProperties, EmptySeq, LenProperties
<1>2. \A i \in DOMAIN Tail(q) : i + 1 \in DOMAIN q /\ Tail(q)[i] = q[i + 1]
  BY <1>1, LenProperties
<1> QED
  BY <1>2 DEF ToSet

(* What the operations on a lock make of a lock.                            *)
LEMMA LockTyped ==
  ASSUME NEW lock \in Locks, NEW t \in Tasks
  PROVE  /\ Joined(lock, t) \in Locks
         /\ Joined(lock, t).owner = lock.owner
         /\ Turn(lock, t) => Taken(lock) \in Locks /\ Taken(lock).owner = t
         /\ Released(lock) \in Locks /\ Released(lock).owner = NoTask
         /\ \A left \in Left(lock, t) : left \in Locks /\ left.owner = lock.owner
<1>1. Append(lock.waiters, t) \in Seq(Tasks)
  BY DEF Locks
<1>2. Turn(lock, t) => Taken(lock) \in Locks /\ Taken(lock).owner = t
  BY DEF Locks, Turn, Taken
<1>3. ASSUME NEW left \in Left(lock, t)
      PROVE  left \in Locks /\ left.owner = lock.owner
  <2>1. PICK i \in DOMAIN lock.waiters : left = [lock EXCEPT !.waiters = RemoveAt(@, i)]
    BY <1>3 DEF Left
  <2>2. RemoveAt(lock.waiters, i) \in Seq(Tasks)
    BY <2>1, RemoveAtTyped DEF Locks
  <2> QED
    BY <2>1, <2>2 DEF Locks
<1> QED
  BY <1>1, <1>2, <1>3 DEF Locks, Joined, Released

USE DEF Idle, In, Await, Connected, Sessions, NoSession

-----------------------------------------------------------------------------
(***************************************************************************)
(* Types, in three parts: the calls, the locks, and everything else.       *)
(***************************************************************************)
OnSession == {"ready", "closepkt", "gather"} \cup Sending
Where     == {"idle", "connect", "lease", "request", "channel", "close"} \cup Holding \cup Sending

CallOK(r) ==
  /\ r \in Calling
  /\ r.pc \in OnSession => r.on \in Sessions
  /\ r.pc = "request" \/ r.stage \in {"login", "eye4", "command"} => r.command \in Commands
AtOK      == at = [t \in Tasks |-> at[t]] /\ \A t \in Tasks : CallOK(at[t])
LocksOK   == lifecycle \in Locks /\ request \in Locks
OthersOK  ==
  /\ session \in Sessions \cup {NoSession}
  /\ connected \in BOOLEAN
  /\ authenticated \in BOOLEAN
  /\ phase \in [Sessions -> {"unborn", "starting", "running", "failed", "stopped"}]
  /\ inbox \in [Sessions -> Seq(Message)]
  /\ seen \in [Sessions -> SUBSET Message]
  /\ leased \in Tasks \cup {NoTask}
  /\ sent \subseteq Frames
  /\ logins \subseteq Sessions
  /\ abandoned \subseteq Sessions
  /\ answer \in [frame : Nat, kind : Kinds \cup {"none"}, of : Int]
  /\ IsFiniteSet(sent)
Typed == AtOK /\ LocksOK /\ OthersOK

(* The three parts are TypeOK.                                              *)
LEMMA TypedIsTypeOK == Typed <=> TypeOK /\ IsFiniteSet(sent)
<1>1. AtOK <=> /\ at \in [Tasks -> Calling]
               /\ \A t \in Tasks :
                    /\ at[t].pc \in {"ready", "closepkt", "gather", "ack", "response"}
                         => at[t].on \in Sessions
                    /\ at[t].pc = "request" \/ at[t].stage \in {"login", "eye4", "command"}
                         => at[t].command \in Commands
  BY DEF AtOK, CallOK, OnSession, Sending
<1>2. LocksOK <=> /\ lifecycle \in [owner : Tasks \cup {NoTask}, waiters : Seq(Tasks)]
                  /\ request \in [owner : Tasks \cup {NoTask}, waiters : Seq(Tasks)]
  BY DEF LocksOK, Locks
<1> QED
  BY <1>1, <1>2 DEF Typed, OthersOK, TypeOK

(* A task enters a call, moves on in it, or leaves it.                      *)
LEMMA AtUpdated ==
  ASSUME AtOK, NEW t \in Tasks, NEW r, CallOK(r), at' = [at EXCEPT ![t] = r]
  PROVE  AtOK'
BY DEF AtOK, CallOK

LEMMA AwaitTyped ==
  ASSUME AtOK, NEW t \in Tasks, NEW where \in Where,
         where \in OnSession => at[t].on \in Sessions,
         where # "request", Await(t, where)
  PROVE  AtOK'
<1> DEFINE r == [at[t] EXCEPT !.pc = where]
<1>1. CallOK(r)
  BY DEF AtOK, CallOK, Calling, Where, Holding, Sending
<1>2. at' = [at EXCEPT ![t] = r]
  BY DEF AtOK, CallOK, Calling
<1> QED
  BY <1>1, <1>2, AtUpdated

LEMMA IdleTyped ==
  ASSUME AtOK, NEW t \in Tasks, at' = [at EXCEPT ![t] = Idle]
  PROVE  AtOK'
<1>1. CallOK(Idle)
  BY DEF CallOK, Calling, OnSession, Sending
<1> QED
  BY <1>1, AtUpdated

LEMMA ReturnTyped ==
  ASSUME AtOK, LocksOK, NEW t \in Tasks, Return(t)
  PROVE  AtOK' /\ LocksOK'
<1>1. AtOK'
  BY IdleTyped DEF Return
<1>2. LocksOK'
  BY LockTyped DEF Return, LocksOK
<1> QED
  BY <1>1, <1>2

LEMMA CloseTyped ==
  ASSUME AtOK, OthersOK, NEW t \in Tasks, NEW next \in {"discover", "return"},
         session # NoSession, CloseUnlocked(t, next),
         UNCHANGED <<device, leased, history>>
  PROVE  AtOK' /\ OthersOK'
<1> DEFINE r == [Idle EXCEPT !.pc = IF phase[session] = "stopped" THEN "gather" ELSE "closepkt",
                             !.on = session, !.next = next]
<1>1. CallOK(r)
  BY DEF OthersOK, CallOK, Calling, OnSession, Sending
<1>2. AtOK'
  BY <1>1, AtUpdated DEF CloseUnlocked
<1>3. OthersOK'
  BY DEF CloseUnlocked, OthersOK, device, history
<1> QED
  BY <1>2, <1>3

(* What the camera may send is a message.                                   *)
LEMMA ResponsesTyped ==
  ASSUME OthersOK, NEW s \in Sessions
  PROVE  Responses(s) \subseteq Message
<1>1. ASSUME NEW f \in Frames
      PROVE  [of |-> f.id, code |-> ResponseCode(f.kind)] \in Message
  BY <1>1 DEF Frames, Kinds, Message, ResponseCode
<1>2. \A n \in 1 .. MaxStatus : [of |-> -n, code |-> "status"] \in Message
  BY BoundsAssumption DEF Message
<1> QED
  BY <1>1, <1>2 DEF Responses, OthersOK

(* A frame is put on the wire.                                              *)
LEMMA SendTyped ==
  ASSUME AtOK, OthersOK, NEW t \in Tasks, NEW kind \in Kinds,
         NEW stage \in {"login", "eye4", "command"}, SendFramed(t, stage, kind),
         at[t].command \in Commands
  PROVE  /\ AtOK'
         /\ inbox' \in [Sessions -> Seq(Message)]
         /\ sent' \subseteq Frames
         /\ IsFiniteSet(sent')
         /\ UNCHANGED <<phase, seen>>
<1> DEFINE id == Cardinality(sent) + 1
           r  == [at[t] EXCEPT !.pc = "ack", !.on = session, !.stage = stage, !.frame = id]
<1>1. id \in Nat
  BY FS_CardinalityType DEF OthersOK
<1>2. session \in Sessions
  BY DEF OthersOK, SendFramed
<1>3. CallOK(r)
  BY <1>1, <1>2 DEF AtOK, CallOK, Calling
<1>4. at' = [at EXCEPT ![t] = r]
  BY DEF SendFramed, AtOK, CallOK, Calling
<1>5. [id |-> id, on |-> session, kind |-> kind] \in Frames
  BY <1>1, <1>2 DEF Frames
<1>6. IsFiniteSet(sent')
  BY FS_AddElement DEF OthersOK, SendFramed
<1>7. AtOK'
  BY <1>3, <1>4, AtUpdated
<1>8. inbox' \in [Sessions -> Seq(Message)]
  BY <1>2 DEF SendFramed, OthersOK
<1>9. sent' \subseteq Frames
  BY <1>5 DEF SendFramed, OthersOK
<1> QED
  BY <1>6, <1>7, <1>8, <1>9 DEF SendFramed

LEMMA EnvironmentTyped ==
  ASSUME Typed, NEW s \in Sessions, Environment(s)
  PROVE  Typed'
<1> USE DEF transport, locks, device, history
<1>1. AtOK' /\ LocksOK'
  BY DEF Typed, AtOK, LocksOK, Environment, SessionReady, SessionTaskFails,
         SessionTaskDone, PeerDisconnects, Receive
<1> USE DEF Typed, OthersOK
<1>2. CASE SessionReady(s) \/ SessionTaskFails(s)
  BY <1>1, <1>2 DEF SessionReady, SessionTaskFails
<1>3. CASE SessionTaskDone(s) \/ PeerDisconnects(s)
  BY <1>1, <1>3 DEF SessionTaskDone, PeerDisconnects, MarkDisconnected, Stopped
<1>4. ASSUME NEW m \in Responses(s), Receive(s, m)
      PROVE  Typed'
  <2>1. m \in Message
    BY <1>4, ResponsesTyped
  <2>2. inbox' \in [Sessions -> Seq(Message)] /\ seen' \in [Sessions -> SUBSET Message]
    BY <1>4, <2>1 DEF Receive
  <2> QED
    BY <1>1, <1>4, <2>2 DEF Receive
<1> QED
  BY <1>2, <1>3, <1>4 DEF Environment

(* The actions of connect(), close() and session_lease().                   *)
LifecycleStep(t) ==
  \/ \E method \in Calls \cap Lifecycle : CallLifecycle(t, method)
  \/ ConnectLocked(t) \/ (\E s \in Sessions : Discovered(t, s)) \/ NotDiscovered(t)
  \/ Started(t) \/ NotStarted(t) \/ CloseLocked(t) \/ Close(t)
  \/ ClosePacketSent(t) \/ ClosePacketCancelled(t)
  \/ SessionGone(t) \/ GatherCancelled(t) \/ LeaseLocked(t) \/ EndLease(t)

LEMMA LifecycleTyped ==
  ASSUME Typed, SessionInv, NEW t \in Tasks, LifecycleStep(t)
  PROVE  Typed'
<1> USE DEF Typed, transport, locks, device, history
<1>1. ASSUME NEW method \in Calls \cap Lifecycle, CallLifecycle(t, method)
      PROVE  Typed'
  <2>1. AtOK'
    BY <1>1, AwaitTyped DEF CallLifecycle, Lifecycle, Where, OnSession, Sending
  <2> QED
    BY <1>1, <2>1, LockTyped DEF CallLifecycle, LocksOK, OthersOK
<1>2. CASE ConnectLocked(t)
  <2>1. LocksOK'
    BY <1>2, LockTyped DEF ConnectLocked, LocksOK
  <2>2. CASE Await(t, "idle") /\ UNCHANGED transport
    BY <1>2, <2>1, <2>2, AwaitTyped DEF ConnectLocked, Where, OnSession, Sending, OthersOK
  <2>3. CASE session # NoSession /\ CloseUnlocked(t, "discover")
    BY <1>2, <2>1, <2>3, CloseTyped DEF ConnectLocked
  <2>4. CASE authenticated' = FALSE /\ Await(t, "discover") /\ UNCHANGED <<session, connected>>
    BY <1>2, <2>1, <2>4, AwaitTyped DEF ConnectLocked, Where, Holding, OnSession, Sending, OthersOK
  <2> QED
    BY <1>2, <2>2, <2>3, <2>4 DEF ConnectLocked
<1>3. ASSUME NEW s \in Sessions, Discovered(t, s)
      PROVE  Typed'
  <2> DEFINE r == [at[t] EXCEPT !.pc = "ready", !.on = s]
  <2>1. CallOK(r) /\ at' = [at EXCEPT ![t] = r]
    BY <1>3 DEF Discovered, AtOK, CallOK, Calling
  <2> QED
    BY <1>3, <2>1, AtUpdated DEF Discovered, LocksOK, OthersOK
<1>4. CASE NotDiscovered(t) \/ GatherCancelled(t)
  BY <1>4, ReturnTyped DEF NotDiscovered, GatherCancelled, OthersOK
<1>5. CASE Started(t)
  BY <1>5, ReturnTyped DEF Started, OthersOK
<1>6. CASE NotStarted(t)
  <2>1. session # NoSession
    BY <1>6 DEF NotStarted, SessionInv, AtOK, CallOK, OnSession
  <2> QED
    BY <1>6, <2>1, CloseTyped DEF NotStarted, LocksOK
<1>7. CASE CloseLocked(t)
  BY <1>7, LockTyped, AwaitTyped
     DEF CloseLocked, LocksOK, OthersOK, Where, Holding, OnSession, Sending
<1>8. CASE Close(t)
  <2>1. LocksOK'
    BY <1>8, LockTyped DEF Close, LocksOK
  <2>2. CASE session = NoSession
    BY <1>8, <2>1, <2>2, AwaitTyped DEF Close, OthersOK, Where, OnSession, Sending
  <2>3. CASE session # NoSession
    BY <1>8, <2>1, <2>3, CloseTyped DEF Close
  <2> QED
    BY <2>2, <2>3
<1>9. ASSUME NEW next \in {"none", "discover", "return"}, StopClosing(t, next)
      PROVE  Typed'
  <2> DEFINE r == [at[t] EXCEPT !.pc = "gather", !.next = next]
  <2>1. CallOK(r) /\ at' = [at EXCEPT ![t] = r]
    BY <1>9 DEF StopClosing, AtOK, CallOK, Calling, OnSession
  <2> QED
    BY <1>9, <2>1, AtUpdated DEF StopClosing, Stopped, LocksOK, OthersOK
<1>10. CASE ClosePacketSent(t) \/ ClosePacketCancelled(t)
  BY <1>9, <1>10 DEF ClosePacketSent, ClosePacketCancelled, AtOK, CallOK, Calling
<1>11. CASE SessionGone(t)
  <2> DEFINE r == [Idle EXCEPT !.pc = "discover"]
  <2>1. CallOK(r)
    BY DEF CallOK, Calling, OnSession, Sending
  <2>2. CASE at[t].next = "discover"
    BY <1>11, <2>1, <2>2, AtUpdated DEF SessionGone, LocksOK, OthersOK
  <2>3. CASE at[t].next = "return"
    BY <1>11, <2>3, ReturnTyped DEF SessionGone, OthersOK
  <2> QED
    BY <1>11, <2>2, <2>3 DEF SessionGone
<1>12. CASE LeaseLocked(t)
  BY <1>12, LockTyped, AwaitTyped DEF LeaseLocked, LocksOK, OthersOK, Where, OnSession, Sending
<1>13. CASE EndLease(t)
  BY <1>13, LockTyped DEF EndLease, LocksOK, OthersOK, AtOK
<1> QED
  BY <1>1, <1>2, <1>3, <1>4, <1>5, <1>6, <1>7, <1>8, <1>10, <1>11, <1>12, <1>13
     DEF LifecycleStep
(* The actions of request() and send_channel_parts(), and the cancellation  *)
(* of a task that waits for a lock.                                         *)
RequestStep(t) ==
  \/ (\E c \in Commands : CallRequest(t, c)) \/ CallChannel(t)
  \/ NotConnected(t) \/ RequestLocked(t) \/ ChannelLocked(t) \/ Acknowledged(t)
  \/ IgnoreResponse(t) \/ AcceptLast(t) \/ AcceptLoginDual(t) \/ AcceptLogin(t)
  \/ AbandonFrame(t) \/ AbandonParts(t) \/ CancelWaiting(t)

(* A response is accepted.                                                  *)
LEMMA AcceptTyped ==
  ASSUME Typed, NEW t \in Tasks, Accept(t)
  PROVE  /\ answer' \in [frame : Nat, kind : Kinds \cup {"none"}, of : Int]
         /\ TakeNext(t) => inbox' \in [Sessions -> Seq(Message)]
         /\ at[t].on \in Sessions
<1>1. at[t] \in Calling /\ at[t].on \in Sessions
  BY DEF Typed, AtOK, CallOK, Accept, Arrived, OnSession, Sending
<1>2. inbox[at[t].on] \in Seq(Message) /\ inbox[at[t].on] # << >>
  BY <1>1 DEF Typed, OthersOK, Accept, Arrived
<1>3. Arriving(t) \in Message /\ Tail(inbox[at[t].on]) \in Seq(Message)
  BY <1>2, HeadTailProperties DEF Arriving
<1>4. ResponseCode(Kind(t)) \in Kinds \cup {"status"} => Kind(t) \in Kinds \cup {"none", "parts"}
  BY <1>1 DEF Kind, Calling, Kinds, AllCommands
<1>5. Matches(Kind(t), Arriving(t).code) => Kind(t) \in Kinds \cup {"none"}
  BY <1>1, <1>3 DEF Kind, Calling, Kinds, AllCommands, Matches, ResponseCode, Message
<1>6. TakeNext(t) => inbox' \in [Sessions -> Seq(Message)]
  BY <1>1, <1>3 DEF TakeNext, Typed, OthersOK
<1>7. answer' \in [frame : Nat, kind : Kinds \cup {"none"}, of : Int]
  BY <1>1, <1>3, <1>5 DEF Accept, Calling, Message
<1> QED
  BY <1>1, <1>6, <1>7

LEMMA ContinueTyped ==
  ASSUME Typed, NEW t \in Tasks, Accept(t), NEW kind \in Kinds,
         NEW stage \in {"login", "eye4", "command"}, Continue(t, stage, kind),
         at[t].command \in Commands
  PROVE  /\ AtOK' /\ LocksOK'
         /\ inbox' \in [Sessions -> Seq(Message)]
         /\ sent' \subseteq Frames
         /\ IsFiniteSet(sent')
         /\ UNCHANGED <<phase, seen>>
<1>1. CASE SendFramed(t, stage, kind) /\ UNCHANGED locks
  BY <1>1, SendTyped DEF Typed, LocksOK, locks
<1>2. CASE TakeNext(t) /\ Return(t) /\ UNCHANGED <<phase, seen, sent>>
  BY <1>2, AcceptTyped, ReturnTyped DEF Typed, OthersOK
<1> QED
  BY <1>1, <1>2 DEF Continue

LEMMA RequestTyped ==
  ASSUME Typed, NEW t \in Tasks, RequestStep(t)
  PROVE  Typed'
<1> USE DEF Typed, transport, locks, device, history
<1>1. ASSUME NEW c \in Commands, CallRequest(t, c)
      PROVE  Typed'
  <2> DEFINE r == [at[t] EXCEPT !.pc = "request", !.command = c]
  <2>1. CallOK(r) /\ at' = [at EXCEPT ![t] = r]
    BY <1>1 DEF CallRequest, AtOK, CallOK, Calling, OnSession, Sending, Commands
  <2> QED
    BY <1>1, <2>1, AtUpdated, LockTyped DEF CallRequest, LocksOK, OthersOK
<1>2. CASE CallChannel(t)
  BY <1>2, LockTyped, AwaitTyped DEF CallChannel, LocksOK, OthersOK, Where, OnSession, Sending
<1>3. CASE NotConnected(t)
  BY <1>3, LockTyped, IdleTyped DEF NotConnected, LocksOK, OthersOK
<1>4. CASE RequestLocked(t)
  <2> DEFINE protected == NeedsAuth(at[t].command) /\ ~authenticated
  <2>1. LocksOK'
    BY <1>4, LockTyped DEF RequestLocked, LocksOK
  <2>4. at[t].command \in Commands /\ at[t].command \in Kinds
    BY <1>4 DEF RequestLocked, AtOK, CallOK, Commands, Kinds
  <2>2. CASE protected
    BY <1>4, <2>1, <2>2, <2>4, SendTyped DEF RequestLocked, OthersOK, Kinds
  <2>3. CASE ~protected
    BY <1>4, <2>1, <2>3, <2>4, SendTyped DEF RequestLocked, OthersOK
  <2> QED
    BY <2>2, <2>3, <2>4
<1>5. CASE ChannelLocked(t)
  <2> DEFINE r == [at[t] EXCEPT !.pc = "ack", !.on = session, !.stage = "parts"]
  <2>1. CallOK(r) /\ at' = [at EXCEPT ![t] = r]
    BY <1>5, ZenonT(40) DEF ChannelLocked, AtOK, CallOK, Calling, OthersOK
  <2> QED
    BY <1>5, <2>1, AtUpdated, LockTyped DEF ChannelLocked, LocksOK, OthersOK
<1>6. CASE Acknowledged(t)
  <2>1. CASE Await(t, "response") /\ UNCHANGED locks
    BY <1>6, <2>1, AwaitTyped
       DEF Acknowledged, LocksOK, OthersOK, AtOK, CallOK, Where, OnSession, Sending
  <2>2. CASE Return(t)
    BY <1>6, <2>2, ReturnTyped DEF Acknowledged, OthersOK
  <2> QED
    BY <1>6, <2>1, <2>2 DEF Acknowledged
<1>7. CASE IgnoreResponse(t)
  <2>1. at[t].on \in Sessions /\ inbox[at[t].on] \in Seq(Message) /\ inbox[at[t].on] # << >>
    BY <1>7 DEF IgnoreResponse, Arrived, AtOK, CallOK, OthersOK, OnSession, Sending
  <2>2. inbox' \in [Sessions -> Seq(Message)]
    BY <1>7, <2>1, HeadTailProperties DEF IgnoreResponse, TakeNext, OthersOK
  <2> QED
    BY <1>7, <2>2 DEF IgnoreResponse, LocksOK, OthersOK, AtOK
<1>8. CASE AcceptLast(t)
  BY <1>8, AcceptTyped, ReturnTyped DEF AcceptLast, Accept, OthersOK
<1>9. CASE AcceptLoginDual(t)
  <2>1. at[t].command \in Commands
    BY <1>9 DEF AcceptLoginDual, AtOK, CallOK
  <2> QED
    BY <1>9, <2>1, AcceptTyped, ContinueTyped DEF AcceptLoginDual, Accept, OthersOK, Kinds
<1>10. CASE AcceptLogin(t)
  <2>1. at[t].command \in Commands /\ at[t].command \in Kinds
    BY <1>10 DEF AcceptLogin, AtOK, CallOK, Commands, Kinds
  <2> QED
    BY <1>10, <2>1, AcceptTyped, ContinueTyped DEF AcceptLogin, Accept, OthersOK
<1>11. CASE AbandonFrame(t)
  <2>1. at[t].on \in Sessions
    BY <1>11 DEF AbandonFrame, AtOK, CallOK, OnSession, Sending
  <2> QED
    BY <1>11, <2>1, ReturnTyped DEF AbandonFrame, Quarantine, MarkDisconnected, Stopped, OthersOK
<1>12. CASE AbandonParts(t)
  BY <1>12, ReturnTyped DEF AbandonParts, OthersOK
<1>13. CASE CancelWaiting(t)
  BY <1>13, IdleTyped, LockTyped DEF CancelWaiting, LocksOK, OthersOK
<1> QED
  BY <1>1, <1>2, <1>3, <1>4, <1>5, <1>6, <1>7, <1>8, <1>9, <1>10, <1>11, <1>12, <1>13
     DEF RequestStep
-----------------------------------------------------------------------------
(***************************************************************************)
(* The locks.                                                              *)
(***************************************************************************)

(* What t does leaves every other task where it is and takes no lock from   *)
(* another task.                                                            *)
Apart(t) ==
  /\ \A u \in Tasks \ {t} : at'[u] = at[u]
  /\ lifecycle'.owner = lifecycle.owner \/ lifecycle.owner \in {t, NoTask}
  /\ request'.owner = request.owner \/ request.owner \in {t, NoTask}
  /\ leased' = leased \/ leased' = t \/ (leased = t /\ leased' = NoTask)

(* The part of LockInv that is about t.                                     *)
LocksOf(t) ==
  /\ at[t].pc \in Holding => lifecycle.owner = t
  /\ leased = t => lifecycle.owner = t /\ at[t].pc \in {"idle", "request", "channel"} \cup Sending
  /\ at[t].pc \in Sending => request.owner = t

(* What a task's record holds, and what it holds one step later.            *)
LEMMA CallFields ==
  ASSUME AtOK, NEW t \in Tasks
  PROVE  /\ at[t] = [pc |-> at[t].pc, on |-> at[t].on, next |-> at[t].next,
                     command |-> at[t].command, stage |-> at[t].stage,
                     frame |-> at[t].frame]
         /\ \A where : Await(t, where) =>
              /\ at'[t] = [at[t] EXCEPT !.pc = where]
              /\ at'[t].pc = where
              /\ \A u \in Tasks \ {t} : at'[u] = at[u]
BY DEF AtOK, CallOK, Calling

LEMMA LocksApart ==
  ASSUME Typed, LockInv, NEW t \in Tasks, Apart(t), LocksOf(t)'
  PROVE  LockInv'
<1> SUFFICES ASSUME NEW u \in Tasks \ {t} PROVE LocksOf(u)'
  BY DEF LockInv, LocksOf
<1>1. LocksOf(u) /\ u # NoTask
  BY TasksAssumption DEF LockInv, LocksOf
<1> QED
  BY <1>1 DEF Apart, LocksOf

LEMMA ReturnLocks ==
  ASSUME Typed, LockInv, NEW t \in Tasks, Return(t), UNCHANGED leased
  PROVE  LockInv'
<1>1. Apart(t)
  BY LockTyped DEF Apart, Return, Typed, AtOK, LocksOK
<1>2. LocksOf(t)'
  BY DEF Return, Typed, AtOK, LocksOf, LockInv, Holding, Sending
<1> QED
  BY <1>1, <1>2, LocksApart

LEMMA LifecycleLocks ==
  ASSUME Typed, LockInv, NEW t \in Tasks, LifecycleStep(t)
  PROVE  LockInv'
<1>0. lifecycle \in Locks /\ request \in Locks /\ LocksOf(t) /\ t # NoTask
  BY TasksAssumption DEF Typed, LocksOK, LockInv, LocksOf
<1>f. /\ at[t] = [pc |-> at[t].pc, on |-> at[t].on, next |-> at[t].next,
                  command |-> at[t].command, stage |-> at[t].stage,
                  frame |-> at[t].frame]
      /\ \A where : Await(t, where) =>
           at'[t].pc = where /\ \A u \in Tasks \ {t} : at'[u] = at[u]
  BY CallFields DEF Typed
<1> USE DEF Typed, AtOK, transport, locks, device, history
<1>1. ASSUME NEW method \in Calls \cap Lifecycle, CallLifecycle(t, method)
      PROVE  LockInv'
  <2>1. Apart(t) /\ LocksOf(t)'
    BY <1>0, <1>f, <1>1, LockTyped DEF CallLifecycle, Lifecycle, Apart, LocksOf, Holding, Sending
  <2> QED
    BY <2>1, LocksApart
<1>2. CASE ConnectLocked(t)
  <2>0. lifecycle.owner = NoTask /\ leased # t /\ UNCHANGED <<request, leased>>
    BY <1>0, <1>2 DEF ConnectLocked, Turn, LocksOf
  <2>1. Taken(lifecycle) \in Locks /\ Taken(lifecycle).owner = t
    BY <1>0, <1>2, LockTyped DEF ConnectLocked
  <2>2. CASE Await(t, "idle") /\ lifecycle' = Released(Taken(lifecycle))
    BY <1>f, <2>0, <2>2, LocksApart DEF Apart, LocksOf, Holding, Sending
  <2>3. CASE CloseUnlocked(t, "discover") /\ lifecycle' = Taken(lifecycle)
    BY <1>f, <2>0, <2>1, <2>3, LocksApart DEF CloseUnlocked, Apart, LocksOf, Holding, Sending
  <2>4. CASE Await(t, "discover") /\ lifecycle' = Taken(lifecycle)
    BY <1>f, <2>0, <2>1, <2>4, LocksApart DEF Apart, LocksOf, Holding, Sending
  <2> QED
    BY <1>2, <2>2, <2>3, <2>4 DEF ConnectLocked
<1>3. ASSUME NEW s \in Sessions, Discovered(t, s)
      PROVE  LockInv'
  <2>1. Apart(t) /\ LocksOf(t)'
    BY <1>0, <1>f, <1>3 DEF Discovered, Apart, LocksOf, Holding, Sending
  <2> QED
    BY <2>1, LocksApart
<1>4. CASE NotDiscovered(t) \/ GatherCancelled(t) \/ Started(t)
  BY <1>4, ReturnLocks DEF NotDiscovered, GatherCancelled, Started
<1>5. CASE NotStarted(t)
  <2>1. Apart(t) /\ LocksOf(t)'
    BY <1>0, <1>f, <1>5 DEF NotStarted, CloseUnlocked, Apart, LocksOf, Holding, Sending
  <2> QED
    BY <2>1, LocksApart
<1>6. CASE CloseLocked(t)
  <2>1. Apart(t) /\ LocksOf(t)'
    BY <1>0, <1>f, <1>6, LockTyped DEF CloseLocked, Turn, Apart, LocksOf, Holding, Sending
  <2> QED
    BY <2>1, LocksApart
<1>7. CASE Close(t)
  <2>1. Apart(t) /\ LocksOf(t)'
    BY <1>0, <1>f, <1>7, LockTyped DEF Close, CloseUnlocked, Turn, Apart, LocksOf, Holding, Sending
  <2> QED
    BY <2>1, LocksApart
<1>8. CASE ClosePacketSent(t) \/ ClosePacketCancelled(t)
  <2>1. Apart(t) /\ LocksOf(t)'
    BY <1>0, <1>f, <1>8
       DEF ClosePacketSent, ClosePacketCancelled, StopClosing, Apart, LocksOf, Holding, Sending
  <2> QED
    BY <2>1, LocksApart
<1>9. CASE SessionGone(t)
  <2>1. CASE Return(t)
    BY <1>9, <2>1, ReturnLocks DEF SessionGone
  <2>2. CASE UNCHANGED locks /\ at' = [at EXCEPT ![t] = [Idle EXCEPT !.pc = "discover"]]
    <3>1. Apart(t) /\ LocksOf(t)'
      BY <1>0, <1>f, <1>9, <2>2 DEF SessionGone, Apart, LocksOf, Holding, Sending
    <3> QED
      BY <3>1, LocksApart
  <2> QED
    BY <1>9, <2>1, <2>2 DEF SessionGone
<1>10. CASE LeaseLocked(t)
  <2>1. Apart(t) /\ LocksOf(t)'
    BY <1>0, <1>f, <1>10, LockTyped DEF LeaseLocked, Turn, Apart, LocksOf, Holding, Sending
  <2> QED
    BY <2>1, LocksApart
<1>11. CASE EndLease(t)
  <2>1. Apart(t) /\ LocksOf(t)'
    BY <1>0, <1>f, <1>11, LockTyped DEF EndLease, Apart, LocksOf, Holding, Sending
  <2> QED
    BY <2>1, LocksApart
<1> QED
  BY <1>1, <1>2, <1>3, <1>4, <1>5, <1>6, <1>7, <1>8, <1>9, <1>10, <1>11 DEF LifecycleStep

LEMMA RequestLocks ==
  ASSUME Typed, LockInv, NEW t \in Tasks, RequestStep(t)
  PROVE  LockInv'
<1>0. lifecycle \in Locks /\ request \in Locks /\ LocksOf(t) /\ t # NoTask
  BY TasksAssumption DEF Typed, LocksOK, LockInv, LocksOf
<1>f. /\ at[t] = [pc |-> at[t].pc, on |-> at[t].on, next |-> at[t].next,
                  command |-> at[t].command, stage |-> at[t].stage,
                  frame |-> at[t].frame]
      /\ \A where : Await(t, where) =>
           at'[t].pc = where /\ \A u \in Tasks \ {t} : at'[u] = at[u]
  BY CallFields DEF Typed
<1> USE DEF Typed, AtOK, transport, locks, device, history
<1>1. ASSUME NEW c \in Commands, CallRequest(t, c)
      PROVE  LockInv'
  <2>1. Apart(t) /\ LocksOf(t)'
    BY <1>0, <1>f, <1>1, LockTyped DEF CallRequest, Apart, LocksOf, Holding, Sending
  <2> QED
    BY <2>1, LocksApart
<1>2. CASE CallChannel(t) \/ NotConnected(t)
  <2>1. Apart(t) /\ LocksOf(t)'
    BY <1>0, <1>f, <1>2, LockTyped DEF CallChannel, NotConnected, Turn, Apart, LocksOf, Holding, Sending
  <2> QED
    BY <2>1, LocksApart
<1>3. CASE RequestLocked(t) \/ ChannelLocked(t)
  <2>1. Apart(t) /\ LocksOf(t)'
    BY <1>0, <1>f, <1>3, LockTyped
       DEF RequestLocked, ChannelLocked, SendFramed, Turn, Apart, LocksOf, Holding, Sending
  <2> QED
    BY <2>1, LocksApart
<1>4. CASE Acknowledged(t)
  <2>1. CASE Return(t)
    BY <1>4, <2>1, ReturnLocks DEF Acknowledged
  <2>2. CASE UNCHANGED locks /\ Await(t, "response")
    <3>1. Apart(t) /\ LocksOf(t)'
      BY <1>0, <1>f, <1>4, <2>2 DEF Acknowledged, Apart, LocksOf, Holding, Sending
    <3> QED
      BY <3>1, LocksApart
  <2> QED
    BY <1>4, <2>1, <2>2 DEF Acknowledged
<1>5. CASE IgnoreResponse(t)
  BY <1>5 DEF IgnoreResponse, LockInv
<1>6. CASE AcceptLast(t) \/ AbandonFrame(t) \/ AbandonParts(t)
  BY <1>6, ReturnLocks DEF AcceptLast, Accept, AbandonFrame, AbandonParts
<1>7. ASSUME NEW stage, NEW kind, Accept(t), Continue(t, stage, kind)
      PROVE  LockInv'
  <2>1. CASE Return(t)
    BY <1>7, <2>1, ReturnLocks DEF Accept
  <2>2. CASE SendFramed(t, stage, kind) /\ UNCHANGED locks
    <3>1. Apart(t) /\ LocksOf(t)'
      BY <1>0, <1>f, <1>7, <2>2 DEF SendFramed, Accept, Arrived, Apart, LocksOf, Holding, Sending
    <3> QED
      BY <3>1, LocksApart
  <2> QED
    BY <1>7, <2>1, <2>2 DEF Continue
<1>8. CASE AcceptLoginDual(t) \/ AcceptLogin(t)
  BY <1>7, <1>8 DEF AcceptLoginDual, AcceptLogin
<1>9. CASE CancelWaiting(t)
  <2>1. lifecycle'.owner = lifecycle.owner \/ lifecycle.owner = t
    BY <1>0, <1>9, LockTyped DEF CancelWaiting, LocksOf, Holding
  <2>2. request'.owner = request.owner
    BY <1>0, <1>9, LockTyped DEF CancelWaiting
  <2>3. leased = t => lifecycle'.owner = lifecycle.owner
    BY <1>0, <1>9 DEF CancelWaiting, LocksOf, Sending
  <2>4. Apart(t) /\ LocksOf(t)'
    BY <1>0, <1>9, <2>1, <2>2, <2>3 DEF CancelWaiting, Apart, LocksOf, Holding, Sending
  <2> QED
    BY <2>4, LocksApart
<1> QED
  BY <1>1, <1>2, <1>3, <1>4, <1>5, <1>6, <1>8, <1>9 DEF RequestStep
-----------------------------------------------------------------------------
(***************************************************************************)
(* The current session.                                                    *)
(***************************************************************************)

(* No other task opens or closes a session.                                 *)
Alone(t) == \A u \in Tasks \ {t} : at[u].pc \notin Holding

LEMMA HolderIsAlone ==
  ASSUME LockInv, NEW t \in Tasks, at[t].pc \in Holding \/ lifecycle.owner = NoTask
  PROVE  Alone(t)
BY TasksAssumption DEF LockInv, Alone

(* A step of t that neither opens nor closes a session nor ends a close.    *)
Quiet(t) ==
  /\ session' = session /\ phase' = phase /\ (connected' => connected)
  /\ at[t].pc # "closepkt"
  /\ \A u \in Tasks \ {t} : at'[u] = at[u]
  /\ at'[t].pc \in Holding \ {"close2"} => at'[t].pc = at[t].pc /\ at'[t].on = at[t].on
  /\ at'[t].pc \in Sending => phase[at'[t].on] # "unborn"

LEMMA QuietSession ==
  ASSUME SessionInv, NEW t \in Tasks, Quiet(t)
  PROVE  SessionInv'
<1>1. ASSUME NEW u \in Tasks
      PROVE  /\ at'[u].pc \in {"discover", "closepkt", "gather"} => session' = NoSession /\ ~connected'
             /\ at'[u].pc = "ready" => session' = at'[u].on /\ ~connected'
             /\ at'[u].pc \in {"ready", "closepkt", "gather"} \cup Sending
                  => phase'[at'[u].on] # "unborn"
  BY DEF SessionInv, Quiet, Holding, Sending
<1>2. ASSUME NEW s \in Sessions, Open(s)'
      PROVE  s = session' \/ \E u \in Tasks : at'[u].pc = "closepkt" /\ at'[u].on = s
  BY <1>2 DEF SessionInv, Quiet, Open
<1> QED
  BY <1>1, <1>2 DEF SessionInv, Quiet, Open

LEMMA CloseSession ==
  ASSUME Typed, SessionInv, NEW t \in Tasks, Alone(t), at[t].pc # "closepkt",
         NEW next, session # NoSession, CloseUnlocked(t, next), UNCHANGED phase
  PROVE  SessionInv'
<1>1. /\ at'[t].pc = IF phase[session] = "stopped" THEN "gather" ELSE "closepkt"
      /\ at'[t].on = session
      /\ \A u \in Tasks \ {t} : at'[u] = at[u]
  BY DEF CloseUnlocked, Typed, AtOK
<1>2. ASSUME NEW u \in Tasks
      PROVE  /\ at'[u].pc # "ready"
             /\ at'[u].pc \in {"ready", "closepkt", "gather"} \cup Sending
                  => phase'[at'[u].on] # "unborn"
  BY <1>1 DEF SessionInv, Alone, Holding, Sending
<1>3. ASSUME NEW s \in Sessions, Open(s)'
      PROVE  \E u \in Tasks : at'[u].pc = "closepkt" /\ at'[u].on = s
  <2>1. s = session
    BY <1>3 DEF SessionInv, Open, Alone, Holding
  <2> QED
    BY <1>1, <1>3, <2>1 DEF Open
<1> QED
  BY <1>2, <1>3 DEF SessionInv, CloseUnlocked

(* The environment, and a task that quarantines, end sessions.              *)
LEMMA EndSession ==
  ASSUME Typed, SessionInv, NEW s \in Sessions, UNCHANGED session,
         \A u \in Tasks : at'[u] = at[u] \/ (at'[u] = Idle /\ at[u].pc \in Sending),
         NEW p \in {"starting", "running", "failed", "stopped"},
         phase' = [phase EXCEPT ![s] = p],
         p # "stopped" => Open(s) /\ UNCHANGED connected,
         connected /\ s = session => p \in {"running", "failed"} \/ ~connected',
         connected' => connected
  PROVE  SessionInv'
<1>1. \A r \in Sessions : phase'[r] = IF r = s THEN p ELSE phase[r]
  BY DEF Typed, OthersOK
<1>2. ASSUME NEW u \in Tasks, at'[u].pc \in {"ready", "closepkt", "gather"} \cup Sending
      PROVE  at'[u] = at[u] /\ phase'[at[u].on] # "unborn"
  <2>1. at'[u] = at[u] /\ at[u].on \in Sessions
    BY <1>2 DEF Typed, AtOK, CallOK, OnSession, Sending
  <2> QED
    BY <1>1, <1>2, <2>1 DEF SessionInv
<1>3. ASSUME NEW r \in Sessions, Open(r)'
      PROVE  Open(r)
  BY <1>1, <1>3 DEF Open
<1>4. session # NoSession => session \in Sessions
  BY DEF Typed, OthersOK
<1>5. \A u \in Tasks : at'[u].pc \in Holding \/ at[u].pc \in Holding => at'[u] = at[u]
  BY DEF Holding, Sending
<1>6. ASSUME NEW r \in Sessions, Open(r)'
      PROVE  r = session \/ \E u \in Tasks : at'[u].pc = "closepkt" /\ at'[u].on = r
  BY <1>3, <1>5, <1>6 DEF SessionInv, Holding
<1>7. ASSUME NEW u \in Tasks
      PROVE  /\ at'[u].pc \in {"discover", "closepkt", "gather"} => session' = NoSession /\ ~connected'
             /\ at'[u].pc = "ready" => session' = at'[u].on /\ ~connected'
  BY <1>5 DEF SessionInv, Holding
<1> QED
  BY <1>1, <1>2, <1>4, <1>6, <1>7 DEF SessionInv

LEMMA EnvironmentSession ==
  ASSUME Typed, SessionInv, NEW s \in Sessions, Environment(s)
  PROVE  SessionInv'
<1> USE DEF transport, locks, device, history
<1>1. CASE SessionReady(s)
  BY <1>1, EndSession DEF SessionReady, Open
<1>2. CASE SessionTaskFails(s)
  BY <1>2, EndSession DEF SessionTaskFails, Open
<1>3. CASE SessionTaskDone(s) \/ PeerDisconnects(s)
  BY <1>3, EndSession DEF SessionTaskDone, PeerDisconnects, MarkDisconnected, Stopped, Typed, OthersOK
<1>4. ASSUME NEW m \in Responses(s), Receive(s, m)
      PROVE  SessionInv'
  BY <1>4 DEF Receive, SessionInv, Open
<1> QED
  BY <1>1, <1>2, <1>3, <1>4 DEF Environment
LEMMA LifecycleSession ==
  ASSUME Typed, LockInv, SessionInv, NEW t \in Tasks, LifecycleStep(t)
  PROVE  SessionInv'
<1>f. /\ at[t] = [pc |-> at[t].pc, on |-> at[t].on, next |-> at[t].next,
                  command |-> at[t].command, stage |-> at[t].stage,
                  frame |-> at[t].frame]
      /\ \A where : Await(t, where) =>
           at'[t].pc = where /\ \A u \in Tasks \ {t} : at'[u] = at[u]
  BY CallFields DEF Typed
<1> USE DEF Typed, AtOK, transport, locks, device, history
<1>q. ASSUME Quiet(t)
      PROVE  SessionInv'
  BY <1>q, QuietSession
<1>1. ASSUME NEW method \in Calls \cap Lifecycle, CallLifecycle(t, method)
      PROVE  SessionInv'
  BY <1>f, <1>q, <1>1 DEF CallLifecycle, Lifecycle, Quiet, Holding, Sending
<1>2. CASE ConnectLocked(t)
  <2>1. Alone(t) /\ at[t].pc = "connect" /\ UNCHANGED phase
    BY <1>2, HolderIsAlone DEF ConnectLocked, Turn
  <2>2. CASE Await(t, "idle") /\ UNCHANGED transport
    BY <1>f, <1>q, <2>1, <2>2 DEF Quiet, Holding, Sending
  <2>3. CASE session # NoSession /\ CloseUnlocked(t, "discover")
    BY <2>1, <2>3, CloseSession
  <2>4. CASE ~Connected /\ session = NoSession /\ Await(t, "discover")
             /\ UNCHANGED <<session, connected>>
    <3>1. \A u \in Tasks : at'[u].pc = "closepkt" => at'[u] = at[u]
      BY <1>f, <2>4
    <3>2. \A u \in Tasks : at[u].pc = "closepkt" => at'[u] = at[u]
      BY <1>f, <2>1, <2>4
    <3> QED
      BY <1>f, <2>1, <2>4, <3>1, <3>2 DEF SessionInv, Alone, Holding, Sending, Open
  <2> QED
    BY <1>2, <2>2, <2>3, <2>4 DEF ConnectLocked
<1>3. ASSUME NEW s \in Sessions, Discovered(t, s)
      PROVE  SessionInv'
  <2>1. Alone(t) /\ session = NoSession /\ ~connected /\ phase[s] = "unborn"
    BY <1>3, HolderIsAlone DEF Discovered, Holding, SessionInv
  <2>2. /\ at'[t].pc = "ready" /\ at'[t].on = s
        /\ \A u \in Tasks \ {t} : at'[u] = at[u]
    BY <1>f, <1>3 DEF Discovered
  <2>3. \A r \in Sessions : phase'[r] = IF r = s THEN "starting" ELSE phase[r]
    BY <1>3 DEF Discovered, OthersOK
  <2>4. ASSUME NEW u \in Tasks, at'[u].pc \in {"ready", "closepkt", "gather"} \cup Sending
        PROVE  phase'[at'[u].on] # "unborn"
    <3>1. CASE u = t
      BY <2>2, <2>3, <3>1
    <3>2. CASE u # t
      <4>1. at[u].on \in Sessions /\ phase[at[u].on] # "unborn"
        BY <2>2, <2>4, <3>2 DEF SessionInv, CallOK, OnSession
      <4> QED
        BY <2>2, <2>3, <3>2, <4>1
    <3> QED
      BY <3>1, <3>2
  <2>5. ASSUME NEW r \in Sessions, Open(r)'
        PROVE  r = s
    BY <1>3, <2>1, <2>3, <2>5 DEF SessionInv, Open, Alone, Holding, Discovered
  <2>6. session' = s /\ connected' = connected
    BY <1>3 DEF Discovered
  <2>7. \A u \in Tasks \ {t} : at'[u].pc \notin Holding
    BY <2>1, <2>2 DEF Alone
  <2> QED
    BY <2>1, <2>2, <2>3, <2>4, <2>5, <2>6, <2>7 DEF SessionInv, Holding
<1>4. CASE NotDiscovered(t) \/ GatherCancelled(t)
  BY <1>f, <1>q, <1>4 DEF NotDiscovered, GatherCancelled, Return, Quiet, Holding, Sending
<1>5. CASE Started(t)
  <2>1. Alone(t) /\ at[t].pc = "ready"
    BY <1>5, HolderIsAlone DEF Started, Holding
  <2>2. /\ at'[t] = Idle /\ UNCHANGED <<session, phase>>
        /\ \A u \in Tasks \ {t} : at'[u] = at[u]
    BY <1>5 DEF Started, Return
  <2>3. session # NoSession /\ phase[session] = "running"
    BY <1>5 DEF Started, CallOK, OnSession
  <2>4. \A u \in Tasks : at'[u].pc \notin Holding
    BY <2>1, <2>2 DEF Alone, Holding
  <2>5. ASSUME NEW r \in Sessions, Open(r)'
        PROVE  r = session
    BY <2>1, <2>2, <2>5 DEF SessionInv, Open, Alone, Holding
  <2> QED
    BY <2>2, <2>3, <2>4, <2>5 DEF SessionInv, Holding, Sending
<1>6. CASE NotStarted(t)
  <2>1. Alone(t) /\ session # NoSession
    BY <1>6, HolderIsAlone DEF NotStarted, Holding, SessionInv, CallOK, OnSession
  <2> QED
    BY <1>6, <2>1, CloseSession DEF NotStarted
<1>7. CASE CloseLocked(t)
  BY <1>f, <1>q, <1>7 DEF CloseLocked, Quiet, Holding, Sending
<1>8. CASE Close(t)
  <2>1. CASE session = NoSession
    BY <1>f, <1>q, <1>8, <2>1 DEF Close, Quiet, Holding, Sending
  <2>2. CASE session # NoSession
    BY <1>8, <2>2, HolderIsAlone, CloseSession DEF Close, Holding
  <2> QED
    BY <2>1, <2>2
<1>9. CASE ClosePacketSent(t) \/ ClosePacketCancelled(t)
  <2> DEFINE c == at[t].on
  <2>1. Alone(t) /\ at[t].pc = "closepkt" /\ session = NoSession /\ ~connected /\ c \in Sessions
    BY <1>9, HolderIsAlone
       DEF ClosePacketSent, ClosePacketCancelled, StopClosing, Holding, SessionInv, CallOK, OnSession
  <2>2. /\ at'[t].pc = "gather" /\ at'[t].on = c
        /\ \A u \in Tasks \ {t} : at'[u] = at[u]
        /\ UNCHANGED <<session, connected>>
    BY <1>f, <1>9 DEF ClosePacketSent, ClosePacketCancelled, StopClosing
  <2>3. \A r \in Sessions : phase'[r] = IF r = c THEN "stopped" ELSE phase[r]
    BY <1>9, <2>1 DEF ClosePacketSent, ClosePacketCancelled, StopClosing, Stopped, OthersOK
  <2>4. ASSUME NEW u \in Tasks, at'[u].pc \in {"ready", "closepkt", "gather"} \cup Sending
        PROVE  phase'[at'[u].on] # "unborn"
    <3>1. at'[u].on = at[u].on /\ at[u].on \in Sessions /\ phase[at[u].on] # "unborn"
      BY <2>1, <2>2, <2>4 DEF SessionInv, CallOK, OnSession
    <3> QED
      BY <2>3, <3>1
  <2>5. ASSUME NEW r \in Sessions
        PROVE  ~Open(r)'
    BY <2>1, <2>3 DEF SessionInv, Open, Alone, Holding
  <2>6. \A u \in Tasks \ {t} : at'[u].pc \notin Holding
    BY <2>1, <2>2 DEF Alone
  <2> QED
    BY <2>1, <2>2, <2>4, <2>5, <2>6 DEF SessionInv, Holding
<1>10. CASE SessionGone(t)
  <2>1. CASE Return(t)
    BY <1>f, <1>q, <1>10, <2>1 DEF SessionGone, Return, Quiet, Holding, Sending
  <2>2. CASE at' = [at EXCEPT ![t] = [Idle EXCEPT !.pc = "discover"]]
    <3>1. Alone(t) /\ session = NoSession /\ ~connected /\ at[t].pc = "gather"
      BY <1>10, HolderIsAlone DEF SessionGone, Holding, SessionInv
    <3>2. /\ at'[t].pc = "discover" /\ UNCHANGED <<session, connected, phase>>
          /\ \A u \in Tasks \ {t} : at'[u] = at[u]
      BY <1>10, <2>2 DEF SessionGone
    <3>3. ASSUME NEW r \in Sessions
          PROVE  ~Open(r)'
      BY <3>1, <3>2 DEF SessionInv, Open, Alone, Holding
    <3> QED
      BY <3>1, <3>2, <3>3 DEF SessionInv, Alone, Holding, Sending
  <2> QED
    BY <1>10, <2>1, <2>2 DEF SessionGone
<1>11. CASE LeaseLocked(t)
  BY <1>f, <1>q, <1>11 DEF LeaseLocked, Quiet, Holding, Sending
<1>12. CASE EndLease(t)
  BY <1>12 DEF EndLease, SessionInv, Open
<1> QED
  BY <1>1, <1>2, <1>3, <1>4, <1>5, <1>6, <1>7, <1>8, <1>9, <1>10, <1>11, <1>12 DEF LifecycleStep

LEMMA RequestSession ==
  ASSUME Typed, LockInv, SessionInv, NEW t \in Tasks, RequestStep(t)
  PROVE  SessionInv'
<1>f. /\ at[t] = [pc |-> at[t].pc, on |-> at[t].on, next |-> at[t].next,
                  command |-> at[t].command, stage |-> at[t].stage,
                  frame |-> at[t].frame]
      /\ \A where : Await(t, where) =>
           at'[t].pc = where /\ \A u \in Tasks \ {t} : at'[u] = at[u]
  BY CallFields DEF Typed
<1> USE DEF Typed, AtOK, transport, locks, device, history
<1>q. ASSUME Quiet(t)
      PROVE  SessionInv'
  BY <1>q, QuietSession
<1>1. ASSUME NEW c \in Commands, CallRequest(t, c)
      PROVE  SessionInv'
  BY <1>f, <1>q, <1>1 DEF CallRequest, Quiet, Holding, Sending
<1>2. CASE CallChannel(t) \/ NotConnected(t)
  BY <1>f, <1>q, <1>2 DEF CallChannel, NotConnected, Quiet, Holding, Sending
<1>3. CASE RequestLocked(t) \/ ChannelLocked(t)
  <2>1. phase[session] # "unborn"
    BY <1>3 DEF RequestLocked, ChannelLocked, SessionInv
  <2>2. CASE RequestLocked(t)
    <3>1. /\ UNCHANGED <<session, connected, phase>> /\ at[t].pc = "request"
          /\ at'[t].pc = "ack" /\ at'[t].on = session
          /\ \A u \in Tasks \ {t} : at'[u] = at[u]
      BY <1>f, <2>2 DEF RequestLocked, SendFramed
    <3>2. Quiet(t)
      BY <2>1, <3>1 DEF Quiet, Holding, Sending
    <3> QED
      BY <1>q, <3>2
  <2>3. CASE ChannelLocked(t)
    BY <1>f, <1>q, <2>1, <2>3 DEF ChannelLocked, Quiet, Holding, Sending
  <2> QED
    BY <1>3, <2>2, <2>3
<1>4. CASE Acknowledged(t)
  <2>1. Quiet(t)
    BY <1>f, <1>4 DEF Acknowledged, Return, Quiet, Holding, Sending
  <2> QED
    BY <1>q, <2>1
<1>5. CASE IgnoreResponse(t)
  BY <1>5 DEF IgnoreResponse, SessionInv, Open
<1>6. CASE AcceptLast(t)
  BY <1>f, <1>q, <1>6 DEF AcceptLast, Accept, Arrived, Return, Quiet, Holding, Sending
<1>7. ASSUME NEW stage, NEW kind, Accept(t), Continue(t, stage, kind)
      PROVE  SessionInv'
  <2>1. CASE Return(t) /\ UNCHANGED <<phase, seen, sent>>
    BY <1>f, <1>q, <1>7, <2>1 DEF Accept, Arrived, Return, Quiet, Holding, Sending
  <2>2. CASE SendFramed(t, stage, kind)
    BY <1>f, <1>q, <1>7, <2>2, ZenonT(40) DEF SendFramed, Accept, Arrived, SessionInv, Quiet, Holding, Sending
  <2> QED
    BY <1>7, <2>1, <2>2 DEF Continue
<1>8. CASE AcceptLoginDual(t) \/ AcceptLogin(t)
  BY <1>7, <1>8 DEF AcceptLoginDual, AcceptLogin
<1>9. CASE AbandonFrame(t)
  <2> DEFINE c == at[t].on
  <2>1. c \in Sessions /\ at[t].pc \in Sending
    BY <1>9 DEF AbandonFrame, CallOK, OnSession, Sending
  <2>2. at' = [at EXCEPT ![t] = Idle] /\ UNCHANGED session
        /\ connected' = (connected /\ session # c)
    BY <1>9 DEF AbandonFrame, Return, Quarantine, MarkDisconnected
  <2>3. CASE session = c
    BY <1>9, <2>1, <2>2, <2>3, EndSession DEF AbandonFrame, Quarantine, Stopped
  <2>4. CASE session # c
    <3>1. Quiet(t)
      BY <1>9, <2>1, <2>2, <2>4 DEF AbandonFrame, Quarantine, Quiet, Holding, Sending
    <3> QED
      BY <1>q, <3>1
  <2> QED
    BY <2>3, <2>4
<1>10. CASE AbandonParts(t)
  <2>1. CASE at[t].pc # "closepkt"
    BY <1>f, <1>q, <1>10, <2>1 DEF AbandonParts, Return, Quiet, Holding, Sending
  <2> QED
    BY <1>10, <2>1 DEF AbandonParts
<1>11. CASE CancelWaiting(t)
  BY <1>f, <1>q, <1>11 DEF CancelWaiting, Quiet, Holding, Sending
<1> QED
  BY <1>1, <1>2, <1>3, <1>4, <1>5, <1>6, <1>8, <1>9, <1>10, <1>11 DEF RequestStep
-----------------------------------------------------------------------------
(***************************************************************************)
(* Abandoned frames.                                                       *)
(***************************************************************************)

(* A frame that needs a response is in flight.                              *)
InFlight(u) == at[u].pc \in Sending /\ at[u].stage # "parts"

(* A step that abandons no frame.  A session once born, or stopped, stays   *)
(* so; the current one is kept, dropped, or replaced by one just born.      *)
LEMMA NoneAbandoned ==
  ASSUME Typed, Typed', AbandonInv, UNCHANGED abandoned,
         session' \in {session, NoSession} \/ phase[session'] = "unborn",
         \A s \in Sessions : /\ phase[s] # "unborn" => phase'[s] # "unborn"
                             /\ phase[s] = "stopped" => phase'[s] = "stopped",
         \A u \in Tasks : InFlight(u)' => InFlight(u) \/ session \notin abandoned
  PROVE  AbandonInv'
<1>1. abandoned \subseteq Sessions /\ NoSession \notin abandoned
  BY DEF Typed, OthersOK
<1>2. ASSUME NEW u \in Tasks, InFlight(u)'
      PROVE  session' \notin abandoned
  BY <1>1, <1>2 DEF AbandonInv, InFlight
<1> QED
  BY <1>1, <1>2 DEF AbandonInv, InFlight

LEMMA EnvironmentAbandon ==
  ASSUME Typed, Typed', AbandonInv, NEW s \in Sessions, Environment(s)
  PROVE  AbandonInv'
<1>1. UNCHANGED <<session, at, abandoned>>
  BY DEF Environment, SessionReady, SessionTaskFails, SessionTaskDone, PeerDisconnects,
         Receive, transport, history
<1>2. ASSUME NEW r \in Sessions
      PROVE  /\ phase[r] # "unborn" => phase'[r] # "unborn"
             /\ phase[r] = "stopped" => phase'[r] = "stopped"
  BY DEF Environment, SessionReady, SessionTaskFails, SessionTaskDone, PeerDisconnects,
         Receive, Stopped, Typed, OthersOK
<1> QED
  BY <1>1, <1>2, NoneAbandoned DEF InFlight

(* connect(), close() and session_lease() neither begin nor end a frame.     *)
LEMMA LifecycleInFlight ==
  ASSUME Typed, NEW t \in Tasks, LifecycleStep(t), NEW u \in Tasks,
         InFlight(u) \/ InFlight(u)'
  PROVE  at'[u] = at[u]
<1> USE DEF transport, locks, device, history
<1>1. CASE u # t
  BY <1>1
     DEF InFlight, LifecycleStep, CallLifecycle, ConnectLocked, Discovered, NotDiscovered,
         Started, NotStarted, CloseLocked, Close, CloseUnlocked, ClosePacketSent,
         ClosePacketCancelled, StopClosing, SessionGone, GatherCancelled, LeaseLocked,
         EndLease, Return, Typed, AtOK
<1>2. CASE u = t /\ ~EndLease(t)
  <2>1. /\ at[t] = [pc |-> at[t].pc, on |-> at[t].on, next |-> at[t].next,
                    command |-> at[t].command, stage |-> at[t].stage,
                    frame |-> at[t].frame]
        /\ \A where : Await(t, where) => at'[t].pc = where
    BY CallFields DEF Typed
  <2>2. at[t].pc \notin Sending
    BY DEF LifecycleStep, CallLifecycle, ConnectLocked, Discovered, NotDiscovered, Started,
           NotStarted, CloseLocked, Close, ClosePacketSent, ClosePacketCancelled,
           StopClosing, SessionGone, GatherCancelled, LeaseLocked, EndLease, Sending
  <2> SUFFICES at'[t].pc \notin Sending
    BY <1>2, <2>2 DEF InFlight
  <2>3. ASSUME NEW next, CloseUnlocked(t, next)
        PROVE  at'[t].pc \notin Sending
    <3>1. at'[t].pc = IF phase[session] = "stopped" THEN "gather" ELSE "closepkt"
      BY <2>3 DEF CloseUnlocked, Typed, AtOK
    <3> QED
      BY <3>1 DEF Sending
  <2>4. CASE \E where \in Where \ Sending : Await(t, where)
    BY <2>1, <2>4
  <2>5. CASE (\E r : r.pc \in {"idle", "discover"} /\ at' = [at EXCEPT ![t] = r])
    BY <2>5 DEF Typed, AtOK, Sending
  <2>6. CASE (\E s \in Sessions : Discovered(t, s)) \/ ClosePacketSent(t) \/ ClosePacketCancelled(t)
    <3>1. ASSUME NEW s \in Sessions, Discovered(t, s)
          PROVE  at'[t].pc = "ready"
      BY <2>1, <3>1 DEF Discovered, Typed, AtOK
    <3>2. ASSUME NEW next, StopClosing(t, next)
          PROVE  at'[t].pc = "gather"
      BY <2>1, <3>2 DEF StopClosing, Typed, AtOK
    <3> QED
      BY <2>6, <3>1, <3>2 DEF ClosePacketSent, ClosePacketCancelled, Sending
  <2>7. CASE CallLifecycle(t, "connect") \/ CallLifecycle(t, "close") \/ CallLifecycle(t, "lease")
             \/ CloseLocked(t) \/ LeaseLocked(t)
    BY <2>4, <2>7 DEF CallLifecycle, CloseLocked, LeaseLocked, Where, Holding, Sending
  <2>8. CASE ConnectLocked(t) \/ Close(t) \/ NotStarted(t)
    BY <2>3, <2>4, <2>8 DEF ConnectLocked, Close, NotStarted, Where, Holding, Sending
  <2>9. CASE NotDiscovered(t) \/ Started(t) \/ SessionGone(t) \/ GatherCancelled(t)
    BY <2>5, <2>9 DEF NotDiscovered, Started, SessionGone, GatherCancelled, Return
  <2> QED
    BY <1>2, <2>6, <2>7, <2>8, <2>9 DEF LifecycleStep, Lifecycle
<1>3. CASE EndLease(t)
  BY <1>3 DEF EndLease
<1> QED
  BY <1>1, <1>2, <1>3

LEMMA LifecycleAbandon ==
  ASSUME Typed, Typed', AbandonInv, NEW t \in Tasks, LifecycleStep(t)
  PROVE  AbandonInv'
<1> USE DEF transport, locks, device, history
<1>1. UNCHANGED abandoned
  BY DEF LifecycleStep, CallLifecycle, ConnectLocked, Discovered, NotDiscovered, Started,
         NotStarted, CloseLocked, Close, ClosePacketSent, ClosePacketCancelled, StopClosing,
         SessionGone, GatherCancelled, LeaseLocked, EndLease
<1>2. ASSUME NEW r \in Sessions
      PROVE  /\ phase[r] # "unborn" => phase'[r] # "unborn"
             /\ phase[r] = "stopped" => phase'[r] = "stopped"
  <2>1. CASE UNCHANGED phase
    BY <2>1
  <2>2. CASE \E s \in Sessions : Discovered(t, s)
    BY <2>2 DEF Discovered, Typed, OthersOK
  <2>3. CASE phase' = Stopped(at[t].on)
    BY <2>3 DEF Stopped, Typed, OthersOK
  <2> QED
    BY <2>1, <2>2, <2>3
       DEF LifecycleStep, CallLifecycle, ConnectLocked, NotDiscovered, Started,
           NotStarted, CloseLocked, Close, ClosePacketSent, ClosePacketCancelled, StopClosing,
           SessionGone, GatherCancelled, LeaseLocked, EndLease
<1>3. session' \in {session, NoSession} \/ phase[session'] = "unborn"
  BY DEF LifecycleStep, CallLifecycle, ConnectLocked, Discovered, NotDiscovered, Started,
         NotStarted, CloseLocked, Close, CloseUnlocked, ClosePacketSent,
         ClosePacketCancelled, StopClosing, SessionGone, GatherCancelled, LeaseLocked, EndLease
<1>4. \A u \in Tasks : InFlight(u)' => InFlight(u)
  BY LifecycleInFlight DEF InFlight
<1> QED
  BY <1>1, <1>2, <1>3, <1>4, NoneAbandoned

LEMMA RequestAbandon ==
  ASSUME Typed, Typed', LockInv, SessionInv, AbandonInv, NEW t \in Tasks, RequestStep(t)
  PROVE  AbandonInv'
<1>f. /\ at[t] = [pc |-> at[t].pc, on |-> at[t].on, next |-> at[t].next,
                  command |-> at[t].command, stage |-> at[t].stage,
                  frame |-> at[t].frame]
      /\ \A where : Await(t, where) =>
           at'[t].pc = where /\ \A u \in Tasks \ {t} : at'[u] = at[u]
  BY CallFields DEF Typed
<1> USE DEF transport, locks, device, history
<1>k. ASSUME UNCHANGED <<session, phase, abandoned>>,
             \A u \in Tasks \ {t} : at'[u] = at[u],
             InFlight(t)' => InFlight(t) \/ session \notin abandoned
      PROVE  AbandonInv'
  <2>1. \A u \in Tasks : InFlight(u)' => InFlight(u) \/ session \notin abandoned
    BY <1>k DEF InFlight
  <2> QED
    BY <1>k, <2>1, NoneAbandoned
<1> USE DEF Typed, AtOK
<1>1. ASSUME NEW c \in Commands, CallRequest(t, c)
      PROVE  AbandonInv'
  BY <1>f, <1>k, <1>1 DEF CallRequest, InFlight, Sending
<1>2. CASE CallChannel(t) \/ NotConnected(t)
  BY <1>f, <1>k, <1>2 DEF CallChannel, NotConnected, InFlight, Sending
<1>3. CASE RequestLocked(t)
  <2>1. session \notin abandoned
    BY <1>3 DEF RequestLocked, AbandonInv, SessionInv
  <2>2. UNCHANGED <<session, phase, abandoned>> /\ \A u \in Tasks \ {t} : at'[u] = at[u]
    BY <1>3 DEF RequestLocked, SendFramed
  <2> QED
    BY <1>k, <2>1, <2>2
<1>4. CASE ChannelLocked(t)
  BY <1>f, <1>k, <1>4 DEF ChannelLocked, InFlight
<1>5. CASE Acknowledged(t)
  <2>1. InFlight(t)' => InFlight(t)
    BY <1>f, <1>5 DEF Acknowledged, Return, InFlight, Sending
  <2>2. UNCHANGED <<session, phase, abandoned>> /\ \A u \in Tasks \ {t} : at'[u] = at[u]
    BY <1>f, <1>5 DEF Acknowledged, Return
  <2> QED
    BY <1>k, <2>1, <2>2
<1>6. CASE IgnoreResponse(t)
  BY <1>k, <1>6 DEF IgnoreResponse, InFlight
<1>7. CASE AcceptLast(t)
  BY <1>f, <1>k, <1>7 DEF AcceptLast, Accept, Return, InFlight, Sending
<1>8. ASSUME NEW stage, NEW kind, at[t].stage # "parts", Accept(t), Continue(t, stage, kind)
      PROVE  AbandonInv'
  <2>1. InFlight(t)
    BY <1>8 DEF InFlight, Accept, Arrived, Sending
  <2>2. UNCHANGED <<session, phase, abandoned>> /\ \A u \in Tasks \ {t} : at'[u] = at[u]
    BY <1>8 DEF Accept, Continue, SendFramed, Return
  <2> QED
    BY <1>k, <2>1, <2>2
<1>9. CASE AcceptLoginDual(t) \/ AcceptLogin(t)
  BY <1>8, <1>9 DEF AcceptLoginDual, AcceptLogin
<1>10. CASE AbandonFrame(t)
  <2> DEFINE c == at[t].on
  <2>1. c \in Sessions /\ phase[c] # "unborn" /\ at[t].pc \in Sending
    BY <1>10 DEF AbandonFrame, CallOK, OnSession, Sending, SessionInv
  <2>2. /\ at' = [at EXCEPT ![t] = Idle] /\ UNCHANGED session
        /\ phase' = IF session = c THEN [phase EXCEPT ![c] = "stopped"] ELSE phase
        /\ abandoned' = abandoned \cup {c}
    BY <1>10 DEF AbandonFrame, Return, Quarantine, Stopped
  <2>3. \A u \in Tasks : at'[u].pc \notin Sending
    BY <2>1, <2>2 DEF LockInv, Sending
  <2>4. \A r \in Sessions : phase'[r] = IF r = c /\ session = c THEN "stopped" ELSE phase[r]
    BY <2>1, <2>2 DEF OthersOK
  <2>5. abandoned \subseteq Sessions
    BY DEF OthersOK
  <2> QED
    BY <2>1, <2>2, <2>3, <2>4, <2>5 DEF AbandonInv
<1>11. CASE AbandonParts(t)
  BY <1>f, <1>k, <1>11 DEF AbandonParts, Return, InFlight, Sending
<1>12. CASE CancelWaiting(t)
  BY <1>f, <1>k, <1>12 DEF CancelWaiting, InFlight, Sending
<1> QED
  BY <1>1, <1>2, <1>3, <1>4, <1>5, <1>6, <1>7, <1>9, <1>10, <1>11, <1>12 DEF RequestStep
-----------------------------------------------------------------------------
(***************************************************************************)
(* The inductive invariant and what follows from it.                       *)
(***************************************************************************)
Inv == Typed /\ LockInv /\ SessionInv /\ AbandonInv

LEMMA InitInv == Init => Inv
<1> SUFFICES ASSUME Init PROVE Inv
  OBVIOUS
<1>1. AtOK /\ LocksOK
  BY DEF Init, Free, AtOK, CallOK, Calling, OnSession, Sending, LocksOK, Locks
<1>2. OthersOK
  <2>1. phase \in [Sessions -> {"unborn", "starting", "running", "failed", "stopped"}]
    BY DEF Init
  <2>2. inbox \in [Sessions -> Seq(Message)]
    BY DEF Init
  <2>3. seen \in [Sessions -> SUBSET Message]
    BY DEF Init
  <2>4. answer \in [frame : Nat, kind : Kinds \cup {"none"}, of : Int]
    BY DEF Init
  <2>5. sent = {} /\ IsFiniteSet(sent)
    BY FS_EmptySet DEF Init
  <2> QED
    BY <2>1, <2>2, <2>3, <2>4, <2>5 DEF Init, OthersOK
<1>3. LockInv /\ SessionInv /\ AbandonInv
  BY TasksAssumption
     DEF Init, LockInv, SessionInv, AbandonInv, Holding, Sending, Open
<1> QED
  BY <1>1, <1>2, <1>3 DEF Inv, Typed

LEMMA NextInv == Inv /\ [Next]_vars => Inv'
<1> SUFFICES ASSUME Inv, [Next]_vars PROVE Inv'
  OBVIOUS
<1>1. ASSUME NEW s \in Sessions, Environment(s)
      PROVE  Inv'
  <2>1. LockInv'
    BY <1>1 DEF Inv, Environment, SessionReady, SessionTaskFails, SessionTaskDone,
                PeerDisconnects, Receive, locks, LockInv
  <2> QED
    BY <1>1, <2>1, EnvironmentTyped, EnvironmentSession, EnvironmentAbandon DEF Inv
<1>2. ASSUME NEW t \in Tasks, LifecycleStep(t)
      PROVE  Inv'
  BY <1>2, LifecycleTyped, LifecycleLocks, LifecycleSession, LifecycleAbandon DEF Inv
<1>3. ASSUME NEW t \in Tasks, RequestStep(t)
      PROVE  Inv'
  BY <1>3, RequestTyped, RequestLocks, RequestSession, RequestAbandon DEF Inv
<1>4. CASE UNCHANGED vars
  BY <1>4 DEF Inv, Typed, AtOK, LocksOK, OthersOK, LockInv, SessionInv, AbandonInv, Open,
              vars, transport, locks, device, history
<1>5. ASSUME NEW t \in Tasks, Call(t) \/ Step(t) \/ Cancel(t) \/ EndLease(t)
      PROVE  LifecycleStep(t) \/ RequestStep(t)
  BY <1>5 DEF Call, Step, Cancel, LifecycleStep, RequestStep
<1> QED
  BY <1>1, <1>2, <1>3, <1>4, <1>5 DEF Next

LEMMA Invariant == Spec => []Inv
BY InitInv, NextInv, PTL DEF Spec

(* Every variable keeps its type.                                           *)
THEOREM TypeCorrect == Spec => []TypeOK
<1>1. Inv => TypeOK
  BY TypedIsTypeOK DEF Inv
<1> QED
  BY <1>1, Invariant, PTL

(* The transport never holds two of the camera's session slots, and none    *)
(* that is neither current nor being closed: two open sessions would need   *)
(* two owners of the lifecycle lock.                                        *)
THEOREM HoldsOneSlot == Spec => []NoSlotLeak
<1>1. Inv => NoSlotLeak
  <2> SUFFICES ASSUME Inv PROVE NoSlotLeak
    OBVIOUS
  <2>1. \A s \in Sessions : Open(s) => s = session \/ \E t \in Tasks : In(t, "closepkt") /\ at[t].on = s
    BY DEF Inv, SessionInv
  <2>2. ASSUME NEW t \in Tasks, NEW u \in Tasks, In(t, "closepkt"), In(u, "closepkt")
        PROVE  t = u
    BY <2>2 DEF Inv, LockInv, Holding
  <2>3. ASSUME NEW t \in Tasks, In(t, "closepkt")
        PROVE  session = NoSession
    BY <2>3 DEF Inv, SessionInv
  <2>4. ASSUME NEW r \in Sessions, NEW s \in Sessions, Open(r), Open(s)
        PROVE  r = s
    BY <2>1, <2>2, <2>3, <2>4
  <2> QED
    BY <2>1, <2>4 DEF NoSlotLeak
<1> QED
  BY <1>1, Invariant, PTL

(* A transport that says it is connected has a current session that         *)
(* finished its startup and was neither closed nor quarantined.             *)
THEOREM ConnectedMeansUsable == Spec => []ConnectedIsUsable
<1>1. Inv => ConnectedIsUsable
  BY DEF Inv, SessionInv, ConnectedIsUsable
<1> QED
  BY <1>1, Invariant, PTL

(* No frame is sent on a session on which a frame was abandoned, so that    *)
(* the late response of the abandoned one cannot meet another request.      *)
THEOREM NeverReusesAbandoned == Spec => AbandonedIsNeverReused
<1>1. Inv /\ [Next]_vars => [\A f \in sent' \ sent : f.on \notin abandoned]_vars
  <2> SUFFICES ASSUME Inv, Next, NEW f \in sent' \ sent PROVE f.on \notin abandoned
    BY DEF vars
  <2> USE DEF transport, locks, device, history
  <2>1. PICK t \in Tasks : RequestLocked(t) \/ AcceptLoginDual(t) \/ AcceptLogin(t)
    BY ZenonT(40) DEF Next, Call, Step, Cancel, Environment, CallLifecycle, CallRequest, CallChannel,
           ClosePacketSent, ClosePacketCancelled, StopClosing, SessionGone, GatherCancelled,
           ConnectLocked, Discovered, NotDiscovered, Started, NotStarted, CloseLocked, Close,
           LeaseLocked, EndLease, NotConnected, ChannelLocked, Acknowledged, IgnoreResponse,
           AcceptLast, AbandonFrame, AbandonParts, CancelWaiting, SessionReady,
           SessionTaskFails, SessionTaskDone, PeerDisconnects, Receive
  <2>2. f.on = session
    BY <2>1 DEF RequestLocked, AcceptLoginDual, AcceptLogin, Continue, SendFramed
  <2>3. session \notin abandoned
    <3>1. CASE RequestLocked(t)
      BY <3>1 DEF RequestLocked, Inv, AbandonInv, SessionInv
    <3>2. CASE AcceptLoginDual(t) \/ AcceptLogin(t)
      BY <3>2 DEF AcceptLoginDual, AcceptLogin, Accept, Arrived, Inv, AbandonInv, Sending
    <3> QED
      BY <2>1, <3>1, <3>2
  <2> QED
    BY <2>2, <2>3
<1> QED
  BY <1>1, Invariant, PTL DEF Spec, AbandonedIsNeverReused

(* The current session stays the same for as long as a media operation      *)
(* holds its lease.                                                         *)
THEOREM LeasedSessionStays == Spec => LeaseKeepsSession
<1>1. Inv /\ [Next]_vars => [leased # NoTask /\ leased' = leased => session' = session]_vars
  <2> SUFFICES ASSUME Inv, Next, leased # NoTask, session' # session PROVE FALSE
    BY DEF vars
  <2> USE DEF transport, locks, device, history
  <2>1. PICK t \in Tasks : \/ ConnectLocked(t) \/ (\E s \in Sessions : Discovered(t, s))
                           \/ NotStarted(t) \/ Close(t)
    BY ZenonT(40) DEF Next, Call, Step, Cancel, Environment, CallLifecycle, CallRequest, CallChannel,
           ClosePacketSent, ClosePacketCancelled, StopClosing, SessionGone, GatherCancelled,
           NotDiscovered, Started, CloseLocked, LeaseLocked, EndLease, NotConnected,
           RequestLocked, ChannelLocked, Acknowledged, IgnoreResponse, Accept,
           AcceptLast, AcceptLoginDual, AcceptLogin, AbandonFrame, AbandonParts, CancelWaiting,
           SessionReady, SessionTaskFails, SessionTaskDone, PeerDisconnects, Receive
  <2>2. lifecycle.owner = leased /\ leased \in Tasks /\ at[leased].pc \notin Holding
    BY DEF Inv, LockInv, Typed, OthersOK, Holding, Sending
  <2>3. lifecycle.owner = NoTask \/ (at[t].pc \in Holding /\ lifecycle.owner = t)
    BY <2>1 DEF ConnectLocked, Turn, Discovered, NotStarted, Close, Holding, Inv, LockInv
  <2> QED
    BY <2>2, <2>3
<1> QED
  BY <1>1, Invariant, PTL DEF Spec, LeaseKeepsSession

-----------------------------------------------------------------------------
(***************************************************************************)
(* Which frame a response answers.  The camera answers a frame once, so a  *)
(* response that was queued does not arrive again; and on a session in use *)
(* every earlier frame whose code is not one the camera volunteers has     *)
(* been answered, or the session would have been quarantined.              *)
(***************************************************************************)
Response(f) == [of |-> f.id, code |-> ResponseCode(f.kind)]
Tells(f)    == ResponseCode(f.kind) \notin Unsolicited

(* The frame that a task has in flight.                                     *)
FrameOf(t) == [id |-> at[t].frame, on |-> at[t].on, kind |-> Kind(t)]

SentInv ==
  /\ \A f \in sent : f.id <= Cardinality(sent)
  /\ \A f, g \in sent : f.id = g.id => f = g
  /\ \A t \in Tasks : InFlight(t) => FrameOf(t) \in sent /\ at[t].on \notin abandoned

(* What was queued on a session answers a frame sent there, unless its code *)
(* is one the camera volunteers.                                            *)
SeenInv ==
  \A s \in Sessions :
    /\ \A m \in seen[s] :
         m.code \notin Unsolicited => \E f \in sent : f.on = s /\ m = Response(f)
    /\ ToSet(inbox[s]) \subseteq seen[s]

OutstandingInv ==
  \A f \in sent : Tells(f) =>
    \/ f.on \in abandoned
    \/ Response(f) \in seen[f.on]
    \/ \E t \in Tasks : InFlight(t) /\ at[t].frame = f.id

QueueInv ==
  \A t \in Tasks : InFlight(t) =>
    \A m \in ToSet(inbox[at[t].on]) : m.code \notin Unsolicited => m.of = at[t].frame

CorrelationInv ==
  SentInv /\ SeenInv /\ OutstandingInv /\ QueueInv /\ AnswersItsOwnRequest

(* Under the request lock one frame is in flight.                           *)
LEMMA OneInFlight ==
  ASSUME LockInv, NEW t \in Tasks
  PROVE  /\ \A u \in Tasks : InFlight(t) /\ InFlight(u) => u = t
         /\ Turn(request, t) => ~\E u \in Tasks : InFlight(u)
BY TasksAssumption DEF LockInv, InFlight, Turn

(* A step that sends, receives, accepts and abandons nothing.               *)
LEMMA QuietCorrelation ==
  ASSUME CorrelationInv, UNCHANGED <<inbox, seen, sent, abandoned, answer>>,
         \A u \in Tasks : InFlight(u)' <=> InFlight(u),
         \A u \in Tasks : InFlight(u) =>
           at'[u].on = at[u].on /\ at'[u].frame = at[u].frame /\ Kind(u)' = Kind(u)
  PROVE  CorrelationInv'
<1>1. SentInv'
  BY DEF CorrelationInv, SentInv, FrameOf
<1>2. SeenInv'
  BY DEF CorrelationInv, SeenInv
<1>3. OutstandingInv'
  BY DEF CorrelationInv, OutstandingInv
<1>4. QueueInv'
  BY DEF CorrelationInv, QueueInv
<1> QED
  BY <1>1, <1>2, <1>3, <1>4 DEF CorrelationInv, AnswersItsOwnRequest

LEMMA EnvironmentCorrelation ==
  ASSUME Typed, LockInv, CorrelationInv, NEW s \in Sessions, Environment(s)
  PROVE  CorrelationInv'
<1> USE DEF transport, locks, device, history
<1>1. UNCHANGED <<at, sent, abandoned, answer>>
  BY DEF Environment, SessionReady, SessionTaskFails, SessionTaskDone, PeerDisconnects,
         Receive
<1>2. \A u \in Tasks : (InFlight(u)' <=> InFlight(u)) /\ Kind(u)' = Kind(u)
  BY <1>1 DEF InFlight, Kind
<1>3. ASSUME UNCHANGED <<inbox, seen>> PROVE CorrelationInv'
  BY <1>1, <1>2, <1>3, QuietCorrelation
<1>4. ASSUME NEW m \in Responses(s), Receive(s, m) PROVE CorrelationInv'
  <2>1. m \notin seen[s] /\ inbox[s] \in Seq(Message)
    BY <1>4 DEF Receive, Typed, OthersOK
  <2>2. /\ seen' = [seen EXCEPT ![s] = @ \cup {m}]
        /\ inbox' = [inbox EXCEPT ![s] = Append(@, m)]
    BY <1>4 DEF Receive
  <2>3. /\ \A r \in Sessions : seen'[r] = IF r = s THEN seen[s] \cup {m} ELSE seen[r]
        /\ \A r \in Sessions : inbox'[r] = IF r = s THEN Append(inbox[s], m) ELSE inbox[r]
    BY <2>2 DEF Typed, OthersOK
  <2>4. m \in Message
    BY ResponsesTyped DEF Typed
  <2>5. ToSet(Append(inbox[s], m)) = ToSet(inbox[s]) \cup {m}
    BY <2>1, <2>4, AppendElements
  <2>6. m.code \notin Unsolicited => \E f \in sent : f.on = s /\ m = Response(f)
    BY DEF Responses, Response, Unsolicited
  <2>7. SentInv'
    BY <1>1, <1>2 DEF CorrelationInv, SentInv, FrameOf
  <2>8. SeenInv'
    BY <1>1, <2>3, <2>5, <2>6 DEF CorrelationInv, SeenInv
  <2>9. OutstandingInv'
    <3>1. \A r \in Sessions : seen[r] \subseteq seen'[r]
      BY <2>3
    <3>2. \A f \in sent : f.on \in Sessions
      BY DEF Typed, OthersOK, Frames
    <3> QED
      BY <1>1, <1>2, <3>1, <3>2 DEF CorrelationInv, OutstandingInv
  <2>10. ASSUME NEW t \in Tasks, InFlight(t), at[t].on = s, m.code \notin Unsolicited
         PROVE  m.of = at[t].frame
    <3>1. PICK f \in sent : f.on = s /\ m = Response(f)
      BY <2>6, <2>10
    <3>2. Tells(f) /\ Response(f) \notin seen[f.on] /\ f.on \notin abandoned
      BY <2>1, <2>10, <3>1 DEF Tells, Response, CorrelationInv, SentInv
    <3>3. PICK u \in Tasks : InFlight(u) /\ at[u].frame = f.id
      BY <3>2 DEF CorrelationInv, OutstandingInv
    <3> QED
      BY <2>10, <3>1, <3>3, OneInFlight DEF Response
  <2>11. QueueInv'
    <3> SUFFICES ASSUME NEW t \in Tasks, InFlight(t),
                        NEW n \in ToSet(inbox'[at[t].on]), n.code \notin Unsolicited
                 PROVE  n.of = at[t].frame
      BY <1>1, <1>2 DEF QueueInv
    <3>1. at[t].on \in Sessions
      BY DEF InFlight, Typed, AtOK, CallOK, OnSession
    <3>2. CASE n \in ToSet(inbox[at[t].on])
      BY <3>2 DEF CorrelationInv, QueueInv
    <3>3. CASE n \notin ToSet(inbox[at[t].on])
      BY <2>3, <2>5, <2>10, <3>1, <3>3
    <3> QED
      BY <3>2, <3>3
  <2> QED
    BY <1>1, <2>7, <2>8, <2>9, <2>11 DEF CorrelationInv, AnswersItsOwnRequest
<1> QED
  BY <1>3, <1>4 DEF Environment, SessionReady, SessionTaskFails, SessionTaskDone,
                    PeerDisconnects

LEMMA LifecycleCorrelation ==
  ASSUME Typed, CorrelationInv, NEW t \in Tasks, LifecycleStep(t)
  PROVE  CorrelationInv'
<1>1. UNCHANGED <<inbox, seen, sent, abandoned, answer>>
  BY DEF LifecycleStep, CallLifecycle, ConnectLocked, Discovered, NotDiscovered, Started,
         NotStarted, CloseLocked, Close, ClosePacketSent, ClosePacketCancelled, StopClosing,
         SessionGone, GatherCancelled, LeaseLocked, EndLease, device, history
<1> QED
  BY <1>1, LifecycleInFlight, QuietCorrelation DEF InFlight, Kind

(* An accepted response answers the frame in flight, unless the camera may  *)
(* volunteer its code, and no other frame of the session is outstanding.    *)
LEMMA AcceptCorrelation ==
  ASSUME Typed, LockInv, CorrelationInv, NEW t \in Tasks, Accept(t)
  PROVE  /\ InFlight(t)
         /\ AnswersItsOwnRequest'
         /\ \A f \in sent : Tells(f) => f.on \in abandoned \/ Response(f) \in seen[f.on]
<1> DEFINE m == Arriving(t)
           f == FrameOf(t)
<1>1. /\ at[t].pc = "response" /\ at[t].on \in Sessions /\ inbox[at[t].on] # << >>
      /\ inbox[at[t].on] \in Seq(Message) /\ Matches(Kind(t), m.code)
      /\ answer' = [frame |-> at[t].frame, kind |-> Kind(t), of |-> m.of]
  BY AcceptTyped DEF Accept, Arrived, Typed, OthersOK
<1>2. m \in ToSet(inbox[at[t].on]) /\ m \in Message
  BY <1>1 DEF Arriving, ToSet
<1>3. InFlight(t)
  <2>1. Kind(t) # "parts"
    BY <1>1, <1>2 DEF Matches, ResponseCode, Message, Kinds, AllCommands
  <2> QED
    BY <1>1, <2>1 DEF InFlight, Kind, Sending
<1>4. f \in sent /\ f.id = at[t].frame /\ f.on = at[t].on /\ f.kind = Kind(t)
  BY <1>3 DEF CorrelationInv, SentInv, FrameOf
<1> HIDE DEF m, f
<1>5. ASSUME Tells(f) PROVE m.of = at[t].frame /\ Response(f) \in seen[f.on]
  <2>1. m.code \notin Unsolicited
    BY <1>1, <1>4, <1>5 DEF Tells, Matches
  <2>2. m.of = at[t].frame /\ m \in seen[at[t].on]
    BY <1>1, <1>2, <1>3, <2>1 DEF CorrelationInv, QueueInv, SeenInv
  <2>3. PICK g \in sent : g.on = at[t].on /\ m = Response(g)
    BY <1>1, <2>1, <2>2 DEF CorrelationInv, SeenInv
  <2>4. g.id = f.id
    BY <1>4, <2>2, <2>3 DEF Response
  <2>5. g = f
    BY <1>4, <2>4 DEF CorrelationInv, SentInv
  <2> QED
    BY <1>4, <2>2, <2>3, <2>5
<1>6. AnswersItsOwnRequest'
  BY <1>1, <1>4, <1>5 DEF AnswersItsOwnRequest, Tells
<1>7. ASSUME NEW g \in sent, Tells(g), g.on \notin abandoned
      PROVE  Response(g) \in seen[g.on]
  <2>1. CASE \E u \in Tasks : InFlight(u) /\ at[u].frame = g.id
    <3>1. g.id = f.id
      BY <1>3, <1>4, <2>1, OneInFlight
    <3>2. g = f
      BY <1>4, <3>1 DEF CorrelationInv, SentInv
    <3> QED
      BY <1>5, <1>7, <3>2
  <2>2. CASE ~\E u \in Tasks : InFlight(u) /\ at[u].frame = g.id
    BY <1>7, <2>2 DEF CorrelationInv, OutstandingInv
  <2> QED
    BY <2>1, <2>2
<1> QED
  BY <1>3, <1>6, <1>7

(* A frame goes out on a session where nothing is outstanding.              *)
LEMMA SendCorrelation ==
  ASSUME Typed, CorrelationInv, NEW t \in Tasks, NEW kind \in Kinds, NEW stage,
         SendFramed(t, stage, kind), stage \in {"login", "eye4", "command"},
         kind = IF stage = "command" THEN at[t].command ELSE stage,
         session \notin abandoned, UNCHANGED abandoned, AnswersItsOwnRequest',
         \A f \in sent : Tells(f) => f.on \in abandoned \/ Response(f) \in seen[f.on],
         \A u \in Tasks \ {t} : ~InFlight(u)
  PROVE  CorrelationInv'
<1> DEFINE id == Cardinality(sent) + 1
           new == [id |-> id, on |-> session, kind |-> kind]
<1>1. id \in Nat /\ IsFiniteSet(sent) /\ Cardinality(sent) \in Nat /\ session \in Sessions
  BY FS_CardinalityType DEF Typed, OthersOK, SendFramed
<1>2. /\ sent' = sent \cup {new} /\ UNCHANGED seen
      /\ inbox' = [inbox EXCEPT ![session] = << >>]
  BY DEF SendFramed
<1>3. /\ at'[t].pc = "ack" /\ at'[t].on = session /\ at'[t].stage = stage
      /\ at'[t].frame = id /\ at'[t].command = at[t].command
      /\ \A u \in Tasks \ {t} : at'[u] = at[u]
  <2>1. at[t] = [pc |-> at[t].pc, on |-> at[t].on, next |-> at[t].next,
                 command |-> at[t].command, stage |-> at[t].stage, frame |-> at[t].frame]
    BY CallFields DEF Typed
  <2> QED
    BY <2>1 DEF SendFramed, Typed, AtOK
<1>4. Kind(t)' = kind /\ InFlight(t)' /\ FrameOf(t)' = new
  BY <1>3 DEF Kind, InFlight, Sending, FrameOf
<1>5. \A u \in Tasks \ {t} : ~InFlight(u)'
  BY <1>3 DEF InFlight
<1>6. new.id = id /\ new.on = session /\ new.kind = kind
  OBVIOUS
<1>7. \A f \in sent : f.id \in Nat /\ f.id < id /\ f.on \in Sessions
  BY <1>1 DEF CorrelationInv, SentInv, Typed, OthersOK, Frames
<1> HIDE DEF new
<1>8. SentInv'
  <2>1. new \notin sent
    BY <1>1, <1>6, <1>7
  <2>2. Cardinality(sent') = id
    BY <1>1, <1>2, <2>1, FS_AddElement
  <2>3. \A f \in sent' : f.id <= Cardinality(sent')
    BY <1>1, <1>2, <1>6, <1>7, <2>2
  <2>4. \A f, g \in sent' : f.id = g.id => f = g
    BY <1>1, <1>2, <1>6, <1>7 DEF CorrelationInv, SentInv
  <2>5. \A u \in Tasks : InFlight(u)' => FrameOf(u)' \in sent' /\ at'[u].on \notin abandoned'
    BY <1>2, <1>3, <1>4, <1>5
  <2> QED
    BY <2>3, <2>4, <2>5 DEF SentInv
<1>9. \A s \in Sessions : inbox'[s] = IF s = session THEN << >> ELSE inbox[s]
  BY <1>1, <1>2 DEF Typed, OthersOK
<1>10. ToSet(<< >>) = {}
  BY DEF ToSet
<1>11. SeenInv'
  BY <1>2, <1>9, <1>10 DEF CorrelationInv, SeenInv
<1>12. OutstandingInv'
  BY <1>2, <1>3, <1>4, <1>6 DEF OutstandingInv
<1>13. QueueInv'
  BY <1>1, <1>3, <1>5, <1>9, <1>10 DEF QueueInv
<1> QED
  BY <1>8, <1>11, <1>12, <1>13 DEF CorrelationInv

(* The last response ends the request: nothing is in flight any more.       *)
LEMMA LandedCorrelation ==
  ASSUME Typed, Typed', CorrelationInv, UNCHANGED <<seen, sent>>,
         abandoned \subseteq abandoned', AnswersItsOwnRequest',
         \A s \in Sessions : ToSet(inbox'[s]) \subseteq ToSet(inbox[s]),
         \A f \in sent : Tells(f) => f.on \in abandoned' \/ Response(f) \in seen[f.on],
         \A u \in Tasks : ~InFlight(u)'
  PROVE  CorrelationInv'
<1>1. SentInv'
  BY DEF CorrelationInv, SentInv
<1>2. SeenInv'
  BY DEF CorrelationInv, SeenInv
<1>3. OutstandingInv'
  BY DEF OutstandingInv
<1>4. QueueInv'
  BY DEF QueueInv
<1> QED
  BY <1>1, <1>2, <1>3, <1>4 DEF CorrelationInv

LEMMA RequestCorrelation ==
  ASSUME Inv, Inv', CorrelationInv, NEW t \in Tasks, RequestStep(t)
  PROVE  CorrelationInv'
<1>f. /\ at[t] = [pc |-> at[t].pc, on |-> at[t].on, next |-> at[t].next,
                  command |-> at[t].command, stage |-> at[t].stage,
                  frame |-> at[t].frame]
      /\ \A where : Await(t, where) =>
           at'[t] = [at[t] EXCEPT !.pc = where] /\ \A u \in Tasks \ {t} : at'[u] = at[u]
  BY CallFields DEF Inv, Typed, AtOK
<1> USE DEF Inv, Typed, AtOK, transport, locks, device, history
<1>q. ASSUME UNCHANGED <<inbox, seen, sent, abandoned, answer>>,
             \A u \in Tasks \ {t} : at'[u] = at[u], ~InFlight(t), ~InFlight(t)'
      PROVE  CorrelationInv'
  <2>1. \A u \in Tasks : (InFlight(u)' <=> InFlight(u)) /\ (InFlight(u) => at'[u] = at[u])
    BY <1>q DEF InFlight
  <2> QED
    BY <1>q, <2>1, QuietCorrelation DEF Kind
<1>1. ASSUME NEW c \in Commands, CallRequest(t, c)
      PROVE  CorrelationInv'
  BY <1>f, <1>q, <1>1 DEF CallRequest, InFlight, Sending
<1>2. CASE CallChannel(t) \/ NotConnected(t)
  BY <1>f, <1>q, <1>2 DEF CallChannel, NotConnected, InFlight, Sending
<1>3. CASE RequestLocked(t)
  <2>1. session \notin abandoned
    BY <1>3 DEF RequestLocked, AbandonInv, SessionInv
  <2>2. \A u \in Tasks : ~InFlight(u)
    BY <1>3, OneInFlight DEF RequestLocked
  <2>3. \A g \in sent : Tells(g) => g.on \in abandoned \/ Response(g) \in seen[g.on]
    BY <2>2 DEF CorrelationInv, OutstandingInv
  <2>4. AnswersItsOwnRequest' /\ UNCHANGED abandoned
    BY <1>3 DEF RequestLocked, CorrelationInv, AnswersItsOwnRequest
  <2>5. at[t].command \in Kinds
    BY <1>3 DEF RequestLocked, CallOK, Commands, Kinds
  <2>6. SendFramed(t, "login", "login") \/ SendFramed(t, "command", at[t].command)
    BY <1>3 DEF RequestLocked
  <2>7. CASE SendFramed(t, "login", "login")
    BY <2>1, <2>2, <2>3, <2>4, <2>7, SendCorrelation DEF Kinds
  <2>8. CASE SendFramed(t, "command", at[t].command)
    BY <2>1, <2>2, <2>3, <2>4, <2>5, <2>8, SendCorrelation
  <2> QED
    BY <2>6, <2>7, <2>8
<1>4. CASE ChannelLocked(t)
  <2>1. at'[t].stage = "parts" /\ \A u \in Tasks \ {t} : at'[u] = at[u]
    BY <1>f, <1>4 DEF ChannelLocked
  <2> QED
    BY <1>q, <1>4, <2>1 DEF ChannelLocked, InFlight, Sending
<1>5. CASE Acknowledged(t)
  <2>1. CASE Await(t, "response") /\ at[t].stage # "parts"
    <3>1. /\ at'[t] = [at[t] EXCEPT !.pc = "response"]
          /\ \A u \in Tasks \ {t} : at'[u] = at[u]
      BY <1>f, <2>1
    <3>2. /\ at'[t].pc = "response" /\ at'[t].on = at[t].on /\ at'[t].stage = at[t].stage
          /\ at'[t].frame = at[t].frame /\ at'[t].command = at[t].command
      BY <1>f, <3>1
    <3>3. InFlight(t) /\ InFlight(t)' /\ Kind(t)' = Kind(t)
      BY <1>5, <2>1, <3>2 DEF Acknowledged, InFlight, Sending, Kind
    <3>4. \A u \in Tasks \ {t} : (InFlight(u)' <=> InFlight(u)) /\ Kind(u)' = Kind(u)
      BY <3>1 DEF InFlight, Kind
    <3>5. UNCHANGED <<inbox, seen, sent, abandoned, answer>>
      BY <1>5 DEF Acknowledged
    <3> QED
      BY <3>1, <3>2, <3>3, <3>4, <3>5, QuietCorrelation
  <2>2. CASE Return(t) /\ at[t].stage = "parts"
    BY <1>q, <1>5, <2>2 DEF Acknowledged, Return, InFlight, Sending
  <2> QED
    BY <1>5, <2>1, <2>2 DEF Acknowledged
<1>t. ASSUME Arrived(t), TakeNext(t)
      PROVE  \A s \in Sessions : ToSet(inbox'[s]) \subseteq ToSet(inbox[s])
  <2>1. at[t].on \in Sessions /\ inbox[at[t].on] \in Seq(Message) /\ inbox[at[t].on] # << >>
    BY <1>t DEF Arrived, CallOK, OnSession, Sending, OthersOK
  <2>2. ToSet(Tail(inbox[at[t].on])) \subseteq ToSet(inbox[at[t].on])
    BY <2>1, TailElements
  <2> QED
    BY <1>t, <2>1, <2>2 DEF TakeNext, OthersOK
<1>6. CASE IgnoreResponse(t)
  <2>1. \A s \in Sessions : ToSet(inbox'[s]) \subseteq ToSet(inbox[s])
    BY <1>t, <1>6 DEF IgnoreResponse
  <2>2. UNCHANGED <<at, seen, sent, abandoned, answer>>
    BY <1>6 DEF IgnoreResponse
  <2>3. \A u \in Tasks : (InFlight(u)' <=> InFlight(u)) /\ Kind(u)' = Kind(u)
    BY <2>2 DEF InFlight, Kind
  <2>4. SentInv' /\ OutstandingInv' /\ AnswersItsOwnRequest'
    BY <2>2, <2>3
    DEF CorrelationInv, SentInv, FrameOf, OutstandingInv, AnswersItsOwnRequest
  <2>5. SeenInv'
    BY <2>1, <2>2 DEF CorrelationInv, SeenInv
  <2>6. \A u \in Tasks : InFlight(u) => at[u].on \in Sessions
    BY DEF InFlight, CallOK, OnSession
  <2>7. QueueInv'
    BY <2>1, <2>2, <2>3, <2>6 DEF CorrelationInv, QueueInv
  <2> QED
    BY <2>4, <2>5, <2>7 DEF CorrelationInv
<1>r. ASSUME Return(t) PROVE ~InFlight(t)' /\ \A u \in Tasks \ {t} : at'[u] = at[u]
  BY <1>r DEF Return, InFlight, Sending
<1>7. ASSUME Accept(t), TakeNext(t), Return(t), UNCHANGED <<seen, sent>>
      PROVE  CorrelationInv'
  <2>1. /\ InFlight(t) /\ AnswersItsOwnRequest'
        /\ \A g \in sent : Tells(g) => g.on \in abandoned \/ Response(g) \in seen[g.on]
    BY <1>7, AcceptCorrelation
  <2>2. \A u \in Tasks : ~InFlight(u)'
    BY <1>7, <1>r, <2>1, OneInFlight DEF InFlight
  <2>3. UNCHANGED abandoned /\ Arrived(t)
    BY <1>7 DEF Accept
  <2> QED
    BY <1>7, <1>t, <2>1, <2>2, <2>3, LandedCorrelation
<1>8. ASSUME NEW stage \in {"eye4", "command"}, NEW kind \in Kinds, Accept(t),
             Continue(t, stage, kind),
             kind = IF stage = "command" THEN at[t].command ELSE stage
      PROVE  CorrelationInv'
  <2>1. /\ InFlight(t) /\ AnswersItsOwnRequest'
        /\ \A g \in sent : Tells(g) => g.on \in abandoned \/ Response(g) \in seen[g.on]
    BY <1>8, AcceptCorrelation
  <2>2. session \notin abandoned /\ UNCHANGED abandoned
    BY <1>8, <2>1 DEF AbandonInv, InFlight, Accept
  <2>3. \A u \in Tasks \ {t} : ~InFlight(u)
    BY <2>1, OneInFlight
  <2>4. CASE SendFramed(t, stage, kind)
    BY <1>8, <2>1, <2>2, <2>3, <2>4, SendCorrelation
  <2>5. CASE TakeNext(t) /\ Return(t) /\ UNCHANGED <<phase, seen, sent>>
    BY <1>7, <1>8, <2>5
  <2> QED
    BY <1>8, <2>4, <2>5 DEF Continue
<1>9. CASE AcceptLast(t)
  BY <1>7, <1>9 DEF AcceptLast
<1>10. CASE AcceptLoginDual(t) \/ AcceptLogin(t)
  <2>1. CASE AcceptLoginDual(t)
    BY <1>8, <2>1 DEF AcceptLoginDual, Kinds
  <2>2. CASE AcceptLogin(t)
    <3>1. at[t].command \in Kinds
      BY <2>2 DEF AcceptLogin, CallOK, Commands, Kinds
    <3> QED
      BY <1>8, <2>2, <3>1 DEF AcceptLogin
  <2> QED
    BY <1>10, <2>1, <2>2
<1>11. CASE AbandonFrame(t)
  <2>1. /\ InFlight(t) /\ Return(t) /\ abandoned' = abandoned \cup {at[t].on}
        /\ UNCHANGED <<inbox, seen, sent, answer>>
    BY <1>11 DEF AbandonFrame, InFlight, Sending
  <2>2. \A u \in Tasks : ~InFlight(u)'
    BY <1>r, <2>1, OneInFlight DEF InFlight
  <2>3. ASSUME NEW g \in sent, Tells(g)
        PROVE  g.on \in abandoned' \/ Response(g) \in seen[g.on]
    <3>1. CASE \E u \in Tasks : InFlight(u) /\ at[u].frame = g.id
      <4>1. FrameOf(t) \in sent /\ FrameOf(t).id = g.id /\ FrameOf(t).on = at[t].on
        BY <2>1, <3>1, OneInFlight DEF CorrelationInv, SentInv, FrameOf
      <4>2. g.on = at[t].on
        BY <4>1 DEF CorrelationInv, SentInv
      <4> QED
        BY <2>1, <4>2
    <3>2. CASE ~\E u \in Tasks : InFlight(u) /\ at[u].frame = g.id
      BY <2>1, <2>3, <3>2 DEF CorrelationInv, OutstandingInv
    <3> QED
      BY <3>1, <3>2
  <2>4. AnswersItsOwnRequest'
    BY <2>1 DEF CorrelationInv, AnswersItsOwnRequest
  <2> QED
    BY <2>1, <2>2, <2>3, <2>4, LandedCorrelation
<1>12. CASE AbandonParts(t)
  BY <1>q, <1>r, <1>12 DEF AbandonParts, InFlight
<1>13. CASE CancelWaiting(t)
  BY <1>q, <1>13 DEF CancelWaiting, InFlight, Sending
<1> QED
  BY <1>1, <1>2, <1>3, <1>4, <1>5, <1>6, <1>9, <1>10, <1>11, <1>12, <1>13 DEF RequestStep

LEMMA InitCorrelation == Init => CorrelationInv
<1> SUFFICES ASSUME Init PROVE CorrelationInv
  OBVIOUS
<1>1. sent = {} /\ \A t \in Tasks : ~InFlight(t)
  BY DEF Init, InFlight, Sending
<1>2. SeenInv
  BY DEF Init, SeenInv, ToSet
<1> QED
  BY <1>1, <1>2
  DEF Init, CorrelationInv, SentInv, OutstandingInv, QueueInv, AnswersItsOwnRequest

LEMMA NextCorrelation == Inv /\ Inv' /\ CorrelationInv /\ [Next]_vars => CorrelationInv'
<1> SUFFICES ASSUME Inv, Inv', CorrelationInv, [Next]_vars PROVE CorrelationInv'
  OBVIOUS
<1>1. ASSUME NEW s \in Sessions, Environment(s) PROVE CorrelationInv'
  BY <1>1, EnvironmentCorrelation DEF Inv
<1>2. ASSUME NEW t \in Tasks, LifecycleStep(t) PROVE CorrelationInv'
  BY <1>2, LifecycleCorrelation DEF Inv
<1>3. ASSUME NEW t \in Tasks, RequestStep(t) PROVE CorrelationInv'
  BY <1>3, RequestCorrelation
<1>4. CASE UNCHANGED vars
  BY <1>4, QuietCorrelation DEF vars, device, history, InFlight, Kind
<1>5. ASSUME NEW t \in Tasks, Call(t) \/ Step(t) \/ Cancel(t) \/ EndLease(t)
      PROVE  LifecycleStep(t) \/ RequestStep(t)
  BY <1>5 DEF Call, Step, Cancel, LifecycleStep, RequestStep
<1> QED
  BY <1>1, <1>2, <1>3, <1>4, <1>5 DEF Next

(* The response request() accepts is the camera's response to that very     *)
(* frame, for every command whose response code the camera does not also    *)
(* volunteer, and for raw ones: across reconnections, cancellations, late   *)
(* and repeated responses (transport_aiopppp.py:745-755, 990-993).          *)
THEOREM AnswersBelongToRequests == Spec => []AnswersItsOwnRequest
<1>1. CorrelationInv => AnswersItsOwnRequest
  BY DEF CorrelationInv
<1> QED
  BY <1>1, Invariant, InitCorrelation, NextCorrelation, PTL DEF Spec

(* connected turns false only as the current session ends: a callback of a  *)
(* session that was replaced does not disconnect its successor              *)
(* (transport_aiopppp.py:602, 645, 655).                                    *)
THEOREM DisconnectsAtItsEnd == Spec => DisconnectedByItsOwnEnd
<1>1. Inv /\ [Next]_vars =>
        [connected /\ ~connected' =>
           session' = NoSession \/ phase'[session] = "stopped"]_vars
  <2> SUFFICES ASSUME Inv, Next, connected, ~connected', session' # NoSession
               PROVE  phase'[session] = "stopped"
    BY DEF vars
  <2> USE DEF transport, locks, device, history
  <2>1. \/ \E s \in Sessions : SessionTaskDone(s) \/ PeerDisconnects(s)
        \/ \E t \in Tasks : AbandonFrame(t)
    BY ZenonT(40) DEF Next, Call, Step, Cancel, Environment, CallLifecycle, CallRequest, CallChannel,
           ClosePacketSent, ClosePacketCancelled, StopClosing, SessionGone, GatherCancelled,
           ConnectLocked, CloseUnlocked, Discovered, NotDiscovered, Started, NotStarted,
           CloseLocked, Close, LeaseLocked, EndLease, NotConnected, RequestLocked,
           ChannelLocked, Acknowledged, IgnoreResponse, Accept, AcceptLast, AcceptLoginDual,
           AcceptLogin, AbandonParts, CancelWaiting, SessionReady, SessionTaskFails, Receive
  <2>2. session \in Sessions /\ phase \in [Sessions -> {"unborn", "starting", "running", "failed", "stopped"}]
    BY DEF Inv, SessionInv, Typed, OthersOK
  <2>3. ASSUME NEW s \in Sessions, SessionTaskDone(s) \/ PeerDisconnects(s)
        PROVE  phase'[session] = "stopped"
    BY <2>2, <2>3 DEF SessionTaskDone, PeerDisconnects, MarkDisconnected, Stopped
  <2>4. ASSUME NEW t \in Tasks, AbandonFrame(t)
        PROVE  phase'[session] = "stopped"
    BY <2>2, <2>4 DEF AbandonFrame, Quarantine, MarkDisconnected, Stopped
  <2> QED
    BY <2>1, <2>3, <2>4
<1> QED
  BY <1>1, Invariant, PTL DEF Spec, DisconnectedByItsOwnEnd
=============================================================================
