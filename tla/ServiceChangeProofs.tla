------------------------- MODULE ServiceChangeProofs -------------------------
(***************************************************************************)
(* Proofs about ServiceChange, for any tasks, retries and bounds.          *)
(*                                                                         *)
(* What makes the properties inductive is the state of a call between two  *)
(* attempts: it has been sent at most as often as attempts were begun, and *)
(* never on the session that is current, except while a response to it is  *)
(* awaited there.                                                          *)
(***************************************************************************)
EXTENDS ServiceChange, FiniteSetTheorems, TLAPS

CallInv(t) ==
  /\ IsFiniteSet(sentOn[t])
  /\ \A s \in sentOn[t] : s <= session
  /\ connected /\ session \in sentOn[t] /\ ~In(t, "idle") =>
       In(t, "sent") /\ at[t].on = session
  /\ sends[t] = Cardinality(sentOn[t])
  /\ sends[t] <= at[t].attempt + 1
  /\ at[t].pc \in {"connect", "cleanup", "request", "login"} => sends[t] <= at[t].attempt
  /\ at[t].kind # "read" => at[t].attempt = 0 /\ ~In(t, "retry")
  /\ In(t, "retry") => at[t].attempt < Retries
  /\ In(t, "idle") /\ at[t].kind # "read" /\ sends[t] > 0 =>
       result[t] \in {"ok", "uncertain", "changeCancelled"}

Inv == TypeOK /\ \A t \in Tasks : CallInv(t)

LEMMA InitInv == Init => Inv
<1> SUFFICES ASSUME Init PROVE Inv
  OBVIOUS
<1> USE BoundsAssumption
<1>1. Idle \in CallState
  BY DEF Idle, CallState, Kinds
<1>2. TypeOK
  <2>1. 0 \in 0 .. MaxSession /\ 0 \in 0 .. MaxCalls
    OBVIOUS
  <2>2. at \in [Tasks -> CallState] /\ result \in [Tasks -> Outcome]
    BY <1>1 DEF Init, Outcome
  <2>3. sentOn \in [Tasks -> SUBSET (0 .. MaxSession)] /\ sends \in [Tasks -> Nat]
    BY DEF Init
  <2> QED
    BY <2>1, <2>2, <2>3 DEF Init, TypeOK
<1>3. IsFiniteSet({}) /\ Cardinality({}) = 0
  BY FS_EmptySet
<1>4. ASSUME NEW t \in Tasks PROVE CallInv(t)
  <2>1. at[t] = Idle /\ sentOn[t] = {} /\ sends[t] = 0
    BY DEF Init
  <2> QED
    BY <1>3, <2>1 DEF CallInv, Idle, In
<1> QED
  BY <1>2, <1>4 DEF Inv

(* A call is not disturbed by what happens to the session it does not await *)
(* an answer on.                                                            *)
LEMMA OthersKeep ==
  ASSUME Inv, NEW u \in Tasks,
         at'[u] = at[u], sentOn'[u] = sentOn[u], sends'[u] = sends[u],
         result'[u] = result[u],
         \/ session' = session /\ (connected' => connected)
         \/ session' = session + 1
  PROVE  CallInv(u)'
<1>1. sentOn[u] \subseteq 0 .. MaxSession /\ session \in 0 .. MaxSession
  BY DEF Inv, TypeOK
<1>2. CASE session' = session /\ (connected' => connected)
  BY <1>2 DEF Inv, CallInv, In
<1>3. CASE session' = session + 1
  <2>1. \A s \in sentOn[u] : s <= session
    BY DEF Inv, CallInv
  <2>2. \A s \in sentOn[u] : s <= session' /\ s # session'
    BY <1>1, <1>3, <2>1, BoundsAssumption
  <2> QED
    BY <2>2 DEF Inv, CallInv, In
<1> QED
  BY <1>2, <1>3

-----------------------------------------------------------------------------
(* A command goes out on a session it has not been sent on.                 *)
LEMMA SendInv ==
  ASSUME Inv, NEW t \in Tasks, Send(t), connected,
         at[t].pc \in {"request", "login"}
  PROVE  Inv'
<1> USE BoundsAssumption
<1>1. /\ at[t] \in CallState
      /\ session \in 0 .. MaxSession /\ sentOn[t] \subseteq 0 .. MaxSession
      /\ sends[t] \in Nat
  BY DEF Inv, TypeOK
<1>2. TypeOK'
  <2>1. [at[t] EXCEPT !.pc = "sent", !.on = session] \in CallState
    BY <1>1 DEF CallState
  <2> QED
    BY <1>1, <2>1 DEF Send, Inv, TypeOK
<1>3. session \notin sentOn[t]
  BY DEF Inv, CallInv, In
<1>4. /\ IsFiniteSet(sentOn[t] \cup {session})
      /\ Cardinality(sentOn[t] \cup {session}) = Cardinality(sentOn[t]) + 1
  BY <1>3, FS_AddElement DEF Inv, CallInv
<1>5. /\ at'[t] = [at[t] EXCEPT !.pc = "sent", !.on = session]
      /\ sentOn'[t] = sentOn[t] \cup {session}
      /\ sends'[t] = sends[t] + 1
      /\ session' = session /\ connected' = connected /\ result' = result
  BY DEF Send, Inv, TypeOK
<1>6. /\ sends[t] = Cardinality(sentOn[t]) /\ sends[t] <= at[t].attempt
      /\ \A s \in sentOn[t] : s <= session
      /\ at[t].kind # "read" => at[t].attempt = 0
  BY DEF Inv, CallInv
<1>7. CallInv(t)'
  BY <1>1, <1>4, <1>5, <1>6 DEF CallInv, In, CallState
<1>8. ASSUME NEW u \in Tasks, u # t PROVE CallInv(u)'
  BY <1>8, OthersKeep DEF Send, Inv, TypeOK
<1> QED
  BY <1>2, <1>7, <1>8 DEF Inv

-----------------------------------------------------------------------------
LEMMA CallStarts ==
  ASSUME Inv, NEW t \in Tasks, NEW kind \in Kinds, Call(t, kind)
  PROVE  Inv'
<1> USE BoundsAssumption
<1>1. IsFiniteSet({}) /\ Cardinality({}) = 0
  BY FS_EmptySet
<1>2. PICK state \in CallState :
        /\ at' = [at EXCEPT ![t] = state]
        /\ state.kind = kind /\ state.attempt = 0
        /\ state.pc \in {"request", "connect", "idle"}
  <2>1. Idle \in CallState /\ Idle.attempt = 0 /\ Idle.pc = "idle"
    BY DEF Idle, CallState, Kinds
  <2>2. ASSUME NEW pc \in {"request", "connect"}
        PROVE  LET state == [Idle EXCEPT !.pc = pc, !.kind = kind]
               IN  /\ state \in CallState /\ state.attempt = 0
                   /\ state.kind = kind /\ state.pc = pc
    BY <2>1 DEF CallState
  <2>3. LET state == [Idle EXCEPT !.kind = kind]
        IN  /\ state \in CallState /\ state.attempt = 0
            /\ state.kind = kind /\ state.pc = "idle"
    BY <2>1 DEF CallState
  <2>4. PICK pc \in {"request", "connect"} :
          \/ at' = [at EXCEPT ![t] = [Idle EXCEPT !.pc = pc, !.kind = kind]]
          \/ at' = [at EXCEPT ![t] = [Idle EXCEPT !.kind = kind]]
    BY DEF Call
  <2> QED
    BY <2>2, <2>3, <2>4
<1>3. at'[t].kind = kind /\ at'[t].attempt = 0 /\ at'[t].pc \in {"request", "connect", "idle"}
  BY <1>2 DEF Inv, TypeOK
<1>4. /\ sentOn' = [sentOn EXCEPT ![t] = {}] /\ sends' = [sends EXCEPT ![t] = 0]
      /\ result' \in [Tasks -> Outcome] /\ calls' \in 0 .. MaxCalls
      /\ UNCHANGED <<connected, session, busy>>
  BY DEF Call, Inv, TypeOK, Outcome, transport
<1>5. TypeOK'
  BY <1>2, <1>4 DEF Inv, TypeOK
<1>6. CallInv(t)'
  BY <1>1, <1>3, <1>4 DEF Inv, TypeOK, CallInv, In
<1>7. ASSUME NEW u \in Tasks, u # t PROVE CallInv(u)'
  BY <1>7, OthersKeep DEF Call, Inv, TypeOK, transport
<1> QED
  BY <1>5, <1>6, <1>7 DEF Inv

(* What a step of one call changes: its pc, its counts and its outcome.     *)
LEMMA StepTyped ==
  ASSUME Inv, NEW t \in Tasks, NEW state \in CallState, NEW outcome \in Outcome,
         at' = [at EXCEPT ![t] = state], result' = [result EXCEPT ![t] = outcome],
         UNCHANGED <<wire, calls>>,
         connected' \in BOOLEAN, session' \in 0 .. MaxSession,
         busy' \in Tasks \cup {Nobody}
  PROVE  TypeOK'
BY DEF Inv, TypeOK, wire

LEMMA StepInv ==
  ASSUME Inv, NEW t \in Tasks, NEW state \in CallState, NEW outcome \in Outcome,
         at' = [at EXCEPT ![t] = state], result' = [result EXCEPT ![t] = outcome],
         UNCHANGED <<wire, calls>>,
         connected' \in BOOLEAN, session' \in 0 .. MaxSession,
         busy' \in Tasks \cup {Nobody},
         \/ session' = session /\ (connected' => connected)
         \/ session' = session + 1,
         connected' /\ session' \in sentOn[t] => state.pc = "idle",
         state.kind = at[t].kind,
         sends[t] <= state.attempt + 1,
         state.pc \in {"connect", "cleanup", "request", "login"} => sends[t] <= state.attempt,
         state.kind # "read" => state.attempt = 0 /\ state.pc # "retry",
         state.pc = "retry" => state.attempt < Retries,
         state.pc = "idle" /\ state.kind # "read" /\ sends[t] > 0 =>
           outcome \in {"ok", "uncertain", "changeCancelled"}
  PROVE  Inv'
<1>1. TypeOK'
  BY StepTyped
<1>2. at'[t] = state /\ result'[t] = outcome /\ sentOn'[t] = sentOn[t] /\ sends'[t] = sends[t]
  BY DEF Inv, TypeOK, wire
<1>3. \A s \in sentOn[t] : s <= session'
  <2>1. \A s \in sentOn[t] : s <= session
    BY DEF Inv, CallInv
  <2> QED
    BY <2>1, BoundsAssumption DEF Inv, TypeOK
<1>4. IsFiniteSet(sentOn[t]) /\ sends[t] = Cardinality(sentOn[t])
  BY DEF Inv, CallInv
<1>5. CallInv(t)'
  BY <1>2, <1>3, <1>4 DEF CallInv, In
<1>6. ASSUME NEW u \in Tasks, u # t PROVE CallInv(u)'
  BY <1>6, OthersKeep DEF wire, Inv, TypeOK
<1> QED
  BY <1>1, <1>5, <1>6 DEF Inv
-----------------------------------------------------------------------------
(* What the attempts of one call keep.                                      *)
LEMMA CallFacts ==
  ASSUME Inv, NEW t \in Tasks
  PROVE  /\ at[t] \in CallState /\ result[t] \in Outcome
         /\ connected \in BOOLEAN /\ session \in 0 .. MaxSession
         /\ busy \in Tasks \cup {Nobody}
         /\ sends[t] \in Nat /\ at[t].attempt \in 0 .. Retries
         /\ at[t].tries \in 0 .. Retries
         /\ sends[t] <= at[t].attempt + 1
         /\ at[t].pc \in {"connect", "cleanup", "request", "login"} =>
              sends[t] <= at[t].attempt
         /\ at[t].kind # "read" => at[t].attempt = 0 /\ at[t].pc # "retry"
         /\ at[t].pc = "retry" => at[t].attempt < Retries
         /\ connected /\ session \in sentOn[t] /\ at[t].pc # "idle" =>
              at[t].pc = "sent" /\ at[t].on = session
BY DEF Inv, TypeOK, CallInv, In, CallState

(* A call that only moves on: from pc to pc without an attempt more.        *)
LEMMA GotoInv ==
  ASSUME Inv, NEW t \in Tasks, NEW where \in {"connect", "cleanup", "request"},
         at[t].pc \in {"connect", "cleanup", "request"}, Goto(t, where),
         UNCHANGED <<wire, result, calls>>,
         connected' \in BOOLEAN, session' \in 0 .. MaxSession, busy' = busy,
         \/ session' = session /\ (connected' => connected)
         \/ session' = session + 1
  PROVE  Inv'
<1> DEFINE state == [at[t] EXCEPT !.pc = where]
<1>1. state \in CallState
  BY CallFacts DEF CallState
<1>2. state.pc = where /\ state.kind = at[t].kind /\ state.attempt = at[t].attempt
  BY CallFacts DEF CallState
<1>3. at' = [at EXCEPT ![t] = state]
  BY DEF Goto, Inv, TypeOK
<1>4. result' = [result EXCEPT ![t] = result[t]]
  BY DEF Inv, TypeOK
<1>5. ~(connected' /\ session' \in sentOn[t])
  <2>1. \A s \in sentOn[t] : s <= session /\ s \in 0 .. MaxSession
    BY DEF Inv, TypeOK, CallInv
  <2> QED
    BY <2>1, CallFacts, BoundsAssumption
<1> QED
  BY <1>1, <1>2, <1>3, <1>4, <1>5, CallFacts, StepInv, ZenonT(40)

(* A call that ends.                                                        *)
LEMMA ReturnInv ==
  ASSUME Inv, NEW t \in Tasks, NEW how \in Outcome, Return(t, how),
         UNCHANGED <<wire, calls, session>>, connected' \in BOOLEAN,
         connected' => connected, busy' \in Tasks \cup {Nobody},
         \/ at[t].kind = "read"
         \/ at[t].pc \in {"connect", "cleanup", "request", "login"}
         \/ how \in {"ok", "uncertain", "changeCancelled"}
  PROVE  Inv'
<1> DEFINE state == [at[t] EXCEPT !.pc = "idle"]
<1>1. state \in CallState
  BY CallFacts DEF CallState
<1>2. state.pc = "idle" /\ state.kind = at[t].kind /\ state.attempt = at[t].attempt
  BY CallFacts DEF CallState
<1>3. at' = [at EXCEPT ![t] = state] /\ result' = [result EXCEPT ![t] = how]
  BY DEF Return, Inv, TypeOK
<1>4. state.kind # "read" /\ sends[t] > 0 => how \in {"ok", "uncertain", "changeCancelled"}
  BY <1>2, CallFacts
<1> QED
  BY <1>1, <1>2, <1>3, <1>4, CallFacts, StepInv

(* A failed attempt, whose session, if it was sent, is not current any more.*)
LEMMA AttemptFailsInv ==
  ASSUME Inv, NEW t \in Tasks, AttemptFails(t), at[t].pc \in {"request", "login", "sent"},
         UNCHANGED <<wire, calls, session>>, connected' \in BOOLEAN,
         busy' \in Tasks \cup {Nobody},
         connected' => connected /\ session # at[t].on
  PROVE  Inv'
<1>1. CASE at[t].kind = "read" /\ at[t].attempt < Retries /\ Goto(t, "retry") /\ result' = result
  <2> DEFINE state == [at[t] EXCEPT !.pc = "retry"]
  <2>1. state \in CallState
    BY CallFacts DEF CallState
  <2>2. state.pc = "retry" /\ state.kind = at[t].kind /\ state.attempt = at[t].attempt
    BY CallFacts DEF CallState
  <2>3. /\ at' = [at EXCEPT ![t] = state]
        /\ result' = [result EXCEPT ![t] = result[t]]
    BY <1>1 DEF Goto, Inv, TypeOK
  <2>4. ~(connected' /\ session' \in sentOn[t])
    BY CallFacts
  <2> QED
    BY <1>1, <2>1, <2>2, <2>3, <2>4, CallFacts, StepInv
<1>2. CASE at[t].kind = "read" /\ Return(t, "error")
  BY <1>2, ReturnInv DEF Outcome
<1>3. CASE at[t].kind # "read" /\ Return(t, "uncertain")
  BY <1>3, ReturnInv DEF Outcome
<1> QED
  BY <1>1, <1>2, <1>3 DEF AttemptFails

-----------------------------------------------------------------------------
LEMMA DropInv == Inv /\ Drop => Inv'
<1> SUFFICES ASSUME Inv, Drop PROVE Inv'
  OBVIOUS
<1>1. TypeOK'
  BY DEF Drop, Inv, TypeOK, wire
<1>2. ASSUME NEW u \in Tasks PROVE CallInv(u)'
  BY OthersKeep DEF Drop, wire
<1> QED
  BY <1>1, <1>2 DEF Inv

(* transport.close() and a new connection attempt.                          *)
LEMMA CleanupInv ==
  ASSUME Inv, NEW t \in Tasks, Cleanup(t) PROVE Inv'
<1> USE BoundsAssumption
<1>1. CASE at[t].tries < Retries /\ at' = [at EXCEPT ![t].pc = "connect", ![t].tries = @ + 1]
           /\ result' = result
  <2> DEFINE state == [at[t] EXCEPT !.pc = "connect", !.tries = @ + 1]
  <2>1. state \in CallState
    <3>1. at[t].tries + 1 \in 0 .. Retries
      BY <1>1, CallFacts
    <3> QED
      BY <3>1, CallFacts DEF CallState
  <2>2. state.pc = "connect" /\ state.kind = at[t].kind /\ state.attempt = at[t].attempt
    BY CallFacts DEF CallState
  <2>3. /\ at' = [at EXCEPT ![t] = state]
        /\ result' = [result EXCEPT ![t] = result[t]]
    BY <1>1 DEF Inv, TypeOK
  <2> QED
    BY <2>1, <2>2, <2>3, CallFacts, StepInv DEF Cleanup, In
<1>2. CASE Return(t, "error")
  BY <1>2, ReturnInv, CallFacts DEF Cleanup, In, Outcome
<1> QED
  BY <1>1, <1>2 DEF Cleanup

(* ... and a new attempt of a read.                                         *)
LEMMA RetryInv ==
  ASSUME Inv, NEW t \in Tasks, Retry(t) PROVE Inv'
<1> USE BoundsAssumption
<1> DEFINE state == [at[t] EXCEPT !.pc = "connect", !.attempt = @ + 1, !.tries = 0]
<1>1. state \in CallState
  <2>1. at[t].attempt + 1 \in 0 .. Retries /\ 0 \in 0 .. Retries
    BY CallFacts DEF Retry, In
  <2>2. at[t] \in CallState
    BY CallFacts
  <2> QED
    BY <2>1, <2>2 DEF CallState
<1>2. state.pc = "connect" /\ state.kind = at[t].kind /\ state.attempt = at[t].attempt + 1
  BY CallFacts DEF CallState
<1>3. /\ at' = [at EXCEPT ![t] = state]
      /\ result' = [result EXCEPT ![t] = result[t]]
  BY DEF Retry, Inv, TypeOK
<1>4. /\ at[t].pc = "retry" /\ connected' = FALSE
      /\ UNCHANGED <<session, busy, wire, calls>>
  BY DEF Retry, In
<1>5. sends[t] <= state.attempt /\ sends[t] <= state.attempt + 1
  BY <1>2, CallFacts
<1>6. state.kind = "read"
  BY <1>2, <1>4, CallFacts
<1>7. /\ result[t] \in Outcome /\ connected' \in BOOLEAN
      /\ session' \in 0 .. MaxSession /\ busy' \in Tasks \cup {Nobody}
  BY <1>4, CallFacts
<1> HIDE DEF state
<1> QED
  BY <1>1, <1>2, <1>3, <1>4, <1>5, <1>6, <1>7, StepInv

LEMMA RequestInv ==
  ASSUME Inv, NEW t \in Tasks, Request(t) PROVE Inv'
<1>1. CASE ~connected /\ AttemptFails(t) /\ UNCHANGED <<transport, wire, calls>>
  BY <1>1, AttemptFailsInv, CallFacts DEF Request, In, transport
<1>2. CASE connected /\ Send(t)
  BY <1>2, SendInv DEF Request, In
<1>3. CASE /\ connected /\ busy' = t
           /\ at' = [at EXCEPT ![t].pc = "login", ![t].on = session]
           /\ UNCHANGED <<connected, session, wire, result, calls>>
  <2> DEFINE state == [at[t] EXCEPT !.pc = "login", !.on = session]
  <2>1. state \in CallState
    BY CallFacts DEF CallState
  <2>2. state.pc = "login" /\ state.kind = at[t].kind /\ state.attempt = at[t].attempt
    BY CallFacts DEF CallState
  <2>3. /\ at' = [at EXCEPT ![t] = state]
        /\ result' = [result EXCEPT ![t] = result[t]]
    BY <1>3 DEF Inv, TypeOK
  <2>4. at[t].pc = "request" /\ busy' \in Tasks \cup {Nobody}
    BY <1>3 DEF Request, In
  <2>5. ~(connected' /\ session' \in sentOn[t])
    BY <1>3, <2>4, CallFacts
  <2>6. /\ result[t] \in Outcome /\ connected' \in BOOLEAN
        /\ session' \in 0 .. MaxSession
        /\ session' = session /\ (connected' => connected)
    BY <1>3, CallFacts
  <2>7. /\ sends[t] <= state.attempt /\ sends[t] <= state.attempt + 1
        /\ state.kind # "read" => state.attempt = 0
    BY <2>2, <2>4, CallFacts
  <2> HIDE DEF state
  <2> QED
    BY <1>3, <2>1, <2>2, <2>3, <2>4, <2>5, <2>6, <2>7, StepInv
<1> QED
  BY <1>1, <1>2, <1>3 DEF Request

(* The steps that end a request, well or badly.                             *)
LEMMA AbandonedFacts ==
  ASSUME Inv, NEW t \in Tasks, Abandoned(t)
  PROVE  /\ at[t].pc \in {"login", "sent"} /\ session' = session
         /\ connected' \in BOOLEAN /\ busy' \in Tasks \cup {Nobody}
         /\ connected' => connected /\ session # at[t].on
BY CallFacts DEF Abandoned, In

LEMMA StepKeepsInv ==
  ASSUME Inv, NEW t \in Tasks, Step(t) \/ CancelCommand(t) \/ CancelWait(t)
  PROVE  Inv'
<1>1. CASE Connected(t)
  <2>1. /\ connected' \in BOOLEAN /\ session' \in 0 .. MaxSession
        /\ \/ session' = session /\ (connected' => connected)
           \/ session' = session + 1
    <3>1. session \in 0 .. MaxSession /\ connected \in BOOLEAN
      BY CallFacts
    <3>2. CASE connected /\ UNCHANGED <<connected, session>>
      BY <3>1, <3>2
    <3>3. CASE session < MaxSession /\ connected' = TRUE /\ session' = session + 1
      BY <3>1, <3>3, BoundsAssumption
    <3> QED
      BY <1>1, <3>2, <3>3 DEF Connected
  <2>2. at[t].pc = "connect" /\ Goto(t, "request") /\ UNCHANGED <<busy, wire, result, calls>>
    BY <1>1 DEF Connected, In
  <2> QED
    BY <2>1, <2>2, GotoInv
<1>2. CASE ConnectFails(t)
  BY <1>2, GotoInv, CallFacts DEF ConnectFails, In, transport
<1>3. CASE Cleanup(t)
  BY <1>3, CleanupInv
<1>4. CASE Request(t)
  BY <1>4, RequestInv
<1>5. CASE LoginAccepted(t)
  BY <1>5, SendInv DEF LoginAccepted, In
<1>6. CASE LoginRejected(t)
  BY <1>6, ReturnInv, CallFacts DEF LoginRejected, In, Outcome
<1>7. CASE Answered(t)
  BY <1>7, ReturnInv, CallFacts DEF Answered, In, Outcome
<1>8. CASE RequestFails(t)
  BY <1>8, AbandonedFacts, AttemptFailsInv DEF RequestFails
<1>9. CASE RequestDenied(t)
  BY <1>9, AbandonedFacts, ReturnInv DEF RequestDenied, Outcome
<1>10. CASE Retry(t)
  BY <1>10, RetryInv
<1>11. CASE CancelCommand(t)
  BY <1>11, AbandonedFacts, ReturnInv DEF CancelCommand, Outcome
<1>12. CASE CancelWait(t)
  BY <1>12, ReturnInv, CallFacts DEF CancelWait, transport, Outcome
<1> QED
  BY <1>1, <1>2, <1>3, <1>4, <1>5, <1>6, <1>7, <1>8, <1>9, <1>10, <1>11, <1>12 DEF Step

LEMMA NextInv == Inv /\ [Next]_vars => Inv'
<1> SUFFICES ASSUME Inv, [Next]_vars PROVE Inv'
  OBVIOUS
<1>1. ASSUME NEW t \in Tasks, NEW kind \in Kinds, Call(t, kind) PROVE Inv'
  BY <1>1, CallStarts
<1>2. ASSUME NEW t \in Tasks, Step(t) \/ CancelCommand(t) \/ CancelWait(t) PROVE Inv'
  BY <1>2, StepKeepsInv
<1>3. CASE Drop
  BY <1>3, DropInv
<1>4. CASE UNCHANGED vars
  BY <1>4 DEF vars, transport, wire, Inv, TypeOK, CallInv, In
<1> QED
  BY <1>1, <1>2, <1>3, <1>4 DEF Next

(* The invariant holds of every behaviour; the theorems below rest on it.   *)
THEOREM InvHolds == Spec => []Inv
BY InitInv, NextInv, PTL DEF Spec

(* The counts of attempts and connections keep their bounds.                *)
THEOREM TypeCorrect == Spec => []TypeOK
<1>1. Inv => TypeOK
  BY DEF Inv
<1> QED
  BY InvHolds, <1>1, PTL

(* A change is sent at most once, whatever the number of retries.           *)
THEOREM ChangesAreSentOnce == Spec => []ChangeIsSentOnce
<1>1. Inv => ChangeIsSentOnce
  BY DEF Inv, CallInv, TypeOK, ChangeIsSentOnce
<1> QED
  BY InvHolds, <1>1, PTL

(* A change that was sent never ends as if nothing had happened.            *)
THEOREM SentChangesAreNotDenied == Spec => []SentIsNeverDenied
<1>1. Inv => SentIsNeverDenied
  BY DEF Inv, CallInv, SentIsNeverDenied
<1> QED
  BY InvHolds, <1>1, PTL

(* No session carries a command of one call twice, and none a change that   *)
(* another carried.                                                         *)
THEOREM ReadsRepeatOnNewSessions == Spec => []RepeatsOnNewSessions
<1> DEFINE OncePerSession == \A t \in Tasks :
             sends[t] = Cardinality(sentOn[t]) /\ sends[t] <= Retries + 1
<1>1. Inv => OncePerSession
  BY CallFacts, BoundsAssumption DEF Inv, CallInv
<1>2. Inv => ChangeIsSentOnce
  BY DEF Inv, CallInv, TypeOK, ChangeIsSentOnce
<1>3. Inv => RepeatsOnNewSessions
  BY <1>1, <1>2 DEF RepeatsOnNewSessions
<1> QED
  BY InvHolds, <1>3, PTL
=============================================================================
