------------------------- MODULE AccountChangeProofs -------------------------
(***************************************************************************)
(* Proofs about AccountChange, for any tasks, passwords and bound.         *)
(*                                                                         *)
(* A call is judged by its own state, its commands, the session and WebPwd *)
(* alone.  Only the task that holds the account lock has commands, and     *)
(* only it writes WebPwd: what it verified is still so when it returns.    *)
(***************************************************************************)
EXTENDS AccountChange, TLAPS

Calls ==
  [pc : {"idle", "lock", "params", "status", "giveUp", "send", "sent", "close",
         "verify", "end"},
   password : Passwords \cup {Empty}, first : BOOLEAN, step : Steps, replaced : BOOLEAN,
   verified : {"no", "yes", "failed"}, fresh : 0 .. MaxSession,
   cancelled : BOOLEAN, error : Errors]

Rank(step) ==
  CASE step = "owner"     -> 1
    [] step = "confirm"   -> 2
    [] step = "plaintext" -> 3
    [] step = "password"  -> 4
    [] OTHER              -> 5

(* The commands q of a call c go out in turn ...                            *)
InTurn(c, q) ==
  /\ \A i, j \in DOMAIN q : i < j => q[i].acked /\ Rank(q[i].step) < Rank(q[j].step)
  /\ c.pc \in {"idle", "lock", "params", "status", "giveUp"} => q = <<>>
  /\ c.pc \in {"lock", "params"} => c.step = "password"
  /\ c.pc = "status" => c.first
  /\ c.pc = "send" => \A i \in DOMAIN q : q[i].acked /\ Rank(q[i].step) < Rank(c.step)
  /\ c.pc = "sent" => q # <<>> /\ q[Len(q)].step = c.step
  /\ c.pc \in {"send", "sent"} /\ ~c.first => c.step = "password"
  /\ c.pc = "send" /\ ~c.first => q = <<>>

(* ... on sessions that are not newer than s, the current one, of which it  *)
(* has none left when it reads.                                             *)
OnSessions(c, q, live, s) ==
  /\ \A i \in DOMAIN q : q[i].on <= s
  /\ c.pc = "verify" /\ live => \A i \in DOMAIN q : q[i].on < s
  /\ c.pc = "end" /\ c.verified # "failed" => \A i \in DOMAIN q : q[i].on < c.fresh
  /\ c.first /\ ~c.replaced /\ c.pc \in {"send", "sent"} => \A i \in DOMAIN q : q[i].on = s
  /\ c.first /\ ~c.replaced => \A i, j \in DOMAIN q : q[i].on = q[j].on

(* What the call will raise.                                                *)
Ends(c, q, w) ==
  /\ c.pc = "giveUp" => c.error # "none"
  /\ c.pc \in {"lock", "params", "status", "send", "sent"} => c.error = "none"
  /\ c.error = "error" => c.pc \in {"idle", "giveUp", "close"}
  /\ c.pc = "close" /\ c.error = "error" => c.first /\ q = <<>>
  /\ c.error = "cancelled" => c.pc \in {"idle", "giveUp"}
  /\ c.pc \in {"close", "verify", "end"} /\ c.error = "none" => q # <<>>
  /\ c.pc = "end" /\ c.error = "none" => c.verified # "failed"
  /\ c.pc = "end" /\ c.verified = "yes" => w = c.password

CallInv(t) ==
  /\ InTurn(at[t], sent[t])
  /\ OnSessions(at[t], sent[t], connected, session)
  /\ Ends(at[t], sent[t], web)

Inv == TypeOK /\ \A t \in Tasks : CallInv(t)

LEMMA EmptySeq == <<>> \in Seq(Command) /\ DOMAIN <<>> = {} /\ Len(<<>>) = 0
  OBVIOUS

LEMMA Commands ==
  ASSUME NEW q \in Seq(Command)
  PROVE  /\ DOMAIN q = 1 .. Len(q) /\ Len(q) \in Nat
         /\ \A i \in DOMAIN q : q[i] \in Command /\ q[i].on \in Nat
         /\ q # <<>> => Len(q) \in DOMAIN q
<1>1. DOMAIN q = 1 .. Len(q) /\ Len(q) \in Nat
  OBVIOUS
<1>2. \A i \in DOMAIN q : q[i] \in Command
  OBVIOUS
<1>3. q # <<>> => Len(q) \in 1 .. Len(q)
  OBVIOUS
<1> QED
  BY <1>1, <1>2, <1>3 DEF Command

LEMMA IdleCall == Idle \in Calls /\ \A e \in Errors : [Idle EXCEPT !.error = e] \in Calls
<1>1. 0 \in 0 .. MaxSession
  BY BoundAssumption
<1>2. Idle \in Calls
  BY <1>1 DEF Idle, Calls, Steps, Errors
<1> QED
  BY <1>2 DEF Calls

(* A call that waits outside has no commands and is safe whatever happens.  *)
LEMMA OutsideIsSafe ==
  ASSUME NEW c \in Calls, c.pc \in {"idle", "lock"}, NEW live, NEW s, NEW w,
         c.pc = "lock" => c.step = "password" /\ c.error = "none"
  PROVE  InTurn(c, <<>>) /\ OnSessions(c, <<>>, live, s) /\ Ends(c, <<>>, w)
BY EmptySeq DEF InTurn, OnSessions, Ends

LEMMA InitInv == Init => Inv
<1> SUFFICES ASSUME Init PROVE Inv
  OBVIOUS
<1>1. Idle \in Calls /\ Idle.pc = "idle" /\ Idle.error = "none"
  BY IdleCall DEF Idle
<1>2. \A t \in Tasks : at[t] = Idle /\ sent[t] = <<>> /\ owner # t
  BY NobodyAssumption DEF Init
<1>3. TypeOK
  <2>1. at \in [Tasks -> Calls] /\ sent \in [Tasks -> Seq(Command)]
    BY <1>1, EmptySeq DEF Init
  <2>2. 0 \in 0 .. MaxSession
    BY BoundAssumption
  <2>3. \A t \in Tasks : owner = t <=> at[t].pc \notin {"idle", "lock"}
    BY <1>1, <1>2
  <2> QED
    BY <2>1, <2>2, <2>3 DEF Init, TypeOK, Calls
<1>4. \A t \in Tasks : CallInv(t)
  BY <1>1, <1>2, OutsideIsSafe DEF CallInv
<1> QED
  BY <1>3, <1>4 DEF Inv

LEMMA Typed ==
  ASSUME Inv
  PROVE  /\ connected \in BOOLEAN /\ session \in 0 .. MaxSession /\ session \in Nat
         /\ web \in Passwords \cup {Empty} /\ dual \in 0 .. 2
         /\ at \in [Tasks -> Calls] /\ sent \in [Tasks -> Seq(Command)]
         /\ \A t \in Tasks : at[t] \in Calls /\ sent[t] \in Seq(Command)
BY BoundAssumption DEF Inv, TypeOK, Calls

-----------------------------------------------------------------------------
(* A step of the task that holds the lock, from the new state c and the new *)
(* commands q of its call: it goes on, or it returns with nothing.          *)
LEMMA OwnerStep ==
  ASSUME Inv, NEW t \in Tasks, ~(at[t].pc \in {"idle", "lock"}),
         NEW c \in Calls, NEW q \in Seq(Command),
         at' = [at EXCEPT ![t] = c], sent' = [sent EXCEPT ![t] = q],
         connected' \in BOOLEAN, session' \in 0 .. MaxSession,
         web' \in Passwords \cup {Empty}, dual' \in 0 .. 2,
         \/ c.pc \notin {"idle", "lock"} /\ owner' = owner
         \/ c.pc = "idle" /\ owner' = Nobody,
         InTurn(c, q), OnSessions(c, q, connected', session'), Ends(c, q, web')
  PROVE  Inv'
<1>1. at[t] \in Calls /\ at \in [Tasks -> Calls] /\ sent \in [Tasks -> Seq(Command)]
  BY Typed
<1>2. owner = t /\ \A u \in Tasks : u # t => at[u].pc \in {"idle", "lock"}
  BY DEF Inv, TypeOK
<1>3. at'[t] = c /\ sent'[t] = q
  BY <1>1
<1>4. \A u \in Tasks : u # t => at'[u] = at[u] /\ sent'[u] = sent[u]
  BY <1>1
<1>5. TypeOK'
  <2>1. at' \in [Tasks -> Calls] /\ sent' \in [Tasks -> Seq(Command)]
    BY <1>1
  <2>2. \A u \in Tasks : owner' = u <=> at'[u].pc \notin {"idle", "lock"}
    BY <1>2, <1>3, <1>4, NobodyAssumption
  <2>3. owner' \in Tasks \cup {Nobody}
    BY <1>2
  <2> QED
    BY <2>1, <2>2, <2>3 DEF TypeOK, Calls
<1>6. CallInv(t)'
  BY <1>3 DEF CallInv
<1>7. ASSUME NEW u \in Tasks, u # t PROVE CallInv(u)'
  <2>1. at[u] \in Calls /\ at[u].pc \in {"idle", "lock"} /\ sent[u] = <<>>
    BY <1>1, <1>2, <1>7 DEF Inv, CallInv, InTurn
  <2>2. at[u].pc = "lock" => at[u].step = "password" /\ at[u].error = "none"
    BY <2>1 DEF Inv, CallInv, InTurn, Ends
  <2> QED
    BY <1>4, <1>7, <2>1, <2>2, OutsideIsSafe DEF CallInv
<1> QED
  BY <1>5, <1>6, <1>7 DEF Inv

(* ... which keeps its commands.                                            *)
LEMMA OwnerMoves ==
  ASSUME Inv, NEW t \in Tasks, ~(at[t].pc \in {"idle", "lock"}),
         NEW c \in Calls, at' = [at EXCEPT ![t] = c], sent' = sent,
         connected' \in BOOLEAN, session' \in 0 .. MaxSession,
         web' = web, dual' = dual, owner' = owner, c.pc \notin {"idle", "lock"},
         InTurn(c, sent[t]), OnSessions(c, sent[t], connected', session'),
         Ends(c, sent[t], web)
  PROVE  Inv'
<1>1. sent' = [sent EXCEPT ![t] = sent[t]] /\ sent[t] \in Seq(Command)
  BY Typed
<1> QED
  BY <1>1, Typed, OwnerStep

(* ... which returns.                                                       *)
LEMMA FinishInv ==
  ASSUME Inv, NEW t \in Tasks, ~(at[t].pc \in {"idle", "lock"}),
         NEW e \in Errors, Finish(t, e),
         connected' \in BOOLEAN, session' = session, web' = web, dual' = dual
  PROVE  Inv'
<1> DEFINE c == [Idle EXCEPT !.error = Raised(t, e)]
<1>1. c \in Calls /\ c.pc = "idle"
  BY IdleCall DEF Raised, Errors, Idle
<1>2. InTurn(c, <<>>) /\ OnSessions(c, <<>>, connected', session') /\ Ends(c, <<>>, web')
  BY <1>1, OutsideIsSafe
<1>3. at' = [at EXCEPT ![t] = c] /\ sent' = [sent EXCEPT ![t] = <<>>] /\ owner' = Nobody
  BY DEF Finish, Inv, TypeOK
<1> QED
  BY <1>1, <1>2, <1>3, Typed, EmptySeq, OwnerStep

-----------------------------------------------------------------------------
(***************************************************************************)
(* Outside the lock, and the environment.                                  *)
(***************************************************************************)

(* A call outside the lock moves on, stays or takes the lock.               *)
LEMMA OutsideStep ==
  ASSUME Inv, NEW t \in Tasks, at[t].pc \in {"idle", "lock"},
         NEW c \in Calls, at' = [at EXCEPT ![t] = c],
         UNCHANGED <<transport, camera, sent>>,
         \/ c.pc \in {"idle", "lock"} /\ owner' = owner
         \/ c.pc = "params" /\ owner = Nobody /\ owner' = t,
         c.step = "password",
         c.error # "none" => c.pc = "idle"
  PROVE  Inv'
<1>1. at \in [Tasks -> Calls] /\ sent \in [Tasks -> Seq(Command)]
  BY Typed
<1>2. owner # t /\ sent[t] = <<>>
  BY DEF Inv, TypeOK, CallInv, InTurn
<1>3. \A u \in Tasks : u # t => at'[u] = at[u]
  BY <1>1
<1>4. TypeOK'
  <2>1. at' \in [Tasks -> Calls] /\ at'[t] = c
    BY <1>1
  <2>2. \A u \in Tasks : owner' = u <=> at'[u].pc \notin {"idle", "lock"}
    BY <1>2, <1>3, <2>1, NobodyAssumption DEF Inv, TypeOK
  <2>3. owner' \in Tasks \cup {Nobody}
    BY DEF Inv, TypeOK
  <2> QED
    BY <2>1, <2>2, <2>3, Typed DEF TypeOK, Calls, transport, camera
<1>5. CallInv(t)'
  <2>1. at'[t] = c /\ sent'[t] = <<>>
    BY <1>1, <1>2
  <2>2. CASE c.pc \in {"idle", "lock"}
    BY <2>1, <2>2, OutsideIsSafe DEF CallInv
  <2>3. CASE c.pc = "params"
    BY <2>1, <2>3, EmptySeq DEF CallInv, InTurn, OnSessions, Ends
  <2> QED
    BY <2>2, <2>3
<1>6. ASSUME NEW u \in Tasks, u # t PROVE CallInv(u)'
  BY <1>3, <1>6 DEF Inv, CallInv, transport, camera
<1> QED
  BY <1>4, <1>5, <1>6 DEF Inv

LEMMA CallsInv ==
  ASSUME Inv, NEW t \in Tasks,
         \/ \E p \in Passwords : Call(t, p)
         \/ Locked(t) \/ CancelWaiting(t)
  PROVE  Inv'
<1> USE DEF In, Goto
<1>1. ASSUME NEW p \in Passwords, Call(t, p) PROVE Inv'
  <2> DEFINE c == [Idle EXCEPT !.pc = "lock", !.password = p]
  <2>1. c \in Calls /\ c.pc = "lock" /\ c.step = "password" /\ c.error = "none"
    BY IdleCall DEF Calls, Idle
  <2> QED
    BY <1>1, <2>1, OutsideStep DEF Call
<1>2. CASE Locked(t)
  <2> DEFINE c == [at[t] EXCEPT !.pc = "params"]
  <2>1. at[t] \in Calls /\ at[t].pc = "lock"
    BY <1>2, Typed DEF Locked
  <2>2. c \in Calls /\ c.pc = "params"
    BY <2>1 DEF Calls
  <2>3. c.step = "password" /\ c.error = "none"
    BY <2>1 DEF Inv, CallInv, Ends, InTurn
  <2> QED
    BY <1>2, <2>1, <2>2, <2>3, OutsideStep DEF Locked
<1>3. CASE CancelWaiting(t)
  <2> DEFINE c == [Idle EXCEPT !.error = Raised(t, "cancelled")]
  <2>1. c \in Calls /\ c.pc = "idle" /\ c.step = "password"
    BY IdleCall DEF Raised, Errors, Idle
  <2>2. at[t].pc = "lock" /\ sent[t] = <<>> /\ owner # t
    BY <1>3 DEF CancelWaiting, Inv, TypeOK, CallInv, InTurn
  <2>3. sent' = sent /\ owner' = owner /\ at' = [at EXCEPT ![t] = c]
    BY <1>3, <2>2, Typed DEF CancelWaiting, Finish
  <2>4. UNCHANGED <<transport, camera, sent>> /\ at[t].pc \in {"idle", "lock"}
    BY <1>3, <2>2, <2>3 DEF CancelWaiting
  <2>5. c.pc \in {"idle", "lock"} /\ owner' = owner
    BY <2>1, <2>3
  <2> HIDE DEF c
  <2> QED
    BY <2>1, <2>3, <2>4, <2>5, OutsideStep
<1> QED
  BY <1>1, <1>2, <1>3

(* Sessions that others open and that end.                                  *)
LEMMA EnvironmentInv ==
  ASSUME Inv, OtherConnects \/ SessionEnds
  PROVE  Inv'
<1>1. CASE OtherConnects
  <2>1. /\ session' = session + 1 /\ connected' = TRUE /\ session' \in 0 .. MaxSession
        /\ ~connected
    BY <1>1, Typed, BoundAssumption DEF OtherConnects, Opens
  <2>2. ASSUME NEW t \in Tasks
        PROVE  /\ at'[t] = [at[t] EXCEPT !.replaced = ~In(t, "idle")]
               /\ at'[t] \in Calls /\ at'[t].pc = at[t].pc
    <3>1. at'[t] = [at[t] EXCEPT !.replaced = ~In(t, "idle")]
      BY <1>1 DEF OtherConnects
    <3> QED
      BY <3>1, Typed DEF Calls, In
  <2>3. TypeOK'
    <3>1. at' \in [Tasks -> Calls]
      BY <1>1, <2>2 DEF OtherConnects
    <3> QED
      BY <1>1, <2>1, <2>2, <3>1, Typed, SMTT(20) DEF OtherConnects, camera, TypeOK, Inv, Calls
  <2>4. ASSUME NEW t \in Tasks PROVE CallInv(t)'
    <3> DEFINE c == [at[t] EXCEPT !.replaced = ~In(t, "idle")]
    <3>1. at[t] \in Calls /\ sent[t] \in Seq(Command) /\ session \in Nat /\ CallInv(t)
      BY Typed DEF Inv
    <3>2. InTurn(c, sent[t])
      BY <3>1 DEF CallInv, InTurn, Calls
    <3>3. \A i \in DOMAIN sent[t] : sent[t][i].on \in Nat /\ sent[t][i].on <= session
      BY <3>1, Commands DEF CallInv, OnSessions
    <3>4. OnSessions(c, sent[t], TRUE, session + 1)
      <4>1. \A i \in DOMAIN sent[t] : sent[t][i].on < session + 1
        BY <3>1, <3>3
      <4>2. at[t].pc = "idle" => sent[t] = <<>>
        BY <3>1 DEF CallInv, InTurn
      <4>3. c.first /\ ~c.replaced => sent[t] = <<>>
        BY <3>1, <4>2 DEF Calls, In
      <4>4. c.pc = at[t].pc /\ c.verified = at[t].verified /\ c.fresh = at[t].fresh
        BY <3>1 DEF Calls
      <4>5. c.pc = "end" /\ c.verified # "failed" => \A i \in DOMAIN sent[t] : sent[t][i].on < c.fresh
        BY <3>1, <4>4 DEF CallInv, OnSessions
      <4>6. \A i \in DOMAIN sent[t] : sent[t][i].on <= session + 1
        BY <3>1, <3>3
      <4> HIDE DEF c
      <4> QED
        BY <4>1, <4>3, <4>5, <4>6, EmptySeq DEF OnSessions
    <3>5. Ends(c, sent[t], web)
      BY <3>1 DEF CallInv, Ends, Calls
    <3> QED
      BY <1>1, <2>1, <2>2, <3>2, <3>4, <3>5 DEF CallInv, OtherConnects, camera
  <2> QED
    BY <2>3, <2>4 DEF Inv
<1>2. CASE SessionEnds
  <2>1. TypeOK'
    BY <1>2 DEF SessionEnds, camera, Inv, TypeOK
  <2>2. ASSUME NEW t \in Tasks PROVE CallInv(t)'
    BY <1>2 DEF SessionEnds, camera, Inv, CallInv, OnSessions
  <2> QED
    BY <2>1, <2>2 DEF Inv
<1> QED
  BY <1>1, <1>2

-----------------------------------------------------------------------------
(***************************************************************************)
(* The task that holds the lock.                                           *)
(***************************************************************************)
LEMMA ReadsTyped ==
  ASSUME Inv, Reads
  PROVE  /\ connected' = TRUE /\ session' \in 0 .. MaxSession
         /\ session' = session \/ session' = session + 1
         /\ session' = session => connected
BY Typed, BoundAssumption DEF Reads, Opens, transport

LEMMA PreflightInv ==
  ASSUME Inv, NEW t \in Tasks,
         Params(t) \/ Status(t) \/ PreflightFails(t) \/ CancelPreflight(t)
  PROVE  Inv'
<1> USE DEF In, Goto, camera
<1>1. /\ at[t] \in Calls /\ at[t].pc \in {"params", "status"}
      /\ at \in [Tasks -> Calls]
  BY Typed DEF Params, Status, PreflightFails, CancelPreflight
<1>2. /\ sent[t] = <<>> /\ at[t].error = "none"
      /\ at[t].pc = "params" => at[t].step = "password"
      /\ at[t].pc = "status" => at[t].first
  BY <1>1 DEF Inv, CallInv, InTurn, Ends
<1>3. /\ connected' \in BOOLEAN /\ session' \in 0 .. MaxSession
      /\ web' = web /\ dual' = dual /\ owner' = owner /\ sent' = sent
  <2>1. CASE Params(t) \/ Status(t)
    BY <2>1, ReadsTyped DEF Params, Status
  <2>2. CASE PreflightFails(t) \/ CancelPreflight(t)
    BY <2>2, Typed DEF PreflightFails, CancelPreflight
  <2> QED
    BY <2>1, <2>2
<1>4. ASSUME NEW c \in Calls, at' = [at EXCEPT ![t] = c],
             c.pc \in {"status", "send", "giveUp", "close"},
             c.pc = "status" => c.first,
             c.pc = "send" => c.first \/ c.step = "password",
             c.pc \in {"status", "send"} => c.error = "none",
             c.pc = "giveUp" => c.error # "none",
             c.pc = "close" => c.error = "error" /\ c.first
      PROVE  Inv'
  <2>1. InTurn(c, sent[t]) /\ OnSessions(c, sent[t], connected', session')
    BY <1>2, <1>4, EmptySeq DEF InTurn, OnSessions
  <2>2. Ends(c, sent[t], web)
    BY <1>2, <1>4 DEF Ends
  <2> QED
    BY <1>1, <1>3, <1>4, <2>1, <2>2, OwnerMoves
<1>5. ASSUME NEW e \in {"error", "cancelled"}, GiveUp(t, e) PROVE Inv'
  <2> DEFINE c == [at[t] EXCEPT !.pc = "giveUp", !.error = e]
  <2>1. c \in Calls /\ c.pc = "giveUp" /\ c.error = e
    BY <1>1 DEF Calls, Errors
  <2>2. at' = [at EXCEPT ![t] = c]
    BY <1>5 DEF GiveUp
  <2> HIDE DEF c
  <2> QED
    BY <1>4, <2>1, <2>2
<1>6. CASE Params(t)
  <2>1. CASE at' = [at EXCEPT ![t].pc = IF web = Empty THEN "status" ELSE "send",
                              ![t].first = (web = Empty), ![t].replaced = FALSE]
    <3> DEFINE c == [at[t] EXCEPT !.pc = IF web = Empty THEN "status" ELSE "send",
                                  !.first = (web = Empty), !.replaced = FALSE]
    <3>1. at[t].step = "password"
      BY <1>2, <1>6 DEF Params
    <3>2. /\ c \in Calls /\ c.pc = (IF web = Empty THEN "status" ELSE "send")
          /\ c.first = (web = Empty) /\ c.step = at[t].step /\ c.error = at[t].error
      BY <1>1 DEF Calls
    <3>3. at' = [at EXCEPT ![t] = c]
      BY <2>1
    <3> HIDE DEF c
    <3> QED
      BY <1>2, <1>4, <3>1, <3>2, <3>3
  <2> QED
    BY <1>5, <1>6, <2>1 DEF Params
<1>7. CASE Status(t)
  <2>0. at[t].first
    BY <1>2, <1>7 DEF Status
  <2>1. CASE at' = [at EXCEPT ![t].pc = "send", ![t].step = FirstStep(dual),
                              ![t].replaced = FALSE]
    <3> DEFINE c == [at[t] EXCEPT !.pc = "send", !.step = FirstStep(dual),
                                  !.replaced = FALSE]
    <3>1. FirstStep(dual) \in Steps
      BY DEF FirstStep, Steps
    <3>2. c \in Calls /\ c.pc = "send" /\ c.first = at[t].first /\ c.error = at[t].error
      BY <1>1, <3>1 DEF Calls
    <3>3. at' = [at EXCEPT ![t] = c]
      BY <2>1
    <3> HIDE DEF c
    <3> QED
      BY <1>2, <1>4, <2>0, <3>2, <3>3
  <2>2. CASE at' = [at EXCEPT ![t].pc = "close", ![t].error = "error"]
    <3> DEFINE c == [at[t] EXCEPT !.pc = "close", !.error = "error"]
    <3>1. c \in Calls /\ c.pc = "close" /\ c.first = at[t].first /\ c.error = "error"
      BY <1>1 DEF Calls, Errors
    <3>2. at' = [at EXCEPT ![t] = c]
      BY <2>2
    <3> HIDE DEF c
    <3> QED
      BY <1>4, <2>0, <3>1, <3>2
  <2> QED
    BY <1>7, <2>1, <2>2 DEF Status
<1>8. CASE PreflightFails(t)
  BY <1>5, <1>8 DEF PreflightFails
<1>9. CASE CancelPreflight(t)
  <2> DEFINE c == [at[t] EXCEPT !.pc = "giveUp", !.error = "cancelled", !.cancelled = TRUE]
  <2>1. c \in Calls /\ c.pc = "giveUp" /\ c.error = "cancelled"
    BY <1>1 DEF Calls, Errors
  <2>2. at' = [at EXCEPT ![t] = c]
    BY <1>9 DEF CancelPreflight
  <2> HIDE DEF c
  <2> QED
    BY <1>4, <2>1, <2>2
<1> QED
  BY <1>6, <1>7, <1>8, <1>9

-----------------------------------------------------------------------------
(* One more command, on a session that is the current one from now on.      *)
LEMMA SendInv ==
  ASSUME Inv, NEW t \in Tasks, Send(t)
  PROVE  Inv'
<1> DEFINE c == [at[t] EXCEPT !.pc = "sent"]
           e == [step |-> at[t].step, on |-> session', acked |-> FALSE]
           q == Append(sent[t], e)
<1>1. /\ at[t] \in Calls /\ at[t].pc = "send" /\ at \in [Tasks -> Calls]
      /\ sent[t] \in Seq(Command) /\ CallInv(t)
  BY Typed DEF Send, In, Inv
<1>2. /\ connected' = TRUE /\ session' \in 0 .. MaxSession /\ session' \in Nat
      /\ session' = session \/ (session' = session + 1 /\ ~at[t].first)
  BY Typed, BoundAssumption DEF Send, transport, Opens
<1>3. /\ web' \in Passwords \cup {Empty} /\ dual' \in 0 .. 2
      /\ owner' = owner /\ sent' = [sent EXCEPT ![t] = q] /\ at' = [at EXCEPT ![t] = c]
  BY <1>1, Typed DEF Send, Effect, Put, Goto, camera, Calls
<1>4. c \in Calls /\ c.pc = "sent" /\ c.step = at[t].step /\ c.first = at[t].first
      /\ c.replaced = at[t].replaced /\ c.error = at[t].error
  BY <1>1 DEF Calls
<1>5. e \in Command /\ e.step = at[t].step /\ e.on = session'
  BY <1>1, <1>2 DEF Command, Calls
<1>6. /\ q \in Seq(Command) /\ Len(q) = Len(sent[t]) + 1 /\ DOMAIN q = 1 .. Len(q)
      /\ q[Len(q)] = e /\ q # <<>>
      /\ \A i \in DOMAIN sent[t] : i \in DOMAIN q /\ i < Len(q) /\ q[i] = sent[t][i]
      /\ \A i \in DOMAIN q : i = Len(q) \/ i \in DOMAIN sent[t]
  BY <1>1, <1>5
<1>7. /\ \A i \in DOMAIN sent[t] : sent[t][i].acked /\ Rank(sent[t][i].step) < Rank(e.step)
      /\ \A i, j \in DOMAIN sent[t] : i < j =>
           sent[t][i].acked /\ Rank(sent[t][i].step) < Rank(sent[t][j].step)
      /\ ~at[t].first => at[t].step = "password"
      /\ at[t].error = "none"
  BY <1>1, <1>5 DEF CallInv, InTurn, Ends
<1>8. InTurn(c, q)
  <2>1. ASSUME NEW i \in DOMAIN q, NEW j \in DOMAIN q, i < j
        PROVE  q[i].acked /\ Rank(q[i].step) < Rank(q[j].step)
    <3>1. i \in DOMAIN sent[t]
      BY <1>6, <2>1
    <3>2. CASE j = Len(q)
      BY <1>6, <1>7, <3>1, <3>2
    <3>3. CASE j \in DOMAIN sent[t]
      BY <1>6, <1>7, <2>1, <3>1, <3>3
    <3> QED
      BY <1>6, <3>2, <3>3
  <2> HIDE DEF c, e, q
  <2> QED
    BY <1>4, <1>5, <1>6, <1>7, <2>1 DEF InTurn
<1>9. OnSessions(c, q, TRUE, session')
  <2>1. /\ \A i \in DOMAIN sent[t] : sent[t][i].on <= session /\ sent[t][i].on \in Nat
        /\ at[t].first /\ ~at[t].replaced => \A i \in DOMAIN sent[t] : sent[t][i].on = session
    BY <1>1, Commands DEF CallInv, OnSessions
  <2>2. \A i \in DOMAIN q : q[i].on <= session'
    BY <1>2, <1>5, <1>6, <2>1, Typed
  <2>3. c.first /\ ~c.replaced => \A i \in DOMAIN q : q[i].on = session'
    BY <1>2, <1>4, <1>5, <1>6, <2>1
  <2> HIDE DEF c, e, q
  <2> QED
    BY <1>4, <2>2, <2>3 DEF OnSessions
<1>10. Ends(c, q, web')
  <2> HIDE DEF c, e, q
  <2> QED
    BY <1>4, <1>7 DEF Ends
<1> HIDE DEF c, e, q
<1> QED
  BY <1>1, <1>2, <1>3, <1>4, <1>6, <1>8, <1>9, <1>10, OwnerStep

(* The command fails, or is never sent: the session will be closed.         *)
LEMMA FailsInv ==
  ASSUME Inv, NEW t \in Tasks, at[t].pc \in {"send", "sent"},
         NEW c \in Calls, at' = [at EXCEPT ![t] = c],
         c.pc = "close", c.error \in {"uncertain", "changeCancelled"},
         c.first = at[t].first, c.replaced = at[t].replaced,
         connected' \in BOOLEAN, UNCHANGED <<session, owner, web, dual, sent>>
  PROVE  Inv'
<1>1. CallInv(t) /\ session' \in 0 .. MaxSession
  BY Typed DEF Inv
<1>2. InTurn(c, sent[t]) /\ OnSessions(c, sent[t], connected', session')
  BY <1>1 DEF CallInv, InTurn, OnSessions
<1>3. Ends(c, sent[t], web)
  BY DEF Ends
<1> QED
  BY <1>1, <1>2, <1>3, OwnerMoves

(* The acknowledgement: the next command, if there is one.                  *)
LEMMA AcknowledgedInv ==
  ASSUME Inv, NEW t \in Tasks, Acknowledged(t)
  PROVE  Inv'
<1> DEFINE n == Len(sent[t])
           q == [sent[t] EXCEPT ![n].acked = TRUE]
           last == at[t].step = "restart" \/ ~at[t].first
           c == IF last THEN [at[t] EXCEPT !.pc = "close"]
                ELSE [at[t] EXCEPT !.pc = "send", !.step = Following(at[t].step)]
<1>1. /\ at[t] \in Calls /\ at[t].pc = "sent" /\ at \in [Tasks -> Calls]
      /\ sent[t] \in Seq(Command) /\ CallInv(t)
  BY Typed DEF Acknowledged, In, Inv
<1>2. /\ connected' = connected /\ session' = session /\ web' = web /\ dual' = dual
      /\ owner' = owner /\ sent' = [sent EXCEPT ![t] = q]
  BY <1>1, Typed DEF Acknowledged, transport, camera
<1>3. at' = [at EXCEPT ![t] = c]
  BY <1>1 DEF Acknowledged, Goto
<1>4. /\ sent[t] # <<>> /\ sent[t][n].step = at[t].step /\ at[t].error = "none"
      /\ n \in DOMAIN sent[t] /\ DOMAIN sent[t] = 1 .. n /\ n \in Nat
      /\ \A i, j \in DOMAIN sent[t] : i < j =>
           sent[t][i].acked /\ Rank(sent[t][i].step) < Rank(sent[t][j].step)
  BY <1>1, Commands DEF CallInv, InTurn, Ends
<1>5. \A i \in DOMAIN sent[t] : sent[t][i] \in Command
  BY <1>1, Commands
<1>6. /\ q \in Seq(Command) /\ DOMAIN q = DOMAIN sent[t] /\ Len(q) = n
      /\ \A i \in DOMAIN sent[t] : q[i].step = sent[t][i].step /\ q[i].on = sent[t][i].on
                                  /\ (i # n => q[i] = sent[t][i])
      /\ q[n].acked
  <2>1. [sent[t][n] EXCEPT !.acked = TRUE] \in Command
    BY <1>4, <1>5 DEF Command
  <2>2. q = [sent[t] EXCEPT ![n] = [sent[t][n] EXCEPT !.acked = TRUE]]
    OBVIOUS
  <2>3. q \in Seq(Command) /\ Len(q) = n /\ DOMAIN q = DOMAIN sent[t]
    BY <1>1, <1>4, <2>1, <2>2
  <2>4. \A i \in DOMAIN sent[t] : i # n => q[i] = sent[t][i]
    BY <1>4, <2>2
  <2>5. q[n] = [sent[t][n] EXCEPT !.acked = TRUE]
    BY <1>4, <2>2
  <2>6. q[n].step = sent[t][n].step /\ q[n].on = sent[t][n].on /\ q[n].acked
    BY <1>4, <1>5, <2>5 DEF Command
  <2> HIDE DEF q
  <2> QED
    BY <2>3, <2>4, <2>6
<1>7. /\ c \in Calls /\ c.pc \in {"send", "close"} /\ c.first = at[t].first
      /\ c.replaced = at[t].replaced /\ c.error = "none"
      /\ c.pc = "send" => c.first /\ Rank(at[t].step) < Rank(c.step)
  <2>1. Following(at[t].step) \in Steps
    BY DEF Following, Steps
  <2>2. ~last => Rank(at[t].step) < Rank(Following(at[t].step))
    BY <1>1 DEF Following, Rank, Calls, Steps
  <2>3. CASE last
    BY <1>1, <1>4, <2>3 DEF Calls
  <2>4. CASE ~last
    BY <1>1, <1>4, <2>1, <2>2, <2>4 DEF Calls
  <2> QED
    BY <2>3, <2>4
<1>8. InTurn(c, q)
  <2>1. \A i \in DOMAIN q : i < n \/ i = n
    BY <1>4, <1>6
  <2>2. \A i \in DOMAIN q : q[i].acked
    BY <1>4, <1>6, <2>1
  <2>3. c.pc = "send" => \A i \in DOMAIN q : Rank(q[i].step) < Rank(c.step)
    <3>1. \A step : Rank(step) \in Nat
      BY DEF Rank
    <3> HIDE DEF c, q
    <3> QED
      BY <1>4, <1>6, <1>7, <2>1, <3>1
  <2>4. \A i, j \in DOMAIN q : i < j => Rank(q[i].step) < Rank(q[j].step)
    BY <1>4, <1>6
  <2> HIDE DEF c, q
  <2> QED
    BY <1>6, <1>7, <2>2, <2>3, <2>4 DEF InTurn
<1>9. OnSessions(c, q, connected, session)
  <2> HIDE DEF c, q
  <2> QED
    BY <1>1, <1>6, <1>7 DEF CallInv, OnSessions
<1>10. Ends(c, q, web)
  <2>1. q # <<>>
    BY <1>4, <1>6
  <2> HIDE DEF c, q
  <2> QED
    BY <1>7, <2>1 DEF Ends
<1> HIDE DEF c, q
<1> QED
  BY <1>1, <1>2, <1>3, <1>6, <1>7, <1>8, <1>9, <1>10, Typed, OwnerStep

-----------------------------------------------------------------------------
(* What becomes of a call when its command is over.                         *)
LEMMA WriteEndsInv ==
  ASSUME Inv, NEW t \in Tasks,
         NotSent(t) \/ OtherAnswer(t) \/ NoAnswer(t) \/ (ShutDown(t) /\ In(t, "sent"))
  PROVE  Inv'
<1> USE DEF In, transport, camera
<1>1. at[t] \in Calls /\ at[t].pc \in {"send", "sent"} /\ connected \in BOOLEAN
  BY Typed DEF NotSent, OtherAnswer, NoAnswer, ShutDown
<1>2. CASE NotSent(t) \/ OtherAnswer(t) \/ NoAnswer(t)
  <2> DEFINE c == [at[t] EXCEPT !.pc = "close", !.error = "uncertain"]
  <2>1. /\ c \in Calls /\ c.pc = "close" /\ c.error = "uncertain"
        /\ c.first = at[t].first /\ c.replaced = at[t].replaced
    BY <1>1 DEF Calls, Errors
  <2>2. at' = [at EXCEPT ![t] = c] /\ connected' \in BOOLEAN
        /\ UNCHANGED <<session, owner, web, dual, sent>>
    BY <1>1, <1>2 DEF NotSent, OtherAnswer, NoAnswer, Fails
  <2> HIDE DEF c
  <2> QED
    BY <1>1, <2>1, <2>2, FailsInv
<1>3. CASE ShutDown(t) /\ In(t, "sent")
  <2> DEFINE c == [at[t] EXCEPT !.pc = "close", !.verified = "no",
                                !.error = "changeCancelled", !.cancelled = TRUE]
  <2>1. /\ c \in Calls /\ c.pc = "close" /\ c.error = "changeCancelled"
        /\ c.first = at[t].first /\ c.replaced = at[t].replaced
    BY <1>1 DEF Calls, Errors
  <2>2. at' = [at EXCEPT ![t] = c] /\ connected' \in BOOLEAN
        /\ UNCHANGED <<session, owner, web, dual, sent>>
    BY <1>1, <1>3 DEF ShutDown
  <2> HIDE DEF c
  <2> QED
    BY <1>1, <2>1, <2>2, FailsInv
<1> QED
  BY <1>2, <1>3

(* The calls return with an error that says what was sent.                  *)
LEMMA CloseInv ==
  ASSUME Inv, NEW t \in Tasks, Close(t) \/ GivesUp(t) \/ End(t)
  PROVE  Inv'
<1> USE DEF In, camera
<1>1. /\ at[t] \in Calls /\ ~(at[t].pc \in {"idle", "lock"}) /\ CallInv(t)
      /\ connected' = FALSE /\ session' = session /\ web' = web /\ dual' = dual
  BY Typed DEF Close, GivesUp, End, Inv
<1>2. at[t].error \in Errors /\ Outcome(t) \in Errors
  BY <1>1 DEF Calls, Outcome, Errors
<1>3. CASE GivesUp(t) \/ End(t) \/ (Close(t) /\ at[t].first /\ at[t].error # "none")
  <2>1. \E e \in Errors : Finish(t, e)
    BY <1>2, <1>3 DEF GivesUp, End, Close
  <2> QED
    BY <1>1, <2>1, FinishInv
<1>4. CASE Close(t) /\ ~(at[t].first /\ at[t].error # "none")
  <2> DEFINE c == [at[t] EXCEPT !.pc = "verify"]
  <2>1. /\ c \in Calls /\ c.pc = "verify" /\ c.first = at[t].first
        /\ c.replaced = at[t].replaced /\ c.error = at[t].error
    BY <1>1 DEF Calls
  <2>2. at' = [at EXCEPT ![t] = c] /\ sent' = sent /\ owner' = owner /\ at[t].pc = "close"
    BY <1>4 DEF Close, Goto
  <2>3. InTurn(c, sent[t]) /\ OnSessions(c, sent[t], connected', session')
    <3> HIDE DEF c
    <3> QED
      BY <1>1, <2>1, <2>2 DEF CallInv, InTurn, OnSessions
  <2>4. Ends(c, sent[t], web)
    <3> HIDE DEF c
    <3> QED
      BY <1>1, <1>4, <2>1, <2>2 DEF CallInv, Ends
  <2> HIDE DEF c
  <2> QED
    BY <1>1, <2>1, <2>2, <2>3, <2>4, Typed, OwnerMoves
<1> QED
  BY <1>3, <1>4

(* The reading after the writes.                                            *)
LEMMA VerifyInv ==
  ASSUME Inv, NEW t \in Tasks,
         Verify(t) \/ VerifyFails(t) \/ (ShutDown(t) /\ In(t, "verify"))
  PROVE  Inv'
<1> USE DEF In, camera
<1>1. /\ at[t] \in Calls /\ at[t].pc = "verify" /\ CallInv(t)
      /\ web' = web /\ dual' = dual /\ owner' = owner /\ sent' = sent
  BY Typed DEF Verify, VerifyFails, ShutDown, Inv
<1>2. CASE Verify(t)
  <2> DEFINE c == [at[t] EXCEPT !.pc = "end", !.fresh = session',
                                !.verified = IF web = at[t].password THEN "yes" ELSE "no"]
  <2>1. /\ connected' = TRUE /\ session' \in 0 .. MaxSession
        /\ session' = session \/ session' = session + 1
        /\ session' = session => connected
    BY <1>2, ReadsTyped DEF Verify
  <2>2. /\ c \in Calls /\ c.pc = "end" /\ c.first = at[t].first /\ c.fresh = session'
        /\ c.replaced = at[t].replaced /\ c.error = at[t].error /\ c.password = at[t].password
        /\ c.verified \in {"yes", "no"} /\ (c.verified = "yes" => web = c.password)
    BY <1>1, <2>1 DEF Calls
  <2>3. at' = [at EXCEPT ![t] = c]
    BY <1>2 DEF Verify
  <2>4. \A i \in DOMAIN sent[t] : sent[t][i].on < session'
    <3>1. \A i \in DOMAIN sent[t] : sent[t][i].on \in Nat /\ sent[t][i].on <= session
      BY <1>1, Typed, Commands DEF CallInv, OnSessions
    <3>2. connected => \A i \in DOMAIN sent[t] : sent[t][i].on < session
      BY <1>1, Typed DEF CallInv, OnSessions
    <3> QED
      BY <2>1, <3>1, <3>2, Typed
  <2>5. InTurn(c, sent[t])
    <3> HIDE DEF c
    <3> QED
      BY <1>1, <2>2 DEF CallInv, InTurn
  <2>6. OnSessions(c, sent[t], connected', session')
    <3>1. \A i \in DOMAIN sent[t] : sent[t][i].on \in Nat
      BY Typed, Commands
    <3>2. \A i \in DOMAIN sent[t] : sent[t][i].on <= session'
      BY <2>1, <2>4, <3>1
    <3> HIDE DEF c
    <3> QED
      BY <1>1, <2>2, <2>4, <3>2 DEF CallInv, OnSessions
  <2>7. Ends(c, sent[t], web)
    <3> HIDE DEF c
    <3> QED
      BY <1>1, <2>2 DEF CallInv, Ends
  <2> HIDE DEF c
  <2> QED
    BY <1>1, <2>1, <2>2, <2>3, <2>5, <2>6, <2>7, OwnerMoves
<1>3. CASE VerifyFails(t) \/ ShutDown(t)
  <2>1. PICK e \in {"uncertain", "changeCancelled"}, b \in BOOLEAN :
          at' = [at EXCEPT ![t] = [at[t] EXCEPT !.pc = "end", !.verified = "failed",
                                                !.error = e, !.cancelled = b]]
    <3>1. CASE VerifyFails(t)
      <4>1. [at[t] EXCEPT !.pc = "end", !.verified = "failed", !.error = "uncertain"]
              = [at[t] EXCEPT !.pc = "end", !.verified = "failed", !.error = "uncertain",
                              !.cancelled = at[t].cancelled]
        BY <1>1 DEF Calls
      <4>2. at[t].cancelled \in BOOLEAN
        BY <1>1 DEF Calls
      <4>3. at' = [at EXCEPT ![t] =
                     [at[t] EXCEPT !.pc = "end", !.verified = "failed", !.error = "uncertain"]]
        BY <3>1 DEF VerifyFails
      <4> QED
        BY <4>1, <4>2, <4>3
    <3>2. CASE ShutDown(t)
      BY <1>1, <3>2 DEF ShutDown
    <3> QED
      BY <1>3, <3>1, <3>2
  <2> DEFINE c == [at[t] EXCEPT !.pc = "end", !.verified = "failed", !.error = e,
                                !.cancelled = b]
  <2>2. /\ c \in Calls /\ c.pc = "end" /\ c.verified = "failed" /\ c.error = e
        /\ c.first = at[t].first /\ c.replaced = at[t].replaced
    BY <1>1 DEF Calls, Errors
  <2>3. at' = [at EXCEPT ![t] = c] /\ connected' \in BOOLEAN /\ session' = session
    BY <1>3, <2>1, Typed DEF VerifyFails, ShutDown
  <2>4. /\ InTurn(c, sent[t]) /\ OnSessions(c, sent[t], connected', session')
        /\ Ends(c, sent[t], web)
    <3> HIDE DEF c
    <3> QED
      BY <1>1, <2>2, <2>3 DEF CallInv, InTurn, OnSessions, Ends
  <2> HIDE DEF c
  <2> QED
    BY <1>1, <2>2, <2>3, <2>4, Typed, OwnerMoves
<1> QED
  BY <1>2, <1>3

LEMMA CancelChangeInv ==
  ASSUME Inv, NEW t \in Tasks, CancelChange(t)
  PROVE  Inv'
<1> DEFINE c == [at[t] EXCEPT !.cancelled = TRUE]
<1>1. /\ at[t] \in Calls /\ ~(at[t].pc \in {"idle", "lock"}) /\ CallInv(t)
      /\ at' = [at EXCEPT ![t] = c] /\ connected' = connected /\ session' = session
      /\ web' = web /\ dual' = dual /\ owner' = owner /\ sent' = sent
  BY Typed DEF CancelChange, Inv, transport, camera
<1>2. /\ c \in Calls /\ c.pc = at[t].pc /\ c.verified = at[t].verified
      /\ c.error = at[t].error /\ c.first = at[t].first /\ c.replaced = at[t].replaced
      /\ c.step = at[t].step /\ c.fresh = at[t].fresh /\ c.password = at[t].password
  BY <1>1 DEF Calls
<1> HIDE DEF c
<1>3. InTurn(c, sent[t]) /\ OnSessions(c, sent[t], connected', session') /\ Ends(c, sent[t], web)
  BY <1>1, <1>2 DEF CallInv, InTurn, OnSessions, Ends
<1> QED
  BY <1>1, <1>2, <1>3, Typed, OwnerMoves

-----------------------------------------------------------------------------
LEMMA NextInv == Inv /\ [Next]_vars => Inv'
<1> SUFFICES ASSUME Inv, [Next]_vars PROVE Inv'
  OBVIOUS
<1>1. ASSUME NEW t \in Tasks, NEW p \in Passwords, Call(t, p) PROVE Inv'
  BY <1>1, CallsInv
<1>2. ASSUME NEW t \in Tasks, Step(t) PROVE Inv'
  BY <1>2, CallsInv, PreflightInv, SendInv, AcknowledgedInv, WriteEndsInv, CloseInv,
     VerifyInv DEF Step
<1>3. ASSUME NEW t \in Tasks, Cancel(t) PROVE Inv'
  <2>1. CASE ShutDown(t)
    <3>1. In(t, "sent") \/ In(t, "verify")
      BY <2>1 DEF ShutDown, In
    <3> QED
      BY <2>1, <3>1, WriteEndsInv, VerifyInv
  <2> QED
    BY <1>3, <2>1, CallsInv, PreflightInv, CancelChangeInv DEF Cancel
<1>4. CASE OtherConnects \/ SessionEnds
  BY <1>4, EnvironmentInv
<1>5. CASE UNCHANGED vars
  BY <1>5 DEF vars, transport, camera, Inv, TypeOK, CallInv
<1> QED
  BY <1>1, <1>2, <1>3, <1>4, <1>5 DEF Next

(* The invariant holds of every behaviour; the theorems below rest on it.   *)
THEOREM InvHolds == Spec => []Inv
BY InitInv, NextInv, PTL DEF Spec

(* The calls are well typed, and the account lock is held exactly by the    *)
(* call inside.                                                             *)
THEOREM TypeCorrect == Spec => []TypeOK
<1>1. Inv => TypeOK
  BY DEF Inv
<1> QED
  BY InvHolds, <1>1, PTL

(* No command of a change is sent twice and none after one in doubt.        *)
THEOREM StepsGoOutOnceInTurn == Spec => []EachStepOnceInTurn
<1>1. Inv => EachStepOnceInTurn
  <2> SUFFICES ASSUME Inv, NEW t \in Tasks, NEW i \in DOMAIN sent[t],
                      NEW j \in DOMAIN sent[t], i < j
               PROVE  sent[t][i].acked /\ sent[t][i].step # sent[t][j].step
    BY DEF EachStepOnceInTurn
  <2>1. sent[t][i].acked /\ Rank(sent[t][i].step) < Rank(sent[t][j].step)
    BY DEF Inv, CallInv, InTurn
  <2>2. Rank(sent[t][i].step) \in Nat
    BY DEF Rank
  <2> QED
    BY <2>1, <2>2
<1> QED
  BY InvHolds, <1>1, PTL

(* The commands of a first enable share a session, unless another task      *)
(* replaced it.                                                             *)
THEOREM EnablesKeepTheirSession == Spec => []EnableStaysOnItsSession
<1>1. Inv => EnableStaysOnItsSession
  BY DEF Inv, CallInv, OnSessions, EnableStaysOnItsSession
<1> QED
  BY InvHolds, <1>1, PTL

-----------------------------------------------------------------------------
(* How a call returns.                                                      *)
LEMMA HowItReturns ==
  ASSUME Inv, Next, NEW t \in Tasks, NEW errors, Returns(t, errors)
  PROVE  \/ GivesUp(t) \/ End(t) \/ CancelWaiting(t)
         \/ Close(t) /\ at[t].first /\ at[t].error # "none"
<1> USE DEF In, Goto, Returns
<1>1. at \in [Tasks -> Calls] /\ at[t].pc # "idle" /\ at'[t].pc = "idle"
  BY Typed
<1>2. ASSUME NEW u \in Tasks, u # t,
             Step(u) \/ Cancel(u) \/ \E p \in Passwords : Call(u, p)
      PROVE  at'[t] = at[t]
  <2>1. CASE \E p \in Passwords : Call(u, p)
    BY <1>1, <1>2, <2>1 DEF Call
  <2>2. CASE Locked(u) \/ Params(u) \/ Status(u) \/ PreflightFails(u) \/ GivesUp(u)
    BY <1>1, <1>2, <2>2 DEF Locked, Params, Status, PreflightFails, GivesUp, GiveUp, Finish
  <2>3. CASE Send(u) \/ NotSent(u) \/ Acknowledged(u) \/ OtherAnswer(u) \/ NoAnswer(u)
    BY <1>1, <1>2, <2>3 DEF Send, NotSent, Acknowledged, OtherAnswer, NoAnswer, Fails
  <2>4. CASE Close(u) \/ Verify(u) \/ VerifyFails(u) \/ End(u)
    BY <1>1, <1>2, <2>4 DEF Close, Verify, VerifyFails, End, Finish
  <2>5. CASE Cancel(u)
    BY <1>1, <1>2, <2>5 DEF Cancel, CancelWaiting, CancelPreflight, CancelChange, ShutDown, Finish
  <2> QED
    BY <1>2, <2>1, <2>2, <2>3, <2>4, <2>5 DEF Step
<1>3. ASSUME NEW u \in Tasks, Step(u) \/ Cancel(u) \/ \E p \in Passwords : Call(u, p)
      PROVE  u = t
  BY <1>1, <1>2, <1>3
<1>4. ~ \E p \in Passwords : Call(t, p)
  BY <1>1, Typed DEF Calls, Call
<1>5. ~OtherConnects /\ ~SessionEnds
  <2>1. CASE OtherConnects
    BY <1>1, <2>1 DEF OtherConnects, Calls
  <2>2. CASE SessionEnds
    BY <1>1, <2>2 DEF SessionEnds
  <2> QED
    BY <2>1, <2>2
<1>6. at[t] \in Calls
  BY Typed
<1>7. ~Locked(t)
  BY <1>1, <1>6 DEF Locked, Calls
<1>8. ~Params(t)
  BY <1>1, <1>6 DEF Params, GiveUp, Calls
<1>9. ~Status(t)
  BY <1>1, <1>6 DEF Status, GiveUp, Calls
<1>10. ~PreflightFails(t)
  BY <1>1, <1>6 DEF PreflightFails, GiveUp, Calls
<1>11. ~CancelPreflight(t)
  <2> SUFFICES ASSUME CancelPreflight(t) PROVE FALSE
    OBVIOUS
  <2>1. at' = [at EXCEPT ![t] = [at[t] EXCEPT !.pc = "giveUp", !.error = "cancelled", !.cancelled = TRUE]]
    BY DEF CancelPreflight
  <2>2. at'[t] = [at[t] EXCEPT !.pc = "giveUp", !.error = "cancelled", !.cancelled = TRUE]
    BY <1>1, <2>1
  <2> QED
    BY <1>1, <1>6, <2>2 DEF Calls
<1>12. ~Send(t)
  <2> SUFFICES ASSUME Send(t) PROVE FALSE
    OBVIOUS
  <2>1. at' = [at EXCEPT ![t].pc = "sent"]
    BY DEF Send
  <2> QED
    BY <1>1, <1>6, <2>1
<1>13. ~NotSent(t)
  BY <1>1, <1>6 DEF NotSent, Fails, Calls
<1>14. ~Acknowledged(t)
  BY <1>1, <1>6 DEF Acknowledged, Calls
<1>15. ~OtherAnswer(t)
  BY <1>1, <1>6 DEF OtherAnswer, Fails, Calls
<1>16. ~NoAnswer(t)
  BY <1>1, <1>6 DEF NoAnswer, Fails, Calls
<1>17. ~Verify(t)
  BY <1>1, <1>6 DEF Verify, Calls
<1>18. ~VerifyFails(t)
  <2> SUFFICES ASSUME VerifyFails(t) PROVE FALSE
    OBVIOUS
  <2>1. at' = [at EXCEPT ![t] = [at[t] EXCEPT !.pc = "end", !.verified = "failed", !.error = "uncertain"]]
    BY DEF VerifyFails
  <2>2. at'[t] = [at[t] EXCEPT !.pc = "end", !.verified = "failed", !.error = "uncertain"]
    BY <1>1, <2>1
  <2> QED
    BY <1>1, <1>6, <2>2 DEF Calls
<1>19. ~ShutDown(t)
  <2> SUFFICES ASSUME ShutDown(t) PROVE FALSE
    OBVIOUS
  <2>1. at'[t].pc \in {"close", "end"}
    BY <1>1, <1>6, Zenon DEF ShutDown, Calls
  <2> QED
    BY <1>1, <2>1
<1>20. ~CancelChange(t)
  <2> SUFFICES ASSUME CancelChange(t) PROVE FALSE
    OBVIOUS
  <2>1. at' = [at EXCEPT ![t].cancelled = TRUE]
    BY DEF CancelChange
  <2>2. at'[t].pc = at[t].pc
    BY <1>1, <1>6, <2>1 DEF Calls
  <2> QED
    BY <1>1, <2>2
<1>21. Close(t) => at[t].first /\ at[t].error # "none"
  BY <1>1, Typed DEF Calls, Close
<1> QED
  BY <1>3, <1>4, <1>5, <1>7, <1>8, <1>9, <1>10, <1>11, <1>12, <1>13, <1>14, <1>15,
     <1>16, <1>17, <1>18, <1>19, <1>20, <1>21 DEF Next, Step, Cancel

(* Success is verified on a fresh session, and still true at the return.    *)
THEOREM SuccessesAreVerified == Spec => SuccessIsVerified
<1>1. ASSUME Inv, Next, NEW t \in Tasks, Returns(t, {"none"})
      PROVE  /\ web = at[t].password
             /\ sent[t] # <<>>
             /\ \A i \in DOMAIN sent[t] : sent[t][i].on < at[t].fresh
  <2> USE DEF In, Returns
  <2>1. at \in [Tasks -> Calls] /\ at[t] \in Calls /\ CallInv(t) /\ at'[t].error = "none"
    BY <1>1, Typed DEF Inv
  <2>2. ASSUME NEW e, Finish(t, e) PROVE e = "none"
    <3>1. at'[t].error = Raised(t, e)
      BY <2>1, <2>2 DEF Finish, Idle
    <3> QED
      BY <2>1, <3>1 DEF Raised
  <2>3. CASE GivesUp(t)
    BY <2>1, <2>2, <2>3 DEF GivesUp, CallInv, Ends
  <2>4. CASE CancelWaiting(t)
    BY <2>2, <2>4 DEF CancelWaiting
  <2>5. CASE Close(t) /\ at[t].first /\ at[t].error # "none"
    BY <2>2, <2>5 DEF Close
  <2>6. CASE End(t)
    <3>1. at[t].pc = "end" /\ Outcome(t) = "none"
      BY <2>2, <2>6 DEF End
    <3>2. at[t].error = "none" /\ at[t].verified = "yes"
      BY <2>1, <3>1 DEF Outcome, CallInv, Ends, Calls
    <3> QED
      BY <2>1, <3>1, <3>2 DEF CallInv, Ends, OnSessions
  <2> QED
    BY <1>1, <2>3, <2>4, <2>5, <2>6, HowItReturns
<1>2. Inv /\ [Next]_vars =>
        [\A t \in Tasks : Returns(t, {"none"}) =>
            /\ web = at[t].password
            /\ sent[t] # <<>>
            /\ \A i \in DOMAIN sent[t] : sent[t][i].on < at[t].fresh]_vars
  BY <1>1
<1> QED
  BY <1>2, InvHolds, PTL DEF Spec, SuccessIsVerified

(* What was sent is never denied.                                           *)
THEOREM SentChangesAreNotDenied == Spec => SentIsNotDenied
<1>1. ASSUME Inv, Next, NEW t \in Tasks, sent[t] # <<>>
      PROVE  /\ ~Returns(t, {"error"})
             /\ Returns(t, {"cancelled"}) => at[t].cancelled
  <2> SUFFICES ASSUME Returns(t, {"error", "cancelled"})
               PROVE  at'[t].error = "cancelled" /\ at[t].cancelled
    BY DEF Returns
  <2> USE DEF In
  <2>1. at \in [Tasks -> Calls] /\ at[t] \in Calls /\ CallInv(t)
        /\ at'[t].error \in {"error", "cancelled"}
    BY <1>1, Typed DEF Inv, Returns
  <2>2. ASSUME NEW e, Finish(t, e), e \notin {"error", "cancelled"}
        PROVE  at'[t].error = "cancelled" /\ at[t].cancelled
    <3>1. at'[t].error = Raised(t, e)
      BY <2>1, <2>2 DEF Finish, Idle
    <3> QED
      BY <2>1, <2>2, <3>1 DEF Raised
  <2>3. ~GivesUp(t) /\ ~CancelWaiting(t)
    BY <1>1, <2>1 DEF GivesUp, CancelWaiting, CallInv, InTurn
  <2>4. CASE Close(t) /\ at[t].first /\ at[t].error # "none"
    BY <1>1, <2>1, <2>2, <2>4 DEF Close, CallInv, Ends
  <2>5. CASE End(t)
    <3>1. at[t].pc = "end" /\ Finish(t, Outcome(t))
      BY <2>5 DEF End
    <3>2. Outcome(t) \notin {"error", "cancelled"}
      BY <2>1, <3>1 DEF Outcome, CallInv, Ends
    <3> QED
      BY <2>2, <3>1, <3>2
  <2> QED
    BY <1>1, <2>3, <2>4, <2>5, HowItReturns
<1>2. Inv /\ [Next]_vars =>
        [\A t \in Tasks : sent[t] # <<>> =>
            /\ ~Returns(t, {"error"})
            /\ Returns(t, {"cancelled"}) => at[t].cancelled]_vars
  BY <1>1
<1> QED
  BY <1>2, InvHolds, PTL DEF Spec, SentIsNotDenied
=============================================================================
