------------------------- MODULE FeatureChangeProofs -------------------------
(***************************************************************************)
(* Proofs about FeatureChange, for any tasks, values and number of calls.  *)
(*                                                                         *)
(* Between the read and the write of a locked feature nobody else writes   *)
(* it, so that the values read are still the camera's; between the two     *)
(* writes of a transition the first still stands.  Nothing was sent before *)
(* the first write, and after it an error is uncertain.                    *)
(***************************************************************************)
EXTENDS FeatureChange, TLAPS

(* What the setter t is in writes first in a night-vision transition.       *)
FirstOf(t) == IF at[t].values[1] \in LampFirst THEN 1 ELSE 2

(* The values to write are those given, and for time those of the camera.   *)
ValuesInv(t) ==
  at[t].pc \in {"connect", "sent"} =>
    \A i \in Fields :
      /\ at[t].given[i] # Keep => at[t].values[i] = at[t].given[i]
      /\ at[t].given[i] = Keep /\ at[t].feature = "time" =>
           at[t].values[i] = settings["time"][i]

(* How far a write went.                                                    *)
ProgressInv(t) ==
  /\ at[t].pc \in {"lock", "read"} => ~at[t].sent /\ at[t].done = 0
  /\ at[t].pc = "connect" => (at[t].sent <=> at[t].done > 0)
  /\ at[t].pc = "sent" => at[t].sent
  /\ at[t].feature # "night" => at[t].done = 0
  /\ at[t].pc = "close" => at[t].feature = "wifi" /\ at[t].outcome # "ok"
  /\ at[t].feature # "wifi" => ~Denied(t)

(* What is acknowledged stands.                                             *)
WrittenInv(t) ==
  /\ at[t].pc \in {"connect", "sent"} /\ at[t].feature = "night" /\ at[t].done > 0 =>
       settings["night"][FirstOf(t)] = at[t].values[FirstOf(t)]
  /\ at[t].pc = "sent" /\ at[t].reached /\ at[t].feature \in {"time", "night"} =>
       \A i \in Written(t) : settings[at[t].feature][i] = at[t].values[i]

SetterInv(t) == ValuesInv(t) /\ ProgressInv(t) /\ WrittenInv(t)

Inv ==
  /\ TypeOK
  /\ AdjacentFieldsArePreserved
  /\ \A t \in Tasks : SetterInv(t)

-----------------------------------------------------------------------------
LEMMA IdleTyped == Idle \in CallState /\ Idle.pc = "idle" /\ ~Idle.sent /\ Idle.done = 0
<1>1. Nothing \in Arguments
  BY DEF Nothing, Arguments
<1> QED
  BY <1>1 DEF Idle, CallState, Features

LEMMA InitInv == Init => Inv
<1> SUFFICES ASSUME Init PROVE Inv
  OBVIOUS
<1>1. /\ at \in [Tasks -> CallState]
      /\ \A t \in Tasks : at[t] = Idle
  BY IdleTyped DEF Init
<1>2. \A f \in Locking : owner[f] = Nobody
  BY DEF Init
<1>3. settings \in [Features -> [Fields -> Values]]
  BY DEF Init
<1>4. TypeOK
  BY <1>1, <1>2, <1>3, IdleTyped, NobodyAssumption, BoundAssumption DEF Init, TypeOK
<1>5. \A t \in Tasks : SetterInv(t)
  BY <1>1, IdleTyped DEF SetterInv, ValuesInv, ProgressInv, WrittenInv, Denied, In, Idle
<1> QED
  BY <1>4, <1>5 DEF Init, Inv, AdjacentFieldsArePreserved

-----------------------------------------------------------------------------
(***************************************************************************)
(* Types, and the locks.                                                   *)
(***************************************************************************)
Outside == {"idle", "lock"}

(* A task outside of a setter, or one that stays inside of it.              *)
LEMMA StaysTyped ==
  ASSUME TypeOK, NEW t \in Tasks, NEW c \in CallState,
         at' = [at EXCEPT ![t] = c],
         UNCHANGED owner,
         \/ at[t].pc \in Outside /\ c.pc \in Outside
         \/ at[t].pc \in Outside /\ c.feature \notin Locking
         \/ at[t].pc \notin Outside /\ c.pc \notin Outside /\ c.feature = at[t].feature,
         c.pc \in {"connect", "sent"} => c.values \in [Fields -> Values],
         settings' \in [Features -> [Fields -> Values]],
         wanted' \in [Features -> [Fields -> Values]],
         calls' \in 0 .. MaxCalls
  PROVE  TypeOK'
<1>1. at' \in [Tasks -> CallState] /\ at'[t] = c /\ \A u \in Tasks : u # t => at'[u] = at[u]
  BY DEF TypeOK
<1>2. \A u \in Tasks, f \in Locking :
        owner'[f] = u <=> at'[u].feature = f /\ at'[u].pc \notin {"idle", "lock"}
  BY <1>1 DEF TypeOK, Outside
<1> QED
  BY <1>1, <1>2 DEF TypeOK

(* A call returns.                                                          *)
LEMMA ReturnTyped ==
  ASSUME TypeOK, NEW t \in Tasks,
         NEW outcome \in {"none", "ok", "error", "uncertain", "cancelled", "changeCancelled"},
         Return(t, outcome),
         UNCHANGED <<camera, calls>>
  PROVE  TypeOK'
<1> DEFINE c == [at[t] EXCEPT !.pc = "idle", !.outcome = outcome]
<1>0. at[t] \in CallState
  BY DEF TypeOK
<1>1. c \in CallState /\ c.pc = "idle"
  BY <1>0 DEF CallState
<1>2. at' = [at EXCEPT ![t] = c]
  BY DEF Return
<1>3. at' \in [Tasks -> CallState] /\ at'[t] = c /\ \A u \in Tasks : u # t => at'[u] = at[u]
  BY <1>1, <1>2 DEF TypeOK
<1>4. \A f \in Locking : owner'[f] = IF owner[f] = t THEN Nobody ELSE owner[f]
  BY DEF Return
<1>5. owner' \in [Locking -> Tasks \cup {Nobody}]
  BY DEF Return, TypeOK
<1>6. ASSUME NEW u \in Tasks, NEW f \in Locking
      PROVE  owner'[f] = u <=> at'[u].feature = f /\ at'[u].pc \notin {"idle", "lock"}
  <2>1. CASE u = t
    BY <1>1, <1>3, <1>4, <2>1, NobodyAssumption
  <2>2. CASE u # t
    <3>1. owner'[f] = u <=> owner[f] = u
      BY <1>4, <2>2, NobodyAssumption
    <3> QED
      BY <1>3, <2>2, <3>1 DEF TypeOK
  <2> QED
    BY <2>1, <2>2
<1> QED
  BY <1>1, <1>3, <1>5, <1>6 DEF TypeOK, camera

LEMMA EndTyped ==
  ASSUME TypeOK, NEW t \in Tasks,
         NEW outcome \in {"none", "ok", "error", "uncertain", "cancelled", "changeCancelled"},
         End(t, outcome), at[t].pc \notin Outside,
         UNCHANGED <<camera, calls>>
  PROVE  TypeOK'
<1>1. CASE Return(t, outcome)
  BY <1>1, ReturnTyped
<1>2. CASE ~Return(t, outcome)
  <2> DEFINE c == [at[t] EXCEPT !.pc = "close", !.outcome = outcome]
  <2>0. at[t] \in CallState
    BY DEF TypeOK
  <2>1. c \in CallState /\ c.pc = "close" /\ c.feature = at[t].feature
    BY <2>0 DEF CallState
  <2>2. at' = [at EXCEPT ![t] = c] /\ UNCHANGED owner
    BY <1>2 DEF End
  <2> QED
    BY <2>1, <2>2, StaysTyped DEF TypeOK, camera, Outside
<1> QED
  BY <1>1, <1>2

(* What a write sets has the types of the settings.                         *)
LEMMA AppliedTyped ==
  ASSUME TypeOK, NEW t \in Tasks, at[t].pc = "connect", Applied(t)
  PROVE  /\ settings' \in [Features -> [Fields -> Values]]
         /\ wanted' \in [Features -> [Fields -> Values]]
<1>1. /\ at[t] \in CallState
      /\ at[t].values \in [Fields -> Values]
  BY DEF TypeOK
<1>2. /\ at[t].feature \in Features
      /\ \A i \in Fields : at[t].given[i] # Keep => at[t].given[i] \in Values
  BY <1>1 DEF CallState, Arguments
<1>3. /\ settings \in [Features -> [Fields -> Values]]
      /\ wanted \in [Features -> [Fields -> Values]]
  BY DEF TypeOK
<1>4. settings' \in [Features -> [Fields -> Values]]
  BY <1>1, <1>2, <1>3 DEF Applied
<1>5. wanted' \in [Features -> [Fields -> Values]]
  BY <1>1, <1>2, <1>3 DEF Applied
<1> QED
  BY <1>4, <1>5

LEMMA StepTyped ==
  ASSUME TypeOK, NEW t \in Tasks, Step(t)
  PROVE  TypeOK'
<1> USE DEF In, Goto, Outside, camera
<1>0. /\ at[t] \in CallState /\ at \in [Tasks -> CallState]
      /\ settings \in [Features -> [Fields -> Values]]
      /\ wanted \in [Features -> [Fields -> Values]]
      /\ calls \in 0 .. MaxCalls
  BY DEF TypeOK
<1>1. CASE Locked(t)
  <2> DEFINE f == at[t].feature
             c == [at[t] EXCEPT !.pc = "read"]
  <2>1. c \in CallState /\ c.pc = "read" /\ c.feature = f
    BY <1>0 DEF CallState
  <2>2. at' \in [Tasks -> CallState] /\ at'[t] = c /\ \A u \in Tasks : u # t => at'[u] = at[u]
    BY <1>0, <1>1, <2>1 DEF Locked
  <2>3. owner' = [owner EXCEPT ![f] = t] /\ owner[f] = Nobody
    BY <1>1 DEF Locked
  <2>4. owner' \in [Locking -> Tasks \cup {Nobody}]
    BY <2>3 DEF TypeOK
  <2>5. ASSUME NEW u \in Tasks, NEW g \in Locking
        PROVE  owner'[g] = u <=> at'[u].feature = g /\ at'[u].pc \notin {"idle", "lock"}
    <3>1. owner[g] = u <=> at[u].feature = g /\ at[u].pc \notin {"idle", "lock"}
      BY DEF TypeOK
    <3>2. owner'[g] = IF g = f THEN t ELSE owner[g]
      BY <2>3 DEF TypeOK
    <3>3. at[t].pc = "lock"
      BY <1>1 DEF Locked
    <3> HIDE DEF f, c
    <3>4. CASE u = t
      BY <2>1, <2>2, <2>3, <3>1, <3>2, <3>3, <3>4, NobodyAssumption
    <3>5. CASE u # t
      BY <2>2, <2>3, <3>1, <3>2, <3>5, NobodyAssumption
    <3> QED
      BY <3>4, <3>5
  <2> QED
    BY <1>0, <1>1, <2>1, <2>2, <2>4, <2>5 DEF Locked, TypeOK
<1>2. CASE Read(t)
  <2> DEFINE values == [i \in Fields |-> IF at[t].given[i] = Keep
                                        THEN settings[at[t].feature][i]
                                        ELSE at[t].given[i]]
             c == [at[t] EXCEPT !.pc = "connect", !.values = values]
  <2>1. values \in [Fields -> Values] /\ values \in Arguments
    BY <1>0 DEF CallState, Arguments
  <2>2. c \in CallState /\ c.pc = "connect" /\ c.values = values /\ c.feature = at[t].feature
    BY <1>0, <2>1 DEF CallState
  <2>3. at' = [at EXCEPT ![t] = c]
    BY <1>2 DEF Read
  <2>4. at[t].pc \notin Outside /\ UNCHANGED <<camera, owner, calls>>
    BY <1>2 DEF Read
  <2> HIDE DEF values, c
  <2> QED
    BY <1>0, <2>1, <2>2, <2>3, <2>4, StaysTyped
<1>3. CASE ReadFails(t)
  BY <1>3, EndTyped DEF ReadFails
<1>4. CASE Send(t)
  <2>1. PICK reached \in BOOLEAN :
          /\ at' = [at EXCEPT ![t].pc = "sent", ![t].sent = TRUE, ![t].reached = reached]
          /\ \/ reached /\ Applied(t)
             \/ ~reached /\ UNCHANGED camera
    BY <1>4 DEF Send
  <2> DEFINE c == [at[t] EXCEPT !.pc = "sent", !.sent = TRUE, !.reached = reached]
  <2>2. c \in CallState /\ c.pc = "sent" /\ c.feature = at[t].feature /\ c.values = at[t].values
    BY <1>0 DEF CallState
  <2>3. at' = [at EXCEPT ![t] = c]
    BY <2>1
  <2>4. at[t].values \in [Fields -> Values] /\ at[t].pc = "connect"
    BY <1>4 DEF Send, TypeOK
  <2>5. /\ settings' \in [Features -> [Fields -> Values]]
        /\ wanted' \in [Features -> [Fields -> Values]]
    BY <1>0, <2>1, <2>4, AppliedTyped
  <2> QED
    BY <1>0, <1>4, <2>2, <2>3, <2>4, <2>5, StaysTyped DEF Send
<1>5. CASE ConnectFails(t)
  BY <1>5, EndTyped DEF ConnectFails
<1>6. CASE Acknowledged(t)
  <2>1. CASE at[t].done + 1 < Steps(at[t].feature)
    <3> DEFINE c == [at[t] EXCEPT !.pc = "connect", !.done = 1]
    <3>1. at[t].done = 0
      BY <1>0, <2>1 DEF CallState, Steps
    <3>2. c \in CallState
      <4>1. [at[t] EXCEPT !.pc = "connect"] \in CallState
        BY <1>0 DEF CallState
      <4>2. 1 \in 0 .. 1
        OBVIOUS
      <4>3. ASSUME NEW r \in CallState, NEW d \in 0 .. 1
            PROVE  [r EXCEPT !.done = d] \in CallState
        BY DEF CallState
      <4> QED
        BY <4>1, <4>2, <4>3
    <3>3. c.pc = "connect" /\ c.feature = at[t].feature /\ c.values = at[t].values
      BY <1>0 DEF CallState
    <3>4. at' = [at EXCEPT ![t].pc = "connect", ![t].done = 1] /\ UNCHANGED owner
      BY <1>6, <2>1, <3>1 DEF Acknowledged, Steps
    <3>5. at' = [at EXCEPT ![t] = c]
      BY <1>0, <3>4
    <3>6. at[t].values \in [Fields -> Values] /\ at[t].pc = "sent" /\ UNCHANGED <<camera, calls>>
      BY <1>6 DEF Acknowledged, TypeOK
    <3> HIDE DEF c
    <3> QED
      BY <1>0, <3>2, <3>3, <3>4, <3>5, <3>6, StaysTyped
  <2>2. CASE ~(at[t].done + 1 < Steps(at[t].feature))
    BY <1>6, <2>2, EndTyped DEF Acknowledged
  <2> QED
    BY <2>1, <2>2
<1>7. CASE NotAcknowledged(t)
  BY <1>7, EndTyped DEF NotAcknowledged
<1>8. CASE Closed(t)
  <2>1. at[t].outcome \in {"none", "ok", "error", "uncertain", "cancelled", "changeCancelled"}
    BY <1>0 DEF CallState
  <2> QED
    BY <1>8, <2>1, ReturnTyped DEF Closed
<1> QED
  BY <1>1, <1>2, <1>3, <1>4, <1>5, <1>6, <1>7, <1>8 DEF Step

LEMMA NextTyped == TypeOK /\ [Next]_vars => TypeOK'
<1> SUFFICES ASSUME TypeOK, [Next]_vars PROVE TypeOK'
  OBVIOUS
<1> USE DEF In, Outside, camera
<1>1. ASSUME NEW t \in Tasks, NEW f \in Features, NEW given \in Arguments, Call(t, f, given)
      PROVE  TypeOK'
  <2> DEFINE c == [Idle EXCEPT !.pc = IF f \in Locking THEN "lock" ELSE "read",
                               !.feature = f, !.given = given, !.values = given]
  <2>1. c \in CallState /\ c.pc = (IF f \in Locking THEN "lock" ELSE "read") /\ c.feature = f
    BY IdleTyped DEF CallState
  <2>2. at' = [at EXCEPT ![t] = c] /\ UNCHANGED owner /\ at[t].pc = "idle"
    BY <1>1 DEF Call
  <2>3. calls' \in 0 .. MaxCalls
    BY <1>1, BoundAssumption DEF Call, TypeOK
  <2> QED
    BY <1>1, <2>1, <2>2, <2>3, StaysTyped DEF Call, TypeOK
<1>2. ASSUME NEW t \in Tasks, CancelQuiet(t) PROVE TypeOK'
  BY <1>2, ReturnTyped, EndTyped DEF CancelQuiet
<1>3. ASSUME NEW t \in Tasks, CancelSent(t) PROVE TypeOK'
  BY <1>3, EndTyped DEF CancelSent
<1>4. ASSUME NEW t \in Tasks, CancelClose(t) PROVE TypeOK'
  BY <1>4, ReturnTyped DEF CancelClose
<1>5. CASE UNCHANGED vars
  BY <1>5 DEF vars, TypeOK
<1> QED
  BY <1>1, <1>2, <1>3, <1>4, <1>5, StepTyped DEF Next

-----------------------------------------------------------------------------
(***************************************************************************)
(* What other setters leave alone.                                         *)
(***************************************************************************)
Action(t) ==
  \/ Step(t) \/ CancelQuiet(t) \/ CancelSent(t) \/ CancelClose(t)
  \/ \E f \in Features, given \in Arguments : Call(t, f, given)

(* A step changes the call of its own task, and the camera only in the      *)
(* feature it writes, which it has locked if it can.                        *)
LEMMA StepChanges ==
  ASSUME TypeOK, NEW t \in Tasks, Action(t)
  PROVE  /\ \A u \in Tasks : u # t => at'[u] = at[u]
         /\ \A f \in Features : f # at[t].feature => settings'[f] = settings[f]
         /\ UNCHANGED camera \/ (Send(t) /\ Applied(t))
<1>0. at \in [Tasks -> CallState] /\ settings \in [Features -> [Fields -> Values]]
  BY DEF TypeOK
<1> USE <1>0 DEF Goto, Return, camera
<1>1. CASE Send(t)
  <2>1. PICK reached \in BOOLEAN :
          /\ at' = [at EXCEPT ![t].pc = "sent", ![t].sent = TRUE, ![t].reached = reached]
          /\ \/ reached /\ Applied(t)
             \/ ~reached /\ UNCHANGED camera
    BY <1>1 DEF Send
  <2>2. \A u \in Tasks : u # t => at'[u] = at[u]
    BY <2>1
  <2>3. \A f \in Features : f # at[t].feature => settings'[f] = settings[f]
    BY <2>1 DEF Applied
  <2> QED
    BY <1>1, <2>1, <2>2, <2>3
<1>2. CASE Locked(t) \/ Read(t) \/ Closed(t)
  BY <1>2 DEF Locked, Read, Closed
<1>3. CASE ReadFails(t) \/ ConnectFails(t) \/ Acknowledged(t) \/ NotAcknowledged(t)
  BY <1>3 DEF ReadFails, ConnectFails, Acknowledged, NotAcknowledged, End
<1>4. CASE CancelQuiet(t) \/ CancelSent(t) \/ CancelClose(t)
  BY <1>4 DEF CancelQuiet, CancelSent, CancelClose, End
<1>5. CASE \E f \in Features, given \in Arguments : Call(t, f, given)
  BY <1>5 DEF Call
<1> QED
  BY <1>1, <1>2, <1>3, <1>4, <1>5 DEF Action, Step

LEMMA OthersKeep ==
  ASSUME Inv, NEW t \in Tasks, Action(t), NEW u \in Tasks, u # t
  PROVE  SetterInv(u)'
<1>1. /\ at'[u] = at[u]
      /\ \A f \in Features : f # at[t].feature => settings'[f] = settings[f]
      /\ UNCHANGED camera \/ (Send(t) /\ Applied(t))
  BY StepChanges DEF Inv
<1>2. SetterInv(u) /\ at[u] \in CallState /\ at[t] \in CallState
  BY DEF Inv, TypeOK
(* Two setters of a locked feature are not inside at once.                  *)
<1>3. ASSUME at[u].pc \in {"connect", "sent"}, at[u].feature \in {"time", "night"}
      PROVE  settings'[at[u].feature] = settings[at[u].feature]
  <2>1. CASE UNCHANGED camera
    BY <2>1 DEF camera
  <2>2. CASE Send(t)
    <3>1. owner[at[u].feature] = u
      BY <1>3 DEF Inv, TypeOK, Locking
    <3>2. at[t].feature = at[u].feature => owner[at[u].feature] = t
      BY <1>3, <2>2 DEF Inv, TypeOK, Locking, Send, In
    <3> QED
      BY <1>1, <1>3, <3>1, <3>2 DEF Features
  <2> QED
    BY <1>1, <2>1, <2>2
<1>4. ValuesInv(u)'
  BY <1>1, <1>2, <1>3 DEF SetterInv, ValuesInv
<1>5. ProgressInv(u)'
  BY <1>1, <1>2 DEF SetterInv, ProgressInv, Denied, In
<1>6. WrittenInv(u)'
  BY <1>1, <1>2, <1>3 DEF SetterInv, WrittenInv, FirstOf, Written
<1> QED
  BY <1>4, <1>5, <1>6 DEF SetterInv

-----------------------------------------------------------------------------
(***************************************************************************)
(* What a setter does to its own call.                                     *)
(***************************************************************************)

(* It ends, in an outcome that does not deny what was sent.                 *)
LEMMA EndKeeps ==
  ASSUME Inv, NEW t \in Tasks, NEW outcome,
         End(t, outcome) \/ Return(t, outcome),
         at[t].feature # "wifi" /\ at[t].sent => outcome \notin {"error", "cancelled"},
         at[t].feature = "wifi" => outcome # "ok"
  PROVE  SetterInv(t)'
<1>1. at \in [Tasks -> CallState] /\ at[t] \in CallState
  BY DEF Inv, TypeOK
<1>2. \/ at'[t] = [at[t] EXCEPT !.pc = "idle", !.outcome = outcome]
      \/ /\ at[t].feature = "wifi"
         /\ at'[t] = [at[t] EXCEPT !.pc = "close", !.outcome = outcome]
  BY <1>1 DEF End, Return
<1>3. /\ at'[t].pc = "idle" \/ (at'[t].pc = "close" /\ at[t].feature = "wifi")
      /\ at'[t].feature = at[t].feature /\ at'[t].sent = at[t].sent
      /\ at'[t].done = at[t].done /\ at'[t].outcome = outcome
  BY <1>1, <1>2 DEF CallState
<1>4. at[t].feature # "night" => at[t].done = 0
  BY DEF Inv, SetterInv, ProgressInv
<1> QED
  BY <1>3, <1>4 DEF SetterInv, ValuesInv, ProgressInv, WrittenInv, Denied, In

(* The write: what it sets, if it reaches the camera, is what it carries.   *)
LEMMA SendKeeps ==
  ASSUME Inv, NEW t \in Tasks, Send(t)
  PROVE  SetterInv(t)' /\ AdjacentFieldsArePreserved'
<1>0. /\ at \in [Tasks -> CallState] /\ at[t] \in CallState /\ at[t].pc = "connect"
      /\ settings \in [Features -> [Fields -> Values]]
      /\ wanted \in [Features -> [Fields -> Values]]
  BY DEF Inv, TypeOK, Send, In
<1>1. ValuesInv(t) /\ ProgressInv(t) /\ WrittenInv(t) /\ settings["time"] = wanted["time"]
  BY DEF Inv, SetterInv, AdjacentFieldsArePreserved
<1>2. PICK reached \in BOOLEAN :
        /\ at' = [at EXCEPT ![t].pc = "sent", ![t].sent = TRUE, ![t].reached = reached]
        /\ \/ reached /\ Applied(t)
           \/ ~reached /\ UNCHANGED camera
  BY DEF Send
<1>3. /\ at'[t].pc = "sent" /\ at'[t].reached = reached
      /\ at'[t].feature = at[t].feature /\ at'[t].given = at[t].given
      /\ at'[t].values = at[t].values /\ at'[t].done = at[t].done
      /\ at'[t].sent
  BY <1>0, <1>2 DEF CallState
<1>4. ProgressInv(t)'
  BY <1>1, <1>3 DEF ProgressInv, Denied, In
<1>5. CASE ~reached
  BY <1>1, <1>2, <1>3, <1>4, <1>5, <1>0
     DEF SetterInv, ValuesInv, WrittenInv, FirstOf, AdjacentFieldsArePreserved, camera
<1>6. CASE reached
  <2> DEFINE f == at[t].feature
  <2>1. f \in Features
    BY <1>0 DEF CallState
  <2>2. \A i \in Fields :
          settings'[f][i] = IF i \in Written(t) THEN at[t].values[i] ELSE settings[f][i]
    BY <1>0, <1>2, <1>6, <2>1 DEF Applied
  <2>3. \A i \in Fields :
          wanted'[f][i] = IF i \in Written(t) /\ at[t].given[i] # Keep
                          THEN at[t].given[i] ELSE wanted[f][i]
    BY <1>0, <1>2, <1>6, <2>1 DEF Applied
  <2>4. /\ settings' \in [Features -> [Fields -> Values]]
        /\ wanted' \in [Features -> [Fields -> Values]]
        /\ f # "time" => settings'["time"] = settings["time"] /\ wanted'["time"] = wanted["time"]
    <3>1. /\ settings' \in [Features -> [Fields -> Values]]
          /\ wanted' \in [Features -> [Fields -> Values]]
      BY <1>0, <1>2, <1>6, AppliedTyped DEF Inv
    <3>2. f # "time" => settings'["time"] = settings["time"] /\ wanted'["time"] = wanted["time"]
      BY <1>0, <1>2, <1>6 DEF Applied, Features
    <3> QED
      BY <3>1, <3>2
  <2>5. f = "time" => Written(t) = Fields
    BY DEF Written
  <2>6. Written(t)' = Written(t) /\ FirstOf(t)' = FirstOf(t)
    BY <1>3 DEF Written, FirstOf
  <2>7. FirstOf(t) \in Fields /\ Written(t) \subseteq Fields
    <3>1. at[t].done \in {0, 1}
      BY <1>0 DEF CallState
    <3> QED
      BY <3>1 DEF FirstOf, Written, Fields
  <2>8. ASSUME f = "time", NEW i \in Fields
        PROVE  /\ settings'["time"][i] = at[t].values[i]
               /\ wanted'["time"][i] = at[t].values[i]
    <3>1. at[t].given[i] = Keep => at[t].values[i] = settings["time"][i]
      BY <1>0, <1>1, <2>8 DEF ValuesInv
    <3>2. at[t].given[i] # Keep => at[t].values[i] = at[t].given[i]
      BY <1>0, <1>1 DEF ValuesInv
    <3> QED
      BY <1>1, <2>2, <2>3, <2>5, <2>8, <3>1, <3>2
  <2>9. AdjacentFieldsArePreserved'
    <3>1. CASE f = "time"
      <4>1. settings'["time"] \in [Fields -> Values] /\ wanted'["time"] \in [Fields -> Values]
        BY <2>4 DEF Features
      <4>2. \A i \in Fields : settings'["time"][i] = wanted'["time"][i]
        BY <2>8, <3>1
      <4> QED
        BY <4>1, <4>2 DEF AdjacentFieldsArePreserved
    <3>2. CASE f # "time"
      BY <1>1, <2>4, <3>2 DEF AdjacentFieldsArePreserved
    <3> QED
      BY <3>1, <3>2
  <2>10. ValuesInv(t)'
    BY <1>0, <1>1, <1>3, <2>8 DEF ValuesInv
  <2>11. f = "night" /\ at[t].done > 0 => settings'["night"][FirstOf(t)] = at[t].values[FirstOf(t)]
    BY <1>0, <1>1, <2>2, <2>7 DEF WrittenInv
  <2>12. WrittenInv(t)'
    BY <1>3, <2>2, <2>6, <2>7, <2>11 DEF WrittenInv
  <2> QED
    BY <1>4, <2>9, <2>10, <2>12 DEF SetterInv
<1> QED
  BY <1>5, <1>6

(* The first parameter of a transition, once acknowledged, stands.          *)
LEMMA AcknowledgedKeeps ==
  ASSUME Inv, NEW t \in Tasks, Acknowledged(t)
  PROVE  SetterInv(t)'
<1>0. /\ at \in [Tasks -> CallState] /\ at[t] \in CallState /\ at[t].pc = "sent"
      /\ at[t].reached /\ settings' = settings
      /\ ValuesInv(t) /\ ProgressInv(t) /\ WrittenInv(t)
      /\ at[t].feature # "wifi" /\ at[t].sent => ~Denied(t)
  BY DEF Inv, TypeOK, SetterInv, ProgressInv, Acknowledged, In, camera, Denied
<1>1. CASE at[t].done + 1 < Steps(at[t].feature)
  <2>1. at[t].done = 0 /\ at[t].feature = "night"
    BY <1>0, <1>1 DEF CallState, Steps
  <2>2. at' = [at EXCEPT ![t].pc = "connect", ![t].done = 1]
    BY <1>1, <2>1 DEF Acknowledged, Steps
  <2>3. /\ at'[t].pc = "connect" /\ at'[t].done = 1 /\ at'[t].sent = at[t].sent
        /\ at'[t].feature = at[t].feature /\ at'[t].given = at[t].given
        /\ at'[t].values = at[t].values
    BY <1>0, <2>2 DEF CallState
  <2>4. FirstOf(t) \in Written(t) /\ FirstOf(t)' = FirstOf(t)
    BY <2>1, <2>3 DEF Written, FirstOf
  <2>5. settings["night"][FirstOf(t)] = at[t].values[FirstOf(t)]
    BY <1>0, <2>1, <2>4 DEF WrittenInv
  <2>6. at[t].sent
    BY <1>0 DEF ProgressInv
  <2> QED
    BY <1>0, <2>1, <2>3, <2>4, <2>5, <2>6 DEF SetterInv, ValuesInv, ProgressInv, WrittenInv, Denied, In
<1>2. CASE ~(at[t].done + 1 < Steps(at[t].feature))
  BY <1>2, EndKeeps DEF Acknowledged
<1> QED
  BY <1>1, <1>2

LEMMA OwnCall ==
  ASSUME Inv, NEW t \in Tasks, Action(t), ~Send(t)
  PROVE  SetterInv(t)'
<1>0. /\ at \in [Tasks -> CallState] /\ at[t] \in CallState
      /\ ValuesInv(t) /\ ProgressInv(t) /\ WrittenInv(t)
  BY DEF Inv, TypeOK, SetterInv
<1> USE DEF In, Goto
<1>1. CASE \E f \in Features, given \in Arguments : Call(t, f, given)
  <2>1. PICK f \in Features, given \in Arguments : Call(t, f, given)
    BY <1>1
  <2>2. /\ at'[t].pc \in {"lock", "read"} /\ at'[t].done = 0 /\ ~at'[t].sent
        /\ at'[t].feature = f
    BY <1>0, <2>1 DEF Call, Idle
  <2> QED
    BY <2>2 DEF SetterInv, ValuesInv, ProgressInv, WrittenInv, Denied
<1>2. CASE Locked(t)
  <2>1. /\ at[t].pc = "lock" /\ at'[t].pc = "read" /\ at'[t].done = at[t].done
        /\ at'[t].sent = at[t].sent /\ at'[t].feature = at[t].feature
    BY <1>0, <1>2 DEF Locked, CallState
  <2> QED
    BY <1>0, <2>1 DEF SetterInv, ValuesInv, ProgressInv, WrittenInv, Denied
<1>3. CASE Read(t)
  <2> DEFINE values == [i \in Fields |-> IF at[t].given[i] = Keep
                                        THEN settings[at[t].feature][i]
                                        ELSE at[t].given[i]]
  <2>1. /\ at[t].pc = "read" /\ at'[t].pc = "connect" /\ at'[t].done = at[t].done
        /\ at'[t].sent = at[t].sent /\ at'[t].feature = at[t].feature
        /\ at'[t].given = at[t].given /\ at'[t].values = values
        /\ settings' = settings
    BY <1>0, <1>3 DEF Read, CallState, camera
  <2>2. \A i \in Fields : values[i] = IF at[t].given[i] = Keep
                                      THEN settings[at[t].feature][i]
                                      ELSE at[t].given[i]
    OBVIOUS
  <2> HIDE DEF values
  <2>3. ValuesInv(t)'
    BY <2>1, <2>2 DEF ValuesInv
  <2>4. ProgressInv(t)' /\ WrittenInv(t)'
    BY <1>0, <2>1 DEF ProgressInv, WrittenInv, Denied
  <2> QED
    BY <2>3, <2>4 DEF SetterInv
<1>4. CASE ReadFails(t)
  BY <1>0, <1>4, EndKeeps DEF ReadFails, ProgressInv
<1>5. CASE ConnectFails(t)
  BY <1>0, <1>5, EndKeeps DEF ConnectFails, ProgressInv
<1>6. CASE NotAcknowledged(t)
  BY <1>6, EndKeeps DEF NotAcknowledged
<1>7. CASE Closed(t)
  BY <1>0, <1>7, EndKeeps DEF Closed, ProgressInv
<1>8. CASE CancelQuiet(t)
  BY <1>0, <1>8, EndKeeps DEF CancelQuiet, ProgressInv
<1>9. CASE CancelSent(t)
  BY <1>9, EndKeeps DEF CancelSent
<1>10. CASE CancelClose(t)
  BY <1>0, <1>10, EndKeeps DEF CancelClose, ProgressInv
<1> QED
  BY <1>1, <1>2, <1>3, <1>4, <1>5, <1>6, <1>7, <1>8, <1>9, <1>10, AcknowledgedKeeps
     DEF Action, Step

LEMMA NextInv == Inv /\ [Next]_vars => Inv'
<1> SUFFICES ASSUME Inv, [Next]_vars PROVE Inv'
  OBVIOUS
<1>1. TypeOK'
  BY NextTyped DEF Inv
<1>2. ASSUME NEW t \in Tasks, Action(t)
      PROVE  Inv'
  <2>1. AdjacentFieldsArePreserved'
    BY <1>2, StepChanges, SendKeeps DEF Inv, AdjacentFieldsArePreserved, camera
  <2>2. ASSUME NEW u \in Tasks
        PROVE  SetterInv(u)'
    BY <1>2, OthersKeep, SendKeeps, OwnCall
  <2> QED
    BY <1>1, <2>1, <2>2 DEF Inv
<1>3. CASE UNCHANGED vars
  <2>1. \A t \in Tasks : SetterInv(t)'
    BY <1>3 DEF Inv, vars, camera, SetterInv, ValuesInv, ProgressInv, WrittenInv, Denied, In,
                FirstOf, Written
  <2> QED
    BY <1>1, <1>3, <2>1 DEF Inv, vars, camera, AdjacentFieldsArePreserved
<1>4. Next => \E t \in Tasks : Action(t)
  BY DEF Next, Action
<1> QED
  BY <1>2, <1>3, <1>4

LEMMA Invariant == Spec => []Inv
  BY InitInv, NextInv, PTL DEF Spec

-----------------------------------------------------------------------------
(* The variables keep their types, and a lock is held exactly by the setter *)
(* that is inside.                                                          *)
THEOREM TypeCorrect == Spec => []TypeOK
<1>1. Inv => TypeOK
  BY DEF Inv
<1> QED
  BY <1>1, Invariant, PTL

(* No setter of the time settings undoes the change of another (1436-1476). *)
THEOREM NoTimeUpdateIsLost == Spec => []AdjacentFieldsArePreserved
<1>1. Inv => AdjacentFieldsArePreserved
  BY DEF Inv
<1> QED
  BY <1>1, Invariant, PTL

(* No setter but Wi-Fi's denies a write that was sent (505-520, 1551-1564). *)
THEOREM PartialChangesAreNotDenied == Spec => []PartialChangeIsUncertain
<1>1. Inv => PartialChangeIsUncertain
  BY DEF Inv, SetterInv, ProgressInv, PartialChangeIsUncertain
<1> QED
  BY <1>1, Invariant, PTL

(* Success means that the camera has the values, all of them (1534-1550).   *)
THEOREM SuccessesAreApplied == Spec => SuccessIsApplied
<1> DEFINE A(t) == ~In(t, "idle") /\ at'[t].pc = "idle" /\ at'[t].outcome = "ok" =>
                     settings'[at[t].feature] = at[t].values
<1>1. ASSUME Inv, [Next]_vars, NEW t \in Tasks
      PROVE  A(t)
  <2> SUFFICES ASSUME ~In(t, "idle"), at'[t].pc = "idle", at'[t].outcome = "ok"
               PROVE  settings'[at[t].feature] = at[t].values
    OBVIOUS
  <2>0. /\ at \in [Tasks -> CallState] /\ at[t] \in CallState
        /\ settings \in [Features -> [Fields -> Values]]
        /\ ProgressInv(t) /\ WrittenInv(t)
    BY <1>1 DEF Inv, TypeOK, SetterInv
  <2>1. PICK u \in Tasks : Action(u)
    BY <1>1 DEF In, vars, Next, Action
  <2>2. u = t
    BY <1>1, <2>1, StepChanges DEF In, Inv
  <2>3. Acknowledged(t)
    <3>1. ASSUME NEW outcome, End(t, outcome) \/ Return(t, outcome)
          PROVE  outcome = "ok"
      <4>1. \/ at'[t] = [at[t] EXCEPT !.pc = "idle", !.outcome = outcome]
            \/ at'[t] = [at[t] EXCEPT !.pc = "close", !.outcome = outcome]
        BY <2>0, <3>1 DEF End, Return
      <4> QED
        BY <2>0, <4>1 DEF CallState
    <3>2. ~ReadFails(t) /\ ~ConnectFails(t) /\ ~NotAcknowledged(t)
      BY <3>1 DEF ReadFails, ConnectFails, NotAcknowledged
    <3>3. ~Closed(t)
      BY <2>0, <3>1 DEF Closed, ProgressInv, In
    <3>4. ~CancelQuiet(t) /\ ~CancelSent(t) /\ ~CancelClose(t)
      BY <3>1 DEF CancelQuiet, CancelSent, CancelClose
    <3>5. ~Locked(t) /\ ~Read(t)
      BY <2>0 DEF Locked, Read, Goto, CallState
    <3>6. ~Send(t)
      BY <2>0 DEF Send, CallState
    <3> QED
      BY <2>1, <2>2, <3>2, <3>3, <3>4, <3>5, <3>6 DEF Action, Step, Call
  <2>4. /\ at[t].pc = "sent" /\ at[t].reached /\ settings' = settings
        /\ at[t].done + 1 = Steps(at[t].feature)
        /\ at[t].feature \in {"time", "night"}
    <3>1. ~(at' = [at EXCEPT ![t].pc = "connect", ![t].done = @ + 1])
      BY <2>0 DEF CallState
    <3>2. /\ at[t].done + 1 = Steps(at[t].feature)
          /\ End(t, IF at[t].feature \in {"time", "night"} THEN "ok" ELSE "uncertain")
      BY <2>3, <3>1 DEF Acknowledged
    <3>3. at[t].feature \in {"time", "night"}
      <4>1. SUFFICES ASSUME at[t].feature \notin {"time", "night"} PROVE FALSE
        OBVIOUS
      <4>2. \/ at'[t] = [at[t] EXCEPT !.pc = "idle", !.outcome = "uncertain"]
            \/ at'[t] = [at[t] EXCEPT !.pc = "close", !.outcome = "uncertain"]
        BY <2>0, <3>2, <4>1 DEF End, Return
      <4> QED
        BY <2>0, <4>2 DEF CallState
    <3> QED
      BY <2>3, <3>2, <3>3 DEF Acknowledged, In, camera
  <2>5. at[t].values \in [Fields -> Values]
    BY <1>1, <2>4 DEF Inv, TypeOK
  <2>6. \A i \in Fields : settings[at[t].feature][i] = at[t].values[i]
    <3>1. CASE at[t].feature = "time"
      BY <2>0, <2>4, <3>1 DEF WrittenInv, Written
    <3>2. CASE at[t].feature = "night"
      <4>1. at[t].done = 1
        BY <2>0, <2>4, <3>2 DEF CallState, Steps
      <4>2. \A i \in Fields : i = FirstOf(t) \/ i \in Written(t)
        BY <3>2, <4>1 DEF Fields, FirstOf, Written
      <4> QED
        BY <2>0, <2>4, <3>2, <4>1, <4>2 DEF WrittenInv
    <3> QED
      BY <2>4, <3>1, <3>2
  <2>7. settings[at[t].feature] \in [Fields -> Values]
    BY <2>0 DEF CallState
  <2> QED
    BY <2>4, <2>5, <2>6, <2>7
<1>2. Inv /\ [Next]_vars => [\A t \in Tasks : A(t)]_vars
  BY <1>1
<1>3. Spec => [][\A t \in Tasks : A(t)]_vars
  BY <1>2, Invariant, PTL DEF Spec
<1> QED
  BY <1>3 DEF SuccessIsApplied
=============================================================================
