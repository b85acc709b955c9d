------------------------------ MODULE CgiReceive ------------------------------
(***************************************************************************)
(* How one PPPP session receives CGI responses (transport_aiopppp.py): the *)
(* bounded queue between the datagram callback and the request in flight,  *)
(* the cache that rejects retransmitted fragments, and the reassembly of a *)
(* response from the fragments a request has read.                         *)
(*                                                                         *)
(* The camera numbers its fragments modulo IndexSpace and answers every    *)
(* request once; it also sends status frames nobody asked for.  A status   *)
(* frame may deny access, which ends a request only if its own response    *)
(* does not arrive.  The network loses, repeats and reorders fragments.    *)
(* A request that fails leaves a quarantined session: none follows it.     *)
(***************************************************************************)
EXTENDS Integers, FiniteSets, SequencesExt

CONSTANTS
  Expected,      (* expected codes of the requests made                    *)
  Shapes,        (* the forms of the camera's frames, see Frames            *)
  Unknown,       (* expected_code None                                      *)
  MaxFragments,  (* _MAX_CGI_FRAGMENTS                                      *)
  MaxBytes,      (* _MAX_CGI_BUFFER_BYTES                                   *)
  IndexSpace,    (* 0x10000, the range of a DRW index                       *)
  Window,        (* bound: how long a fragment survives in the network, in  *)
                 (* fragments emitted after it                              *)
  MaxEmitted,    (* bound: fragments the camera emits                       *)
  MaxRequests    (* bound: requests made                                    *)

ASSUME LimitsAssumption ==
  /\ MaxFragments \in Nat \ {0} /\ MaxBytes \in Nat \ {0}
  /\ MaxRequests \in Nat /\ MaxEmitted \in Nat
  /\ IndexSpace \in Nat /\ MaxEmitted <= IndexSpace

(* The codes of the frames; "none" stands for no code.                      *)
Codes == (Expected \ {Unknown}) \cup {"other", "status"}

ASSUME CodesAssumption == "none" \notin Codes

(* The sizes of the fragments: a datagram is far smaller than the limit, so *)
(* the branches for one that exceeds it (86-88, 310) are left out.          *)
First == 2
Later == 1

(* The cache outlives what the network can still deliver.                   *)
ASSUME WindowAssumption ==
  /\ Window \in Nat \ {0}
  /\ 2 * Window - 1 <= MaxFragments
  /\ (2 * Window - 1) * First <= MaxBytes

VARIABLES
  emitted,      (* every fragment the camera sent                           *)
  answered      (* the requests it has answered                             *)

VARIABLES       (* the session                                              *)
  queue,        (* cgi_responses                                            *)
  queuedBytes,  (* queued_bytes                                             *)
  overflowed,   (* overflowed                                               *)
  recent,       (* _recent_cgi_fragment_order, the keys of the cache        *)
  recentBytes   (* _recent_cgi_fragment_bytes                               *)

VARIABLES       (* the request in flight                                    *)
  requests,     (* how many were made: the number of the last one           *)
  stage,        (* "idle", "ack", "reading", "failed" or "rejected"         *)
  expected,     (* expected_code                                            *)
  pending,      (* pending, in the order of insertion                       *)
  denied,       (* authentication_failure                                   *)
  response,     (* the fragments of the response returned last              *)
  discarded     (* history: a fragment was dropped since the request began *)

camera  == <<emitted, answered>>
session == <<queue, queuedBytes, overflowed, recent, recentBytes>>
call    == <<requests, stage, expected, pending, denied, response>>
cgiVars    == <<camera, session, call, discarded>>

(* How many bytes the fragments of s have, counted by fragment and place.   *)
Bytes(s) == Cardinality({b \in (DOMAIN s) \X (1 .. First) : b[2] <= s[b[1]].size})

Unsolicited == {"status"}
Matches(code) ==
  IF expected = Unknown THEN code \notin Unsolicited ELSE code = expected

-----------------------------------------------------------------------------
(* The camera.  A frame is sent in parts; "declared" is how many parts its  *)
(* header announces, which a truncated frame does not keep.  The header of  *)
(* a split frame does not fit its first part, a binary frame has its code   *)
(* beside the payload, a raw one has no header.                             *)
Frames ==
  [one       |-> [kind |-> "cgi",    parts |-> 1, declared |-> 1, whole |-> TRUE],
   denial    |-> [kind |-> "cgi",    parts |-> 1, declared |-> 1, whole |-> TRUE],
   two       |-> [kind |-> "cgi",    parts |-> 2, declared |-> 2, whole |-> TRUE],
   split     |-> [kind |-> "cgi",    parts |-> 2, declared |-> 2, whole |-> FALSE],
   truncated |-> [kind |-> "cgi",    parts |-> 1, declared |-> 2, whole |-> TRUE],
   binary    |-> [kind |-> "binary", parts |-> 1, declared |-> 1, whole |-> TRUE],
   raw       |-> [kind |-> "raw",    parts |-> 1, declared |-> 1, whole |-> FALSE]]

ASSUME ShapesAssumption == Shapes \subseteq DOMAIN Frames

(* The first index is such that the indices wrap after two fragments.       *)
Parts(shape, code, of) ==
  [p \in 1 .. Frames[shape].parts |->
     [serial |-> Len(emitted) + p,
      index |-> (IndexSpace - 3 + Len(emitted) + p) % IndexSpace,
      frame |-> Len(emitted) + 1, part |-> p, of |-> of, code |-> code,
      kind |-> Frames[shape].kind, declared |-> Frames[shape].declared,
      whole |-> Frames[shape].whole, denies |-> shape = "denial",
      size |-> IF p = 1 THEN First ELSE Later]]

Emit(shape, code, of) ==
  /\ Len(emitted) + Frames[shape].parts <= MaxEmitted
  /\ emitted' = emitted \o Parts(shape, code, of)
  /\ UNCHANGED <<session, call, discarded>>

Answer(shape) ==
  /\ stage \in {"ack", "reading"} /\ requests \notin answered
  /\ answered' = answered \cup {requests}
  /\ shape # "denial"
  /\ Emit(shape, IF expected = Unknown THEN "other" ELSE expected, requests)

Volunteer(shape) ==
  /\ Emit(shape, "status", 0)
  /\ UNCHANGED answered

CgiInit ==
  /\ emitted = << >> /\ answered = {}
  /\ queue = << >> /\ queuedBytes = 0 /\ overflowed = FALSE
  /\ recent = << >> /\ recentBytes = 0
  /\ requests = 0 /\ stage = "idle" /\ expected = Unknown
  /\ pending = << >> /\ denied = FALSE /\ response = << >>
  /\ discarded = FALSE

-----------------------------------------------------------------------------
(***************************************************************************)
(* The datagram callback: handle_drw() and _queue_cgi_response().          *)
(***************************************************************************)

(* The longest tail of s that leaves room for f.                            *)
RoomFor(f, s) ==
  LET tail(n) == SubSeq(s, n + 1, Len(s))
      fits(n) == Len(tail(n)) < MaxFragments /\ Bytes(tail(n)) + f.size <= MaxBytes
  IN  tail(CHOOSE n \in 0 .. Len(s) : fits(n) /\ \A k \in 0 .. n - 1 : ~fits(k))

(* Mutant: nothing is remembered.                                           *)
NothingRemembered(f) == UNCHANGED <<recent, recentBytes>>

(* The oldest keys expire.                                                  *)
Remember(f) ==
  LET kept == RoomFor(f, recent) IN
  /\ recent' = Append(kept, f)
  /\ recentBytes' = recentBytes - (Bytes(recent) - Bytes(kept)) + f.size

(* Mutant: evicting does not mark the queue.                                *)
EvictedSilently(f) ==
  LET kept == RoomFor(f, queue) IN
  /\ queue' = Append(kept, f)
  /\ queuedBytes' = queuedBytes - (Bytes(queue) - Bytes(kept)) + f.size
  /\ discarded' = (discarded \/ kept # queue)
  /\ UNCHANGED overflowed

(* Mutant: the bytes of what is evicted stay counted.                       *)
EvictedStaysCounted(f) ==
  LET kept == RoomFor(f, queue) IN
  /\ queue' = Append(kept, f)
  /\ queuedBytes' = queuedBytes + f.size
  /\ overflowed' = (overflowed \/ kept # queue)
  /\ discarded' = (discarded \/ kept # queue)

(* put_nowait(): the oldest fragments make room, and the queue remembers    *)
(* that it overflowed.                                                      *)
PutNowait(f) ==
  LET kept == RoomFor(f, queue) IN
  /\ queue' = Append(kept, f)
  /\ queuedBytes' = queuedBytes - (Bytes(queue) - Bytes(kept)) + f.size
  /\ overflowed' = (overflowed \/ kept # queue)
  /\ discarded' = (discarded \/ kept # queue)

Arrive(f) ==
  /\ stage \in {"idle", "ack", "reading"}
  /\ f.serial > Len(emitted) - Window
  /\ f \notin ToSet(recent)
  /\ Remember(f)
  /\ PutNowait(f)
  /\ UNCHANGED <<camera, call>>

-----------------------------------------------------------------------------
(***************************************************************************)
(* The request: _send_framed() and _take_complete_response().              *)
(***************************************************************************)

(* What arrived before the request cannot be its response.                  *)
Send(code) ==
  /\ stage = "idle" /\ requests < MaxRequests
  /\ queue' = << >> /\ queuedBytes' = 0 /\ overflowed' = FALSE
  /\ requests' = requests + 1 /\ stage' = "ack" /\ expected' = code
  /\ pending' = << >> /\ denied' = FALSE /\ response' = << >>
  /\ discarded' = FALSE
  /\ UNCHANGED <<camera, recent, recentBytes>>

(* The command code known of a fragment by itself.                          *)
CommandCode(f) ==
  IF f.kind = "binary" \/ (f.kind = "cgi" /\ f.part = 1 /\ f.whole)
  THEN f.code ELSE "none"

CouldStart(f) == f.kind = "binary" \/ (f.kind = "cgi" /\ f.part = 1)

(* Mutant: a fragment that opens a frame of its own continues another.      *)
ContinuesAnything(f, n, g) ==
  /\ g.index = (f.index + n) % IndexSpace
  /\ n > 0 => g.kind # "binary"

(* g is in place n of the frame that f starts.                              *)
Continues(f, n, g) ==
  /\ g.index = (f.index + n) % IndexSpace
  /\ n > 0 => g.kind # "binary" /\ CommandCode(g) = "none"

Complete(f, read) ==
  /\ CouldStart(f)
  /\ \A n \in 0 .. f.declared - 1 : \E g \in ToSet(read) : Continues(f, n, g)

Chunks(f, read) ==
  [n \in 1 .. f.declared |->
     CHOOSE g \in ToSet(read) : Continues(f, n - 1, g)]

(* A complete status frame that reports result=-2.                          *)
Denies(f) == f.denies /\ expected \notin {Unknown, "status", "eye4"}

(* The places in read where a complete frame starts, those of them that     *)
(* match, and the places of the fragments no complete frame has.            *)
Starts(read)   == {i \in DOMAIN read : Complete(read[i], read)}
Matching(read) == {i \in Starts(read) : Matches(read[i].code)}
Unused(read)   ==
  {k \in DOMAIN read :
     \A i \in Starts(read) : read[k] \notin ToSet(Chunks(read[i], read))}

(* What s has at the given places, in order.                                *)
At(s, places) ==
  [n \in 1 .. Cardinality(places) |->
     s[CHOOSE i \in places : Cardinality({k \in places : k <= i}) = n]]

(* Mutant: the first denial ends the request.                               *)
DenialIsFinal(read) ==
  \/ /\ \E i \in Starts(read) : Denies(read[i])
     /\ stage' = "failed"
     /\ pending' = read
     /\ UNCHANGED <<denied, response>>
  \/ /\ Matching(read) # {}
     /\ ~\E i \in Starts(read) : Denies(read[i])
     /\ response' = Chunks(read[Min(Matching(read))], read)
     /\ stage' = "idle"
     /\ pending' = << >>
     /\ UNCHANGED denied
  \/ /\ Matching(read) = {}
     /\ ~\E i \in Starts(read) : Denies(read[i])
     /\ pending' = At(read, Unused(read))
     /\ UNCHANGED <<stage, denied, response>>

(* What is complete is taken out of pending in the order its frames began:  *)
(* up to the first that matches, which is the response.  A denial before it *)
(* is remembered, and the scan goes on.                                     *)
TakeCompleteResponse(read) ==
  \/ /\ Matching(read) # {}
     /\ response' = Chunks(read[Min(Matching(read))], read)
     /\ stage' = "idle"
     /\ pending' = << >>
     /\ UNCHANGED denied
  \/ /\ Matching(read) = {}
     /\ denied' = (denied \/ \E i \in Starts(read) : Denies(read[i]))
     /\ pending' = At(read, Unused(read))
     /\ UNCHANGED <<stage, response>>

Fail(outcome) ==
  /\ stage \in {"ack", "reading"}
  /\ stage' = outcome
  /\ UNCHANGED <<camera, session, requests, expected, pending, denied, response,
                 discarded>>

Deadline  == Fail(IF denied THEN "rejected" ELSE "failed")
Interrupt == Fail("failed")   (* the session ended, or a cancellation       *)

(* An overflow is noticed before any response is taken.                     *)
Overflow == overflowed /\ Fail("failed")

Acknowledged ==
  /\ stage = "ack" /\ ~overflowed
  /\ stage' = "reading"
  /\ UNCHANGED <<camera, session, requests, expected, pending, denied, response,
                 discarded>>

PendingFull(f) ==
  \/ Len(pending) >= MaxFragments
  \/ Bytes(pending) + f.size > MaxBytes

(* One fragment is read; the first with its index counts.                   *)
Read ==
  /\ stage = "reading" /\ ~overflowed /\ queue # << >>
  /\ LET f == Head(queue)
         known == \E g \in ToSet(pending) : g.index = f.index
     IN  \/ /\ ~known /\ PendingFull(f)
            /\ stage' = "failed"
            /\ UNCHANGED <<pending, denied, response>>
         \/ ~known /\ ~PendingFull(f) /\ TakeCompleteResponse(Append(pending, f))
         \/ known /\ TakeCompleteResponse(pending)
  /\ queue' = Tail(queue)
  /\ queuedBytes' = queuedBytes - Head(queue).size
  /\ UNCHANGED <<camera, overflowed, recent, recentBytes, requests, expected,
                 discarded>>

-----------------------------------------------------------------------------
Camera == \E shape \in Shapes : Answer(shape) \/ Volunteer(shape)

Request == Acknowledged \/ Overflow \/ Read

CgiNext ==
  \/ Camera
  \/ \E i \in DOMAIN emitted : Arrive(emitted[i])
  \/ \E code \in Expected : Send(code)
  \/ Request \/ Deadline \/ Interrupt

CgiSpec == CgiInit /\ [][CgiNext]_cgiVars
-----------------------------------------------------------------------------
(***************************************************************************)
(* Properties.                                                             *)
(***************************************************************************)
Fragment ==
  [serial : Nat, index : 0 .. IndexSpace - 1, frame : Nat, part : Nat, of : Nat,
   code : Codes, kind : {"cgi", "binary", "raw"}, declared : Nat,
   whole : BOOLEAN, denies : BOOLEAN, size : {First, Later}]

(* The variables have their types.                                          *)
CgiTypeOK ==
  /\ \A s \in {emitted, response, queue, recent, pending} :
       \A f \in ToSet(s) : f \in Fragment
  /\ answered \subseteq 1 .. requests
  /\ overflowed \in BOOLEAN /\ denied \in BOOLEAN
  /\ requests \in 0 .. MaxRequests
  /\ stage \in {"idle", "ack", "reading", "failed", "rejected"}
  /\ expected \in Expected \cup {Unknown}

(* The counters that stand for the limits are exact: whatever is evicted,   *)
(* expires, is read or is drained gives its bytes back once; and every      *)
(* buffer the camera can fill keeps within both limits (84-104, 303-313,    *)
(* 875-876, 974-981).                                                       *)
CountersExact ==
  /\ CgiTypeOK
  /\ queuedBytes = Bytes(queue) /\ recentBytes = Bytes(recent)
  /\ \A s \in {queue, recent, pending} : Len(s) <= MaxFragments /\ Bytes(s) <= MaxBytes

(* What request() gets is one whole frame of the camera: all its parts, in  *)
(* order, across the wrap of the index, and never a part of another frame,  *)
(* even if the camera cut a frame short (796-843).  A fragment without a    *)
(* code of its own that follows such a frame passes for its rest; the       *)
(* protocol has nothing to tell them apart, and the property is about       *)
(* cameras without the one or the other.                                    *)
Unambiguous == "truncated" \notin Shapes \/ Shapes \cap {"split", "raw"} = {}
ResponseIsOneFrame ==
  \A n \in DOMAIN response :
    /\ response[n].frame = response[1].frame
    /\ response[n].part = n

(* ... and it is the answer to that request: a fragment the camera repeats  *)
(* because its acknowledgement was lost does not answer the next request    *)
(* with the same code (300-314, 875-876).                                   *)
RetransmitAnswersNothing ==
  [][response' # response /\ response' # << >> =>
       response'[1].of = requests \/ response'[1].code \in Unsolicited]_cgiVars

(* No response is taken once a fragment of its request was dropped, for it  *)
(* may have belonged to an earlier match (860-863, 929, 971).               *)
DroppedMeansFailed ==
  [][response' # response /\ response' # << >> => ~discarded]_cgiVars

(* A response that arrived in full, within the limits, is returned whatever *)
(* else arrives: a status frame that denies access does not end the request *)
(* (935-939).                                                               *)
Arrived(r) ==
  \E f \in ToSet(emitted) :
    /\ f.of = r /\ f.part = 1 /\ f.kind # "raw"
    /\ \A p \in 1 .. f.declared : \E g \in ToSet(queue) \cup ToSet(pending) :
         g.frame = f.frame /\ g.part = p
ArrivedIsReturned ==
  \A r \in 1 .. MaxRequests :
    (stage = "reading" /\ requests = r /\ Arrived(r)) ~> stage = "idle"
=============================================================================
