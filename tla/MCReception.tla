----------------------------- MODULE MCReception -----------------------------
(***************************************************************************)
(* What one PPPP session receives, over the two channels handle_drw() tells*)
(* apart: the video chunks of the access units, and the fragments of CGI   *)
(* responses.  The channels share nothing but the network, so a behaviour  *)
(* exercises one of them: the video, the queue and the cache of responses  *)
(* under load, or the frames of responses, without load and with time.     *)
(***************************************************************************)
EXTENDS PpppVideo, CgiReceive

VARIABLE channel     (* which one: "video", "queue" or "frames"             *)

-----------------------------------------------------------------------------
(* A camera whose output is any four chunks out of ten: a key boundary of   *)
(* one, two or three units of size, with one byte or none of its own, a     *)
(* delta boundary, continuations of one and two bytes, and the headers      *)
(* feed() rejects (cut short, unsupported type, empty, beyond MaxAuSize,    *)
(* body larger than declared).                                              *)
MCMaxIndex  == 3
MCMaxAuSize == 3

Header(whole, type, declared, body) ==
  [boundary |-> TRUE, whole |-> whole, type |-> type,
   declared |-> declared, body |-> body, at |-> 0]

Body(n) ==
  [boundary |-> FALSE, whole |-> FALSE, type |-> 0,
   declared |-> 0, body |-> n, at |-> 0]

GoodContents ==
  {Header(TRUE, 0, 1, 1), Header(TRUE, 0, 2, 0), Header(TRUE, 0, 3, 1),
   Header(TRUE, 1, 2, 1), Body(1), Body(2)}

BadContents ==
  {Header(FALSE, 0, 0, 0), Header(TRUE, 2, 2, 1), Header(TRUE, 0, 0, 0),
   Header(TRUE, 0, 4, 1), Header(TRUE, 0, 1, 2)}

(* The contents in a row, each beginning where the one before it ended.     *)
Placed(s) ==
  [i \in 0 .. MCMaxIndex |->
     [s[i] EXCEPT !.at = CASE i = 0 -> 0
                           [] i = 1 -> s[0].body
                           [] i = 2 -> s[0].body + s[1].body
                           [] i = 3 -> s[0].body + s[1].body + s[2].body]]

(* At most one chunk is malformed.                                          *)
MCStreams ==
  {Placed(s) : s \in
     [0 .. MCMaxIndex -> GoodContents] \cup
     {[g EXCEPT ![i] = bad] : g \in [0 .. MCMaxIndex -> GoodContents],
                              i \in 0 .. MCMaxIndex, bad \in BadContents}}

Silence == Placed([i \in 0 .. MCMaxIndex |-> Body(1)])

-----------------------------------------------------------------------------
MCExpected == {"same", Unknown}
Queued     == {"binary", "two", "split", "raw"}

(* No split frame after a truncated one, whose continuation it would pass   *)
(* for: the first fragment of a split frame has no code either.             *)
Framed     == {"denial", "one", "two", "truncated"}

-----------------------------------------------------------------------------
ReceptionInit ==
  /\ channel \in {"video", "queue", "frames"}
  /\ Init /\ CgiInit
  /\ channel # "video" => stream = Silence

(* The frames of a response within the limits, and a request with time to   *)
(* spare: the event loop runs it while it can go on.                        *)
Framing ==
  \/ /\ \E shape \in Framed : Answer(shape) \/ Volunteer(shape)
     /\ Len(emitted') <= MaxFragments /\ Bytes(emitted') <= MaxBytes
  \/ \E i \in DOMAIN emitted : Arrive(emitted[i])
  \/ requests = 0 /\ \E code \in Expected : Send(code)
  \/ Request

ReceptionNext ==
  \/ channel = "video"  /\ Next                            /\ UNCHANGED <<cgiVars, channel>>
  \/ channel = "queue"  /\ CgiNext /\ expected' = Unknown  /\ UNCHANGED <<vars, channel>>
  \/ channel = "frames" /\ Framing                         /\ UNCHANGED <<vars, channel>>

ReceptionSpec ==
  /\ ReceptionInit
  /\ [][ReceptionNext]_<<vars, cgiVars, channel>>
  /\ WF_cgiVars(channel = "frames" /\ Request /\ UNCHANGED <<vars, channel>>)

(* A response that arrived in full, within the limits, is returned whatever *)
(* else arrives, before the deadline: a status frame that denies access     *)
(* does not end the request (transport_aiopppp.py 935-939).                 *)
PatientGetsResponse == channel = "frames" => ArrivedIsReturned
=============================================================================
