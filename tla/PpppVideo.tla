------------------------------ MODULE PpppVideo ------------------------------
(***************************************************************************)
(* PpppVideoKeyframeAssembler (pppp_video.py): reassembly of one H.264     *)
(* key access unit (AU) from the DRW chunks of the PPPP video channel.     *)
(*                                                                         *)
(* The camera numbers its chunks; a chunk keeps its content when it is     *)
(* retransmitted, so the camera's output is the function stream.  The      *)
(* network may lose, repeat and reorder chunks: Feed takes any index.      *)
(* Only lengths and identity of the bytes matter, so a payload is the      *)
(* sequence of the indices of the chunks whose bodies were concatenated.   *)
(***************************************************************************)
EXTENDS Integers, Sequences

CONSTANTS
  MaxIndex,     (* largest absolute chunk index the camera produces         *)
  MaxAuSize,    (* MAX_VIDEO_AU_SIZE                                        *)
  Streams       (* the outputs of the camera, chunks by index               *)

Index == 0 .. MaxIndex

(* What feed() looks at in a chunk: whether it starts with the boundary     *)
(* magic, whether its 32-byte header is whole, the type and size the header *)
(* declares, and how many bytes it adds to the AU.  "at" is where those     *)
(* bytes begin in the camera's output, so that bytes are told apart.        *)
ChunkType == [boundary : BOOLEAN, whole : BOOLEAN, type : Nat,
              declared : Nat, body : Nat, at : Nat]

ASSUME MaxIndexAssumption == MaxIndex \in Nat
ASSUME MaxAuSizeAssumption == MaxAuSize \in Nat \ {0}
Contiguous(s) ==
  /\ s \in [Index -> ChunkType]
  /\ \A i \in Index : i > 0 => s[i].at = s[i - 1].at + s[i - 1].body

ASSUME StreamsAssumption == \A s \in Streams : Contiguous(s)

(* Python's None, as an index, a frame type and a payload.                  *)
NoIndex   == -1
NoType    == -1
NoPayload == << >>

VARIABLES
  stream,        (* the chunks the camera produced, by absolute index       *)
  latestIndex,   (* _latest_index                                           *)
  nextIndex,     (* _next_index                                             *)
  frameType,     (* _frame_type                                             *)
  declaredSize,  (* _declared_size                                          *)
  receivedSize,  (* _received_size                                          *)
  payload,       (* _payload: chunks whose bodies it holds; NoPayload for a *)
                 (* delta frame, whose bytes are counted and not kept       *)
  outcome        (* what the last feed() did: "none", "error" or "keyframe" *)

VARIABLES
  keyframe,      (* the chunks of the access unit feed() last returned      *)
  since          (* history: no chunk from this index to the newest was     *)
                 (* lost or came too late                                   *)

au   == <<nextIndex, frameType, declaredSize, receivedSize, payload>>
vars == <<stream, latestIndex, au, outcome, keyframe, since>>

Larger(a, b) == IF a < b THEN b ELSE a

-----------------------------------------------------------------------------
Init ==
  /\ stream \in Streams
  /\ latestIndex = -1
  /\ nextIndex = NoIndex
  /\ frameType = NoType
  /\ declaredSize = 0
  /\ receivedSize = 0
  /\ payload = NoPayload
  /\ outcome = "none"
  /\ keyframe = << >>
  /\ since = 0

DropCurrent ==
  /\ nextIndex' = NoIndex
  /\ frameType' = NoType
  /\ declaredSize' = 0
  /\ receivedSize' = 0
  /\ payload' = NoPayload

(* Mutant: a boundary that arrives while a unit is open is mistaken for     *)
(* part of it and ignored.                                                  *)
BoundaryIgnoredInUnit(i) ==
  /\ i > latestIndex
  /\ stream[i].boundary
  /\ latestIndex' = i
  /\ nextIndex' = IF nextIndex = NoIndex THEN NoIndex ELSE i + 1
  /\ outcome' = "none"
  /\ UNCHANGED <<stream, frameType, declaredSize, receivedSize, payload, keyframe>>

(* A chunk that makes the unit unusable: nothing is retained and feed()     *)
(* raises, which ends the capture it serves.                                *)
Reject(i) ==
  /\ latestIndex' = Larger(latestIndex, i)
  /\ DropCurrent
  /\ outcome' = "error"
  /\ UNCHANGED keyframe

(* The unit after a chunk was taken into it: _finish_if_complete() returns  *)
(* a complete key unit, forgets a complete delta unit, or waits for more.   *)
Advance(i, type, declared, received, bytes) ==
  /\ latestIndex' = i
  /\ \/ /\ received # declared
        /\ nextIndex' = i + 1
        /\ frameType' = type
        /\ declaredSize' = declared
        /\ receivedSize' = received
        /\ payload' = bytes
        /\ outcome' = "none"
        /\ UNCHANGED keyframe
     \/ /\ received = declared
        /\ DropCurrent
        /\ \/ /\ type = 0
              /\ outcome' = "keyframe"
              /\ keyframe' = bytes
           \/ /\ type # 0
              /\ outcome' = "none"
              /\ UNCHANGED keyframe

(* Mutant: a retransmitted chunk that is a whole unit is returned again.    *)
OldUnitReturned(i) ==
  /\ i <= latestIndex
  /\ outcome' = "keyframe"
  /\ keyframe' = IF stream[i].boundary THEN <<i>> ELSE keyframe
  /\ UNCHANGED <<stream, latestIndex, au>>

(* A retransmitted or late chunk neither resets nor enlarges the unit.      *)
FeedOld(i) ==
  /\ i <= latestIndex
  /\ outcome' = "none"
  /\ UNCHANGED <<stream, latestIndex, au, keyframe>>

SafeHeader(c) ==
  /\ c.whole
  /\ c.type \in {0, 1}
  /\ 0 < c.declared /\ c.declared <= MaxAuSize
  /\ c.body <= c.declared

(* A boundary drops whatever was in progress and opens its own unit.        *)
FeedBoundary(i) ==
  /\ i > latestIndex
  /\ stream[i].boundary
  /\ \/ /\ ~SafeHeader(stream[i])
        /\ Reject(i)
     \/ /\ SafeHeader(stream[i])
        /\ Advance(i, stream[i].type, stream[i].declared, stream[i].body,
                   IF stream[i].type = 0 THEN <<i>> ELSE NoPayload)
  /\ UNCHANGED stream

(* No unit is open, or a chunk of it went missing: wait for a boundary.     *)
FeedOutOfPlace(i) ==
  /\ i > latestIndex
  /\ ~stream[i].boundary
  /\ i # nextIndex
  /\ latestIndex' = i
  /\ DropCurrent
  /\ outcome' = "none"
  /\ UNCHANGED <<stream, keyframe>>

FeedContinuation(i) ==
  /\ i > latestIndex
  /\ ~stream[i].boundary
  /\ i = nextIndex
  /\ LET received == receivedSize + stream[i].body
     IN  \/ /\ received > declaredSize
            /\ Reject(i)
         \/ /\ received <= declaredSize
            /\ Advance(i, frameType, declaredSize, received,
                       IF frameType = 0 THEN Append(payload, i) ELSE payload)
  /\ UNCHANGED stream

Feed(i) ==
  /\ \/ FeedOld(i)
     \/ FeedBoundary(i)
     \/ FeedOutOfPlace(i)
     \/ FeedContinuation(i)
  /\ since' = IF i > latestIndex + 1 THEN i ELSE since

Next == \E i \in Index : Feed(i)

Spec == Init /\ [][Next]_vars
-----------------------------------------------------------------------------
(***************************************************************************)
(* Properties.                                                             *)
(***************************************************************************)
TypeOK ==
  /\ Contiguous(stream)
  /\ latestIndex \in Index \cup {-1}
  /\ nextIndex \in (1 .. MaxIndex + 1) \cup {NoIndex}
  /\ frameType \in {0, 1, NoType}
  /\ declaredSize \in 0 .. MaxAuSize
  /\ receivedSize \in 0 .. MaxAuSize
  /\ payload \in Seq(Index)
  /\ outcome \in {"none", "error", "keyframe"}
  /\ keyframe \in Seq(Index)

(* The chunks first .. last are consecutive and only the first is a         *)
(* boundary, one whose header is safe to trust.                             *)
OneUnit(first, last) ==
  /\ first \in Index /\ last \in Index /\ first <= last
  /\ stream[first].boundary
  /\ SafeHeader(stream[first])
  /\ \A i \in first + 1 .. last : ~stream[i].boundary

BytesOf(first, last) == stream[last].at + stream[last].body - stream[first].at

Run(first, last) == [k \in 1 .. last - first + 1 |-> first + k - 1]

(* The unit being assembled is a prefix of one access unit of the camera,   *)
(* still short of its declared size: the bytes retained are those of the    *)
(* consecutive chunks from its boundary up to the newest chunk, and a delta *)
(* frame retains none.  Lost, repeated and late chunks (feed, 60-62 and     *)
(* 88-96) never splice two units or grow one past its limit.                *)
OpenUnitIsOneAccessUnit ==
  nextIndex # NoIndex =>
    \E first \in Index :
      /\ OneUnit(first, latestIndex)
      /\ nextIndex = latestIndex + 1
      /\ frameType = stream[first].type
      /\ declaredSize = stream[first].declared
      /\ receivedSize = BytesOf(first, latestIndex)
      /\ receivedSize < declaredSize
      /\ payload = IF frameType = 0 THEN Run(first, latestIndex) ELSE NoPayload
      /\ \A k \in 1 .. Len(keyframe) : keyframe[k] < first

(* What feed() promises its caller: see KeyframeSource.                     *)
Source == INSTANCE KeyframeSource WITH position <- latestIndex
ImplementsKeyframeSource == Source!Spec

(* A complete key unit whose chunks all arrive in order is returned with    *)
(* its last chunk, whatever precedes it: lost chunks, junk, delta frames,   *)
(* an unfinished unit or a rejected one (64-106).                           *)
CompleteKeyUnit(first, last) ==
  /\ OneUnit(first, last)
  /\ stream[first].type = 0
  /\ BytesOf(first, last) = stream[first].declared
  /\ \A i \in first .. last - 1 : BytesOf(first, i) < stream[first].declared

CompleteKeyUnitIsReturned ==
  [][\A first \in Index :
       since' <= first /\ latestIndex < latestIndex' /\ CompleteKeyUnit(first, latestIndex')
       => outcome' = "keyframe" /\ keyframe' = Run(first, latestIndex')]_vars
=============================================================================
