--------------------------- MODULE ReceptionProofs ---------------------------
(***************************************************************************)
(* Proofs about what one PPPP session receives: PpppVideo and CgiReceive,  *)
(* for every camera output, every limit and whatever the network does.     *)
(*                                                                         *)
(* PpppVideo: OpenUnitIsOneAccessUnit is inductive together with TypeOK,   *)
(* for a chunk is taken only when it continues the run the payload holds.  *)
(* The refinement follows, a unit being returned exactly when the run fills*)
(* the size its boundary declared.                                         *)
(*                                                                         *)
(* CgiReceive: CgiInv says that what a request waits for is remembered.  A *)
(* fragment the network can still repeat has too few others after it in    *)
(* the cache for making room to take it (NotForgotten); hence whatever is  *)
(* left of an earlier answer is refused, and what waits in the queue is of *)
(* the request in flight.  Bytes counts a set, so that what is evicted,    *)
(* read or left over can be compared with the whole.                       *)
(***************************************************************************)
EXTENDS PpppVideo, CgiReceive, FiniteSetTheorems, SequenceTheorems, TLAPS

-----------------------------------------------------------------------------
(***************************************************************************)
(* The video assembler.                                                    *)
(***************************************************************************)

(* Every chunk and the types the actions read from it.                      *)
LEMMA ChunkTyped ==
  ASSUME Contiguous(stream), NEW i \in Index
  PROVE  /\ stream[i] \in ChunkType
         /\ stream[i].boundary \in BOOLEAN
         /\ stream[i].whole \in BOOLEAN
         /\ stream[i].type \in Nat
         /\ stream[i].declared \in Nat
         /\ stream[i].body \in Nat
         /\ stream[i].at \in Nat
BY DEF Contiguous, ChunkType

(* A run is a sequence of indices.                                          *)
LEMMA RunTyped ==
  ASSUME NEW first \in Index, NEW last \in Index, first <= last
  PROVE  Run(first, last) \in Seq(Index)
<1>1. last - first + 1 \in Nat
  BY MaxIndexAssumption DEF Index
<1>2. \A k \in 1 .. last - first + 1 : first + k - 1 \in Index
  BY MaxIndexAssumption DEF Index
<1> QED
  BY <1>1, <1>2 DEF Run

(* Extending a run by the next index appends it.                            *)
LEMMA RunExtends ==
  ASSUME NEW first \in Index, NEW last \in Index, first <= last,
         last + 1 \in Index
  PROVE  Append(Run(first, last), last + 1) = Run(first, last + 1)
<1>1. Run(first, last) \in Seq(Index)
  BY MaxIndexAssumption DEF Run, Index
<1>2. Len(Run(first, last)) = last - first + 1
  BY MaxIndexAssumption DEF Run, Index
<1>3. Append(Run(first, last), last + 1) \in Seq(Index)
  BY <1>1
<1>4. Run(first, last + 1) \in Seq(Index)
  BY MaxIndexAssumption DEF Run, Index
<1> QED
  BY <1>1, <1>2, <1>3, <1>4, MaxIndexAssumption DEF Run, Index

(* A single chunk is a run of its own.                                      *)
LEMMA RunOfOne ==
  ASSUME NEW i \in Index
  PROVE  <<i>> = Run(i, i)
BY MaxIndexAssumption DEF Run, Index

(* What was returned lies behind the newest chunk.                          *)
KeyframeIsPast == \A k \in 1 .. Len(keyframe) : keyframe[k] <= latestIndex

Inv == TypeOK /\ OpenUnitIsOneAccessUnit /\ KeyframeIsPast

LEMMA InitInv == Init => Inv
BY StreamsAssumption, MaxIndexAssumption, MaxAuSizeAssumption
   DEF Init, Inv, TypeOK, OpenUnitIsOneAccessUnit, KeyframeIsPast, NoIndex, NoType,
       NoPayload, Index

-----------------------------------------------------------------------------
(* The state after a chunk was taken into the unit that begins at first.    *)
LEMMA AdvanceInv ==
  ASSUME Inv, NEW i \in Index, NEW first \in Index,
         i > latestIndex, first <= i, UNCHANGED stream,
         OneUnit(first, i),
         BytesOf(first, i) \in 0 .. stream[first].declared,
         \A k \in 1 .. Len(keyframe) : keyframe[k] < first,
         Advance(i, stream[first].type, stream[first].declared,
                 BytesOf(first, i),
                 IF stream[first].type = 0 THEN Run(first, i) ELSE NoPayload)
  PROVE  Inv'
<1> USE MaxIndexAssumption, MaxAuSizeAssumption
<1>1. /\ stream[first].type \in {0, 1}
      /\ stream[first].declared \in 1 .. MaxAuSize
  BY ChunkTyped DEF OneUnit, SafeHeader, Inv, TypeOK
<1>2. Run(first, i) \in Seq(Index)
  BY RunTyped
<1>3. TypeOK'
  <2>1. BytesOf(first, i) \in 0 .. MaxAuSize
    BY <1>1
  <2>2. /\ i + 1 \in 1 .. MaxIndex + 1
        /\ Contiguous(stream)' /\ latestIndex' \in Index
        /\ NoPayload \in Seq(Index)
    BY DEF Inv, TypeOK, Advance, Contiguous, NoPayload, Index
  <2> QED
    BY <1>1, <1>2, <2>1, <2>2, SMTT(20)
       DEF Inv, TypeOK, Advance, DropCurrent, NoIndex, NoType
<1>4. OpenUnitIsOneAccessUnit'
  <2>1. CASE BytesOf(first, i) # stream[first].declared
    <3>1. /\ OneUnit(first, i)' /\ BytesOf(first, i)' = BytesOf(first, i)
          /\ stream' = stream /\ latestIndex' = i /\ nextIndex' = i + 1
          /\ frameType' = stream[first].type
          /\ declaredSize' = stream[first].declared
          /\ receivedSize' = BytesOf(first, i)
          /\ payload' = IF stream[first].type = 0 THEN Run(first, i) ELSE NoPayload
          /\ keyframe' = keyframe
      BY <2>1 DEF Advance, OneUnit, BytesOf, SafeHeader
    <3>2. BytesOf(first, i) < stream[first].declared
      BY <2>1, <1>1
    <3> QED
      BY <3>1, <3>2 DEF OpenUnitIsOneAccessUnit, Run, OneUnit, BytesOf, SafeHeader
  <2>2. CASE BytesOf(first, i) = stream[first].declared
    BY <2>2 DEF Advance, DropCurrent, OpenUnitIsOneAccessUnit
  <2> QED
    BY <2>1, <2>2
<1>5. KeyframeIsPast'
  <2>1. CASE keyframe' = keyframe
    BY <2>1 DEF Advance, KeyframeIsPast, Inv, TypeOK, Index
  <2>2. CASE keyframe' = Run(first, i)
    BY <2>2 DEF Advance, KeyframeIsPast, Run, Index
  <2> QED
    BY <2>1, <2>2 DEF Advance
<1> QED
  BY <1>3, <1>4, <1>5 DEF Inv

(* A rejected chunk leaves no unit behind.                                  *)
LEMMA RejectInv ==
  ASSUME Inv, NEW i \in Index, i > latestIndex, UNCHANGED stream, Reject(i)
  PROVE  Inv'
<1>1. latestIndex' = i /\ UNCHANGED keyframe
  BY DEF Reject, Larger, Inv, TypeOK, Index
<1>2. TypeOK'
  BY <1>1, MaxAuSizeAssumption
     DEF Inv, TypeOK, Reject, DropCurrent, Contiguous, NoIndex, NoType, NoPayload
<1>3. OpenUnitIsOneAccessUnit'
  BY DEF Reject, DropCurrent, OpenUnitIsOneAccessUnit
<1>4. KeyframeIsPast'
  <2>1. \A k \in 1 .. Len(keyframe) : keyframe[k] \in Index
    BY DEF Inv, TypeOK
  <2> QED
    BY <1>1, <2>1, MaxIndexAssumption DEF Inv, TypeOK, KeyframeIsPast, Index
<1> QED
  BY <1>2, <1>3, <1>4 DEF Inv

(* A chunk that continues the open unit extends its run by one.             *)
LEMMA ContinuationAdvances ==
  ASSUME Inv, NEW i \in Index, FeedContinuation(i),
         receivedSize + stream[i].body <= declaredSize
  PROVE  \E first \in Index :
           /\ first <= i
           /\ OneUnit(first, i)
           /\ BytesOf(first, i) \in 0 .. stream[first].declared
           /\ \A k \in 1 .. Len(keyframe) : keyframe[k] < first
           /\ Advance(i, stream[first].type, stream[first].declared,
                      BytesOf(first, i),
                      IF stream[first].type = 0 THEN Run(first, i) ELSE NoPayload)
<1> USE MaxIndexAssumption, MaxAuSizeAssumption
<1>1. PICK first \in Index :
        /\ OneUnit(first, latestIndex)
        /\ nextIndex = latestIndex + 1
        /\ frameType = stream[first].type
        /\ declaredSize = stream[first].declared
        /\ receivedSize = BytesOf(first, latestIndex)
        /\ receivedSize < declaredSize
        /\ payload = IF frameType = 0 THEN Run(first, latestIndex)
                                      ELSE NoPayload
        /\ \A k \in 1 .. Len(keyframe) : keyframe[k] < first
  BY DEF FeedContinuation, Inv, OpenUnitIsOneAccessUnit, NoIndex, Index
<1>2. i = latestIndex + 1 /\ first <= latestIndex /\ latestIndex \in Index
  BY <1>1 DEF FeedContinuation, OneUnit
<1>3. OneUnit(first, i)
  BY <1>1, <1>2 DEF FeedContinuation, OneUnit, Index
<1>4. BytesOf(first, i) = receivedSize + stream[i].body
  <2>1. stream[i].at = stream[latestIndex].at + stream[latestIndex].body
    BY <1>2 DEF Inv, TypeOK, Contiguous, Index
  <2>2. /\ stream[i].at \in Int /\ stream[i].body \in Int
        /\ stream[latestIndex].at \in Int /\ stream[latestIndex].body \in Int
        /\ stream[first].at \in Int
    BY <1>2, ChunkTyped, SMTT(20) DEF Inv, TypeOK
  <2>3. receivedSize = stream[latestIndex].at + stream[latestIndex].body
                         - stream[first].at
    BY <1>1 DEF BytesOf
  <2> QED
    BY <2>1, <2>2, <2>3 DEF BytesOf
<1>5. BytesOf(first, i) \in 0 .. stream[first].declared
  BY <1>1, <1>4, ChunkTyped DEF Inv, TypeOK
<1>6. Advance(i, stream[first].type, stream[first].declared, BytesOf(first, i),
              IF stream[first].type = 0 THEN Run(first, i) ELSE NoPayload)
  <2>1. Advance(i, frameType, declaredSize, receivedSize + stream[i].body,
                IF frameType = 0 THEN Append(payload, i) ELSE payload)
    BY ChunkTyped DEF FeedContinuation, Inv, TypeOK
  <2>2. (IF frameType = 0 THEN Append(payload, i) ELSE payload)
          = (IF frameType = 0 THEN Run(first, i) ELSE NoPayload)
    BY <1>1, <1>2, RunExtends
  <2> QED
    BY <1>1, <1>4, <2>1, <2>2
<1> QED
  BY <1>1, <1>2, <1>3, <1>5, <1>6

(* Each kind of chunk preserves the invariant.                              *)
LEMMA FeedInv ==
  ASSUME Inv, NEW i \in Index, Feed(i)
  PROVE  Inv'
<1> USE MaxIndexAssumption, MaxAuSizeAssumption
<1>1. CASE FeedOld(i)
  BY <1>1 DEF FeedOld, Inv, TypeOK, au, OpenUnitIsOneAccessUnit,
     KeyframeIsPast, OneUnit, BytesOf, Contiguous, SafeHeader
<1>2. CASE FeedBoundary(i)
  <2>1. CASE ~SafeHeader(stream[i])
    BY <1>2, <2>1, RejectInv DEF FeedBoundary
  <2>2. CASE SafeHeader(stream[i])
    <3>1. stream[i].body = BytesOf(i, i)
      BY ChunkTyped DEF BytesOf, Inv, TypeOK
    <3>2. OneUnit(i, i)
      BY <1>2, <2>2 DEF FeedBoundary, OneUnit, Index
    <3>3. BytesOf(i, i) \in 0 .. stream[i].declared
      BY <2>2, <3>1, ChunkTyped DEF SafeHeader, Inv, TypeOK
    <3>4. \A k \in 1 .. Len(keyframe) : keyframe[k] < i
      BY <1>2 DEF FeedBoundary, Inv, TypeOK, KeyframeIsPast, Index
    <3> QED
      BY <1>2, <2>2, <3>1, <3>2, <3>3, <3>4, RunOfOne, AdvanceInv
         DEF FeedBoundary, Index
  <2> QED
    BY <2>1, <2>2
<1>3. CASE FeedOutOfPlace(i)
  BY <1>3 DEF FeedOutOfPlace, Inv, TypeOK, OpenUnitIsOneAccessUnit,
     KeyframeIsPast, DropCurrent, Contiguous, NoIndex, NoType, NoPayload, Index
<1>4. CASE FeedContinuation(i)
  <2>1. CASE receivedSize + stream[i].body > declaredSize
    <3>1. Reject(i)
      BY <1>4, <2>1, ChunkTyped DEF FeedContinuation, Inv, TypeOK
    <3> QED
      BY <1>4, <3>1, RejectInv DEF FeedContinuation
  <2>2. CASE receivedSize + stream[i].body <= declaredSize
    <3>1. PICK first \in Index :
            /\ first <= i
            /\ OneUnit(first, i)
            /\ BytesOf(first, i) \in 0 .. stream[first].declared
            /\ \A k \in 1 .. Len(keyframe) : keyframe[k] < first
            /\ Advance(i, stream[first].type, stream[first].declared,
                       BytesOf(first, i),
                       IF stream[first].type = 0 THEN Run(first, i) ELSE NoPayload)
      BY <1>4, <2>2, ContinuationAdvances
    <3> QED
      BY <1>4, <3>1, AdvanceInv DEF FeedContinuation
  <2> QED
    BY <2>1, <2>2, ChunkTyped DEF Inv, TypeOK
<1> QED
  BY <1>1, <1>2, <1>3, <1>4 DEF Feed

LEMMA NextInv == Inv /\ [Next]_vars => Inv'
<1> SUFFICES ASSUME Inv, [Next]_vars PROVE Inv'
  OBVIOUS
<1>1. CASE Next
  BY <1>1, FeedInv DEF Next
<1>2. CASE UNCHANGED vars
  BY <1>2 DEF vars, au, Inv, TypeOK, OpenUnitIsOneAccessUnit, KeyframeIsPast,
     OneUnit, BytesOf, Contiguous, SafeHeader
<1> QED
  BY <1>1, <1>2

(* The assembler's fields keep their types, its sizes their bound.          *)
THEOREM TypeCorrect == Spec => []TypeOK
<1>1. Inv => TypeOK
  BY DEF Inv
<1> QED
  BY InitInv, NextInv, <1>1, PTL DEF Spec

(* For every camera output and every loss, repetition and reordering of its *)
(* chunks, feed() retains a prefix of one access unit and nothing else.     *)
THEOREM NeverSplices == Spec => []OpenUnitIsOneAccessUnit
<1>1. Inv => OpenUnitIsOneAccessUnit
  BY DEF Inv
<1> QED
  BY InitInv, NextInv, <1>1, PTL DEF Spec

-----------------------------------------------------------------------------
(* A chunk that adds to a unit either completes a key unit or is skipped.   *)
LEMMA AdvanceImplements ==
  ASSUME Inv, NEW i \in Index, NEW first \in Index,
         i > latestIndex, first <= i, UNCHANGED stream,
         OneUnit(first, i),
         \A k \in 1 .. Len(keyframe) : keyframe[k] < first,
         Advance(i, stream[first].type, stream[first].declared,
                 BytesOf(first, i),
                 IF stream[first].type = 0 THEN Run(first, i) ELSE NoPayload)
  PROVE  Source!Next
<1> USE MaxIndexAssumption, MaxAuSizeAssumption
<1>1. CASE keyframe' = keyframe
  <2>1. Source!Skip
    BY <1>1 DEF Source!Skip, Advance, Inv, TypeOK, Index
  <2> QED
    BY <2>1 DEF Source!Next
<1>2. CASE /\ stream[first].type = 0
           /\ BytesOf(first, i) = stream[first].declared
           /\ keyframe' = Run(first, i)
  <2>1. Source!KeyUnit(first, i)
    BY <1>2, ChunkTyped DEF Source!KeyUnit, OneUnit, BytesOf, SafeHeader, Inv, TypeOK
  <2>2. Source!Deliver(first, i)
    BY <1>2, <2>1 DEF Source!Deliver, Advance, Run, Inv, TypeOK, Index
  <2> QED
    BY <2>2 DEF Source!Next, Source!Index, Index
<1> QED
  BY <1>1, <1>2 DEF Advance

(* Every feed() is a step of KeyframeSource or leaves it alone.             *)
LEMMA FeedImplements ==
  ASSUME Inv, NEW i \in Index, Feed(i)
  PROVE  Source!Next
<1> USE MaxIndexAssumption, MaxAuSizeAssumption
<1>1. ASSUME latestIndex' = i, i > latestIndex, UNCHANGED <<stream, keyframe>>
      PROVE  Source!Next
  BY <1>1 DEF Source!Next, Source!Skip, Inv, TypeOK, Index
<1>2. ASSUME Reject(i), i > latestIndex, UNCHANGED stream
      PROVE  Source!Next
  BY <1>1, <1>2 DEF Reject, Larger, Inv, TypeOK, Index
<1>3. CASE FeedOld(i)
  BY <1>3 DEF FeedOld, Source!Next, Source!Skip, Inv, TypeOK, Index
<1>4. CASE FeedBoundary(i)
  <2>1. CASE ~SafeHeader(stream[i])
    BY <1>2, <1>4, <2>1 DEF FeedBoundary
  <2>2. CASE SafeHeader(stream[i])
    <3>1. stream[i].body = BytesOf(i, i)
      BY ChunkTyped DEF BytesOf, Inv, TypeOK
    <3>2. OneUnit(i, i)
      BY <1>4, <2>2 DEF FeedBoundary, OneUnit, Index
    <3>3. \A k \in 1 .. Len(keyframe) : keyframe[k] < i
      BY <1>4 DEF FeedBoundary, Inv, TypeOK, KeyframeIsPast, Index
    <3> QED
      BY <1>4, <2>2, <3>1, <3>2, <3>3, RunOfOne, AdvanceImplements
         DEF FeedBoundary, Index
  <2> QED
    BY <2>1, <2>2
<1>5. CASE FeedOutOfPlace(i)
  BY <1>1, <1>5 DEF FeedOutOfPlace
<1>6. CASE FeedContinuation(i)
  <2>1. CASE receivedSize + stream[i].body > declaredSize
    <3>1. Reject(i)
      BY <1>6, <2>1, ChunkTyped DEF FeedContinuation, Inv, TypeOK
    <3> QED
      BY <1>2, <1>6, <3>1 DEF FeedContinuation
  <2>2. CASE receivedSize + stream[i].body <= declaredSize
    <3>1. PICK first \in Index :
            /\ first <= i
            /\ OneUnit(first, i)
            /\ \A k \in 1 .. Len(keyframe) : keyframe[k] < first
            /\ Advance(i, stream[first].type, stream[first].declared,
                       BytesOf(first, i),
                       IF stream[first].type = 0 THEN Run(first, i) ELSE NoPayload)
      BY <1>6, <2>2, ContinuationAdvances
    <3> QED
      BY <1>6, <3>1, AdvanceImplements DEF FeedContinuation
  <2> QED
    BY <2>1, <2>2, ChunkTyped DEF Inv, TypeOK
<1> QED
  BY <1>3, <1>4, <1>5, <1>6 DEF Feed

(* What feed() returns is one complete key access unit of the camera, in    *)
(* the camera's order and at most once, whatever the network did.           *)
THEOREM RefinesKeyframeSource == Spec => ImplementsKeyframeSource
<1>1. Init => Source!Init
  BY StreamsAssumption DEF Init, Source!Init, Source!Index, Contiguous, Index
<1>2. Inv /\ [Next]_vars => [Source!Next]_(Source!vars)
  BY FeedImplements DEF Next, vars, Source!vars
<1> QED
  BY <1>1, <1>2, InitInv, NextInv, PTL
     DEF Spec, ImplementsKeyframeSource, Source!Spec

-----------------------------------------------------------------------------
(* Two units that end at the same chunk begin at the same boundary.         *)
LEMMA OneBoundary ==
  ASSUME NEW f \in Index, NEW g \in Index, NEW last \in Index,
         OneUnit(f, last), OneUnit(g, last)
  PROVE  f = g
BY MaxIndexAssumption DEF OneUnit, Index

(* A unit whose chunks have all arrived in order, and that is not complete, *)
(* is open.                                                                 *)
Growing(first, last) ==
  /\ OneUnit(first, last)
  /\ \A i \in first .. last : BytesOf(first, i) < stream[first].declared

InOrderUnitIsOpen ==
  /\ since \in Index
  /\ \A first \in Index :
       since <= first /\ Growing(first, latestIndex) => nextIndex # NoIndex

(* Which unit that is, in terms of the assembler's fields.                  *)
LEMMA OpenUnit ==
  ASSUME Inv, InOrderUnitIsOpen, NEW first \in Index,
         since <= first, Growing(first, latestIndex)
  PROVE  /\ nextIndex = latestIndex + 1
         /\ frameType = stream[first].type
         /\ declaredSize = stream[first].declared
         /\ receivedSize = BytesOf(first, latestIndex)
         /\ payload = IF frameType = 0 THEN Run(first, latestIndex) ELSE NoPayload
<1>1. nextIndex # NoIndex
  BY DEF InOrderUnitIsOpen
<1>2. PICK f \in Index :
        /\ OneUnit(f, latestIndex)
        /\ nextIndex = latestIndex + 1
        /\ frameType = stream[f].type
        /\ declaredSize = stream[f].declared
        /\ receivedSize = BytesOf(f, latestIndex)
        /\ payload = IF frameType = 0 THEN Run(f, latestIndex) ELSE NoPayload
  BY <1>1 DEF Inv, OpenUnitIsOneAccessUnit
<1>3. f = first
  BY <1>2, OneBoundary DEF Growing, OneUnit
<1> QED
  BY <1>2, <1>3

(* A chunk that is not a boundary belongs to a unit that was growing when   *)
(* it arrived, in its turn.                                                 *)
LEMMA ContinuesGrowing ==
  ASSUME Inv, NEW i \in Index, i > latestIndex, Feed(i), UNCHANGED stream,
         ~stream[i].boundary, NEW first \in Index, since' <= first,
         OneUnit(first, i), InOrderUnitIsOpen,
         \A k \in first .. i - 1 : BytesOf(first, k) < stream[first].declared
  PROVE  /\ i = latestIndex + 1 /\ latestIndex \in Index
         /\ since <= first /\ Growing(first, latestIndex)
<1> USE MaxIndexAssumption DEF Index
<1>1. first < i
  BY DEF OneUnit
<1>2. i = latestIndex + 1 /\ since <= first
  BY <1>1 DEF Feed, Inv, TypeOK
<1>3. latestIndex \in Index /\ first <= latestIndex
  BY <1>1, <1>2 DEF Inv, TypeOK
<1>4. OneUnit(first, latestIndex)
  BY <1>2, <1>3 DEF OneUnit
<1> QED
  BY <1>2, <1>3, <1>4 DEF Growing

(* A boundary begins the only unit that ends with it.                       *)
LEMMA BoundaryBegins ==
  ASSUME NEW i \in Index, NEW first \in Index, OneUnit(first, i), stream[i].boundary
  PROVE  first = i
BY MaxIndexAssumption DEF OneUnit, Index

(* What a new chunk that fits in order does to its unit.                    *)
LEMMA InOrderChunkIsTaken ==
  ASSUME Inv, InOrderUnitIsOpen, NEW i \in Index, i > latestIndex, Feed(i),
         NEW first \in Index, since' <= first, OneUnit(first, i),
         BytesOf(first, i) <= stream[first].declared,
         \A k \in first .. i - 1 : BytesOf(first, k) < stream[first].declared
  PROVE  Advance(i, stream[first].type, stream[first].declared, BytesOf(first, i),
                 IF stream[first].type = 0 THEN Run(first, i) ELSE NoPayload)
<1>1. ~FeedOld(i)
  BY MaxIndexAssumption DEF FeedOld, Inv, TypeOK, Index
<1>2. CASE FeedBoundary(i)
  <2>1. first = i
    BY <1>2, BoundaryBegins DEF FeedBoundary
  <2>2. stream[i].body = BytesOf(i, i)
    BY ChunkTyped DEF BytesOf, Inv, TypeOK
  <2> QED
    BY <1>2, <2>1, <2>2, RunOfOne DEF FeedBoundary, OneUnit
<1>3. CASE FeedOutOfPlace(i)
  <2>1. i = latestIndex + 1 /\ since <= first /\ Growing(first, latestIndex)
    BY <1>3, ContinuesGrowing DEF FeedOutOfPlace
  <2>2. i = nextIndex
    BY <2>1, OpenUnit
  <2> QED
    BY <1>3, <2>2 DEF FeedOutOfPlace
<1>4. CASE FeedContinuation(i)
  <2>1. /\ i = latestIndex + 1 /\ latestIndex \in Index
        /\ since <= first /\ Growing(first, latestIndex)
    BY <1>4, ContinuesGrowing DEF FeedContinuation
  <2>2. /\ frameType = stream[first].type /\ declaredSize = stream[first].declared
        /\ receivedSize = BytesOf(first, latestIndex)
        /\ payload = IF frameType = 0 THEN Run(first, latestIndex) ELSE NoPayload
    BY <2>1, OpenUnit
  <2>3. receivedSize + stream[i].body = BytesOf(first, i)
    <3>1. stream[i].at = stream[latestIndex].at + stream[latestIndex].body
      BY <2>1, MaxIndexAssumption DEF Inv, TypeOK, Contiguous, Index
    <3>2. /\ stream[first].at \in Int /\ stream[i].body \in Int
          /\ stream[latestIndex].at \in Int /\ stream[latestIndex].body \in Int
      BY <2>1, ChunkTyped DEF Inv, TypeOK
    <3> QED
      BY <2>2, <3>1, <3>2 DEF BytesOf
  <2>4. Append(Run(first, latestIndex), i) = Run(first, i)
    BY <2>1, RunExtends DEF Growing, OneUnit
  <2>5. BytesOf(first, i) \in Int /\ stream[first].declared \in Int
    BY ChunkTyped DEF BytesOf, Inv, TypeOK
  <2>6. ~(receivedSize + stream[i].body > declaredSize)
    BY <2>2, <2>3, <2>5
  <2>7. Advance(i, frameType, declaredSize, receivedSize + stream[i].body,
                IF frameType = 0 THEN Append(payload, i) ELSE payload)
    BY <1>4, <2>6 DEF FeedContinuation
  <2>8. (IF frameType = 0 THEN Append(payload, i) ELSE payload)
          = (IF stream[first].type = 0 THEN Run(first, i) ELSE NoPayload)
    BY <2>2, <2>4
  <2> QED
    BY <2>2, <2>3, <2>7, <2>8
<1> QED
  BY <1>1, <1>2, <1>3, <1>4 DEF Feed

LEMMA InOrderInit == Init => InOrderUnitIsOpen
BY MaxIndexAssumption DEF Init, InOrderUnitIsOpen, Growing, OneUnit, Index

LEMMA InOrderNext == Inv /\ InOrderUnitIsOpen /\ [Next]_vars => InOrderUnitIsOpen'
<1> SUFFICES ASSUME Inv, InOrderUnitIsOpen, [Next]_vars PROVE InOrderUnitIsOpen'
  OBVIOUS
<1>1. CASE UNCHANGED vars
  BY <1>1 DEF vars, au, InOrderUnitIsOpen, Growing, OneUnit, BytesOf, SafeHeader
<1>2. ASSUME NEW i \in Index, Feed(i)
      PROVE  InOrderUnitIsOpen'
  <2>1. since' \in Index /\ stream' = stream
    BY <1>2 DEF Feed, FeedOld, FeedBoundary, FeedOutOfPlace, FeedContinuation,
       InOrderUnitIsOpen
  <2>2. CASE i <= latestIndex
    <3>1. FeedOld(i) /\ since' = since
      BY <1>2, <2>2, MaxIndexAssumption
         DEF Feed, FeedBoundary, FeedOutOfPlace, FeedContinuation, Inv, TypeOK, Index
    <3> QED
      BY <3>1 DEF FeedOld, au, InOrderUnitIsOpen, Growing, OneUnit, BytesOf, SafeHeader
  <2>3. CASE i > latestIndex
    <3>1. latestIndex' = i
      BY <1>2, <2>3, MaxIndexAssumption
         DEF Feed, FeedOld, FeedBoundary, FeedOutOfPlace, FeedContinuation, Advance,
             Reject, Larger, Inv, TypeOK, Index
    <3>2. ASSUME NEW first \in Index, since' <= first, Growing(first, i)
          PROVE  nextIndex' # NoIndex
      <4>1. /\ BytesOf(first, i) \in Int /\ stream[first].declared \in Int
            /\ BytesOf(first, i) < stream[first].declared
        BY <3>2, ChunkTyped, MaxIndexAssumption, SMTT(20)
           DEF Growing, OneUnit, BytesOf, Inv, TypeOK, Index
      <4>2. \A k \in first .. i - 1 : BytesOf(first, k) < stream[first].declared
        BY <3>2, MaxIndexAssumption DEF Growing, Index
      <4>3. Advance(i, stream[first].type, stream[first].declared, BytesOf(first, i),
                    IF stream[first].type = 0 THEN Run(first, i) ELSE NoPayload)
        BY <1>2, <2>3, <3>2, <4>1, <4>2, InOrderChunkIsTaken DEF Growing
      <4> QED
        BY <4>1, <4>3, MaxIndexAssumption DEF Advance, NoIndex, Index
    <3>3. \A first \in Index : Growing(first, latestIndex)' <=> Growing(first, i)
      BY <2>1, <3>1 DEF Growing, OneUnit, BytesOf, SafeHeader
    <3> QED
      BY <2>1, <3>2, <3>3 DEF InOrderUnitIsOpen
  <2> QED
    BY <2>2, <2>3, MaxIndexAssumption DEF Inv, TypeOK, Index
<1> QED
  BY <1>1, <1>2 DEF Next

(* Whatever was lost, late or malformed before it, a complete key unit      *)
(* whose own chunks arrive in order is returned with its last chunk.        *)
THEOREM ReturnsCompleteKeyUnits == Spec => CompleteKeyUnitIsReturned
<1>1. ASSUME Inv, InOrderUnitIsOpen, [Next]_vars, NEW first \in Index,
             since' <= first, latestIndex < latestIndex',
             CompleteKeyUnit(first, latestIndex')
      PROVE  outcome' = "keyframe" /\ keyframe' = Run(first, latestIndex')
  <2>1. PICK i \in Index : Feed(i)
    BY <1>1, MaxIndexAssumption DEF Next, vars, Inv, TypeOK, Index
  <2>2. latestIndex' = i /\ i > latestIndex
    BY <1>1, <2>1, MaxIndexAssumption
       DEF Feed, FeedOld, FeedBoundary, FeedOutOfPlace, FeedContinuation, Advance,
           Reject, Larger, Inv, TypeOK, Index
  <2>3. BytesOf(first, i) <= stream[first].declared
    BY <1>1, <2>2, ChunkTyped DEF CompleteKeyUnit, Inv, TypeOK
  <2>4. Advance(i, 0, stream[first].declared, stream[first].declared, Run(first, i))
    BY <1>1, <2>1, <2>2, <2>3, InOrderChunkIsTaken DEF CompleteKeyUnit
  <2> QED
    BY <2>2, <2>4 DEF Advance
<1>2. Inv /\ InOrderUnitIsOpen /\ [Next]_vars =>
        [\A first \in Index :
           since' <= first /\ latestIndex < latestIndex'
             /\ CompleteKeyUnit(first, latestIndex')
           => outcome' = "keyframe" /\ keyframe' = Run(first, latestIndex')]_vars
  BY <1>1
<1> QED
  BY <1>2, InitInv, NextInv, InOrderInit, InOrderNext, PTL
     DEF Spec, CompleteKeyUnitIsReturned

-----------------------------------------------------------------------------
(***************************************************************************)
(* The reception of CGI responses.                                         *)
(***************************************************************************)

(* A set of numbers has a least one.                                        *)
LEMMA LeastIsThere ==
  ASSUME NEW S, S \subseteq Nat, S # {}
  PROVE  \E n \in S : \A k \in S : n <= k
<1>1. \E n \in S : \A k \in S : <<k, n>> \notin OpToRel(<, Nat)
  BY NatLessThanWellFounded, WFMin, Zenon
<1>2. PICK n \in S : \A k \in S : <<k, n>> \notin OpToRel(<, Nat)
  BY <1>1
<1>3. \A k \in S : ~(k < n)
  BY <1>2, Zenon DEF OpToRel
<1> QED
  BY <1>3

LEMMA LeastIsMin ==
  ASSUME NEW S, S \subseteq Nat, S # {}
  PROVE  Min(S) \in S /\ \A k \in S : Min(S) <= k
<1>1. \E n \in S : \A k \in S : n <= k
  BY LeastIsThere
<1> QED
  BY <1>1 DEF Min

(* The indices of a camera that emits no more than IndexSpace fragments.    *)
LEMMA IndexOf ==
  ASSUME NEW i \in 1 .. IndexSpace
  PROVE  /\ i <= 2 => (IndexSpace - 3 + i) % IndexSpace =
                        IF IndexSpace = 1 THEN 0 ELSE IndexSpace - 3 + i
         /\ i > 2 => (IndexSpace - 3 + i) % IndexSpace = i - 3
<1>1. IndexSpace \in Nat \ {0}
  BY LimitsAssumption
<1>2. CASE i <= 2 /\ IndexSpace > 1
  BY <1>1, <1>2
<1>3. CASE i > 2
  BY <1>1, <1>3
<1>4. CASE IndexSpace = 1
  BY <1>4
<1> QED
  BY <1>1, <1>2, <1>3, <1>4

-----------------------------------------------------------------------------
LEMMA IntervalSize ==
  ASSUME NEW n \in Nat
  PROVE  IsFiniteSet(1 .. n) /\ Cardinality(1 .. n) = n
<1>1. n \in Int /\ 1 \in Int
  OBVIOUS
<1>2. IsFiniteSet(1 .. n) /\ Cardinality(1 .. n) = IF 1 > n THEN 0 ELSE n - 1 + 1
  BY <1>1, FS_Interval
<1>3. (IF 1 > n THEN 0 ELSE n - 1 + 1) = n
  OBVIOUS
<1> QED
  BY <1>2, <1>3

(* What Bytes counts.                                                       *)
Places(s) == {b \in (DOMAIN s) \X (1 .. First) : b[2] <= s[b[1]].size}

LEMMA SizeTyped ==
  ASSUME NEW s \in Seq(Fragment), NEW i \in DOMAIN s
  PROVE  s[i] \in Fragment /\ s[i].size \in 1 .. First
<1>1. s[i] \in Fragment
  OBVIOUS
<1> QED
  BY <1>1 DEF Fragment, First, Later

LEMMA PlacesFinite ==
  ASSUME NEW s \in Seq(Fragment)
  PROVE  /\ IsFiniteSet(Places(s))
         /\ Bytes(s) = Cardinality(Places(s))
         /\ Bytes(s) \in Nat
         /\ Bytes(s) <= First * Len(s)
<1>1. /\ IsFiniteSet(1 .. Len(s)) /\ Cardinality(1 .. Len(s)) = Len(s)
      /\ IsFiniteSet(1 .. First) /\ Cardinality(1 .. First) = First
  <2>1. Len(s) \in Nat /\ First \in Nat
    BY DEF First
  <2> QED
    BY <2>1, IntervalSize
<1>2. DOMAIN s = 1 .. Len(s)
  OBVIOUS
<1> DEFINE P == (1 .. Len(s)) \X (1 .. First)
<1>3. IsFiniteSet(P) /\ Cardinality(P) = Len(s) * First
  <2> DEFINE A == 1 .. Len(s)
             B == 1 .. First
  <2>1. /\ IsFiniteSet(A) /\ Cardinality(A) = Len(s)
        /\ IsFiniteSet(B) /\ Cardinality(B) = First
    BY <1>1
  <2> HIDE DEF A, B
  <2>2. IsFiniteSet(A \X B) /\ Cardinality(A \X B) = Cardinality(A) * Cardinality(B)
    BY <2>1, FS_Product
  <2>3. IsFiniteSet(A \X B) /\ Cardinality(A \X B) = Len(s) * First
    BY <2>1, <2>2
  <2> QED
    BY <2>3 DEF A, B
<1>4. Places(s) \in SUBSET P
  BY <1>2 DEF Places
<1> HIDE DEF P
<1>5. IsFiniteSet(Places(s)) /\ Cardinality(Places(s)) <= Cardinality(P)
  BY <1>3, <1>4, FS_Subset
<1>6. Cardinality(Places(s)) \in Nat
  BY <1>5, FS_CardinalityType
<1> QED
  BY <1>3, <1>5, <1>6 DEF Places, Bytes, First

LEMMA BytesOfNothing == Bytes(<< >>) = 0
<1>1. Places(<< >>) = {}
  BY DEF Places
<1> QED
  BY <1>1, FS_EmptySet DEF Bytes, Places

(* A column of places: those of one fragment.                               *)
LEMMA ColumnSize ==
  ASSUME NEW i, NEW n \in 1 .. First
  PROVE  IsFiniteSet({i} \X (1 .. n)) /\ Cardinality({i} \X (1 .. n)) = n
<1>1. n \in Nat
  BY DEF First
<1>2. IsFiniteSet({i}) /\ Cardinality({i}) = 1
  BY FS_Singleton
<1>3. IsFiniteSet(1 .. n) /\ Cardinality(1 .. n) = n
  BY <1>1, IntervalSize
<1>4. IsFiniteSet({i} \X (1 .. n)) /\ Cardinality({i} \X (1 .. n)) = 1 * n
  <2> DEFINE A == {i}
             B == 1 .. n
  <2>1. IsFiniteSet(A) /\ IsFiniteSet(B) /\ Cardinality(A) = 1 /\ Cardinality(B) = n
    BY <1>2, <1>3
  <2> HIDE DEF A, B
  <2>2. IsFiniteSet(A \X B) /\ Cardinality(A \X B) = Cardinality(A) * Cardinality(B)
    BY <2>1, FS_Product
  <2>3. IsFiniteSet(A \X B) /\ Cardinality(A \X B) = 1 * n
    BY <2>1, <2>2
  <2> QED
    BY <2>3 DEF A, B
<1> QED
  BY <1>1, <1>4

LEMMA BytesOfAppend ==
  ASSUME NEW s \in Seq(Fragment), NEW f \in Fragment
  PROVE  /\ Append(s, f) \in Seq(Fragment)
         /\ Bytes(Append(s, f)) = Bytes(s) + f.size
<1> DEFINE t == Append(s, f)
           c == {Len(s) + 1} \X (1 .. f.size)
<1>1. t \in Seq(Fragment) /\ Len(t) = Len(s) + 1 /\ Len(s) \in Nat
  OBVIOUS
<1>2. f.size \in 1 .. First
  BY DEF Fragment, First, Later
<1>3. /\ t[Len(s) + 1] = f
      /\ \A i \in 1 .. Len(s) : t[i] = s[i]
  OBVIOUS
<1>4. DOMAIN t = (DOMAIN s) \cup {Len(s) + 1} /\ DOMAIN s = 1 .. Len(s)
  BY <1>1
<1> HIDE DEF t
<1>5. Places(t) = Places(s) \cup c
  <2>1. ASSUME NEW b \in Places(t) PROVE b \in Places(s) \cup c
    BY <1>2, <1>3, <1>4, <2>1 DEF Places, First
  <2>2. ASSUME NEW b \in Places(s) PROVE b \in Places(t)
    BY <1>3, <1>4, <2>2 DEF Places
  <2>3. ASSUME NEW b \in c PROVE b \in Places(t)
    BY <1>2, <1>3, <1>4, <2>3 DEF Places, First
  <2> QED
    BY <2>1, <2>2, <2>3
<1>6. Places(s) \cap c = {}
  BY <1>4 DEF Places
<1>7. IsFiniteSet(c) /\ Cardinality(c) = f.size
  BY <1>2, ColumnSize
<1>8. IsFiniteSet(Places(s)) /\ Bytes(s) = Cardinality(Places(s)) /\ Bytes(s) \in Nat
  BY PlacesFinite
<1> HIDE DEF c
<1>9. Cardinality(Places(t)) = Cardinality(Places(s)) + Cardinality(c) - Cardinality({})
  BY <1>5, <1>6, <1>7, <1>8, FS_Union
<1>10. Bytes(t) = Cardinality(Places(t))
  BY <1>1, PlacesFinite
<1>11. Bytes(t) = Bytes(s) + f.size
  BY <1>2, <1>7, <1>8, <1>9, <1>10, FS_EmptySet DEF First
<1> QED
  BY <1>1, <1>11 DEF t

LEMMA BytesOfTail ==
  ASSUME NEW s \in Seq(Fragment), s # << >>
  PROVE  /\ Head(s) \in Fragment /\ Tail(s) \in Seq(Fragment)
         /\ Bytes(Tail(s)) = Bytes(s) - Head(s).size
<1> DEFINE t == Tail(s)
           c == {1} \X (1 .. s[1].size)
           r == Places(s) \ c
           shift == [b \in Places(t) |-> <<b[1] + 1, b[2]>>]
<1>1. /\ Head(s) \in Fragment /\ t \in Seq(Fragment)
      /\ Head(s) = s[1] /\ Len(t) = Len(s) - 1 /\ Len(s) \in Nat \ {0}
  OBVIOUS
<1>2. s[1].size \in 1 .. First
  BY <1>1, SizeTyped
<1>3. DOMAIN s = 1 .. Len(s) /\ DOMAIN t = 1 .. Len(s) - 1
  BY <1>1
<1>4. \A i \in 1 .. Len(s) - 1 : t[i] = s[i + 1]
  OBVIOUS
<1> HIDE DEF t
<1>5. c \subseteq Places(s)
  BY <1>1, <1>2, <1>3 DEF Places, First
<1>6. IsFiniteSet(c) /\ Cardinality(c) = s[1].size
  BY <1>2, ColumnSize
<1>7. IsFiniteSet(Places(s)) /\ Bytes(s) = Cardinality(Places(s)) /\ Bytes(s) \in Nat
  BY PlacesFinite
<1>8. shift \in Bijection(Places(t), r)
  <2>1. \A b \in Places(t) : shift[b] \in r
    BY <1>1, <1>3, <1>4 DEF Places
  <2>2. \A a, b \in Places(t) : shift[a] = shift[b] => a = b
    BY <1>3 DEF Places
  <2>3. ASSUME NEW q \in r PROVE \E b \in Places(t) : shift[b] = q
    <3>1. /\ q \in (1 .. Len(s)) \X (1 .. First) /\ q[2] <= s[q[1]].size
          /\ ~(q[1] = 1 /\ q[2] \in 1 .. s[1].size)
      BY <1>3, <2>3 DEF Places
    <3>2. q[1] \in 2 .. Len(s) /\ q[2] \in 1 .. First
      BY <1>1, <1>2, <3>1 DEF First
    <3>3. <<q[1] - 1, q[2]>> \in Places(t)
      BY <1>1, <1>3, <1>4, <3>1, <3>2 DEF Places
    <3>4. shift[<<q[1] - 1, q[2]>>] = <<q[1], q[2]>>
      BY <3>2, <3>3
    <3>5. q = <<q[1], q[2]>>
      BY <3>1
    <3> QED
      BY <3>3, <3>4, <3>5
  <2> QED
    BY <2>1, <2>2, <2>3 DEF Bijection, Injection, Surjection, IsInjective
<1> HIDE DEF c, shift
<1>9. IsFiniteSet(Places(t)) /\ Bytes(t) = Cardinality(Places(t))
  BY <1>1, PlacesFinite
<1>10. Cardinality(r) = Cardinality(Places(t))
  <2>1. ExistsBijection(Places(t), r)
    BY <1>8 DEF ExistsBijection
  <2> QED
    BY <1>9, <2>1, FS_Bijection
<1>11. Cardinality(r) = Cardinality(Places(s)) - Cardinality(Places(s) \cap c)
  BY <1>7, FS_Difference
<1>12. Places(s) \cap c = c
  BY <1>5
<1> QED
  BY <1>1, <1>6, <1>7, <1>9, <1>10, <1>11, <1>12 DEF t

-----------------------------------------------------------------------------
(* The n-th of a set of places is there.                                    *)
LEMMA Ranked ==
  ASSUME NEW m \in Nat, NEW places \in SUBSET (1 .. m),
         NEW n \in 1 .. Cardinality(places)
  PROVE  \E i \in places : Cardinality({k \in places : k <= i}) = n
<1> DEFINE upTo(i) == {k \in places : k <= i}
           rank == [i \in places |-> Cardinality(upTo(i))]
           total == Cardinality(places)
<1>1. IsFiniteSet(places) /\ total \in Nat
  <2>1. IsFiniteSet(1 .. m)
    BY FS_Interval
  <2> QED
    BY <2>1, FS_Subset, FS_CardinalityType
<1>2. \A i \in places : IsFiniteSet(upTo(i)) /\ Cardinality(upTo(i)) \in Nat
                        /\ Cardinality(upTo(i)) <= total
  <2> TAKE i \in places
  <2>1. upTo(i) \in SUBSET places
    OBVIOUS
  <2> HIDE DEF upTo, total
  <2> QED
    BY <1>1, <2>1, FS_Subset, FS_CardinalityType DEF total
<1>3. \A i \in places : Cardinality(upTo(i)) # 0
  BY <1>2, FS_EmptySet
<1>4. rank \in [places -> 1 .. total]
  BY <1>1, <1>2, <1>3
<1>5. ASSUME NEW i \in places, NEW j \in places, i < j
      PROVE  rank[i] # rank[j]
  <2>1. upTo(i) \in SUBSET upTo(j) /\ j \in upTo(j) /\ j \notin upTo(i)
    <3>1. i \in Nat /\ j \in Nat /\ \A k \in places : k \in Nat
      OBVIOUS
    <3>2. ASSUME NEW k \in upTo(i) PROVE k \in upTo(j)
      BY <1>5, <3>1, <3>2
    <3>3. j \in upTo(j) /\ j \notin upTo(i)
      BY <1>5, <3>1
    <3> QED
      BY <3>2, <3>3
  <2>2. IsFiniteSet(upTo(j))
    BY <1>2
  <2>3. rank[i] = Cardinality(upTo(i)) /\ rank[j] = Cardinality(upTo(j))
    OBVIOUS
  <2> HIDE DEF upTo, rank
  <2>4. Cardinality(upTo(j)) # Cardinality(upTo(i))
    BY <2>1, <2>2, FS_Subset
  <2> QED
    BY <2>3, <2>4
<1>6. rank \in Injection(places, 1 .. total)
  <2>1. \A i, j \in places : rank[i] = rank[j] => i = j
    BY <1>5
  <2> QED
    BY <1>4, <2>1 DEF Injection, IsInjective
<1>7. IsFiniteSet(1 .. total) /\ Cardinality(1 .. total) = total
  BY <1>1, IntervalSize
<1> HIDE DEF rank
<1>8. rank \in Surjection(places, 1 .. total)
  BY <1>6, <1>7, FS_Injection
<1>9. PICK i \in places : rank[i] = n
  BY <1>8 DEF Surjection
<1> QED
  BY <1>9 DEF rank

(* Keeping some of the places keeps their fragments, and takes no more room.*)
LEMMA Kept ==
  ASSUME NEW s \in Seq(Fragment), NEW places \in SUBSET (DOMAIN s)
  PROVE  /\ At(s, places) \in Seq(Fragment)
         /\ ToSet(At(s, places)) \subseteq ToSet(s)
         /\ Len(At(s, places)) <= Len(s)
         /\ Bytes(At(s, places)) <= Bytes(s)
<1> DEFINE total == Cardinality(places)
           at == [n \in 1 .. total |->
                    CHOOSE i \in places : Cardinality({k \in places : k <= i}) = n]
           t == At(s, places)
<1>1. Len(s) \in Nat /\ DOMAIN s = 1 .. Len(s)
  OBVIOUS
<1>2. IsFiniteSet(places) /\ total \in Nat /\ total <= Len(s)
  <2>1. IsFiniteSet(1 .. Len(s)) /\ Cardinality(1 .. Len(s)) = Len(s)
    BY <1>1, IntervalSize
  <2> QED
    BY <1>1, <2>1, FS_Subset, FS_CardinalityType
<1>3. \A n \in 1 .. total : /\ at[n] \in places
                            /\ Cardinality({k \in places : k <= at[n]}) = n
  <2> TAKE n \in 1 .. total
  <2>1. \E i \in places : Cardinality({k \in places : k <= i}) = n
    BY <1>1, Ranked
  <2> QED
    BY <2>1, Zenon
<1>4. t = [n \in 1 .. total |-> s[at[n]]]
  BY DEF At
<1> HIDE DEF at, t
<1>5. \A n \in 1 .. total : t[n] = s[at[n]] /\ at[n] \in DOMAIN s /\ s[at[n]] \in Fragment
  <2> TAKE n \in 1 .. total
  <2>1. t[n] = s[at[n]]
    BY <1>4
  <2>2. at[n] \in DOMAIN s
    BY <1>3
  <2> QED
    BY <2>1, <2>2
<1>6. t \in Seq(Fragment) /\ Len(t) = total /\ DOMAIN t = 1 .. total
  <2> HIDE DEF total
  <2>1. t = [n \in 1 .. total |-> t[n]]
    BY <1>4
  <2>2. t \in [1 .. total -> Fragment]
    BY <1>5, <2>1
  <2> QED
    BY <1>2, <2>2
<1>7. ToSet(t) \subseteq ToSet(s)
  BY <1>6, <1>5 DEF ToSet
<1> DEFINE move == [b \in Places(t) |-> <<at[b[1]], b[2]>>]
<1>8. move \in Injection(Places(t), Places(s))
  <2>1. \A b \in Places(t) : move[b] \in Places(s)
    BY <1>6, <1>5 DEF Places
  <2>2. \A a, b \in Places(t) : move[a] = move[b] => a = b
    <3> TAKE a, b \in Places(t)
    <3> HAVE move[a] = move[b]
    <3>1. at[a[1]] = at[b[1]] /\ a[2] = b[2]
      OBVIOUS
    <3>2. a[1] \in 1 .. total /\ b[1] \in 1 .. total /\ a = <<a[1], a[2]>> /\ b = <<b[1], b[2]>>
      BY <1>6 DEF Places
    <3>3. a[1] = b[1]
      <4>1. /\ Cardinality({k \in places : k <= at[a[1]]}) = a[1]
            /\ Cardinality({k \in places : k <= at[b[1]]}) = b[1]
        BY <1>3, <3>2
      <4> QED
        BY <3>1, <4>1
    <3> QED
      BY <3>1, <3>2, <3>3
  <2> QED
    BY <2>1, <2>2 DEF Injection, IsInjective
<1> HIDE DEF move
<1>9. IsFiniteSet(Places(s)) /\ Bytes(s) = Cardinality(Places(s))
  BY PlacesFinite
<1>10. Cardinality(Places(t)) <= Cardinality(Places(s))
  BY <1>8, <1>9, FS_Injection
<1>11. Bytes(t) = Cardinality(Places(t))
  BY <1>6, PlacesFinite
<1> QED
  BY <1>2, <1>6, <1>7, <1>9, <1>10, <1>11 DEF t

(* What makes room is the shortest head that does.                          *)
LEMMA RoomIsMade ==
  ASSUME NEW s \in Seq(Fragment), NEW f \in Fragment
  PROVE  \E n \in 0 .. Len(s) :
           LET tail(k) == SubSeq(s, k + 1, Len(s))
               fits(k) == Len(tail(k)) < MaxFragments /\ Bytes(tail(k)) + f.size <= MaxBytes
           IN  RoomFor(f, s) = tail(n) /\ fits(n) /\ \A k \in 0 .. n - 1 : ~fits(k)
<1> DEFINE tail(k) == SubSeq(s, k + 1, Len(s))
           fits(k) == Len(tail(k)) < MaxFragments /\ Bytes(tail(k)) + f.size <= MaxBytes
           S == {k \in 0 .. Len(s) : fits(k)}
           P(n) == fits(n) /\ \A k \in 0 .. n - 1 : ~fits(k)
<1>1. Len(s) \in Nat
  OBVIOUS
<1>2. fits(Len(s))
  <2>1. tail(Len(s)) = << >> /\ Len(tail(Len(s))) = 0
    BY <1>1
  <2>2. MaxFragments \in Nat \ {0} /\ MaxBytes \in Nat
    BY LimitsAssumption
  <2>3. MaxBytes >= First
    <3>1. Window \in Nat /\ Window >= 1 /\ (2 * Window - 1) * First <= MaxBytes
      BY WindowAssumption
    <3> QED
      BY <2>2, <3>1 DEF First
  <2>4. f.size \in 1 .. First
    BY DEF Fragment, First, Later
  <2>5. Bytes(tail(Len(s))) = 0
    BY <2>1, BytesOfNothing
  <2> HIDE DEF tail
  <2> QED
    BY <2>1, <2>2, <2>3, <2>4, <2>5 DEF First
<1> HIDE DEF fits
<1>3. S \subseteq Nat /\ S # {}
  BY <1>1, <1>2
<1>4. PICK n \in S : \A k \in S : n <= k
  BY <1>3, LeastIsThere
<1>5. n \in 0 .. Len(s) /\ P(n)
  BY <1>1, <1>4
<1>6. RoomFor(f, s) = tail(CHOOSE k \in 0 .. Len(s) : P(k))
  BY DEF RoomFor, fits
<1> DEFINE c == CHOOSE k \in 0 .. Len(s) : P(k)
<1>7. c \in 0 .. Len(s) /\ P(c)
  BY <1>5, Zenon
<1> HIDE DEF c, P
<1>8. RoomFor(f, s) = tail(c)
  BY <1>6 DEF c
<1> QED
  BY <1>7, <1>8, Zenon DEF fits, P

(* What is kept is a tail that leaves room.                                 *)
LEMMA RoomTyped ==
  ASSUME NEW s \in Seq(Fragment), NEW f \in Fragment
  PROVE  /\ RoomFor(f, s) \in Seq(Fragment)
         /\ ToSet(RoomFor(f, s)) \subseteq ToSet(s)
         /\ Len(RoomFor(f, s)) < MaxFragments
         /\ Bytes(RoomFor(f, s)) + f.size <= MaxBytes
<1>1. PICK n \in 0 .. Len(s) :
        /\ RoomFor(f, s) = SubSeq(s, n + 1, Len(s))
        /\ Len(RoomFor(f, s)) < MaxFragments
        /\ Bytes(RoomFor(f, s)) + f.size <= MaxBytes
  BY RoomIsMade
<1> DEFINE t == SubSeq(s, n + 1, Len(s))
<1>2. /\ Len(s) \in Nat /\ DOMAIN s = 1 .. Len(s)
      /\ t \in Seq(Fragment) /\ Len(t) = Len(s) - n
      /\ \A i \in 1 .. Len(s) - n : t[i] = s[n + i]
  OBVIOUS
<1> HIDE DEF t
<1>3. DOMAIN t = 1 .. Len(s) - n
  BY <1>2
<1>4. ToSet(t) \subseteq ToSet(s)
  BY <1>2, <1>3 DEF ToSet
<1> QED
  BY <1>1, <1>2, <1>4 DEF t

-----------------------------------------------------------------------------
(***************************************************************************)
(* The invariant.                                                          *)
(***************************************************************************)
CgiSeqs ==
  /\ emitted \in Seq(Fragment) /\ response \in Seq(Fragment)
  /\ queue \in Seq(Fragment) /\ recent \in Seq(Fragment) /\ pending \in Seq(Fragment)

(* The camera numbers its fragments, and a frame's first part announces the *)
(* second, which follows it unless the frame is cut short.                  *)
EmittedInv ==
  /\ Len(emitted) <= MaxEmitted
  /\ \A i \in DOMAIN emitted :
       /\ emitted[i].serial = i
       /\ emitted[i].index = (IndexSpace - 3 + i) % IndexSpace
       /\ emitted[i].part \in 1 .. 2 /\ emitted[i].declared \in 1 .. 2
       /\ emitted[i].frame = i + 1 - emitted[i].part
       /\ emitted[i].kind = "binary" => emitted[i].part = 1 /\ emitted[i].declared = 1
       /\ emitted[i].code # "none"

FramesInv ==
  \A i \in DOMAIN emitted :
    /\ emitted[i].part = 2 =>
         /\ i - 1 \in DOMAIN emitted /\ emitted[i - 1].part = 1
         /\ emitted[i].kind = "cgi" /\ emitted[i - 1].kind = "cgi"
         /\ emitted[i].declared = 2 /\ emitted[i - 1].declared = 2
    /\ emitted[i].part = 1 /\ emitted[i].declared = 2 =>
         \/ i + 1 \in DOMAIN emitted /\ emitted[i + 1].part = 2
         \/ "truncated" \in Shapes
    /\ emitted[i].part = 1 /\ CommandCode(emitted[i]) = "none" =>
         Shapes \cap {"split", "raw"} # {}

(* A request is answered by one frame, with the code it expects; what was   *)
(* not asked for is a status.                                               *)
AnswersInv ==
  /\ stage # "idle" => requests # 0
  /\ \A i \in DOMAIN emitted :
       /\ emitted[i].of \in answered \cup {0}
       /\ emitted[i].of = 0 => emitted[i].code \in Unsolicited
       /\ emitted[i].of = requests =>
            emitted[i].code \in Unsolicited
            \/ emitted[i].code = IF expected = Unknown THEN "other" ELSE expected
       /\ \A j \in DOMAIN emitted :
            emitted[i].of = emitted[j].of /\ emitted[i].of # 0 =>
              emitted[i].frame = emitted[j].frame

(* The network has nothing more of f to deliver.                            *)
Gone(f) == f \in ToSet(recent) \/ f.serial + Window <= Len(emitted)

(* Everything received is what the camera sent, and is remembered as long   *)
(* as the network may repeat it.                                            *)
ReceivedInv ==
  /\ \A f \in ToSet(recent) : f \in ToSet(emitted)
  /\ \A f \in ToSet(queue) \cup ToSet(pending) : f \in ToSet(emitted) /\ Gone(f)

(* Nothing arrives Window fragments after one that followed it.             *)
RecentInv ==
  \A i, j \in DOMAIN recent :
    i < j => /\ recent[i] # recent[j]
             /\ recent[i].serial < recent[j].serial + Window

(* A request that returned took its answer with it; what waits is of the    *)
(* request in flight.                                                       *)
OwnInv ==
  /\ \A f \in ToSet(emitted) :
       f.code \notin Unsolicited /\ (f.of # requests \/ stage = "idle") => Gone(f)
  /\ \A f \in ToSet(queue) \cup ToSet(pending) :
       f.code \notin Unsolicited => f.of = requests

OverflowInv == discarded => overflowed

CgiInv ==
  /\ CountersExact /\ CgiSeqs /\ EmittedInv /\ FramesInv /\ AnswersInv
  /\ ReceivedInv /\ RecentInv /\ OwnInv /\ OverflowInv

-----------------------------------------------------------------------------
(* The camera.                                                              *)
LEMMA FrameTyped ==
  ASSUME NEW shape \in DOMAIN Frames
  PROVE  /\ Frames[shape].kind \in {"cgi", "binary", "raw"}
         /\ Frames[shape].parts \in 1 .. 2 /\ Frames[shape].declared \in 1 .. 2
         /\ Frames[shape].whole \in BOOLEAN
         /\ Frames[shape].kind = "binary" =>
              Frames[shape].parts = 1 /\ Frames[shape].declared = 1
         /\ Frames[shape].parts = 2 =>
              Frames[shape].kind = "cgi" /\ Frames[shape].declared = 2
         /\ Frames[shape].declared = 2 =>
              Frames[shape].parts = 2 \/ shape = "truncated"
         /\ Frames[shape].kind = "raw" => shape = "raw"
         /\ Frames[shape].kind = "cgi" /\ ~Frames[shape].whole => shape = "split"
<1>1. shape \in {"one", "denial", "two", "split", "truncated", "binary", "raw"}
  BY DEF Frames
<1>2. CASE shape = "one"
  <2>1. Frames["one"] =
          [kind |-> "cgi", parts |-> 1, declared |-> 1, whole |-> TRUE]
    BY DEF Frames
  <2> QED
    BY <1>2, <2>1
<1>3. CASE shape = "denial"
  <2>1. Frames["denial"] =
          [kind |-> "cgi", parts |-> 1, declared |-> 1, whole |-> TRUE]
    BY DEF Frames
  <2> QED
    BY <1>3, <2>1
<1>4. CASE shape = "two"
  <2>1. Frames["two"] =
          [kind |-> "cgi", parts |-> 2, declared |-> 2, whole |-> TRUE]
    BY DEF Frames
  <2> QED
    BY <1>4, <2>1
<1>5. CASE shape = "split"
  <2>1. Frames["split"] =
          [kind |-> "cgi", parts |-> 2, declared |-> 2, whole |-> FALSE]
    BY DEF Frames
  <2> QED
    BY <1>5, <2>1
<1>6. CASE shape = "truncated"
  <2>1. Frames["truncated"] =
          [kind |-> "cgi", parts |-> 1, declared |-> 2, whole |-> TRUE]
    BY DEF Frames
  <2> QED
    BY <1>6, <2>1
<1>7. CASE shape = "binary"
  <2>1. Frames["binary"] =
          [kind |-> "binary", parts |-> 1, declared |-> 1, whole |-> TRUE]
    BY DEF Frames
  <2> QED
    BY <1>7, <2>1
<1>8. CASE shape = "raw"
  <2>1. Frames["raw"] =
          [kind |-> "raw", parts |-> 1, declared |-> 1, whole |-> FALSE]
    BY DEF Frames
  <2> QED
    BY <1>8, <2>1
<1> QED
  BY <1>1, <1>2, <1>3, <1>4, <1>5, <1>6, <1>7, <1>8

LEMMA EmitAdds ==
  ASSUME CgiSeqs, EmittedInv, NEW shape \in Shapes, NEW code \in Codes,
         NEW of \in Nat, Emit(shape, code, of)
  PROVE  /\ emitted' \in Seq(Fragment)
         /\ Len(emitted') = Len(emitted) + Frames[shape].parts
         /\ Len(emitted') <= MaxEmitted
         /\ \A i \in DOMAIN emitted : i \in DOMAIN emitted' /\ emitted'[i] = emitted[i]
         /\ \A i \in DOMAIN emitted' \ DOMAIN emitted :
              /\ i - Len(emitted) \in 1 .. Frames[shape].parts
              /\ emitted'[i].serial = i
              /\ emitted'[i].index = (IndexSpace - 3 + i) % IndexSpace
              /\ emitted'[i].frame = Len(emitted) + 1
              /\ emitted'[i].part = i - Len(emitted)
              /\ emitted'[i].of = of
              /\ emitted'[i].code = code
              /\ emitted'[i].kind = Frames[shape].kind
              /\ emitted'[i].declared = Frames[shape].declared
              /\ emitted'[i].whole = Frames[shape].whole
<1> DEFINE n == Frames[shape].parts
           parts == Parts(shape, code, of)
<1>1. shape \in DOMAIN Frames
  BY ShapesAssumption
<1>2. n \in 1 .. 2
  BY <1>1, FrameTyped
<1>3. /\ emitted \in Seq(Fragment) /\ Len(emitted) \in Nat
      /\ DOMAIN emitted = 1 .. Len(emitted)
  BY DEF CgiSeqs
<1>4. IndexSpace \in Nat \ {0}
  BY <1>2, <1>3, LimitsAssumption DEF Emit
<1>5. \A p \in 1 .. n :
        /\ parts[p] \in Fragment
        /\ parts[p].serial = Len(emitted) + p
        /\ parts[p].index = (IndexSpace - 3 + Len(emitted) + p) % IndexSpace
        /\ parts[p].frame = Len(emitted) + 1
        /\ parts[p].part = p
        /\ parts[p].of = of
        /\ parts[p].code = code
        /\ parts[p].kind = Frames[shape].kind
        /\ parts[p].declared = Frames[shape].declared
        /\ parts[p].whole = Frames[shape].whole
  <2> TAKE p \in 1 .. n
  <2>1. /\ Frames[shape].kind \in {"cgi", "binary", "raw"}
        /\ Frames[shape].declared \in Nat /\ Frames[shape].whole \in BOOLEAN
    BY <1>1, FrameTyped
  <2>2. (IndexSpace - 3 + Len(emitted) + p) % IndexSpace \in 0 .. IndexSpace - 1
    BY <1>2, <1>3, <1>4
  <2>3. Len(emitted) + p \in Nat /\ Len(emitted) + 1 \in Nat /\ p \in Nat
    BY <1>2, <1>3
  <2>4. parts[p] =
          [serial |-> Len(emitted) + p,
           index |-> (IndexSpace - 3 + Len(emitted) + p) % IndexSpace,
           frame |-> Len(emitted) + 1, part |-> p, of |-> of, code |-> code,
           kind |-> Frames[shape].kind, declared |-> Frames[shape].declared,
           whole |-> Frames[shape].whole, denies |-> shape = "denial",
           size |-> IF p = 1 THEN First ELSE Later]
    BY DEF Parts
  <2> HIDE DEF parts, n
  <2> QED
    BY <2>1, <2>2, <2>3, <2>4 DEF Fragment
<1>6. DOMAIN parts = 1 .. n
  BY DEF Parts
<1> HIDE DEF parts
<1>7. parts \in Seq(Fragment) /\ Len(parts) = n
  <2>1. parts = [p \in 1 .. n |-> parts[p]]
    BY <1>6 DEF parts, Parts
  <2>2. parts \in [1 .. n -> Fragment]
    BY <1>5, <2>1
  <2> HIDE DEF n
  <2> QED
    BY <1>2, <2>2
<1>8. emitted' = emitted \o parts /\ Len(emitted) + n <= MaxEmitted
  BY DEF Emit, parts
<1> HIDE DEF n
<1>9. /\ emitted' \in Seq(Fragment) /\ Len(emitted') = Len(emitted) + n
      /\ \A i \in 1 .. Len(emitted) : emitted'[i] = emitted[i]
      /\ \A i \in Len(emitted) + 1 .. Len(emitted) + n :
           emitted'[i] = parts[i - Len(emitted)]
  <2>1. /\ emitted \o parts \in Seq(Fragment)
        /\ Len(emitted \o parts) = Len(emitted) + n
    BY <1>3, <1>7
  <2>2. ASSUME NEW i \in 1 .. Len(emitted) PROVE emitted'[i] = emitted[i]
    BY <1>2, <1>3, <1>7, <1>8
  <2>3. ASSUME NEW i \in Len(emitted) + 1 .. Len(emitted) + n
        PROVE  emitted'[i] = parts[i - Len(emitted)]
    BY <1>2, <1>3, <1>7, <1>8
  <2> QED
    BY <1>8, <2>1, <2>2, <2>3
<1>10. DOMAIN emitted' = 1 .. Len(emitted) + n
  BY <1>9
<1>11. ASSUME NEW i \in DOMAIN emitted' \ DOMAIN emitted
       PROVE  /\ i - Len(emitted) \in 1 .. n
              /\ emitted'[i] = parts[i - Len(emitted)]
              /\ IndexSpace - 3 + Len(emitted) + (i - Len(emitted)) = IndexSpace - 3 + i
              /\ Len(emitted) + (i - Len(emitted)) = i
  BY <1>2, <1>3, <1>4, <1>9, <1>10
<1>12. \A i \in DOMAIN emitted : i \in DOMAIN emitted' /\ emitted'[i] = emitted[i]
  BY <1>2, <1>3, <1>9, <1>10
<1> QED
  BY <1>5, <1>8, <1>9, <1>11, <1>12 DEF n

LEMMA MembersTyped ==
  ASSUME NEW s \in Seq(Fragment)
  PROVE  \A f \in ToSet(s) : f \in Fragment
<1>1. \A i \in DOMAIN s : s[i] \in Fragment
  OBVIOUS
<1> QED
  BY <1>1 DEF ToSet

(* A fragment is where its serial number says.                              *)
LEMMA BySerial ==
  ASSUME EmittedInv, NEW f \in ToSet(emitted)
  PROVE  f.serial \in DOMAIN emitted /\ emitted[f.serial] = f
<1>1. PICK i \in DOMAIN emitted : f = emitted[i]
  BY DEF ToSet
<1> QED
  BY <1>1 DEF EmittedInv

LEMMA EmitKeeps ==
  ASSUME CgiInv, NEW shape \in Shapes, NEW code \in Codes, NEW of \in Nat,
         Emit(shape, code, of), UNCHANGED call,
         answered \subseteq answered', answered' \subseteq 1 .. requests,
         of \in answered' \cup {0},
         of = 0 => code \in Unsolicited,
         of # 0 => /\ of = requests /\ stage # "idle" /\ of \notin answered
                   /\ code = IF expected = Unknown THEN "other" ELSE expected
  PROVE  CgiInv'
<1> USE DEF CgiInv
<1>1. /\ emitted' \in Seq(Fragment) /\ emitted \in Seq(Fragment)
      /\ Len(emitted') = Len(emitted) + Frames[shape].parts
      /\ Len(emitted') <= MaxEmitted
      /\ \A i \in DOMAIN emitted : i \in DOMAIN emitted' /\ emitted'[i] = emitted[i]
  BY EmitAdds DEF CgiSeqs
<1>2. \A i \in DOMAIN emitted' \ DOMAIN emitted :
        /\ i - Len(emitted) \in 1 .. Frames[shape].parts
        /\ emitted'[i].serial = i
        /\ emitted'[i].index = (IndexSpace - 3 + i) % IndexSpace
        /\ emitted'[i].frame = Len(emitted) + 1
        /\ emitted'[i].part = i - Len(emitted)
        /\ emitted'[i].of = of
        /\ emitted'[i].code = code
        /\ emitted'[i].kind = Frames[shape].kind
        /\ emitted'[i].declared = Frames[shape].declared
        /\ emitted'[i].whole = Frames[shape].whole
  BY EmitAdds
<1>3. /\ Frames[shape].kind \in {"cgi", "binary", "raw"}
      /\ Frames[shape].parts \in 1 .. 2 /\ Frames[shape].declared \in 1 .. 2
      /\ Frames[shape].kind = "binary" =>
           Frames[shape].parts = 1 /\ Frames[shape].declared = 1
      /\ Frames[shape].parts = 2 =>
           Frames[shape].kind = "cgi" /\ Frames[shape].declared = 2
      /\ Frames[shape].declared = 2 => Frames[shape].parts = 2 \/ "truncated" \in Shapes
      /\ Frames[shape].kind = "raw" => "raw" \in Shapes
      /\ Frames[shape].kind = "cgi" /\ ~Frames[shape].whole => "split" \in Shapes
  BY FrameTyped, ShapesAssumption
<1>4. /\ Len(emitted) \in Nat /\ Len(emitted') \in Nat
      /\ DOMAIN emitted = 1 .. Len(emitted) /\ DOMAIN emitted' = 1 .. Len(emitted')
      /\ Len(emitted) <= Len(emitted')
  BY <1>1, <1>3
<1>5. UNCHANGED <<queue, queuedBytes, overflowed, recent, recentBytes, requests, stage,
                  expected, pending, denied, response, discarded>>
  BY DEF Emit, session, call
<1>6. CountersExact'
  <2>1. \A f \in ToSet(emitted') : f \in Fragment
    BY <1>1, MembersTyped
  <2> QED
    BY <1>5, <2>1 DEF CountersExact, CgiTypeOK
<1>7. CgiSeqs'
  BY <1>1, <1>5 DEF CgiSeqs
<1>8. EmittedInv'
  <2> SUFFICES ASSUME NEW i \in DOMAIN emitted'
               PROVE  /\ emitted'[i].serial = i
                      /\ emitted'[i].index = (IndexSpace - 3 + i) % IndexSpace
                      /\ emitted'[i].part \in 1 .. 2 /\ emitted'[i].declared \in 1 .. 2
                      /\ emitted'[i].frame = i + 1 - emitted'[i].part
                      /\ emitted'[i].kind = "binary" =>
                           emitted'[i].part = 1 /\ emitted'[i].declared = 1
                      /\ emitted'[i].code # "none"
    BY <1>1 DEF EmittedInv
  <2>1. CASE i \in DOMAIN emitted
    BY <1>1, <2>1 DEF EmittedInv
  <2>2. CASE i \notin DOMAIN emitted
    <3>1. code # "none"
      BY CodesAssumption
    <3>2. i \in Nat /\ Len(emitted) + 1 = i + 1 - (i - Len(emitted))
      BY <1>4
    <3>3. i - Len(emitted) \in 1 .. 2
          /\ (Frames[shape].parts = 1 => i - Len(emitted) = 1)
      BY <1>2, <1>3, <2>2
    <3> HIDE DEF CgiInv
    <3> QED
      BY <1>2, <1>3, <2>2, <3>1, <3>3, <3>2
  <2> QED
    BY <2>1, <2>2
<1>9. FramesInv'
  <2> SUFFICES ASSUME NEW i \in DOMAIN emitted'
               PROVE  /\ emitted'[i].part = 2 =>
                           /\ i - 1 \in DOMAIN emitted' /\ emitted'[i - 1].part = 1
                           /\ emitted'[i].kind = "cgi" /\ emitted'[i - 1].kind = "cgi"
                           /\ emitted'[i].declared = 2 /\ emitted'[i - 1].declared = 2
                      /\ emitted'[i].part = 1 /\ emitted'[i].declared = 2 =>
                           \/ i + 1 \in DOMAIN emitted' /\ emitted'[i + 1].part = 2
                           \/ "truncated" \in Shapes
                      /\ emitted'[i].part = 1 /\ CommandCode(emitted'[i]) = "none" =>
                           Shapes \cap {"split", "raw"} # {}
    BY DEF FramesInv, CommandCode
  <2>1. CASE i \in DOMAIN emitted
    <3>1. emitted'[i] = emitted[i]
      BY <1>1, <2>1
    <3>2. emitted[i].part = 2 => i - 1 \in DOMAIN emitted
      BY <2>1 DEF FramesInv
    <3>3. i - 1 \in DOMAIN emitted => emitted'[i - 1] = emitted[i - 1] /\ i - 1 \in DOMAIN emitted'
      BY <1>1
    <3>4. i + 1 \in DOMAIN emitted => emitted'[i + 1] = emitted[i + 1] /\ i + 1 \in DOMAIN emitted'
      BY <1>1
    <3> QED
      BY <2>1, <3>1, <3>2, <3>3, <3>4 DEF FramesInv
  <2>2. CASE i \notin DOMAIN emitted
    <3>1. i \in Len(emitted) + 1 .. Len(emitted')
      BY <1>4, <2>2
    <3>2. ASSUME emitted'[i].part = 2
          PROVE  /\ i - 1 \in DOMAIN emitted' \ DOMAIN emitted
                 /\ Frames[shape].parts = 2 /\ i - 1 - Len(emitted) = 1
      <4>1. i - Len(emitted) = 2 /\ i - Len(emitted) \in 1 .. Frames[shape].parts
        BY <1>2, <2>2, <3>2
      <4> HIDE DEF CgiInv
      <4>2. Frames[shape].parts = 2
        BY <1>3, <4>1
      <4>3. i - 1 \in 1 .. Len(emitted') /\ i - 1 > Len(emitted) /\ i - 1 - Len(emitted) = 1
        BY <1>4, <3>1, <4>1
      <4> QED
        BY <1>4, <4>2, <4>3
    <3>3. ASSUME emitted'[i].part = 1, Frames[shape].parts = 2
          PROVE  i + 1 \in DOMAIN emitted' \ DOMAIN emitted /\ i + 1 - Len(emitted) = 2
      BY <1>1, <1>2, <1>3, <1>4, <2>2, <3>1, <3>3
    <3>4. emitted'[i].part = 2 =>
            /\ i - 1 \in DOMAIN emitted' /\ emitted'[i - 1].part = 1
            /\ emitted'[i].kind = "cgi" /\ emitted'[i - 1].kind = "cgi"
            /\ emitted'[i].declared = 2 /\ emitted'[i - 1].declared = 2
      BY <1>2, <1>3, <2>2, <3>2
    <3>5. emitted'[i].part = 1 /\ emitted'[i].declared = 2 =>
            \/ i + 1 \in DOMAIN emitted' /\ emitted'[i + 1].part = 2
            \/ "truncated" \in Shapes
      <4>1. CASE emitted'[i].part = 1 /\ Frames[shape].parts = 2
        <5>1. i + 1 \in DOMAIN emitted' \ DOMAIN emitted /\ i + 1 - Len(emitted) = 2
          BY <3>3, <4>1
        <5> DEFINE next == i + 1
        <5>2. next \in DOMAIN emitted' \ DOMAIN emitted /\ next - Len(emitted) = 2
          BY <5>1
        <5> HIDE DEF next, CgiInv
        <5>3. emitted'[next].part = next - Len(emitted)
          BY <1>2, <5>2
        <5>4. next \in DOMAIN emitted' /\ emitted'[next].part = 2
          BY <5>2, <5>3
        <5> QED
          BY <5>4 DEF next
      <4>2. CASE Frames[shape].parts # 2
        BY <1>2, <1>3, <2>2, <4>2
      <4> QED
        BY <4>1, <4>2
    <3>6. emitted'[i].part = 1 /\ CommandCode(emitted'[i]) = "none" =>
            Shapes \cap {"split", "raw"} # {}
      BY <1>2, <1>3, <2>2, CodesAssumption DEF CommandCode
    <3> QED
      BY <3>4, <3>5, <3>6
  <2> QED
    BY <2>1, <2>2
<1>10. AnswersInv'
  <2>1. ASSUME NEW i \in DOMAIN emitted'
        PROVE  /\ emitted'[i].of \in answered' \cup {0}
               /\ emitted'[i].of = 0 => emitted'[i].code \in Unsolicited
               /\ emitted'[i].of = requests =>
                    emitted'[i].code \in Unsolicited
                    \/ emitted'[i].code = IF expected = Unknown THEN "other" ELSE expected
    <3>1. CASE i \in DOMAIN emitted
      BY <1>1, <3>1 DEF AnswersInv
    <3>2. CASE i \notin DOMAIN emitted
      BY <1>2, <3>2
    <3> QED
      BY <3>1, <3>2
  <2>2. ASSUME NEW i \in DOMAIN emitted', NEW j \in DOMAIN emitted',
               emitted'[i].of = emitted'[j].of, emitted'[i].of # 0
        PROVE  emitted'[i].frame = emitted'[j].frame
    <3>1. \A k \in DOMAIN emitted : emitted[k].of \in answered \cup {0}
      BY DEF AnswersInv
    <3>2. CASE i \in DOMAIN emitted /\ j \in DOMAIN emitted
      BY <1>1, <2>2, <3>2 DEF AnswersInv
    <3>3. CASE i \notin DOMAIN emitted /\ j \notin DOMAIN emitted
      BY <1>2, <3>3
    <3>4. CASE (i \in DOMAIN emitted) # (j \in DOMAIN emitted)
      BY <1>1, <1>2, <2>2, <3>1, <3>4
    <3> QED
      BY <3>2, <3>3, <3>4
  <2> QED
    BY <1>5, <2>1, <2>2 DEF AnswersInv, Unsolicited
<1>11. /\ \A f \in ToSet(emitted) : f \in ToSet(emitted')
       /\ \A f \in ToSet(emitted) : Gone(f) => Gone(f)'
  <2>1. ASSUME NEW f \in ToSet(emitted) PROVE f \in ToSet(emitted')
    BY <1>1, <2>1 DEF ToSet
  <2>2. ASSUME NEW f \in ToSet(emitted), Gone(f) PROVE Gone(f)'
    <3>1. f.serial \in Nat
      BY <1>4, BySerial
    <3> QED
      BY <1>4, <1>5, <2>2, <3>1, WindowAssumption DEF Gone
  <2> QED
    BY <2>1, <2>2
<1>12. ReceivedInv'
  BY <1>5, <1>11 DEF ReceivedInv
<1>13. RecentInv'
  BY <1>5 DEF RecentInv
<1>14. OwnInv'
  <2>1. ASSUME NEW f \in ToSet(emitted'), f \notin ToSet(emitted)
        PROVE  f.of = of /\ f.code = code
    <3>1. PICK i \in DOMAIN emitted' : f = emitted'[i]
      BY DEF ToSet
    <3>2. i \notin DOMAIN emitted
      BY <1>1, <2>1, <3>1 DEF ToSet
    <3> QED
      BY <1>2, <3>1, <3>2
  <2> QED
    BY <1>5, <1>11, <2>1 DEF OwnInv, Unsolicited
<1>15. OverflowInv'
  BY <1>5 DEF OverflowInv
<1> QED
  BY <1>6, <1>7, <1>8, <1>9, <1>10, <1>12, <1>13, <1>14, <1>15

LEMMA CameraKeeps == ASSUME CgiInv, Camera PROVE CgiInv'
<1>1. /\ requests \in Nat /\ answered \subseteq 1 .. requests
      /\ expected \in Expected \cup {Unknown}
      /\ stage # "idle" => requests # 0
  BY LimitsAssumption DEF CgiInv, CountersExact, CgiTypeOK, AnswersInv
<1>2. PICK shape \in Shapes : Answer(shape) \/ Volunteer(shape)
  BY DEF Camera
<1>3. CASE Answer(shape)
  <2> DEFINE code == IF expected = Unknown THEN "other" ELSE expected
  <2>1. code \in Codes
    BY <1>1 DEF Codes
  <2>2. /\ Emit(shape, code, requests) /\ stage # "idle" /\ requests \notin answered
        /\ answered' = answered \cup {requests}
    BY <1>3 DEF Answer
  <2>3. requests # 0 /\ answered' \subseteq 1 .. requests
    BY <1>1, <2>2
  <2>4. UNCHANGED call
    BY <2>2 DEF Emit
  <2> HIDE DEF code
  <2> QED
    BY <1>1, <2>1, <2>2, <2>3, <2>4, EmitKeeps DEF code
<1>4. CASE Volunteer(shape)
  <2>1. /\ Emit(shape, "status", 0) /\ answered' = answered /\ UNCHANGED call
    BY <1>4 DEF Volunteer, Emit
  <2>2. /\ "status" \in Codes /\ "status" \in Unsolicited
        /\ 0 \in Nat /\ 0 \in answered' \cup {0}
    BY DEF Unsolicited, Codes
  <2> QED
    BY <1>1, <2>1, <2>2, EmitKeeps
<1> QED
  BY <1>2, <1>3, <1>4

-----------------------------------------------------------------------------
(* The request: what ends it, and the next one.                             *)
LEMMA StageKeeps ==
  ASSUME CgiInv, stage # "idle", stage' \in {"reading", "failed", "rejected"},
         UNCHANGED <<camera, session, requests, expected, pending, denied, response,
                     discarded>>
  PROVE  CgiInv'
<1> USE DEF CgiInv, camera, session
<1>1. CountersExact' /\ CgiSeqs'
  BY DEF CountersExact, CgiTypeOK, CgiSeqs
<1>2. EmittedInv' /\ FramesInv'
  BY DEF EmittedInv, FramesInv, CommandCode
<1>3. AnswersInv'
  BY DEF AnswersInv, Unsolicited
<1>4. ReceivedInv' /\ RecentInv'
  BY DEF ReceivedInv, Gone, RecentInv
<1>5. OwnInv'
  BY DEF OwnInv, Gone, Unsolicited
<1>6. OverflowInv'
  BY DEF OverflowInv
<1> QED
  BY <1>1, <1>2, <1>3, <1>4, <1>5, <1>6

LEMMA SendKeeps ==
  ASSUME CgiInv, NEW code \in Expected, Send(code)
  PROVE  CgiInv'
<1> USE DEF CgiInv
<1>1. /\ UNCHANGED <<emitted, answered, recent, recentBytes>>
      /\ stage = "idle" /\ stage' = "ack" /\ requests < MaxRequests
      /\ requests' = requests + 1 /\ expected' = code
      /\ queue' = << >> /\ pending' = << >> /\ response' = << >>
      /\ queuedBytes' = 0 /\ overflowed' = FALSE /\ denied' = FALSE /\ discarded' = FALSE
  BY DEF Send, camera
<1>2. requests \in Nat /\ answered \subseteq 1 .. requests /\ MaxRequests \in Nat
  BY LimitsAssumption DEF CountersExact, CgiTypeOK
<1>3. ToSet(<< >>) = {} /\ Len(<< >>) = 0 /\ << >> \in Seq(Fragment)
  BY DEF ToSet
<1>4. CountersExact'
  <2>1. CgiTypeOK'
    <3>1. answered' \subseteq 1 .. requests' /\ requests' \in 0 .. MaxRequests
      BY <1>1, <1>2
    <3> QED
      BY <1>1, <1>3, <3>1 DEF CountersExact, CgiTypeOK
  <2>2. Len(<< >>) <= MaxFragments /\ 0 <= MaxBytes
    BY <1>3, LimitsAssumption
  <2> QED
    BY <1>1, <2>1, <2>2, BytesOfNothing DEF CountersExact
<1>5. CgiSeqs'
  BY <1>1, <1>3 DEF CgiSeqs
<1>6. EmittedInv' /\ FramesInv'
  BY <1>1 DEF EmittedInv, FramesInv, CommandCode
<1>7. AnswersInv'
  <2>1. \A i \in DOMAIN emitted : emitted[i].of # requests'
    BY <1>1, <1>2 DEF AnswersInv
  <2>2. requests' # 0
    BY <1>1, <1>2
  <2> QED
    BY <1>1, <2>1, <2>2 DEF AnswersInv, Unsolicited
<1>8. ReceivedInv' /\ RecentInv'
  BY <1>1, <1>3 DEF ReceivedInv, Gone, RecentInv
<1>9. OwnInv'
  BY <1>1, <1>3 DEF OwnInv, Gone, Unsolicited
<1>10. OverflowInv'
  BY <1>1 DEF OverflowInv
<1> QED
  BY <1>4, <1>5, <1>6, <1>7, <1>8, <1>9, <1>10

-----------------------------------------------------------------------------
(* The callback.                                                            *)
LEMMA Appended ==
  ASSUME NEW s \in Seq(Fragment), NEW f \in Fragment
  PROVE  /\ Append(s, f) \in Seq(Fragment)
         /\ Len(Append(s, f)) = Len(s) + 1
         /\ ToSet(Append(s, f)) = ToSet(s) \cup {f}
<1> DEFINE t == Append(s, f)
<1>1. /\ t \in Seq(Fragment) /\ Len(t) = Len(s) + 1 /\ Len(s) \in Nat
      /\ DOMAIN s = 1 .. Len(s) /\ DOMAIN t = 1 .. Len(s) + 1
      /\ t[Len(s) + 1] = f /\ \A i \in 1 .. Len(s) : t[i] = s[i]
  OBVIOUS
<1> HIDE DEF t
<1>2. \A x : x \in ToSet(t) <=> x \in ToSet(s) \cup {f}
  BY <1>1 DEF ToSet
<1> QED
  BY <1>1, <1>2 DEF t

(* Serial numbers closer than Window to one another.                        *)
LEMMA Nearby ==
  ASSUME NEW w \in Nat, NEW l \in Nat, NEW a \in 1 .. l, NEW b \in 1 .. l,
         l < a + w, a < b + w
  PROVE  /\ b \in a - w + 1 .. a + w - 1
         /\ a - w + 1 \in Int /\ a + w - 1 \in Int /\ a - w + 1 <= a + w - 1
         /\ (a + w - 1) - (a - w + 1) + 1 = 2 * w - 1
OBVIOUS

LEMMA InTime ==
  ASSUME NEW w \in Nat, NEW l \in Nat, NEW a \in 1 .. l, NEW b \in 1 .. l, b > l - w
  PROVE  a < b + w
OBVIOUS

LEMMA FewFit ==
  ASSUME NEW w \in Nat, NEW n \in Nat, NEW b \in Nat, NEW z \in 1 .. 2,
         NEW fragments \in Nat, NEW bytes \in Nat,
         2 * w - 1 <= fragments, (2 * w - 1) * 2 <= bytes,
         n <= 2 * w - 2, b <= 2 * n
  PROVE  n < fragments /\ b + z <= bytes
<1>1. n < fragments
  OBVIOUS
<1>2. b + z <= 2 * (2 * w - 2) + 2
  OBVIOUS
<1> QED
  BY <1>1, <1>2

(* What the network may still repeat is not forgotten: what was remembered  *)
(* after it is no more than the cache holds.                                *)
LEMMA NotForgotten ==
  ASSUME CgiInv, NEW g \in ToSet(emitted), g \notin ToSet(recent),
         g.serial > Len(emitted) - Window,
         NEW f \in ToSet(recent), f.serial + Window > Len(emitted)
  PROVE  f \in ToSet(RoomFor(g, recent))
<1>1. /\ recent \in Seq(Fragment) /\ g \in Fragment /\ Len(emitted) \in Nat
      /\ Len(recent) \in Nat /\ DOMAIN recent = 1 .. Len(recent)
      /\ DOMAIN emitted = 1 .. Len(emitted)
  BY MembersTyped DEF CgiInv, CgiSeqs
<1>2. Window \in Nat \ {0} /\ 2 * Window - 1 <= MaxFragments
      /\ (2 * Window - 1) * First <= MaxBytes
  BY WindowAssumption
<1>3. PICK j \in DOMAIN recent : f = recent[j]
  BY DEF ToSet
<1>4. PICK n \in 0 .. Len(recent) :
        /\ RoomFor(g, recent) = SubSeq(recent, n + 1, Len(recent))
        /\ \A k \in 0 .. n - 1 :
             ~(/\ Len(SubSeq(recent, k + 1, Len(recent))) < MaxFragments
               /\ Bytes(SubSeq(recent, k + 1, Len(recent))) + g.size <= MaxBytes)
  BY <1>1, RoomIsMade
<1> DEFINE after == SubSeq(recent, (j - 1) + 1, Len(recent))
           size == Len(recent) - j + 1
<1>5. /\ after \in Seq(Fragment) /\ Len(after) = size /\ size \in Nat
      /\ \A x \in 1 .. size : j + x - 1 \in DOMAIN recent /\ after[x] = recent[j + x - 1]
  BY <1>1, <1>3
<1> HIDE DEF after
<1>6. \A h \in ToSet(recent) \cup {g} :
        /\ h.serial \in 1 .. Len(emitted) /\ emitted[h.serial] = h
  BY <1>1, BySerial DEF CgiInv, ReceivedInv
<1>7. \A x \in 1 .. size : /\ after[x] \in ToSet(recent)
                           /\ f.serial < after[x].serial + Window
  <2> TAKE x \in 1 .. size
  <2>1. j + x - 1 \in DOMAIN recent /\ after[x] = recent[j + x - 1] /\ j \in Nat
    BY <1>1, <1>3, <1>5
  <2>2. after[x] \in ToSet(recent)
    BY <2>1 DEF ToSet
  <2>3. CASE x = 1
    BY <1>1, <1>2, <1>3, <1>6, <2>1, <2>3
  <2>4. CASE x > 1
    <3>1. j < j + x - 1
      BY <2>1, <2>4
    <3> QED
      BY <1>3, <2>1, <2>2, <3>1 DEF CgiInv, RecentInv
  <2> QED
    BY <2>2, <2>3, <2>4
<1>8. /\ f.serial \in 1 .. Len(emitted) /\ g.serial \in 1 .. Len(emitted)
       /\ Len(emitted) < f.serial + Window /\ f.serial < g.serial + Window
  <2>1. f.serial \in 1 .. Len(emitted) /\ g.serial \in 1 .. Len(emitted)
    BY <1>6
  <2> QED
    BY <1>1, <1>2, <2>1
<1> DEFINE near == (f.serial - Window + 1 .. f.serial + Window - 1) \ {g.serial}
           serials == [x \in 1 .. size |-> after[x].serial]
<1>9. serials \in Injection(1 .. size, near)
  <2>1. \A x \in 1 .. size : serials[x] \in near
    <3> TAKE x \in 1 .. size
    <3>1. /\ after[x].serial \in 1 .. Len(emitted) /\ f.serial < after[x].serial + Window
          /\ emitted[after[x].serial] = after[x] /\ after[x] \in ToSet(recent)
      BY <1>6, <1>7
    <3>2. after[x].serial # g.serial
      BY <1>6, <3>1
    <3>3. after[x].serial \in f.serial - Window + 1 .. f.serial + Window - 1
      BY <1>1, <1>2, <1>8, <3>1, Nearby
    <3> QED
      BY <3>2, <3>3
  <2>2. ASSUME NEW x \in 1 .. size, NEW y \in 1 .. size, x < y
        PROVE  serials[x] # serials[y]
    <3>1. j + x - 1 < j + y - 1
      BY <1>1, <1>3, <2>2
    <3>2. after[x] # after[y]
      BY <1>5, <3>1 DEF CgiInv, RecentInv
    <3>3. emitted[after[x].serial] = after[x] /\ emitted[after[y].serial] = after[y]
      BY <1>6, <1>7
    <3> QED
      BY <3>2, <3>3
  <2>3. \A x, y \in 1 .. size : serials[x] = serials[y] => x = y
    BY <1>5, <2>2
  <2> QED
    BY <2>1, <2>3 DEF Injection, IsInjective
<1>10. IsFiniteSet(near) /\ Cardinality(near) = 2 * Window - 2
  <2> DEFINE a == f.serial - Window + 1
             b == f.serial + Window - 1
  <2>1. a \in Int /\ b \in Int /\ a <= b /\ b - a + 1 = 2 * Window - 1
        /\ g.serial \in a .. b
    BY <1>1, <1>2, <1>8, Nearby
  <2>2. IsFiniteSet(a .. b) /\ Cardinality(a .. b) = 2 * Window - 1
    <3> HIDE DEF a, b
    <3>1. IsFiniteSet(a .. b) /\ Cardinality(a .. b) = IF a > b THEN 0 ELSE b - a + 1
      BY <2>1, FS_Interval
    <3> QED
      BY <2>1, <3>1
  <2> HIDE DEF a, b
  <2>3. /\ IsFiniteSet((a .. b) \ {g.serial})
        /\ Cardinality((a .. b) \ {g.serial}) = Cardinality(a .. b) - 1
    BY <2>1, <2>2, FS_RemoveElement
  <2> QED
    BY <1>2, <2>2, <2>3 DEF a, b
<1> HIDE DEF near, serials
<1>11. Cardinality(1 .. size) <= 2 * Window - 2
  BY <1>9, <1>10, FS_Injection
<1>12. size <= 2 * Window - 2
  <2>1. Cardinality(1 .. size) = size
    BY <1>5, IntervalSize
  <2> QED
    BY <1>11, <2>1
<1>13. Len(after) < MaxFragments /\ Bytes(after) + g.size <= MaxBytes
  <2>1. Bytes(after) \in Nat /\ Bytes(after) <= First * Len(after)
    BY <1>5, PlacesFinite
  <2>2. g.size \in 1 .. First
    BY <1>1 DEF Fragment, First, Later
  <2>3. Len(after) \in Nat /\ Len(after) <= 2 * Window - 2
    BY <1>5, <1>12
  <2>4. /\ Window \in Nat /\ 2 * Window - 1 <= MaxFragments
        /\ (2 * Window - 1) * 2 <= MaxBytes
        /\ MaxFragments \in Nat /\ MaxBytes \in Nat
    BY <1>2, LimitsAssumption DEF First
  <2>5. Bytes(after) <= 2 * Len(after) /\ g.size \in 1 .. 2
    BY <2>1, <2>2 DEF First
  <2> QED
    BY <2>1, <2>3, <2>4, <2>5, FewFit
<1>14. n <= j - 1
  <2> SUFFICES ASSUME j - 1 \in 0 .. n - 1 PROVE FALSE
    BY <1>1, <1>3
  <2> QED
    BY <1>4, <1>13 DEF after
<1> DEFINE kept == SubSeq(recent, n + 1, Len(recent))
<1>15. j - n \in DOMAIN kept /\ kept[j - n] = recent[j]
  <2>1. j - n \in 1 .. Len(recent) - n /\ n + (j - n) = j
    BY <1>1, <1>3, <1>14
  <2>2. DOMAIN kept = 1 .. Len(recent) - n
        /\ \A x \in 1 .. Len(recent) - n : kept[x] = recent[n + x]
    BY <1>1
  <2> HIDE DEF kept
  <2> QED
    BY <2>1, <2>2
<1> HIDE DEF kept
<1>16. f \in ToSet(kept)
  BY <1>3, <1>15 DEF ToSet
<1> QED
  BY <1>4, <1>16 DEF kept

LEMMA ArriveKeeps ==
  ASSUME CgiInv, NEW g \in ToSet(emitted), Arrive(g)
  PROVE  CgiInv'
<1> DEFINE kept == RoomFor(g, recent)
           left == RoomFor(g, queue)
<1>1. /\ UNCHANGED <<emitted, answered, requests, stage, expected, pending, denied, response>>
      /\ g.serial > Len(emitted) - Window /\ g \notin ToSet(recent)
      /\ recent' = Append(kept, g)
      /\ recentBytes' = recentBytes - (Bytes(recent) - Bytes(kept)) + g.size
      /\ queue' = Append(left, g)
      /\ queuedBytes' = queuedBytes - (Bytes(queue) - Bytes(left)) + g.size
      /\ overflowed' = (overflowed \/ left # queue)
      /\ discarded' = (discarded \/ left # queue)
  BY DEF Arrive, Remember, PutNowait, camera, call
<1>2. /\ emitted \in Seq(Fragment) /\ recent \in Seq(Fragment) /\ queue \in Seq(Fragment)
      /\ g \in Fragment /\ Len(emitted) \in Nat
  BY MembersTyped DEF CgiInv, CgiSeqs
<1>3. /\ kept \in Seq(Fragment) /\ ToSet(kept) \subseteq ToSet(recent)
      /\ Len(kept) < MaxFragments /\ Bytes(kept) + g.size <= MaxBytes
      /\ left \in Seq(Fragment) /\ ToSet(left) \subseteq ToSet(queue)
      /\ Len(left) < MaxFragments /\ Bytes(left) + g.size <= MaxBytes
  BY <1>2, RoomTyped
<1>4. \A f \in ToSet(recent) : f.serial + Window > Len(emitted) => f \in ToSet(kept)
  BY <1>1, NotForgotten
<1>5. PICK n \in 0 .. Len(recent) : kept = SubSeq(recent, n + 1, Len(recent))
  BY <1>2, RoomIsMade
<1>6. /\ Len(recent) \in Nat /\ DOMAIN recent = 1 .. Len(recent)
      /\ DOMAIN kept = 1 .. Len(recent) - n /\ Len(kept) = Len(recent) - n
      /\ \A x \in 1 .. Len(recent) - n : kept[x] = recent[n + x] /\ n + x \in DOMAIN recent
  BY <1>2, <1>5
<1> HIDE DEF kept, left
<1>7. /\ recent' \in Seq(Fragment) /\ Len(recent') = Len(kept) + 1
      /\ ToSet(recent') = ToSet(kept) \cup {g}
      /\ queue' \in Seq(Fragment) /\ Len(queue') = Len(left) + 1
      /\ ToSet(queue') = ToSet(left) \cup {g}
  BY <1>1, <1>2, <1>3, Appended
<1>8. CountersExact'
  <2>1. /\ Bytes(recent') = Bytes(kept) + g.size /\ Bytes(queue') = Bytes(left) + g.size
    BY <1>1, <1>2, <1>3, BytesOfAppend
  <2>2. /\ recentBytes = Bytes(recent) /\ queuedBytes = Bytes(queue)
        /\ Bytes(recent) \in Nat /\ Bytes(queue) \in Nat
        /\ Bytes(kept) \in Nat /\ Bytes(left) \in Nat /\ g.size \in Nat
    <3>1. g.size \in Nat
      BY <1>2 DEF Fragment, First, Later
    <3>2. /\ Bytes(recent) \in Nat /\ Bytes(queue) \in Nat
          /\ Bytes(kept) \in Nat /\ Bytes(left) \in Nat
      BY <1>2, <1>3, PlacesFinite
    <3> QED
      BY <3>1, <3>2 DEF CgiInv, CountersExact
  <2>3. recentBytes' = Bytes(recent') /\ queuedBytes' = Bytes(queue')
    BY <1>1, <2>1, <2>2
  <2>4. /\ Len(recent') <= MaxFragments /\ Bytes(recent') <= MaxBytes
        /\ Len(queue') <= MaxFragments /\ Bytes(queue') <= MaxBytes
    <3>1. Len(kept) \in Nat /\ Len(left) \in Nat
      BY <1>3
    <3> QED
      BY <1>3, <1>7, <2>1, <3>1, LimitsAssumption
  <2>5. Len(pending') <= MaxFragments /\ Bytes(pending') <= MaxBytes
    BY <1>1 DEF CgiInv, CountersExact
  <2>6. CgiTypeOK'
    <3>1. /\ \A f \in ToSet(recent') : f \in Fragment
          /\ \A f \in ToSet(queue') : f \in Fragment
      BY <1>7, MembersTyped
    <3>2. overflowed' \in BOOLEAN
      BY <1>1 DEF CgiInv, CountersExact, CgiTypeOK
    <3> QED
      BY <1>1, <3>1, <3>2 DEF CgiInv, CountersExact, CgiTypeOK
  <2> QED
    BY <2>3, <2>4, <2>5, <2>6 DEF CountersExact
<1>9. CgiSeqs'
  BY <1>1, <1>7 DEF CgiInv, CgiSeqs
<1>10. EmittedInv' /\ FramesInv' /\ AnswersInv'
  BY <1>1 DEF CgiInv, EmittedInv, FramesInv, CommandCode, AnswersInv, Unsolicited
<1>11. \A f \in ToSet(emitted) : Gone(f) => Gone(f)'
  <2> SUFFICES ASSUME NEW f \in ToSet(emitted), f \in ToSet(recent),
                      ~(f.serial + Window <= Len(emitted))
               PROVE  f \in ToSet(recent')
    BY <1>1 DEF Gone
  <2>1. f.serial + Window > Len(emitted)
    <3>1. f.serial \in DOMAIN emitted
      BY BySerial DEF CgiInv
    <3>2. f.serial \in Nat /\ Window \in Nat
      BY <1>2, <3>1, WindowAssumption
    <3> QED
      BY <1>2, <3>2
  <2> QED
    BY <1>4, <1>7, <2>1
<1>12. ReceivedInv'
  <2>1. Gone(g)'
    BY <1>7 DEF Gone
  <2>2. \A f \in ToSet(queue) \cup ToSet(pending) : f \in ToSet(emitted) /\ Gone(f)'
    BY <1>11 DEF CgiInv, ReceivedInv
  <2>3. \A f \in ToSet(recent') : f \in ToSet(emitted)
    BY <1>3, <1>7 DEF CgiInv, ReceivedInv
  <2> QED
    BY <1>1, <1>3, <1>7, <2>1, <2>2, <2>3 DEF ReceivedInv
<1>13. RecentInv'
  <2> SUFFICES ASSUME NEW x \in DOMAIN recent', NEW y \in DOMAIN recent', x < y
               PROVE  /\ recent'[x] # recent'[y]
                      /\ recent'[x].serial < recent'[y].serial + Window
    BY DEF RecentInv
  <2>1. /\ Len(kept) = Len(recent) - n /\ Len(kept) \in Nat
        /\ x \in 1 .. Len(kept) /\ y \in 1 .. Len(kept) + 1
        /\ recent'[x] = kept[x] /\ kept[x] \in ToSet(kept)
    <3>1. Len(kept) = Len(recent) - n /\ Len(kept) \in Nat
      BY <1>3, <1>6
    <3>2. DOMAIN recent' = 1 .. Len(kept) + 1
      BY <1>7, <3>1
    <3>3. x \in 1 .. Len(kept) /\ y \in 1 .. Len(kept) + 1
      BY <3>1, <3>2
    <3>4. recent'[x] = kept[x] /\ kept[x] \in ToSet(kept)
      BY <1>1, <1>2, <1>3, <3>3 DEF ToSet
    <3> QED
      BY <3>1, <3>3, <3>4
  <2>2. CASE y \in 1 .. Len(kept)
    <3>1. recent'[y] = kept[y]
      BY <1>1, <1>2, <1>3, <2>2
    <3>2. /\ kept[x] = recent[n + x] /\ kept[y] = recent[n + y]
          /\ n + x \in DOMAIN recent /\ n + y \in DOMAIN recent /\ n + x < n + y
      BY <1>6, <2>1, <2>2
    <3> QED
      BY <2>1, <3>1, <3>2 DEF CgiInv, RecentInv
  <2>3. CASE y = Len(kept) + 1
    <3>1. recent'[y] = g
      BY <1>1, <1>2, <1>3, <2>3
    <3>2. kept[x] \in ToSet(recent) /\ kept[x] \in ToSet(emitted)
      BY <1>3, <2>1 DEF CgiInv, ReceivedInv
    <3>3. kept[x].serial \in 1 .. Len(emitted) /\ g.serial \in 1 .. Len(emitted)
      BY <1>2, <3>2, BySerial DEF CgiInv
    <3>4. kept[x].serial < g.serial + Window
      <4>1. Window \in Nat
        BY WindowAssumption
      <4> QED
        BY <1>1, <1>2, <3>3, <4>1, InTime
    <3> QED
      BY <1>1, <2>1, <3>1, <3>2, <3>4
  <2> QED
    BY <2>1, <2>2, <2>3
<1>14. OwnInv'
  <2>1. ~Gone(g)
    <3>1. g.serial \in DOMAIN emitted
      BY BySerial DEF CgiInv
    <3>2. g.serial \in Nat /\ Window \in Nat
      BY <1>2, <3>1, WindowAssumption
    <3> QED
      BY <1>1, <1>2, <3>2 DEF Gone
  <2>2. g.code \notin Unsolicited => g.of = requests
    BY <2>1 DEF CgiInv, OwnInv
  <2>3. \A f \in ToSet(queue') \cup ToSet(pending') :
          f.code \notin Unsolicited => f.of = requests
    BY <1>1, <1>3, <1>7, <2>2 DEF CgiInv, OwnInv
  <2>4. \A f \in ToSet(emitted) :
          f.code \notin Unsolicited /\ (f.of # requests \/ stage = "idle") => Gone(f)'
    BY <1>11 DEF CgiInv, OwnInv
  <2> QED
    BY <1>1, <2>3, <2>4 DEF OwnInv, Unsolicited
<1>15. OverflowInv'
  BY <1>1 DEF CgiInv, OverflowInv
<1> QED
  BY <1>8, <1>9, <1>10, <1>12, <1>13, <1>14, <1>15 DEF CgiInv

-----------------------------------------------------------------------------
(* Reading.  The indices of two fragments differ as their serial numbers do.*)
LEMMA IndexFollows ==
  ASSUME NEW i \in 1 .. IndexSpace, NEW j \in 1 .. IndexSpace
  PROVE  LET index(k) == (IndexSpace - 3 + k) % IndexSpace IN
         /\ index(j) = (index(i) + 0) % IndexSpace => j = i
         /\ index(j) = (index(i) + 1) % IndexSpace =>
              j = i + 1 \/ (i = IndexSpace /\ j = 1)
<1> DEFINE index(k) == (IndexSpace - 3 + k) % IndexSpace
<1>1. IndexSpace \in Nat \ {0}
  BY LimitsAssumption
<1>2. CASE IndexSpace = 1
  BY <1>2
<1>3. CASE IndexSpace > 1
  <2>1. /\ i <= 2 => index(i) = IndexSpace - 3 + i
        /\ i > 2 => index(i) = i - 3
        /\ j <= 2 => index(j) = IndexSpace - 3 + j
        /\ j > 2 => index(j) = j - 3
    BY <1>3, IndexOf
  <2> HIDE DEF index
  <2>2. index(i) \in 0 .. IndexSpace - 1
    BY <1>1, <1>3, <2>1
  <2>3. (index(i) + 0) % IndexSpace = index(i)
    BY <1>1, <2>2
  <2>4. (index(i) + 1) % IndexSpace =
          IF index(i) + 1 = IndexSpace THEN 0 ELSE index(i) + 1
    BY <1>1, <2>2
  <2>5. index(j) = (index(i) + 0) % IndexSpace => j = i
    BY <1>1, <1>3, <2>1, <2>3
  <2>6. index(j) = (index(i) + 1) % IndexSpace =>
          j = i + 1 \/ (i = IndexSpace /\ j = 1)
    BY <1>1, <1>3, <2>1, <2>4
  <2> QED
    BY <2>5, <2>6 DEF index
<1> QED
  BY <1>1, <1>2, <1>3

LEMMA ContinuesInPlace ==
  ASSUME CgiInv, NEW f \in ToSet(emitted), NEW g \in ToSet(emitted)
  PROVE  /\ f.serial \in 1 .. Len(emitted) /\ g.serial \in 1 .. Len(emitted)
         /\ Len(emitted) <= IndexSpace
         /\ Continues(f, 0, g) => g = f
         /\ Continues(f, 1, g) =>
              \/ g.serial = f.serial + 1
              \/ f.serial = IndexSpace /\ g.serial = 1
<1>1. /\ f.serial \in DOMAIN emitted /\ emitted[f.serial] = f
      /\ g.serial \in DOMAIN emitted /\ emitted[g.serial] = g
  BY BySerial DEF CgiInv
<1>2. DOMAIN emitted = 1 .. Len(emitted) /\ Len(emitted) \in Nat
  BY DEF CgiInv, CgiSeqs
<1>3. Len(emitted) <= IndexSpace /\ IndexSpace \in Nat
  BY <1>2, LimitsAssumption DEF CgiInv, EmittedInv
<1>4. f.serial \in 1 .. IndexSpace /\ g.serial \in 1 .. IndexSpace
  BY <1>1, <1>2, <1>3
<1>5. /\ f.index = (IndexSpace - 3 + f.serial) % IndexSpace
      /\ g.index = (IndexSpace - 3 + g.serial) % IndexSpace
  BY <1>1 DEF CgiInv, EmittedInv
<1>6. Continues(f, 0, g) => g.serial = f.serial
  BY <1>4, <1>5, IndexFollows DEF Continues
<1>7. Continues(f, 1, g) =>
        \/ g.serial = f.serial + 1
        \/ f.serial = IndexSpace /\ g.serial = 1
  BY <1>4, <1>5, IndexFollows DEF Continues
<1> QED
  BY <1>1, <1>2, <1>3, <1>6, <1>7

(* A complete frame is its first part and what continues it, out of what was*)
(* read.                                                                    *)
LEMMA ChunksTyped ==
  ASSUME CgiInv, NEW read \in Seq(Fragment), ToSet(read) \subseteq ToSet(emitted),
         NEW i \in Starts(read)
  PROVE  LET f == read[i]
             c == Chunks(read[i], read)
         IN  /\ f \in ToSet(read) /\ f.part = 1 /\ f.declared \in 1 .. 2
             /\ c \in Seq(Fragment) /\ DOMAIN c = 1 .. f.declared
             /\ c # << >> /\ c[1] = f
             /\ f.declared = 2 => c[2] \in ToSet(read) /\ Continues(f, 1, c[2])
<1> DEFINE f == read[i]
           c == Chunks(f, read)
<1>1. f \in ToSet(read) /\ CouldStart(f) /\ Complete(f, read)
  BY DEF Starts, Complete, ToSet
<1>2. f \in ToSet(emitted) /\ f.serial \in DOMAIN emitted /\ emitted[f.serial] = f
  BY <1>1, BySerial DEF CgiInv
<1>3. f.part = 1 /\ f.declared \in 1 .. 2
  BY <1>1, <1>2 DEF CgiInv, EmittedInv, CouldStart
<1>4. DOMAIN c = 1 .. f.declared
  BY DEF Chunks
<1>5. \A n \in 1 .. f.declared : c[n] \in ToSet(read) /\ Continues(f, n - 1, c[n])
  <2> TAKE n \in 1 .. f.declared
  <2>1. n - 1 \in 0 .. f.declared - 1
    BY <1>3
  <2>2. \E g \in ToSet(read) : Continues(f, n - 1, g)
    BY <1>1, <2>1 DEF Complete
  <2>3. c[n] = CHOOSE g \in ToSet(read) : Continues(f, n - 1, g)
    BY DEF Chunks
  <2> HIDE DEF c, f
  <2> QED
    BY <2>2, <2>3, Zenon
<1> HIDE DEF c
<1>6. c \in Seq(Fragment) /\ Len(c) = f.declared
  <2>1. c = [n \in 1 .. f.declared |-> c[n]]
    BY <1>4 DEF c, Chunks
  <2>2. \A n \in 1 .. f.declared : c[n] \in Fragment
    BY <1>5, MembersTyped
  <2> HIDE DEF f
  <2>3. c \in [1 .. f.declared -> Fragment]
    BY <2>1, <2>2
  <2> QED
    BY <1>3, <2>3
<1>7. c[1] = f
  <2>1. c[1] \in ToSet(emitted) /\ Continues(f, 0, c[1])
    BY <1>3, <1>5
  <2> QED
    BY <1>2, <2>1, ContinuesInPlace
<1>8. f.declared = 2 => c[2] \in ToSet(read) /\ Continues(f, 1, c[2])
  BY <1>5
<1>9. c # << >>
  BY <1>3, <1>6
<1> QED
  BY <1>1, <1>3, <1>4, <1>6, <1>7, <1>8, <1>9 DEF c

(* What a step of the request reads.                                        *)
Readable(read) ==
  /\ read \in Seq(Fragment)
  /\ ToSet(read) \subseteq ToSet(queue) \cup ToSet(pending)
  /\ Len(read) <= MaxFragments /\ Bytes(read) <= MaxBytes

LEMMA ReadTyped ==
  ASSUME CgiInv, Read
  PROVE  /\ stage = "reading" /\ ~overflowed
         /\ UNCHANGED <<emitted, answered, overflowed, recent, recentBytes, requests,
                        expected, discarded>>
         /\ queue' \in Seq(Fragment) /\ ToSet(queue') \subseteq ToSet(queue)
         /\ queuedBytes' = Bytes(queue')
         /\ Len(queue') <= MaxFragments /\ Bytes(queue') <= MaxBytes
         /\ \/ stage' = "failed" /\ UNCHANGED <<pending, denied, response>>
            \/ \E read : Readable(read) /\ TakeCompleteResponse(read)
<1> DEFINE f == Head(queue)
<1>1. /\ stage = "reading" /\ ~overflowed /\ queue # << >> /\ queue' = Tail(queue)
      /\ queuedBytes' = queuedBytes - f.size
      /\ UNCHANGED <<emitted, answered, overflowed, recent, recentBytes, requests,
                     expected, discarded>>
  BY DEF Read, camera
<1>2. \/ stage' = "failed" /\ UNCHANGED <<pending, denied, response>>
      \/ ~PendingFull(f) /\ TakeCompleteResponse(Append(pending, f))
      \/ TakeCompleteResponse(pending)
  BY DEF Read
<1>3. /\ queue \in Seq(Fragment) /\ pending \in Seq(Fragment)
      /\ queuedBytes = Bytes(queue)
      /\ Len(queue) <= MaxFragments /\ Bytes(queue) <= MaxBytes
      /\ Len(pending) <= MaxFragments /\ Bytes(pending) <= MaxBytes
  BY DEF CgiInv, CgiSeqs, CountersExact
<1>4. /\ f \in Fragment /\ queue' \in Seq(Fragment)
      /\ Bytes(queue') = Bytes(queue) - f.size
  BY <1>1, <1>3, BytesOfTail
<1>5. /\ f = queue[1] /\ Len(queue) \in Nat \ {0} /\ DOMAIN queue = 1 .. Len(queue)
      /\ Len(queue') = Len(queue) - 1 /\ DOMAIN queue' = 1 .. Len(queue) - 1
      /\ \A i \in 1 .. Len(queue) - 1 : queue'[i] = queue[i + 1]
  BY <1>1, <1>3
<1> HIDE DEF f
<1>6. f \in ToSet(queue) /\ ToSet(queue') \subseteq ToSet(queue)
  BY <1>5 DEF ToSet
<1>7. f.size \in Nat /\ Bytes(queue) \in Nat /\ Bytes(pending) \in Nat
      /\ Len(pending) \in Nat
  <2>1. f.size \in Nat
    BY <1>4 DEF Fragment, First, Later
  <2> QED
    BY <1>3, <2>1, PlacesFinite
<1>8. Len(queue') <= MaxFragments /\ Bytes(queue') <= MaxBytes
  BY <1>3, <1>4, <1>5, <1>7, LimitsAssumption
<1>9. Readable(pending)
  BY <1>3 DEF Readable
<1>10. ASSUME ~PendingFull(f) PROVE Readable(Append(pending, f))
  <2>1. /\ Append(pending, f) \in Seq(Fragment)
        /\ Len(Append(pending, f)) = Len(pending) + 1
        /\ ToSet(Append(pending, f)) = ToSet(pending) \cup {f}
        /\ Bytes(Append(pending, f)) = Bytes(pending) + f.size
    BY <1>3, <1>4, Appended, BytesOfAppend
  <2>2. /\ Len(pending) + 1 <= MaxFragments /\ Bytes(pending) + f.size <= MaxBytes
    BY <1>7, <1>10, LimitsAssumption DEF PendingFull
  <2> QED
    BY <1>6, <2>1, <2>2 DEF Readable
<1> QED
  BY <1>1, <1>2, <1>3, <1>4, <1>6, <1>8, <1>9, <1>10 DEF f

LEMMA Taken ==
  ASSUME CgiInv, NEW read, Readable(read), TakeCompleteResponse(read)
  PROVE  \/ /\ stage' = "idle" /\ pending' = << >> /\ denied' = denied
            /\ \E i \in Starts(read) : /\ Matches(read[i].code)
                                       /\ response' = Chunks(read[i], read)
         \/ /\ stage' = stage /\ response' = response /\ denied' \in BOOLEAN
            /\ pending' \in Seq(Fragment) /\ ToSet(pending') \subseteq ToSet(read)
            /\ Len(pending') <= MaxFragments /\ Bytes(pending') <= MaxBytes
<1>1. /\ read \in Seq(Fragment) /\ Len(read) \in Nat /\ DOMAIN read = 1 .. Len(read)
      /\ Len(read) <= MaxFragments /\ Bytes(read) <= MaxBytes
  BY DEF Readable
<1>2. CASE Matching(read) # {}
  <2>1. Matching(read) \subseteq Nat
    BY <1>1 DEF Matching, Starts
  <2>2. Min(Matching(read)) \in Matching(read)
    BY <1>2, <2>1, LeastIsMin
  <2>3. /\ stage' = "idle" /\ pending' = << >> /\ denied' = denied
        /\ response' = Chunks(read[Min(Matching(read))], read)
    BY <1>2 DEF TakeCompleteResponse
  <2>4. /\ Min(Matching(read)) \in Starts(read)
        /\ Matches(read[Min(Matching(read))].code)
    BY <2>2 DEF Matching
  <2> QED
    BY <2>3, <2>4
<1>3. CASE Matching(read) = {}
  <2>1. /\ stage' = stage /\ response' = response
        /\ denied' = (denied \/ \E i \in Starts(read) : Denies(read[i]))
        /\ pending' = At(read, Unused(read))
    BY <1>3 DEF TakeCompleteResponse
  <2>2. Unused(read) \in SUBSET (DOMAIN read)
    BY DEF Unused
  <2>3. /\ pending' \in Seq(Fragment) /\ ToSet(pending') \subseteq ToSet(read)
        /\ Len(pending') <= Len(read) /\ Bytes(pending') <= Bytes(read)
    BY <1>1, <2>1, <2>2, Kept
  <2>4. Bytes(pending') \in Nat /\ Len(pending') \in Nat /\ Bytes(read) \in Nat
    BY <1>1, <2>3, PlacesFinite
  <2>5. Len(pending') <= MaxFragments /\ Bytes(pending') <= MaxBytes
    BY <1>1, <2>3, <2>4, LimitsAssumption
  <2>6. denied' \in BOOLEAN
    BY <2>1
  <2> QED
    BY <2>1, <2>3, <2>5, <2>6
<1> QED
  BY <1>2, <1>3

(* A response that is not of its request is one nobody asked for.           *)
LEMMA AnswersItsRequest ==
  ASSUME CgiInv, stage = "reading", NEW read, Readable(read), NEW i \in Starts(read),
         Matches(read[i].code)
  PROVE  read[i].of = requests \/ read[i].code \in Unsolicited
<1>1. read[i] \in ToSet(read)
  BY DEF Starts, ToSet
<1> QED
  BY <1>1 DEF Readable, CgiInv, OwnInv

(* With the response, everything the camera answered the request has been   *)
(* received.                                                                *)
LEMMA AnswerIsTaken ==
  ASSUME CgiInv, stage = "reading", NEW read, Readable(read), NEW i \in Starts(read),
         Matches(read[i].code),
         NEW h \in ToSet(emitted), h.code \notin Unsolicited
  PROVE  Gone(h)
<1> DEFINE f == read[i]
           c == Chunks(f, read)
<1>1. \A k \in ToSet(read) : k \in ToSet(emitted) /\ Gone(k)
  BY DEF Readable, CgiInv, ReceivedInv
<1>2. /\ f \in ToSet(read) /\ f.part = 1
      /\ f.declared = 2 => c[2] \in ToSet(read) /\ Continues(f, 1, c[2])
  <2>1. read \in Seq(Fragment) /\ ToSet(read) \subseteq ToSet(emitted)
    BY <1>1 DEF Readable
  <2> QED
    BY <2>1, ChunksTyped
<1>3. /\ f.serial \in DOMAIN emitted /\ emitted[f.serial] = f
      /\ h.serial \in DOMAIN emitted /\ emitted[h.serial] = h
      /\ f \in ToSet(emitted)
  BY <1>1, <1>2, BySerial DEF CgiInv
<1>4. f.of = requests \/ f.code \in Unsolicited
  BY AnswersItsRequest
<1> HIDE DEF f, c
<1>5. CASE h.of # requests
  BY <1>5 DEF CgiInv, OwnInv
<1>6. CASE h.of = requests /\ f.code \in Unsolicited
  <2>1. expected # Unknown /\ f.code = expected
    BY <1>6 DEF f, Matches
  <2>2. h.code = expected
    BY <1>3, <1>6, <2>1 DEF CgiInv, AnswersInv
  <2> QED
    BY <1>6, <2>1, <2>2
<1>7. CASE h.of = requests /\ f.code \notin Unsolicited
  <2>1. h.frame = f.frame
    BY <1>3, <1>4, <1>7 DEF CgiInv, AnswersInv
  <2>2. /\ h.part \in 1 .. 2 /\ h.frame = h.serial + 1 - h.part
        /\ f.frame = f.serial + 1 - f.part
    BY <1>3 DEF CgiInv, EmittedInv
  <2>3. /\ DOMAIN emitted = 1 .. Len(emitted) /\ Len(emitted) \in Nat
    BY DEF CgiInv, CgiSeqs
  <2>4. h.serial \in Nat /\ f.serial \in Nat /\ h.serial + 1 - h.part = f.serial
    <3>1. h.serial \in Nat /\ f.serial \in Nat
      BY <1>3, <2>3
    <3>2. h.serial + 1 - h.part = f.serial + 1 - 1
      BY <1>2, <2>1, <2>2
    <3> QED
      BY <3>1, <3>2
  <2>5. CASE h.part = 1
    <3>1. h.serial = f.serial
      BY <2>5, <2>4
    <3>2. h = f
      BY <1>3, <3>1
    <3> QED
      BY <1>1, <1>2, <3>2
  <2>6. CASE h.part = 2
    <3>1. h.serial = f.serial + 1 /\ h.serial - 1 = f.serial
      BY <2>6, <2>4
    <3>2. f.declared = 2
      BY <1>3, <2>6, <3>1 DEF CgiInv, FramesInv
    <3>3. c[2] \in ToSet(emitted) /\ Gone(c[2]) /\ Continues(f, 1, c[2])
      BY <1>1, <1>2, <3>2
    <3>4. /\ Len(emitted) <= IndexSpace /\ IndexSpace \in Nat
          /\ c[2].serial = f.serial + 1 \/ (f.serial = IndexSpace /\ c[2].serial = 1)
      BY <1>3, <3>3, ContinuesInPlace, LimitsAssumption
    <3>5. c[2].serial = h.serial
      BY <1>3, <2>3, <3>1, <3>4
    <3>6. c[2] = h
      BY <1>3, <3>3, <3>5, BySerial DEF CgiInv
    <3> QED
      BY <3>3, <3>6
  <2> QED
    BY <2>2, <2>5, <2>6
<1> QED
  BY <1>4, <1>5, <1>6, <1>7

(* What a step of the request leaves behind.                                *)
LeavesPending ==
  /\ response' \in Seq(Fragment) /\ pending' \in Seq(Fragment)
  /\ ToSet(pending') \subseteq ToSet(queue) \cup ToSet(pending)
  /\ Len(pending') <= MaxFragments /\ Bytes(pending') <= MaxBytes
  /\ denied' \in BOOLEAN /\ stage' \in {"idle", "reading", "failed"}
  /\ stage' = "idle" => \A h \in ToSet(emitted) : h.code \notin Unsolicited => Gone(h)

LEMMA ReadKeeps ==
  ASSUME CgiInv, Read
  PROVE  CgiInv'
<1>1. /\ stage = "reading" /\ ~overflowed
      /\ UNCHANGED <<emitted, answered, overflowed, recent, recentBytes, requests,
                     expected, discarded>>
      /\ queue' \in Seq(Fragment) /\ ToSet(queue') \subseteq ToSet(queue)
      /\ queuedBytes' = Bytes(queue')
      /\ Len(queue') <= MaxFragments /\ Bytes(queue') <= MaxBytes
  BY ReadTyped
<1>2. ToSet(<< >>) = {} /\ Len(<< >>) = 0 /\ << >> \in Seq(Fragment)
      /\ 0 <= MaxFragments /\ 0 <= MaxBytes
  BY LimitsAssumption DEF ToSet
<1>3. LeavesPending
  <2>1. /\ response \in Seq(Fragment) /\ pending \in Seq(Fragment) /\ denied \in BOOLEAN
        /\ Len(pending) <= MaxFragments /\ Bytes(pending) <= MaxBytes
    BY DEF CgiInv, CgiSeqs, CountersExact, CgiTypeOK
  <2>2. CASE stage' = "failed" /\ UNCHANGED <<pending, denied, response>>
    BY <2>1, <2>2 DEF LeavesPending
  <2>3. ASSUME NEW read, Readable(read), TakeCompleteResponse(read)
        PROVE  LeavesPending
    <3>1. read \in Seq(Fragment) /\ ToSet(read) \subseteq ToSet(queue) \cup ToSet(pending)
          /\ ToSet(read) \subseteq ToSet(emitted)
      BY <2>3 DEF Readable, CgiInv, ReceivedInv
    <3>2. ASSUME stage' = "idle", pending' = << >>, denied' = denied,
                 NEW i \in Starts(read), Matches(read[i].code),
                 response' = Chunks(read[i], read)
          PROVE  LeavesPending
      <4>1. response' \in Seq(Fragment)
        BY <3>1, <3>2, ChunksTyped
      <4>2. \A h \in ToSet(emitted) : h.code \notin Unsolicited => Gone(h)
        BY <1>1, <2>3, <3>2, AnswerIsTaken
      <4> QED
        BY <1>2, <2>1, <3>2, <4>1, <4>2, BytesOfNothing DEF LeavesPending
    <3>3. CASE /\ stage' = stage /\ response' = response /\ denied' \in BOOLEAN
               /\ pending' \in Seq(Fragment) /\ ToSet(pending') \subseteq ToSet(read)
               /\ Len(pending') <= MaxFragments /\ Bytes(pending') <= MaxBytes
      BY <1>1, <2>1, <3>1, <3>3 DEF LeavesPending
    <3> QED
      BY <2>3, <3>2, <3>3, Taken
  <2> QED
    BY <2>2, <2>3, ReadTyped
<1>4. CountersExact'
  <2>1. CgiTypeOK'
    <3>1. /\ \A f \in ToSet(queue') : f \in Fragment
          /\ \A f \in ToSet(pending') : f \in Fragment
          /\ \A f \in ToSet(response') : f \in Fragment
      BY <1>1, <1>3, MembersTyped DEF LeavesPending
    <3> QED
      BY <1>1, <1>3, <3>1 DEF LeavesPending, CgiInv, CountersExact, CgiTypeOK
  <2>2. /\ recentBytes' = Bytes(recent')
        /\ Len(recent') <= MaxFragments /\ Bytes(recent') <= MaxBytes
    BY <1>1 DEF CgiInv, CountersExact
  <2> QED
    BY <1>1, <1>3, <2>1, <2>2 DEF LeavesPending, CountersExact
<1>5. CgiSeqs'
  BY <1>1, <1>3 DEF LeavesPending, CgiInv, CgiSeqs
<1>6. EmittedInv' /\ FramesInv'
  BY <1>1 DEF CgiInv, EmittedInv, FramesInv, CommandCode
<1>7. AnswersInv'
  BY <1>1, <1>3 DEF LeavesPending, CgiInv, AnswersInv, Unsolicited
<1>8. ReceivedInv' /\ RecentInv'
  BY <1>1, <1>3 DEF LeavesPending, CgiInv, ReceivedInv, Gone, RecentInv
<1>9. OwnInv'
  <2>1. \A f \in ToSet(queue') \cup ToSet(pending') :
          f.code \notin Unsolicited => f.of = requests
    BY <1>1, <1>3 DEF LeavesPending, CgiInv, OwnInv
  <2>2. \A f \in ToSet(emitted) :
          f.code \notin Unsolicited /\ (f.of # requests \/ stage' = "idle") => Gone(f)
    BY <1>1, <1>3 DEF LeavesPending, CgiInv, OwnInv
  <2> QED
    BY <1>1, <2>1, <2>2 DEF OwnInv, Gone, Unsolicited
<1>10. OverflowInv'
  BY <1>1 DEF CgiInv, OverflowInv
<1> QED
  BY <1>4, <1>5, <1>6, <1>7, <1>8, <1>9, <1>10 DEF CgiInv

-----------------------------------------------------------------------------
LEMMA InitKeeps == CgiInit => CgiInv
<1> SUFFICES ASSUME CgiInit PROVE CgiInv
  OBVIOUS
<1>1. /\ ToSet(<< >>) = {} /\ Len(<< >>) = 0 /\ << >> \in Seq(Fragment)
      /\ DOMAIN << >> = {}
      /\ 0 <= MaxFragments /\ 0 <= MaxBytes /\ 0 <= MaxEmitted /\ 0 \in 0 .. MaxRequests
  BY LimitsAssumption DEF ToSet
<1>2. CountersExact /\ CgiSeqs
  BY <1>1, BytesOfNothing DEF CgiInit, CountersExact, CgiTypeOK, CgiSeqs
<1>3. EmittedInv /\ FramesInv /\ AnswersInv
  BY <1>1 DEF CgiInit, EmittedInv, FramesInv, AnswersInv
<1>4. ReceivedInv /\ RecentInv /\ OwnInv /\ OverflowInv
  BY <1>1 DEF CgiInit, ReceivedInv, RecentInv, OwnInv, OverflowInv
<1> QED
  BY <1>2, <1>3, <1>4 DEF CgiInv

LEMMA NextKeeps == CgiInv /\ [CgiNext]_cgiVars => CgiInv'
<1> SUFFICES ASSUME CgiInv, [CgiNext]_cgiVars PROVE CgiInv'
  OBVIOUS
<1>1. CASE Camera
  BY <1>1, CameraKeeps
<1>2. CASE \E i \in DOMAIN emitted : Arrive(emitted[i])
  <2>1. PICK i \in DOMAIN emitted : Arrive(emitted[i])
    BY <1>2
  <2>2. emitted[i] \in ToSet(emitted)
    BY DEF ToSet
  <2> QED
    BY <2>1, <2>2, ArriveKeeps
<1>3. CASE \E code \in Expected : Send(code)
  BY <1>3, SendKeeps
<1>4. CASE Acknowledged \/ Overflow \/ Deadline \/ Interrupt
  BY <1>4, StageKeeps DEF Acknowledged, Overflow, Deadline, Interrupt, Fail
<1>5. CASE Read
  BY <1>5, ReadKeeps
<1>6. CASE UNCHANGED cgiVars
  BY <1>6 DEF CgiInv, cgiVars, camera, session, call, CountersExact, CgiTypeOK, CgiSeqs,
     EmittedInv, FramesInv, CommandCode, AnswersInv, ReceivedInv, Gone, RecentInv, OwnInv,
     OverflowInv, Unsolicited
<1> QED
  BY <1>1, <1>2, <1>3, <1>4, <1>5, <1>6 DEF CgiNext, Request

(* The invariant from which the theorems on CGI reception follow: exact     *)
(* counters, and where what is queued, cached, pending or returned is from. *)
THEOREM ReceptionInvariant == CgiSpec => []CgiInv
<1> QED
  BY InitKeeps, NextKeeps, PTL DEF CgiSpec

(* The counters are exact and the buffers within their limits, whatever the *)
(* limits, the camera's frames and what the network does with them.         *)
THEOREM LimitsAreKept == CgiSpec => []CountersExact
<1>1. CgiInv => CountersExact
  BY DEF CgiInv
<1> QED
  BY <1>1, ReceptionInvariant, PTL

(* What a scan of the fragments read returns is one frame: its start says   *)
(* how many parts follow, and each place holds the next fragment emitted.   *)
LEMMA WholeFrame ==
  ASSUME Unambiguous, CgiInv, NEW read, Readable(read), NEW i \in Starts(read),
         response' = Chunks(read[i], read)
  PROVE  ResponseIsOneFrame'
<1> DEFINE f == read[i]
           g == response'[2]
<1>1. \A k \in ToSet(read) : k \in ToSet(emitted)
  BY DEF Readable, CgiInv, ReceivedInv
<1>2. /\ f \in ToSet(emitted) /\ f.part = 1 /\ f.declared \in 1 .. 2
      /\ DOMAIN response' = 1 .. f.declared /\ response'[1] = f
      /\ f.declared = 2 => g \in ToSet(emitted) /\ Continues(f, 1, g)
  <2>1. read \in Seq(Fragment) /\ ToSet(read) \subseteq ToSet(emitted)
    BY <1>1 DEF Readable
  <2> QED
    BY <1>1, <2>1, ChunksTyped
<1>3. f.serial \in DOMAIN emitted /\ emitted[f.serial] = f
  BY <1>2, BySerial DEF CgiInv
<1> HIDE DEF f, g
<1>4. DOMAIN emitted = 1 .. Len(emitted) /\ Len(emitted) \in Nat
  BY DEF CgiInv, CgiSeqs
<1>5. ASSUME f.declared = 2
      PROVE  g.frame = f.frame /\ g.part = 2
  <2>1. g.serial \in DOMAIN emitted /\ emitted[g.serial] = g
    BY <1>2, <1>5, BySerial DEF CgiInv
  <2>2. /\ Len(emitted) <= IndexSpace /\ IndexSpace \in Nat
        /\ g.serial = f.serial + 1 \/ (f.serial = IndexSpace /\ g.serial = 1)
    BY <1>2, <1>5, ContinuesInPlace, LimitsAssumption
  <2>3. CommandCode(g) = "none"
    BY <1>2, <1>5 DEF Continues
  <2>4. f.serial + 1 \in DOMAIN emitted /\ emitted[f.serial + 1].part = 2
    <3>1. CASE "truncated" \notin Shapes
      BY <1>2, <1>3, <1>5, <3>1 DEF CgiInv, FramesInv
    <3>2. CASE Shapes \cap {"split", "raw"} = {}
      <4>1. g.part # 1
        BY <2>1, <2>3, <3>2 DEF CgiInv, FramesInv
      <4>2. g.part = 2
        BY <2>1, <4>1 DEF CgiInv, EmittedInv
      <4>3. g.serial - 1 \in DOMAIN emitted
        BY <2>1, <4>2 DEF CgiInv, FramesInv
      <4>4. g.serial = f.serial + 1
        BY <1>4, <2>2, <4>3
      <4> QED
        BY <2>1, <4>2, <4>4
    <3> QED
      BY <3>1, <3>2 DEF Unambiguous
  <2>5. g.serial = f.serial + 1
    BY <1>3, <1>4, <2>2, <2>4
  <2>6. g.part = 2
    BY <2>1, <2>4, <2>5
  <2>7. /\ g.frame = g.serial + 1 - g.part /\ f.frame = f.serial + 1 - f.part
    BY <1>3, <2>1 DEF CgiInv, EmittedInv
  <2> QED
    BY <1>2, <1>3, <1>4, <2>5, <2>6, <2>7
<1>6. \A n \in DOMAIN response' : n = 1 \/ (n = 2 /\ f.declared = 2)
  BY <1>2
<1> QED
  BY <1>2, <1>5, <1>6 DEF ResponseIsOneFrame, g

(* Every response is one whole frame, for every camera whose truncated      *)
(* frames can be told from those that follow.                               *)
THEOREM ResponsesAreWhole ==
  ASSUME Unambiguous PROVE CgiSpec => []ResponseIsOneFrame
<1>1. CgiInit => ResponseIsOneFrame
  BY DEF CgiInit, ResponseIsOneFrame
<1>2. ASSUME CgiInv, ResponseIsOneFrame, [CgiNext]_cgiVars
      PROVE  ResponseIsOneFrame'
  <2>1. CASE response' = response
    BY <1>2, <2>1 DEF ResponseIsOneFrame
  <2>2. CASE response' = << >>
    BY <2>2 DEF ResponseIsOneFrame
  <2>3. CASE Read /\ response' # response
    <3>1. PICK read : Readable(read) /\ TakeCompleteResponse(read)
      BY <1>2, <2>3, ReadTyped
    <3>2. PICK i \in Starts(read) : response' = Chunks(read[i], read)
      BY <1>2, <2>3, <3>1, Taken
    <3> QED
      BY <1>2, <3>1, <3>2, WholeFrame
  <2> QED
    BY <1>2, <2>1, <2>2, <2>3 DEF CgiNext, Camera, Answer, Volunteer, Emit, Arrive, Send,
       Request, Acknowledged, Overflow, Deadline, Interrupt, Fail, cgiVars, call
<1> QED
  BY <1>1, <1>2, ReceptionInvariant, PTL DEF CgiSpec

(* No repeated fragment answers a later request, as long as the network     *)
(* forgets before the cache does.                                           *)
THEOREM RetransmitsAreRejected == CgiSpec => RetransmitAnswersNothing
<1>1. ASSUME CgiInv, [CgiNext]_cgiVars, response' # response, response' # << >>
      PROVE  response'[1].of = requests \/ response'[1].code \in Unsolicited
  <2>1. Read
    BY <1>1 DEF CgiNext, Camera, Answer, Volunteer, Emit, Arrive, Send, Request,
       Acknowledged, Overflow, Deadline, Interrupt, Fail, cgiVars, call
  <2>2. PICK read : Readable(read) /\ TakeCompleteResponse(read)
    BY <1>1, <2>1, ReadTyped
  <2>3. PICK i \in Starts(read) :
          Matches(read[i].code) /\ response' = Chunks(read[i], read)
    BY <1>1, <2>2, Taken
  <2>4. read \in Seq(Fragment) /\ ToSet(read) \subseteq ToSet(emitted)
    BY <1>1, <2>2 DEF Readable, CgiInv, ReceivedInv
  <2>5. response'[1] = read[i]
    BY <1>1, <2>3, <2>4, ChunksTyped
  <2>6. stage = "reading"
    BY <1>1, <2>1, ReadTyped
  <2> QED
    BY <1>1, <2>2, <2>3, <2>5, <2>6, AnswersItsRequest
<1> QED
  BY <1>1, ReceptionInvariant, PTL DEF CgiSpec, RetransmitAnswersNothing

(* No response is taken after a fragment of its request was dropped.        *)
THEOREM DroppedFragmentsFail == CgiSpec => DroppedMeansFailed
<1>1. ASSUME CgiInv, [CgiNext]_cgiVars, response' # response, response' # << >>
      PROVE  ~discarded
  BY <1>1 DEF CgiInv, OverflowInv, Read, CgiNext, Camera, Answer, Volunteer, Emit, Arrive,
     Send, Request, Acknowledged, Overflow, Deadline, Interrupt, Fail, cgiVars, call
<1> QED
  BY <1>1, ReceptionInvariant, PTL DEF CgiSpec, DroppedMeansFailed
==============================================================================
