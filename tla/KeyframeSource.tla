--------------------------- MODULE KeyframeSource ---------------------------
(***************************************************************************)
(* What the caller of PpppVideoKeyframeAssembler.feed() relies on: the     *)
(* bytes it gets are one complete key access unit of the camera, never a   *)
(* mixture of two and never one with a hole, and units come out in the     *)
(* camera's order, each at most once.                                      *)
(***************************************************************************)
EXTENDS Integers, Sequences

CONSTANTS MaxIndex, MaxAuSize

Index == 0 .. MaxIndex

VARIABLES
  stream,    (* the chunks the camera produced, by index                    *)
  position,  (* the newest chunk accounted for                              *)
  keyframe   (* the chunks whose bytes were returned last                   *)

vars == <<stream, position, keyframe>>

Init ==
  /\ DOMAIN stream = Index        (* whatever those chunks hold *)
  /\ position = -1
  /\ keyframe = << >>

(* A complete key unit: one boundary announcing an independent frame of an  *)
(* acceptable size, then the chunks that fill it exactly.                   *)
KeyUnit(first, last) ==
  /\ first <= last
  /\ stream[first].boundary /\ stream[first].whole
  /\ stream[first].type = 0
  /\ stream[first].declared \in 1 .. MaxAuSize
  /\ stream[last].at + stream[last].body - stream[first].at
       = stream[first].declared
  /\ \A i \in first + 1 .. last : ~stream[i].boundary

(* Chunks go by without completing a key unit.                              *)
Skip ==
  /\ position' \in position .. MaxIndex
  /\ UNCHANGED <<stream, keyframe>>

Deliver(first, last) ==
  /\ KeyUnit(first, last)
  /\ \A k \in 1 .. Len(keyframe) : keyframe[k] < first
  /\ position < last
  /\ position' = last
  /\ keyframe' = [k \in 1 .. last - first + 1 |-> first + k - 1]
  /\ UNCHANGED stream

Next == Skip \/ \E first, last \in Index : Deliver(first, last)

Spec == Init /\ [][Next]_vars
=============================================================================
