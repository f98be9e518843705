---------------------------- MODULE FrameChannel ----------------------------
(***************************************************************************)
(* What the receive ring of the Ethernet driver promises its reader: the   *)
(* frames come out in the order they arrived, each at most once and as     *)
(* they arrived; a frame that finds Capacity frames waiting is lost.       *)
(***************************************************************************)
EXTENDS Naturals, Sequences

CONSTANTS Frames, Capacity, NULL

VARIABLES
  waiting,   \* received frames not read yet, the oldest first
  taken      \* the frame the reader has just read

Init == waiting = <<>> /\ taken = NULL

Arrive(f) ==
  /\ Len(waiting) < Capacity
  /\ waiting' = Append(waiting, f)
  /\ UNCHANGED taken

Take ==
  /\ waiting # <<>>
  /\ taken = NULL
  /\ taken' = Head(waiting)
  /\ waiting' = Tail(waiting)

Dispose ==
  /\ taken # NULL
  /\ taken' = NULL
  /\ UNCHANGED waiting

Next == Take \/ Dispose \/ \E f \in Frames : Arrive(f)

Spec == Init /\ [][Next]_<<waiting, taken>>
=============================================================================
