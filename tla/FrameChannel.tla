---------------------------- MODULE FrameChannel ----------------------------
(***************************************************************************)
(* What the frame queue of one lidar promises to the rest of the driver,   *)
(* with no ring, no indices and no threads: a first-in first-out channel   *)
(* of at most Capacity frames.  A frame that is offered while the channel  *)
(* is full is refused (the newest frame is lost, never one that was        *)
(* already accepted), and every accepted frame is handed to the poll       *)
(* thread once, whole and in order.                                        *)
(*                                                                         *)
(* Ldq.tla is shown to implement this module.                              *)
(***************************************************************************)
EXTENDS Naturals, Sequences

CONSTANTS
  Frames,    (* the frames that can be offered                      *)
  Capacity,  (* the number of frames the channel holds              *)
  NoFrame    (* "nothing received yet"                              *)

VARIABLES
  chan,      (* the frames accepted and not yet received            *)
  out,       (* the last frame the poll thread received             *)
  refused    (* TRUE iff the last frame offered was refused         *)

vars == <<chan, out, refused>>

Init ==
  /\ chan = <<>>
  /\ out = NoFrame
  /\ refused = FALSE

(* A frame is accepted. *)
Send(f) ==
  /\ Len(chan) < Capacity
  /\ chan' = Append(chan, f)
  /\ refused' = FALSE
  /\ UNCHANGED out

(* A frame is lost, which may happen to a full channel only. *)
Refuse ==
  /\ Len(chan) = Capacity
  /\ refused' = TRUE
  /\ UNCHANGED <<chan, out>>

(* The oldest frame is received. *)
Receive ==
  /\ chan # <<>>
  /\ out' = Head(chan)
  /\ chan' = Tail(chan)
  /\ UNCHANGED refused

Next == (\E f \in Frames : Send(f)) \/ Refuse \/ Receive

Spec == Init /\ [][Next]_vars

=============================================================================
