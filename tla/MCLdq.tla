------------------------------- MODULE MCLdq -------------------------------
(* Instance of Ldq for TLC: frames are model values.                         *)
EXTENDS Ldq, TLC

(* Frames are only ever copied and compared, so they can be permuted. *)
FrameSymmetry == Permutations(Frames)

=============================================================================
