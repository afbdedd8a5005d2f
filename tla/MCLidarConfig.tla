--------------------------- MODULE MCLidarConfig ----------------------------
(* Instances of LidarConfig for TLC.  The lidars of a run without temporal
   properties can be exchanged. *)
EXTENDS LidarConfig, TLC

NoOthers   == {}

WorkAndImu == {WorkMode, Imu}

LidarSymmetry == Permutations(Handles)
=============================================================================
