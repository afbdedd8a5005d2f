----------------------------- MODULE MCDelivery -----------------------------
(* Instance of Delivery for TLC.  A list has no capacity: on the IMU path Cap
   bounds the exploration only, because no sample is ever refused. *)
EXTENDS Delivery
=============================================================================
