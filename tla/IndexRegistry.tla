--------------------------- MODULE IndexRegistry ---------------------------
(***************************************************************************)
(* What the index registry promises to its callers: every lidar has at     *)
(* most one index, no index has two lidars, and an index once given is     *)
(* never taken back.                                                       *)
(***************************************************************************)
CONSTANTS Handles, Indices, None

VARIABLE assigned   (* the index of each lidar, or None *)

Init == assigned = [h \in Handles |-> None]

Assign(h, i) ==
  /\ assigned[h] = None
  /\ \A g \in Handles : assigned[g] # i
  /\ assigned' = [assigned EXCEPT ![h] = i]

Next == \E h \in Handles, i \in Indices : Assign(h, i)

Spec == Init /\ [][Next]_assigned
=============================================================================
