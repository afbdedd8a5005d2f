----------------------------- MODULE SelfFilter -----------------------------
(***************************************************************************)
(* The self filter of the messages of type CustomMsg: its parameters and   *)
(* what it removes from a cloud (src/lddc.cpp:71-115, 246-395, 819-961,    *)
(* built for ROS 2).                                                       *)
(*                                                                         *)
(* A point is a record whose field "at" is its place; lengths are in mm.   *)
(* An entry of self_filter_box_filters is [blank, values]: an entry with a *)
(* number that std::stod rejects is one with a wrong number of values, as  *)
(* both throw.  All coordinates are finite.                                *)
(***************************************************************************)
EXTENDS Geometry, Sequences

(* The elements of ks from 1 to n, in ascending order. *)
Ascending(n, ks) ==
  LET list[k \in 0 .. n] ==
        IF k = 0 THEN <<>>
        ELSE IF k \in ks THEN Append(list[k - 1], k)
        ELSE list[k - 1]
  IN list[n]

(* What a loop that passes on the elements of s at the places ks, and skips the
   others, passes on. *)
Subsequence(s, ks) ==
  LET places == Ascending(Len(s), ks)
  IN [k \in DOMAIN places |-> s[places[k]]]

Values(s, first) == <<s[first], s[first + 1], s[first + 2]>>

(* Six values leave out roll, pitch and yaw. *)
ParseBoxFilter(entry) ==
  LET s == entry.values
  IN IF Len(s) = 6
       THEN [center |-> Values(s, 1), rpy |-> <<0, 0, 0>>, size |-> Values(s, 4)]
       ELSE [center |-> Values(s, 1), rpy |-> Values(s, 4), size |-> Values(s, 7)]

(* ParseBoxFilter does not throw. *)
WellFormed(entry) ==
  /\ Len(entry.values) \in {6, 9}
  /\ \A k \in Axes : ParseBoxFilter(entry).size[k] > 0

NotBlank(entry) == ~entry.blank

AtLeastZero(x) == IF x < 0 THEN 0 ELSE x

(* LoadSelfFilterConfigFromRosParams with ConfigureSelfFilterTransform: a bad box
   disables the whole filter. *)
LoadSelfFilterConfig(params) ==
  LET entries == Subsequence(params.box_filters,
                             {k \in DOMAIN params.box_filters : NotBlank(params.box_filters[k])})
      parsed == \A k \in DOMAIN entries : WellFormed(entries[k])
  IN [enabled |-> params.enabled /\ parsed,
      boxes |-> IF parsed THEN [k \in DOMAIN entries |-> ParseBoxFilter(entries[k])] ELSE <<>>,
      box_padding |-> AtLeastZero(params.box_padding),
      lidar_to_base |-> [rotation |-> RotationMatrixFromRpy(params.lidar_to_base.rpy),
                         shift |-> params.lidar_to_base.xyz],
      front_crop |-> params.front_crop,
      min_input_points |-> AtLeastZero(params.min_input_points),
      min_output_points |-> AtLeastZero(params.min_output_points)]

RejectBySelfBoxes(p, filter) ==
  \E k \in DOMAIN filter.boxes : PointInBox(p, filter.boxes[k], filter.box_padding)

RejectByCrop(p, filter) ==
  /\ filter.front_crop.enabled
  /\ \E k \in Axes : p[k] < filter.front_crop.lower[k] \/ p[k] > filter.front_crop.upper[k]

Keep(point, filter) ==
  LET base == TransformPoint(point.at, filter.lidar_to_base.rotation, filter.lidar_to_base.shift)
  IN ~RejectBySelfBoxes(base, filter) /\ ~RejectByCrop(base, filter)

KeptPoints(points, filter) == Subsequence(points, {k \in DOMAIN points : Keep(points[k], filter)})

ApplySelfFilter(points, filter) ==
  LET kept == KeptPoints(points, filter)
  IN IF ~filter.enabled THEN [accepted |-> TRUE, points |-> points]
     ELSE IF Len(points) < filter.min_input_points THEN [accepted |-> FALSE, points |-> points]
     ELSE [accepted |-> Len(kept) >= filter.min_output_points, points |-> kept]

-----------------------------------------------------------------------------
(* What the parameters ask for, in their own terms.                         *)

BoxEntries == [blank : BOOLEAN, values : Seq(Int)]

FilterParams ==
  [enabled : BOOLEAN, box_filters : Seq(BoxEntries), box_padding : Int,
   lidar_to_base : [rpy : Vectors, xyz : Vectors],
   front_crop : [enabled : BOOLEAN, lower : Vectors, upper : Vectors],
   min_input_points : Int, min_output_points : Int]

FilterAsked(params) ==
  /\ params.enabled
  /\ \A k \in DOMAIN params.box_filters :
       NotBlank(params.box_filters[k]) => WellFormed(params.box_filters[k])

InVehicle(point, params) ==
  Shift(Turn(params.lidar_to_base.rpy, point.at), params.lidar_to_base.xyz)

IsBody(point, params) ==
  \E k \in DOMAIN params.box_filters :
    /\ NotBlank(params.box_filters[k])
    /\ BoxHolds(InVehicle(point, params), ParseBoxFilter(params.box_filters[k]),
                AtLeastZero(params.box_padding))

IsCropped(point, params) ==
  LET p == InVehicle(point, params)
  IN /\ params.front_crop.enabled
     /\ ~\A k \in Axes : params.front_crop.lower[k] <= p[k] /\ p[k] <= params.front_crop.upper[k]

Outside(points, params) ==
  Subsequence(points, {k \in DOMAIN points : /\ ~IsBody(points[k], params)
                                             /\ ~IsCropped(points[k], params)})

=============================================================================
