----------------------------- MODULE MCDataPath -----------------------------
(***************************************************************************)
(* Instances of DataPath for TLC: each set-up is one question about the    *)
(* way of the data, and Setups is all of them together.                    *)
(***************************************************************************)
EXTENDS DataPath

Turns == 0 .. 3
Rpys == Turns \X Turns \X Turns

Values9(center, rpy, size) == [blank |-> FALSE, values |-> center \o rpy \o size]
Values6(center, size) == [blank |-> FALSE, values |-> center \o size]
Blank == [blank |-> TRUE, values |-> <<>>]

NoCrop == [enabled |-> FALSE, lower |-> <<0, 0, 0>>, upper |-> <<0, 0, 0>>]

FilterOff ==
  [enabled |-> FALSE, box_filters |-> <<>>, box_padding |-> 0,
   lidar_to_base |-> [rpy |-> <<0, 0, 0>>, xyz |-> <<0, 0, 0>>], front_crop |-> NoCrop,
   min_input_points |-> 0, min_output_points |-> 0]

(* One lidar at 10 Hz that sends one packet of millimetres. *)
Base ==
  [publish_freq |-> 20, xfer_format |-> CustomMsg, multi_topic |-> FALSE,
   filter |-> FilterOff, lidar_configs |-> << [ip |-> 1, pcl_data_type |-> High] >>,
   senders |-> {1}, kinds |-> {High}, clouds |-> {<< <<1, 2, 3>> >>}, stamps |-> {5}, packets |-> 1]

(* Every publish_freq from nonsense to nonsense. *)
Rates ==
  {[Base EXCEPT !.publish_freq = f]
     : f \in {-8, 0, 1, 2, 3, 19, 20, 21, 33, 63, 64, 120, 199, 200, 201, 4000}}

(* Every rotation of a lidar, in every type of data. *)
Extrinsics(rpy) ==
  [roll |-> rpy[1], pitch |-> rpy[2], yaw |-> rpy[3], x |-> 105, y |-> -47, z |-> 9]

Mountings ==
  {[Base EXCEPT !.lidar_configs = << [ip |-> 1, pcl_data_type |-> kind,
                                      extrinsic_parameter |-> Extrinsics(rpy)] >>,
                !.kinds = {kind},
                !.clouds = {<< <<11, 2, 30>>, <<7, 1, 2>>, <<4, 3, 1>>, <<-5, 2, 3>> >>}]
     : kind \in Kinds, rpy \in Rpys}

(* Every rotation of a box and every mounting, against all points of a cube. *)
Cube ==
  [k \in 1 .. 343 |-> <<((k - 1) % 7) - 3, (((k - 1) \div 7) % 7) - 3, ((k - 1) \div 49) - 3>>]

Filter(boxes, mounting, padding, crop) ==
  [enabled |-> TRUE, box_filters |-> boxes, box_padding |-> padding,
   lidar_to_base |-> [rpy |-> mounting, xyz |-> <<1, -1, 0>>], front_crop |-> crop,
   min_input_points |-> 0, min_output_points |-> 0]

Crop == [enabled |-> TRUE, lower |-> <<-2, -3, -1>>, upper |-> <<3, 1, 2>>]

BodyFilters ==
  {Filter(<<Values9(<<1, 0, -1>>, box, <<2, 3, 6>>)>>, <<0, 0, yaw>>, 0, NoCrop)
     : box \in Rpys, yaw \in {0, 1}}
  \cup
  {Filter(<<Blank, Values6(<<1, 1, -1>>, <<1, 2, 3>>),
            Values9(<<-2, -1, 0>>, <<1, 0, 1>>, <<1, 1, 4>>)>>,
          mounting, padding, crop)
     : mounting \in Rpys, padding \in {-1, 1}, crop \in {NoCrop, Crop}}

Bodies == {[Base EXCEPT !.filter = f, !.clouds = {Cube}] : f \in BodyFilters}

(* Configuration files: entries that are repeated, incomplete or too many. *)
Entry(h, kind, shift) ==
  [ip |-> h, pcl_data_type |-> kind, extrinsic_parameter |-> [yaw |-> 1, x |-> shift]]

Files ==
  {<< Entry(1, High, 20), Entry(2, Low, 35), Entry(3, High, 40) >>,
   << Entry(1, High, 20), Entry(2, Low, 35), Entry(1, Low, -77) >>,
   << [pcl_data_type |-> Low], Entry(2, High, 5), [ip |-> 1] >>,
   << Entry(2, High, 10), Entry(2, Low, 25) >>,
   << [pcl_data_type |-> High] >>}

Pipelines ==
  {[Base EXCEPT !.lidar_configs = file, !.multi_topic = multi, !.senders = Handles,
                !.kinds = {High, Low}, !.packets = 2, !.clouds = {<< <<1, 2, 3>> >>}]
     : file \in Files, multi \in BOOLEAN}

(* Limits on the number of points, a bad box and the other format. *)
Limits ==
  {[Base EXCEPT !.filter = [Filter(boxes, <<0, 0, 0>>, 0, NoCrop)
                              EXCEPT !.min_input_points = least[1], !.min_output_points = least[2]],
                !.xfer_format = format, !.packets = 2,
                !.stamps = {5, 13, 43},
                !.clouds = {<< <<0, 1, 0>>, <<5, 0, 0>> >>,
                            << <<5, 0, 0>>, <<0, 1, 0>>, <<6, 0, 0>> >>}]
     : boxes \in {<< Values6(<<1, 0, 0>>, <<1, 1, 1>>) >>,
                  << Values6(<<1, 0, 0>>, <<1, 1, 1>>), Values6(<<5, 0, 0>>, <<9, 0, 9>>) >>,
                  << Values6(<<1, 0, 0>>, <<1, 1, 1>>), [blank |-> FALSE, values |-> <<1, 2>>] >>},
       least \in {<<0, 0>>, <<3, 1>>, <<0, 2>>, <<-4, 3>>},
       format \in {PointCloud2, CustomMsg}}

AllSetups == Rates \cup Mountings \cup Bodies \cup Pipelines \cup Limits

(* A lidar whose entry leaves the type of data as it is, which is centimetres. *)
UnsetType ==
  {[Base EXCEPT !.lidar_configs = << [ip |-> 1, pattern_mode |-> 0,
                                      extrinsic_parameter |-> [x |-> 500]] >>,
                !.kinds = {Low}, !.packets = 2]}
=============================================================================
