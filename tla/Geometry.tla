------------------------------ MODULE Geometry ------------------------------
(***************************************************************************)
(* The rigid transformations of the driver (src/lddc.cpp:117-162 and       *)
(* src/comm/pub_handler.cpp:352-380) and what they are meant to be.        *)
(*                                                                         *)
(* Angles are quarter turns and lengths are integers.  Every coordinate is *)
(* linear in the sine and cosine of each angle, a combination of           *)
(* 1, cos and sin that is zero at all quarter turns is zero everywhere,    *)
(* and so formulas that agree at these angles agree at all.  Rounding is   *)
(* left out.                                                               *)
(***************************************************************************)
EXTENDS Integers

Axes == 1 .. 3

Vectors == Int \X Int \X Int

Abs(x) == IF x < 0 THEN -x ELSE x

Cos(q) == CASE q % 4 = 0 -> 1 [] q % 4 = 2 -> -1 [] OTHER -> 0
Sin(q) == CASE q % 4 = 1 -> 1 [] q % 4 = 3 -> -1 [] OTHER -> 0

Dot(u, v) == u[1] * v[1] + u[2] * v[2] + u[3] * v[3]

-----------------------------------------------------------------------------
(* What the code computes.                                                  *)

RotationMatrixFromRpy(rpy) ==
  LET cr == Cos(rpy[1])  sr == Sin(rpy[1])
      cp == Cos(rpy[2])  sp == Sin(rpy[2])
      cy == Cos(rpy[3])  sy == Sin(rpy[3])
  IN << <<cy * cp, cy * sp * sr - sy * cr, cy * sp * cr + sy * sr>>,
        <<sy * cp, sy * sp * sr + cy * cr, sy * sp * cr - cy * sr>>,
        <<-sp,     cp * sr,                cp * cr               >> >>

(* The rotation of a lidar's extrinsics, written out a second time. *)
ExtrinsicRotation(rpy) ==
  LET cr == Cos(rpy[1])  sr == Sin(rpy[1])
      cp == Cos(rpy[2])  sp == Sin(rpy[2])
      cy == Cos(rpy[3])  sy == Sin(rpy[3])
  IN << <<cp * cy, sr * sp * cy - cr * sy, cr * sp * cy + sr * sy>>,
        <<cp * sy, sr * sp * sy + cr * cy, cr * sp * sy - sr * cy>>,
        <<-sp,     sr * cp,                cr * cp               >> >>

(* A point in a frame that is rotated and then shifted. *)
TransformPoint(p, rotation, shift) ==
  <<Dot(rotation[1], p) + shift[1],
    Dot(rotation[2], p) + shift[2],
    Dot(rotation[3], p) + shift[3]>>

(* Mutated form of PointInBox: the box turns the wrong way. *)
PointInBox_Transposed(p, box, padding) ==
  LET m == RotationMatrixFromRpy(box.rpy)
      d == <<p[1] - box.center[1], p[2] - box.center[2], p[3] - box.center[3]>>
  IN \A k \in Axes : 2 * Abs(Dot(m[k], d)) <= box.size[k] + 2 * padding

(* The point in the frame of the box: the transposed rotation. *)
PointInBox(p, box, padding) ==
  LET m == RotationMatrixFromRpy(box.rpy)
      d == <<p[1] - box.center[1], p[2] - box.center[2], p[3] - box.center[3]>>
  IN \A k \in Axes : 2 * Abs(Dot(<<m[1][k], m[2][k], m[3][k]>>, d)) <= box.size[k] + 2 * padding

-----------------------------------------------------------------------------
(* What it is meant to be: turns about the fixed axes x, y and z, in this   *)
(* order.                                                                   *)

TurnX(q, p) == <<p[1], Cos(q) * p[2] - Sin(q) * p[3], Sin(q) * p[2] + Cos(q) * p[3]>>
TurnY(q, p) == <<Cos(q) * p[1] + Sin(q) * p[3], p[2], Cos(q) * p[3] - Sin(q) * p[1]>>
TurnZ(q, p) == <<Cos(q) * p[1] - Sin(q) * p[2], Sin(q) * p[1] + Cos(q) * p[2], p[3]>>

Turn(rpy, p) == TurnZ(rpy[3], TurnY(rpy[2], TurnX(rpy[1], p)))

Shift(p, v) == <<p[1] + v[1], p[2] + v[2], p[3] + v[3]>>

(* A box holds the points that come out when those about the origin are turned
   and shifted like the box: the turns are undone in the opposite order. *)
BoxHolds(p, box, padding) ==
  LET d == Shift(p, <<-box.center[1], -box.center[2], -box.center[3]>>)
      l == TurnX(-box.rpy[1], TurnY(-box.rpy[2], TurnZ(-box.rpy[3], d)))
  IN \A k \in Axes :
       /\ 2 * l[k] <= box.size[k] + 2 * padding
       /\ 2 * l[k] >= -(box.size[k] + 2 * padding)
=============================================================================
