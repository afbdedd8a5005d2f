--------------------------- MODULE SelfFilterProofs --------------------------
(***************************************************************************)
(* The transformations of the driver are the ones they are meant to be,    *)
(* for all points and boxes and for all quarter turns; and the self filter *)
(* keeps exactly the points it is asked to keep, of every cloud.  Only the *)
(* box uses that angles are quarter turns: the matrices are right for any  *)
(* sine and cosine.                                                        *)
(***************************************************************************)
EXTENDS SelfFilter, WellFoundedInduction, TLAPS

(* Induction, with a set in place of a predicate. *)

Smaller == OpToRel(<, Nat)

LEMMA SmallerIsLess == Smaller = {p \in Nat \X Nat : p[1] < p[2]}
BY DEF Smaller, OpToRel

LEMMA LeastElement ==
  ASSUME NEW T \in SUBSET Nat, T # {}
  PROVE  \E m \in T : \A n \in T : m <= n
<1>1. IsWellFoundedOn(Smaller, Nat)
  BY NatLessThanWellFounded, Zenon DEF Smaller
<1>2. PICK m \in T : \A n \in T : ~(<<n, m>> \in Smaller)
  BY <1>1, WFMin, Zenon
<1>3. ASSUME NEW n \in T PROVE m <= n
  <2>1. ~(<<n, m>> \in Smaller)
    BY <1>2
  <2>2. n \in Nat /\ m \in Nat
    OBVIOUS
  <2>3. ~(n < m)
    BY <2>1, <2>2, SmallerIsLess
  <2> QED BY <2>2, <2>3
<1> QED BY <1>3

LEMMA AllNaturals ==
  ASSUME NEW T \in SUBSET Nat, 0 \in T, \A n \in T : n + 1 \in T
  PROVE  T = Nat
<1> SUFFICES ASSUME Nat \ T # {} PROVE FALSE
  OBVIOUS
<1>1. PICK m \in Nat \ T : \A n \in Nat \ T : m <= n
  <2>1. Nat \ T \in SUBSET Nat
    OBVIOUS
  <2> QED BY <2>1, LeastElement
<1>2. m # 0 /\ m - 1 \in Nat
  OBVIOUS
<1>3. m - 1 \in T
  BY <1>1, <1>2
<1>4. (m - 1) + 1 = m
  BY <1>2
<1> QED BY <1>3, <1>4

-----------------------------------------------------------------------------
(* The places that a loop passes on. *)

IsList(list, n, ks) ==
  list = [k \in 0 .. n |->
            IF k = 0 THEN <<>>
            ELSE IF k \in ks THEN Append(list[k - 1], k)
            ELSE list[k - 1]]

(* The recursion defines a function. *)
LEMMA ListExists ==
  ASSUME NEW ks
  PROVE  \A n \in Nat : \E list : IsList(list, n, ks)
<1> DEFINE T == {n \in Nat : \E list : IsList(list, n, ks)}
<1>1. 0 \in T
  <2>1. IsList([k \in 0 .. 0 |-> <<>>], 0, ks)
    BY DEF IsList
  <2> QED BY <2>1
<1>2. ASSUME NEW n \in T PROVE n + 1 \in T
  <2>1. PICK list : IsList(list, n, ks)
    OBVIOUS
  <2> DEFINE last == IF n + 1 \in ks THEN Append(list[n], n + 1) ELSE list[n]
             longer == [k \in 0 .. n + 1 |-> IF k = n + 1 THEN last ELSE list[k]]
  <2>2. ASSUME NEW k \in 0 .. n + 1
        PROVE  longer[k] = IF k = 0 THEN <<>>
                           ELSE IF k \in ks THEN Append(longer[k - 1], k)
                           ELSE longer[k - 1]
    <3>1. CASE k = n + 1
      <4>1. k - 1 = n /\ n # n + 1 /\ n \in 0 .. n + 1 /\ k # 0
        BY <3>1
      <4>2. longer[k] = last /\ longer[k - 1] = list[n]
        BY <3>1, <4>1
      <4> HIDE DEF longer
      <4> QED BY <3>1, <4>1, <4>2
    <3>2. CASE k \in 0 .. n
      <4>1. longer[k] = list[k]
        BY <3>2
      <4>2. k # 0 => longer[k - 1] = list[k - 1]
        BY <3>2
      <4>3. list[k] = IF k = 0 THEN <<>> ELSE IF k \in ks THEN Append(list[k - 1], k)
                      ELSE list[k - 1]
        BY <2>1, <3>2 DEF IsList
      <4> HIDE DEF longer
      <4> QED BY <4>1, <4>2, <4>3
    <3> QED BY <3>1, <3>2
  <2>3. longer = [k \in 0 .. n + 1 |->
                    IF k = 0 THEN <<>>
                    ELSE IF k \in ks THEN Append(longer[k - 1], k)
                    ELSE longer[k - 1]]
    <3> DEFINE body(k) == IF k = 0 THEN <<>>
                          ELSE IF k \in ks THEN Append(longer[k - 1], k)
                          ELSE longer[k - 1]
    <3>1. \A k \in 0 .. n + 1 : longer[k] = body(k)
      BY <2>2
    <3>2. longer = [k \in 0 .. n + 1 |-> longer[k]]
      OBVIOUS
    <3> HIDE DEF longer, body
    <3>3. longer = [k \in 0 .. n + 1 |-> body(k)]
      BY <3>1, <3>2
    <3> QED BY <3>3 DEF body
  <2>4. IsList(longer, n + 1, ks)
    BY <2>3 DEF IsList
  <2> QED BY <2>4
<1>3. T = Nat
  <2> HIDE DEF T
  <2>1. T \in SUBSET Nat
    BY DEF T
  <2> QED BY <1>1, <1>2, <2>1, AllNaturals
<1> QED BY <1>3

LEMMA SeqElements ==
  ASSUME NEW S, NEW s \in Seq(S)
  PROVE  Len(s) \in Nat /\ DOMAIN s = 1 .. Len(s) /\ \A i \in DOMAIN s : s[i] \in S
OBVIOUS

(* s has the elements of ks up to n, each once and in order. *)
Picks(s, n, ks) ==
  /\ s \in Seq(1 .. n)
  /\ \A i \in DOMAIN s : s[i] \in ks
  /\ \A k \in ks \cap 1 .. n : \E i \in DOMAIN s : s[i] = k
  /\ \A i, j \in DOMAIN s : i < j => s[i] < s[j]

LEMMA PicksNext ==
  ASSUME NEW n \in Nat, NEW ks, NEW s, Picks(s, n, ks)
  PROVE  /\ n + 1 \in ks => Picks(Append(s, n + 1), n + 1, ks)
         /\ n + 1 \notin ks => Picks(s, n + 1, ks)
<1>1. s \in Seq(1 .. n + 1) /\ Len(s) \in Nat /\ DOMAIN s = 1 .. Len(s)
  BY DEF Picks
<1>2. ASSUME n + 1 \in ks PROVE Picks(Append(s, n + 1), n + 1, ks)
  <2> DEFINE t == Append(s, n + 1)
  <2>1. /\ t \in Seq(1 .. n + 1) /\ DOMAIN t = 1 .. Len(s) + 1
        /\ t[Len(s) + 1] = n + 1 /\ \A i \in 1 .. Len(s) : t[i] = s[i]
    BY <1>1
  <2>2. \A i \in 1 .. Len(s) : s[i] \in 1 .. n /\ s[i] \in ks
    BY <1>1 DEF Picks
  <2> HIDE DEF t
  <2>3. \A i \in DOMAIN t : t[i] \in ks
    BY <1>1, <1>2, <2>1, <2>2
  <2>4. ASSUME NEW k \in ks \cap 1 .. n + 1 PROVE \E i \in DOMAIN t : t[i] = k
    <3>1. CASE k = n + 1
      BY <1>1, <2>1, <3>1
    <3>2. CASE k \in 1 .. n
      BY <1>1, <2>1, <3>2 DEF Picks
    <3> QED BY <3>1, <3>2
  <2>5. ASSUME NEW i \in DOMAIN t, NEW j \in DOMAIN t, i < j PROVE t[i] < t[j]
    <3> DEFINE last == Len(s)
    <3>1. last \in Nat /\ i \in 1 .. last + 1 /\ j \in 1 .. last + 1 /\ i < j
      BY <1>1, <2>1, <2>5
    <3>2. i \in 1 .. last /\ (j = last + 1 \/ j \in 1 .. last)
      <4> HIDE DEF last
      <4> QED BY <3>1
    <3>3. CASE j = last + 1
      <4>1. t[i] \in 1 .. n
        BY <2>1, <2>2, <3>2
      <4> QED BY <2>1, <3>3, <4>1
    <3>4. CASE j \in 1 .. last
      <4>1. s[i] < s[j]
        BY <1>1, <2>5, <3>2, <3>4 DEF Picks
      <4> QED BY <2>1, <3>2, <3>4, <4>1
    <3> QED BY <3>2, <3>3, <3>4
  <2> QED BY <2>1, <2>3, <2>4, <2>5 DEF Picks, t
<1>3. ASSUME n + 1 \notin ks PROVE Picks(s, n + 1, ks)
  <2>1. ks \cap 1 .. n + 1 = ks \cap 1 .. n
    BY <1>3
  <2> QED BY <1>1, <2>1 DEF Picks
<1> QED BY <1>2, <1>3

(* Ascending lists the set, each element once and in order, for every length. *)
LEMMA AscendingPicks ==
  ASSUME NEW n \in Nat, NEW ks
  PROVE  Picks(Ascending(n, ks), n, ks)
<1> DEFINE list == CHOOSE list : IsList(list, n, ks)
<1>1. IsList(list, n, ks)
  BY ListExists
<1>2. Ascending(n, ks) = list[n]
  BY DEF Ascending, IsList
<1> HIDE DEF list
<1> DEFINE T == {k \in Nat : k <= n => Picks(list[k], k, ks)}
<1>3. 0 \in T
  <2>1. list[0] = <<>>
    BY <1>1 DEF IsList
  <2>2. <<>> \in Seq(1 .. 0) /\ DOMAIN <<>> = {} /\ 1 .. 0 = {}
    OBVIOUS
  <2>3. Picks(<<>>, 0, ks)
    BY <2>2 DEF Picks
  <2> QED BY <2>1, <2>3
<1>4. ASSUME NEW k \in T PROVE k + 1 \in T
  <2>1. SUFFICES ASSUME k + 1 <= n PROVE Picks(list[k + 1], k + 1, ks)
    OBVIOUS
  <2>2. Picks(list[k], k, ks) /\ k \in Nat
    BY <2>1
  <2>3. list[k + 1] = IF k + 1 \in ks THEN Append(list[k], k + 1) ELSE list[k]
    <3>1. k + 1 \in 0 .. n /\ k + 1 # 0 /\ (k + 1) - 1 = k
      BY <2>1, <2>2
    <3> QED BY <1>1, <3>1 DEF IsList
  <2> QED BY <2>2, <2>3, PicksNext
<1>5. T = Nat
  <2> HIDE DEF T
  <2>1. T \in SUBSET Nat
    BY DEF T
  <2> QED BY <1>3, <1>4, <2>1, AllNaturals
<1> QED BY <1>2, <1>5

(* A loop that skips some elements passes on the others, in their order. *)
Passes(t, places, s, ks) ==
  /\ Len(places) \in Nat /\ Len(t) = Len(places)
  /\ DOMAIN t = 1 .. Len(places) /\ DOMAIN places = 1 .. Len(places)
  /\ \A i \in DOMAIN t : places[i] \in DOMAIN s /\ places[i] \in ks /\ t[i] = s[places[i]]
  /\ \A k \in ks \cap DOMAIN s : \E i \in DOMAIN t : places[i] = k
  /\ \A i, j \in DOMAIN t : i < j => places[i] < places[j]

LEMMA SubsequencePasses ==
  ASSUME NEW S, NEW s \in Seq(S), NEW ks
  PROVE  /\ Subsequence(s, ks) \in Seq(S)
         /\ Passes(Subsequence(s, ks), Ascending(Len(s), ks), s, ks)
<1> DEFINE n == Len(s)
           places == Ascending(n, ks)
           t == [i \in DOMAIN places |-> s[places[i]]]
<1>1. n \in Nat /\ DOMAIN s = 1 .. n
  OBVIOUS
<1>2. Picks(places, n, ks)
  BY <1>1, AscendingPicks
<1>3. Subsequence(s, ks) = t
  BY DEF Subsequence
<1> HIDE DEF places, n
<1>4. /\ places \in Seq(1 .. n) /\ Len(places) \in Nat /\ DOMAIN places = 1 .. Len(places)
      /\ \A i \in DOMAIN places : places[i] \in 1 .. n
  <2>1. places \in Seq(1 .. n)
    BY <1>2 DEF Picks
  <2> QED BY <2>1, SeqElements
<1>5. \A i \in 1 .. Len(places) : s[places[i]] \in S
  BY <1>1, <1>4
<1>6. t \in Seq(S) /\ Len(t) = Len(places) /\ DOMAIN t = 1 .. Len(places)
  BY <1>4, <1>5
<1>7. \A i \in DOMAIN t : t[i] = s[places[i]]
  BY <1>4
<1> HIDE DEF t
<1>8. \A i \in DOMAIN t : places[i] \in DOMAIN s /\ places[i] \in ks
  BY <1>1, <1>2, <1>4, <1>6 DEF Picks
<1>9. \A k \in ks \cap DOMAIN s : \E i \in DOMAIN t : places[i] = k
  BY <1>1, <1>2, <1>4, <1>6 DEF Picks
<1>10. \A i, j \in DOMAIN t : i < j => places[i] < places[j]
  BY <1>2, <1>4, <1>6 DEF Picks
<1>11. Passes(t, places, s, ks)
  BY <1>4, <1>6, <1>7, <1>8, <1>9, <1>10 DEF Passes
<1> QED BY <1>3, <1>6, <1>11 DEF places, n

-----------------------------------------------------------------------------
LEMMA TurnInt == \A q \in Int : Cos(q) \in Int /\ Sin(q) \in Int
BY DEF Cos, Sin

-----------------------------------------------------------------------------
(* The rows of the two matrices, for any numbers in place of the sines and
   cosines. *)

LEMMA MatrixRows ==
  ASSUME NEW cr \in Int, NEW sr \in Int, NEW cp \in Int, NEW sp \in Int,
         NEW cy \in Int, NEW sy \in Int, NEW x \in Int, NEW y \in Int, NEW z \in Int
  PROVE  /\ (cy * cp) * x + (cy * sp * sr - sy * cr) * y + (cy * sp * cr + sy * sr) * z
              = cy * (cp * x + sp * (sr * y + cr * z)) - sy * (cr * y - sr * z)
         /\ (sy * cp) * x + (sy * sp * sr + cy * cr) * y + (sy * sp * cr - cy * sr) * z
              = sy * (cp * x + sp * (sr * y + cr * z)) + cy * (cr * y - sr * z)
         /\ (-sp) * x + (cp * sr) * y + (cp * cr) * z
              = cp * (sr * y + cr * z) - sp * x
OBVIOUS

LEMMA ExtrinsicRows ==
  ASSUME NEW cr \in Int, NEW sr \in Int, NEW cp \in Int, NEW sp \in Int,
         NEW cy \in Int, NEW sy \in Int, NEW x \in Int, NEW y \in Int, NEW z \in Int
  PROVE  /\ (cp * cy) * x + (sr * sp * cy - cr * sy) * y + (cr * sp * cy + sr * sy) * z
              = cy * (cp * x + sp * (sr * y + cr * z)) - sy * (cr * y - sr * z)
         /\ (cp * sy) * x + (sr * sp * sy + cr * cy) * y + (cr * sp * sy - sr * cy) * z
              = sy * (cp * x + sp * (sr * y + cr * z)) + cy * (cr * y - sr * z)
         /\ (-sp) * x + (sr * cp) * y + (cr * cp) * z
              = cp * (sr * y + cr * z) - sp * x
OBVIOUS

(* Roll, pitch and yaw, spelled out. *)
LEMMA TurnRows ==
  ASSUME NEW rpy \in Vectors, NEW p \in Vectors
  PROVE  LET cr == Cos(rpy[1])  sr == Sin(rpy[1])
             cp == Cos(rpy[2])  sp == Sin(rpy[2])
             cy == Cos(rpy[3])  sy == Sin(rpy[3])
             u == cp * p[1] + sp * (sr * p[2] + cr * p[3])
             v == cr * p[2] - sr * p[3]
         IN Turn(rpy, p) = <<cy * u - sy * v, sy * u + cy * v,
                             cp * (sr * p[2] + cr * p[3]) - sp * p[1]>>
BY DEF Turn, TurnX, TurnY, TurnZ

(* The matrix of roll, pitch and yaw turns a point about the x, the y and the z
   axis, for the mounting and the boxes of the self filter
   (lddc.cpp:117-147). *)
THEOREM RotationIsTurn ==
  ASSUME NEW rpy \in Vectors, NEW p \in Vectors, NEW v \in Vectors
  PROVE  TransformPoint(p, RotationMatrixFromRpy(rpy), v) = Shift(Turn(rpy, p), v)
<1>1. /\ Cos(rpy[1]) \in Int /\ Sin(rpy[1]) \in Int /\ Cos(rpy[2]) \in Int
      /\ Sin(rpy[2]) \in Int /\ Cos(rpy[3]) \in Int /\ Sin(rpy[3]) \in Int
      /\ p[1] \in Int /\ p[2] \in Int /\ p[3] \in Int
  BY TurnInt DEF Vectors
<1> QED
  BY <1>1, MatrixRows, TurnRows DEF TransformPoint, RotationMatrixFromRpy, Dot, Shift

(* The same for the extrinsics of a lidar (pub_handler.cpp:352-408). *)
THEOREM ExtrinsicIsTurn ==
  ASSUME NEW rpy \in Vectors, NEW p \in Vectors, NEW v \in Vectors
  PROVE  TransformPoint(p, ExtrinsicRotation(rpy), v) = Shift(Turn(rpy, p), v)
<1>1. /\ Cos(rpy[1]) \in Int /\ Sin(rpy[1]) \in Int /\ Cos(rpy[2]) \in Int
      /\ Sin(rpy[2]) \in Int /\ Cos(rpy[3]) \in Int /\ Sin(rpy[3]) \in Int
      /\ p[1] \in Int /\ p[2] \in Int /\ p[3] \in Int
  BY TurnInt DEF Vectors
<1> QED
  BY <1>1, ExtrinsicRows, TurnRows DEF TransformPoint, ExtrinsicRotation, Dot, Shift

-----------------------------------------------------------------------------
LEMMA TurnedVector ==
  ASSUME NEW rpy \in Vectors, NEW p \in Vectors, NEW v \in Vectors
  PROVE  Turn(rpy, p) \in Vectors /\ Shift(Turn(rpy, p), v) \in Vectors
<1>1. rpy[1] \in Int /\ rpy[2] \in Int /\ rpy[3] \in Int
  BY DEF Vectors
<1>2. \A q \in Int, w \in Vectors : /\ TurnX(q, w) \in Vectors /\ TurnY(q, w) \in Vectors
                                   /\ TurnZ(q, w) \in Vectors
  BY TurnInt DEF TurnX, TurnY, TurnZ, Vectors
<1>3. Turn(rpy, p) \in Vectors
  BY <1>1, <1>2 DEF Turn
<1>4. \A w \in Vectors : Shift(w, v) \in Vectors
  BY DEF Shift, Vectors
<1> QED BY <1>3, <1>4

LEMMA OppositeTurns == \A q \in Int : Cos(-q) = Cos(q) /\ Sin(-q) = -Sin(q)
BY DEF Cos, Sin

LEMMA MatrixColumns ==
  ASSUME NEW cr \in Int, NEW sr \in Int, NEW cp \in Int, NEW sp \in Int,
         NEW cy \in Int, NEW sy \in Int, NEW x \in Int, NEW y \in Int, NEW z \in Int
  PROVE  LET u == cy * x - (-sy) * y
             v == (-sy) * x + cy * y
             w == cp * z - (-sp) * u
         IN /\ (cy * cp) * x + (sy * cp) * y + (-sp) * z = cp * u + (-sp) * z
            /\ (cy * sp * sr - sy * cr) * x + (sy * sp * sr + cy * cr) * y + (cp * sr) * z
                 = cr * v - (-sr) * w
            /\ (cy * sp * cr + sy * sr) * x + (sy * sp * cr - cy * sr) * y + (cp * cr) * z
                 = (-sr) * v + cr * w
OBVIOUS

LEMMA AbsBounds == \A x \in Int, b \in Int : 2 * Abs(x) <= b <=> 2 * x <= b /\ 2 * x >= -b
BY DEF Abs

Boxes == [center : Vectors, rpy : Vectors, size : Vectors]

(* A point is in a box by the transposed matrix just when undoing the turns of the
   box one after the other takes it to a place within the half sizes
   (lddc.cpp:149-162). *)
THEOREM BoxIsExact ==
  ASSUME NEW p \in Vectors, NEW box \in Boxes, NEW padding \in Int
  PROVE  PointInBox(p, box, padding) <=> BoxHolds(p, box, padding)
<1> DEFINE r == box.rpy
           m == RotationMatrixFromRpy(r)
           d == <<p[1] - box.center[1], p[2] - box.center[2], p[3] - box.center[3]>>
           l == TurnX(-r[1], TurnY(-r[2], TurnZ(-r[3], d)))
           c(k) == Dot(<<m[1][k], m[2][k], m[3][k]>>, d)
<1>1. /\ r[1] \in Int /\ r[2] \in Int /\ r[3] \in Int
      /\ d[1] \in Int /\ d[2] \in Int /\ d[3] \in Int
      /\ \A k \in Axes : box.size[k] + 2 * padding \in Int
  BY DEF Vectors, Boxes, Axes
<1>2. Shift(p, <<-box.center[1], -box.center[2], -box.center[3]>>) = d
  BY DEF Shift, Vectors, Boxes
<1> HIDE DEF d, r
<1>3. /\ Cos(r[1]) \in Int /\ Sin(r[1]) \in Int /\ Cos(r[2]) \in Int
      /\ Sin(r[2]) \in Int /\ Cos(r[3]) \in Int /\ Sin(r[3]) \in Int
      /\ Cos(-r[1]) = Cos(r[1]) /\ Sin(-r[1]) = -Sin(r[1])
      /\ Cos(-r[2]) = Cos(r[2]) /\ Sin(-r[2]) = -Sin(r[2])
      /\ Cos(-r[3]) = Cos(r[3]) /\ Sin(-r[3]) = -Sin(r[3])
  BY <1>1, TurnInt, OppositeTurns
<1>4. c(1) = l[1] /\ c(2) = l[2] /\ c(3) = l[3]
  <2> DEFINE cr == Cos(r[1])  sr == Sin(r[1])
             cp == Cos(r[2])  sp == Sin(r[2])
             cy == Cos(r[3])  sy == Sin(r[3])
             u == cy * d[1] - (-sy) * d[2]
             v == (-sy) * d[1] + cy * d[2]
             w == cp * d[3] - (-sp) * u
  <2>1. /\ c(1) = (cy * cp) * d[1] + (sy * cp) * d[2] + (-sp) * d[3]
        /\ c(2) = (cy * sp * sr - sy * cr) * d[1] + (sy * sp * sr + cy * cr) * d[2]
                  + (cp * sr) * d[3]
        /\ c(3) = (cy * sp * cr + sy * sr) * d[1] + (sy * sp * cr - cy * sr) * d[2]
                  + (cp * cr) * d[3]
    BY DEF RotationMatrixFromRpy, Dot
  <2>2. l = <<cp * u + (-sp) * d[3], cr * v - (-sr) * w, (-sr) * v + cr * w>>
    BY <1>3 DEF TurnX, TurnY, TurnZ
  <2> HIDE DEF c, l
  <2> QED
    BY <1>1, <1>3, <2>1, <2>2, MatrixColumns
<1>5. l[1] \in Int /\ l[2] \in Int /\ l[3] \in Int
  BY <1>1, <1>3 DEF TurnX, TurnY, TurnZ
<1>6. PointInBox(p, box, padding) <=> \A k \in Axes : 2 * Abs(c(k)) <= box.size[k] + 2 * padding
  BY DEF PointInBox, d, r
<1>7. BoxHolds(p, box, padding) <=>
        \A k \in Axes : /\ 2 * l[k] <= box.size[k] + 2 * padding
                        /\ 2 * l[k] >= -(box.size[k] + 2 * padding)
  BY <1>2 DEF BoxHolds, d, r
<1>8. \A k \in Axes : c(k) = l[k] /\ l[k] \in Int
  BY <1>4, <1>5 DEF Axes
<1> HIDE DEF c, l
<1> QED
  BY <1>1, <1>6, <1>7, <1>8, AbsBounds

-----------------------------------------------------------------------------
(* The self filter. *)

LEMMA ParsedBox ==
  ASSUME NEW entry \in BoxEntries, WellFormed(entry)
  PROVE  ParseBoxFilter(entry) \in Boxes
<1>1. entry.values \in Seq(Int) /\ Len(entry.values) \in {6, 9}
  BY DEF BoxEntries, WellFormed
<1>2. CASE Len(entry.values) = 6
  <2>1. \A k \in 1 .. 6 : entry.values[k] \in Int
    BY <1>1, <1>2
  <2> QED BY <1>2, <2>1 DEF ParseBoxFilter, Values, Boxes, Vectors
<1>3. CASE Len(entry.values) = 9
  <2>1. \A k \in 1 .. 9 : entry.values[k] \in Int
    BY <1>1, <1>3
  <2> QED BY <1>3, <2>1 DEF ParseBoxFilter, Values, Boxes, Vectors
<1> QED BY <1>1, <1>2, <1>3

LEMMA PointInVehicle ==
  ASSUME NEW params \in FilterParams, NEW point, point.at \in Vectors
  PROVE  LET f == LoadSelfFilterConfig(params)
         IN /\ TransformPoint(point.at, f.lidar_to_base.rotation, f.lidar_to_base.shift)
                 = InVehicle(point, params)
            /\ InVehicle(point, params) \in Vectors
<1>1. params.lidar_to_base.rpy \in Vectors /\ params.lidar_to_base.xyz \in Vectors
  BY DEF FilterParams
<1>2. TransformPoint(point.at, RotationMatrixFromRpy(params.lidar_to_base.rpy),
                     params.lidar_to_base.xyz) = InVehicle(point, params)
  BY <1>1, RotationIsTurn DEF InVehicle
<1>3. InVehicle(point, params) \in Vectors
  BY <1>1, TurnedVector DEF InVehicle
<1> QED BY <1>2, <1>3 DEF LoadSelfFilterConfig

(* The boxes that the filter has, if all that are given can be read. *)
LEMMA LoadedBoxes ==
  ASSUME NEW params \in FilterParams
  PROVE  LET f == LoadSelfFilterConfig(params)
         IN /\ f.enabled <=> FilterAsked(params)
            /\ FilterAsked(params) =>
                 \A p, padding :
                   (\E k \in DOMAIN f.boxes : PointInBox(p, f.boxes[k], padding))
                   <=> \E k \in DOMAIN params.box_filters :
                         /\ NotBlank(params.box_filters[k])
                         /\ PointInBox(p, ParseBoxFilter(params.box_filters[k]), padding)
<1> DEFINE given == params.box_filters
           ks == {k \in DOMAIN given : NotBlank(given[k])}
           entries == Subsequence(given, ks)
           places == Ascending(Len(given), ks)
           parsed == \A k \in DOMAIN entries : WellFormed(entries[k])
           f == LoadSelfFilterConfig(params)
<1>1. given \in Seq(BoxEntries) /\ params.enabled \in BOOLEAN
  BY DEF FilterParams
<1>2. /\ f.enabled = (params.enabled /\ parsed)
      /\ parsed => f.boxes = [k \in DOMAIN entries |-> ParseBoxFilter(entries[k])]
  BY DEF LoadSelfFilterConfig
<1> HIDE DEF f, given
<1>3. /\ \A i \in DOMAIN entries : /\ places[i] \in DOMAIN given /\ places[i] \in ks
                                   /\ entries[i] = given[places[i]]
      /\ \A k \in ks \cap DOMAIN given :
           \E i \in DOMAIN entries : places[i] = k /\ entries[i] = given[k]
  <2>1. Passes(entries, places, given, ks)
    <3> HIDE DEF ks
    <3> QED BY <1>1, SubsequencePasses
  <2> HIDE DEF entries, places
  <2> QED BY <2>1 DEF Passes
<1> HIDE DEF entries, places
<1>4. parsed <=> \A k \in DOMAIN given : NotBlank(given[k]) => WellFormed(given[k])
  BY <1>3
<1>5. FilterAsked(params) <=> params.enabled /\ parsed
  BY <1>4 DEF FilterAsked, given
<1>6. ASSUME NEW p, NEW padding, parsed
      PROVE  (\E k \in DOMAIN f.boxes : PointInBox(p, f.boxes[k], padding))
             <=> \E k \in DOMAIN given :
                   /\ NotBlank(given[k])
                   /\ PointInBox(p, ParseBoxFilter(given[k]), padding)
  <2>1. DOMAIN f.boxes = DOMAIN entries
    BY <1>2, <1>6
  <2>2. \A k \in DOMAIN entries : f.boxes[k] = ParseBoxFilter(entries[k])
    BY <1>2, <1>6
  <2> QED BY <1>3, <2>1, <2>2
<1> QED BY <1>1, <1>2, <1>5, <1>6 DEF f, given

(* The filter's decision on a point is the one that its parameters ask for. *)
LEMMA KeepIsOutside ==
  ASSUME NEW params \in FilterParams, FilterAsked(params),
         NEW point, point.at \in Vectors
  PROVE  Keep(point, LoadSelfFilterConfig(params))
         <=> ~IsBody(point, params) /\ ~IsCropped(point, params)
<1> DEFINE f == LoadSelfFilterConfig(params)
           p == InVehicle(point, params)
           padding == AtLeastZero(params.box_padding)
           crop == params.front_crop
<1>1. p \in Vectors
  BY PointInVehicle
<1>2. Keep(point, f) <=> ~RejectBySelfBoxes(p, f) /\ ~RejectByCrop(p, f)
  BY PointInVehicle DEF Keep
<1>3. f.box_padding = padding /\ f.front_crop = crop
  BY DEF LoadSelfFilterConfig
<1>4. padding \in Int
  BY DEF AtLeastZero, FilterParams
<1>5. crop.lower \in Vectors /\ crop.upper \in Vectors
  BY DEF FilterParams
<1> HIDE DEF p, padding
<1>6. RejectBySelfBoxes(p, f) <=> IsBody(point, params)
  <2>1. RejectBySelfBoxes(p, f)
        <=> \E k \in DOMAIN params.box_filters :
              /\ NotBlank(params.box_filters[k])
              /\ PointInBox(p, ParseBoxFilter(params.box_filters[k]), padding)
    BY <1>3, LoadedBoxes DEF RejectBySelfBoxes
  <2>2. ASSUME NEW k \in DOMAIN params.box_filters, NotBlank(params.box_filters[k])
        PROVE  PointInBox(p, ParseBoxFilter(params.box_filters[k]), padding)
               <=> BoxHolds(p, ParseBoxFilter(params.box_filters[k]), padding)
    <3>1. params.box_filters[k] \in BoxEntries
      BY SeqElements DEF FilterParams
    <3>2. ParseBoxFilter(params.box_filters[k]) \in Boxes
      BY <2>2, <3>1, ParsedBox DEF FilterAsked
    <3> QED BY <1>1, <1>4, <3>2, BoxIsExact
  <2> QED BY <2>1, <2>2 DEF IsBody, p, padding
<1>7. RejectByCrop(p, f) <=> IsCropped(point, params)
  <2>1. \A k \in Axes : p[k] \in Int /\ crop.lower[k] \in Int /\ crop.upper[k] \in Int
    BY <1>1, <1>5 DEF Vectors, Axes
  <2>2. RejectByCrop(p, f) <=>
          crop.enabled /\ \E k \in Axes : p[k] < crop.lower[k] \/ p[k] > crop.upper[k]
    BY <1>3 DEF RejectByCrop
  <2>3. IsCropped(point, params) <=>
          crop.enabled /\ ~\A k \in Axes : crop.lower[k] <= p[k] /\ p[k] <= crop.upper[k]
    BY DEF IsCropped, p
  <2> HIDE DEF crop
  <2> QED BY <2>1, <2>2, <2>3
<1> QED BY <1>2, <1>6, <1>7

(* Of every cloud the self filter keeps the points that are neither in the body of
   the vehicle nor outside of the crop, in their order, and it rejects the cloud just
   when there are too few before or after; a filter that is off, or that has a box it
   cannot read, keeps everything (lddc.cpp:246-395, 819-961). *)
THEOREM SelfFilterExact ==
  ASSUME NEW params \in FilterParams, NEW S, NEW points \in Seq(S),
         \A p \in S : p.at \in Vectors
  PROVE  LET filtered == ApplySelfFilter(points, LoadSelfFilterConfig(params))
             wanted == IF FilterAsked(params) THEN Outside(points, params) ELSE points
         IN /\ filtered.accepted <=>
                 (FilterAsked(params) => /\ Len(points) >= params.min_input_points
                                         /\ Len(wanted) >= params.min_output_points)
            /\ filtered.accepted => filtered.points = wanted
<1> DEFINE f == LoadSelfFilterConfig(params)
           filtered == ApplySelfFilter(points, f)
<1>1. f.enabled <=> FilterAsked(params)
  BY LoadedBoxes
<1>2. CASE ~FilterAsked(params)
  <2>1. filtered = [accepted |-> TRUE, points |-> points]
    <3> HIDE DEF f
    <3> QED BY <1>1, <1>2 DEF ApplySelfFilter
  <2> QED BY <1>2, <2>1
<1>3. CASE FilterAsked(params)
  <2> DEFINE kept == KeptPoints(points, f)
             least == f.min_input_points
  <2>1. kept = Outside(points, params)
    <3>1. \A k \in DOMAIN points : points[k].at \in Vectors
      BY SeqElements
    <3>2. \A k \in DOMAIN points :
            Keep(points[k], f) <=> ~IsBody(points[k], params) /\ ~IsCropped(points[k], params)
      BY <1>3, <3>1, KeepIsOutside
    <3>3. {k \in DOMAIN points : Keep(points[k], f)}
            = {k \in DOMAIN points : ~IsBody(points[k], params) /\ ~IsCropped(points[k], params)}
      BY <3>2
    <3> QED BY <3>3 DEF KeptPoints, Outside
  <2>2. Len(kept) \in Nat /\ Len(points) \in Nat
    BY SubsequencePasses, SeqElements DEF KeptPoints, Passes
  <2>3. /\ f.min_input_points = AtLeastZero(params.min_input_points)
        /\ f.min_output_points = AtLeastZero(params.min_output_points)
        /\ params.min_input_points \in Int /\ params.min_output_points \in Int
    BY DEF LoadSelfFilterConfig, FilterParams
  <2>4. \A n \in Nat, m \in Int : n >= AtLeastZero(m) <=> n >= m
    BY DEF AtLeastZero
  <2>5. \A n \in Nat, m \in Int : n < AtLeastZero(m) <=> ~(n >= m)
    BY DEF AtLeastZero
  <2> HIDE DEF kept, f
  <2>6. CASE Len(points) < f.min_input_points
    <3>1. filtered = [accepted |-> FALSE, points |-> points]
      BY <1>1, <1>3, <2>6 DEF ApplySelfFilter
    <3> QED BY <1>3, <2>2, <2>3, <2>5, <2>6, <3>1 DEF f
  <2>7. CASE ~(Len(points) < f.min_input_points)
    <3>1. filtered = [accepted |-> Len(kept) >= f.min_output_points, points |-> kept]
      BY <1>1, <1>3, <2>7 DEF ApplySelfFilter, kept
    <3>2. Len(points) >= params.min_input_points
      BY <2>2, <2>3, <2>5, <2>7
    <3>3. Len(kept) >= f.min_output_points <=> Len(kept) >= params.min_output_points
      BY <2>2, <2>3, <2>4
    <3>4. /\ filtered.accepted <=> Len(kept) >= params.min_output_points
          /\ filtered.points = kept
      <4> HIDE DEF filtered
      <4> QED BY <3>1, <3>3
    <3> HIDE DEF filtered
    <3>5. /\ filtered.accepted <=>
               (FilterAsked(params) => /\ Len(points) >= params.min_input_points
                                       /\ Len(kept) >= params.min_output_points)
          /\ filtered.accepted => filtered.points = kept
      BY <1>3, <3>2, <3>4
    <3> QED BY <1>3, <2>1, <3>5 DEF filtered, f
  <2> QED BY <2>6, <2>7
<1> QED BY <1>2, <1>3

=============================================================================
