-------------------------- MODULE StampFilterProofs -------------------------
(***************************************************************************)
(* Theorems about StampFilter, for any number of lidars, any tolerances    *)
(* and stamps of any size.                                                 *)
(*                                                                         *)
(* PublishedInOrder compares a published stamp with all earlier ones, the  *)
(* filter with one number.  The invariant that makes the step go through   *)
(* is that this number is never below a published stamp (Newest); that it  *)
(* may be above all of them, when accepted frames had too few points, does *)
(* no harm.  CountsBounded needs that a value that a thread has loaded is  *)
(* below the number of drops, its own one included (Counting).             *)
(***************************************************************************)
EXTENDS StampFilter, SequenceTheorems, TLAPS

Newest ==
  \A t \in Threads : \A m \in 1 .. Len(published[t]) :
    /\ published[t][m] <= last_stamp[t]
    /\ t = "pcd" => published[t][m] <= last_timebase

Counting ==
  \A t \in Threads : \A r \in Reasons : pc[t] = r => loaded[t] < drops[r]

-----------------------------------------------------------------------------
LEMMA LaterFacts ==
  ASSUME NEW a \in Nat, NEW b \in Nat
  PROVE  Later(a, b) \in Nat /\ Later(a, b) >= a /\ Later(a, b) >= b
BY DEF Later

LEMMA LidarZero == 0 \in Lidars /\ \A l \in Lidars : TopicOf(l) \in Lidars
BY FilterAssumption DEF Lidars, TopicOf

LEMMA InitType == Init => TypeOK
<1> SUFFICES ASSUME Init PROVE TypeOK
  OBVIOUS
<1>1. queue \in [Threads -> [Lidars -> Seq(Nat)]]
  BY DEF Init
<1>2. i \in [Threads -> Lidars]
  BY LidarZero DEF Init
<1>3. published \in [Threads -> Seq(Nat)]
  BY DEF Init
<1>4. arrivals \in [Threads -> Nat]
  BY FilterAssumption DEF Init
<1>5. newest \in [Threads -> [Lidars -> Nat]] /\ source \in [Threads -> [Lidars -> Nat]]
  BY DEF Init
<1>6. /\ last_stamp \in [Threads -> Nat] /\ loaded \in [Threads -> Nat]
      /\ disorder \in [Threads -> Nat]
      /\ dropped \in [Reasons -> Nat] /\ drops \in [Reasons -> Nat]
      /\ pc \in [Threads -> Reasons \cup {"poll"}]
      /\ now \in Nat /\ last_timebase \in Nat
  BY DEF Init
<1> QED  BY <1>1, <1>2, <1>3, <1>4, <1>5, <1>6 DEF TypeOK

LEMMA RememberType ==
  ASSUME TypeOK, NEW t \in Threads, NEW s \in Nat, Remember(t, s)
  PROVE  /\ last_stamp' \in [Threads -> Nat] /\ last_timebase' \in Nat
         /\ last_stamp'[t] >= s /\ (t = "pcd" => last_timebase' >= s)
         /\ \A u \in Threads : last_stamp'[u] >= last_stamp[u]
         /\ last_timebase' >= last_timebase
<1>1. last_stamp \in [Threads -> Nat] /\ last_timebase \in Nat
  BY DEF TypeOK
<1>2. /\ last_stamp' = [last_stamp EXCEPT ![t] = Later(last_stamp[t], s)]
      /\ last_timebase' = IF t = "pcd" THEN Later(last_timebase, s) ELSE last_timebase
  BY DEF Remember
<1>3. /\ Later(last_stamp[t], s) \in Nat /\ Later(last_stamp[t], s) >= last_stamp[t]
      /\ Later(last_stamp[t], s) >= s
  BY <1>1, LaterFacts
<1>4. /\ Later(last_timebase, s) \in Nat /\ Later(last_timebase, s) >= last_timebase
      /\ Later(last_timebase, s) >= s
  BY <1>1, LaterFacts
<1> QED  BY <1>1, <1>2, <1>3, <1>4

LEMMA DropType ==
  ASSUME TypeOK, NEW t \in Threads, NEW r \in Reasons, Drop(t, r)
  PROVE  /\ pc' \in [Threads -> Reasons \cup {"poll"}]
         /\ loaded' \in [Threads -> Nat] /\ drops' \in [Reasons -> Nat]
<1>1. /\ pc \in [Threads -> Reasons \cup {"poll"}] /\ loaded \in [Threads -> Nat]
      /\ drops \in [Reasons -> Nat] /\ dropped \in [Reasons -> Nat]
  BY DEF TypeOK
<1> QED  BY <1>1 DEF Drop

LEMMA StaleReason == "stale" \in Reasons /\ "regression" \in Reasons /\ "poll" \notin Reasons
BY DEF Reasons

(* What Publish(t) leaves behind, whichever way it goes. *)
LEMMA PublishType ==
  ASSUME TypeOK, NEW t \in Threads, Publish(t)
  PROVE  TypeOK'
<1> DEFINE l == i[t]
           s == Head(queue[t][l])
<1>1. l \in Lidars /\ queue[t] \in [Lidars -> Seq(Nat)] /\ queue[t][l] \in Seq(Nat)
  BY DEF TypeOK
<1>2. queue[t][l] # <<>>
  BY DEF Publish
<1>3. s \in Nat /\ Tail(queue[t][l]) \in Seq(Nat)
  BY <1>1, <1>2, HeadTailProperties
<1>4. queue' \in [Threads -> [Lidars -> Seq(Nat)]]
  <2>1. queue' = [queue EXCEPT ![t][l] = Tail(queue[t][l])]
    BY DEF Publish
  <2> DEFINE row == [queue[t] EXCEPT ![l] = Tail(queue[t][l])]
  <2>2. row \in [Lidars -> Seq(Nat)]
    BY <1>1, <1>3
  <2>3. queue' = [queue EXCEPT ![t] = row]
    BY <2>1
  <2> HIDE DEF row
  <2> QED  BY <2>2, <2>3 DEF TypeOK
<1>5. UNCHANGED <<now, i, dropped, arrivals, source>>
  BY DEF Publish
<1> HIDE DEF s
<1>6. CASE Drop(t, "stale") /\ UNCHANGED <<last_stamp, last_timebase, published, newest, disorder>>
  BY <1>4, <1>5, <1>6, DropType, StaleReason DEF TypeOK
<1>7. CASE /\ Drop(t, "regression")
           /\ disorder' = [disorder EXCEPT ![t] = @ + 1] \/ disorder' = disorder
           /\ UNCHANGED <<last_stamp, last_timebase, published, newest>>
  <2>0. disorder \in [Threads -> Nat]
    BY DEF TypeOK
  <2>1. disorder' \in [Threads -> Nat]
    BY <1>7, <2>0
  <2> QED  BY <1>4, <1>5, <1>7, <2>1, DropType, StaleReason DEF TypeOK
<1>8. CASE /\ Remember(t, s)
           /\ newest' = [newest EXCEPT ![t][TopicOf(l)] = Later(@, s)]
           /\ published' = [published EXCEPT ![t] = Append(@, s)] \/ UNCHANGED published
           /\ UNCHANGED <<pc, loaded, drops, disorder>>
  <2>1. last_stamp' \in [Threads -> Nat] /\ last_timebase' \in Nat
    BY <1>3, <1>8, RememberType
  <2>2. newest' \in [Threads -> [Lidars -> Nat]]
    <3> DEFINE k == TopicOf(l)
               row == [newest[t] EXCEPT ![k] = Later(newest[t][k], s)]
    <3>1. k \in Lidars
      BY <1>1, LidarZero
    <3>2. newest[t] \in [Lidars -> Nat] /\ newest[t][k] \in Nat
      BY <3>1 DEF TypeOK
    <3>3. row \in [Lidars -> Nat]
      BY <1>3, <3>2, LaterFacts
    <3>4. newest' = [newest EXCEPT ![t] = row]
      BY <1>8
    <3> HIDE DEF row
    <3> QED  BY <3>3, <3>4 DEF TypeOK
  <2>3. published' \in [Threads -> Seq(Nat)]
    <3>1. published[t] \in Seq(Nat) /\ Append(published[t], s) \in Seq(Nat)
      BY <1>3, AppendProperties DEF TypeOK
    <3> QED  BY <1>8, <3>1 DEF TypeOK
  <2> QED  BY <1>4, <1>5, <1>8, <2>1, <2>2, <2>3 DEF TypeOK
<1> QED
  BY <1>6, <1>7, <1>8 DEF Publish, ApplySelfFilter, s

LEMMA NextType == TypeOK /\ [Next]_vars => TypeOK'
<1> SUFFICES ASSUME TypeOK, [Next]_vars PROVE TypeOK'
  OBVIOUS
<1>1. ASSUME NEW t \in Threads, NEW l \in Lidars, NEW s \in Stamps, Arrive(t, l, s)
      PROVE  TypeOK'
  <2>1. s \in Nat
    BY DEF Stamps
  <2>2. queue[t] \in [Lidars -> Seq(Nat)] /\ source[t] \in [Lidars -> Nat]
    BY DEF TypeOK
  <2>3. Append(queue[t][l], s) \in Seq(Nat)
    BY <2>1, <2>2, AppendProperties
  <2> DEFINE qrow == [queue[t] EXCEPT ![l] = Append(queue[t][l], s)]
             srow == [source[t] EXCEPT ![l] = s]
  <2>4. qrow \in [Lidars -> Seq(Nat)] /\ srow \in [Lidars -> Nat]
    BY <2>1, <2>2, <2>3
  <2>5. queue' = [queue EXCEPT ![t] = qrow] /\ source' = [source EXCEPT ![t] = srow]
    BY <1>1 DEF Arrive
  <2>6. arrivals' \in [Threads -> Nat]
    BY <1>1 DEF Arrive, TypeOK
  <2>7. UNCHANGED <<now, i, last_stamp, last_timebase, dropped, pc, loaded, published,
                    newest, drops, disorder>>
    BY <1>1 DEF Arrive
  <2> HIDE DEF qrow, srow
  <2>8. queue' \in [Threads -> [Lidars -> Seq(Nat)]] /\ source' \in [Threads -> [Lidars -> Nat]]
    BY <2>4, <2>5 DEF TypeOK
  <2> QED  BY <2>6, <2>7, <2>8 DEF TypeOK
<1>2. CASE Tick
  BY <1>2 DEF Tick, TypeOK
<1>3. ASSUME NEW t \in Threads, Publish(t) PROVE TypeOK'
  BY <1>3, PublishType
<1>4. ASSUME NEW t \in Threads, StoreCount(t) PROVE TypeOK'
  BY <1>4 DEF StoreCount, TypeOK
<1>5. ASSUME NEW t \in Threads, NextLidar(t) PROVE TypeOK'
  <2>1. i[t] \in Nat /\ LidarCount \in Nat \ {0}
    BY FilterAssumption DEF TypeOK, Lidars
  <2>2. (i[t] + 1) % LidarCount \in Lidars
    BY <2>1 DEF Lidars
  <2>3. i' = [i EXCEPT ![t] = (i[t] + 1) % LidarCount]
    BY <1>5 DEF NextLidar
  <2> DEFINE next == (i[t] + 1) % LidarCount
  <2> HIDE DEF next
  <2>4. i' \in [Threads -> Lidars]
    BY <2>2, <2>3 DEF next, TypeOK
  <2> QED  BY <1>5, <2>4 DEF NextLidar, TypeOK
<1>6. CASE UNCHANGED vars
  BY <1>6 DEF vars, TypeOK
<1> QED  BY <1>1, <1>2, <1>3, <1>4, <1>5, <1>6 DEF Next

(* Every variable keeps its type: no thread runs past the last lidar, and a
   queue is never read when it is empty. *)
THEOREM TypeCorrect == Spec => []TypeOK
<1> QED  BY InitType, NextType, PTL DEF Spec

-----------------------------------------------------------------------------
(* Order of what is published. *)

LEMMA InitOrder == Init => Newest /\ PublishedInOrder
BY DEF Init, Newest, PublishedInOrder

LEMMA NextOrder ==
  TypeOK /\ Newest /\ PublishedInOrder /\ [Next]_vars => Newest' /\ PublishedInOrder'
<1> SUFFICES ASSUME TypeOK, Newest, PublishedInOrder, [Next]_vars
             PROVE  Newest' /\ PublishedInOrder'
  OBVIOUS
<1>1. CASE UNCHANGED <<last_stamp, last_timebase, published>>
  BY <1>1 DEF Newest, PublishedInOrder
<1>2. ASSUME NEW t \in Threads, NEW s \in Nat, ~Regressed(t, s), Remember(t, s),
             \/ published' = [published EXCEPT ![t] = Append(@, s)]
             \/ UNCHANGED published
      PROVE  Newest' /\ PublishedInOrder'
  <2>1. /\ last_stamp' \in [Threads -> Nat] /\ last_timebase' \in Nat
        /\ last_stamp'[t] >= s /\ (t = "pcd" => last_timebase' >= s)
        /\ \A u \in Threads : last_stamp'[u] >= last_stamp[u]
        /\ last_timebase' >= last_timebase
    BY <1>2, RememberType
  <2>2. /\ \A u \in Threads : published[u] \in Seq(Nat) /\ last_stamp[u] \in Nat
        /\ last_timebase \in Nat
        /\ StampTolerance \in Nat /\ TimebaseTolerance \in Nat
    BY FilterAssumption DEF TypeOK
  <2>3. ASSUME NEW u \in Threads, published'[u] = published[u]
        PROVE  \A m \in 1 .. Len(published'[u]) :
                 /\ published'[u][m] <= last_stamp'[u]
                 /\ u = "pcd" => published'[u][m] <= last_timebase'
    <3> SUFFICES ASSUME NEW m \in 1 .. Len(published[u])
                 PROVE  /\ published[u][m] <= last_stamp'[u]
                        /\ u = "pcd" => published[u][m] <= last_timebase'
      BY <2>3
    <3>1. published[u][m] \in Nat
      BY <2>2
    <3>2. /\ published[u][m] <= last_stamp[u]
          /\ u = "pcd" => published[u][m] <= last_timebase
      BY DEF Newest
    <3>3. last_stamp'[u] \in Nat
      BY <2>1
    <3> QED  BY <2>1, <2>2, <3>1, <3>2, <3>3
  <2>4. CASE UNCHANGED published
    BY <2>3, <2>4 DEF Newest, PublishedInOrder
  <2>5. CASE published' = [published EXCEPT ![t] = Append(@, s)]
    <3> DEFINE old == published[t]
               n   == Len(published[t])
    <3>1. /\ \A u \in Threads : u # t => published'[u] = published[u]
          /\ published'[t] = Append(published[t], s)
      BY <2>5 DEF TypeOK
    <3>2. /\ n \in Nat /\ Len(published'[t]) = n + 1
          /\ \A m \in 1 .. n : published'[t][m] = published[t][m] /\ published[t][m] \in Nat
          /\ published'[t][n + 1] = s
      BY <2>2, <3>1, AppendProperties, LenProperties
    <3>3. \A m \in 1 .. n : /\ published[t][m] <= last_stamp[t]
                            /\ t = "pcd" => published[t][m] <= last_timebase
      BY DEF Newest
    <3> HIDE DEF n
    <3>4. \A m \in 1 .. n + 1 : /\ published'[t][m] <= last_stamp'[t]
                                /\ t = "pcd" => published'[t][m] <= last_timebase'
      <4> SUFFICES ASSUME NEW m \in 1 .. n + 1
                   PROVE  /\ published'[t][m] <= last_stamp'[t]
                          /\ t = "pcd" => published'[t][m] <= last_timebase'
        OBVIOUS
      <4>0. last_stamp'[t] \in Nat /\ last_stamp[t] \in Nat /\ last_stamp'[t] >= last_stamp[t]
        BY <2>1, <2>2
      <4>1. CASE m = n + 1
        BY <2>1, <3>2, <4>0, <4>1
      <4>2. CASE m \in 1 .. n
        <5>1. published'[t][m] = published[t][m] /\ published[t][m] \in Nat
          BY <3>2, <4>2
        <5>2. published[t][m] <= last_stamp[t]
          BY <3>3, <4>2
        <5>3. t = "pcd" => published[t][m] <= last_timebase
          BY <3>3, <4>2
        <5>4. published'[t][m] <= last_stamp'[t]
          BY <4>0, <5>1, <5>2
        <5>5. t = "pcd" => published'[t][m] <= last_timebase'
          BY <2>1, <2>2, <5>1, <5>3
        <5> QED  BY <5>4, <5>5
      <4> QED  BY <3>2, <4>1, <4>2
    <3>5. Newest'
      BY <2>3, <3>1, <3>2, <3>4 DEF Newest
    <3>6. s > 0 => \A m \in 1 .. n :
            /\ s + StampTolerance >= published[t][m]
            /\ t = "pcd" => s + TimebaseTolerance >= published[t][m]
      <4> SUFFICES ASSUME s > 0, NEW m \in 1 .. n
                   PROVE  /\ s + StampTolerance >= published[t][m]
                          /\ t = "pcd" => s + TimebaseTolerance >= published[t][m]
        OBVIOUS
      <4>1. published[t][m] \in Nat /\ last_stamp[t] \in Nat
        BY <2>2, <3>2
      <4>2. ~(last_stamp[t] > 0 /\ s + StampTolerance < last_stamp[t])
        BY <1>2 DEF Regressed
      <4>3. t = "pcd" => ~(last_timebase > 0 /\ s + TimebaseTolerance < last_timebase)
        BY <1>2 DEF Regressed
      <4> QED  BY <1>2, <2>2, <3>3, <4>1, <4>2, <4>3
    <3>7. ASSUME NEW m \in 1 .. n + 1, NEW k \in 1 .. n + 1, m < k, published'[t][k] > 0
          PROVE  /\ published'[t][k] + StampTolerance >= published'[t][m]
                 /\ t = "pcd" => published'[t][k] + TimebaseTolerance >= published'[t][m]
      <4>1. m \in 1 .. n
        BY <3>2, <3>7
      <4>2. CASE k = n + 1
        BY <3>2, <3>6, <3>7, <4>1, <4>2
      <4>3. CASE k \in 1 .. n
        BY <3>2, <3>7, <4>1, <4>3 DEF PublishedInOrder, n
      <4> QED  BY <3>2, <4>2, <4>3
    <3>8. PublishedInOrder'
      <4>1. ASSUME NEW u \in Threads, u # t,
                   NEW m \in 1 .. Len(published'[u]), NEW k \in 1 .. Len(published'[u]),
                   m < k, published'[u][k] > 0
            PROVE  /\ published'[u][k] + StampTolerance >= published'[u][m]
                   /\ u = "pcd" => published'[u][k] + TimebaseTolerance >= published'[u][m]
        BY <3>1, <4>1 DEF PublishedInOrder
      <4> QED  BY <3>2, <3>7, <4>1 DEF PublishedInOrder
    <3> QED  BY <3>5, <3>8
  <2> QED  BY <1>2, <2>4, <2>5
<1>3. ASSUME NEW t \in Threads, Publish(t) PROVE Newest' /\ PublishedInOrder'
  <2> DEFINE s == Head(queue[t][i[t]])
  <2>1. s \in Nat
    <3>1. queue[t][i[t]] \in Seq(Nat) /\ queue[t][i[t]] # <<>>
      BY <1>3 DEF Publish, TypeOK
    <3> QED  BY <3>1, HeadTailProperties
  <2>2. \/ UNCHANGED <<last_stamp, last_timebase, published>>
        \/ /\ ~Regressed(t, s) /\ Remember(t, s)
           /\ \/ published' = [published EXCEPT ![t] = Append(@, s)]
              \/ UNCHANGED published
    BY <1>3 DEF Publish, ApplySelfFilter
  <2> HIDE DEF s
  <2> QED  BY <1>1, <1>2, <2>1, <2>2
<1> QED
  BY <1>1, <1>3 DEF Next, Arrive, Tick, StoreCount, NextLidar, vars

(* Nothing is published that is older, by more than the tolerance, than anything
   published before it, on any topic of the thread and for any lidar
   (lddc.cpp:727-768, 799-815). *)
THEOREM OrderIsKept == Spec => []PublishedInOrder
<1>1. TypeOK /\ Newest /\ PublishedInOrder /\ [Next]_vars
        => (TypeOK /\ Newest /\ PublishedInOrder)'
  BY NextType, NextOrder
<1>2. Init => TypeOK /\ Newest /\ PublishedInOrder
  BY InitType, InitOrder
<1> QED  BY <1>1, <1>2, PTL DEF Spec

-----------------------------------------------------------------------------
(* The shared counters. *)

LEMMA NextCounts ==
  TypeOK /\ Counting /\ CountsBounded /\ [Next]_vars => Counting' /\ CountsBounded'
<1> SUFFICES ASSUME TypeOK, Counting, CountsBounded, [Next]_vars
             PROVE  Counting' /\ CountsBounded'
  OBVIOUS
<1>0. /\ pc \in [Threads -> Reasons \cup {"poll"}] /\ loaded \in [Threads -> Nat]
      /\ drops \in [Reasons -> Nat] /\ dropped \in [Reasons -> Nat]
  BY DEF TypeOK
<1>1. CASE UNCHANGED <<pc, loaded, drops, dropped>>
  BY <1>1 DEF Counting, CountsBounded
<1>2. ASSUME NEW t \in Threads, NEW r \in Reasons, Drop(t, r), UNCHANGED dropped
      PROVE  Counting' /\ CountsBounded'
  <2>1. /\ pc' = [pc EXCEPT ![t] = r] /\ loaded' = [loaded EXCEPT ![t] = dropped[r]]
        /\ drops' = [drops EXCEPT ![r] = @ + 1]
    BY <1>2 DEF Drop
  <2>2. drops'[r] = drops[r] + 1 /\ dropped[r] <= drops[r]
    BY <1>0, <2>1 DEF CountsBounded
  <2>3. \A q \in Reasons : drops'[q] >= drops[q] /\ drops'[q] \in Nat
    BY <1>0, <2>1
  <2>4. CountsBounded'
    <3> SUFFICES ASSUME NEW q \in Reasons PROVE dropped[q] <= drops'[q]
      BY <1>2 DEF CountsBounded
    <3>1. dropped[q] \in Nat /\ drops[q] \in Nat /\ dropped[q] <= drops[q]
      BY <1>0 DEF CountsBounded
    <3> QED  BY <2>3, <3>1
  <2>5. Counting'
    <3> SUFFICES ASSUME NEW u \in Threads, NEW q \in Reasons, pc'[u] = q
                 PROVE  loaded'[u] < drops'[q]
      BY DEF Counting
    <3>1. CASE u = t
      <4>1. q = r /\ loaded'[u] = dropped[r]
        BY <1>0, <2>1, <3>1
      <4> QED  BY <1>0, <2>2, <4>1
    <3>2. CASE u # t
      <4>1. pc[u] = q /\ loaded'[u] = loaded[u]
        BY <1>0, <2>1, <3>2
      <4>2. loaded[u] < drops[q]
        BY <4>1 DEF Counting
      <4> QED  BY <1>0, <2>3, <4>1, <4>2
    <3> QED  BY <3>1, <3>2
  <2> QED  BY <2>4, <2>5
<1>3. ASSUME NEW t \in Threads, StoreCount(t) PROVE Counting' /\ CountsBounded'
  <2>1. /\ pc[t] \in Reasons /\ dropped' = [dropped EXCEPT ![pc[t]] = loaded[t] + 1]
        /\ pc' = [pc EXCEPT ![t] = "poll"] /\ UNCHANGED <<loaded, drops>>
    BY <1>3 DEF StoreCount
  <2>2. loaded[t] < drops[pc[t]]
    BY <2>1 DEF Counting
  <2>3. Counting'
    BY <1>0, <2>1, StaleReason DEF Counting
  <2>4. CountsBounded'
    BY <1>0, <2>1, <2>2 DEF CountsBounded
  <2> QED  BY <2>3, <2>4
<1>4. ASSUME NEW t \in Threads, Publish(t) PROVE Counting' /\ CountsBounded'
  <2>1. \/ \E r \in Reasons : Drop(t, r)
        \/ UNCHANGED <<pc, loaded, drops>>
    BY <1>4, StaleReason DEF Publish
  <2>2. UNCHANGED dropped
    BY <1>4 DEF Publish
  <2> QED  BY <1>1, <1>2, <2>1, <2>2
<1> QED
  BY <1>1, <1>3, <1>4 DEF Next, Arrive, Tick, NextLidar, vars

(* The drop counters are incremented by two threads without a lock and may miss
   drops, but never show more of them than there were
   (lddc.cpp:715, 732, 749, 788, 803). *)
THEOREM CountsAreBounded == Spec => []CountsBounded
<1>1. TypeOK /\ Counting /\ CountsBounded /\ [Next]_vars
        => (TypeOK /\ Counting /\ CountsBounded)'
  BY NextType, NextCounts
<1>2. Init => TypeOK /\ Counting /\ CountsBounded
  BY InitType DEF Init, Counting, CountsBounded, Reasons
<1> QED  BY <1>1, <1>2, PTL DEF Spec

=============================================================================
