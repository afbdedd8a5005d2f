-------------------------- MODULE CacheIndexProofs --------------------------
(***************************************************************************)
(* Proofs about CacheIndex.tla for any lidars, threads and table size.     *)
(***************************************************************************)
EXTENDS CacheIndex, TLAPS

Pcs == {"idle", "find", "allocate", "insert", "store", "lookup", "read"}

(* Where the threads are, who holds the mutex, and what their calls rely on. *)
Calls ==
  \A t \in Threads :
    /\ pc[t] # "idle" => key[t] \in Handles
    /\ pc[t] \in {"find", "allocate", "insert", "store"} => t \in Allocators
    /\ pc[t] \in {"insert", "store"} <=> index_mutex = t
    /\ pc[t] \in {"insert", "store"} => index_cache[index[t]]
    /\ pc[t] \in {"store", "read"} => map_index[key[t]] # None

(* The index of every lidar is in use. *)
Marked == \A h \in Handles : Registered(h) => index_cache[map_index[h]]

IInv == TypeOK /\ Calls /\ Marked /\ IndexInjective

LEMMA InitIInv == Init => IInv
<1> SUFFICES ASSUME Init PROVE IInv
  OBVIOUS
<1>1. 0 \in Indices
  BY CacheAssumption DEF Indices
<1>2. TypeOK
  BY <1>1 DEF Init, TypeOK
<1>3. Calls
  BY CacheAssumption DEF Init, Calls
<1>4. Marked /\ IndexInjective
  BY DEF Init, Marked, IndexInjective, Registered
<1> QED
  BY <1>2, <1>3, <1>4 DEF IInv

LEMMA StepTypeOK ==
  ASSUME TypeOK, Calls, Next
  PROVE  TypeOK'
<1>1. ASSUME NEW t \in Allocators, NEW h \in Handles, GetFreeIndex(t, h) PROVE TypeOK'
  BY <1>1 DEF TypeOK, GetFreeIndex, Goto
<1>2. ASSUME NEW t \in Allocators, Find(t) PROVE TypeOK'
  BY <1>2 DEF TypeOK, Find, Goto, Answer, Threads, Calls
<1>3. ASSUME NEW t \in Allocators, Allocate(t) PROVE TypeOK'
  BY <1>3 DEF TypeOK, Allocate, Goto, Threads
<1>4. ASSUME NEW t \in Allocators, Refuse(t) PROVE TypeOK'
  BY <1>4 DEF TypeOK, Refuse, Goto
<1>5. ASSUME NEW t \in Allocators, Insert(t) PROVE TypeOK'
  <2>1. 0 \in Indices
    BY CacheAssumption DEF Indices
  <2> QED
    BY <1>5, <2>1 DEF TypeOK, Insert, Goto
<1>6. ASSUME NEW t \in Allocators, Store(t) PROVE TypeOK'
  BY <1>6 DEF TypeOK, Store, Goto, Answer, Threads, Calls
<1>7. ASSUME NEW t \in Threads, NEW h \in Handles, GetIndex(t, h) PROVE TypeOK'
  BY <1>7 DEF TypeOK, GetIndex, Goto
<1>8. ASSUME NEW t \in Threads, Found(t) PROVE TypeOK'
  BY <1>8 DEF TypeOK, Found, Goto
<1>9. ASSUME NEW t \in Threads, NotFound(t) PROVE TypeOK'
  BY <1>9 DEF TypeOK, NotFound, Goto
<1>10. ASSUME NEW t \in Threads, Read(t) PROVE TypeOK'
  BY <1>10 DEF TypeOK, Read, Goto, Answer, Threads, Calls
<1> QED
  BY <1>1, <1>2, <1>3, <1>4, <1>5, <1>6, <1>7, <1>8, <1>9, <1>10 DEF Next

LEMMA StepCalls ==
  ASSUME TypeOK, Calls, Next
  PROVE  Calls'
<1>1. ASSUME NEW t \in Allocators, NEW h \in Handles, GetFreeIndex(t, h) PROVE Calls'
  BY <1>1 DEF TypeOK, Calls, GetFreeIndex, Goto, Threads
<1>2. ASSUME NEW t \in Allocators, Find(t) PROVE Calls'
  BY <1>2, CacheAssumption DEF TypeOK, Calls, Find, Goto, Threads
<1>3. ASSUME NEW t \in Allocators, Allocate(t) PROVE Calls'
  BY <1>3, CacheAssumption DEF TypeOK, Calls, Allocate, Goto, Threads
<1>4. ASSUME NEW t \in Allocators, Refuse(t) PROVE Calls'
  BY <1>4, CacheAssumption DEF TypeOK, Calls, Refuse, Goto, Threads
<1>5. ASSUME NEW t \in Allocators, Insert(t) PROVE Calls'
  BY <1>5, CacheAssumption DEF TypeOK, Calls, Insert, Goto, Threads, Indices
<1>6. ASSUME NEW t \in Allocators, Store(t) PROVE Calls'
  BY <1>6, CacheAssumption DEF TypeOK, Calls, Store, Goto, Threads
<1>7. ASSUME NEW t \in Threads, NEW h \in Handles, GetIndex(t, h) PROVE Calls'
  BY <1>7 DEF TypeOK, Calls, GetIndex, Goto
<1>8. ASSUME NEW t \in Threads, Found(t) PROVE Calls'
  BY <1>8 DEF TypeOK, Calls, Found, Goto
<1>9. ASSUME NEW t \in Threads, NotFound(t) PROVE Calls'
  BY <1>9 DEF TypeOK, Calls, NotFound, Goto
<1>10. ASSUME NEW t \in Threads, Read(t) PROVE Calls'
  BY <1>10 DEF TypeOK, Calls, Read, Goto
<1> QED
  BY <1>1, <1>2, <1>3, <1>4, <1>5, <1>6, <1>7, <1>8, <1>9, <1>10 DEF Next

-----------------------------------------------------------------------------
(* All steps but three leave the indices as they are. *)

Quiet ==
  /\ UNCHANGED <<map_index, index_cache, index>>
  /\ \A t \in Allocators :
       /\ pc'[t] = "insert" <=> pc[t] = "insert"
       /\ pc'[t] = "store" <=> pc[t] = "store"
       /\ pc[t] \in {"insert", "store"} => key'[t] = key[t]

LEMMA QuietSteps ==
  ASSUME TypeOK, Calls, Next
  PROVE  Quiet \/ \E t \in Allocators : Allocate(t) \/ Insert(t) \/ Store(t)
<1>1. ASSUME NEW t \in Allocators, NEW h \in Handles, GetFreeIndex(t, h) PROVE Quiet
  BY <1>1 DEF TypeOK, Quiet, GetFreeIndex, Goto, Threads
<1>2. ASSUME NEW t \in Allocators, Find(t) PROVE Quiet
  BY <1>2 DEF TypeOK, Quiet, Find, Goto, Threads
<1>3. ASSUME NEW t \in Allocators, Refuse(t) PROVE Quiet
  BY <1>3 DEF TypeOK, Quiet, Refuse, Goto, Threads
<1>4. ASSUME NEW t \in Threads, NEW h \in Handles, GetIndex(t, h) PROVE Quiet
  BY <1>4 DEF TypeOK, Quiet, GetIndex, Goto, Threads
<1>5. ASSUME NEW t \in Threads, Found(t) PROVE Quiet
  BY <1>5 DEF TypeOK, Quiet, Found, Goto, Threads
<1>6. ASSUME NEW t \in Threads, NotFound(t) PROVE Quiet
  BY <1>6 DEF TypeOK, Quiet, NotFound, Goto, Threads
<1>7. ASSUME NEW t \in Threads, Read(t) PROVE Quiet
  BY <1>7 DEF TypeOK, Quiet, Read, Goto, Threads
<1> QED
  BY <1>1, <1>2, <1>3, <1>4, <1>5, <1>6, <1>7 DEF Next

LEMMA QuietViews ==
  ASSUME Quiet
  PROVE  /\ \A h \in Handles : HalfInserted(h)' <=> HalfInserted(h)
         /\ \A h \in Handles : Registered(h)' <=> Registered(h)
         /\ \A i \in Indices : Pending(i)' <=> Pending(i)
<1>1. \A h \in Handles : HalfInserted(h)' <=> HalfInserted(h)
  BY DEF Quiet, HalfInserted
<1>2. \A h \in Handles : Registered(h)' <=> Registered(h)
  BY <1>1 DEF Quiet, Registered
<1>3. \A i \in Indices : Pending(i)' <=> Pending(i)
  BY DEF Quiet, Pending
<1> QED
  BY <1>1, <1>2, <1>3

(* Under the mutex there is one thread that allocates. *)
LEMMA OneInside ==
  ASSUME Calls, NEW s \in Allocators, NEW t \in Allocators,
         pc[s] \in {"insert", "store"}, pc[t] \in {"insert", "store"}
  PROVE  s = t
BY DEF Calls, Threads

(* What the three steps do to the views. *)
LEMMA AllocateViews ==
  ASSUME TypeOK, Calls, NEW t \in Allocators, Allocate(t)
  PROVE  /\ \A h \in Handles : ~HalfInserted(h) /\ ~HalfInserted(h)'
         /\ \A h \in Handles : Registered(h)' <=> Registered(h)
         /\ \A i \in Indices : ~Pending(i)
         /\ \A i \in Indices : Pending(i)' <=> i = index'[t]
         /\ index'[t] \in Indices /\ ~index_cache[index'[t]]
         /\ index_cache' = [index_cache EXCEPT ![index'[t]] = TRUE]
<1>1. \A s \in Allocators : pc[s] \notin {"insert", "store"}
  BY CacheAssumption DEF Calls, Allocate, Threads
<1>2. /\ pc'[t] = "insert"
      /\ \A s \in Allocators : s # t => pc'[s] = pc[s]
  BY DEF TypeOK, Allocate, Goto, Threads
<1>3. \A h \in Handles : ~HalfInserted(h) /\ ~HalfInserted(h)'
  BY <1>1, <1>2 DEF HalfInserted
<1>4. \A h \in Handles : Registered(h)' <=> Registered(h)
  BY <1>3 DEF Registered, Allocate
<1>5. \A i \in Indices : ~Pending(i)
  BY <1>1 DEF Pending
<1>6. \A i \in Indices : Pending(i)' <=> i = index'[t]
  BY <1>1, <1>2 DEF Pending
<1>7. /\ index'[t] \in Indices /\ ~index_cache[index'[t]]
      /\ index_cache' = [index_cache EXCEPT ![index'[t]] = TRUE]
  <2>1. PICK i \in Indices : /\ FirstFree(i)
                             /\ index_cache' = [index_cache EXCEPT ![i] = TRUE]
                             /\ index' = [index EXCEPT ![t] = i]
    BY DEF Allocate
  <2>2. index'[t] = i
    BY <2>1 DEF TypeOK, Threads
  <2> QED
    BY <2>1, <2>2 DEF FirstFree
<1> QED
  BY <1>3, <1>4, <1>5, <1>6, <1>7

LEMMA InsertViews ==
  ASSUME TypeOK, Calls, NEW t \in Allocators, Insert(t)
  PROVE  /\ key[t] \in Handles
         /\ \A h \in Handles : ~HalfInserted(h)
         /\ \A h \in Handles : HalfInserted(h)' <=> h = key[t]
         /\ \A h \in Handles : Registered(h)' <=> Registered(h) /\ h # key[t]
         /\ \A h \in Handles : h # key[t] => map_index'[h] = map_index[h]
         /\ \A i \in Indices : Pending(i)' <=> Pending(i)
<1>1. /\ pc[t] = "insert" /\ key[t] \in Handles
      /\ \A s \in Allocators : s # t => pc[s] \notin {"insert", "store"}
  BY DEF Calls, Insert, Threads
<1>2. /\ pc'[t] = "store"
      /\ \A s \in Allocators : s # t => pc'[s] = pc[s]
  BY DEF TypeOK, Insert, Goto, Threads
<1>3. \A h \in Handles : ~HalfInserted(h)
  BY <1>1 DEF HalfInserted
<1>4. \A h \in Handles : HalfInserted(h)' <=> h = key[t]
  BY <1>1, <1>2 DEF HalfInserted, Insert
<1>5. \A h \in Handles : h # key[t] => map_index'[h] = map_index[h]
  BY <1>1 DEF Insert, TypeOK
<1>6. \A h \in Handles : Registered(h)' <=> Registered(h) /\ h # key[t]
  BY <1>3, <1>4, <1>5 DEF Registered
<1>7. \A i \in Indices : Pending(i)' <=> Pending(i)
  BY <1>1, <1>2 DEF Pending, Insert
<1> QED
  BY <1>1, <1>3, <1>4, <1>5, <1>6, <1>7

LEMMA StoreViews ==
  ASSUME TypeOK, Calls, NEW t \in Allocators, Store(t)
  PROVE  /\ key[t] \in Handles /\ index[t] \in Indices /\ index_cache[index[t]]
         /\ \A h \in Handles : HalfInserted(h) <=> h = key[t]
         /\ \A h \in Handles : ~HalfInserted(h)'
         /\ \A h \in Handles : h # key[t] => map_index'[h] = map_index[h]
         /\ map_index'[key[t]] = index[t]
         /\ \A h \in Handles : Registered(h)' <=> Registered(h) \/ h = key[t]
         /\ \A i \in Indices : Pending(i) <=> i = index[t]
         /\ \A i \in Indices : ~Pending(i)'
<1>1. /\ pc[t] = "store" /\ key[t] \in Handles /\ index[t] \in Indices
      /\ index_cache[index[t]]
      /\ \A s \in Allocators : s # t => pc[s] \notin {"insert", "store"}
  BY DEF TypeOK, Calls, Store, Threads
<1>2. /\ pc'[t] = "idle"
      /\ \A s \in Allocators : s # t => pc'[s] = pc[s]
  BY DEF TypeOK, Store, Goto, Threads
<1>3. \A h \in Handles : HalfInserted(h) <=> h = key[t]
  BY <1>1 DEF HalfInserted
<1>4. \A h \in Handles : ~HalfInserted(h)'
  BY <1>1, <1>2 DEF HalfInserted
<1>5. /\ \A h \in Handles : h # key[t] => map_index'[h] = map_index[h]
      /\ map_index'[key[t]] = index[t]
  BY <1>1 DEF Store, TypeOK
<1>6. \A h \in Handles : Registered(h)' <=> Registered(h) \/ h = key[t]
  BY <1>1, <1>3, <1>4, <1>5, CacheAssumption DEF Registered
<1>7. /\ \A i \in Indices : Pending(i) <=> i = index[t]
      /\ \A i \in Indices : ~Pending(i)'
  BY <1>1, <1>2 DEF Pending
<1> QED
  BY <1>1, <1>3, <1>4, <1>5, <1>6, <1>7

-----------------------------------------------------------------------------
(* No two lidars share an index, whatever the number of allocators. *)

LEMMA RegisteredIndex ==
  ASSUME TypeOK, NEW h \in Handles, Registered(h)
  PROVE  map_index[h] \in Indices
BY DEF TypeOK, Registered

LEMMA StepIndices ==
  ASSUME IInv, Next
  PROVE  (Marked /\ IndexInjective)'
<1> USE DEF IInv
<1>1. CASE Quiet
  <2>1. Marked'
    BY <1>1, QuietViews DEF Marked, Quiet
  <2>2. IndexInjective'
    BY <1>1, QuietViews, RegisteredIndex DEF IndexInjective, Quiet
  <2> QED
    BY <2>1, <2>2
<1>2. ASSUME NEW t \in Allocators, Allocate(t) PROVE (Marked /\ IndexInjective)'
  <2>1. map_index' = map_index
    BY <1>2 DEF Allocate
  <2>2. \A h \in Handles : Registered(h)' =>
          /\ Registered(h) /\ map_index[h] \in Indices
          /\ index_cache[map_index[h]] /\ map_index[h] # index'[t]
    BY <1>2, AllocateViews, RegisteredIndex DEF Marked
  <2>3. Marked'
    BY <1>2, <2>1, <2>2, AllocateViews DEF Marked, TypeOK
  <2>4. IndexInjective'
    BY <1>2, <2>1, <2>2, AllocateViews DEF IndexInjective
  <2> QED
    BY <2>3, <2>4
<1>3. ASSUME NEW t \in Allocators, Insert(t) PROVE (Marked /\ IndexInjective)'
  <2>1. index_cache' = index_cache
    BY <1>3 DEF Insert
  <2>2. \A h \in Handles : Registered(h)' =>
          Registered(h) /\ map_index'[h] = map_index[h] /\ map_index[h] \in Indices
    BY <1>3, InsertViews, RegisteredIndex
  <2>3. Marked'
    BY <2>1, <2>2 DEF Marked
  <2>4. IndexInjective'
    BY <1>3, <2>2, InsertViews DEF IndexInjective
  <2> QED
    BY <2>3, <2>4
<1>4. ASSUME NEW t \in Allocators, Store(t) PROVE (Marked /\ IndexInjective)'
  <2>1. index_cache' = index_cache
    BY <1>4 DEF Store
  <2>2. \A h \in Handles : Registered(h)' /\ h # key[t] =>
          /\ Registered(h) /\ map_index'[h] = map_index[h]
          /\ map_index[h] \in Indices /\ map_index[h] # index[t]
    BY <1>4, StoreViews, RegisteredIndex DEF IndexInjective
  <2>3. Marked'
    BY <1>4, <2>1, <2>2, StoreViews DEF Marked
  <2>4. IndexInjective'
    BY <1>4, <2>2, StoreViews DEF IndexInjective
  <2> QED
    BY <2>3, <2>4
<1> QED
  BY <1>1, <1>2, <1>3, <1>4, QuietSteps

LEMMA StepIInv == IInv /\ [Next]_vars => IInv'
<1> SUFFICES ASSUME IInv, [Next]_vars PROVE IInv'
  OBVIOUS
<1>1. CASE Next
  BY <1>1, StepTypeOK, StepCalls, StepIndices DEF IInv
<1>2. CASE UNCHANGED vars
  BY <1>2 DEF IInv, TypeOK, Calls, Marked, IndexInjective, Registered, HalfInserted,
              Pending, vars
<1> QED
  BY <1>1, <1>2

LEMMA IInvHolds == Spec => []IInv
BY InitIInv, StepIInv, PTL DEF Spec

(* All places and indices are in range, with any number of lidars and threads:
   index_cache_ is never read past its end. *)
THEOREM TypeCorrect == Spec => []TypeOK
<1>1. IInv => TypeOK
  BY DEF IInv
<1> QED
  BY <1>1, IInvHolds, PTL

(* No two lidars share a place in lidars_, even if several threads allocate. *)
THEOREM IndexIsInjective == Spec => []IndexInjective
<1>1. IInv => IndexInjective
  BY DEF IInv
<1> QED
  BY <1>1, IInvHolds, PTL

-----------------------------------------------------------------------------
(* One thread allocates at a time.                                          *)

OneAllocator == \A s, t \in Allocators : s = t

(* A thread that has looked a lidar up allocates before anyone else can, and all
   that was ever answered still holds. *)
LookupFresh ==
  \A t \in Allocators : pc[t] \in {"allocate", "insert"} => map_index[key[t]] = None

AnswersHold == \A a \in answers : Registered(a[1]) /\ map_index[a[1]] = a[2]

SInv == IInv /\ LookupFresh /\ AnswersHold /\ NoIndexLost

LEMMA InitSInv == Init => SInv
<1> SUFFICES ASSUME Init PROVE SInv
  OBVIOUS
<1>1. LookupFresh /\ AnswersHold /\ NoIndexLost
  BY DEF Init, LookupFresh, AnswersHold, NoIndexLost, Threads
<1> QED
  BY <1>1, InitIInv DEF SInv

LEMMA AllocatorIsThread == ASSUME NEW t \in Allocators PROVE t \in Threads
BY DEF Threads

LEMMA StepLookupFresh ==
  ASSUME OneAllocator, SInv, Next
  PROVE  LookupFresh'
<1> USE DEF SInv, IInv
<1>1. ASSUME NEW t \in Allocators, NEW h \in Handles, GetFreeIndex(t, h) PROVE LookupFresh'
  BY <1>1, AllocatorIsThread DEF LookupFresh, OneAllocator, TypeOK, GetFreeIndex, Goto
<1>2. ASSUME NEW t \in Allocators, Find(t) PROVE LookupFresh'
  BY <1>2, AllocatorIsThread DEF LookupFresh, OneAllocator, TypeOK, Find, Goto
<1>3. ASSUME NEW t \in Allocators, Allocate(t) PROVE LookupFresh'
  BY <1>3, AllocatorIsThread DEF LookupFresh, OneAllocator, TypeOK, Allocate, Goto
<1>4. ASSUME NEW t \in Allocators, Refuse(t) PROVE LookupFresh'
  BY <1>4, AllocatorIsThread DEF LookupFresh, OneAllocator, TypeOK, Refuse, Goto
<1>5. ASSUME NEW t \in Allocators, Insert(t) PROVE LookupFresh'
  BY <1>5, AllocatorIsThread DEF LookupFresh, OneAllocator, TypeOK, Insert, Goto
<1>6. ASSUME NEW t \in Allocators, Store(t) PROVE LookupFresh'
  BY <1>6, AllocatorIsThread DEF LookupFresh, OneAllocator, TypeOK, Store, Goto
<1>7. ASSUME NEW t \in Threads, NEW h \in Handles, GetIndex(t, h) PROVE LookupFresh'
  BY <1>7, AllocatorIsThread DEF LookupFresh, TypeOK, GetIndex, Goto
<1>8. ASSUME NEW t \in Threads, Found(t) PROVE LookupFresh'
  BY <1>8, AllocatorIsThread DEF LookupFresh, TypeOK, Found, Goto
<1>9. ASSUME NEW t \in Threads, NotFound(t) PROVE LookupFresh'
  BY <1>9, AllocatorIsThread DEF LookupFresh, TypeOK, NotFound, Goto
<1>10. ASSUME NEW t \in Threads, Read(t) PROVE LookupFresh'
  BY <1>10, AllocatorIsThread DEF LookupFresh, TypeOK, Read, Goto
<1> QED
  BY <1>1, <1>2, <1>3, <1>4, <1>5, <1>6, <1>7, <1>8, <1>9, <1>10 DEF Next

(* An answer is given for a lidar that has its index. *)
LEMMA NewAnswers ==
  ASSUME SInv, Next, NEW a \in answers', a \notin answers
  PROVE  \/ Quiet /\ a[1] \in Handles /\ Registered(a[1]) /\ map_index[a[1]] = a[2]
         \/ \E t \in Allocators : Store(t) /\ a[1] = key[t] /\ a[2] = index[t]
<1> DEFINE Fine == a[1] \in Handles /\ Registered(a[1]) /\ map_index[a[1]] = a[2]
<1> USE DEF SInv, IInv
<1>1. ASSUME NEW t \in Threads, Read(t) PROVE Quiet /\ Fine
  <2>1. \A s \in Allocators : pc[s] # "store"
    BY <1>1, CacheAssumption, AllocatorIsThread DEF Calls, Read
  <2>2. Quiet
    BY <1>1 DEF TypeOK, Quiet, Read, Goto, Threads
  <2>3. a = <<key[t], map_index[key[t]]>> /\ key[t] \in Handles
    BY <1>1 DEF Read, Answer, Calls
  <2> QED
    BY <1>1, <2>1, <2>2, <2>3 DEF Registered, HalfInserted, Calls, Read
<1>2. ASSUME NEW t \in Allocators, Find(t) PROVE Quiet /\ Fine
  <2>1. \A s \in Allocators : pc[s] # "store"
    BY <1>2, CacheAssumption, AllocatorIsThread DEF Calls, Find
  <2>2. Quiet
    BY <1>2 DEF TypeOK, Quiet, Find, Goto, Threads
  <2>3. /\ a = <<key[t], map_index[key[t]]>> /\ key[t] \in Handles
        /\ map_index[key[t]] # None
    BY <1>2, AllocatorIsThread DEF Find, Answer, Calls
  <2> QED
    BY <2>1, <2>2, <2>3 DEF Registered, HalfInserted
<1>3. ASSUME NEW t \in Allocators, Store(t) PROVE a[1] = key[t] /\ a[2] = index[t]
  BY <1>3 DEF Store, Answer
<1>4. CASE answers' = answers
  BY <1>4
<1>5. \/ answers' = answers
      \/ \E t \in Threads : Read(t)
      \/ \E t \in Allocators : Find(t) \/ Store(t)
  BY DEF Next, GetFreeIndex, Allocate, Refuse, Insert, GetIndex, Found, NotFound
<1> QED
  BY <1>1, <1>2, <1>3, <1>4, <1>5

LEMMA StepAnswersHold ==
  ASSUME SInv, Next
  PROVE  AnswersHold'
<1> USE DEF SInv, IInv
<1>1. \A a \in answers : a[1] \in Handles
  BY DEF TypeOK
<1>2. CASE Quiet
  <2>1. ~\E t \in Allocators : Store(t)
    BY <1>2 DEF Quiet, Store, Goto, TypeOK, Threads
  <2> QED
    BY <1>1, <1>2, <2>1, QuietViews, NewAnswers DEF AnswersHold, Quiet
<1>3. ASSUME NEW t \in Allocators, Allocate(t) PROVE AnswersHold'
  <2>1. answers' = answers /\ map_index' = map_index
    BY <1>3 DEF Allocate
  <2> QED
    BY <1>1, <1>3, <2>1, AllocateViews DEF AnswersHold
<1>4. ASSUME NEW t \in Allocators, Insert(t) PROVE AnswersHold'
  <2>1. answers' = answers /\ map_index[key[t]] = None
    BY <1>4 DEF Insert, LookupFresh
  <2>2. \A a \in answers : a[1] # key[t]
    BY <2>1 DEF AnswersHold, Registered
  <2> QED
    BY <1>1, <1>4, <2>1, <2>2, InsertViews DEF AnswersHold
<1>5. ASSUME NEW t \in Allocators, Store(t) PROVE AnswersHold'
  <2>1. answers' = answers \cup {<<key[t], index[t]>>}
    BY <1>5 DEF Store, Answer
  <2>2. \A a \in answers : a[1] # key[t]
    BY <1>5, StoreViews DEF AnswersHold, Registered
  <2> QED
    BY <1>1, <1>5, <2>1, <2>2, StoreViews DEF AnswersHold
<1> QED
  BY <1>2, <1>3, <1>4, <1>5, QuietSteps

LEMMA StepNoIndexLost ==
  ASSUME SInv, Next
  PROVE  NoIndexLost'
<1> USE DEF SInv, IInv
<1>1. CASE Quiet
  BY <1>1, QuietViews DEF NoIndexLost, Quiet
<1>2. ASSUME NEW t \in Allocators, Allocate(t) PROVE NoIndexLost'
  <2>1. map_index' = map_index
    BY <1>2 DEF Allocate
  <2>2. \A i \in Indices : index_cache'[i] => index_cache[i] \/ i = index'[t]
    BY <1>2, AllocateViews DEF TypeOK
  <2> QED
    BY <1>2, <2>1, <2>2, AllocateViews DEF NoIndexLost
<1>3. ASSUME NEW t \in Allocators, Insert(t) PROVE NoIndexLost'
  <2>1. index_cache' = index_cache /\ map_index[key[t]] = None
    BY <1>3 DEF Insert, LookupFresh
  <2>2. ~Registered(key[t])
    BY <2>1 DEF Registered
  <2> QED
    BY <1>3, <2>1, <2>2, InsertViews DEF NoIndexLost
<1>4. ASSUME NEW t \in Allocators, Store(t) PROVE NoIndexLost'
  <2>1. index_cache' = index_cache
    BY <1>4 DEF Store
  <2>2. ~Registered(key[t])
    BY <1>4, StoreViews DEF Registered
  <2> QED
    BY <1>4, <2>1, <2>2, StoreViews DEF NoIndexLost
<1> QED
  BY <1>1, <1>2, <1>3, <1>4, QuietSteps

LEMMA StepSInv == OneAllocator /\ SInv /\ [Next]_vars => SInv'
<1> SUFFICES ASSUME OneAllocator, SInv, [Next]_vars PROVE SInv'
  OBVIOUS
<1>1. CASE Next
  BY <1>1, StepIInv, StepLookupFresh, StepAnswersHold, StepNoIndexLost DEF SInv
<1>2. CASE UNCHANGED vars
  <2>1. IInv'
    BY <1>2, StepIInv DEF SInv
  <2> QED
    BY <1>2, <2>1 DEF SInv, LookupFresh, AnswersHold, NoIndexLost, Registered,
                      HalfInserted, Pending, vars
<1> QED
  BY <1>1, <1>2

LEMMA SInvHolds == ASSUME OneAllocator PROVE Spec => []SInv
<1>1. SInv /\ [Next]_vars => SInv'
  BY StepSInv
<1> QED
  BY <1>1, InitSInv, PTL DEF Spec

(* Every call about a lidar, by any thread at any time, gives the same index, and
   calls about different lidars give different ones. *)
THEOREM AnswersAreConsistent == ASSUME OneAllocator PROVE Spec => []AnswersConsistent
<1>1. SInv => AnswersConsistent
  <2> SUFFICES ASSUME SInv, NEW a \in answers, NEW b \in answers
               PROVE  a[1] = b[1] <=> a[2] = b[2]
    BY DEF AnswersConsistent
  <2>1. a[1] \in Handles /\ b[1] \in Handles
    BY DEF SInv, IInv, TypeOK
  <2>2. Registered(a[1]) /\ map_index[a[1]] = a[2] /\ Registered(b[1]) /\ map_index[b[1]] = b[2]
    BY DEF SInv, AnswersHold
  <2> QED
    BY <2>1, <2>2 DEF SInv, IInv, IndexInjective
<1> QED
  BY <1>1, SInvHolds, PTL

(* No place in the table is lost: a lidar is refused only if it is full. *)
THEOREM NoIndexIsLost == ASSUME OneAllocator PROVE Spec => []NoIndexLost
<1>1. SInv => NoIndexLost
  BY DEF SInv
<1> QED
  BY <1>1, SInvHolds, PTL

-----------------------------------------------------------------------------
(* The atomic registry.                                                     *)

Assigned == [h \in Handles |-> IF Registered(h) THEN map_index[h] ELSE None]

LEMMA SameAssigned ==
  ASSUME \A h \in Handles : Registered(h)' <=> Registered(h),
         \A h \in Handles : Registered(h) => map_index'[h] = map_index[h]
  PROVE  Assigned' = Assigned
BY DEF Assigned

LEMMA StepImplements == SInv /\ [Next]_vars => [Registry!Next]_Assigned
<1> SUFFICES ASSUME SInv, [Next]_vars PROVE Registry!Next \/ Assigned' = Assigned
  BY DEF Registry!Next
<1> USE DEF SInv, IInv
<1>1. CASE Quiet
  BY <1>1, QuietViews, SameAssigned DEF Quiet
<1>2. ASSUME NEW t \in Allocators, Allocate(t) PROVE Assigned' = Assigned
  BY <1>2, AllocateViews, SameAssigned DEF Allocate
<1>3. ASSUME NEW t \in Allocators, Insert(t) PROVE Assigned' = Assigned
  <2>1. ~Registered(key[t])
    BY <1>3 DEF Insert, LookupFresh, Registered
  <2> QED
    BY <1>3, <2>1, InsertViews, SameAssigned
<1>4. ASSUME NEW t \in Allocators, Store(t) PROVE Registry!Next
  <2>1. ~Registered(key[t])
    BY <1>4, StoreViews DEF Registered
  <2>2. Assigned[key[t]] = None
    BY <1>4, <2>1, StoreViews DEF Assigned
  <2>3. \A g \in Handles : Assigned[g] # index[t]
    BY <1>4, CacheAssumption, StoreViews DEF Assigned, IndexInjective
  <2>4. Assigned' = [Assigned EXCEPT ![key[t]] = index[t]]
    <3>1. ASSUME NEW h \in Handles
          PROVE  (IF Registered(h)' THEN map_index'[h] ELSE None)
                   = IF h = key[t] THEN index[t] ELSE IF Registered(h) THEN map_index[h] ELSE None
      <4>1. CASE h = key[t]
        BY <1>4, <4>1, StoreViews
      <4>2. CASE h # key[t]
        BY <1>4, <4>2, StoreViews
      <4> QED  BY <4>1, <4>2
    <3>2. Assigned' = [h \in Handles |-> IF h = key[t] THEN index[t] ELSE Assigned[h]]
      BY <3>1 DEF Assigned
    <3> QED  BY <3>2 DEF Assigned
  <2>5. key[t] \in Handles /\ index[t] \in Indices
    BY <1>4, StoreViews
  <2> QED
    BY <2>2, <2>3, <2>4, <2>5 DEF Registry!Next, Registry!Assign, Assigned
<1>5. CASE UNCHANGED vars
  BY <1>5 DEF vars, Assigned, Registered, HalfInserted
<1>6. CASE Next
  BY <1>1, <1>2, <1>3, <1>4, <1>6, QuietSteps
<1> QED
  BY <1>5, <1>6

(* With one allocator at a time the registry is the abstract one. *)
THEOREM RegistryImplemented == ASSUME OneAllocator PROVE Spec => ImplementsRegistry
<1>1. Init => Registry!Init
  BY DEF Init, Registry!Init, Registered
<1>2. SInv /\ [Next]_vars => [Registry!Next]_Assigned
  BY StepImplements
<1> QED
  BY <1>1, <1>2, SInvHolds, PTL DEF Spec, ImplementsRegistry, Registry!Spec, Assigned

=============================================================================
