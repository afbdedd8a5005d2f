----------------------------- MODULE CacheIndex -----------------------------
(***************************************************************************)
(* The registry that maps the handle of a lidar to its place in lidars_    *)
(* (src/comm/cache_index.cpp).                                             *)
(*                                                                         *)
(* Two kinds of thread use it at the same time.  Allocators call           *)
(* GetFreeIndex: the constructor's thread for the lidars of the            *)
(* configuration (lds_lidar.cpp:147) and, when it has ended, the SDK's     *)
(* command thread for the lidars that are announced                        *)
(* (livox_lidar_callback.cpp:48).  Readers call GetIndex: the SDK's data   *)
(* thread for IMU samples, the processing thread for frames and the        *)
(* command thread for every answer (lds.cpp:109, 161,                      *)
(* livox_lidar_callback.cpp:326).                                          *)
(*                                                                         *)
(* GetFreeIndex looks up and allocates in two critical sections, and       *)
(* GetIndex looks up outside of any.  map_index_[key] = i first makes a    *)
(* node with the value 0 and then stores i in it; a lookup without the     *)
(* mutex that meets the insertion may miss a key that is there.  All       *)
(* callers pass kLivoxLidarType, so that GenerateIndexKey never fails and  *)
(* a handle is its own key.  ResetIndex and LvxGetIndex have no caller.    *)
(***************************************************************************)
EXTENDS Integers

CONSTANTS
  Handles,          (* lidars                                              *)
  Allocators,       (* threads that may call GetFreeIndex                  *)
  Readers,          (* threads that only call GetIndex                     *)
  kMaxSourceLidar,  (* length of index_cache_                              *)
  None

Threads == Allocators \cup Readers

Indices == 0 .. kMaxSourceLidar - 1

ASSUME CacheAssumption ==
  /\ kMaxSourceLidar \in Nat \ {0}
  /\ None \notin Indices
  /\ None \notin Handles
  /\ None \notin Threads

VARIABLES
  map_index,    (* index of each handle, or None                           *)
  index_cache,  (* is an index in use                                      *)
  index_mutex,  (* the thread that holds the mutex across steps, or None   *)
  pc,           (* where each thread is                                    *)
  key,          (* the handle each thread's call is about                  *)
  index,        (* the index that an allocator has taken                   *)
  answers       (* history: <<handle, index>> of all successful calls      *)

vars == <<map_index, index_cache, index_mutex, pc, key, index, answers>>

Init ==
  /\ map_index = [h \in Handles |-> None]
  /\ index_cache = [i \in Indices |-> FALSE]
  /\ index_mutex = None
  /\ pc = [t \in Threads |-> "idle"]
  /\ key = [t \in Threads |-> None]
  /\ index = [t \in Threads |-> 0]
  /\ answers = {}

Goto(t, label) == pc' = [pc EXCEPT ![t] = label]

Answer(t, i) == answers' = answers \cup {<<key[t], i>>}

-----------------------------------------------------------------------------
(* GetFreeIndex.                                                            *)

GetFreeIndex(t, h) ==
  /\ pc[t] = "idle"
  /\ key' = [key EXCEPT ![t] = h]
  /\ Goto(t, "find")
  /\ UNCHANGED <<map_index, index_cache, index_mutex, index, answers>>

(* Mutated form of Find: a handle that is known gets another index. *)
Find_Skipped(t) ==
  /\ pc[t] = "find"
  /\ index_mutex = None
  /\ Goto(t, "allocate")
  /\ UNCHANGED <<map_index, index_cache, index_mutex, key, index, answers>>

(* The first critical section: the handle may be known. *)
Find(t) ==
  /\ pc[t] = "find"
  /\ index_mutex = None
  /\ IF map_index[key[t]] # None
       THEN Goto(t, "idle") /\ Answer(t, map_index[key[t]])
       ELSE Goto(t, "allocate") /\ UNCHANGED answers
  /\ UNCHANGED <<map_index, index_cache, index_mutex, key, index>>

(* The lowest index that is not in use. *)
FirstFree(i) == ~index_cache[i] /\ \A j \in 0 .. i - 1 : index_cache[j]

(* Mutated form of Allocate: the index is not marked. *)
Allocate_Unmarked(t) ==
  /\ pc[t] = "allocate"
  /\ index_mutex = None
  /\ \E i \in Indices : FirstFree(i) /\ index' = [index EXCEPT ![t] = i]
  /\ index_mutex' = t
  /\ Goto(t, "insert")
  /\ UNCHANGED <<map_index, index_cache, key, answers>>

(* Mutated form of Allocate: i <= kMaxSourceLidar. *)
Allocate_PastEnd(t) ==
  /\ pc[t] = "allocate"
  /\ index_mutex = None
  /\ \E i \in 0 .. kMaxSourceLidar :
       /\ i \in Indices => FirstFree(i)
       /\ index_cache' = [index_cache EXCEPT ![i] = TRUE]
       /\ index' = [index EXCEPT ![t] = i]
  /\ index_mutex' = t
  /\ Goto(t, "insert")
  /\ UNCHANGED <<map_index, key, answers>>

(* The second critical section takes the mutex again and an index ... *)
Allocate(t) ==
  /\ pc[t] = "allocate"
  /\ index_mutex = None
  /\ \E i \in Indices :
       /\ FirstFree(i)
       /\ index_cache' = [index_cache EXCEPT ![i] = TRUE]
       /\ index' = [index EXCEPT ![t] = i]
  /\ index_mutex' = t
  /\ Goto(t, "insert")
  /\ UNCHANGED <<map_index, key, answers>>

(* ... unless all are in use: the lidar is refused. *)
Refuse(t) ==
  /\ pc[t] = "allocate"
  /\ index_mutex = None
  /\ \A i \in Indices : index_cache[i]
  /\ Goto(t, "idle")
  /\ UNCHANGED <<map_index, index_cache, index_mutex, key, index, answers>>

(* map_index_[key]: the node is made, unless there is one. *)
Insert(t) ==
  /\ pc[t] = "insert"
  /\ map_index' = [map_index EXCEPT ![key[t]] = IF @ = None THEN 0 ELSE @]
  /\ Goto(t, "store")
  /\ UNCHANGED <<index_cache, index_mutex, key, index, answers>>

(* The index is stored in the node, and the mutex is released. *)
Store(t) ==
  /\ pc[t] = "store"
  /\ map_index' = [map_index EXCEPT ![key[t]] = index[t]]
  /\ index_mutex' = None
  /\ Answer(t, index[t])
  /\ Goto(t, "idle")
  /\ UNCHANGED <<index_cache, key, index>>

-----------------------------------------------------------------------------
(* GetIndex.                                                                *)

GetIndex(t, h) ==
  /\ pc[t] = "idle"
  /\ key' = [key EXCEPT ![t] = h]
  /\ Goto(t, "lookup")
  /\ UNCHANGED <<map_index, index_cache, index_mutex, index, answers>>

(* find() without the mutex: the key is there ... *)
Found(t) ==
  /\ pc[t] = "lookup"
  /\ map_index[key[t]] # None
  /\ Goto(t, "read")
  /\ UNCHANGED <<map_index, index_cache, index_mutex, key, index, answers>>

(* ... or it is not, or an insertion is moving the nodes. *)
NotFound(t) ==
  /\ pc[t] = "lookup"
  /\ map_index[key[t]] = None \/ \E s \in Allocators : pc[s] \in {"insert", "store"}
  /\ Goto(t, "idle")
  /\ UNCHANGED <<map_index, index_cache, index_mutex, key, index, answers>>

(* Mutated form of Read: the value is read without the mutex, too. *)
Read_Unlocked(t) ==
  /\ pc[t] = "read"
  /\ Goto(t, "idle")
  /\ Answer(t, map_index[key[t]])
  /\ UNCHANGED <<map_index, index_cache, index_mutex, key, index>>

(* map_index_[key] under the mutex. *)
Read(t) ==
  /\ pc[t] = "read"
  /\ index_mutex = None
  /\ Goto(t, "idle")
  /\ Answer(t, map_index[key[t]])
  /\ UNCHANGED <<map_index, index_cache, index_mutex, key, index>>

-----------------------------------------------------------------------------
Next ==
  \/ \E t \in Allocators :
       \/ \E h \in Handles : GetFreeIndex(t, h)
       \/ Find(t)
       \/ Allocate(t)
       \/ Refuse(t)
       \/ Insert(t)
       \/ Store(t)
  \/ \E t \in Threads :
       \/ \E h \in Handles : GetIndex(t, h)
       \/ Found(t)
       \/ NotFound(t)
       \/ Read(t)

Spec == Init /\ [][Next]_vars

-----------------------------------------------------------------------------
(* Properties.                                                              *)

TypeOK ==
  /\ map_index \in [Handles -> Indices \cup {None}]
  /\ index_cache \in [Indices -> BOOLEAN]
  /\ index_mutex \in Threads \cup {None}
  /\ pc \in [Threads -> {"idle", "find", "allocate", "insert", "store", "lookup", "read"}]
  /\ key \in [Threads -> Handles \cup {None}]
  /\ index \in [Threads -> Indices]
  /\ answers \subseteq Handles \X Indices

(* The node of a lidar is there, but does not have its index yet. *)
HalfInserted(h) == \E t \in Allocators : pc[t] = "store" /\ key[t] = h

Registered(h) == map_index[h] # None /\ ~HalfInserted(h)

(* An index taken by a thread that has not stored it yet. *)
Pending(i) == \E t \in Allocators : pc[t] \in {"insert", "store"} /\ index[t] = i

(* No place in lidars_ is shared: no two lidars have the same index, and none
   has one that is about to be given away, whatever number of threads allocate
   (cache_index.cpp:49-60). *)
IndexInjective ==
  \A g, h \in Handles :
    Registered(g) /\ Registered(h) =>
      ~Pending(map_index[g]) /\ (map_index[g] = map_index[h] => g = h)

(* Over the whole life of the driver, all calls of all threads give the same
   index for a lidar, and different ones for different lidars: a frame, a sample
   or an answer never goes to another lidar's device.  This is where it matters
   that GetIndex reads the value under the mutex, and that there is one allocator
   at a time (cache_index.cpp:41-60, 81-84; lds.cpp:109, 161). *)
AnswersConsistent ==
  \A a, b \in answers : a[1] = b[1] <=> a[2] = b[2]

(* No index is lost: each one in use belongs to a lidar or is about to, so that a
   lidar is refused only if kMaxSourceLidar others are there
   (cache_index.cpp:49-61). *)
NoIndexLost ==
  \A i \in Indices :
    index_cache[i] => Pending(i) \/ \E h \in Handles : Registered(h) /\ map_index[h] = i

(* What a caller can rely on. *)
Registry == INSTANCE IndexRegistry
  WITH assigned <- [h \in Handles |-> IF Registered(h) THEN map_index[h] ELSE None]

(* With one allocator at a time, GetFreeIndex and GetIndex together behave like
   an atomic registry (cache_index.cpp:35-88). *)
ImplementsRegistry == Registry!Spec

=============================================================================
