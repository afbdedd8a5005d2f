-------------------------------- MODULE Ldq --------------------------------
(***************************************************************************)
(* The frame queue of one lidar (src/comm/ldq.cpp, struct LidarDataQueue   *)
(* of src/comm/comm.h): a ring of StoragePacket slots that two threads     *)
(* use without a lock.                                                     *)
(*                                                                         *)
(* The producer is the thread of PubHandler::RawDataProcess, which reaches *)
(* Lds::PushLidarData; it allocates the ring on the first frame, fills the *)
(* slot at wr_idx and then advances wr_idx.  The consumer is the thread of *)
(* DriverNode::PointCloudDataPollThread, which reaches QueuePop; it copies *)
(* the slot at rd_idx and then advances rd_idx.                            *)
(*                                                                         *)
(* Atomicity.  rd_idx, wr_idx and mask are aligned 32-bit words: a load or *)
(* a store of one of them is one step.  A StoragePacket is not: base_time  *)
(* and points_num (the "head") are assigned first, the points are copied   *)
(* after them (the "body"), and each half is a step of its own on both     *)
(* sides.  Steps become visible in program order, which is what volatile   *)
(* indices and the call of memcpy give on x86-64.                          *)
(*                                                                         *)
(* Frames are drawn from a small set: only their identity and whether both *)
(* halves of a slot belong to the same frame matter.                       *)
(***************************************************************************)
EXTENDS Integers, Sequences

CONSTANTS
  Frames,   (* the frames PubHandler hands to PushLidarData              *)
  Size,     (* number of slots, the power of two InitQueue settles on    *)
  IdxMod,   (* 2^32 in the code: rd_idx and wr_idx count modulo IdxMod   *)
  Null      (* a null storage_packet, and the content of a fresh slot    *)

(* Both numbers are powers of two and Size is the smaller one: RoundupPowerOf2
   returns at most 2^31 while the indices are 32 bits wide.  All that the
   queue needs of this is that Size divides IdxMod at least twice. *)
ASSUME SizeAssumption ==
  /\ Size \in Nat \ {0}
  /\ IdxMod \in Nat
  /\ \E k \in 2 .. IdxMod : IdxMod = k * Size

VARIABLES
  storage_packet,  (* Null, or the slots                                 *)
  mask,            (* queue->mask: 0 until InitQueue has run             *)
  rd_idx, wr_idx,  (* free-running indices                               *)
  ppc,             (* where the producer is in PushLidarData             *)
  frame,           (* the frame the producer is storing                  *)
  cpc,             (* where the consumer is in QueuePop                  *)
  pkg,             (* the consumer's copy of a slot                      *)
  published,       (* the last packet QueuePop completed                 *)
  refused          (* TRUE iff the last frame was dropped, queue full    *)

vars == <<storage_packet, mask, rd_idx, wr_idx, ppc, frame, cpc, pkg,
          published, refused>>

producer == <<storage_packet, mask, wr_idx, ppc, frame, refused>>
consumer == <<rd_idx, cpc, pkg, published>>

Indices == 0 .. IdxMod - 1
Halves  == Frames \cup {Null}

(* A StoragePacket: base_time and points_num, and the points they describe. *)
StoragePacket == [head : Halves, body : Halves]
Blank         == [head |-> Null, body |-> Null]
Whole(f)      == [head |-> f, body |-> f]

(* A null pointer is neither a frame nor an allocated ring. *)
ASSUME NullAssumption ==
  /\ Null \notin Frames
  /\ Null \notin [0 .. Size - 1 -> StoragePacket]

-----------------------------------------------------------------------------
(* Arithmetic of uint32_t and of the mask.                                  *)

(* Mutated form of Next32: the index is wider than the word it lives in. *)
Next32_NoWrap(i) == i + 1

(* queue->wr_idx++ and queue->rd_idx++. *)
Next32(i) == (i + 1) % IdxMod

(* idx & mask, for a mask that is one less than a power of two. *)
SlotOf(i) == i % (mask + 1)

QueueUsedSize == (wr_idx - rd_idx) % IdxMod

(* Mutated form of QueueIsFull: full one slot too late. *)
QueueIsFull_OffByOne == QueueUsedSize > mask + 1

QueueIsFull  == QueueUsedSize > mask
QueueIsEmpty == rd_idx = wr_idx

-----------------------------------------------------------------------------
(* The constructor of LdsLidar runs DeInitQueue on a zeroed queue.          *)
Init ==
  /\ storage_packet = Null
  /\ mask = 0
  /\ rd_idx = 0
  /\ wr_idx = 0
  /\ ppc = "idle"
  /\ frame = Null
  /\ cpc = "idle"
  /\ pkg = Blank
  /\ published = Blank
  /\ refused = FALSE

-----------------------------------------------------------------------------
(* Producer: Lds::PushLidarData, InitQueue and QueuePushAny.                *)

(* A frame arrives.  The ring is allocated on the first one. *)
PushLidarData(f) ==
  /\ ppc = "idle"
  /\ frame' = f
  /\ ppc' = IF storage_packet = Null THEN "alloc" ELSE "test"
  /\ UNCHANGED <<storage_packet, mask, wr_idx, refused, consumer>>

(* InitQueue: the slots appear before the indices and the mask are set, while
   the consumer may already be polling. *)
AllocateStorage ==
  /\ ppc = "alloc"
  /\ storage_packet' = [s \in 0 .. Size - 1 |-> Blank]
  /\ ppc' = "reset"
  /\ UNCHANGED <<mask, wr_idx, frame, refused, consumer>>

ResetIndices ==
  /\ ppc = "reset"
  /\ rd_idx' = 0
  /\ wr_idx' = 0
  /\ ppc' = "mask"
  /\ UNCHANGED <<storage_packet, mask, frame, refused, cpc, pkg, published>>

SetMask ==
  /\ ppc = "mask"
  /\ mask' = Size - 1
  /\ ppc' = "test"
  /\ UNCHANGED <<storage_packet, wr_idx, frame, refused, consumer>>

(* The test of QueueIsFull: the newest frame is the one that is dropped. *)
TestFull ==
  /\ ppc = "test"
  /\ IF QueueIsFull
       THEN ppc' = "idle" /\ refused' = TRUE
       ELSE ppc' = "head" /\ UNCHANGED refused
  /\ UNCHANGED <<storage_packet, mask, wr_idx, frame, consumer>>

PushHead ==
  /\ ppc = "head"
  /\ storage_packet' = [storage_packet EXCEPT ![SlotOf(wr_idx)].head = frame]
  /\ ppc' = "body"
  /\ UNCHANGED <<mask, wr_idx, frame, refused, consumer>>

PushBody ==
  /\ ppc = "body"
  /\ storage_packet' = [storage_packet EXCEPT ![SlotOf(wr_idx)].body = frame]
  /\ ppc' = "advance"
  /\ UNCHANGED <<mask, wr_idx, frame, refused, consumer>>

AdvanceWrite ==
  /\ ppc = "advance"
  /\ wr_idx' = Next32(wr_idx)
  /\ refused' = FALSE
  /\ ppc' = "idle"
  /\ UNCHANGED <<storage_packet, mask, frame, consumer>>

-----------------------------------------------------------------------------
(* Consumer: Lddc::PollingLidarPointCloudData and QueuePop.                 *)

(* Mutated form of PollQueue: the test of QueueIsEmpty is gone. *)
PollQueue_NoEmptyTest ==
  /\ cpc = "idle"
  /\ storage_packet # Null
  /\ cpc' = "head"
  /\ UNCHANGED <<rd_idx, pkg, published, producer>>

(* The null test and the test of QueueIsEmpty that the poll loop and
   QueuePrePop make: only this thread moves rd_idx, so a queue found
   non-empty once stays non-empty for it. *)
PollQueue ==
  /\ cpc = "idle"
  /\ storage_packet # Null
  /\ ~QueueIsEmpty
  /\ cpc' = "head"
  /\ UNCHANGED <<rd_idx, pkg, published, producer>>

(* Mutated form of PrePopHead: the slot is released before it is copied. *)
PrePopHead_EarlyRelease ==
  /\ cpc = "head"
  /\ pkg' = [pkg EXCEPT !.head = storage_packet[SlotOf(rd_idx)].head]
  /\ cpc' = "body"
  /\ rd_idx' = Next32(rd_idx)
  /\ UNCHANGED <<published, producer>>

PrePopHead ==
  /\ cpc = "head"
  /\ pkg' = [pkg EXCEPT !.head = storage_packet[SlotOf(rd_idx)].head]
  /\ cpc' = "body"
  /\ UNCHANGED <<rd_idx, published, producer>>

PrePopBody ==
  /\ cpc = "body"
  /\ pkg' = [pkg EXCEPT !.body = storage_packet[SlotOf(rd_idx)].body]
  /\ cpc' = "pop"
  /\ UNCHANGED <<rd_idx, published, producer>>

(* QueuePopUpdate; the packet goes on to be published. *)
PopUpdate ==
  /\ cpc = "pop"
  /\ rd_idx' = Next32(rd_idx)
  /\ published' = pkg
  /\ cpc' = "idle"
  /\ UNCHANGED <<pkg, producer>>

-----------------------------------------------------------------------------
Producer ==
  \/ \E f \in Frames : PushLidarData(f)
  \/ AllocateStorage
  \/ ResetIndices
  \/ SetMask
  \/ TestFull
  \/ PushHead
  \/ PushBody
  \/ AdvanceWrite

Consumer == PollQueue \/ PrePopHead \/ PrePopBody \/ PopUpdate

Next == Producer \/ Consumer

Spec == Init /\ [][Next]_vars

-----------------------------------------------------------------------------
(* Properties.                                                              *)

(* Every variable keeps its type; in particular both indices stay 32-bit
   words however many frames pass (ldq.cpp:108, 146). *)
TypeOK ==
  /\ storage_packet \in [0 .. Size - 1 -> StoragePacket] \cup {Null}
  /\ mask \in {0, Size - 1}
  /\ rd_idx \in Indices
  /\ wr_idx \in Indices
  /\ ppc \in {"idle", "alloc", "reset", "mask", "test", "head", "body", "advance"}
  /\ frame \in Halves
  /\ cpc \in {"idle", "head", "body", "pop"}
  /\ pkg \in StoragePacket
  /\ published \in StoragePacket
  /\ refused \in BOOLEAN

Writing == ppc \in {"head", "body", "advance"}
Reading == cpc \in {"head", "body", "pop"}

(* The two threads never touch one slot at the same time: while the producer
   fills the slot at wr_idx and the consumer copies the slot at rd_idx, these
   are different slots, also after the indices have wrapped around.  This is
   what lets QueuePushAny and QueuePrePop run without a lock
   (ldq.cpp:97-103, 137-146). *)
SlotsDisjoint == Writing /\ Reading => SlotOf(wr_idx) # SlotOf(rd_idx)

(* The window of occupied slots agrees with what the two threads are doing at
   every instant: nothing is read before InitQueue has set the mask; the ring is
   never over-filled, a writer has a free slot and a reader an occupied one;
   every occupied slot holds one whole frame; and what the reader has copied so
   far still equals the slot it copies from, although the producer may be
   several frames further on (lds.cpp:178-185, ldq.cpp:49-58, 97-108, 137-146). *)
BeforeInit ==
  storage_packet = Null \/ ppc \in {"reset", "mask"} =>
    rd_idx = 0 /\ wr_idx = 0 /\ mask = 0 /\ cpc = "idle"

Phases ==
  /\ storage_packet = Null => ppc \in {"idle", "alloc"}
  /\ ppc = "alloc" => storage_packet = Null
  /\ storage_packet # Null /\ ppc \notin {"reset", "mask"} => mask = Size - 1
  /\ ppc # "idle" => frame \in Frames

Occupancy ==
  /\ QueueUsedSize <= Size
  /\ Writing => QueueUsedSize < Size
  /\ Reading => QueueUsedSize > 0

OccupiedWhole ==
  \A k \in 0 .. QueueUsedSize - 1 :
    \E f \in Frames : storage_packet[SlotOf(rd_idx + k)] = Whole(f)

HalfWritten ==
  /\ ppc \in {"body", "advance"} => storage_packet[SlotOf(wr_idx)].head = frame
  /\ ppc = "advance" => storage_packet[SlotOf(wr_idx)].body = frame

HalfRead ==
  /\ cpc \in {"body", "pop"} => pkg.head = storage_packet[SlotOf(rd_idx)].head
  /\ cpc = "pop" => pkg.body = storage_packet[SlotOf(rd_idx)].body

RingInv ==
  BeforeInit /\ Phases /\ Occupancy /\ OccupiedWhole /\ HalfWritten /\ HalfRead

(* The frames in the ring, oldest first. *)
Queued ==
  [k \in 1 .. QueueUsedSize |-> storage_packet[SlotOf(rd_idx + k - 1)]]

Channel == INSTANCE FrameChannel WITH
  Frames <- {Whole(f) : f \in Frames}, Capacity <- Size, NoFrame <- Blank,
  chan <- Queued, out <- published

(* The ring implements the abstract channel: a frame that is dropped found the
   queue full, and every frame that is stored is published once, in order, and
   is never torn, overwritten or lost (lds.cpp:184-195, ldq.cpp:86-118). *)
ImplementsChannel == Channel!Spec

=============================================================================
