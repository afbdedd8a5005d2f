----------------------------- MODULE LdqProofs -----------------------------
(***************************************************************************)
(* Proofs about Ldq.tla, for every set of frames, every ring size and      *)
(* every index width that is a multiple (at least twice) of the ring size. *)
(***************************************************************************)
EXTENDS Ldq, SequenceTheorems, TLAPS

-----------------------------------------------------------------------------
(* Arithmetic modulo n.                                                     *)

(* Quotient and remainder. *)
LEMMA ModDef ==
  ASSUME NEW n \in Nat \ {0}, NEW x \in Int
  PROVE  /\ x % n \in 0 .. n - 1
         /\ x \div n \in Int
         /\ x = n * (x \div n) + (x % n)
  BY SMT

(* The remainder is unique. *)
LEMMA ModUnique ==
  ASSUME NEW n \in Nat \ {0}, NEW x \in Int, NEW q \in Int,
         NEW r \in 0 .. n - 1, x = n * q + r
  PROVE  x % n = r
  BY SMTT(30)

(* The remainder of a number that is off by at most n. *)
LEMMA ModNear ==
  ASSUME NEW n \in Nat \ {0}, NEW x \in Int
  PROVE  /\ x \in 0 .. n - 1 => x % n = x
         /\ x \in n .. 2 * n - 1 => x % n = x - n
         /\ x \in (-n) .. (-1) => x % n = x + n
<1>1. x \in 0 .. n - 1 => x % n = x
  BY SMT
<1>2. x \in n .. 2 * n - 1 => x % n = x - n
  <2>1. SUFFICES ASSUME x \in n .. 2 * n - 1 PROVE x % n = x - n
    OBVIOUS
  <2>2. x - n \in 0 .. n - 1 /\ x = n * 1 + (x - n)
    BY <2>1
  <2> QED
    BY <2>2, ModUnique
<1>3. x \in (-n) .. (-1) => x % n = x + n
  <2>1. SUFFICES ASSUME x \in (-n) .. (-1) PROVE x % n = x + n
    OBVIOUS
  <2>2. x + n \in 0 .. n - 1 /\ x = n * (-1) + (x + n)
    BY <2>1
  <2> QED
    BY <2>2, ModUnique
<1> QED
  BY <1>1, <1>2, <1>3

(* Adding a multiple of n does not change the remainder. *)
LEMMA ModShift ==
  ASSUME NEW n \in Nat \ {0}, NEW x \in Int, NEW j \in Int
  PROVE  (x + n * j) % n = x % n
<1> DEFINE q == x \div n
           r == x % n
<1>1. q \in Int /\ r \in 0 .. n - 1 /\ x = n * q + r
  BY ModDef
<1>2. x + n * j = n * (q + j) + r
  BY <1>1, SMT
<1>3. q + j \in Int /\ x + n * j \in Int
  BY <1>1, SMT
<1> HIDE DEF q, r
<1>4. (x + n * j) % n = r
  BY <1>1, <1>2, <1>3, ModUnique
<1> QED
  BY <1>4 DEF r

(* Fewer than n consecutive numbers have different remainders. *)
LEMMA ModApart ==
  ASSUME NEW n \in Nat \ {0}, NEW x \in Int, NEW d \in 1 .. n - 1
  PROVE  (x + d) % n # x % n
<1> DEFINE q == x \div n
           r == x % n
<1>1. q \in Int /\ r \in 0 .. n - 1 /\ x = n * q + r
  BY ModDef
<1> HIDE DEF q, r
<1>2. CASE r + d < n
  <2>1. x + d = n * q + (r + d) /\ r + d \in 0 .. n - 1 /\ x + d \in Int
    BY <1>1, <1>2
  <2>2. (x + d) % n = r + d
    BY <1>1, <2>1, ModUnique
  <2> QED
    BY <1>1, <2>2 DEF r
<1>3. CASE r + d >= n
  <2>1. /\ x + d = n * (q + 1) + (r + d - n)
        /\ r + d - n \in 0 .. n - 1
        /\ q + 1 \in Int /\ x + d \in Int
    BY <1>1, <1>3, SMT
  <2>2. (x + d) % n = r + d - n
    BY <1>1, <2>1, ModUnique
  <2>3. r + d - n # r
    BY <1>1
  <2> QED
    BY <2>2, <2>3 DEF r
<1> QED
  BY <1>1, <1>2, <1>3

-----------------------------------------------------------------------------
(* The indices.  Used(r, w) is QueueUsedSize for indices r and w.           *)

Used(r, w) == (w - r) % IdxMod

LEMMA IdxModPositive ==
  IdxMod \in Nat \ {0} /\ Size \in Nat \ {0} /\ 2 * Size <= IdxMod
  BY SizeAssumption, SMT

(* Remainders by Size survive the wrap-around of an index. *)
LEMMA SlotWrap ==
  ASSUME NEW x \in Int
  PROVE  /\ (x + IdxMod) % Size = x % Size
         /\ (x - IdxMod) % Size = x % Size
<1>1. PICK k \in 2 .. IdxMod : IdxMod = k * Size
  BY SizeAssumption
<1>2. IdxMod = Size * k /\ -IdxMod = Size * (-k) /\ k \in Int /\ -k \in Int
  BY <1>1, IdxModPositive, SMT
<1>3. (x + Size * k) % Size = x % Size /\ (x + Size * (-k)) % Size = x % Size
  BY <1>2, IdxModPositive, ModShift
<1>4. x - IdxMod = x + Size * (-k)
  BY <1>2, IdxModPositive
<1> QED
  BY <1>2, <1>3, <1>4

LEMMA UsedValue ==
  ASSUME NEW r \in Indices, NEW w \in Indices
  PROVE  /\ Used(r, w) \in 0 .. IdxMod - 1
         /\ Used(r, w) = IF w >= r THEN w - r ELSE w - r + IdxMod
         /\ Used(r, w) = 0 <=> r = w
<1>1. w - r \in Int /\ w - r \in (-IdxMod) .. IdxMod - 1
  BY IdxModPositive DEF Indices
<1>2. Used(r, w) = IF w >= r THEN w - r ELSE w - r + IdxMod
  <2>1. CASE w >= r
    <3>1. w - r \in 0 .. IdxMod - 1
      BY <2>1, IdxModPositive DEF Indices
    <3> QED
      BY <3>1, <1>1, <2>1, ModNear, IdxModPositive DEF Used
  <2>2. CASE ~(w >= r)
    <3>1. w - r \in (-IdxMod) .. (-1)
      BY <2>2, IdxModPositive DEF Indices
    <3> QED
      BY <3>1, <1>1, <2>2, ModNear, IdxModPositive DEF Used
  <2> QED
    BY <2>1, <2>2
<1> QED
  BY <1>2, IdxModPositive DEF Indices

LEMMA NextIndex ==
  ASSUME NEW i \in Indices
  PROVE  /\ Next32(i) \in Indices
         /\ Next32(i) = IF i + 1 = IdxMod THEN 0 ELSE i + 1
<1>1. CASE i + 1 = IdxMod
  <2>1. i + 1 \in Int /\ i + 1 = IdxMod * 1 + 0 /\ 0 \in 0 .. IdxMod - 1
    BY <1>1, IdxModPositive DEF Indices
  <2>2. (i + 1) % IdxMod = 0
    BY <2>1, ModUnique, IdxModPositive
  <2> QED
    BY <2>2, <1>1, IdxModPositive DEF Next32, Indices
<1>2. CASE i + 1 # IdxMod
  <2>1. i + 1 \in 0 .. IdxMod - 1 /\ i + 1 \in Int
    BY <1>2, IdxModPositive DEF Indices
  <2>2. (i + 1) % IdxMod = i + 1
    BY <2>1, ModNear, IdxModPositive
  <2> QED
    BY <2>2, <2>1, <1>2 DEF Next32, Indices
<1> QED
  BY <1>1, <1>2

(* A push makes the queue one longer, a pop one shorter. *)
LEMMA UsedStep ==
  ASSUME NEW r \in Indices, NEW w \in Indices
  PROVE  /\ Used(r, w) < Size => Used(r, Next32(w)) = Used(r, w) + 1
         /\ Used(r, w) > 0 => Used(Next32(r), w) = Used(r, w) - 1
<1>1. Next32(w) \in Indices /\ Next32(r) \in Indices
  BY NextIndex
<1>2. /\ Used(r, w) = IF w >= r THEN w - r ELSE w - r + IdxMod
      /\ Used(r, Next32(w)) = IF Next32(w) >= r THEN Next32(w) - r
                                                ELSE Next32(w) - r + IdxMod
      /\ Used(Next32(r), w) = IF w >= Next32(r) THEN w - Next32(r)
                                                ELSE w - Next32(r) + IdxMod
  BY <1>1, UsedValue
<1>3. /\ Next32(w) = IF w + 1 = IdxMod THEN 0 ELSE w + 1
      /\ Next32(r) = IF r + 1 = IdxMod THEN 0 ELSE r + 1
  BY NextIndex
<1> QED
  BY <1>2, <1>3, IdxModPositive DEF Indices

(* The slot behind the newest frame is the slot at wr_idx, and advancing rd_idx
   moves the window by one slot. *)
LEMMA SlotStep ==
  ASSUME NEW r \in Indices, NEW w \in Indices
  PROVE  /\ w % Size = (r + Used(r, w)) % Size
         /\ \A j \in Int : (Next32(r) + j) % Size = (r + 1 + j) % Size
<1>1. w % Size = (r + Used(r, w)) % Size
  <2>1. CASE w >= r
    <3>1. r + Used(r, w) = w
      BY <2>1, UsedValue, IdxModPositive DEF Indices
    <3> QED
      BY <3>1
  <2>2. CASE ~(w >= r)
    <3>1. r + Used(r, w) = w + IdxMod
      BY <2>2, UsedValue, IdxModPositive DEF Indices
    <3>2. w \in Int
      BY IdxModPositive DEF Indices
    <3> QED
      BY <3>1, <3>2, SlotWrap
  <2> QED
    BY <2>1, <2>2
<1>2. ASSUME NEW j \in Int
      PROVE  (Next32(r) + j) % Size = (r + 1 + j) % Size
  <2>1. CASE r + 1 = IdxMod
    <3> DEFINE y == r + 1 + j
    <3>1. Next32(r) + j = y - IdxMod /\ y \in Int
      BY <2>1, NextIndex, IdxModPositive DEF Indices
    <3> HIDE DEF y
    <3>2. (Next32(r) + j) % Size = y % Size
      BY <3>1, SlotWrap
    <3> QED
      BY <3>2 DEF y
  <2>2. CASE r + 1 # IdxMod
    <3>1. Next32(r) = r + 1
      BY <2>2, NextIndex
    <3> QED
      BY <3>1
  <2> QED
    BY <2>1, <2>2
<1> QED
  BY <1>1, <1>2

(* Two places of the window, or a place and the slot behind it, are different
   slots as long as they are fewer than Size apart. *)
LEMMA WindowApart ==
  ASSUME NEW r \in Int, NEW a \in Nat, NEW b \in Nat, a < b, b - a < Size
  PROVE  (r + a) % Size # (r + b) % Size
<1>1. r + a \in Int /\ b - a \in 1 .. Size - 1 /\ r + b = (r + a) + (b - a)
  BY IdxModPositive
<1> QED
  BY <1>1, ModApart, IdxModPositive

-----------------------------------------------------------------------------
(* The inductive invariant.                                                 *)

IInv == TypeOK /\ RingInv

(* Once the mask is set, an index selects its slot modulo Size. *)
LEMMA SlotOfIndex ==
  ASSUME IInv, storage_packet # Null, ppc \notin {"reset", "mask"}
  PROVE  /\ mask = Size - 1
         /\ \A i : SlotOf(i) = i % Size
         /\ \A i \in Int : SlotOf(i) \in 0 .. Size - 1
<1>1. mask = Size - 1 /\ mask + 1 = Size
  BY IdxModPositive DEF IInv, RingInv, Phases
<1>2. \A i : SlotOf(i) = i % Size
  BY <1>1, Zenon DEF SlotOf
<1>3. ASSUME NEW i \in Int PROVE i % Size \in 0 .. Size - 1
  BY ModDef, IdxModPositive
<1> QED
  BY <1>1, <1>2, <1>3

(* An occupied queue has been initialised. *)
LEMMA OccupiedReady ==
  ASSUME IInv, QueueUsedSize # 0
  PROVE  storage_packet # Null /\ ppc \notin {"reset", "mask"}
<1>1. rd_idx # wr_idx
  <2>1. SUFFICES ASSUME rd_idx = wr_idx PROVE QueueUsedSize = 0
    OBVIOUS
  <2> QED
    BY <2>1, UsedValue DEF IInv, TypeOK, QueueUsedSize, Used
<1> QED
  BY <1>1 DEF IInv, RingInv, BeforeInit

(* The slots of the window and the slot behind it. *)
LEMMA Window ==
  ASSUME IInv
  PROVE  /\ QueueUsedSize \in 0 .. Size
         /\ QueueUsedSize = Used(rd_idx, wr_idx)
         /\ QueueUsedSize = 0 <=> rd_idx = wr_idx
         /\ wr_idx % Size = (rd_idx + QueueUsedSize) % Size
         /\ QueueUsedSize < Size =>
              \A k \in 0 .. QueueUsedSize - 1 :
                (rd_idx + k) % Size # wr_idx % Size
<1>1. rd_idx \in Indices /\ wr_idx \in Indices
  BY DEF IInv, TypeOK
<1>2. QueueUsedSize = Used(rd_idx, wr_idx)
  BY DEF QueueUsedSize, Used
<1>3. QueueUsedSize \in 0 .. Size /\ (QueueUsedSize = 0 <=> rd_idx = wr_idx)
  BY <1>1, <1>2, UsedValue, IdxModPositive DEF IInv, RingInv, Occupancy
<1>4. wr_idx % Size = (rd_idx + QueueUsedSize) % Size
  BY <1>1, <1>2, SlotStep
<1>5. ASSUME QueueUsedSize < Size, NEW k \in 0 .. QueueUsedSize - 1
      PROVE  (rd_idx + k) % Size # wr_idx % Size
  <2> DEFINE u == QueueUsedSize
  <2>1. /\ rd_idx \in Int /\ k \in Nat /\ u \in Nat
        /\ k < u /\ u - k < Size
    BY <1>1, <1>3, <1>5, IdxModPositive DEF Indices
  <2> HIDE DEF u
  <2>2. (rd_idx + k) % Size # (rd_idx + u) % Size
    BY <2>1, WindowApart
  <2> QED
    BY <2>2, <1>4 DEF u
<1> QED
  BY <1>2, <1>3, <1>4, <1>5

(* Reading and writing go on only in a ring that is initialised. *)
LEMMA BusyReady ==
  ASSUME IInv, Writing \/ Reading \/ ppc = "test"
  PROVE  storage_packet # Null /\ ppc \notin {"reset", "mask"}
<1>1. CASE Writing \/ ppc = "test"
  BY <1>1 DEF Writing, IInv, RingInv, Phases
<1>2. CASE Reading
  <2>1. QueueUsedSize # 0
    BY <1>2, IdxModPositive, Window DEF IInv, RingInv, Occupancy
  <2> QED
    BY <2>1, OccupiedReady
<1> QED
  BY <1>1, <1>2

LEMMA InitIInv == Init => IInv
<1> SUFFICES ASSUME Init PROVE IInv
  OBVIOUS
<1>0. Blank \in StoragePacket /\ Null \in Halves
  BY DEF Blank, StoragePacket, Halves
<1>1. TypeOK
  <2>1. refused \in BOOLEAN
    BY Zenon DEF Init
  <2>2. 0 \in Indices
    BY IdxModPositive DEF Indices
  <2> QED
    BY <1>0, <2>1, <2>2 DEF Init, TypeOK
<1>2. QueueUsedSize = 0
  BY UsedValue, IdxModPositive DEF Init, QueueUsedSize, Used, Indices
<1>3. RingInv
  BY <1>2, IdxModPositive DEF Init, RingInv, BeforeInit, Phases, Occupancy,
     OccupiedWhole, HalfWritten, HalfRead, Writing, Reading
<1> QED
  BY <1>1, <1>3 DEF IInv

(* While the indices and the mask stay, so does the window. *)
LEMMA SameWindow ==
  ASSUME UNCHANGED <<mask, rd_idx, wr_idx>>
  PROVE  QueueUsedSize' = QueueUsedSize /\ \A i : SlotOf(i)' = SlotOf(i)
BY Zenon DEF QueueUsedSize, SlotOf

(* Types are preserved. *)
LEMMA StepTypeOK ==
  ASSUME IInv, Next
  PROVE  TypeOK'
<1> USE DEF producer, consumer
<1>0. TypeOK
  BY DEF IInv
<1>1. refused' \in BOOLEAN
  BY Zenon DEF IInv, TypeOK, Next, Producer, Consumer, PushLidarData,
     AllocateStorage, ResetIndices, SetMask, TestFull, PushHead, PushBody,
     AdvanceWrite, PollQueue, PrePopHead, PrePopBody, PopUpdate
<1>2. ASSUME NEW f \in Frames, PushLidarData(f) PROVE TypeOK'
  BY <1>0, <1>1, <1>2 DEF PushLidarData, TypeOK, Halves
<1>3. CASE AllocateStorage
  <2>1. Blank \in StoragePacket
    BY DEF Blank, StoragePacket, Halves
  <2> QED
    BY <1>0, <1>1, <1>3, <2>1 DEF AllocateStorage, TypeOK
<1>4. CASE ResetIndices
  <2>1. 0 \in Indices
    BY IdxModPositive DEF Indices
  <2> QED
    BY <1>0, <1>1, <1>4, <2>1 DEF ResetIndices, TypeOK
<1>5. CASE SetMask
  BY <1>0, <1>1, <1>5 DEF SetMask, TypeOK
<1>6. CASE TestFull
  BY <1>0, <1>1, <1>6 DEF TestFull, TypeOK
<1>7. ASSUME PushHead \/ PushBody PROVE TypeOK'
  <2>1. storage_packet \in [0 .. Size - 1 -> StoragePacket] /\ frame \in Halves
    BY <1>0, <1>7, BusyReady DEF PushHead, PushBody, Writing, TypeOK
  <2>2. storage_packet' \in [0 .. Size - 1 -> StoragePacket]
    BY <2>1, <1>7 DEF PushHead, PushBody, StoragePacket
  <2> QED
    BY <1>0, <1>1, <1>7, <2>2 DEF PushHead, PushBody, TypeOK
<1>8. CASE AdvanceWrite
  BY <1>0, <1>1, <1>8, NextIndex DEF AdvanceWrite, TypeOK
<1>9. CASE PollQueue
  BY <1>0, <1>1, <1>9 DEF PollQueue, TypeOK
<1>10. ASSUME PrePopHead \/ PrePopBody PROVE TypeOK'
  <2> DEFINE s == SlotOf(rd_idx)
  <2>1. /\ storage_packet \in [0 .. Size - 1 -> StoragePacket]
        /\ s \in 0 .. Size - 1
    <3>1. storage_packet # Null /\ ppc \notin {"reset", "mask"}
      BY <1>10, BusyReady DEF PrePopHead, PrePopBody, Reading
    <3>2. rd_idx \in Int
      BY <1>0, IdxModPositive DEF TypeOK, Indices
    <3> QED
      BY <1>0, <3>1, <3>2, SlotOfIndex DEF TypeOK
  <2> HIDE DEF s
  <2>2. storage_packet[s] \in StoragePacket
    BY <2>1
  <2>3. pkg' \in StoragePacket
    BY <1>0, <1>10, <2>2 DEF PrePopHead, PrePopBody, TypeOK, StoragePacket, s
  <2> QED
    BY <1>0, <1>1, <1>10, <2>3 DEF PrePopHead, PrePopBody, TypeOK
<1>11. CASE PopUpdate
  BY <1>0, <1>1, <1>11, NextIndex DEF PopUpdate, TypeOK
<1> QED
  BY <1>2, <1>3, <1>4, <1>5, <1>6, <1>7, <1>8, <1>9, <1>10, <1>11
  DEF Next, Producer, Consumer

(* The producer's two writes touch the free slot only: they keep the window. *)
LEMMA WriteFree ==
  ASSUME IInv, PushHead \/ PushBody
  PROVE  /\ storage_packet \in [0 .. Size - 1 -> StoragePacket]
         /\ SlotOf(wr_idx) \in 0 .. Size - 1
         /\ \A k \in 0 .. QueueUsedSize - 1 :
              /\ SlotOf(rd_idx + k) \in 0 .. Size - 1
              /\ SlotOf(rd_idx + k) # SlotOf(wr_idx)
              /\ storage_packet'[SlotOf(rd_idx + k)]
                   = storage_packet[SlotOf(rd_idx + k)]
         /\ QueueUsedSize' = QueueUsedSize
         /\ \A i : SlotOf(i)' = SlotOf(i)
<1>1. storage_packet # Null /\ ppc \notin {"reset", "mask"}
  BY BusyReady DEF PushHead, PushBody, Writing
<1>2. storage_packet \in [0 .. Size - 1 -> StoragePacket]
  BY <1>1 DEF IInv, TypeOK
<1>3. rd_idx \in Int /\ wr_idx \in Int
  BY IdxModPositive DEF IInv, TypeOK, Indices
<1>4. SlotOf(wr_idx) \in 0 .. Size - 1
  BY <1>1, <1>3, SlotOfIndex
<1>5. QueueUsedSize < Size
  BY DEF IInv, RingInv, Occupancy, Writing, PushHead, PushBody
<1>6. ASSUME NEW k \in 0 .. QueueUsedSize - 1
      PROVE  /\ SlotOf(rd_idx + k) \in 0 .. Size - 1
             /\ SlotOf(rd_idx + k) # SlotOf(wr_idx)
             /\ storage_packet'[SlotOf(rd_idx + k)]
                  = storage_packet[SlotOf(rd_idx + k)]
  <2>1. (rd_idx + k) % Size # wr_idx % Size /\ rd_idx + k \in Int
    BY <1>3, <1>5, Window
  <2>2. /\ SlotOf(rd_idx + k) \in 0 .. Size - 1
        /\ SlotOf(rd_idx + k) # SlotOf(wr_idx)
    BY <1>1, <2>1, SlotOfIndex
  <2> QED
    BY <1>2, <1>4, <2>2 DEF PushHead, PushBody
<1>7. QueueUsedSize' = QueueUsedSize /\ \A i : SlotOf(i)' = SlotOf(i)
  BY SameWindow DEF PushHead, PushBody, consumer
<1> QED
  BY <1>2, <1>4, <1>6, <1>7

(* The reader's position is the first place of the window. *)
LEMMA ReadOccupied ==
  ASSUME IInv, Reading
  PROVE  /\ 0 \in 0 .. QueueUsedSize - 1
         /\ SlotOf(rd_idx) = SlotOf(rd_idx + 0)
         /\ SlotOf(rd_idx) \in 0 .. Size - 1
<1>1. rd_idx \in Int
  BY IdxModPositive DEF IInv, TypeOK, Indices
<1>2. SlotOf(rd_idx) \in 0 .. Size - 1
  BY <1>1, BusyReady, SlotOfIndex
<1>3. QueueUsedSize \in Nat /\ QueueUsedSize > 0
  BY Window, IdxModPositive DEF IInv, RingInv, Occupancy
<1> QED
  BY <1>1, <1>2, <1>3

(* Steps of the producer that move neither an index nor the content of a slot. *)
LEMMA StepQuiet ==
  ASSUME IInv, UNCHANGED <<storage_packet, rd_idx, wr_idx, consumer>>,
         (\E f \in Frames : PushLidarData(f)) \/ TestFull
  PROVE  RingInv'
<1>1. QueueUsedSize' = QueueUsedSize /\ \A i : SlotOf(i)' = SlotOf(i)
  BY SameWindow DEF PushLidarData, TestFull
<1>2. BeforeInit'
  BY DEF BeforeInit, PushLidarData, TestFull, consumer, IInv, RingInv, Phases
<1>3. Phases'
  BY DEF Phases, PushLidarData, TestFull, IInv, RingInv
<1>4. Occupancy'
  <2>1. CASE \E f \in Frames : PushLidarData(f)
    BY <1>1, <2>1 DEF Occupancy, PushLidarData, consumer, IInv, RingInv, Writing,
       Reading
  <2>2. CASE TestFull
    <3>1. mask = Size - 1 /\ QueueUsedSize \in 0 .. Size
      BY <2>2, BusyReady, SlotOfIndex, Window DEF TestFull
    <3>2. ppc' = "head" => QueueUsedSize < Size
      BY <3>1, <2>2, IdxModPositive DEF TestFull, QueueIsFull
    <3> QED
      BY <1>1, <2>2, <3>2 DEF Occupancy, TestFull, consumer, IInv, RingInv,
         Writing, Reading
  <2> QED
    BY <2>1, <2>2
<1>5. OccupiedWhole'
  BY <1>1 DEF OccupiedWhole, IInv, RingInv
<1>6. HalfWritten'
  BY DEF HalfWritten, PushLidarData, TestFull
<1>7. HalfRead'
  BY <1>1 DEF HalfRead, IInv, RingInv, consumer
<1> QED
  BY <1>2, <1>3, <1>4, <1>5, <1>6, <1>7 DEF RingInv

(* InitQueue finds the queue empty and leaves it empty. *)
LEMMA StepInitQueue ==
  ASSUME IInv, AllocateStorage \/ ResetIndices \/ SetMask
  PROVE  RingInv'
<1> USE DEF producer, consumer
<1>1. rd_idx = 0 /\ wr_idx = 0 /\ cpc = "idle" /\ mask = 0
  BY DEF IInv, RingInv, BeforeInit, Phases, AllocateStorage, ResetIndices, SetMask
<1>2. rd_idx' = 0 /\ wr_idx' = 0 /\ cpc' = "idle"
  BY <1>1 DEF AllocateStorage, ResetIndices, SetMask
<1>3. QueueUsedSize' = 0
  <2>1. 0 \in Indices
    BY IdxModPositive DEF Indices
  <2>2. Used(0, 0) = 0
    BY <2>1, UsedValue
  <2> QED
    BY <1>2, <2>2 DEF QueueUsedSize, Used
<1>5. BeforeInit'
  BY <1>1, <1>2 DEF BeforeInit, AllocateStorage, ResetIndices, SetMask, IInv,
     RingInv, Phases
<1>6. Phases'
  <2>1. CASE AllocateStorage
    <3>1. [s \in 0 .. Size - 1 |-> Blank] \in [0 .. Size - 1 -> StoragePacket]
      BY DEF Blank, StoragePacket, Halves
    <3>2. storage_packet' # Null
      BY <2>1, <3>1, NullAssumption DEF AllocateStorage
    <3> QED
      BY <2>1, <3>2 DEF Phases, AllocateStorage, IInv, RingInv
  <2>2. CASE ResetIndices \/ SetMask
    BY <2>2 DEF Phases, ResetIndices, SetMask, IInv, RingInv
  <2> QED
    BY <2>1, <2>2
<1>7. Occupancy'
  BY <1>2, <1>3, IdxModPositive DEF Occupancy, Writing, Reading,
     AllocateStorage, ResetIndices, SetMask
<1>8. OccupiedWhole'
  BY <1>3 DEF OccupiedWhole
<1>9. HalfWritten' /\ HalfRead'
  BY <1>2 DEF HalfWritten, HalfRead, AllocateStorage, ResetIndices, SetMask
<1> QED
  BY <1>5, <1>6, <1>7, <1>8, <1>9 DEF RingInv

LEMMA StepWrite ==
  ASSUME IInv, PushHead \/ PushBody
  PROVE  RingInv'
<1> DEFINE w == SlotOf(wr_idx)
<1>1. /\ storage_packet \in [0 .. Size - 1 -> StoragePacket]
      /\ w \in 0 .. Size - 1
      /\ QueueUsedSize' = QueueUsedSize
      /\ \A i : SlotOf(i)' = SlotOf(i)
  BY WriteFree
<1>2. UNCHANGED <<mask, rd_idx, wr_idx, frame, cpc, pkg>>
  BY DEF PushHead, PushBody, consumer
<1>3. storage_packet' \in [0 .. Size - 1 -> StoragePacket]
  BY StepTypeOK, <1>1 DEF Next, Producer, TypeOK, PushHead, PushBody,
     StoragePacket, IInv
<1>4. storage_packet # Null /\ storage_packet' # Null
  BY <1>1, <1>3, NullAssumption
<1>5. BeforeInit'
  BY <1>4 DEF BeforeInit, PushHead, PushBody
<1>6. Phases'
  BY <1>2, <1>4 DEF Phases, PushHead, PushBody, IInv, RingInv
<1>7. Occupancy'
  BY <1>1, <1>2 DEF Occupancy, PushHead, PushBody, IInv, RingInv, Writing, Reading
<1>8. OccupiedWhole'
  <2>1. ASSUME NEW k \in 0 .. QueueUsedSize - 1
        PROVE  \E f \in Frames : storage_packet'[SlotOf(rd_idx + k)] = Whole(f)
    BY <2>1, WriteFree DEF OccupiedWhole, IInv, RingInv
  <2>2. SlotOf(rd_idx + 0) = SlotOf(rd_idx + 0)
    OBVIOUS
  <2> QED
    BY <1>1, <1>2, <2>1 DEF OccupiedWhole
<1>9. HalfWritten'
  <2> HIDE DEF w
  <2>1. SlotOf(wr_idx)' = w
    BY <1>1, <1>2 DEF w
  <2>2. CASE PushHead
    <3>1. storage_packet'[w].head = frame
      BY <1>1, <2>2 DEF PushHead, StoragePacket, w
    <3> QED
      BY <1>2, <2>1, <2>2, <3>1 DEF HalfWritten, PushHead
  <2>3. CASE PushBody
    <3>1. storage_packet'[w].body = frame
      BY <1>1, <2>3 DEF PushBody, StoragePacket, w
    <3>2. storage_packet'[w].head = storage_packet[w].head
      BY <1>1, <2>3 DEF PushBody, StoragePacket, w
    <3>3. storage_packet[w].head = frame
      BY <2>3 DEF IInv, RingInv, HalfWritten, PushBody, w
    <3> QED
      BY <1>2, <2>1, <3>1, <3>2, <3>3 DEF HalfWritten
  <2> QED
    BY <2>2, <2>3
<1>10. HalfRead'
  <2>1. SUFFICES ASSUME cpc \in {"body", "pop"} PROVE HalfRead'
    BY <1>2 DEF HalfRead
  <2>2. storage_packet'[SlotOf(rd_idx)] = storage_packet[SlotOf(rd_idx)]
    BY <2>1, ReadOccupied, WriteFree DEF Reading
  <2>3. SlotOf(rd_idx)' = SlotOf(rd_idx)
    BY <1>1, <1>2
  <2> QED
    BY <1>2, <2>2, <2>3 DEF HalfRead, IInv, RingInv
<1> QED
  BY <1>5, <1>6, <1>7, <1>8, <1>9, <1>10 DEF RingInv

LEMMA StepAdvanceWrite ==
  ASSUME IInv, AdvanceWrite
  PROVE  RingInv'
<1> DEFINE u == QueueUsedSize
<1>1. UNCHANGED <<storage_packet, mask, frame, rd_idx, cpc, pkg>>
      /\ ppc' = "idle" /\ wr_idx' = Next32(wr_idx)
  BY DEF AdvanceWrite, consumer
<1>2. /\ storage_packet # Null /\ ppc \notin {"reset", "mask"}
      /\ mask = Size - 1
      /\ \A i : SlotOf(i) = i % Size
  BY BusyReady, SlotOfIndex DEF AdvanceWrite, Writing
<1>3. \A i : SlotOf(i)' = SlotOf(i)
  BY <1>1, Zenon DEF SlotOf
<1>4. rd_idx \in Indices /\ wr_idx \in Indices
  BY DEF IInv, TypeOK
<1>5. /\ u \in 0 .. Size - 1
      /\ QueueUsedSize' = u + 1
  <2>1. u < Size /\ u \in 0 .. Size /\ u = Used(rd_idx, wr_idx)
    BY Window DEF IInv, RingInv, Occupancy, Writing, AdvanceWrite
  <2>2. Used(rd_idx, Next32(wr_idx)) = u + 1
    BY <1>4, <2>1, UsedStep
  <2>3. QueueUsedSize' = Used(rd_idx, Next32(wr_idx))
    BY <1>1, Zenon DEF QueueUsedSize, Used
  <2> QED
    BY <2>1, <2>2, <2>3, IdxModPositive
<1> HIDE DEF u
<1>6. BeforeInit'
  BY <1>1, <1>2 DEF BeforeInit
<1>7. Phases'
  BY <1>1, <1>2 DEF Phases
<1>8. Occupancy'
  BY <1>1, <1>5, IdxModPositive DEF Occupancy, Writing, Reading
<1>9. OccupiedWhole'
  <2>1. storage_packet[SlotOf(wr_idx)] = Whole(frame) /\ frame \in Frames
    <3>1. /\ storage_packet[SlotOf(wr_idx)].head = frame
          /\ storage_packet[SlotOf(wr_idx)].body = frame
          /\ frame \in Frames
      BY DEF IInv, RingInv, HalfWritten, Phases, AdvanceWrite
    <3>2. storage_packet[SlotOf(wr_idx)] \in StoragePacket
      BY SMTT(30), <1>2, <1>4, SlotOfIndex, IdxModPositive DEF IInv, TypeOK, Indices
    <3> QED
      BY <3>1, <3>2 DEF StoragePacket, Whole
  <2>2. SlotOf(rd_idx + u) = SlotOf(wr_idx)
    BY <1>2, Window DEF u
  <2>3. ASSUME NEW k \in 0 .. u
        PROVE  \E f \in Frames : storage_packet[SlotOf(rd_idx + k)] = Whole(f)
    <3>1. CASE k = u
      BY <2>1, <2>2, <3>1
    <3>2. CASE k # u
      BY <1>5, <3>2 DEF IInv, RingInv, OccupiedWhole, u
    <3> QED
      BY <3>1, <3>2
  <2>4. 0 .. QueueUsedSize' - 1 = 0 .. u
    BY <1>5, IdxModPositive
  <2> QED
    BY <1>1, <1>3, <2>3, <2>4 DEF OccupiedWhole
<1>10. HalfWritten'
  BY <1>1 DEF HalfWritten
<1>11. HalfRead'
  BY <1>1, <1>3 DEF HalfRead, IInv, RingInv
<1> QED
  BY <1>6, <1>7, <1>8, <1>9, <1>10, <1>11 DEF RingInv

(* The consumer's steps up to the release of the slot. *)
LEMMA StepRead ==
  ASSUME IInv, PollQueue \/ PrePopHead \/ PrePopBody
  PROVE  RingInv'
<1>1. UNCHANGED <<storage_packet, mask, rd_idx, wr_idx, ppc, frame>>
      /\ cpc' \in {"head", "body", "pop"}
  BY DEF PollQueue, PrePopHead, PrePopBody, producer
<1>2. QueueUsedSize' = QueueUsedSize /\ \A i : SlotOf(i)' = SlotOf(i)
  BY <1>1, SameWindow
<1>3. QueueUsedSize \in 0 .. Size /\ QueueUsedSize > 0
  <2>1. CASE PollQueue
    BY <2>1, Window, IdxModPositive DEF PollQueue, QueueIsEmpty
  <2>2. CASE PrePopHead \/ PrePopBody
    BY <2>2, Window DEF PrePopHead, PrePopBody, IInv, RingInv, Occupancy, Reading
  <2> QED
    BY <2>1, <2>2
<1>4. storage_packet # Null /\ ppc \notin {"reset", "mask"}
  BY <1>3, OccupiedReady
<1>5. BeforeInit'
  BY <1>1, <1>4 DEF BeforeInit
<1>6. Phases'
  BY <1>1 DEF Phases, IInv, RingInv
<1>7. Occupancy'
  BY <1>1, <1>2, <1>3 DEF Occupancy, IInv, RingInv, Writing
<1>8. OccupiedWhole'
  BY <1>1, <1>2 DEF OccupiedWhole, IInv, RingInv
<1>9. HalfWritten'
  BY <1>1, <1>2 DEF HalfWritten, IInv, RingInv
<1>10. HalfRead'
  <2>1. pkg \in [head : Halves, body : Halves]
    BY DEF IInv, TypeOK, StoragePacket
  <2>2. CASE PollQueue
    BY <2>2 DEF HalfRead, PollQueue
  <2>3. CASE PrePopHead
    BY <1>1, <1>2, <2>1, <2>3 DEF HalfRead, PrePopHead
  <2>4. CASE PrePopBody
    BY <1>1, <1>2, <2>1, <2>4 DEF HalfRead, PrePopBody, IInv, RingInv
  <2> QED
    BY <2>2, <2>3, <2>4
<1> QED
  BY <1>5, <1>6, <1>7, <1>8, <1>9, <1>10 DEF RingInv

LEMMA StepPopUpdate ==
  ASSUME IInv, PopUpdate
  PROVE  RingInv'
<1> DEFINE u == QueueUsedSize
<1>1. UNCHANGED <<storage_packet, mask, wr_idx, ppc, frame>>
      /\ cpc' = "idle" /\ rd_idx' = Next32(rd_idx)
  BY DEF PopUpdate, producer
<1>2. /\ storage_packet # Null /\ ppc \notin {"reset", "mask"}
      /\ \A i : SlotOf(i) = i % Size
  BY BusyReady, SlotOfIndex DEF PopUpdate, Reading
<1>3. \A i : SlotOf(i)' = SlotOf(i)
  BY <1>1, Zenon DEF SlotOf
<1>4. rd_idx \in Indices /\ wr_idx \in Indices
  BY DEF IInv, TypeOK
<1>5. u \in 1 .. Size /\ QueueUsedSize' = u - 1
  <2>1. u > 0 /\ u \in 0 .. Size /\ u = Used(rd_idx, wr_idx)
    BY Window DEF IInv, RingInv, Occupancy, Reading, PopUpdate
  <2>2. Used(Next32(rd_idx), wr_idx) = u - 1
    BY <1>4, <2>1, UsedStep
  <2>3. QueueUsedSize' = Used(Next32(rd_idx), wr_idx)
    BY <1>1, Zenon DEF QueueUsedSize, Used
  <2> QED
    BY <2>1, <2>2, <2>3, IdxModPositive
<1> HIDE DEF u
<1>6. BeforeInit'
  BY <1>1, <1>2 DEF BeforeInit
<1>7. Phases'
  BY <1>1 DEF Phases, IInv, RingInv
<1>8. Occupancy'
  BY <1>1, <1>5, IdxModPositive DEF Occupancy, Writing, Reading, IInv, RingInv, u
<1>9. OccupiedWhole'
  <2>1. ASSUME NEW k \in 0 .. u - 2
        PROVE  \E f \in Frames : storage_packet[SlotOf(Next32(rd_idx) + k)] = Whole(f)
    <3>1. (Next32(rd_idx) + k) % Size = (rd_idx + 1 + k) % Size
      BY <1>4, SlotStep
    <3>2. k + 1 \in 0 .. u - 1 /\ rd_idx + (k + 1) = rd_idx + 1 + k
      BY <1>4, <1>5, IdxModPositive DEF Indices
    <3>3. SlotOf(Next32(rd_idx) + k) = SlotOf(rd_idx + (k + 1))
      BY <1>2, <3>1, <3>2
    <3> QED
      BY <3>2, <3>3 DEF IInv, RingInv, OccupiedWhole, u
  <2>2. 0 .. QueueUsedSize' - 1 = 0 .. u - 2
    BY <1>5, IdxModPositive
  <2> QED
    BY <1>1, <1>3, <2>1, <2>2 DEF OccupiedWhole
<1>10. HalfWritten'
  BY <1>1, <1>3 DEF HalfWritten, IInv, RingInv
<1>11. HalfRead'
  BY <1>1 DEF HalfRead
<1> QED
  BY <1>6, <1>7, <1>8, <1>9, <1>10, <1>11 DEF RingInv

LEMMA StepIInv == IInv /\ [Next]_vars => IInv'
<1> SUFFICES ASSUME IInv, [Next]_vars PROVE IInv'
  OBVIOUS
<1>1. CASE Next
  <2>1. TypeOK'
    BY <1>1, StepTypeOK
  <2>2. RingInv'
    BY <1>1, StepQuiet, StepInitQueue, StepWrite, StepAdvanceWrite, StepRead,
       StepPopUpdate
    DEF Next, Producer, Consumer, PushLidarData, TestFull, consumer
  <2> QED
    BY <2>1, <2>2 DEF IInv
<1>2. CASE UNCHANGED vars
  BY <1>2, SameWindow DEF vars, IInv, TypeOK, RingInv, BeforeInit, Phases,
     Occupancy, OccupiedWhole, HalfWritten, HalfRead, Writing, Reading
<1> QED
  BY <1>1, <1>2

(* The variables keep their types: the indices are 32-bit words for ever. *)
THEOREM TypeCorrect == Spec => []TypeOK
<1>1. IInv => TypeOK
  BY DEF IInv
<1> QED
  BY <1>1, InitIInv, StepIInv, PTL DEF Spec

(* The window of occupied slots agrees with both threads in every reachable
   state, for every ring size, index width and set of frames
   (ldq.cpp:97-108, 137-146). *)
THEOREM RingInvariant == Spec => []RingInv
<1>1. IInv => RingInv
  BY DEF IInv
<1> QED
  BY <1>1, InitIInv, StepIInv, PTL DEF Spec

LEMMA DisjointSlots == IInv => SlotsDisjoint
<1> SUFFICES ASSUME IInv, Writing, Reading
             PROVE  SlotOf(wr_idx) # SlotOf(rd_idx)
  BY DEF SlotsDisjoint
<1>1. /\ storage_packet # Null /\ ppc \notin {"reset", "mask"}
      /\ \A i : SlotOf(i) = i % Size
  BY BusyReady, SlotOfIndex
<1>2. QueueUsedSize < Size
  BY DEF IInv, RingInv, Occupancy
<1>3. (rd_idx + 0) % Size # wr_idx % Size
  BY <1>2, Window, ReadOccupied
<1> QED
  BY <1>1, <1>3, ReadOccupied

(* The two threads never use one slot at the same time: QueuePushAny and
   QueuePrePop need no lock (ldq.cpp:97-103, 137-146). *)
THEOREM NoSharedSlot == Spec => []SlotsDisjoint
  BY InitIInv, StepIInv, DisjointSlots, PTL DEF Spec

-----------------------------------------------------------------------------
(* The ring implements the abstract channel.                                *)

Wholes == {Whole(f) : f \in Frames}

(* The refinement mapping yields a sequence as long as the window. *)
LEMMA QueuedSeq ==
  ASSUME IInv
  PROVE  /\ Queued \in Seq(Wholes)
         /\ Len(Queued) = QueueUsedSize
         /\ QueueUsedSize \in Nat
         /\ \A k \in 1 .. QueueUsedSize :
              Queued[k] = storage_packet[SlotOf(rd_idx + k - 1)]
<1> DEFINE u == QueueUsedSize
<1>1. u \in Nat
  BY Window, IdxModPositive
<1>2. ASSUME NEW k \in 1 .. u
      PROVE  storage_packet[SlotOf(rd_idx + k - 1)] \in Wholes
  <2>1. k - 1 \in 0 .. u - 1
    BY <1>1
  <2>2. rd_idx + (k - 1) = rd_idx + k - 1
    BY IdxModPositive DEF IInv, TypeOK, Indices
  <2>3. \E f \in Frames : storage_packet[SlotOf(rd_idx + (k - 1))] = Whole(f)
    BY <2>1 DEF IInv, RingInv, OccupiedWhole
  <2> QED
    BY <2>2, <2>3 DEF Wholes
<1>3. Queued = [k \in 1 .. u |-> storage_packet[SlotOf(rd_idx + k - 1)]]
  BY DEF Queued
<1> HIDE DEF u
<1>4. Queued \in [1 .. u -> Wholes]
  BY <1>2, <1>3
<1>5. Queued \in Seq(Wholes)
  BY <1>1, <1>4, SeqDef
<1>6. Len(Queued) = u
  <2>1. Len(Queued) \in Nat /\ DOMAIN Queued = 1 .. Len(Queued)
    BY <1>5, LenProperties
  <2>2. 1 .. Len(Queued) = 1 .. u
    BY <2>1, <1>4
  <2>3. ASSUME NEW a \in Nat, NEW b \in Nat, 1 .. a = 1 .. b PROVE a <= b
    <3>1. a \in 1 .. a \/ a = 0
      OBVIOUS
    <3> QED
      BY <2>3, <3>1
  <2> DEFINE n == Len(Queued)
  <2> HIDE DEF n
  <2>4. n \in Nat /\ 1 .. n = 1 .. u
    BY <2>1, <2>2 DEF n
  <2>5. n <= u /\ u <= n
    BY <2>3, <2>4, <1>1
  <2> QED
    BY <2>4, <2>5, <1>1 DEF n
<1> QED
  BY <1>1, <1>3, <1>5, <1>6 DEF u

LEMMA InitRefines == Init => Channel!Init
<1> SUFFICES ASSUME Init PROVE Channel!Init
  OBVIOUS
<1>1. QueueUsedSize = 0
  BY InitIInv, Window DEF Init
<1>2. Queued = <<>>
  BY <1>1, InitIInv, QueuedSeq, EmptySeq
<1> QED
  BY <1>2, Zenon DEF Init, Channel!Init

(* Every step but three leaves the channel alone. *)
LEMMA QuietRefines ==
  ASSUME IInv, Next, ~AdvanceWrite, ~PopUpdate
  PROVE  Queued' = Queued /\ published' = published
<1> USE DEF producer, consumer
<1>1. published' = published
  BY DEF Next, Producer, Consumer, PushLidarData, AllocateStorage, ResetIndices,
     SetMask, TestFull, PushHead, PushBody, PollQueue, PrePopHead, PrePopBody
<1>2. QueueUsedSize' = QueueUsedSize
      /\ \A k \in 0 .. QueueUsedSize - 1 :
           storage_packet'[SlotOf(rd_idx + k)'] = storage_packet[SlotOf(rd_idx + k)]
      /\ rd_idx' = rd_idx
  <2>1. CASE PushHead \/ PushBody
    BY <2>1, WriteFree DEF PushHead, PushBody
  <2>2. CASE \/ \E f \in Frames : PushLidarData(f)
             \/ TestFull \/ PollQueue \/ PrePopHead \/ PrePopBody
    <3>1. UNCHANGED <<storage_packet, mask, rd_idx, wr_idx>>
      BY <2>2 DEF PushLidarData, TestFull, PollQueue, PrePopHead, PrePopBody
    <3> QED
      BY <3>1, SameWindow
  <2>3. CASE AllocateStorage \/ ResetIndices \/ SetMask
    <3>1. rd_idx = 0 /\ wr_idx = 0 /\ rd_idx' = 0 /\ wr_idx' = 0
      BY <2>3 DEF AllocateStorage, ResetIndices, SetMask, IInv, RingInv,
         BeforeInit, Phases
    <3>2. QueueUsedSize' = QueueUsedSize
      BY <3>1, Zenon DEF QueueUsedSize
    <3>3. QueueUsedSize = 0
      BY <3>1, Window
    <3> QED
      BY <3>1, <3>2, <3>3
  <2> QED
    BY <2>1, <2>2, <2>3 DEF Next, Producer, Consumer
<1>3. ASSUME NEW k \in 1 .. QueueUsedSize
      PROVE  storage_packet'[SlotOf(rd_idx + k - 1)'] = storage_packet[SlotOf(rd_idx + k - 1)]
  <2>1. /\ k - 1 \in 0 .. QueueUsedSize - 1
        /\ rd_idx + (k - 1) = rd_idx + k - 1
        /\ rd_idx' + (k - 1) = rd_idx' + k - 1
    BY <1>2, Window, IdxModPositive DEF IInv, TypeOK, Indices
  <2>2. storage_packet'[SlotOf(rd_idx + (k - 1))'] = storage_packet[SlotOf(rd_idx + (k - 1))]
    BY <1>2, <2>1
  <2>3. SlotOf(rd_idx + (k - 1))' = SlotOf(rd_idx + k - 1)'
    BY <2>1, Zenon DEF SlotOf
  <2> QED
    BY <2>1, <2>2, <2>3
<1>4. Queued' = [k \in 1 .. QueueUsedSize |-> storage_packet'[SlotOf(rd_idx + k - 1)']]
  BY <1>2 DEF Queued
<1>5. Queued' = Queued
  BY <1>3, <1>4 DEF Queued
<1> QED
  BY <1>1, <1>5

(* A frame that is stored is appended. *)
LEMMA AdvanceRefines ==
  ASSUME IInv, AdvanceWrite
  PROVE  \E f \in Wholes : Channel!Send(f)
<1> DEFINE u == QueueUsedSize
<1>1. UNCHANGED <<storage_packet, mask, rd_idx, published>> /\ refused' = FALSE
  BY DEF AdvanceWrite, consumer
<1>2. /\ storage_packet # Null /\ ppc \notin {"reset", "mask"}
      /\ \A i : SlotOf(i) = i % Size
  BY BusyReady, SlotOfIndex DEF AdvanceWrite, Writing
<1>3. \A i : SlotOf(i)' = SlotOf(i)
  BY <1>1, Zenon DEF SlotOf
<1>4. rd_idx \in Indices /\ wr_idx \in Indices /\ wr_idx \in Int
  BY IdxModPositive DEF IInv, TypeOK, Indices
<1>5. u \in 0 .. Size - 1 /\ QueueUsedSize' = u + 1
  <2>1. u < Size /\ u \in 0 .. Size /\ u = Used(rd_idx, wr_idx)
    BY Window DEF IInv, RingInv, Occupancy, Writing, AdvanceWrite
  <2>2. Used(rd_idx, Next32(wr_idx)) = u + 1
    BY <1>4, <2>1, UsedStep
  <2>3. QueueUsedSize' = Used(rd_idx, Next32(wr_idx))
    BY <1>1, Zenon DEF QueueUsedSize, Used, AdvanceWrite
  <2> QED
    BY <2>1, <2>2, <2>3, IdxModPositive
<1>6. storage_packet[SlotOf(wr_idx)] = Whole(frame) /\ Whole(frame) \in Wholes
  <2>1. /\ storage_packet[SlotOf(wr_idx)].head = frame
        /\ storage_packet[SlotOf(wr_idx)].body = frame
        /\ frame \in Frames
    BY DEF IInv, RingInv, HalfWritten, Phases, AdvanceWrite
  <2>2. storage_packet[SlotOf(wr_idx)] \in StoragePacket
    BY <1>2, <1>4, SlotOfIndex DEF IInv, TypeOK
  <2> QED
    BY <2>1, <2>2 DEF StoragePacket, Whole, Wholes
<1>7. SlotOf(rd_idx + u) = SlotOf(wr_idx)
  BY <1>2, Window
<1>8. Queued' = [k \in 1 .. u + 1 |-> storage_packet[SlotOf(rd_idx + k - 1)]]
  BY <1>1, <1>3, <1>5 DEF Queued
<1>9. Queued = [k \in 1 .. u |-> storage_packet[SlotOf(rd_idx + k - 1)]]
  BY DEF Queued
<1>10. Queued \in Seq(Wholes) /\ Len(Queued) = u
  BY QueuedSeq
<1> HIDE DEF u
<1>11. rd_idx + (u + 1) - 1 = rd_idx + u
  BY <1>4, <1>5, IdxModPositive DEF Indices
<1>12. Queued' = Append(Queued, Whole(frame))
  <2>1. Append(Queued, Whole(frame))
          = [k \in 1 .. u + 1 |-> IF k = u + 1 THEN Whole(frame) ELSE Queued[k]]
    <3>1. /\ Append(Queued, Whole(frame)) \in Seq(Wholes)
          /\ Len(Append(Queued, Whole(frame))) = u + 1
          /\ \A k \in 1 .. u : Append(Queued, Whole(frame))[k] = Queued[k]
          /\ Append(Queued, Whole(frame))[u + 1] = Whole(frame)
      BY <1>6, <1>10, AppendProperties
    <3>2. Append(Queued, Whole(frame)) \in [1 .. u + 1 -> Wholes]
      BY <3>1, LenProperties
    <3> DEFINE a == Append(Queued, Whole(frame))
    <3> HIDE DEF a
    <3>3. ASSUME NEW k \in 1 .. u + 1
          PROVE  a[k] = IF k = u + 1 THEN Whole(frame) ELSE Queued[k]
      <4>1. k = u + 1 \/ k \in 1 .. u
        BY <1>5
      <4> QED
        BY <4>1, <3>1, <1>5 DEF a
    <3>4. a \in [1 .. u + 1 -> Wholes]
      BY <3>2 DEF a
    <3>5. a = [k \in 1 .. u + 1 |-> IF k = u + 1 THEN Whole(frame) ELSE Queued[k]]
      BY <3>3, <3>4
    <3> QED
      BY <3>5 DEF a
  <2>2. ASSUME NEW k \in 1 .. u + 1
        PROVE  storage_packet[SlotOf(rd_idx + k - 1)]
                 = IF k = u + 1 THEN Whole(frame) ELSE Queued[k]
    <3>1. CASE k = u + 1
      BY <3>1, <1>6, <1>7, <1>11
    <3>2. CASE k # u + 1
      <4>1. k \in 1 .. u
        BY <1>5, <3>2, IdxModPositive
      <4> QED
        BY <4>1, <3>2, <1>9
    <3> QED
      BY <3>1, <3>2
  <2> QED
    BY <1>8, <2>1, <2>2
<1>13. Len(Queued) < Size
  BY <1>5, <1>10, IdxModPositive
<1> QED
  BY <1>1, <1>6, <1>12, <1>13 DEF Channel!Send

(* The packet that is published is the oldest one in the channel. *)
LEMMA PopRefines ==
  ASSUME IInv, PopUpdate
  PROVE  Channel!Receive
<1> DEFINE u == QueueUsedSize
<1>1. UNCHANGED <<storage_packet, mask, wr_idx, refused>>
      /\ rd_idx' = Next32(rd_idx) /\ published' = pkg
  BY DEF PopUpdate, producer
<1>2. /\ storage_packet # Null /\ ppc \notin {"reset", "mask"}
      /\ \A i : SlotOf(i) = i % Size
  BY BusyReady, SlotOfIndex DEF PopUpdate, Reading
<1>3. \A i : SlotOf(i)' = SlotOf(i)
  BY <1>1, Zenon DEF SlotOf
<1>4. rd_idx \in Indices /\ wr_idx \in Indices /\ rd_idx \in Int
  BY IdxModPositive DEF IInv, TypeOK, Indices
<1>5. u \in 1 .. Size /\ QueueUsedSize' = u - 1
  <2>1. u > 0 /\ u \in 0 .. Size /\ u = Used(rd_idx, wr_idx)
    BY Window DEF IInv, RingInv, Occupancy, Reading, PopUpdate
  <2>2. Used(Next32(rd_idx), wr_idx) = u - 1
    BY <1>4, <2>1, UsedStep
  <2>3. QueueUsedSize' = Used(Next32(rd_idx), wr_idx)
    BY <1>1, Zenon DEF QueueUsedSize, Used
  <2> QED
    BY <2>1, <2>2, <2>3, IdxModPositive
<1>6. /\ Queued \in Seq(Wholes) /\ Len(Queued) = u
      /\ \A k \in 1 .. u : Queued[k] = storage_packet[SlotOf(rd_idx + k - 1)]
  BY QueuedSeq
<1>7. Queued' = [k \in 1 .. u - 1 |-> storage_packet[SlotOf(Next32(rd_idx) + k - 1)]]
  BY <1>1, <1>3, <1>5 DEF Queued
<1> HIDE DEF u
<1>8. Queued # <<>>
  BY <1>5, <1>6, EmptySeq, IdxModPositive
<1>9. pkg = Head(Queued)
  <2>1. Head(Queued) = storage_packet[SlotOf(rd_idx)]
    <3>1. Head(Queued) = Queued[1] /\ 1 \in 1 .. u /\ rd_idx + 1 - 1 = rd_idx
      BY <1>4, <1>5, <1>6, <1>8, IdxModPositive
    <3> QED
      BY <3>1, <1>6
  <2>2. /\ pkg.head = storage_packet[SlotOf(rd_idx)].head
        /\ pkg.body = storage_packet[SlotOf(rd_idx)].body
    BY DEF IInv, RingInv, HalfRead, PopUpdate
  <2>3. pkg \in StoragePacket /\ storage_packet[SlotOf(rd_idx)] \in StoragePacket
    BY <1>2, <1>4, SlotOfIndex DEF IInv, TypeOK
  <2> QED
    BY <2>1, <2>2, <2>3 DEF StoragePacket
<1>10. Queued' = Tail(Queued)
  <2>1. Tail(Queued) = [k \in 1 .. u - 1 |-> Queued[k + 1]]
    <3>1. /\ Tail(Queued) \in Seq(Wholes)
          /\ Len(Tail(Queued)) = u - 1
          /\ \A k \in 1 .. u - 1 : Tail(Queued)[k] = Queued[k + 1]
      BY <1>6, <1>8, HeadTailProperties
    <3>2. Tail(Queued) \in [1 .. u - 1 -> Wholes]
      BY <3>1, LenProperties
    <3> QED
      BY <3>1, <3>2
  <2>2. ASSUME NEW k \in 1 .. u - 1
        PROVE  storage_packet[SlotOf(Next32(rd_idx) + k - 1)] = Queued[k + 1]
    <3>1. k + 1 \in 1 .. u /\ k - 1 \in Int
      BY <1>5, IdxModPositive
    <3>2. (Next32(rd_idx) + (k - 1)) % Size = (rd_idx + 1 + (k - 1)) % Size
      BY <1>4, <3>1, SlotStep
    <3>3. /\ Next32(rd_idx) + k - 1 = Next32(rd_idx) + (k - 1)
          /\ rd_idx + (k + 1) - 1 = rd_idx + 1 + (k - 1)
      BY <1>4, <3>1, NextIndex, IdxModPositive DEF Indices
    <3>4. SlotOf(Next32(rd_idx) + k - 1) = SlotOf(rd_idx + (k + 1) - 1)
      BY <1>2, <3>2, <3>3
    <3> QED
      BY <3>1, <3>4, <1>6
  <2> QED
    BY <1>7, <2>1, <2>2
<1> QED
  BY <1>1, <1>8, <1>9, <1>10 DEF Channel!Receive

(* A step of the code is a step of the channel or leaves it alone. *)
LEMMA StepRefines ==
  IInv /\ [Next]_vars => [Channel!Next]_(Channel!vars)
<1> SUFFICES ASSUME IInv, [Next]_vars
             PROVE  [Channel!Next]_(Channel!vars)
  OBVIOUS
<1>1. CASE AdvanceWrite
  BY <1>1, AdvanceRefines DEF Channel!Next, Wholes
<1>2. CASE PopUpdate
  BY <1>2, PopRefines DEF Channel!Next
<1>3. CASE TestFull
  <2>1. Queued' = Queued /\ published' = published
    BY <1>3, QuietRefines DEF Next, Producer, AdvanceWrite, PopUpdate, TestFull,
       consumer
  <2>2. CASE QueueIsFull
    <3>1. mask = Size - 1 /\ QueueUsedSize \in 0 .. Size
      BY <1>3, BusyReady, SlotOfIndex, Window DEF TestFull
    <3>2. Len(Queued) = Size
      BY <2>2, <3>1, QueuedSeq, IdxModPositive DEF QueueIsFull
    <3> QED
      BY <1>3, <2>1, <2>2, <3>2 DEF TestFull, Channel!Next, Channel!Refuse
  <2>3. CASE ~QueueIsFull
    BY <1>3, <2>1, <2>3 DEF TestFull, Channel!vars
  <2> QED
    BY <2>2, <2>3
<1>4. CASE Next /\ ~AdvanceWrite /\ ~PopUpdate /\ ~TestFull
  <2>1. Queued' = Queued /\ published' = published
    BY <1>4, QuietRefines
  <2>2. refused' = refused
    BY <1>4 DEF Next, Producer, Consumer, PushLidarData, AllocateStorage,
       ResetIndices, SetMask, PushHead, PushBody, PollQueue, PrePopHead,
       PrePopBody, producer
  <2> QED
    BY <2>1, <2>2 DEF Channel!vars
<1>5. CASE UNCHANGED vars
  <2>1. UNCHANGED <<storage_packet, mask, rd_idx, wr_idx, published, refused>>
    BY <1>5 DEF vars
  <2>2. Queued' = Queued
    BY <2>1, SameWindow DEF Queued
  <2> QED
    BY <2>1, <2>2 DEF Channel!vars
<1> QED
  BY <1>1, <1>2, <1>3, <1>4, <1>5

(* The ring implements the abstract channel for every set of frames, ring size
   and index width: a frame is refused only when the ring is full, and every
   frame stored is published once, whole and in order
   (lds.cpp:184-195, ldq.cpp:86-148). *)
THEOREM RingRefinesChannel == Spec => ImplementsChannel
<1>1. Spec => []IInv
  BY InitIInv, StepIInv, PTL DEF Spec
<1> QED
  BY <1>1, InitRefines, StepRefines, PTL DEF Spec, ImplementsChannel, Channel!Spec

=============================================================================
