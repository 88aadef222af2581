------------------------------ MODULE MmapFile ------------------------------
(***************************************************************************)
(* The memory-mapped file below PebblesDB's logs (PosixMmapFile,           *)
(* util/env_posix.cc).  Writers call WriteAt with ranges that they have    *)
(* reserved one behind the other (log_writer.cc).  The file is divided     *)
(* into blocks; a block is mapped by the first thread that comes to it,    *)
(* after the file has been extended with ftruncate if it is too short.     *)
(* mtx_ guards the array of segments and is not held during ftruncate,     *)
(* mmap, memmove and msync.  ftruncate may fail.                           *)
(***************************************************************************)
EXTENDS Integers, FiniteSets

CONSTANTS
  Threads,     \* writers of the log
  block_size_, \* bytes in a block
  Chunk,       \* the file grows to a multiple of Chunk blocks and one more (8)
  Lengths,     \* sizes of records
  MaxEnd,      \* bound on what is reserved
  MaxErrors    \* bound on failing system calls

ASSUME MmapAssumption ==
  /\ block_size_ \in Nat \ {0} /\ Chunk \in Nat \ {0}
  /\ Lengths \subseteq Nat \ {0} /\ MaxEnd \in Nat /\ MaxErrors \in Nat

VARIABLES
  reserved,  \* end of the last reservation (offset_ of the log)
  end_offset_,
  segments_sz_,
  mapped,    \* blocks whose segment has a base_
  trunc_in_progress_,
  size,      \* blocks in the file
  bytes,     \* bytes of the file that hold what was written
  durable,   \* those that an msync has covered
  closed,    \* the file is closed; its bytes end at end_offset_
  pc, first, off, end, block, \* a thread, its range, what is left, Sync's block
  fault,     \* how the process has ended
  errors,    \* system calls that have failed
  cleared,   \* history: a truncation under way was declared finished by another thread
  whole,     \* history: threads in a Sync that began when all up to their end was written
  acked, synced  \* history: bytes written, and bytes synced with all before them

vars == <<reserved, end_offset_, segments_sz_, mapped, trunc_in_progress_, size, bytes,
          durable, closed, pc, first, off, end, block, fault, errors, cleared, whole,
          acked, synced>>
array  == <<segments_sz_, mapped, trunc_in_progress_>>
disk   == <<size, bytes, durable, closed>>
ranges == <<reserved, end_offset_>>
locals == <<first, off, end, block, whole>>
record == <<cleared, acked, synced>>

Byte == 0..(MaxEnd - 1)

BlockOf(b) == b \div block_size_

\* Without the one more.
NewSizeShort(b) == ((b + Chunk - 1) \div Chunk) * Chunk

\* The new number of blocks for a block that is not covered.
NewSize(b) == ((b + Chunk - 1) \div Chunk) * Chunk + 1

TypeOK ==
  /\ reserved \in 0..MaxEnd /\ end_offset_ \in 0..MaxEnd
  /\ segments_sz_ \in Nat /\ size \in Nat
  /\ mapped \subseteq 0..(segments_sz_ - 1)
  /\ bytes \subseteq Byte /\ durable \subseteq Byte
  /\ {trunc_in_progress_, closed, cleared} \subseteq BOOLEAN
  /\ pc \in [Threads -> {"idle", "enter", "segment", "grow", "asleep", "truncate", "install",
                         "failed", "map", "copy", "done", "sync"}]
  /\ {first, off, end} \subseteq [Threads -> 0..MaxEnd]
  /\ block \in [Threads -> Nat] /\ whole \subseteq Threads
  /\ fault \in {"none", "bus", "assert", "overrun"}
  /\ errors \in 0..MaxErrors
  /\ acked \subseteq Byte /\ synced \subseteq Byte

Init ==
  /\ reserved = 0 /\ end_offset_ = 0 /\ segments_sz_ = 0 /\ mapped = {}
  /\ trunc_in_progress_ = FALSE /\ size = 0 /\ bytes = {} /\ durable = {}
  /\ closed = FALSE /\ pc = [t \in Threads |-> "idle"]
  /\ first = [t \in Threads |-> 0] /\ off = [t \in Threads |-> 0]
  /\ end = [t \in Threads |-> 0] /\ block = [t \in Threads |-> 0]
  /\ fault = "none" /\ errors = 0 /\ cleared = FALSE
  /\ whole = {} /\ acked = {} /\ synced = {}

At(t, l) == fault = "none" /\ pc[t] = l
Goto(t, l) == pc' = [pc EXCEPT ![t] = l]

\* The locals of a call that returns.
Forget(t) ==
  /\ first' = [first EXCEPT ![t] = 0] /\ off' = [off EXCEPT ![t] = 0]
  /\ end' = [end EXCEPT ![t] = 0] /\ block' = [block EXCEPT ![t] = 0]
  /\ whole' = whole \ {t}

Fails == errors < MaxErrors /\ errors' = errors + 1

-----------------------------------------------------------------------------
(* A thread that appends a record.                                         *)

\* The compare-and-swap of AddRecord.
Reserve(t) ==
  /\ At(t, "idle") /\ ~closed /\ Goto(t, "enter")
  /\ \E n \in Lengths :
       /\ reserved + n <= MaxEnd /\ reserved' = reserved + n
       /\ first' = [first EXCEPT ![t] = reserved]
       /\ off' = [off EXCEPT ![t] = reserved]
       /\ end' = [end EXCEPT ![t] = reserved + n]
  /\ UNCHANGED <<end_offset_, array, disk, block, whole, fault, errors, record>>

\* The last call decides.
WriteAtLast(t) ==
  /\ At(t, "enter") /\ Goto(t, "segment")
  /\ end_offset_' = end[t]
  /\ UNCHANGED <<reserved, array, disk, locals, fault, errors, record>>

\* The first critical section of WriteAt.
WriteAt(t) ==
  /\ At(t, "enter") /\ Goto(t, "segment")
  /\ end_offset_' = IF end_offset_ < end[t] THEN end[t] ELSE end_offset_
  /\ UNCHANGED <<reserved, array, disk, locals, fault, errors, record>>

\* GetSegment: the segment is there, or is not mapped, or not in the array.
GetSegment(t) ==
  /\ At(t, "segment")
  /\ LET b == BlockOf(off[t]) IN
       Goto(t, IF b \in mapped THEN "copy" ELSE IF b < segments_sz_ THEN "map" ELSE "grow")
  /\ UNCHANGED <<ranges, array, disk, locals, fault, errors, record>>

\* GrowViaTruncate up to the unlock.  A thread whose block has been covered
\* since it looked clears the flag of whoever is truncating.
GrowBegin(t) ==
  /\ At(t, "grow")
  /\ LET b == BlockOf(off[t]) IN
       IF trunc_in_progress_ /\ segments_sz_ <= b
       THEN Goto(t, "asleep") /\ UNCHANGED <<trunc_in_progress_, cleared>>
       ELSE /\ Goto(t, IF segments_sz_ <= b THEN "truncate" ELSE "map")
            /\ trunc_in_progress_' = (segments_sz_ <= b)
            /\ cleared' = (cleared \/ trunc_in_progress_)
  /\ UNCHANGED <<ranges, segments_sz_, mapped, disk, locals, fault, errors, acked, synced>>

\* ftruncate; a shorter file loses what lies behind its end.
Truncate(t) ==
  /\ At(t, "truncate")
  /\ \/ /\ size' = NewSize(BlockOf(off[t]))
        /\ bytes' = {b \in bytes : BlockOf(b) < size'}
        /\ durable' = durable \cap bytes'
        /\ Goto(t, "install") /\ UNCHANGED errors
     \/ Fails /\ Goto(t, "failed") /\ UNCHANGED <<size, bytes, durable>>
  /\ UNCHANGED <<ranges, array, closed, locals, fault, record>>

\* Without SignalAll.
InstallSilently(t, failed) ==
  /\ segments_sz_' = NewSize(BlockOf(off[t]))
  /\ mapped' = {b \in mapped : b < segments_sz_'}
  /\ \/ UNCHANGED fault
     \/ segments_sz_' < segments_sz_ /\ fault' = "overrun"
  /\ trunc_in_progress_' = FALSE
  /\ Goto(t, IF failed THEN "idle" ELSE "map")
  /\ IF failed THEN Forget(t) ELSE UNCHANGED locals
  /\ UNCHANGED <<ranges, disk, errors, record>>

\* The new array is installed even if ftruncate has failed.  A larger array
\* is copied behind the end of the new one, which may or may not be noticed.
InstallSegments(t, failed) ==
  /\ segments_sz_' = NewSize(BlockOf(off[t]))
  /\ mapped' = {b \in mapped : b < segments_sz_'}
  /\ \/ UNCHANGED fault
     \/ segments_sz_' < segments_sz_ /\ fault' = "overrun"
  /\ trunc_in_progress_' = FALSE
  /\ pc' = [u \in Threads |-> IF u = t THEN (IF failed THEN "idle" ELSE "map")
                              ELSE IF pc[u] = "asleep" THEN "grow" ELSE pc[u]]
  /\ IF failed THEN Forget(t) ELSE UNCHANGED locals
  /\ UNCHANGED <<ranges, disk, errors, record>>

GrowEnd(t) ==
  \/ At(t, "install") /\ InstallSegments(t, FALSE)
  \/ At(t, "failed") /\ InstallSegments(t, TRUE)

\* The base is not stored.
AttachUnstored(t) ==
  /\ At(t, "map") /\ Goto(t, "copy")
  /\ UNCHANGED <<ranges, array, disk, locals, fault, errors, record>>

\* mmap, which is defined behind the end of the file too, and the second
\* critical section of GetSegment; the loser unmaps its own.
Attach(t) ==
  /\ At(t, "map")
  /\ LET b == BlockOf(off[t]) IN
       IF b < segments_sz_
       THEN /\ mapped' = mapped \cup {b} /\ UNCHANGED fault
            /\ \/ Goto(t, "copy") /\ UNCHANGED <<locals, errors>>
               \/ b \in mapped /\ Fails /\ Goto(t, "idle") /\ Forget(t)
       ELSE fault' = "assert" /\ UNCHANGED <<mapped, pc, locals, errors>>
  /\ UNCHANGED <<ranges, segments_sz_, trunc_in_progress_, disk, record>>

CopyTo(t) ==
  LET e == (BlockOf(off[t]) + 1) * block_size_ IN IF end[t] < e THEN end[t] ELSE e

\* memmove to the end of the block or of the record.  Behind the end of the
\* file there is nothing to write to.
Copy(t) ==
  /\ At(t, "copy")
  /\ LET b  == BlockOf(off[t])
         to == CopyTo(t)
     IN  IF b < size
         THEN /\ bytes' = bytes \cup off[t]..(to - 1)
              /\ off' = [off EXCEPT ![t] = to]
              /\ Goto(t, IF to = end[t] THEN "done" ELSE "segment")
              /\ acked' = IF to = end[t]
                          THEN acked \cup first[t]..(to - 1) ELSE acked
              /\ UNCHANGED fault
         ELSE fault' = "bus" /\ UNCHANGED <<bytes, off, pc, acked>>
  /\ UNCHANGED <<ranges, array, size, durable, closed, first, end, block, whole, errors,
                 cleared, synced>>

-----------------------------------------------------------------------------
(* The end of a write, Sync and Close.                                     *)

Return(t) ==
  /\ At(t, "done") /\ Goto(t, "idle")
  /\ Forget(t) /\ UNCHANGED <<ranges, array, disk, fault, errors, record>>

SyncBegin(t) ==
  /\ At(t, "done") /\ Goto(t, "sync")
  /\ block' = [block EXCEPT ![t] = 0]
  /\ whole' = IF 0..(end[t] - 1) \subseteq bytes THEN whole \cup {t} ELSE whole \ {t}
  /\ UNCHANGED <<ranges, array, disk, first, off, end, fault, errors, record>>

\* One round of the loop of Sync: it stops at the first block without base_.
\* An error goes on, and is returned in the end.
SyncBlock(t) ==
  /\ At(t, "sync")
  /\ IF block[t] \in mapped
     THEN /\ block' = [block EXCEPT ![t] = @ + 1]
          /\ \/ /\ durable' = durable \cup {b \in bytes : BlockOf(b) = block[t]}
                /\ UNCHANGED <<errors, whole>>
             \/ Fails /\ whole' = whole \ {t} /\ UNCHANGED durable
          /\ UNCHANGED <<pc, first, off, end, synced>>
     ELSE /\ Goto(t, "idle") /\ Forget(t) /\ UNCHANGED <<durable, errors>>
          /\ synced' = IF t \in whole THEN synced \cup first[t]..(end[t] - 1)
                       ELSE synced
  /\ UNCHANGED <<ranges, array, size, bytes, closed, fault, cleared, acked>>

\* The last reference to the file goes when no write is under way.
Close ==
  /\ fault = "none" /\ ~closed /\ closed' = TRUE
  /\ \A t \in Threads : pc[t] = "idle"
  /\ bytes' = {b \in bytes : b < end_offset_} /\ durable' = durable \cap bytes'
  /\ mapped' = {} /\ segments_sz_' = 0
  /\ UNCHANGED <<ranges, trunc_in_progress_, size, pc, locals, fault, errors, record>>

-----------------------------------------------------------------------------
Step(t) ==
  \/ WriteAt(t) \/ GetSegment(t) \/ GrowBegin(t) \/ Truncate(t) \/ GrowEnd(t)
  \/ Attach(t) \/ Copy(t) \/ Return(t) \/ SyncBegin(t) \/ SyncBlock(t)

Next == Close \/ \E t \in Threads : Reserve(t) \/ Step(t)

Spec == Init /\ [][Next]_vars

-----------------------------------------------------------------------------
(* Properties.                                                             *)

\* At most one thread is between the two critical sections of
\* GrowViaTruncate, which is what trunc_in_progress_ is for, unless a thread
\* whose block was covered meanwhile has cleared the flag.
Truncating == {t \in Threads : pc[t] \in {"truncate", "install", "failed"}}
TruncatesAlone == cleared \/ \A t, u \in Truncating : t = u

\* The process ends neither with a write behind the end of the file, nor in
\* the assertion of GetSegment, nor by overrunning the array of segments,
\* unless the flag was cleared or an ftruncate failed.
NoFault == cleared \/ errors > 0 \/ fault = "none"

\* What WriteAt has returned stays in the file, also when the file grows
\* and when Close cuts it to end_offset_.
WrittenStays == cleared \/ acked \subseteq bytes

\* When Sync succeeds and everything before the record was in the file, then
\* the record is on disk: Sync has not stopped at a block before it.
SyncReaches == cleared \/ synced \subseteq durable

\* Whoever sleeps in GrowViaTruncate is woken: some thread is on its way to
\* the SignalAll, even if the flag was cleared or the ftruncate fails.
SleepersWoken == (\E t \in Threads : pc[t] = "asleep") => Truncating # {}
=============================================================================
