--------------------------- MODULE MmapFileProofs ---------------------------
(***************************************************************************)
(* Proofs about MmapFile, for any number of threads and any sizes.         *)
(***************************************************************************)
EXTENDS MmapFile, TLAPS

-----------------------------------------------------------------------------
(* Arithmetic of blocks.                                                   *)

\* A byte lies in its block.
LEMMA BlockRange ==
  ASSUME NEW x \in Nat
  PROVE  /\ BlockOf(x) \in Nat
         /\ BlockOf(x) * block_size_ <= x
         /\ x < (BlockOf(x) + 1) * block_size_
BY MmapAssumption DEF BlockOf

\* And in no other.
LEMMA BlockUnique ==
  ASSUME NEW x \in Nat, NEW q \in Nat, q * block_size_ <= x, x < (q + 1) * block_size_
  PROVE  BlockOf(x) = q
BY MmapAssumption DEF BlockOf

\* The file grows beyond the block that is asked for.
LEMMA NewSizeCovers ==
  ASSUME NEW b \in Nat
  PROVE  NewSize(b) \in Nat /\ b < NewSize(b)
BY MmapAssumption DEF NewSize

\* Initial ranges grow with their bound.
LEMMA Below ==
  ASSUME NEW m \in Nat, NEW n \in Nat, m <= n
  PROVE  0..(m - 1) \subseteq 0..(n - 1) /\ \A b \in 0..(n - 1) : b < n
OBVIOUS

-----------------------------------------------------------------------------
(* The inductive invariant.                                                *)

Working == {"segment", "grow", "asleep", "truncate", "install", "failed", "map", "copy"}

Blk(t) == BlockOf(off[t])

\* What a thread knows of its range; only the end of a record is behind it.
Shape ==
  /\ pc \in [Threads -> Working \cup {"idle", "enter", "done", "sync"}]
  /\ first \in [Threads -> Nat] /\ off \in [Threads -> Nat] /\ end \in [Threads -> Nat]
  /\ block \in [Threads -> Nat]
  /\ reserved \in Nat /\ end_offset_ \in Nat /\ segments_sz_ \in Nat /\ size \in Nat
  /\ errors \in Nat
  /\ bytes \subseteq Nat /\ durable \subseteq bytes /\ acked \subseteq Nat
  /\ synced \subseteq Nat
  /\ closed => \A t \in Threads : pc[t] = "idle"
  /\ \A t \in Threads : pc[t] \in Working \cup {"enter"} => off[t] < end[t]
  /\ \A t \in Threads : pc[t] \in Working \cup {"done", "sync"} => end[t] <= end_offset_

\* The flag stands for a thread that will signal.
Flag ==
  /\ trunc_in_progress_ => Truncating # {}
  /\ SleepersWoken

\* The flag keeps truncations apart, and the array never runs ahead of them.
Apart ==
  /\ \A t, u \in Truncating : t = u
  /\ Truncating # {} => trunc_in_progress_
  /\ \A t \in Truncating : segments_sz_ <= Blk(t)

\* The file is as long as the array says, or is about to be.
Long ==
  /\ \A t \in Threads : pc[t] = "install" => size = NewSize(Blk(t))
  /\ (\A t \in Threads : pc[t] # "install") => size <= segments_sz_
  /\ errors = 0 => segments_sz_ <= size
  /\ \A t \in Threads : pc[t] = "failed" => errors > 0

\* Blocks that are mapped, being mapped, or written.
Mapped ==
  /\ mapped \subseteq 0..(segments_sz_ - 1)
  /\ \A t \in Threads : pc[t] = "map" => Blk(t) < segments_sz_
  /\ \A t \in Threads : pc[t] = "copy" => Blk(t) \in mapped
  /\ \A x \in bytes : BlockOf(x) \in mapped

\* What is written and what Sync has covered.
Data ==
  /\ \A x \in bytes : BlockOf(x) < size
  /\ \A t \in Threads : pc[t] # "idle" => first[t]..(off[t] - 1) \subseteq bytes
  /\ \A t \in Threads : pc[t] \in {"done", "sync"} => off[t] = end[t]
  /\ acked \subseteq bytes /\ acked \subseteq 0..(end_offset_ - 1)
  /\ synced \subseteq durable /\ synced \subseteq 0..(end_offset_ - 1)
  /\ \A t \in Threads : pc[t] = "sync" /\ t \in whole =>
       \A x \in 0..(end[t] - 1) :
         x \in bytes /\ (BlockOf(x) < block[t] => x \in durable)

Good ==
  /\ Apart /\ Data
  /\ ~closed => Long /\ Mapped
  /\ errors = 0 => fault = "none"

IInv == Shape /\ Flag /\ (cleared \/ Good)

LEMMA InvImplies ==
  IInv => TruncatesAlone /\ NoFault /\ WrittenStays /\ SyncReaches /\ SleepersWoken
<1> SUFFICES ASSUME IInv
             PROVE  TruncatesAlone /\ NoFault /\ WrittenStays /\ SyncReaches /\ SleepersWoken
  BY Zenon
<1>1. SleepersWoken
  BY Zenon DEF IInv, Flag
<1>2. CASE cleared
  BY Zenon, <1>1, <1>2 DEF TruncatesAlone, NoFault, WrittenStays, SyncReaches
<1>3. CASE ~cleared
  <2>1. TruncatesAlone /\ WrittenStays /\ SyncReaches
    BY Zenon, <1>3 DEF IInv, Good, Apart, Data, TruncatesAlone, WrittenStays, SyncReaches
  <2>2. NoFault
    BY <1>3 DEF IInv, Shape, Good, NoFault
  <2> QED BY Zenon, <1>1, <2>1, <2>2
<1> QED BY Zenon, <1>2, <1>3

LEMMA InvInit == Init => IInv
BY DEF Init, IInv, Shape, Flag, Good, Apart, Long, Mapped, Data, SleepersWoken, Truncating,
       Working

-----------------------------------------------------------------------------
(* Steps.                                                                  *)

\* Types, ranges and the flag.
LEMMA ShapeStep == Shape /\ [Next]_vars => Shape'
<1> SUFFICES ASSUME Shape, [Next]_vars
             PROVE  Shape'
  BY Zenon
<1> USE MmapAssumption DEF Shape, Working, At, Goto
<1>1. CASE UNCHANGED vars
  BY Zenon, <1>1 DEF vars
<1>2. CASE Close
  BY Zenon, <1>2 DEF Close, ranges, locals, record
<1>3. ASSUME NEW t \in Threads, Reserve(t)
      PROVE  Shape'
  BY <1>3 DEF Reserve, array, disk, record
<1>4. ASSUME NEW t \in Threads, WriteAt(t)
      PROVE  Shape'
  BY <1>4 DEF WriteAt, array, disk, locals, record
<1>5. ASSUME NEW t \in Threads, GetSegment(t)
      PROVE  Shape'
  BY Zenon, <1>5 DEF GetSegment, ranges, array, disk, locals, record
<1>6. ASSUME NEW t \in Threads, GrowBegin(t)
      PROVE  Shape'
  BY Zenon, <1>6 DEF GrowBegin, ranges, disk, locals
<1>7. ASSUME NEW t \in Threads, Truncate(t)
      PROVE  Shape'
  <2>1. NewSize(BlockOf(off[t])) \in Nat
    BY Zenon, BlockRange, NewSizeCovers
  <2>2. CASE size' = NewSize(BlockOf(off[t])) /\ pc' = [pc EXCEPT ![t] = "install"]
    <3>1. errors' = errors /\ bytes' \subseteq bytes /\ durable' \subseteq bytes'
      BY Zenon, <1>7, <2>2 DEF Truncate
    <3> QED BY Zenon, <1>7, <2>1, <2>2, <3>1 DEF Truncate, ranges, array, locals, record
  <2>3. CASE errors' = errors + 1 /\ pc' = [pc EXCEPT ![t] = "failed"]
    <3>1. UNCHANGED <<size, bytes, durable>>
      BY Zenon, <1>7, <2>3 DEF Truncate
    <3> QED BY <1>7, <2>3, <3>1 DEF Truncate, ranges, array, locals, record
  <2> QED BY Zenon, <1>7, <2>2, <2>3 DEF Truncate, Fails
<1>8. ASSUME NEW t \in Threads, GrowEnd(t)
      PROVE  Shape'
  <2>1. NewSize(BlockOf(off[t])) \in Nat
    BY Zenon, BlockRange, NewSizeCovers
  <2>2. PICK failed \in BOOLEAN : InstallSegments(t, failed) /\ pc[t] \in {"install", "failed"}
    BY Zenon, <1>8 DEF GrowEnd
  <2> QED BY <2>1, <2>2 DEF InstallSegments, Forget, ranges, disk, locals, record
<1>9. ASSUME NEW t \in Threads, Attach(t)
      PROVE  Shape'
  BY <1>9 DEF Attach, Fails, Forget, ranges, disk, locals, record
<1>10. ASSUME NEW t \in Threads, Copy(t)
       PROVE  Shape'
  <2>1. CopyTo(t) \in Nat /\ off[t] < CopyTo(t) /\ CopyTo(t) <= end[t]
    BY <1>10, BlockRange DEF Copy, CopyTo
  <2>2. CASE fault' = "bus"
    BY Zenon, <1>10, <2>2 DEF Copy, ranges, array
  <2>3. CASE fault' # "bus"
    <3>1. /\ off' = [off EXCEPT ![t] = CopyTo(t)]
          /\ pc' = [pc EXCEPT ![t] = IF CopyTo(t) = end[t] THEN "done" ELSE "segment"]
          /\ bytes' = bytes \cup off[t]..(CopyTo(t) - 1)
          /\ acked' \subseteq acked \cup first[t]..(CopyTo(t) - 1)
      BY Zenon, <1>10, <2>3 DEF Copy
    <3>2. pc[t] = "copy" /\ UNCHANGED <<ranges, array, size, durable, closed, first, end,
                                         block, errors, synced>>
      BY Zenon, <1>10 DEF Copy
    <3>3. bytes' \subseteq Nat /\ durable' \subseteq bytes' /\ acked' \subseteq Nat
      <4>1. off[t]..(CopyTo(t) - 1) \subseteq Nat /\ first[t]..(CopyTo(t) - 1) \subseteq Nat
        BY <2>1
      <4> QED BY Zenon, <3>1, <3>2, <4>1
    <3>4. /\ off' \in [Threads -> Nat]
          /\ pc' \in [Threads -> Working \cup {"idle", "enter", "done", "sync"}]
      BY Zenon, <2>1, <3>1
    <3>5. \A u \in Threads : u # t => pc'[u] = pc[u] /\ off'[u] = off[u]
      BY Zenon, <3>1
    <3>6. pc'[t] \in {"done", "segment"} /\ (pc'[t] = "segment" => off'[t] < end[t])
      BY <2>1, <3>1
    <3> QED BY Zenon, <3>2, <3>3, <3>4, <3>5, <3>6 DEF ranges, array
  <2> QED BY Zenon, <2>2, <2>3
<1>11. ASSUME NEW t \in Threads, Return(t)
       PROVE  Shape'
  BY Zenon, <1>11 DEF Return, Forget, ranges, array, disk, record
<1>12. ASSUME NEW t \in Threads, SyncBegin(t)
       PROVE  Shape'
  BY Zenon, <1>12 DEF SyncBegin, ranges, array, disk, record
<1>13. ASSUME NEW t \in Threads, SyncBlock(t)
       PROVE  Shape'
  <2>1. pc[t] = "sync" /\ UNCHANGED <<ranges, array, size, bytes, closed, acked>>
    BY Zenon, <1>13 DEF SyncBlock
  <2>2. CASE block[t] \in mapped
    <3>1. durable' \subseteq bytes
      BY Zenon, <1>13, <2>2 DEF SyncBlock
    <3>2. errors' \in Nat
      BY <1>13, <2>2 DEF SyncBlock, Fails
    <3>3. UNCHANGED <<pc, first, off, end, synced>> /\ block' = [block EXCEPT ![t] = @ + 1]
      BY Zenon, <1>13, <2>2 DEF SyncBlock
    <3> QED BY <2>1, <3>1, <3>2, <3>3 DEF ranges, array
  <2>3. CASE block[t] \notin mapped
    <3>1. /\ pc' = [pc EXCEPT ![t] = "idle"] /\ Forget(t) /\ UNCHANGED <<durable, errors>>
          /\ synced' \subseteq synced \cup first[t]..(end[t] - 1)
      BY Zenon, <1>13, <2>3 DEF SyncBlock
    <3> QED BY <2>1, <3>1 DEF Forget, ranges, array
  <2> QED BY Zenon, <2>2, <2>3
<1> QED BY Zenon, <1>1, <1>2, <1>3, <1>4, <1>5, <1>6, <1>7, <1>8, <1>9, <1>10, <1>11, <1>12,
           <1>13 DEF Next, Step

\* Truncations end with a signal, whatever happens to the flag.
LEMMA FlagStep == Shape /\ Flag /\ [Next]_vars => Flag'
<1> SUFFICES ASSUME Shape, Flag, [Next]_vars
             PROVE  Flag'
  BY Zenon
<1> USE DEF Flag, SleepersWoken, Truncating, At, Goto
<1>1. CASE UNCHANGED <<pc, trunc_in_progress_>>
  BY Zenon, <1>1
<1>2. ASSUME NEW t \in Threads, NEW l \in Working \cup {"idle", "enter", "done", "sync"},
             pc[t] \notin {"truncate", "install", "failed"}, l # "asleep",
             pc' = [pc EXCEPT ![t] = l], trunc_in_progress_' = trunc_in_progress_
      PROVE  Flag'
  BY Zenon, <1>2 DEF Shape
<1>3. ASSUME NEW t \in Threads, Truncate(t)
      PROVE  Flag'
  <2>1. PICK l \in {"install", "failed"} : pc' = [pc EXCEPT ![t] = l]
    BY Zenon, <1>3 DEF Truncate
  <2>2. trunc_in_progress_' = trunc_in_progress_
    BY Zenon, <1>3 DEF Truncate, array
  <2>3. t \in Truncating'
    BY Zenon, <2>1 DEF Shape
  <2> QED BY Zenon, <2>1, <2>2, <2>3 DEF Shape
<1>4. ASSUME NEW t \in Threads, GrowEnd(t)
      PROVE  Flag'
  BY ZenonT(30), <1>4 DEF GrowEnd, InstallSegments, Shape
<1>5. ASSUME NEW t \in Threads, GrowBegin(t)
      PROVE  Flag'
  <2>1. CASE trunc_in_progress_ /\ segments_sz_ <= BlockOf(off[t])
    BY Zenon, <1>5, <2>1 DEF GrowBegin, Shape
  <2>2. CASE ~(trunc_in_progress_ /\ segments_sz_ <= BlockOf(off[t]))
            /\ segments_sz_ <= BlockOf(off[t])
    <3>1. pc' = [pc EXCEPT ![t] = "truncate"]
      BY Zenon, <1>5, <2>2 DEF GrowBegin
    <3>2. t \in Truncating'
      BY Zenon, <3>1 DEF Shape
    <3> QED BY Zenon, <3>2
  <2>3. CASE ~(segments_sz_ <= BlockOf(off[t]))
    <3>1. pc[t] = "grow" /\ pc' = [pc EXCEPT ![t] = "map"] /\ ~trunc_in_progress_'
      BY Zenon, <1>5, <2>3 DEF GrowBegin
    <3> QED BY Zenon, <3>1 DEF Shape
  <2> QED BY Zenon, <2>1, <2>2, <2>3
<1>6. ASSUME NEW t \in Threads,
             \/ Reserve(t) \/ WriteAt(t) \/ GetSegment(t) \/ Attach(t) \/ Copy(t)
             \/ Return(t) \/ SyncBegin(t) \/ SyncBlock(t)
      PROVE  Flag'
  <2>1. trunc_in_progress_' = trunc_in_progress_
    BY Zenon, <1>6 DEF Reserve, WriteAt, GetSegment, Attach, Copy, Return, SyncBegin, SyncBlock, array
  <2>2. pc[t] \in {"idle", "enter", "segment", "map", "copy", "done", "sync"}
    BY Zenon, <1>6 DEF Reserve, WriteAt, GetSegment, Attach, Copy, Return, SyncBegin, SyncBlock
  <2>3. \/ pc' = pc
        \/ \E l \in {"enter", "segment", "copy", "map", "grow", "idle", "done", "sync"} :
             pc' = [pc EXCEPT ![t] = l]
    BY Zenon, <1>6 DEF Reserve, WriteAt, GetSegment, Attach, Copy, Return, SyncBegin, SyncBlock
  <2> QED BY Zenon, <1>1, <1>2, <2>1, <2>2, <2>3 DEF Working
<1>7. CASE Close \/ UNCHANGED vars
  <2>1. UNCHANGED <<pc, trunc_in_progress_>>
    BY Zenon, <1>7 DEF Close, vars
  <2> QED BY Zenon, <1>1, <2>1
<1> QED BY Zenon, <1>3, <1>4, <1>5, <1>6, <1>7 DEF Next, Step

Quiet(t) ==
  \/ Reserve(t) \/ WriteAt(t) \/ GetSegment(t) \/ Attach(t) \/ Copy(t)
  \/ Return(t) \/ SyncBegin(t) \/ SyncBlock(t)

\* Steps that have nothing to do with growing leave the array as long as it
\* is and concern no thread that is truncating.
LEMMA QuietStep ==
  ASSUME Shape, NEW t \in Threads, Quiet(t)
  PROVE  /\ UNCHANGED <<segments_sz_, trunc_in_progress_, size, closed>>
         /\ pc[t] \in {"idle", "enter", "segment", "map", "copy", "done", "sync"}
         /\ pc'[t] \in {"enter", "segment", "copy", "map", "grow", "idle", "done", "sync"}
         /\ \A u \in Threads : u # t => UNCHANGED <<pc[u], off[u], first[u], end[u], block[u]>>
<1> USE DEF Quiet, Shape, At, Goto
<1>1. UNCHANGED <<segments_sz_, trunc_in_progress_, size, closed>>
  BY Zenon DEF Reserve, WriteAt, GetSegment, Attach, Copy, Return, SyncBegin, SyncBlock, array, disk
<1>2. pc[t] \in {"idle", "enter", "segment", "map", "copy", "done", "sync"}
  BY Zenon DEF Reserve, WriteAt, GetSegment, Attach, Copy, Return, SyncBegin, SyncBlock
<1>3. pc' = pc \/ \E l \in {"enter", "segment", "copy", "map", "grow", "idle", "done", "sync"} :
                    pc' = [pc EXCEPT ![t] = l]
  BY Zenon DEF Reserve, WriteAt, GetSegment, Attach, Copy, Return, SyncBegin, SyncBlock
<1>4. ASSUME NEW u \in Threads, u # t
      PROVE  UNCHANGED <<off[u], first[u], end[u], block[u]>>
  <2>1. CASE Reserve(t) \/ WriteAt(t) \/ GetSegment(t) \/ Return(t)
    BY Zenon, <1>4, <2>1 DEF Reserve, WriteAt, GetSegment, Return, Forget, locals
  <2>2. CASE Attach(t)
    BY Zenon, <1>4, <2>2 DEF Attach, Forget, locals
  <2>3. CASE Copy(t)
    BY Zenon, <1>4, <2>3 DEF Copy
  <2>4. CASE SyncBegin(t) \/ SyncBlock(t)
    BY Zenon, <1>4, <2>4 DEF SyncBegin, SyncBlock, Forget
  <2> QED BY Zenon, <2>1, <2>2, <2>3, <2>4
<1> QED BY Zenon, <1>1, <1>2, <1>3, <1>4

LEMMA ApartStep ==
  Shape /\ Apart /\ [Next]_vars /\ ~cleared' => Apart'
<1> SUFFICES ASSUME Shape, Apart, [Next]_vars, ~cleared'
             PROVE  Apart'
  BY Zenon
<1> USE DEF Apart, Truncating, Blk, At, Goto
<1>1. ASSUME NEW t \in Threads, Quiet(t)
      PROVE  Apart'
  <2>1. Truncating' = Truncating
    BY ZenonT(30), <1>1, QuietStep DEF Shape
  <2>2. \A u \in Truncating : u \in Threads /\ off'[u] = off[u]
    BY Zenon, <1>1, QuietStep
  <2> QED BY Zenon, <1>1, <2>1, <2>2, QuietStep
<1>2. ASSUME NEW t \in Threads, Truncate(t)
      PROVE  Apart'
  <2>1. Truncating' = Truncating
    BY Zenon, <1>2 DEF Truncate, Shape
  <2>2. UNCHANGED <<segments_sz_, trunc_in_progress_, off>>
    BY Zenon, <1>2 DEF Truncate, array, locals
  <2> QED BY Zenon, <2>1, <2>2
<1>3. ASSUME NEW t \in Threads, GrowEnd(t)
      PROVE  Apart'
  <2>1. t \in Truncating /\ pc'[t] \notin {"truncate", "install", "failed"}
    BY Zenon, <1>3 DEF GrowEnd, InstallSegments, Shape
  <2>2. \A u \in Threads : u # t => (u \in Truncating' => u \in Truncating)
    BY Zenon, <1>3 DEF GrowEnd, InstallSegments, Shape
  <2>3. Truncating' = {}
    BY Zenon, <2>1, <2>2
  <2> QED BY Zenon, <2>3
<1>4. ASSUME NEW t \in Threads, GrowBegin(t)
      PROVE  Apart'
  <2>1. UNCHANGED <<segments_sz_, off>>
    BY Zenon, <1>4 DEF GrowBegin, locals
  <2>2. CASE trunc_in_progress_ /\ segments_sz_ <= BlockOf(off[t])
    BY Zenon, <1>4, <2>1, <2>2 DEF GrowBegin, Shape
  <2>3. CASE ~(trunc_in_progress_ /\ segments_sz_ <= BlockOf(off[t]))
    <3>1. ~trunc_in_progress_ /\ Truncating = {}
      BY Zenon, <1>4, <2>3 DEF GrowBegin
    <3>2. trunc_in_progress_' = (segments_sz_ <= BlockOf(off[t]))
      BY Zenon, <1>4, <2>3 DEF GrowBegin
    <3>3. pc' = [pc EXCEPT ![t] = IF segments_sz_ <= BlockOf(off[t]) THEN "truncate" ELSE "map"]
      BY Zenon, <1>4, <2>3 DEF GrowBegin
    <3>4. \A u \in Truncating' : u = t /\ segments_sz_ <= BlockOf(off[t])
      BY Zenon, <3>1, <3>3 DEF Shape
    <3> QED BY Zenon, <2>1, <3>2, <3>4
  <2> QED BY Zenon, <2>2, <2>3
<1>5. CASE Close
  BY Zenon, <1>5 DEF Close
<1>6. CASE UNCHANGED vars
  BY Zenon, <1>6 DEF vars
<1> QED BY Zenon, <1>1, <1>2, <1>3, <1>4, <1>5, <1>6 DEF Next, Step, Quiet

\* Errors are counted.
LEMMA ErrorsGrow == Shape /\ [Next]_vars => errors' \in Nat /\ errors <= errors'
<1> SUFFICES ASSUME Shape, [Next]_vars
             PROVE  errors' = errors \/ errors' = errors + 1
  BY DEF Shape
<1> USE DEF Fails
<1>1. CASE Close \/ UNCHANGED vars
  BY Zenon, <1>1 DEF Close, vars
<1>2. ASSUME NEW t \in Threads, Truncate(t) \/ Attach(t) \/ SyncBlock(t)
      PROVE  errors' = errors \/ errors' = errors + 1
  BY Zenon, <1>2 DEF Truncate, Attach, SyncBlock
<1>3. ASSUME NEW t \in Threads,
             \/ Reserve(t) \/ WriteAt(t) \/ GetSegment(t) \/ GrowBegin(t) \/ GrowEnd(t)
             \/ Copy(t) \/ Return(t) \/ SyncBegin(t)
      PROVE  errors' = errors \/ errors' = errors + 1
  BY Zenon, <1>3 DEF Reserve, WriteAt, GetSegment, GrowBegin, GrowEnd, InstallSegments, Copy, Return,
              SyncBegin
<1> QED BY Zenon, <1>1, <1>2, <1>3 DEF Next, Step

\* A thread that truncates alone grows the file and the array.
LEMMA Grows ==
  ASSUME Shape, Apart, Long, NEW t \in Truncating
  PROVE  /\ t \in Threads /\ Blk(t) \in Nat /\ NewSize(Blk(t)) \in Nat
         /\ segments_sz_ < NewSize(Blk(t)) /\ size <= NewSize(Blk(t))
         /\ pc[t] # "install" => size < NewSize(Blk(t))
         /\ \A u \in Threads : pc[u] = "install" => u = t
<1>1. t \in Threads /\ Blk(t) \in Nat
  BY Zenon, BlockRange DEF Truncating, Blk, Shape
<1>2. NewSize(Blk(t)) \in Nat /\ Blk(t) < NewSize(Blk(t))
  BY Zenon, <1>1, NewSizeCovers
<1>3. segments_sz_ < NewSize(Blk(t))
  BY <1>1, <1>2 DEF Apart, Shape
<1>4. \A u \in Threads : pc[u] = "install" => u = t
  BY Zenon DEF Apart, Truncating
<1>5. CASE pc[t] = "install"
  BY <1>1, <1>2, <1>3, <1>4, <1>5 DEF Long
<1>6. CASE pc[t] # "install"
  <2>1. size <= segments_sz_
    BY Zenon, <1>4, <1>6 DEF Long
  <2> QED BY <1>1, <1>2, <1>3, <1>4, <2>1 DEF Shape
<1> QED BY Zenon, <1>5, <1>6

LEMMA LongStep ==
  Shape /\ Apart /\ Long /\ [Next]_vars /\ ~cleared' /\ ~closed' => Long'
<1> SUFFICES ASSUME Shape, Apart, Long, [Next]_vars, ~cleared', ~closed'
             PROVE  Long'
  BY Zenon
<1> USE DEF Blk, At, Goto
<1>0. errors' \in Nat /\ errors \in Nat /\ errors <= errors'
  BY Zenon, ErrorsGrow DEF Shape
<1>1. ASSUME NEW t \in Threads, Quiet(t)
      PROVE  Long'
  <2>1. \A u \in Threads : /\ (pc'[u] = "install") = (pc[u] = "install")
                           /\ pc'[u] = "failed" => pc[u] = "failed"
                           /\ pc[u] = "install" => off'[u] = off[u]
    BY Zenon, <1>1, QuietStep
  <2> QED BY <1>0, <1>1, <2>1, QuietStep DEF Long
<1>2. ASSUME NEW t \in Threads, Truncate(t)
      PROVE  Long'
  <2>0. t \in Truncating /\ pc[t] = "truncate"
    BY Zenon, <1>2 DEF Truncate, Truncating
  <2>1. UNCHANGED <<off, segments_sz_>>
    BY Zenon, <1>2 DEF Truncate, locals, array
  <2>2. CASE size' = NewSize(Blk(t)) /\ pc' = [pc EXCEPT ![t] = "install"]
    BY <1>0, <2>0, <2>1, <2>2, Grows DEF Long, Shape
  <2>3. CASE errors' = errors + 1 /\ pc' = [pc EXCEPT ![t] = "failed"] /\ size' = size
    BY <1>0, <2>0, <2>1, <2>3, Grows DEF Long, Shape
  <2> QED BY Zenon, <1>2, <2>2, <2>3 DEF Truncate, Fails
<1>3. ASSUME NEW t \in Threads, GrowEnd(t)
      PROVE  Long'
  <2>1. t \in Truncating /\ pc[t] \in {"install", "failed"}
    BY Zenon, <1>3 DEF GrowEnd, Truncating
  <2>2. segments_sz_' = NewSize(Blk(t)) /\ size' = size /\ errors' = errors
    BY Zenon, <1>3 DEF GrowEnd, InstallSegments, disk
  <2>3. \A u \in Threads : pc'[u] \notin {"install", "failed"}
    <3>1. \A u \in Threads : u # t => pc[u] \notin {"install", "failed"}
      BY Zenon, <2>1 DEF Apart, Truncating
    <3> QED BY Zenon, <1>3, <3>1 DEF GrowEnd, InstallSegments, Shape
  <2>4. pc[t] = "failed" => errors # 0
    BY <1>0, <2>1 DEF Long, Truncating
  <2>5. pc[t] = "install" => size = NewSize(Blk(t))
    BY Zenon, <2>1 DEF Long, Truncating
  <2> QED BY Zenon, <2>1, <2>2, <2>3, <2>4, <2>5, Grows DEF Long, Shape
<1>4. ASSUME NEW t \in Threads, GrowBegin(t)
      PROVE  Long'
  <2>1. UNCHANGED <<off, segments_sz_, size, errors>>
    BY Zenon, <1>4 DEF GrowBegin, locals, disk
  <2>2. pc[t] = "grow" /\ \E l \in {"asleep", "truncate", "map"} : pc' = [pc EXCEPT ![t] = l]
    BY Zenon, <1>4 DEF GrowBegin
  <2> QED BY Zenon, <2>1, <2>2 DEF Long, Shape
<1>5. CASE Close
  BY Zenon, <1>5 DEF Close
<1>6. CASE UNCHANGED vars
  BY Zenon, <1>6 DEF vars, Long
<1> QED BY Zenon, <1>1, <1>2, <1>3, <1>4, <1>5, <1>6 DEF Next, Step, Quiet

\* What Copy writes lies in one block.
LEMMA CopyRange ==
  ASSUME Shape, NEW t \in Threads, Copy(t)
  PROVE  /\ CopyTo(t) \in Nat /\ off[t] < CopyTo(t) /\ CopyTo(t) <= end[t]
         /\ \A x \in off[t]..(CopyTo(t) - 1) : x \in Nat /\ BlockOf(x) = Blk(t)
<1>1. off[t] \in Nat /\ end[t] \in Nat /\ off[t] < end[t]
  BY Zenon DEF Copy, At, Shape, Working
<1>2. /\ Blk(t) \in Nat /\ Blk(t) * block_size_ <= off[t]
      /\ off[t] < (Blk(t) + 1) * block_size_
  BY Zenon, <1>1, BlockRange DEF Blk
<1>3. (Blk(t) + 1) * block_size_ \in Nat
  BY <1>2, MmapAssumption
<1>4. CopyTo(t) \in Nat /\ off[t] < CopyTo(t) /\ CopyTo(t) <= end[t]
      /\ CopyTo(t) <= (Blk(t) + 1) * block_size_
  BY <1>1, <1>2, <1>3 DEF CopyTo, Blk
<1>5. ASSUME NEW x \in off[t]..(CopyTo(t) - 1)
      PROVE  x \in Nat /\ BlockOf(x) = Blk(t)
  <2>1. x \in Nat /\ off[t] <= x /\ x < (Blk(t) + 1) * block_size_
    BY <1>1, <1>3, <1>4
  <2>2. Blk(t) * block_size_ \in Nat
    BY <1>2, MmapAssumption
  <2>3. Blk(t) * block_size_ <= x
    BY <1>1, <1>2, <2>1, <2>2
  <2> QED BY Zenon, <1>2, <2>1, <2>3, BlockUnique
<1> QED BY Zenon, <1>4, <1>5

LEMMA MappedStep ==
  Shape /\ Apart /\ Long /\ Mapped /\ [Next]_vars /\ ~cleared' /\ ~closed' => Mapped'
<1> SUFFICES ASSUME Shape, Apart, Long, Mapped, [Next]_vars, ~cleared', ~closed'
             PROVE  Mapped'
  BY Zenon
<1> USE DEF Blk, At, Goto
<1>1. ASSUME NEW t \in Threads, Reserve(t) \/ WriteAt(t) \/ Return(t) \/ SyncBegin(t)
      PROVE  Mapped'
  <2>1. UNCHANGED <<bytes, mapped, segments_sz_>> /\ pc'[t] \notin {"map", "copy"}
    BY Zenon, <1>1 DEF Reserve, WriteAt, Return, SyncBegin, disk, array, Shape
  <2> QED BY Zenon, <1>1, <2>1, QuietStep DEF Mapped, Quiet
<1>2. ASSUME NEW t \in Threads, GetSegment(t)
      PROVE  Mapped'
  <2>1. UNCHANGED <<bytes, mapped, segments_sz_, off>>
    BY Zenon, <1>2 DEF GetSegment, disk, array, locals
  <2>2. /\ pc'[t] = "map" => Blk(t) < segments_sz_
        /\ pc'[t] = "copy" => Blk(t) \in mapped
    BY Zenon, <1>2 DEF GetSegment, Shape
  <2> QED BY Zenon, <1>2, <2>1, <2>2, QuietStep DEF Mapped, Quiet
<1>3. ASSUME NEW t \in Threads, Attach(t)
      PROVE  Mapped'
  <2>1. UNCHANGED <<bytes, segments_sz_>> /\ Blk(t) < segments_sz_ /\ Blk(t) \in Nat
    BY Zenon, <1>3, BlockRange DEF Attach, disk, Mapped, Shape
  <2>2. mapped' = mapped \cup {Blk(t)}
    BY Zenon, <1>3, <2>1 DEF Attach
  <2>3. pc'[t] # "map" /\ (pc'[t] = "copy" => off'[t] = off[t])
    BY Zenon, <1>3, <2>1 DEF Attach, locals, Shape
  <2>4. mapped' \subseteq 0..(segments_sz_' - 1)
    <3>1. mapped \subseteq 0..(segments_sz_ - 1) /\ segments_sz_ \in Nat
      BY Zenon DEF Mapped, Shape
    <3>2. Blk(t) \in 0..(segments_sz_ - 1)
      BY <2>1, <3>1
    <3> QED BY Zenon, <2>1, <2>2, <3>1, <3>2
  <2>5. \A u \in Threads : u # t => pc'[u] = pc[u] /\ off'[u] = off[u]
    BY Zenon, <1>3, QuietStep DEF Quiet
  <2> QED BY Zenon, <2>1, <2>2, <2>3, <2>4, <2>5 DEF Mapped
<1>4. ASSUME NEW t \in Threads, Copy(t)
      PROVE  Mapped'
  <2>1. UNCHANGED <<mapped, segments_sz_>> /\ Blk(t) \in mapped
    BY Zenon, <1>4 DEF Copy, array, Mapped
  <2>2. \A x \in bytes' : x \in bytes \/ BlockOf(x) = Blk(t)
    BY Zenon, <1>4, CopyRange DEF Copy
  <2>3. pc'[t] # "map" /\ (pc'[t] = "copy" => off'[t] = off[t])
    BY Zenon, <1>4 DEF Copy, Shape
  <2> QED BY Zenon, <1>4, <2>1, <2>2, <2>3, QuietStep DEF Mapped, Quiet
<1>5. ASSUME NEW t \in Threads, SyncBlock(t)
      PROVE  Mapped'
  <2>1. UNCHANGED <<bytes, mapped, segments_sz_>> /\ pc'[t] \notin {"map", "copy"}
    BY Zenon, <1>5 DEF SyncBlock, array, Shape
  <2> QED BY Zenon, <1>5, <2>1, QuietStep DEF Mapped, Quiet
<1>6. ASSUME NEW t \in Threads, Truncate(t)
      PROVE  Mapped'
  <2>1. UNCHANGED <<off, mapped, segments_sz_>> /\ bytes' \subseteq bytes
    BY Zenon, <1>6 DEF Truncate, locals, array
  <2>2. \E l \in {"install", "failed"} : pc' = [pc EXCEPT ![t] = l]
    BY Zenon, <1>6 DEF Truncate
  <2> QED BY Zenon, <2>1, <2>2 DEF Mapped, Shape
<1>7. ASSUME NEW t \in Threads, GrowBegin(t)
      PROVE  Mapped'
  <2>1. UNCHANGED <<off, mapped, segments_sz_, bytes>>
    BY Zenon, <1>7 DEF GrowBegin, locals, disk
  <2>2. /\ \E l \in {"asleep", "truncate", "map"} : pc' = [pc EXCEPT ![t] = l]
        /\ pc'[t] = "map" => ~(segments_sz_ <= Blk(t))
    BY Zenon, <1>7 DEF GrowBegin, Shape
  <2>3. Blk(t) \in Nat
    BY Zenon, BlockRange DEF Shape
  <2> QED BY <2>1, <2>2, <2>3 DEF Mapped, Shape
<1>8. ASSUME NEW t \in Threads, GrowEnd(t)
      PROVE  Mapped'
  <2>1. t \in Truncating
    BY Zenon, <1>8 DEF GrowEnd, Truncating
  <2>2. segments_sz_' = NewSize(Blk(t)) /\ bytes' = bytes
    BY Zenon, <1>8 DEF GrowEnd, InstallSegments, disk
  <2>3. mapped' = {b \in mapped : b < segments_sz_'}
    BY Zenon, <1>8 DEF GrowEnd, InstallSegments
  <2>4. mapped' = mapped /\ mapped \subseteq 0..(segments_sz_' - 1)
    <3>1. segments_sz_ < segments_sz_' /\ segments_sz_' \in Nat
      BY Zenon, <2>1, <2>2, Grows
    <3>2. segments_sz_ \in Nat /\ segments_sz_ <= segments_sz_'
      BY <3>1 DEF Shape
    <3>3. mapped \subseteq 0..(segments_sz_' - 1)
      BY Zenon, <3>1, <3>2, Below DEF Mapped
    <3>4. \A b \in 0..(segments_sz_' - 1) : b < segments_sz_'
      BY Zenon, <3>1, <3>2, Below
    <3> QED BY Zenon, <2>3, <3>3, <3>4
  <2>5. \A u \in Threads : u # t => /\ off'[u] = off[u]
                                    /\ pc'[u] \in {"map", "copy"} => pc'[u] = pc[u]
    BY Zenon, <1>8 DEF GrowEnd, InstallSegments, Forget, locals, Shape
  <2>6. pc'[t] \in {"map", "idle"} /\ (pc'[t] = "map" => off'[t] = off[t])
    BY Zenon, <1>8 DEF GrowEnd, InstallSegments, locals, Shape
  <2>7. Blk(t) < segments_sz_' /\ \A u \in Threads : Blk(u) < segments_sz_ => Blk(u) < segments_sz_'
    <3>1. Blk(t) \in Nat /\ Blk(t) < NewSize(Blk(t))
      BY Zenon, BlockRange, NewSizeCovers DEF Shape
    <3>2. \A u \in Threads : Blk(u) \in Nat
      BY Zenon, BlockRange DEF Shape
    <3> QED BY <2>1, <2>2, <3>1, <3>2, Grows DEF Shape
  <2> QED BY Zenon, <2>2, <2>4, <2>5, <2>6, <2>7 DEF Mapped
<1>9. CASE Close
  BY Zenon, <1>9 DEF Close
<1>10. CASE UNCHANGED vars
  BY Zenon, <1>10 DEF vars, Mapped
<1> QED BY Zenon, <1>1, <1>2, <1>3, <1>4, <1>5, <1>6, <1>7, <1>8, <1>9, <1>10 DEF Next, Step

\* Growing in time keeps every fault away.
LEMMA FaultStep ==
  ASSUME Shape, Apart, ~closed => Long /\ Mapped, errors = 0 => fault = "none",
         [Next]_vars, ~cleared'
  PROVE  errors' = 0 => fault' = "none"
<1> SUFFICES ASSUME errors = 0
             PROVE  fault' = "none"
  BY ErrorsGrow DEF Shape
<1> USE DEF At, Goto, Blk
<1>0. fault = "none"
  BY Zenon
<1>1. ASSUME NEW t \in Threads, GrowEnd(t)
      PROVE  fault' = "none"
  <2>1. t \in Truncating /\ ~closed
    BY Zenon, <1>1 DEF GrowEnd, Truncating, Shape
  <2>2. segments_sz_' = NewSize(Blk(t)) /\ (fault' = fault \/ segments_sz_' < segments_sz_)
    BY Zenon, <1>1 DEF GrowEnd, InstallSegments
  <2> QED BY <1>0, <2>1, <2>2, Grows DEF Shape
<1>2. ASSUME NEW t \in Threads, Attach(t)
      PROVE  fault' = "none"
  <2>1. ~closed /\ Blk(t) < segments_sz_
    BY Zenon, <1>2 DEF Attach, Mapped, Shape
  <2> QED BY Zenon, <1>0, <1>2, <2>1 DEF Attach
<1>3. ASSUME NEW t \in Threads, Copy(t)
      PROVE  fault' = "none"
  <2>1. ~closed /\ Blk(t) \in mapped
    BY Zenon, <1>3 DEF Copy, Mapped, Shape
  <2>2. Blk(t) < size
    BY <2>1 DEF Mapped, Long, Shape
  <2> QED BY Zenon, <1>0, <1>3, <2>2 DEF Copy
<1>4. ASSUME NEW t \in Threads,
             \/ Reserve(t) \/ WriteAt(t) \/ GetSegment(t) \/ GrowBegin(t) \/ Truncate(t)
             \/ Return(t) \/ SyncBegin(t) \/ SyncBlock(t)
      PROVE  fault' = "none"
  BY Zenon, <1>0, <1>4 DEF Reserve, WriteAt, GetSegment, GrowBegin, Truncate, Return, SyncBegin,
                    SyncBlock
<1>5. CASE Close \/ UNCHANGED vars
  BY Zenon, <1>0, <1>5 DEF Close, vars
<1> QED BY Zenon, <1>1, <1>2, <1>3, <1>4, <1>5 DEF Next, Step

\* Everything written stays, and Sync covers what it passes.
LEMMA DataStep ==
  ASSUME Shape, Apart, Data, ~closed => Long /\ Mapped, [Next]_vars, ~cleared'
  PROVE  Data'
<1> USE DEF Blk, At, Goto
<1>1. ASSUME NEW t \in Threads, Reserve(t) \/ WriteAt(t) \/ GetSegment(t) \/ Attach(t) \/ Return(t)
      PROVE  Data'
  <2>1. UNCHANGED <<bytes, durable, size, acked, synced>>
    BY Zenon, <1>1 DEF Reserve, WriteAt, GetSegment, Attach, Return, disk, record
  <2>2. end_offset_' \in Nat /\ end_offset_ <= end_offset_'
    <3>1. CASE WriteAt(t)
      <4>1. end_offset_' = IF end_offset_ < end[t] THEN end[t] ELSE end_offset_
        BY Zenon, <3>1 DEF WriteAt
      <4>2. end_offset_ \in Nat /\ end[t] \in Nat
        BY Zenon DEF Shape
      <4> QED BY <4>1, <4>2
    <3>2. CASE Reserve(t) \/ GetSegment(t) \/ Attach(t) \/ Return(t)
      <4>1. end_offset_' = end_offset_
        BY Zenon, <3>2 DEF Reserve, GetSegment, Attach, Return, ranges
      <4>2. end_offset_ \in Nat
        BY Zenon DEF Shape
      <4> QED BY <4>1, <4>2
    <3> QED BY Zenon, <1>1, <3>1, <3>2
  <2>3. pc'[t] \notin {"done", "sync"}
    BY Zenon, <1>1, QuietStep DEF Reserve, WriteAt, GetSegment, Attach, Return, Quiet, Shape
  <2>4. pc'[t] # "idle" => first'[t]..(off'[t] - 1) \subseteq bytes
    <3>1. CASE Reserve(t)
      BY <3>1 DEF Reserve, Shape
    <3>2. CASE Return(t)
      BY Zenon, <3>2 DEF Return, Shape
    <3>3. CASE WriteAt(t) \/ GetSegment(t)
      BY Zenon, <3>3 DEF WriteAt, GetSegment, locals, Data
    <3>4. CASE Attach(t)
      BY Zenon, <3>4 DEF Attach, locals, Data, Shape
    <3> QED BY Zenon, <1>1, <3>1, <3>2, <3>3, <3>4
  <2>5. \A u \in Threads : u # t => (u \in whole' => u \in whole)
    BY Zenon, <1>1 DEF Reserve, WriteAt, GetSegment, Attach, Return, Forget, locals
  <2>6. \A u \in Threads : u # t => UNCHANGED <<pc[u], off[u], first[u], end[u], block[u]>>
    BY Zenon, <1>1, QuietStep DEF Quiet
  <2>7. acked \subseteq 0..(end_offset_' - 1) /\ synced \subseteq 0..(end_offset_' - 1)
    <3>1. 0..(end_offset_ - 1) \subseteq 0..(end_offset_' - 1)
      <4>1. end_offset_ \in Nat
        BY Zenon DEF Shape
      <4> QED BY Zenon, <2>2, <4>1, Below
    <3> QED BY Zenon, <3>1 DEF Data
  <2> QED BY Zenon, <2>1, <2>3, <2>4, <2>5, <2>6, <2>7 DEF Data
<1>2. ASSUME NEW t \in Threads, Copy(t)
      PROVE  Data'
  <2>1. CASE fault' = "bus"
    BY Zenon, <1>2, <2>1 DEF Copy, ranges, Data
  <2>2. CASE fault' # "bus"
    <3> DEFINE new == off[t]..(CopyTo(t) - 1)
    <3>1. /\ bytes' = bytes \cup new /\ off'[t] = CopyTo(t)
          /\ pc'[t] = IF CopyTo(t) = end[t] THEN "done" ELSE "segment"
          /\ acked' = acked
             \/ (CopyTo(t) = end[t] /\ acked' = acked \cup first[t]..(CopyTo(t) - 1))
      BY Zenon, <1>2, <2>2 DEF Copy, Shape
    <3>2. /\ UNCHANGED <<durable, size, synced, end_offset_, whole, first, end, block>>
          /\ Blk(t) < size
      BY Zenon, <1>2, <2>2 DEF Copy, ranges
    <3>3. \A u \in Threads : u # t => UNCHANGED <<pc[u], off[u]>>
      BY Zenon, <1>2, QuietStep DEF Quiet
    <3>4. \A x \in bytes' : BlockOf(x) < size
      BY Zenon, <1>2, <3>1, <3>2, CopyRange DEF Data
    <3>5. first[t]..(CopyTo(t) - 1) \subseteq bytes'
      <4>1. first[t]..(off[t] - 1) \subseteq bytes
        BY Zenon, <1>2 DEF Copy, Data
      <4>2. first[t] \in Nat /\ off[t] \in Nat /\ CopyTo(t) \in Nat
        BY Zenon, <1>2, CopyRange DEF Shape
      <4>3. \A x \in first[t]..(CopyTo(t) - 1) : x \in first[t]..(off[t] - 1) \/ x \in new
        BY <4>2
      <4> QED BY Zenon, <3>1, <4>1, <4>3
    <3>6. acked' \subseteq bytes' /\ acked' \subseteq 0..(end_offset_ - 1)
      <4>1. first[t] \in Nat /\ CopyTo(t) \in Nat /\ CopyTo(t) <= end_offset_ /\ end_offset_ \in Nat
        <5>1. end[t] \in Nat /\ end[t] <= end_offset_
          BY Zenon, <1>2 DEF Copy, Shape, Working
        <5> QED BY <1>2, <5>1, CopyRange DEF Shape
      <4>2. first[t]..(CopyTo(t) - 1) \subseteq 0..(end_offset_ - 1)
        BY <4>1
      <4> QED BY Zenon, <3>1, <3>5, <4>2 DEF Data
    <3> HIDE DEF new
    <3> QED BY Zenon, <3>1, <3>2, <3>3, <3>4, <3>5, <3>6 DEF Data
  <2> QED BY Zenon, <2>1, <2>2
<1>3. ASSUME NEW t \in Threads, SyncBegin(t)
      PROVE  Data'
  <2>1. UNCHANGED <<bytes, durable, size, acked, synced, end_offset_, first, off, end>>
    BY Zenon, <1>3 DEF SyncBegin, disk, record, ranges
  <2>2. pc[t] = "done" /\ pc'[t] = "sync" /\ block'[t] = 0
    BY Zenon, <1>3 DEF SyncBegin, Shape
  <2>3. t \in whole' => 0..(end[t] - 1) \subseteq bytes
    BY Zenon, <1>3 DEF SyncBegin
  <2>4. \A u \in Threads : u # t => UNCHANGED <<pc[u], block[u]>> /\ (u \in whole' => u \in whole)
    BY Zenon, <1>3, QuietStep DEF SyncBegin, Quiet
  <2>5. \A x \in Nat : ~(BlockOf(x) < 0)
    BY BlockRange
  <2> QED BY Zenon, <2>1, <2>2, <2>3, <2>4, <2>5 DEF Data, Shape

<1>4. ASSUME NEW t \in Threads, SyncBlock(t)
      PROVE  Data'
  <2>0. ~closed /\ pc[t] = "sync" /\ off[t] = end[t]
    BY Zenon, <1>4 DEF SyncBlock, Shape, Data
  <2>1. UNCHANGED <<bytes, size, acked, end_offset_>>
    BY Zenon, <1>4 DEF SyncBlock, ranges
  <2>2. \A u \in Threads : u # t => /\ UNCHANGED <<pc[u], off[u], first[u], end[u], block[u]>>
                                    /\ u \in whole' => u \in whole
    BY Zenon, <1>4, QuietStep DEF SyncBlock, Forget, Quiet
  <2>3. CASE block[t] \in mapped
    <3>1. /\ durable \subseteq durable' /\ synced' = synced /\ pc'[t] = "sync"
          /\ UNCHANGED <<first, off, end>> /\ block'[t] = block[t] + 1
      BY Zenon, <1>4, <2>3 DEF SyncBlock, Shape
    <3>2. t \in whole' => t \in whole /\ durable' = durable \cup {b \in bytes : BlockOf(b) = block[t]}
      BY Zenon, <1>4, <2>3 DEF SyncBlock
    <3>3. ASSUME t \in whole', NEW x \in 0..(end[t] - 1), BlockOf(x) < block[t] + 1
          PROVE  x \in durable'
      <4>1. x \in bytes /\ (BlockOf(x) < block[t] => x \in durable)
        BY Zenon, <2>0, <3>2, <3>3 DEF Data
      <4>2. BlockOf(x) \in Nat /\ block[t] \in Nat
        BY Zenon, <4>1, BlockRange DEF Shape
      <4> QED BY <3>2, <3>3, <4>1, <4>2
    <3>4. t \in whole' => 0..(end[t] - 1) \subseteq bytes
      BY Zenon, <2>0, <3>2 DEF Data
    <3> QED BY ZenonT(30), <2>0, <2>1, <2>2, <3>1, <3>3, <3>4 DEF Data
  <2>4. CASE block[t] \notin mapped
    <3>1. /\ pc'[t] = "idle" /\ durable' = durable
          /\ synced' = IF t \in whole THEN synced \cup first[t]..(end[t] - 1) ELSE synced
      BY Zenon, <1>4, <2>4 DEF SyncBlock, Shape
    <3>2. ASSUME t \in whole, NEW x \in 0..(end[t] - 1)
          PROVE  x \in durable
      <4>1. x \in Nat /\ x \in bytes /\ block[t] \in Nat /\ end[t] \in Nat /\ x < end[t]
        BY <2>0, <3>2 DEF Data, Shape
      <4>2. BlockOf(x) \in Nat /\ BlockOf(x) * block_size_ <= x
        BY Zenon, <4>1, BlockRange
      <4>3. CASE block[t] <= BlockOf(x)
        <5> DEFINE y == block[t] * block_size_
        <5>1. y \in Nat /\ y <= BlockOf(x) * block_size_ /\ BlockOf(x) * block_size_ \in Nat
          BY <4>1, <4>2, <4>3, MmapAssumption
        <5>2. y < (block[t] + 1) * block_size_
          BY <4>1, MmapAssumption
        <5>3. BlockOf(y) = block[t]
          BY <4>1, <5>1, <5>2, BlockUnique
        <5>4. y \in 0..(end[t] - 1)
          <6> HIDE DEF y
          <6> QED BY <4>1, <4>2, <5>1
        <5>5. y \in bytes
          BY Zenon, <2>0, <3>2, <5>4 DEF Data
        <5> QED BY Zenon, <2>0, <2>4, <5>3, <5>5 DEF Mapped
      <4>4. CASE ~(block[t] <= BlockOf(x))
        BY <2>0, <3>2, <4>1, <4>2, <4>4 DEF Data
      <4> QED BY Zenon, <4>3, <4>4
    <3>3. first[t]..(end[t] - 1) \subseteq 0..(end[t] - 1) /\ 0..(end[t] - 1) \subseteq 0..(end_offset_ - 1)
      <4>1. first[t] \in Nat /\ end[t] \in Nat /\ end_offset_ \in Nat /\ end[t] <= end_offset_
        BY Zenon, <2>0 DEF Shape
      <4> QED BY <4>1
    <3>4. synced' \subseteq durable' /\ synced' \subseteq 0..(end_offset_ - 1)
      BY Zenon, <3>1, <3>2, <3>3 DEF Data
    <3> QED BY Zenon, <2>1, <2>2, <3>1, <3>4 DEF Data
  <2> QED BY Zenon, <2>3, <2>4
<1>5. ASSUME NEW t \in Threads, Truncate(t)
      PROVE  Data'
  <2>1. t \in Truncating /\ ~closed
    BY Zenon, <1>5 DEF Truncate, Truncating, Shape
  <2>2. UNCHANGED <<first, off, end, block, whole, acked, synced, end_offset_>>
    BY Zenon, <1>5 DEF Truncate, locals, record, ranges
  <2>3. \E l \in {"install", "failed"} : pc' = [pc EXCEPT ![t] = l]
    BY Zenon, <1>5 DEF Truncate
  <2>4. size' = size \/ (size' = NewSize(Blk(t)) /\ size <= size' /\ size' \in Nat)
    BY Zenon, <1>5, <2>1, Grows DEF Truncate
  <2>5. \A x \in bytes : BlockOf(x) < size'
    <3>1. \A x \in bytes : BlockOf(x) \in Nat
      BY Zenon, BlockRange DEF Shape
    <3> QED BY <2>4, <3>1 DEF Data, Shape
  <2>6. bytes' = bytes
    BY Zenon, <1>5, <2>5 DEF Truncate
  <2>7. durable' = durable
    BY Zenon, <1>5, <2>6 DEF Truncate, Shape
  <2>8. \A u \in Threads : (pc'[u] \in {"idle", "done", "sync"} => pc'[u] = pc[u])
                           /\ (pc[u] = "idle" => pc'[u] = "idle")
    BY Zenon, <1>5, <2>3 DEF Truncate, Shape
  <2> QED BY Zenon, <2>2, <2>5, <2>6, <2>7, <2>8 DEF Data
<1>6. ASSUME NEW t \in Threads, GrowBegin(t) \/ GrowEnd(t)
      PROVE  Data'
  <2>1. UNCHANGED <<bytes, durable, size, acked, synced, end_offset_>>
    BY Zenon, <1>6 DEF GrowBegin, GrowEnd, InstallSegments, disk, record, ranges
  <2>2. \A u \in Threads : /\ pc'[u] \in {"done", "sync"} => pc'[u] = pc[u]
                           /\ pc[u] = "idle" => pc'[u] = "idle"
    BY Zenon, <1>6 DEF GrowBegin, GrowEnd, InstallSegments, Shape
  <2>3. \A u \in Threads : pc'[u] # "idle" => UNCHANGED <<first[u], off[u], end[u], block[u]>>
    BY Zenon, <1>6 DEF GrowBegin, GrowEnd, InstallSegments, Forget, locals, Shape
  <2>4. whole' \subseteq whole
    BY Zenon, <1>6 DEF GrowBegin, GrowEnd, InstallSegments, Forget, locals
  <2> QED BY Zenon, <2>1, <2>2, <2>3, <2>4 DEF Data
<1>7. CASE Close
  <2>1. /\ bytes' = {b \in bytes : b < end_offset_} /\ durable' = durable \cap bytes'
        /\ UNCHANGED <<pc, size, end_offset_, acked, synced>>
        /\ \A t \in Threads : pc[t] = "idle"
    BY Zenon, <1>7 DEF Close, ranges, record
  <2>2. \A x \in 0..(end_offset_ - 1) : x < end_offset_
    BY DEF Shape
  <2>3. acked \subseteq bytes' /\ synced \subseteq durable'
    BY Zenon, <2>1, <2>2 DEF Data, Shape
  <2> QED BY Zenon, <2>1, <2>3 DEF Data
<1>8. CASE UNCHANGED vars
  BY Zenon, <1>8 DEF vars, Data
<1> QED BY Zenon, <1>1, <1>2, <1>3, <1>4, <1>5, <1>6, <1>7, <1>8 DEF Next, Step

-----------------------------------------------------------------------------
(* The theorem.                                                            *)

LEMMA InvStep == IInv /\ [Next]_vars => IInv'
<1> SUFFICES ASSUME IInv, [Next]_vars
             PROVE  IInv'
  BY Zenon
<1>1. Shape' /\ Flag'
  BY Zenon, ShapeStep, FlagStep DEF IInv
<1>2. cleared => cleared'
  <2>1. ASSUME NEW t \in Threads, GrowBegin(t)
        PROVE  cleared => cleared'
    BY Zenon, <2>1 DEF GrowBegin
  <2>2. ASSUME NEW t \in Threads, Quiet(t) \/ Truncate(t) \/ GrowEnd(t)
        PROVE  cleared' = cleared
    BY Zenon, <2>2 DEF Quiet, Reserve, WriteAt, GetSegment, Attach, Copy, Return, SyncBegin, SyncBlock,
                Truncate, GrowEnd, InstallSegments, record
  <2>3. CASE Close \/ UNCHANGED vars
    BY Zenon, <2>3 DEF Close, vars, record
  <2> QED BY Zenon, <2>1, <2>2, <2>3 DEF Next, Step, Quiet
<1>3. closed => closed'
  <2>1. closed => UNCHANGED vars
    <3>1. ASSUME closed, NEW t \in Threads
          PROVE  ~(Reserve(t) \/ Step(t))
      BY Zenon, <3>1 DEF IInv, Shape, Step, Reserve, WriteAt, GetSegment, GrowBegin, Truncate, GrowEnd,
                  Attach, Copy, Return, SyncBegin, SyncBlock, At
    <3>2. closed => ~Close
      BY Zenon DEF Close
    <3> QED BY Zenon, <3>1, <3>2 DEF Next
  <2> QED BY Zenon, <2>1 DEF vars
<1>4. ASSUME ~cleared'
      PROVE  Good'
  <2>1. Shape /\ Good /\ (~closed => Long /\ Mapped)
    BY Zenon, <1>2, <1>4 DEF IInv, Good
  <2>2. Apart' /\ Data'
    BY Zenon, <1>4, <2>1, ApartStep, DataStep DEF Good
  <2>3. ~closed' => Long' /\ Mapped'
    BY Zenon, <1>3, <1>4, <2>1, LongStep, MappedStep DEF Good
  <2>4. errors' = 0 => fault' = "none"
    BY Zenon, <1>4, <2>1, FaultStep DEF Good
  <2> QED BY Zenon, <2>2, <2>3, <2>4 DEF Good
<1> QED BY Zenon, <1>1, <1>4 DEF IInv

\* A thread between the two critical sections of GrowViaTruncate is there
\* alone, unless a thread whose block was covered meanwhile has cleared
\* trunc_in_progress_ under it.
THEOREM TruncationsAlone == Spec => []TruncatesAlone
BY InvInit, InvStep, InvImplies, PTL DEF Spec

\* For any number of threads, any sizes of blocks and records, and whatever
\* fails: no byte that WriteAt has acknowledged leaves the file, unless the
\* flag of a truncation was cleared by another thread (GrowViaTruncate,
\* GetSegment and Close of PosixMmapFile).
THEOREM BytesStay == Spec => []WrittenStays
BY InvInit, InvStep, InvImplies, PTL DEF Spec

\* WriteAt stores nothing behind the end of the file, the assertion of
\* GetSegment holds and the array of segments is not overrun, unless the flag
\* was cleared or an ftruncate failed (GetSegment, WriteAt).
THEOREM StoresMapped == Spec => []NoFault
BY InvInit, InvStep, InvImplies, PTL DEF Spec

\* When Sync succeeds and everything before the record was in the file, the
\* record is on disk, unless the flag was cleared (Sync, sync_offset_).
THEOREM SyncComplete == Spec => []SyncReaches
BY InvInit, InvStep, InvImplies, PTL DEF Spec

\* While a thread sleeps in GrowViaTruncate some thread is on its way to the
\* SignalAll, whether or not the flag was cleared or an ftruncate failed.
THEOREM SleepersLeave == Spec => []SleepersWoken
BY InvInit, InvStep, InvImplies, PTL DEF Spec
=============================================================================
