------------------------------ MODULE LogFile ------------------------------
(***************************************************************************)
(* The write-ahead log: log::Writer::AddRecord (db/log_writer.cc), called  *)
(* by several threads at once on one mmap'd file, and log::Reader          *)
(* (db/log_reader.cc), which recovery runs over what a crash left behind.  *)
(*                                                                         *)
(* A writer reserves a range of the file with a compare-and-swap and then  *)
(* fills it without any lock, header and payload of a fragment apart.  The *)
(* file maps the offset of a header that has been written to its fragment; *)
(* every byte that nobody wrote is zero.  The process may crash in every   *)
(* state; the reader then goes over the file one fragment a step.          *)
(***************************************************************************)
EXTENDS Integers, Sequences, FiniteSets

CONSTANTS
  Threads,      \* threads calling AddRecord
  kBlockSize,
  kHeaderSize,
  Sizes,        \* possible values of slice.size()
  MaxRecords,   \* bound: how many records are added
  MaxFailures   \* bound: how many WriteAt calls fail

ASSUME FormatAssumption ==
  /\ kBlockSize \in Nat
  /\ kHeaderSize \in 1..kBlockSize - 1
  /\ Sizes \subseteq Nat
  /\ MaxRecords \in Nat
  /\ MaxFailures \in Nat

VARIABLES
  offset,   \* Writer::offset_
  recs,     \* the reservations, in the order in which they were made
  file,     \* offset of a fragment -> [rec, from, len, type, payload]: its
            \* data begins at byte `from' of the record
  pc,       \* "idle", "loaded", "emit", "payload"
  job,      \* the locals of AddRecord: slice.size(), start_offset, offset, left,
            \* and which of recs the thread fills
  failures,
  phase,    \* "write", after a crash "read", at the end of the file "eof"
  rpos,     \* Reader::end_of_buffer_offset_ - buffer_.size()
  scratch,  \* offsets of the fragments of the record in progress, <<>> when
            \* in_fragmented_record is false
  out       \* the records returned, each as the offsets of its fragments

reader == <<phase, rpos, scratch, out>>
vars == <<offset, recs, file, pc, job, failures, reader>>

NoJob == [size |-> 0, start |-> 0, pos |-> 0, left |-> 0, rec |-> 0]

Init ==
  /\ offset = 0
  /\ recs = <<>>
  /\ file = <<>>
  /\ pc = [t \in Threads |-> "idle"]
  /\ job = [t \in Threads |-> NoJob]
  /\ failures = 0
  /\ phase = "write" /\ rpos = 0 /\ scratch = <<>> /\ out = <<>>

----------------------------------------------------------------------------
(***************************************************************************)
(* AddRecord.                                                              *)
(***************************************************************************)

LeftInBlock(o) == kBlockSize - (o % kBlockSize)

NextBlock(o) == o + LeftInBlock(o)

\* A header is never put into the last kHeaderSize - 1 bytes of a block.
SkipTrailer(o) == IF LeftInBlock(o) < kHeaderSize THEN NextBlock(o) ELSE o

\* Where a record ends whose `remain' bytes begin at a block boundary.
ComputeRecordSize(from, remain) ==
  LET per_block == kBlockSize - kHeaderSize
  IN  from + (remain \div per_block) * kBlockSize + kHeaderSize + (remain % per_block)

\* end_offset for a record of n bytes reserved at `from'.
EndOffset(from, n) ==
  LET roundup_start == SkipTrailer(from)
      room == LeftInBlock(roundup_start)
  IN  IF kHeaderSize + n <= room
      THEN roundup_start + kHeaderSize + n
      ELSE ComputeRecordSize(roundup_start + room, n + kHeaderSize - room)

Unreserved == {t \in Threads : pc[t] = "loaded"}

\* The call, and the first load of offset_.
Load(t, n) ==
  /\ phase = "write" /\ pc[t] = "idle"
  /\ Len(recs) + Cardinality(Unreserved) < MaxRecords
  /\ pc' = [pc EXCEPT ![t] = "loaded"]
  /\ job' = [job EXCEPT ![t] = [@ EXCEPT !.size = n, !.start = offset]]
  /\ UNCHANGED <<offset, recs, file, failures, reader>>

\* The range [start, end) belongs to the new record, which t begins to fill.
StartRecord(t) ==
  LET end == EndOffset(job[t].start, job[t].size)
  IN  /\ offset' = end
      /\ recs' = Append(recs, [start |-> job[t].start, end |-> end,
                               size |-> job[t].size, done |-> FALSE])
      /\ job' = [job EXCEPT ![t] = [@ EXCEPT !.rec = Len(recs) + 1,
                                             !.pos = job[t].start, !.left = job[t].size]]
      /\ pc' = [pc EXCEPT ![t] = "emit"]
      /\ UNCHANGED <<file, failures, reader>>

ReserveUnchecked(t) == phase = "write" /\ pc[t] = "loaded" /\ StartRecord(t)

\* The compare-and-swap succeeds.
Reserve(t) ==
  /\ phase = "write" /\ pc[t] = "loaded"
  /\ job[t].start = offset
  /\ StartRecord(t)

\* It fails, and the loop loads offset_ again.
Reload(t) ==
  /\ phase = "write" /\ pc[t] = "loaded"
  /\ job[t].start # offset
  /\ job' = [job EXCEPT ![t].start = offset]
  /\ UNCHANGED <<offset, recs, file, pc, failures, reader>>

RecordType(begin, end) ==
  IF begin THEN IF end THEN "full" ELSE "first"
           ELSE IF end THEN "last" ELSE "middle"

\* fragment_length for the header at `at'.
FragmentLength(at, left) ==
  LET avail == LeftInBlock(at) - kHeaderSize
  IN  IF left < avail THEN left ELSE avail

Fragment(j, len) ==
  [rec |-> j.rec, from |-> j.size - j.left, len |-> len, payload |-> len = 0,
   type |-> RecordType(j.pos = j.start, len = j.left)]

\* The next fragment: its header is written (and with it the whole fragment,
\* when it has no payload).
EmitHeader(t) ==
  LET j == job[t]
      at == SkipTrailer(j.pos)
  IN  /\ phase = "write" /\ pc[t] = "emit"
      /\ file' = [o \in DOMAIN file \cup {at} |->
                    IF o = at THEN Fragment(j, FragmentLength(at, j.left)) ELSE file[o]]
      /\ job' = [job EXCEPT ![t].pos = at]
      /\ pc' = [pc EXCEPT ![t] = "payload"]
      /\ UNCHANGED <<offset, recs, failures, reader>>

\* Its payload is written; the last one completes the record.
EmitPayload(t) ==
  LET j == job[t]
      len == file[j.pos].len
      last == len = j.left
  IN  /\ phase = "write" /\ pc[t] = "payload"
      /\ file' = [file EXCEPT ![j.pos].payload = TRUE]
      /\ recs' = [recs EXCEPT ![j.rec].done = last]
      /\ job' = [job EXCEPT ![t] =
                   IF last THEN NoJob
                   ELSE [j EXCEPT !.pos = @ + kHeaderSize + len, !.left = @ - len]]
      /\ pc' = [pc EXCEPT ![t] = IF last THEN "idle" ELSE "emit"]
      /\ UNCHANGED <<offset, failures, reader>>

\* WriteAt fails: AddRecord gives the record up and what it has reserved stays.
EmitError(t) ==
  /\ phase = "write" /\ pc[t] \in {"emit", "payload"}
  /\ failures < MaxFailures
  /\ failures' = failures + 1
  /\ job' = [job EXCEPT ![t] = NoJob]
  /\ pc' = [pc EXCEPT ![t] = "idle"]
  /\ UNCHANGED <<offset, recs, file, reader>>

\* The process ends, within any calls; recovery opens the log.
Crash ==
  /\ phase = "write" /\ phase' = "read"
  /\ pc' = [t \in Threads |-> "idle"]
  /\ job' = [t \in Threads |-> NoJob]
  /\ UNCHANGED <<offset, recs, file, failures, rpos, scratch, out>>

----------------------------------------------------------------------------
(***************************************************************************)
(* log::Reader: ReadRecord, called until the end of the file.              *)
(***************************************************************************)

ReadPhysicalRecordUnchecked(o) == IF o \in DOMAIN file THEN file[o].type ELSE "bad"

\* ReadPhysicalRecord at o: zeros (preallocated space) and a fragment whose
\* checksum does not match are bad, and drop the rest of the block.
ReadPhysicalRecord(o) ==
  IF o \in DOMAIN file /\ file[o].payload THEN file[o].type ELSE "bad"

AfterBadNothing(o, type) ==
  IF type = "bad" THEN offset ELSE o + kHeaderSize + file[o].len

AfterPhysicalRecord(o, type) ==
  IF type = "bad" THEN NextBlock(o) ELSE o + kHeaderSize + file[o].len

\* Where the next header is looked for.
Here == SkipTrailer(rpos)

\* ReadPhysicalRecord finds a fragment of this type, or a bad one.
Reads(type) ==
  /\ phase = "read" /\ Here < offset /\ ReadPhysicalRecord(Here) = type
  /\ rpos' = AfterPhysicalRecord(Here, type)
  /\ UNCHANGED <<offset, recs, file, pc, job, failures, phase>>

ReadFull == Reads("full") /\ out' = Append(out, <<Here>>) /\ scratch' = <<>>

ReadFirst == Reads("first") /\ scratch' = <<Here>> /\ UNCHANGED out

\* A fragment without its beginning is skipped.
ReadMiddle ==
  /\ Reads("middle") /\ UNCHANGED out
  /\ scratch' = IF scratch = <<>> THEN <<>> ELSE Append(scratch, Here)

ReadLast ==
  /\ Reads("last") /\ scratch' = <<>>
  /\ out' = IF scratch = <<>> THEN out ELSE Append(out, Append(scratch, Here))

ReadBad == Reads("bad") /\ scratch' = <<>> /\ UNCHANGED out

ReadEof ==
  /\ phase = "read" /\ Here >= offset
  /\ phase' = "eof" /\ scratch' = <<>>
  /\ UNCHANGED <<offset, recs, file, pc, job, failures, rpos, out>>

ReadRecord == ReadFull \/ ReadFirst \/ ReadMiddle \/ ReadLast \/ ReadBad \/ ReadEof

----------------------------------------------------------------------------
AddRecord(t) ==
  \/ \E n \in Sizes : Load(t, n)
  \/ Reserve(t)
  \/ Reload(t)
  \/ EmitHeader(t)
  \/ EmitPayload(t)
  \/ EmitError(t)

Next == (\E t \in Threads : AddRecord(t)) \/ Crash \/ ReadRecord

Spec == Init /\ [][Next]_vars

----------------------------------------------------------------------------
(***************************************************************************)
(* Properties.                                                             *)
(***************************************************************************)

Reservation == [start : Nat, end : Nat, size : Nat, done : BOOLEAN]

PhysicalRecord ==
  [rec : Nat, from : Nat, len : Nat, payload : BOOLEAN,
   type : {"full", "first", "middle", "last"}]

Job == [size : Nat, start : Nat, pos : Nat, left : Nat, rec : Nat]

TypeOK ==
  /\ offset \in Nat /\ failures \in Nat
  /\ recs \in Seq(Reservation)
  /\ DOMAIN file \subseteq Nat /\ file \in [DOMAIN file -> PhysicalRecord]
  /\ pc \in [Threads -> {"idle", "loaded", "emit", "payload"}]
  /\ job \in [Threads -> Job]
  /\ phase \in {"write", "read", "eof"} /\ rpos \in Nat
  /\ scratch \in Seq(DOMAIN file) /\ out \in Seq(Seq(DOMAIN file))

FragmentEnd(o) == o + kHeaderSize + file[o].len

Fragments(i) == {o \in DOMAIN file : file[o].rec = i}

\* AddRecord reserves by compare-and-swap and writes without a lock: the
\* reservations follow each other without overlap, every fragment lies inside
\* the reservation of its record and inside one block, and no two overlap.
WritesInReservation ==
  /\ \A i \in DOMAIN recs :
       recs[i].start = IF i = 1 THEN 0 ELSE recs[i - 1].end
  /\ \A o \in DOMAIN file :
       /\ recs[file[o].rec].start <= o /\ FragmentEnd(o) <= recs[file[o].rec].end
       /\ LeftInBlock(o) >= kHeaderSize + file[o].len
       /\ \A p \in DOMAIN file : o < p => FragmentEnd(o) <= p

\* The fragments s, one after the other, are a record as AddRecord got it.
Whole(s) ==
  /\ file[s[1]].from = 0
  /\ \A f \in 1..Len(s) - 1 : file[s[f + 1]].from = file[s[f]].from + file[s[f]].len
  /\ file[s[Len(s)]].from + file[s[Len(s)]].len = recs[file[s[1]].rec].size
  /\ \A f \in 1..Len(s) : file[s[f]].payload /\ file[s[f]].rec = file[s[1]].rec

\* Whatever a crash leaves behind, the reader returns only records that were
\* completely written, none twice, in the order of their offsets, and each put
\* together from its own fragments in their order, from its first byte to its
\* last.
OnlyWholeRecords ==
  \A k \in DOMAIN out :
    Whole(out[k]) /\ (k > 1 => file[out[k - 1][1]].rec < file[out[k][1]].rec)

ReadBack == {file[out[k][1]].rec : k \in DOMAIN out}

\* A byte that was reserved and not written, trailers apart.
Gap(b) ==
  /\ b < offset
  /\ LeftInBlock(b) >= kHeaderSize
  /\ \A o \in DOMAIN file :
       b < o \/ b >= o + kHeaderSize + IF file[o].payload THEN file[o].len ELSE 0

\* The bytes at the end of reservation j that no fragment needs:
\* ComputeRecordSize reserves one header too many when the rest of a record
\* fills its blocks exactly.
SpareHeader(j, b) ==
  recs[j].end % kBlockSize = kHeaderSize /\ b >= recs[j].end - kHeaderSize

\* Byte b was left out by the writer of record j, which never completed it or
\* did not need the byte.
LeftOut(j, b) ==
  b \in recs[j].start..recs[j].end - 1 /\ (~recs[j].done \/ SpareHeader(j, b))

\* In a block that record i touches, another writer has left a gap before it.
BehindGap(i) ==
  \E o \in Fragments(i) : \E b \in (o - (o % kBlockSize))..(o - 1) :
    Gap(b) /\ \E j \in DOMAIN recs \ {i} : LeftOut(j, b)

\* A completed record that the reader does not return has a gap in front of it
\* in one of the blocks it touches, which another writer has left: that costs
\* the records behind it in the block, and no others.
LostOnlyBehindGap ==
  phase = "eof" =>
    \A i \in DOMAIN recs : recs[i].done => i \in ReadBack \/ BehindGap(i)

============================================================================
