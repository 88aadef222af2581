-------------------------- MODULE LogFileProofs --------------------------
(***************************************************************************)
(* Proofs about the write-ahead log: threads that write without a lock     *)
(* stay within their reservations, and after a crash the reader returns    *)
(* whole records only, and misses a completed one only behind a gap that   *)
(* another writer has left.                                                *)
(***************************************************************************)
EXTENDS LogFile, TLAPS

(***************************************************************************)
(* Blocks.                                                                 *)
(***************************************************************************)

\* Division by a positive integer.
LEMMA Divides ==
  ASSUME NEW d \in Int, NEW r \in Int, d > 0
  PROVE  r % d \in 0..d - 1 /\ r \div d \in Int /\ r = (r \div d) * d + (r % d)
  <1>1. r % d \in 0..d - 1
    OBVIOUS
  <1>2. r \div d \in Int
    OBVIOUS
  <1>3. r = (r \div d) * d + (r % d)
    OBVIOUS
  <1> QED BY Zenon, <1>1, <1>2, <1>3

LEMMA DivUnique ==
  ASSUME NEW d \in Int, NEW r \in Int, NEW q \in Int, NEW m \in 0..d - 1, d > 0, r = q * d + m
  PROVE  r % d = m /\ r \div d = q
  OBVIOUS

LEMMA ModShift ==
  ASSUME NEW d \in Int, NEW r \in Int, NEW k \in Nat, d > 0, (r % d) + k < d
  PROVE  (r + k) % d = (r % d) + k
  <1>1. r % d \in 0..d - 1 /\ r \div d \in Int /\ r = (r \div d) * d + (r % d)
    BY Divides
  <1>2. r + k = (r \div d) * d + ((r % d) + k)
    BY <1>1
  <1>3. (r % d) + k \in 0..d - 1 /\ r + k \in Int
    BY <1>1
  <1> QED BY ZenonT(30), <1>1, <1>2, <1>3, DivUnique

LEMMA ModNext ==
  ASSUME NEW d \in Int, NEW r \in Int, d > 0
  PROVE  (r + (d - (r % d))) % d = 0
  <1>1. r % d \in 0..d - 1 /\ r \div d \in Int /\ r = (r \div d) * d + (r % d)
    BY Divides
  <1>2. r + (d - (r % d)) = ((r \div d) + 1) * d + 0
    <2> DEFINE q == r \div d
               m == r % d
    <2> HIDE DEF q, m
    <2>1. \A x \in Int : (x + 1) * d = x * d + d
      OBVIOUS
    <2>2. q \in Int /\ m \in Int /\ r = q * d + m
      BY <1>1 DEF q, m
    <2>3. (q + 1) * d = q * d + d
      BY Zenon, <2>1, <2>2
    <2>4. q * d \in Int
      BY <2>2
    <2>5. r + (d - m) = (q + 1) * d + 0
      BY <2>2, <2>3, <2>4
    <2> QED BY Zenon, <2>5 DEF q, m
  <1>3. (r \div d) + 1 \in Int /\ 0 \in 0..d - 1 /\ r + (d - (r % d)) \in Int
    BY <1>1
  <1> QED BY ZenonT(30), <1>2, <1>3, DivUnique

\* LeftInBlock and NextBlock: where a position lies in its block.
LEMMA Blocks ==
  ASSUME NEW o \in Nat
  PROVE  /\ LeftInBlock(o) \in 1..kBlockSize
         /\ NextBlock(o) = o + LeftInBlock(o)
         /\ LeftInBlock(NextBlock(o)) = kBlockSize
         /\ \A k \in 0..LeftInBlock(o) - 1 : LeftInBlock(o + k) = LeftInBlock(o) - k
         /\ o % kBlockSize = kBlockSize - LeftInBlock(o)
  <1>b. kBlockSize \in Int /\ kBlockSize > 0
    BY FormatAssumption
  <1>1. o % kBlockSize \in 0..kBlockSize - 1
    BY <1>b, Divides
  <1>2. LeftInBlock(o) \in 1..kBlockSize /\ o % kBlockSize = kBlockSize - LeftInBlock(o)
    BY <1>b, <1>1 DEF LeftInBlock
  <1>3. LeftInBlock(NextBlock(o)) = kBlockSize
    <2>1. (o + (kBlockSize - (o % kBlockSize))) % kBlockSize = 0
      BY <1>b, ModNext
    <2>2. LeftInBlock(NextBlock(o)) = kBlockSize - ((o + (kBlockSize - (o % kBlockSize))) % kBlockSize)
      BY Zenon DEF LeftInBlock, NextBlock
    <2> QED BY <1>b, <2>1, <2>2
  <1>4. ASSUME NEW k \in 0..LeftInBlock(o) - 1
        PROVE  LeftInBlock(o + k) = LeftInBlock(o) - k
    <2>1. k \in Nat /\ (o % kBlockSize) + k < kBlockSize
      BY <1>b, <1>1, <1>2
    <2>2. (o + k) % kBlockSize = (o % kBlockSize) + k
      BY SMTT(30), <1>b, <2>1, ModShift
    <2> QED BY <1>b, <1>1, <2>2, <2>1 DEF LeftInBlock
  <1> QED BY <1>2, <1>3, <1>4 DEF NextBlock

\* ComputeRecordSize takes one block away as the writer's loop does, except that
\* a rest that fills one block exactly gets a second header.
LEMMA RecordSize ==
  ASSUME NEW from \in Nat, NEW n \in Nat
  PROVE  LET per == kBlockSize - kHeaderSize IN
         /\ ComputeRecordSize(from, n) \in Nat
         /\ ComputeRecordSize(from, n) >= from + kHeaderSize
         /\ n < per => ComputeRecordSize(from, n) = from + kHeaderSize + n
         /\ n = per => ComputeRecordSize(from, n) = from + kBlockSize + kHeaderSize
         /\ n > per => ComputeRecordSize(from, n) = ComputeRecordSize(from + kBlockSize, n - per)
  <1> DEFINE per == kBlockSize - kHeaderSize
             q == n \div per
             m == n % per
  <1>p. per \in Nat /\ per > 0 /\ kBlockSize \in Nat /\ kHeaderSize \in Nat
    BY FormatAssumption
  <1>1. m \in 0..per - 1 /\ q \in Int /\ n = q * per + m
    BY <1>p, Divides
  <1>2. q >= 0
    <2>1. SUFFICES ASSUME q <= -1 PROVE FALSE
      BY <1>1
    <2>2. q * per <= (-1) * per
      <3> HIDE DEF q, per
      <3> QED BY <1>p, <1>1, <2>1
    <2> QED
      <3> HIDE DEF q, per, m
      <3> QED BY <1>p, <1>1, <2>2
  <1>3. ComputeRecordSize(from, n) = from + q * kBlockSize + kHeaderSize + m
    BY DEF ComputeRecordSize
  <1>4. q * kBlockSize \in Nat
    <2> HIDE DEF q
    <2> QED BY <1>p, <1>1, <1>2
  <1>5. ASSUME n < per PROVE q = 0 /\ m = n
    <2> HIDE DEF per
    <2>1. n = 0 * per + n /\ n \in 0..per - 1
      BY <1>p, <1>5
    <2> QED BY <1>p, <2>1, DivUnique
  <1>6. ASSUME n = per PROVE q = 1 /\ m = 0
    <2> HIDE DEF per
    <2>1. n = 1 * per + 0 /\ 0 \in 0..per - 1
      BY <1>p, <1>6
    <2> QED BY <1>p, <2>1, DivUnique
  <1>7. ASSUME n > per
        PROVE  ComputeRecordSize(from, n) = ComputeRecordSize(from + kBlockSize, n - per)
    <2>1. (n - per) % per = m /\ (n - per) \div per = q - 1
      <3> HIDE DEF per, q, m
      <3>1. n - per = (q - 1) * per + m /\ q - 1 \in Int /\ n - per \in Int
        BY <1>p, <1>1
      <3> QED BY <1>p, <1>1, <3>1, DivUnique
    <2>2. ComputeRecordSize(from + kBlockSize, n - per)
            = (from + kBlockSize) + (q - 1) * kBlockSize + kHeaderSize + m
      BY <2>1 DEF ComputeRecordSize
    <2>3. (q - 1) * kBlockSize = q * kBlockSize - kBlockSize
      <3> HIDE DEF q
      <3> QED BY <1>p, <1>1
    <2> HIDE DEF per, q, m
    <2> QED BY <1>p, <1>1, <1>3, <1>4, <2>2, <2>3
  <1> HIDE DEF q, m
  <1> QED BY <1>p, <1>1, <1>3, <1>4, <1>5, <1>6, <1>7
\* SkipTrailer stays, or goes on to the next block over trailer bytes only.
LEMMA Skip ==
  ASSUME NEW o \in Nat
  PROVE  /\ SkipTrailer(o) \in Nat /\ o <= SkipTrailer(o)
         /\ LeftInBlock(SkipTrailer(o)) >= kHeaderSize
         /\ LeftInBlock(o) >= kHeaderSize => SkipTrailer(o) = o
         /\ SkipTrailer(o) # o => LeftInBlock(SkipTrailer(o)) = kBlockSize
         /\ \A b \in Nat : o <= b /\ b < SkipTrailer(o) => LeftInBlock(b) < kHeaderSize
  <1>b. kBlockSize \in Nat /\ kHeaderSize \in 1..kBlockSize - 1
    BY FormatAssumption
  <1>1. LeftInBlock(o) \in 1..kBlockSize /\ NextBlock(o) = o + LeftInBlock(o)
        /\ LeftInBlock(NextBlock(o)) = kBlockSize
    BY Zenon, Blocks
  <1>2. ASSUME NEW b \in Nat, o <= b, b < NextBlock(o), LeftInBlock(o) < kHeaderSize
        PROVE  LeftInBlock(b) < kHeaderSize
    <2>1. b - o \in 0..LeftInBlock(o) - 1 /\ o + (b - o) = b
      BY <1>1, <1>2
    <2>2. LeftInBlock(o + (b - o)) = LeftInBlock(o) - (b - o)
      BY Zenon, <2>1, Blocks
    <2> QED BY <1>b, <1>1, <1>2, <2>1, <2>2
  <1>3. CASE LeftInBlock(o) < kHeaderSize
    <2>1. SkipTrailer(o) = NextBlock(o)
      BY Zenon, <1>3 DEF SkipTrailer
    <2>2. ~(LeftInBlock(o) >= kHeaderSize) /\ NextBlock(o) \in Nat /\ o <= NextBlock(o)
          /\ kBlockSize >= kHeaderSize
      BY <1>b, <1>1, <1>3
    <2> QED BY Zenon, <1>1, <1>2, <1>3, <2>1, <2>2
  <1>4. CASE LeftInBlock(o) >= kHeaderSize
    <2>1. SkipTrailer(o) = o
      BY <1>b, <1>1, <1>4 DEF SkipTrailer
    <2>2. \A b \in Nat : ~(o <= b /\ b < o)
      OBVIOUS
    <2>3. o <= o
      OBVIOUS
    <2> QED BY Zenon, <1>4, <2>1, <2>2, <2>3
  <1> QED BY <1>b, <1>1, <1>3, <1>4

\* Positions of one block.
LEMMA SameBlock ==
  ASSUME NEW o \in Nat, NEW p \in Nat, o <= p, p < NextBlock(o)
  PROVE  /\ LeftInBlock(p) = LeftInBlock(o) - (p - o)
         /\ NextBlock(p) = NextBlock(o)
         /\ p - (p % kBlockSize) <= o
  <1>b. kBlockSize \in Nat
    BY FormatAssumption
  <1>1. LeftInBlock(o) \in 1..kBlockSize /\ NextBlock(o) = o + LeftInBlock(o)
    BY Zenon, Blocks
  <1>2. p - o \in 0..LeftInBlock(o) - 1 /\ o + (p - o) = p
    BY <1>1
  <1>3. LeftInBlock(o + (p - o)) = LeftInBlock(o) - (p - o)
    BY Zenon, <1>2, Blocks
  <1>4. NextBlock(p) = p + LeftInBlock(p) /\ p % kBlockSize = kBlockSize - LeftInBlock(p)
    BY Zenon, Blocks
  <1> HIDE DEF LeftInBlock, NextBlock
  <1>5. LeftInBlock(p) = LeftInBlock(o) - (p - o)
    BY <1>2, <1>3
  <1> QED BY <1>b, <1>1, <1>2, <1>4, <1>5

\* A fragment fits its block; it takes all that is left, or fills the block.
LEMMA FragmentFits ==
  ASSUME NEW at \in Nat, NEW left \in Nat, LeftInBlock(at) >= kHeaderSize
  PROVE  LET len == FragmentLength(at, left)
             e == at + kHeaderSize + len
         IN  /\ len \in Nat /\ len <= left /\ kHeaderSize + len <= LeftInBlock(at)
             /\ kHeaderSize + left <= LeftInBlock(at) <=> len = left
             /\ len # left => e = NextBlock(at) /\ len = LeftInBlock(at) - kHeaderSize
  <1>b. kBlockSize \in Nat /\ kHeaderSize \in 1..kBlockSize - 1
    BY FormatAssumption
  <1>1. LeftInBlock(at) \in 1..kBlockSize /\ NextBlock(at) = at + LeftInBlock(at)
    BY Zenon, Blocks
  <1>2. FragmentLength(at, left) = IF left < LeftInBlock(at) - kHeaderSize
                                   THEN left ELSE LeftInBlock(at) - kHeaderSize
    BY Zenon DEF FragmentLength
  <1> QED BY <1>b, <1>1, <1>2

\* The reservation at `from' has room for a header at least.
LEMMA Reserved ==
  ASSUME NEW from \in Nat, NEW n \in Nat
  PROVE  EndOffset(from, n) \in Nat /\ EndOffset(from, n) >= from + kHeaderSize
  <1>b. kBlockSize \in Nat /\ kHeaderSize \in 1..kBlockSize - 1
    BY FormatAssumption
  <1> DEFINE at == SkipTrailer(from)
             room == LeftInBlock(at)
  <1>1. at \in Nat /\ from <= at /\ room >= kHeaderSize
    BY Zenon, Skip
  <1>2. room \in 1..kBlockSize
    BY Zenon, <1>1, Blocks
  <1> HIDE DEF at, room
  <1>3. CASE kHeaderSize + n <= room
    <2>1. EndOffset(from, n) = at + kHeaderSize + n
      BY Zenon, <1>3 DEF EndOffset, at, room
    <2> QED BY <1>b, <1>1, <2>1
  <1>4. CASE ~(kHeaderSize + n <= room)
    <2>1. EndOffset(from, n) = ComputeRecordSize(at + room, n + kHeaderSize - room)
      BY Zenon, <1>4 DEF EndOffset, at, room
    <2>2. at + room \in Nat /\ n + kHeaderSize - room \in Nat
      BY <1>b, <1>1, <1>2, <1>4
    <2>3. /\ ComputeRecordSize(at + room, n + kHeaderSize - room) \in Nat
          /\ ComputeRecordSize(at + room, n + kHeaderSize - room) >= at + room + kHeaderSize
      BY Zenon, <2>2, RecordSize
    <2> QED BY <1>b, <1>1, <1>2, <2>1, <2>3
  <1> QED BY Zenon, <1>3, <1>4

\* What AddRecord's loop writes next, against what it has reserved.
LEMMA NextFragment ==
  ASSUME NEW pos \in Nat, NEW left \in Nat, NEW end \in Nat,
         NEW at, at = SkipTrailer(pos), NEW len, len = FragmentLength(at, left),
         NEW e, e = at + kHeaderSize + len,
         \/ end = EndOffset(pos, left)
         \/ LeftInBlock(pos) = kBlockSize /\ end = ComputeRecordSize(pos, left)
  PROVE  /\ e <= end
         /\ len = left => \/ end = e
                          \/ end = e + kHeaderSize /\ LeftInBlock(e) = kBlockSize
         /\ len # left => /\ LeftInBlock(e) = kBlockSize /\ e + kHeaderSize <= end
                          /\ end = ComputeRecordSize(e, left - len)
  <1>b. kBlockSize \in Nat /\ kHeaderSize \in 1..kBlockSize - 1
    BY FormatAssumption
  <1> DEFINE room == LeftInBlock(at)
  <1>1. at \in Nat /\ pos <= at /\ room >= kHeaderSize
    BY Zenon, Skip
  <1>2. /\ room \in 1..kBlockSize /\ NextBlock(at) = at + room
        /\ LeftInBlock(NextBlock(at)) = kBlockSize
    BY Zenon, <1>1, Blocks
  <1>3. /\ len \in Nat /\ len <= left /\ kHeaderSize + len <= room
        /\ kHeaderSize + left <= room <=> len = left
        /\ len # left => e = NextBlock(at) /\ len = room - kHeaderSize
    BY Zenon, <1>1, FragmentFits
  <1>4. CASE len # left
    <2>1. e \in Nat /\ left - len \in Nat
      BY <1>b, <1>1, <1>3
    <2>2. ComputeRecordSize(e, left - len) >= e + kHeaderSize
      BY Zenon, <2>1, RecordSize
    <2>3. end = ComputeRecordSize(e, left - len)
      <3>1. CASE end = EndOffset(pos, left)
        <4>1. end = ComputeRecordSize(at + room, left + kHeaderSize - room)
          BY Zenon, <1>3, <1>4, <3>1 DEF EndOffset
        <4>2. at + room = e /\ left + kHeaderSize - room = left - len
          <5> HIDE DEF room
          <5> QED BY <1>b, <1>1, <1>2, <1>3, <1>4
        <4> QED BY Zenon, <4>1, <4>2
      <3>2. CASE LeftInBlock(pos) = kBlockSize /\ end = ComputeRecordSize(pos, left)
        <4>1. at = pos /\ room = kBlockSize
          <5>1. kBlockSize >= kHeaderSize
            BY <1>b
          <5> QED BY Zenon, <3>2, <5>1, Skip
        <4>2. left > kBlockSize - kHeaderSize
          <5> HIDE DEF room
          <5> QED BY <1>b, <1>3, <1>4, <4>1
        <4>3. ComputeRecordSize(pos, left)
                = ComputeRecordSize(pos + kBlockSize, left - (kBlockSize - kHeaderSize))
          BY Zenon, <4>2, RecordSize
        <4>4. pos + kBlockSize = e /\ left - (kBlockSize - kHeaderSize) = left - len
          <5> HIDE DEF room
          <5> QED BY <1>b, <1>1, <1>2, <1>3, <1>4, <4>1
        <4> QED BY Zenon, <3>2, <4>3, <4>4
      <3> QED BY Zenon, <3>1, <3>2
    <2>4. LeftInBlock(e) = kBlockSize /\ e + kHeaderSize <= end /\ e <= end
      <3> HIDE DEF room
      <3> QED BY <1>b, <1>2, <1>3, <1>4, <2>1, <2>2, <2>3
    <2> QED BY Zenon, <1>4, <2>3, <2>4
  <1>5. CASE len = left
    <2>1. CASE end = EndOffset(pos, left)
      <3>1. end = at + kHeaderSize + left
        BY Zenon, <1>3, <1>5, <2>1 DEF EndOffset
      <3>2. end = e /\ e <= e
        <4> HIDE DEF room
        <4> QED BY <1>b, <1>1, <1>5, <3>1
      <3> QED BY Zenon, <1>5, <3>2
    <2>2. CASE LeftInBlock(pos) = kBlockSize /\ end = ComputeRecordSize(pos, left)
      <3>1. at = pos /\ room = kBlockSize
        <4>1. kBlockSize >= kHeaderSize
          BY <1>b
        <4> QED BY Zenon, <2>2, <4>1, Skip
      <3>2. CASE left < kBlockSize - kHeaderSize
        <4>1. end = pos + kHeaderSize + left
          BY Zenon, <2>2, <3>2, RecordSize
        <4>2. end = e /\ e <= e
          <5> HIDE DEF room
          <5> QED BY <1>b, <1>1, <1>5, <3>1, <4>1
        <4> QED BY Zenon, <1>5, <4>2
      <3>3. CASE left = kBlockSize - kHeaderSize
        <4>1. end = pos + kBlockSize + kHeaderSize
          BY Zenon, <2>2, <3>3, RecordSize
        <4>2. end = e + kHeaderSize /\ e = NextBlock(at) /\ e <= end
          <5> HIDE DEF room
          <5> QED BY <1>b, <1>1, <1>2, <1>5, <3>1, <3>3, <4>1
        <4> QED BY Zenon, <1>2, <1>5, <4>2
      <3>4. left < kBlockSize - kHeaderSize \/ left = kBlockSize - kHeaderSize
        <4> HIDE DEF room
        <4> QED BY <1>b, <1>3, <1>5, <3>1
      <3> QED BY Zenon, <3>2, <3>3, <3>4
    <2> QED BY Zenon, <2>1, <2>2
  <1> QED BY Zenon, <1>4, <1>5

(***************************************************************************)
(* The inductive invariant.                                                *)
(***************************************************************************)

\* Reservations follow each other and leave no byte out.
ResInv ==
  /\ offset = IF recs = <<>> THEN 0 ELSE recs[Len(recs)].end
  /\ \A i \in DOMAIN recs :
       /\ recs[i].start = IF i = 1 THEN 0 ELSE recs[i - 1].end
       /\ recs[i].start <= recs[i].end /\ recs[i].end <= offset
       /\ \A j \in DOMAIN recs : i < j => recs[i].end <= recs[j].start
  /\ \A b \in Nat : b < offset =>
       \E i \in DOMAIN recs : recs[i].start <= b /\ b < recs[i].end

\* A fragment that is not the last of its record fills its block, and the next
\* one begins where it ends; one that is not the first has a predecessor.
Linked(o) ==
  LET f == file[o]
  IN  /\ f.type \in {"full", "first"} =>
           f.from = 0 /\ \A p \in Fragments(f.rec) : o <= p
      /\ f.type \in {"full", "last"} => f.from + f.len = recs[f.rec].size
      /\ f.type \in {"first", "middle"} =>
           /\ LeftInBlock(FragmentEnd(o)) = kBlockSize
           /\ FragmentEnd(o) < recs[f.rec].end
           /\ \A p \in DOMAIN file : p = FragmentEnd(o) =>
                /\ file[p].rec = f.rec /\ file[p].from = f.from + f.len
                /\ file[p].type \in {"middle", "last"}
      /\ f.type \in {"middle", "last"} => \E p \in Fragments(f.rec) : FragmentEnd(p) = o

FragInv ==
  \A o \in DOMAIN file :
    /\ file[o].rec \in DOMAIN recs
    /\ recs[file[o].rec].start <= o /\ FragmentEnd(o) <= recs[file[o].rec].end
    /\ LeftInBlock(o) >= kHeaderSize + file[o].len
    /\ \A p \in DOMAIN file : o < p => FragmentEnd(o) <= p
    /\ ~file[o].payload => file[o].len > 0
    /\ Linked(o)

\* Byte b of reservation i is inside a fragment, or in the trailer of a block.
Written(i, b) ==
  \/ LeftInBlock(b) < kHeaderSize
  \/ \E o \in Fragments(i) : o <= b /\ b < FragmentEnd(o)

\* A completed record has all its fragments, and they fill its reservation.
DoneInv ==
  \A i \in DOMAIN recs : recs[i].done =>
    /\ Fragments(i) # {}
    /\ \A o \in Fragments(i) :
         /\ file[o].payload
         /\ file[o].type \in {"first", "middle"} => FragmentEnd(o) \in DOMAIN file
    /\ \A b \in Nat : recs[i].start <= b /\ b < recs[i].end => Written(i, b) \/ SpareHeader(i, b)

Active(t) == pc[t] \in {"emit", "payload"}

\* What the thread has written is what lies before its position.
Behind(j) ==
  /\ \A b \in Nat : j.start <= b /\ b < j.pos => Written(j.rec, b)
  /\ \A o \in Fragments(j.rec) : o # j.pos =>
       /\ file[o].payload /\ file[o].type \in {"first", "middle"}
       /\ FragmentEnd(o) <= j.pos
       /\ FragmentEnd(o) = j.pos => file[o].from + file[o].len = j.size - j.left
       /\ FragmentEnd(o) # j.pos => FragmentEnd(o) \in DOMAIN file

\* Between two fragments: what is left fits the rest of the reservation.
Between(j) ==
  /\ j.pos \notin DOMAIN file
  /\ IF j.pos = j.start
     THEN j.left = j.size /\ recs[j.rec].end = EndOffset(j.pos, j.left)
     ELSE /\ LeftInBlock(j.pos) = kBlockSize
          /\ recs[j.rec].end = ComputeRecordSize(j.pos, j.left)
          /\ \E p \in Fragments(j.rec) : FragmentEnd(p) = j.pos

\* The end of a record that fits its last fragment, or has a header to spare.
EndsAt(i, e) ==
  \/ recs[i].end = e
  \/ recs[i].end = e + kHeaderSize /\ LeftInBlock(e) = kBlockSize

\* Within a fragment, whose header is written.
Within(j) ==
  /\ j.pos \in Fragments(j.rec)
  /\ file[j.pos].from = j.size - j.left
  /\ file[j.pos].len <= j.left
  /\ IF file[j.pos].len = j.left
     THEN file[j.pos].type \in {"full", "last"} /\ EndsAt(j.rec, FragmentEnd(j.pos))
     ELSE /\ file[j.pos].type \in {"first", "middle"}
          /\ recs[j.rec].end = ComputeRecordSize(FragmentEnd(j.pos), j.left - file[j.pos].len)

\* A thread that is writing a record.
Writing(t) ==
  /\ job[t].rec \in DOMAIN recs /\ ~recs[job[t].rec].done
  /\ job[t].start = recs[job[t].rec].start /\ job[t].size = recs[job[t].rec].size
  /\ job[t].start <= job[t].pos /\ job[t].left <= job[t].size
  /\ \A u \in Threads : Active(u) /\ job[u].rec = job[t].rec => u = t
  /\ Behind(job[t])
  /\ pc[t] = "emit" => Between(job[t])
  /\ pc[t] = "payload" => Within(job[t])

JobInv == \A t \in Threads : Active(t) => Writing(t)

\* scratch holds the beginning of a record, up to where the reader is.
ScratchInv ==
  scratch # <<>> =>
    /\ file[scratch[1]].type = "first"
    /\ \A f \in 1..Len(scratch) - 1 :
         file[scratch[f + 1]].from = file[scratch[f]].from + file[scratch[f]].len
    /\ \A f \in 1..Len(scratch) :
         file[scratch[f]].payload /\ file[scratch[f]].rec = file[scratch[1]].rec
    /\ FragmentEnd(scratch[Len(scratch)]) = rpos
    /\ file[scratch[Len(scratch)]].type \in {"first", "middle"}

OutInv ==
  \A k \in DOMAIN out :
    /\ out[k] # <<>> /\ out[k][1] < rpos
    /\ scratch # <<>> => out[k][1] < scratch[1]

\* A completed record that begins before the reader's position.
PassedInv ==
  \A o \in DOMAIN file : o < rpos /\ recs[file[o].rec].done =>
    \/ file[o].rec \in ReadBack
    \/ BehindGap(file[o].rec)
    \/ scratch # <<>> /\ file[scratch[1]].rec = file[o].rec

ReadInv ==
  /\ phase = "write" => rpos = 0 /\ scratch = <<>> /\ out = <<>>
  /\ \A o \in DOMAIN file : o < rpos => FragmentEnd(o) <= rpos
  /\ ScratchInv
  /\ OutInv /\ OnlyWholeRecords
  /\ PassedInv /\ LostOnlyBehindGap

LogInv == TypeOK /\ ResInv /\ FragInv /\ DoneInv /\ JobInv /\ ReadInv

(***************************************************************************)
(* Steps of the writers.                                                   *)
(***************************************************************************)

LEMMA InitInv == Init => LogInv
  <1> SUFFICES ASSUME Init PROVE LogInv
    OBVIOUS
  <1>1. /\ DOMAIN recs = {} /\ DOMAIN file = {} /\ DOMAIN out = {} /\ offset = 0
        /\ recs = <<>> /\ scratch = <<>> /\ out = <<>> /\ phase = "write" /\ rpos = 0
    BY DEF Init
  <1>2. TypeOK
    BY <1>1 DEF Init, TypeOK, NoJob, Job
  <1>3. ResInv
    BY <1>1 DEF ResInv
  <1>4. FragInv /\ DoneInv
    BY Zenon, <1>1 DEF FragInv, DoneInv
  <1>5. JobInv
    BY DEF Init, JobInv, Active
  <1>6. ReadInv
    BY Zenon, <1>1 DEF ReadInv, ScratchInv, OutInv, OnlyWholeRecords, PassedInv,
       LostOnlyBehindGap
  <1> QED BY Zenon, <1>2, <1>3, <1>4, <1>5, <1>6 DEF LogInv

\* The reader has not begun while the writers run.
LEMMA NotReading ==
  ASSUME LogInv, phase = "write", UNCHANGED reader, DOMAIN file' \subseteq Nat
  PROVE  ReadInv'
  <1>1. rpos = 0 /\ scratch = <<>> /\ out = <<>>
    BY Zenon DEF LogInv, ReadInv
  <1>2. rpos' = 0 /\ scratch' = <<>> /\ out' = <<>> /\ phase' = "write"
    BY Zenon, <1>1 DEF reader
  <1>3. DOMAIN out' = {} /\ phase' # "eof"
    BY <1>2
  <1>4. \A o \in DOMAIN file' : ~(o < rpos')
    BY <1>2
  <1> QED
    BY Zenon, <1>2, <1>3, <1>4 DEF ReadInv, ScratchInv, OutInv, OnlyWholeRecords, PassedInv,
       LostOnlyBehindGap

\* A step that leaves the file and the reservations as they are.
LEMMA SameFile ==
  ASSUME LogInv, UNCHANGED <<offset, recs, file>>,
         \A t \in Threads : Active(t)' => Active(t) /\ pc'[t] = pc[t] /\ job'[t] = job[t]
  PROVE  ResInv' /\ FragInv' /\ DoneInv' /\ JobInv'
  <1>e. /\ \A o : FragmentEnd(o)' = FragmentEnd(o)
        /\ \A i : Fragments(i)' = Fragments(i)
        /\ \A i, b : Written(i, b)' = Written(i, b) /\ SpareHeader(i, b)' = SpareHeader(i, b)
    BY Zenon DEF FragmentEnd, Fragments, Written, SpareHeader
  <1>1. ResInv'
    BY Zenon DEF LogInv, ResInv
  <1>2. FragInv'
    <2>1. \A o \in DOMAIN file : Linked(o) => Linked(o)'
      BY Zenon, <1>e DEF Linked
    <2> QED BY Zenon, <1>e, <2>1 DEF LogInv, FragInv
  <1>3. DoneInv'
    BY Zenon, <1>e DEF LogInv, DoneInv
  <1>4. ASSUME NEW t \in Threads, Active(t)' PROVE Writing(t)'
    <2>1. Active(t) /\ pc'[t] = pc[t] /\ job'[t] = job[t] /\ Writing(t)
      BY Zenon, <1>4 DEF LogInv, JobInv
    <2>2. Behind(job[t])'
      BY ZenonT(30), <1>e, <2>1 DEF Writing, Behind
    <2>4. pc[t] = "emit" => Between(job[t])'
      BY Zenon, <1>e, <2>1 DEF Writing, Between
    <2>5. pc[t] = "payload" => Within(job[t])'
      BY Zenon, <1>e, <2>1 DEF Writing, Within, EndsAt
    <2>3. \A u \in Threads : Active(u)' /\ job'[u].rec = job'[t].rec => u = t
      BY Zenon, <2>1 DEF Writing
    <2> QED BY Zenon, <2>1, <2>2, <2>3, <2>4, <2>5 DEF Writing
  <1> QED BY Zenon, <1>1, <1>2, <1>3, <1>4 DEF JobInv

LEMMA SeqFacts ==
  ASSUME NEW S, NEW s \in Seq(S)
  PROVE  /\ Len(s) \in Nat /\ DOMAIN s = 1..Len(s)
         /\ \A i \in DOMAIN s : i \in Nat /\ s[i] \in S
         /\ s # <<>> => Len(s) \in DOMAIN s /\ 1 \in DOMAIN s
  OBVIOUS

\* One element more.
LEMMA AppendFacts ==
  ASSUME NEW S, NEW s \in Seq(S), NEW x \in S
  PROVE  /\ Append(s, x) \in Seq(S)
         /\ Len(Append(s, x)) = Len(s) + 1 /\ Append(s, x) # <<>>
         /\ DOMAIN Append(s, x) = DOMAIN s \cup {Len(s) + 1}
         /\ Len(s) + 1 \notin DOMAIN s
         /\ \A i \in DOMAIN s : Append(s, x)[i] = s[i]
         /\ Append(s, x)[Len(s) + 1] = x
  OBVIOUS

LEMMA JobChange ==
  ASSUME NEW j \in Job, NEW a \in Nat, NEW b \in Nat, NEW c \in Nat
  PROVE  /\ [j EXCEPT !.rec = a, !.pos = b, !.left = c] \in Job
         /\ [j EXCEPT !.size = a, !.start = b] \in Job
         /\ [j EXCEPT !.pos = a, !.left = b] \in Job
         /\ [j EXCEPT !.pos = a] \in Job /\ [j EXCEPT !.start = a] \in Job
  BY Zenon DEF Job

\* Types of what a thread and a fragment hold.
LEMMA Types ==
  ASSUME TypeOK
  PROVE  /\ \A i \in DOMAIN recs : /\ i \in Nat /\ recs[i].start \in Nat /\ recs[i].end \in Nat
                                   /\ recs[i].size \in Nat /\ recs[i].done \in BOOLEAN
         /\ \A o \in DOMAIN file :
              /\ o \in Nat /\ file[o].rec \in Nat /\ file[o].from \in Nat /\ file[o].len \in Nat
              /\ file[o].payload \in BOOLEAN
              /\ file[o].type \in {"full", "first", "middle", "last"}
              /\ FragmentEnd(o) \in Nat /\ o < FragmentEnd(o)
              /\ FragmentEnd(o) = o + kHeaderSize + file[o].len
         /\ \A t \in Threads : /\ job[t].start \in Nat /\ job[t].pos \in Nat /\ job[t].left \in Nat
                               /\ job[t].size \in Nat /\ job[t].rec \in Nat
         /\ offset \in Nat /\ rpos \in Nat
  <1>1. kHeaderSize \in Nat /\ kHeaderSize > 0
    BY FormatAssumption
  <1>2. \A i \in DOMAIN recs : /\ i \in Nat /\ recs[i].start \in Nat /\ recs[i].end \in Nat
                               /\ recs[i].size \in Nat /\ recs[i].done \in BOOLEAN
    <2>1. recs \in Seq(Reservation)
      BY Zenon DEF TypeOK
    <2>2. \A i \in DOMAIN recs : /\ i \in Nat
                                 /\ recs[i] \in Reservation
      BY Zenon, <2>1, SeqFacts
    <2> QED BY <2>2 DEF Reservation
  <1>3. \A o \in DOMAIN file :
          /\ o \in Nat /\ file[o].rec \in Nat /\ file[o].from \in Nat /\ file[o].len \in Nat
          /\ file[o].payload \in BOOLEAN /\ file[o].type \in {"full", "first", "middle", "last"}
    <2>1. \A o \in DOMAIN file : o \in Nat /\ file[o] \in PhysicalRecord
      BY Zenon DEF TypeOK
    <2> QED BY <2>1 DEF PhysicalRecord
  <1>4. \A o \in DOMAIN file : /\ FragmentEnd(o) \in Nat /\ o < FragmentEnd(o)
                               /\ FragmentEnd(o) = o + kHeaderSize + file[o].len
    BY <1>1, <1>3 DEF FragmentEnd
  <1>5. \A t \in Threads : /\ job[t].start \in Nat /\ job[t].pos \in Nat /\ job[t].left \in Nat
                           /\ job[t].size \in Nat /\ job[t].rec \in Nat
    <2>1. \A t \in Threads : job[t] \in Job
      BY Zenon DEF TypeOK
    <2> QED BY <2>1 DEF Job
  <1> QED BY Zenon, <1>2, <1>3, <1>4, <1>5 DEF TypeOK

\* A thread that reserved has its own part of the file: what lies in its
\* reservation is its own.
LEMMA OwnReservation ==
  ASSUME LogInv, NEW i \in DOMAIN recs, NEW k \in DOMAIN recs, NEW b \in Nat,
         recs[i].start <= b, b < recs[i].end, recs[k].start <= b, b < recs[k].end
  PROVE  i = k
  <1>1. /\ \A n \in DOMAIN recs : recs[n].start \in Nat /\ recs[n].end \in Nat
        /\ \A m, n \in DOMAIN recs : m < n => recs[m].end <= recs[n].start
        /\ \A n \in DOMAIN recs : n \in Nat
    BY Zenon, Types DEF LogInv, ResInv
  <1>2. i \in Nat /\ k \in Nat /\ ~(i < k) /\ ~(k < i)
    BY <1>1
  <1> QED BY <1>2

\* Where a thread is about to write lies inside its reservation.
LEMMA InReservation ==
  ASSUME LogInv, NEW t \in Threads, pc[t] = "emit"
  PROVE  /\ job[t].rec \in DOMAIN recs
         /\ recs[job[t].rec].start <= job[t].pos /\ job[t].pos < recs[job[t].rec].end
  <1>b. kBlockSize \in Nat /\ kHeaderSize \in 1..kBlockSize - 1
    BY FormatAssumption
  <1>1. Writing(t) /\ Between(job[t])
    BY Zenon DEF LogInv, JobInv, Active, Writing
  <1>2. job[t].pos \in Nat /\ job[t].left \in Nat
    BY Zenon, Types DEF LogInv
  <1>3. CASE job[t].pos = job[t].start
    <2>1. EndOffset(job[t].pos, job[t].left) >= job[t].pos + kHeaderSize
          /\ EndOffset(job[t].pos, job[t].left) \in Nat
      BY Zenon, <1>2, Reserved
    <2>2. recs[job[t].rec].end = EndOffset(job[t].pos, job[t].left)
      BY Zenon, <1>1, <1>3 DEF Between
    <2>3. job[t].pos < recs[job[t].rec].end
      BY <1>b, <1>2, <2>1, <2>2
    <2> QED BY Zenon, <1>1, <2>3 DEF Writing
  <1>4. CASE job[t].pos # job[t].start
    <2>1. ComputeRecordSize(job[t].pos, job[t].left) >= job[t].pos + kHeaderSize
          /\ ComputeRecordSize(job[t].pos, job[t].left) \in Nat
      BY Zenon, <1>2, RecordSize
    <2>2. recs[job[t].rec].end = ComputeRecordSize(job[t].pos, job[t].left)
      BY Zenon, <1>1, <1>4 DEF Between
    <2>3. job[t].pos < recs[job[t].rec].end
      BY <1>b, <1>2, <2>1, <2>2
    <2> QED BY Zenon, <1>1, <2>3 DEF Writing
  <1> QED BY Zenon, <1>3, <1>4

\* A thread that is writing and whose record and fragments a step leaves alone.
LEMMA OtherThread ==
  ASSUME LogInv, NEW u \in Threads, Active(u), pc'[u] = pc[u], job'[u] = job[u],
         NEW i \in DOMAIN recs', i = job[u].rec, recs'[i] = recs[i],
         Fragments(i)' = Fragments(i),
         \A o \in Fragments(i) : FragmentEnd(o)' = FragmentEnd(o) /\ file'[o] = file[o],
         DOMAIN file \subseteq DOMAIN file',
         pc[u] = "emit" => job[u].pos \notin DOMAIN file',
         \A v \in Threads : Active(v)' /\ job'[v].rec = job[u].rec => v = u
  PROVE  Writing(u)'
  <1>1. Writing(u)
    BY Zenon DEF LogInv, JobInv
  <1>2. \A b : Written(i, b) => Written(i, b)'
    BY ZenonT(30) DEF Written
  <1>3. Behind(job[u])'
    <2>1. Behind(job[u])
      BY Zenon, <1>1 DEF Writing
    <2>2. \A b \in Nat : job[u].start <= b /\ b < job[u].pos => Written(i, b)'
      BY Zenon, <1>2, <2>1 DEF Behind
    <2>3. ASSUME NEW o \in Fragments(i), o # job[u].pos
          PROVE
            /\ file'[o].payload /\ file'[o].type \in {"first", "middle"}
            /\ FragmentEnd(o)' <= job[u].pos
            /\ FragmentEnd(o)' = job[u].pos =>
                 file'[o].from + file'[o].len = job[u].size - job[u].left
            /\ FragmentEnd(o)' # job[u].pos => FragmentEnd(o)' \in DOMAIN file'
      <3>1. /\ file[o].payload /\ file[o].type \in {"first", "middle"}
            /\ FragmentEnd(o) <= job[u].pos
            /\ FragmentEnd(o) = job[u].pos =>
                 file[o].from + file[o].len = job[u].size - job[u].left
            /\ FragmentEnd(o) # job[u].pos => FragmentEnd(o) \in DOMAIN file
        BY Zenon, <2>1, <2>3 DEF Behind
      <3>2. FragmentEnd(o)' = FragmentEnd(o) /\ file'[o] = file[o]
        BY Zenon
      <3> QED BY Zenon, <3>1, <3>2
    <2> QED BY ZenonT(30), <2>2, <2>3 DEF Behind
  <1>4. pc[u] = "emit" => Between(job[u])'
    BY ZenonT(30), <1>1 DEF Writing, Between
  <1>5. pc[u] = "payload" => Within(job[u])'
    BY ZenonT(30), <1>1 DEF Writing, Within, EndsAt
  <1> QED BY Zenon, <1>1, <1>3, <1>4, <1>5 DEF Writing

LEMMA ReserveInv ==
  ASSUME LogInv, NEW t \in Threads, Reserve(t)
  PROVE  LogInv'
  <1> DEFINE j == job[t]
             end == EndOffset(j.start, j.size)
             r == [start |-> j.start, end |-> end, size |-> j.size, done |-> FALSE]
  <1>b. kHeaderSize \in Nat /\ kHeaderSize > 0
    BY FormatAssumption
  <1>t. TypeOK
    BY Zenon DEF LogInv
  <1>0. PICK n : n = Len(recs) + 1
    OBVIOUS
  <1>1. /\ phase = "write" /\ pc[t] = "loaded" /\ j.start = offset
        /\ offset' = end /\ recs' = Append(recs, r)
        /\ job' = [job EXCEPT ![t] = [j EXCEPT !.rec = n, !.pos = j.start, !.left = j.size]]
        /\ pc' = [pc EXCEPT ![t] = "emit"]
        /\ UNCHANGED <<file, failures, reader>>
    BY Zenon, <1>0 DEF Reserve, StartRecord
  <1>2. j.start \in Nat /\ j.size \in Nat /\ offset \in Nat
    BY Zenon, <1>t, Types
  <1>3. end \in Nat /\ end >= j.start + kHeaderSize
    BY Zenon, <1>2, Reserved
  <1>4. /\ recs \in Seq(Reservation)
        /\ r \in Reservation
    <2>1. r \in Reservation
      <3> HIDE DEF end, j
      <3> QED BY <1>2, <1>3 DEF Reservation
    <2> QED BY Zenon, <1>t, <2>1 DEF TypeOK
  <1> HIDE DEF r
  <1>5. /\ recs' \in Seq(Reservation)
        /\ Len(recs') = n /\ recs' # <<>> /\ DOMAIN recs' = DOMAIN recs \cup {n}
        /\ n \notin DOMAIN recs /\ recs'[n] = r
        /\ \A i \in DOMAIN recs : recs'[i] = recs[i]
    <2>1. /\ Append(recs, r) \in Seq(Reservation)
          /\ Len(Append(recs, r)) = Len(recs) + 1 /\ Append(recs, r) # <<>>
          /\ DOMAIN Append(recs, r) = DOMAIN recs \cup {Len(recs) + 1}
          /\ Len(recs) + 1 \notin DOMAIN recs
          /\ \A i \in DOMAIN recs : Append(recs, r)[i] = recs[i]
          /\ Append(recs, r)[Len(recs) + 1] = r
      BY <1>4
    <2>2. recs' = Append(recs, r) /\ n = Len(recs) + 1
      BY Zenon, <1>0, <1>1
    <2> QED BY Zenon, <2>1, <2>2
  <1>6. r.start = offset /\ r.end = end /\ r.size = j.size /\ r.done = FALSE
    BY Zenon, <1>1 DEF r
  <1>7. /\ \A u \in Threads : u # t => job'[u] = job[u] /\ pc'[u] = pc[u]
        /\ pc'[t] = "emit" /\ job'[t].rec = n /\ job'[t].pos = offset /\ job'[t].start = offset
        /\ job'[t].left = j.size /\ job'[t].size = j.size
    BY <1>1, <1>t DEF TypeOK
  <1>8. TypeOK'
    <2>1. job' \in [Threads -> Job]
      <3>1. job \in [Threads -> Job] /\ n \in Nat
        BY <1>0, <1>4, <1>t, SeqFacts DEF TypeOK
      <3>2. [j EXCEPT !.rec = n, !.pos = j.start, !.left = j.size] \in Job
        BY Zenon, <1>2, <3>1, JobChange
      <3> QED BY Zenon, <1>1, <3>1, <3>2
    <2>2. pc' \in [Threads -> {"idle", "loaded", "emit", "payload"}]
      BY <1>1, <1>t DEF TypeOK
    <2> QED BY Zenon, <1>1, <1>3, <1>5, <1>t, <2>1, <2>2 DEF TypeOK, reader
  <1>9. Len(recs) \in Nat /\ DOMAIN recs = 1..Len(recs) /\ n = Len(recs) + 1
    BY Zenon, <1>0, <1>4, SeqFacts
  <1>10. /\ \A i \in DOMAIN recs : /\ recs[i].end <= offset /\ i < n /\ i \in Nat
                                   /\ recs[i].end \in Nat
         /\ offset = IF n = 1 THEN 0 ELSE recs[n - 1].end
    <2>1. offset = IF recs = <<>> THEN 0 ELSE recs[Len(recs)].end
      BY Zenon DEF LogInv, ResInv
    <2>2. (recs = <<>> <=> n = 1) /\ n - 1 = Len(recs)
      BY <1>4, <1>9
    <2>3. \A i \in DOMAIN recs : i < n /\ i \in Nat
      BY <1>9
    <2> QED BY Zenon, <1>t, <2>1, <2>2, <2>3, Types DEF LogInv, ResInv
  <1>11. ResInv'
    <2>1. \A i \in DOMAIN recs : n # 1 /\ ~(n < i) /\ (i # 1 => i - 1 \in DOMAIN recs)
                                 /\ recs[i].end <= end
      <3> HIDE DEF end
      <3> QED BY <1>b, <1>1, <1>2, <1>3, <1>9, <1>10
    <2>2. n # 1 => n - 1 \in DOMAIN recs
      BY <1>9
    <2>3. offset <= end /\ ~(n < n)
      <3> HIDE DEF end
      <3> QED BY <1>b, <1>1, <1>2, <1>3, <1>9
    <2>4. offset' = IF recs' = <<>> THEN 0 ELSE recs'[Len(recs')].end
      BY Zenon, <1>1, <1>5, <1>6
    <2>5. ASSUME NEW i \in DOMAIN recs
          PROVE  /\ recs'[i].start = IF i = 1 THEN 0 ELSE recs'[i - 1].end
                 /\ recs'[i].start <= recs'[i].end /\ recs'[i].end <= offset'
                 /\ \A k \in DOMAIN recs' : i < k => recs'[i].end <= recs'[k].start
      <3>1. \A k \in DOMAIN recs : i < k => recs[i].end <= recs[k].start
        BY Zenon DEF LogInv, ResInv
      <3>2. /\ recs[i].start = IF i = 1 THEN 0 ELSE recs[i - 1].end
            /\ recs[i].start <= recs[i].end
        BY Zenon DEF LogInv, ResInv
      <3>3. \A k \in DOMAIN recs' : i < k => recs'[i].end <= recs'[k].start
        BY Zenon, <1>5, <1>6, <1>10, <3>1
      <3> QED BY Zenon, <1>1, <1>5, <2>1, <3>2, <3>3
    <2>6. /\ recs'[n].start = IF n = 1 THEN 0 ELSE recs'[n - 1].end
          /\ recs'[n].start <= recs'[n].end /\ recs'[n].end <= offset'
          /\ \A k \in DOMAIN recs' : n < k => recs'[n].end <= recs'[k].start
      <3>1. end <= end
        <4> HIDE DEF end
        <4> QED BY <1>3
      <3> QED BY Zenon, <1>1, <1>5, <1>6, <1>10, <2>1, <2>2, <2>3, <3>1
    <2>7. ASSUME NEW b \in Nat, b < end
          PROVE  \E i \in DOMAIN recs' : recs'[i].start <= b /\ b < recs'[i].end
      <3>1. CASE b < offset
        <4>1. PICK i \in DOMAIN recs : recs[i].start <= b /\ b < recs[i].end
          BY Zenon, <3>1 DEF LogInv, ResInv
        <4> QED BY Zenon, <1>5, <4>1
      <3>2. CASE offset <= b
        BY Zenon, <1>5, <1>6, <2>7, <3>2
      <3> QED BY <1>2, <3>1, <3>2
    <2>8. \A i \in DOMAIN recs' : i \in DOMAIN recs \/ i = n
      BY Zenon, <1>5
    <2> QED BY ZenonT(30), <1>1, <2>4, <2>5, <2>6, <2>7, <2>8 DEF ResInv
  <1>12. /\ \A o : FragmentEnd(o)' = FragmentEnd(o)
         /\ \A i : Fragments(i)' = Fragments(i)
    BY Zenon, <1>1 DEF FragmentEnd, Fragments
  <1>13. FragInv'
    <2>1. \A o \in DOMAIN file : file[o].rec \in DOMAIN recs
      BY Zenon DEF LogInv, FragInv
    <2>2. ASSUME NEW o \in DOMAIN file PROVE Linked(o)'
      <3>1. Linked(o)
        BY Zenon DEF LogInv, FragInv
      <3>2. recs'[file[o].rec] = recs[file[o].rec] /\ file' = file
        BY Zenon, <1>1, <1>5, <2>1
      <3> QED BY Zenon, <1>12, <3>1, <3>2 DEF Linked
    <2> QED BY Zenon, <1>1, <1>5, <1>12, <2>1, <2>2 DEF LogInv, FragInv
  <1>14. DoneInv'
    <2>1. \A i, b : Written(i, b)' = Written(i, b)
      BY Zenon, <1>12 DEF Written
    <2>2. \A i \in DOMAIN recs : \A b : SpareHeader(i, b)' = SpareHeader(i, b)
      BY Zenon, <1>5 DEF SpareHeader
    <2> QED BY ZenonT(30), <1>1, <1>5, <1>6, <1>12, <2>1, <2>2 DEF LogInv, DoneInv
  <1>15. JobInv'
    <2>1. \A u \in Threads : u # t /\ Active(u)' => Active(u) /\ Writing(u)
      BY Zenon, <1>7 DEF Active, LogInv, JobInv
    <2>2. Writing(t)'
      <3>1. Fragments(n)' = {} /\ offset \notin DOMAIN file
        <4>1. \A o \in DOMAIN file : /\ file[o].rec \in DOMAIN recs
                                     /\ FragmentEnd(o) <= recs[file[o].rec].end
          BY Zenon DEF LogInv, FragInv
        <4>2. \A o \in DOMAIN file : o < FragmentEnd(o) /\ o \in Nat /\ FragmentEnd(o) \in Nat
          BY Zenon, <1>t, Types
        <4>3. ASSUME offset \in DOMAIN file PROVE FALSE
          BY <1>2, <1>10, <4>1, <4>2, <4>3
        <4>4. Fragments(n) = {}
          BY Zenon, <1>5, <4>1 DEF Fragments
        <4> QED BY Zenon, <1>12, <4>3, <4>4
      <3>2. \A b \in Nat : ~(offset <= b /\ b < offset)
        BY <1>2
      <3>3. Behind(job[t])'
        BY Zenon, <1>7, <3>1, <3>2 DEF Behind
      <3>4. Between(job[t])'
        BY ZenonT(30), <1>1, <1>5, <1>6, <1>7, <3>1 DEF Between
      <3>5. offset <= offset /\ j.size <= j.size /\ "emit" # "payload"
        BY <1>2
      <3>6. \A u \in Threads : Active(u)' /\ job'[u].rec = job'[t].rec => u = t
        <4>1. ASSUME NEW u \in Threads, Active(u)', u # t PROVE job'[u].rec # n
          <5>1. job[u].rec \in DOMAIN recs /\ job'[u] = job[u]
            BY Zenon, <1>7, <2>1, <4>1 DEF Writing
          <5> QED BY Zenon, <1>5, <5>1
        <4> QED BY Zenon, <1>7, <4>1
      <3> QED BY Zenon, <1>5, <1>6, <1>7, <3>3, <3>4, <3>5, <3>6 DEF Writing
    <2>3. ASSUME NEW u \in Threads, u # t, Active(u)' PROVE Writing(u)'
      <3>1. Active(u) /\ Writing(u) /\ pc'[u] = pc[u] /\ job'[u] = job[u]
        BY Zenon, <1>7, <2>1, <2>3
      <3>2. job[u].rec \in DOMAIN recs' /\ recs'[job[u].rec] = recs[job[u].rec]
            /\ job[u].rec # n
        BY Zenon, <1>5, <3>1 DEF Writing
      <3>3. \A v \in Threads : Active(v)' /\ job'[v].rec = job[u].rec => v = u
        BY Zenon, <1>7, <2>1, <3>1, <3>2 DEF Writing
      <3>4. pc[u] = "emit" => job[u].pos \notin DOMAIN file'
        BY Zenon, <1>1, <3>1 DEF Writing, Between
      <3> QED BY Zenon, <1>1, <1>12, <3>1, <3>2, <3>3, <3>4, OtherThread
    <2> QED BY Zenon, <2>2, <2>3 DEF JobInv
  <1>16. ReadInv'
    BY Zenon, <1>1, <1>8, NotReading DEF TypeOK
  <1> QED BY Zenon, <1>8, <1>11, <1>13, <1>14, <1>15, <1>16 DEF LogInv

\* The header of the next fragment, at `at' and for len bytes, goes where no
\* fragment is.
LEMMA HeaderPlace ==
  ASSUME LogInv, NEW t \in Threads, pc[t] = "emit",
         NEW i, i = job[t].rec, NEW at, at = SkipTrailer(job[t].pos),
         NEW len, len = FragmentLength(at, job[t].left)
  PROVE  /\ at \in Nat /\ job[t].pos <= at /\ recs[i].start <= at
         /\ len \in Nat /\ len <= job[t].left /\ kHeaderSize + len <= LeftInBlock(at)
         /\ at + kHeaderSize + len <= recs[i].end
         /\ len = job[t].left => EndsAt(i, at + kHeaderSize + len)
         /\ len # job[t].left =>
              /\ LeftInBlock(at + kHeaderSize + len) = kBlockSize
              /\ at + kHeaderSize + len < recs[i].end
              /\ recs[i].end = ComputeRecordSize(at + kHeaderSize + len, job[t].left - len)
         /\ job[t].pos # job[t].start => at = job[t].pos
         /\ \A o \in Fragments(i) : FragmentEnd(o) <= job[t].pos
         /\ \A o \in DOMAIN file : /\ o # at
                                   /\ o < at => FragmentEnd(o) <= at
                                   /\ at < o => at + kHeaderSize + len <= o
  <1> DEFINE j == job[t]
  <1>b. kBlockSize \in Nat /\ kHeaderSize \in 1..kBlockSize - 1
    BY FormatAssumption
  <1>t. TypeOK
    BY Zenon DEF LogInv
  <1>1. Writing(t) /\ Between(j) /\ Behind(j)
    BY Zenon DEF LogInv, JobInv, Active, Writing
  <1>2. /\ j.pos \in Nat /\ j.left \in Nat /\ j.start \in Nat
        /\ i \in DOMAIN recs /\ recs[i].start = j.start /\ j.start <= j.pos
        /\ recs[i].end \in Nat
    BY Zenon, <1>1, <1>t, Types DEF Writing
  <1>3. /\ at \in Nat /\ j.pos <= at /\ LeftInBlock(at) >= kHeaderSize
        /\ LeftInBlock(j.pos) >= kHeaderSize => at = j.pos
    BY Zenon, <1>2, Skip
  <1>4. len \in Nat /\ len <= j.left /\ kHeaderSize + len <= LeftInBlock(at)
    BY Zenon, <1>2, <1>3, FragmentFits
  <1>5. IF j.pos = j.start THEN recs[i].end = EndOffset(j.pos, j.left)
        ELSE LeftInBlock(j.pos) = kBlockSize /\ recs[i].end = ComputeRecordSize(j.pos, j.left)
    BY Zenon, <1>1 DEF Between
  <1>6. /\ at + kHeaderSize + len <= recs[i].end
        /\ len = j.left => EndsAt(i, at + kHeaderSize + len)
        /\ len # j.left =>
             /\ LeftInBlock(at + kHeaderSize + len) = kBlockSize
             /\ at + kHeaderSize + len + kHeaderSize <= recs[i].end
             /\ recs[i].end = ComputeRecordSize(at + kHeaderSize + len, j.left - len)
    <2>1. \A e : e = at + kHeaderSize + len =>
            /\ e <= recs[i].end
            /\ len = j.left => EndsAt(i, e)
            /\ len # j.left =>
                 /\ LeftInBlock(e) = kBlockSize /\ e + kHeaderSize <= recs[i].end
                 /\ recs[i].end = ComputeRecordSize(e, j.left - len)
      <3>1. \/ recs[i].end = EndOffset(j.pos, j.left)
            \/ LeftInBlock(j.pos) = kBlockSize /\ recs[i].end = ComputeRecordSize(j.pos, j.left)
        BY Zenon, <1>5
      <3>2. j.pos \in Nat /\ j.left \in Nat /\ recs[i].end \in Nat
        BY Zenon, <1>2
      <3> HIDE DEF j
      <3>3. at = SkipTrailer(j.pos) /\ len = FragmentLength(at, j.left)
        BY Zenon DEF j
      <3> QED BY <3>1, <3>2, <3>3, NextFragment DEF EndsAt
    <2> QED BY Zenon, <2>1
  <1>7. j.pos # j.start => at = j.pos
    <2>1. kBlockSize >= kHeaderSize
      BY <1>b
    <2> QED BY Zenon, <1>3, <1>5, <2>1
  <1>8. \A o \in Fragments(i) : FragmentEnd(o) <= j.pos
    BY Zenon, <1>1 DEF Behind, Between, Fragments
  <1>9. ASSUME NEW o \in DOMAIN file
        PROVE  o # at /\ (o < at => FragmentEnd(o) <= at)
               /\ (at < o => at + kHeaderSize + len <= o)
    <2> DEFINE k == file[o].rec
    <2>1. /\ o \in Nat /\ o < FragmentEnd(o) /\ FragmentEnd(o) \in Nat
          /\ k \in DOMAIN recs /\ recs[k].start <= o /\ FragmentEnd(o) <= recs[k].end
      BY Zenon, <1>t, Types DEF LogInv, FragInv
    <2>2. recs[k].start \in Nat /\ recs[k].end \in Nat /\ k \in Nat /\ i \in Nat
      BY Zenon, <1>2, <1>t, <2>1, Types
    <2>3. (k < i => recs[k].end <= recs[i].start) /\ (i < k => recs[i].end <= recs[k].start)
      BY Zenon, <1>2, <2>1 DEF LogInv, ResInv
    <2>4. k = i => FragmentEnd(o) <= j.pos
      BY Zenon, <1>8 DEF Fragments
    <2> HIDE DEF k, j
    <2> QED BY <1>b, <1>2, <1>3, <1>4, <1>6, <2>1, <2>2, <2>3, <2>4
  <1>10. recs[i].start <= at /\ (len # j.left => at + kHeaderSize + len < recs[i].end)
    <2> HIDE DEF j
    <2> QED BY <1>b, <1>2, <1>3, <1>4, <1>6
  <1> QED BY Zenon, <1>3, <1>4, <1>6, <1>7, <1>8, <1>9, <1>10

LEMMA EmitHeaderInv ==
  ASSUME LogInv, NEW t \in Threads, EmitHeader(t)
  PROVE  LogInv'
  <1> DEFINE j == job[t]
  <1>b. kHeaderSize \in Nat /\ kHeaderSize > 0
    BY FormatAssumption
  <1>t. TypeOK
    BY Zenon DEF LogInv
  <1>0. PICK i, at, len : /\ i = j.rec /\ at = SkipTrailer(j.pos)
                          /\ len = FragmentLength(at, j.left)
    BY Zenon
  <1> DEFINE f == Fragment(j, len)
             e == at + kHeaderSize + len
  <1>1. /\ phase = "write" /\ pc[t] = "emit"
        /\ file' = [o \in DOMAIN file \cup {at} |-> IF o = at THEN f ELSE file[o]]
        /\ job' = [job EXCEPT ![t].pos = at]
        /\ pc' = [pc EXCEPT ![t] = "payload"]
        /\ UNCHANGED <<offset, recs, failures, reader>>
    BY Zenon, <1>0 DEF EmitHeader
  <1>2. /\ at \in Nat /\ j.pos <= at /\ recs[i].start <= at
        /\ len \in Nat /\ len <= j.left /\ kHeaderSize + len <= LeftInBlock(at)
        /\ e <= recs[i].end
        /\ len = j.left => EndsAt(i, e)
        /\ len # j.left => /\ LeftInBlock(e) = kBlockSize /\ e < recs[i].end
                           /\ recs[i].end = ComputeRecordSize(e, j.left - len)
        /\ j.pos # j.start => at = j.pos
        /\ \A o \in Fragments(i) : FragmentEnd(o) <= j.pos
        /\ \A o \in DOMAIN file : /\ o # at /\ (o < at => FragmentEnd(o) <= at)
                                  /\ (at < o => e <= o)
    BY <1>0, <1>1, HeaderPlace
  <1>3. Active(t) /\ Writing(t) /\ Between(j) /\ Behind(j) /\ i \in DOMAIN recs
        /\ recs[i].start = j.start /\ recs[i].size = j.size /\ j.start <= j.pos /\ j.left <= j.size
    BY Zenon, <1>0, <1>1 DEF LogInv, JobInv, Active, Writing
  <1>4. /\ j.pos \in Nat /\ j.left \in Nat /\ j.start \in Nat /\ j.size \in Nat
        /\ recs[i].end \in Nat
    BY Zenon, <1>3, <1>t, Types
  <1>5. /\ f.rec = i /\ f.from = j.size - j.left /\ f.len = len /\ f.payload = (len = 0)
        /\ f.type = RecordType(j.pos = j.start, len = j.left)
    BY Zenon, <1>0 DEF Fragment
  <1>6. /\ f.type \in {"full", "first"} <=> j.pos = j.start
        /\ f.type \in {"full", "last"} <=> len = j.left
        /\ f.type \in {"first", "middle"} <=> len # j.left
        /\ f.type \in {"middle", "last"} <=> j.pos # j.start
        /\ f.type \in {"full", "first", "middle", "last"}
    <2> HIDE DEF f, j
    <2> QED BY <1>5 DEF RecordType
  <1>7. f \in PhysicalRecord
    <2>1. j.size - j.left \in Nat /\ i \in Nat /\ (len = 0) \in BOOLEAN
      <3>1. i \in Nat
        BY Zenon, <1>3, <1>t, Types
      <3> HIDE DEF j
      <3> QED BY <1>3, <1>4, <3>1
    <2>2. f = [rec |-> i, from |-> j.size - j.left, len |-> len, payload |-> (len = 0),
               type |-> f.type]
      BY Zenon, <1>0, <1>5 DEF Fragment
    <2>3. f.type \in {"full", "first", "middle", "last"} /\ len \in Nat
      BY Zenon, <1>2, <1>6
    <2>4. [rec |-> i, from |-> j.size - j.left, len |-> len, payload |-> (len = 0),
           type |-> f.type] \in PhysicalRecord
      BY Zenon, <2>1, <2>3 DEF PhysicalRecord
    <2> QED BY Zenon, <2>2, <2>4
  <1> HIDE DEF f
  <1>8. /\ DOMAIN file' = DOMAIN file \cup {at} /\ file'[at] = f
        /\ \A o \in DOMAIN file : file'[o] = file[o]
    <2>1. \A o \in DOMAIN file : o # at
      BY Zenon, <1>2
    <2> QED BY <1>1, <2>1
  <1>9. /\ \A o \in DOMAIN file : FragmentEnd(o)' = FragmentEnd(o)
        /\ FragmentEnd(at)' = e
        /\ Fragments(i)' = Fragments(i) \cup {at}
        /\ \A k : k # i => Fragments(k)' = Fragments(k)
    <2>1. \A o \in DOMAIN file : FragmentEnd(o)' = FragmentEnd(o)
      BY Zenon, <1>8 DEF FragmentEnd
    <2>2. FragmentEnd(at)' = e
      BY Zenon, <1>5, <1>8 DEF FragmentEnd
    <2>3. Fragments(i)' = Fragments(i) \cup {at}
      BY Zenon, <1>5, <1>8 DEF Fragments
    <2>4. \A k : k # i => Fragments(k)' = Fragments(k)
      BY Zenon, <1>5, <1>8 DEF Fragments
    <2> QED BY Zenon, <2>1, <2>2, <2>3, <2>4
  <1>10. /\ \A u \in Threads : u # t => job'[u] = job[u] /\ pc'[u] = pc[u]
         /\ pc'[t] = "payload" /\ job'[t] = [j EXCEPT !.pos = at]
         /\ job' \in [Threads -> Job] /\ pc' \in [Threads -> {"idle", "loaded", "emit", "payload"}]
    <2>1. job \in [Threads -> Job] /\ pc \in [Threads -> {"idle", "loaded", "emit", "payload"}]
      BY Zenon, <1>t DEF TypeOK
    <2>2. [j EXCEPT !.pos = at] \in Job
      BY Zenon, <1>2, <2>1, JobChange
    <2>3. job' = [job EXCEPT ![t] = [j EXCEPT !.pos = at]]
      BY Zenon, <1>1
    <2> QED BY Zenon, <1>1, <2>1, <2>2, <2>3
  <1>11. /\ job'[t].rec = i /\ job'[t].pos = at /\ job'[t].start = j.start
         /\ job'[t].size = j.size /\ job'[t].left = j.left
    <2>1. j \in Job
      BY Zenon, <1>t DEF TypeOK
    <2> QED BY Zenon, <1>0, <1>10, <2>1 DEF Job
  <1>12. TypeOK'
    <2>1. scratch = <<>> /\ out = <<>>
      BY Zenon, <1>1 DEF LogInv, ReadInv
    <2>2. scratch' \in Seq(DOMAIN file') /\ out' \in Seq(Seq(DOMAIN file'))
      BY <1>1, <2>1 DEF reader
    <2>3. DOMAIN file' \subseteq Nat /\ file' \in [DOMAIN file' -> PhysicalRecord]
      BY Zenon, <1>1, <1>2, <1>7, <1>8, <1>t DEF TypeOK
    <2> QED BY Zenon, <1>1, <1>10, <1>t, <2>2, <2>3 DEF TypeOK, reader
  <1>13. ResInv'
    BY Zenon, <1>1 DEF LogInv, ResInv
  <1>14. \A k \in DOMAIN recs, b \in Nat :
           recs[k].start <= b /\ b < recs[k].end /\ recs[i].start <= b /\ b < recs[i].end => k = i
    BY Zenon, <1>3, OwnReservation
  <1>15. FragInv'
    <2>1. Linked(at)'
      <3>1. ASSUME j.pos = j.start
            PROVE  f.from = 0 /\ \A p \in Fragments(i)' : at <= p
        <4>1. Fragments(i) = {}
          <5>1. ASSUME NEW p \in Fragments(i) PROVE FALSE
            <6>1. p \in DOMAIN file /\ file[p].rec = i /\ FragmentEnd(p) <= j.pos
              BY Zenon, <1>2, <5>1 DEF Fragments
            <6>2. p \in Nat /\ FragmentEnd(p) \in Nat /\ p < FragmentEnd(p) /\ recs[i].start <= p
              BY Zenon, <1>t, <6>1, Types DEF LogInv, FragInv
            <6> HIDE DEF j
            <6> QED BY <1>3, <1>4, <3>1, <6>1, <6>2
          <5> QED BY Zenon, <5>1
        <4>2. at <= at /\ j.size - j.left = 0
          <5>1. j.left = j.size
            BY Zenon, <1>3, <3>1 DEF Between
          <5> HIDE DEF j
          <5> QED BY <1>2, <1>4, <5>1
        <4> QED BY Zenon, <1>5, <1>9, <4>1, <4>2
      <3>2. ASSUME len = j.left PROVE f.from + f.len = recs[i].size
        <4> HIDE DEF j
        <4> QED BY <1>3, <1>4, <1>5, <3>2
      <3>3. ASSUME len # j.left PROVE e \notin DOMAIN file'
        <4>1. e # at /\ e \in Nat
          BY <1>b, <1>2
        <4>2. ASSUME e \in DOMAIN file PROVE FALSE
          <5>1. /\ file[e].rec \in DOMAIN recs /\ recs[file[e].rec].start <= e
                /\ FragmentEnd(e) <= recs[file[e].rec].end
            BY Zenon, <4>2 DEF LogInv, FragInv
          <5>2. /\ e < FragmentEnd(e) /\ FragmentEnd(e) \in Nat
                /\ recs[file[e].rec].end \in Nat /\ recs[i].start \in Nat
            BY Zenon, <1>3, <1>t, <4>2, <5>1, Types
          <5>3. e < recs[file[e].rec].end /\ recs[i].start <= e /\ e < recs[i].end
            <6> HIDE DEF j
            <6> QED BY <1>b, <1>2, <3>3, <4>1, <5>1, <5>2
          <5>4. file[e].rec = i
            BY Zenon, <1>14, <4>1, <5>1, <5>3
          <5>5. FragmentEnd(e) <= j.pos
            BY Zenon, <1>2, <4>2, <5>4 DEF Fragments
          <5> HIDE DEF j
          <5> QED BY <1>b, <1>2, <1>4, <4>1, <5>2, <5>5
        <4> QED BY Zenon, <1>8, <4>1, <4>2
      <3>4. ASSUME j.pos # j.start PROVE \E p \in Fragments(i)' : FragmentEnd(p)' = at
        <4>1. PICK p \in Fragments(i) : FragmentEnd(p) = j.pos
          BY Zenon, <1>0, <1>3, <3>4 DEF Between
        <4>2. p \in DOMAIN file
          BY Zenon, <4>1 DEF Fragments
        <4> QED BY Zenon, <1>2, <1>9, <3>4, <4>1, <4>2
      <3> HIDE DEF e, j
      <3> QED BY Zenon, <1>1, <1>2, <1>5, <1>6, <1>8, <1>9, <3>1, <3>2, <3>3, <3>4 DEF Linked
    <2>2. ASSUME NEW o \in DOMAIN file PROVE Linked(o)'
      <3>0. PICK k : k = file[o].rec
        OBVIOUS
      <3>1. /\ Linked(o) /\ k \in DOMAIN recs /\ recs[k].start <= o
            /\ FragmentEnd(o) <= recs[k].end
        BY Zenon, <3>0 DEF LogInv, FragInv
      <3>2. /\ o \in Nat /\ FragmentEnd(o) \in Nat /\ o < FragmentEnd(o)
            /\ recs[k].start \in Nat /\ recs[k].end \in Nat
        BY Zenon, <1>t, <3>1, Types
      <3>3. k = i => o <= at
        <4>1. k = i => FragmentEnd(o) <= j.pos
          BY Zenon, <1>2, <3>0 DEF Fragments
        <4> HIDE DEF j
        <4> QED BY <1>2, <1>4, <3>2, <4>1
      <3>4. ASSUME file[o].type \in {"first", "middle"}, at = FragmentEnd(o)
            PROVE  /\ f.rec = k /\ f.from = file[o].from + file[o].len
                   /\ f.type \in {"middle", "last"}
        <4>1. FragmentEnd(o) < recs[k].end /\ recs[k].start <= FragmentEnd(o)
          <5>1. FragmentEnd(o) < recs[k].end
            BY Zenon, <3>0, <3>1, <3>4 DEF Linked
          <5> QED BY <3>1, <3>2, <5>1
        <4>2. recs[i].start <= at /\ at < recs[i].end
          BY <1>b, <1>2, <1>4
        <4>3. k = i
          BY Zenon, <1>2, <1>14, <3>1, <3>4, <4>1, <4>2
        <4>4. o \in Fragments(i) /\ FragmentEnd(o) <= j.pos
          BY Zenon, <1>2, <3>0, <4>3 DEF Fragments
        <4>5. at = j.pos /\ o < j.pos /\ j.pos # j.start
          <5> HIDE DEF j
          <5> QED BY <1>2, <1>3, <1>4, <3>1, <3>2, <3>4, <4>3, <4>4
        <4>6. o # j.pos /\ FragmentEnd(o) = j.pos
          <5> HIDE DEF j
          <5> QED BY <1>4, <3>2, <3>4, <4>5
        <4>7. file[o].from + file[o].len = j.size - j.left
          BY Zenon, <1>0, <1>3, <4>4, <4>6 DEF Behind
        <4> QED BY Zenon, <1>5, <1>6, <4>3, <4>5, <4>7
      <3>5. file'[o] = file[o] /\ FragmentEnd(o)' = FragmentEnd(o) /\ recs' = recs
        BY Zenon, <1>1, <1>8, <1>9
      <3>6. file[o].type \in {"full", "first"} =>
              file[o].from = 0 /\ \A p \in Fragments(k)' : o <= p
        BY Zenon, <1>9, <3>0, <3>1, <3>3 DEF Linked
      <3>7. file[o].type \in {"first", "middle"} =>
              \A p \in DOMAIN file' : p = FragmentEnd(o) =>
                 /\ file'[p].rec = k /\ file'[p].from = file[o].from + file[o].len
                 /\ file'[p].type \in {"middle", "last"}
        BY Zenon, <1>8, <3>0, <3>1, <3>4 DEF Linked
      <3>8. file[o].type \in {"middle", "last"} =>
              \E p \in Fragments(k)' : FragmentEnd(p)' = o
        <4>1. \A p \in Fragments(k) : p \in Fragments(k)' /\ FragmentEnd(p)' = FragmentEnd(p)
          BY Zenon, <1>9 DEF Fragments
        <4> QED BY Zenon, <3>0, <3>1, <4>1 DEF Linked
      <3>9. k = file'[o].rec
        BY Zenon, <3>0, <3>5
      <3> QED BY Zenon, <3>0, <3>1, <3>5, <3>6, <3>7, <3>8, <3>9 DEF Linked
    <2>3. ~f.payload => f.len > 0
      <3>1. len # 0 => len > 0
        BY <1>2
      <3> QED BY Zenon, <1>5, <3>1
    <2>4. ~(at < at)
      BY <1>2
    <2> HIDE DEF e, j
    <2>5. ASSUME NEW o \in DOMAIN file
          PROVE  /\ file[o].rec \in DOMAIN recs
                 /\ recs[file[o].rec].start <= o /\ FragmentEnd(o) <= recs[file[o].rec].end
                 /\ LeftInBlock(o) >= kHeaderSize + file[o].len
                 /\ \A p \in DOMAIN file' : o < p => FragmentEnd(o) <= p
                 /\ ~file[o].payload => file[o].len > 0
      BY Zenon, <1>2, <1>8 DEF LogInv, FragInv
    <2>6. /\ LeftInBlock(at) >= kHeaderSize + f.len
          /\ \A p \in DOMAIN file' : at < p => e <= p
      <3>1. LeftInBlock(at) \in Nat
        BY <1>2, Blocks, FormatAssumption
      <3>2. LeftInBlock(at) >= kHeaderSize + f.len
        BY <1>b, <1>2, <1>5, <3>1
      <3> QED BY Zenon, <1>2, <1>8, <2>4, <3>2
    <2>7. \A o \in DOMAIN file : file'[o] = file[o] /\ FragmentEnd(o)' = FragmentEnd(o)
      BY Zenon, <1>8, <1>9
    <2>8. /\ file'[at].rec = i /\ file'[at].len = f.len /\ file'[at].payload = f.payload
          /\ FragmentEnd(at)' = e /\ recs' = recs
      BY Zenon, <1>1, <1>5, <1>8, <1>9
    <2>9. \A o \in DOMAIN file' : o \in DOMAIN file \/ o = at
      BY Zenon, <1>8
    <2> QED
      BY ZenonT(30), <1>2, <1>3, <2>1, <2>2, <2>3, <2>5, <2>6, <2>7, <2>8, <2>9 DEF FragInv
  <1>16. ReadInv'
    BY Zenon, <1>1, <1>12, NotReading DEF TypeOK
  <1>17. \A k, b : Written(k, b) => Written(k, b)'
    <2>1. ASSUME NEW k, NEW o \in Fragments(k)
          PROVE  o \in Fragments(k)' /\ FragmentEnd(o)' = FragmentEnd(o)
      <3>1. o \in DOMAIN file
        BY Zenon, <2>1 DEF Fragments
      <3> QED BY Zenon, <1>9, <3>1
    <2> QED BY Zenon, <2>1 DEF Written
  <1>18. DoneInv'
    <2>1. ASSUME NEW k \in DOMAIN recs, recs[k].done
          PROVE  /\ Fragments(k)' # {}
                 /\ \A o \in Fragments(k)' :
                      /\ file'[o].payload
                      /\ file'[o].type \in {"first", "middle"} => FragmentEnd(o)' \in DOMAIN file'
                 /\ \A b \in Nat : recs[k].start <= b /\ b < recs[k].end =>
                      Written(k, b)' \/ SpareHeader(k, b)'
      <3>1. k # i
        BY Zenon, <1>0, <1>3, <2>1 DEF Writing
      <3>2. Fragments(k)' = Fragments(k) /\ Fragments(k) \subseteq DOMAIN file
        BY Zenon, <1>9, <3>1 DEF Fragments
      <3>3. \A o \in Fragments(k) : file'[o] = file[o] /\ FragmentEnd(o)' = FragmentEnd(o)
        BY Zenon, <1>8, <1>9, <3>2
      <3>4. \A b : SpareHeader(k, b)' = SpareHeader(k, b)
        BY Zenon, <1>1 DEF SpareHeader
      <3>5. /\ Fragments(k) # {}
            /\ \A o \in Fragments(k) :
                 /\ file[o].payload
                 /\ file[o].type \in {"first", "middle"} => FragmentEnd(o) \in DOMAIN file
            /\ \A b \in Nat : recs[k].start <= b /\ b < recs[k].end =>
                 Written(k, b) \/ SpareHeader(k, b)
        BY Zenon, <2>1 DEF LogInv, DoneInv
      <3> QED BY Zenon, <1>8, <1>17, <3>2, <3>3, <3>4, <3>5
    <2> QED BY Zenon, <1>1, <2>1 DEF DoneInv
  <1>19. ASSUME NEW u \in Threads, u # t, Active(u)'
         PROVE  Active(u) /\ pc'[u] = pc[u] /\ job'[u] = job[u] /\ job[u].rec # i
                /\ job[u].rec \in DOMAIN recs
    BY Zenon, <1>0, <1>3, <1>10, <1>19 DEF Active, LogInv, JobInv, Writing
  <1>20. Writing(t)'
    <2>1. \A b \in Nat : j.start <= b /\ b < at => Written(i, b)'
      <3>1. ASSUME NEW b \in Nat, j.start <= b, b < at PROVE Written(i, b)'
        <4>1. CASE b < j.pos
          BY Zenon, <1>0, <1>3, <1>17, <3>1, <4>1 DEF Behind
        <4>2. CASE j.pos <= b
          <5>1. LeftInBlock(b) < kHeaderSize
            BY Zenon, <1>0, <1>4, <3>1, <4>2, Skip
          <5> QED BY Zenon, <5>1 DEF Written
        <4>3. b < j.pos \/ j.pos <= b
          <5> HIDE DEF j
          <5> QED BY <1>4
        <4> QED BY Zenon, <4>1, <4>2, <4>3
      <3> QED BY Zenon, <3>1
    <2>2. ASSUME NEW o \in Fragments(i)', o # at
          PROVE  /\ file'[o].payload /\ file'[o].type \in {"first", "middle"}
                 /\ FragmentEnd(o)' <= at
                 /\ FragmentEnd(o)' = at => file'[o].from + file'[o].len = j.size - j.left
                 /\ FragmentEnd(o)' # at => FragmentEnd(o)' \in DOMAIN file'
      <3>1. o \in Fragments(i) /\ o \in DOMAIN file /\ file[o].rec = i
        BY Zenon, <1>9, <2>2 DEF Fragments
      <3>2. file'[o] = file[o] /\ FragmentEnd(o)' = FragmentEnd(o)
        BY Zenon, <1>8, <1>9, <3>1
      <3>3. o # j.pos
        BY Zenon, <1>3, <3>1 DEF Between
      <3>4. /\ file[o].payload /\ file[o].type \in {"first", "middle"}
            /\ FragmentEnd(o) <= j.pos
            /\ FragmentEnd(o) = j.pos => file[o].from + file[o].len = j.size - j.left
            /\ FragmentEnd(o) # j.pos => FragmentEnd(o) \in DOMAIN file
        BY Zenon, <1>0, <1>3, <3>1, <3>3 DEF Behind
      <3>5. /\ o \in Nat /\ FragmentEnd(o) \in Nat /\ o < FragmentEnd(o)
            /\ recs[i].start <= o
        BY Zenon, <1>t, <3>1, Types DEF LogInv, FragInv
      <3>6. at = j.pos
        <4>1. j.pos # j.start
          <5> HIDE DEF j
          <5> QED BY <1>3, <1>4, <3>4, <3>5
        <4> QED BY Zenon, <1>2, <4>1
      <3> QED BY Zenon, <1>8, <3>2, <3>4, <3>6
    <2>3. Behind(job[t])'
      BY Zenon, <1>11, <2>1, <2>2 DEF Behind
    <2>4. Within(job[t])'
      <3>1. at \in Fragments(i)'
        BY Zenon, <1>9
      <3>2. /\ file'[at].from = j.size - j.left /\ file'[at].len = len
            /\ file'[at].type = f.type /\ FragmentEnd(at)' = e /\ recs' = recs
        BY Zenon, <1>1, <1>5, <1>8, <1>9
      <3>3. len = j.left => f.type \in {"full", "last"} /\ EndsAt(i, FragmentEnd(at))'
        BY Zenon, <1>2, <1>6, <3>2 DEF EndsAt
      <3>4. len # j.left => /\ f.type \in {"first", "middle"}
                            /\ recs[i].end = ComputeRecordSize(e, j.left - len)
        BY Zenon, <1>2, <1>6
      <3> HIDE DEF e
      <3> QED BY Zenon, <1>2, <1>11, <3>1, <3>2, <3>3, <3>4 DEF Within
    <2>5. \A u \in Threads : Active(u)' /\ job'[u].rec = job'[t].rec => u = t
      BY Zenon, <1>11, <1>19
    <2>6. j.start <= at /\ "payload" # "emit"
      BY Zenon, <1>2, <1>3
    <2>7. ~recs[i].done
      BY Zenon, <1>0, <1>3 DEF Writing
    <2> QED BY Zenon, <1>1, <1>3, <1>10, <1>11, <2>3, <2>4, <2>5, <2>6, <2>7 DEF Writing
  <1>21. ASSUME NEW u \in Threads, u # t, Active(u)' PROVE Writing(u)'
    <2>0. PICK k : k = job[u].rec
      OBVIOUS
    <2>1. Active(u) /\ pc'[u] = pc[u] /\ job'[u] = job[u] /\ k # i /\ k \in DOMAIN recs
      BY Zenon, <1>19, <1>21, <2>0
    <2>2. Fragments(k)' = Fragments(k) /\ Fragments(k) \subseteq DOMAIN file
      BY Zenon, <1>9, <2>1 DEF Fragments
    <2>3. \A o \in Fragments(k) : FragmentEnd(o)' = FragmentEnd(o) /\ file'[o] = file[o]
      BY Zenon, <1>8, <1>9, <2>2
    <2>4. k \in DOMAIN recs' /\ recs'[k] = recs[k] /\ DOMAIN file \subseteq DOMAIN file'
      BY Zenon, <1>1, <1>8, <2>1
    <2>5. ASSUME pc[u] = "emit" PROVE job[u].pos \notin DOMAIN file'
      <3>1. job[u].pos \notin DOMAIN file
        BY Zenon, <2>1, <2>5 DEF LogInv, JobInv, Writing, Between
      <3>2. recs[k].start <= job[u].pos /\ job[u].pos < recs[k].end
        BY Zenon, <2>0, <2>5, InReservation
      <3>3. recs[i].start <= at /\ at < recs[i].end
        BY <1>b, <1>2, <1>4
      <3>4. job[u].pos # at
        BY Zenon, <1>2, <1>14, <2>1, <3>2, <3>3
      <3> QED BY Zenon, <1>8, <3>1, <3>4
    <2>6. \A v \in Threads : Active(v)' /\ job'[v].rec = job[u].rec => v = u
      BY ZenonT(30), <1>11, <1>19, <2>0, <2>1 DEF LogInv, JobInv, Writing
    <2> QED BY Zenon, <2>0, <2>1, <2>2, <2>3, <2>4, <2>5, <2>6, OtherThread
  <1>22. JobInv'
    BY Zenon, <1>20, <1>21 DEF JobInv
  <1> QED BY Zenon, <1>12, <1>13, <1>15, <1>16, <1>18, <1>22 DEF LogInv

LEMMA EmitPayloadInv ==
  ASSUME LogInv, NEW t \in Threads, EmitPayload(t)
  PROVE  LogInv'
  <1> DEFINE j == job[t]
  <1>b. kBlockSize \in Nat /\ kHeaderSize \in 1..kBlockSize - 1
    BY FormatAssumption
  <1>t. TypeOK
    BY Zenon DEF LogInv
  <1>0. PICK i, at, len : i = j.rec /\ at = j.pos /\ len = file[at].len
    BY Zenon
  <1> DEFINE last == len = j.left
             e == at + kHeaderSize + len
             next == IF last THEN NoJob ELSE [j EXCEPT !.pos = e, !.left = j.left - len]
  <1>1. /\ phase = "write" /\ pc[t] = "payload"
        /\ file' = [file EXCEPT ![at].payload = TRUE]
        /\ recs' = [recs EXCEPT ![i].done = last]
        /\ pc' = [pc EXCEPT ![t] = IF last THEN "idle" ELSE "emit"]
        /\ UNCHANGED <<offset, failures, reader>>
    BY Zenon, <1>0 DEF EmitPayload
  <1>2. Active(t) /\ Writing(t) /\ Within(j) /\ Behind(j) /\ i \in DOMAIN recs
        /\ recs[i].start = j.start /\ recs[i].size = j.size /\ j.start <= j.pos /\ j.left <= j.size
    BY Zenon, <1>0, <1>1 DEF LogInv, JobInv, Active, Writing
  <1>3. /\ at \in Fragments(i) /\ at \in DOMAIN file /\ file[at].rec = i
        /\ file[at].from = j.size - j.left /\ len <= j.left /\ FragmentEnd(at) = e
        /\ last => file[at].type \in {"full", "last"} /\ EndsAt(i, e)
        /\ ~last => /\ file[at].type \in {"first", "middle"}
                    /\ recs[i].end = ComputeRecordSize(e, j.left - len)
    BY Zenon, <1>0, <1>2 DEF Within, FragmentEnd, Fragments
  <1>4. /\ at \in Nat /\ len \in Nat /\ j.left \in Nat /\ j.start \in Nat /\ j.size \in Nat
        /\ recs[i].end \in Nat /\ recs[i].start \in Nat /\ e \in Nat /\ at < e /\ i \in Nat
    BY Zenon, <1>0, <1>2, <1>3, <1>t, Types
  <1>5. job' = [job EXCEPT ![t] = next]
    BY <1>0 DEF EmitPayload
  <1> HIDE DEF next, last
  <1>6. /\ DOMAIN file' = DOMAIN file
        /\ \A o \in DOMAIN file :
             /\ file'[o].rec = file[o].rec /\ file'[o].from = file[o].from
             /\ file'[o].len = file[o].len /\ file'[o].type = file[o].type
             /\ file'[o].payload = IF o = at THEN TRUE ELSE file[o].payload
             /\ file'[o] \in PhysicalRecord
    <2>1. file \in [DOMAIN file -> PhysicalRecord]
      BY Zenon, <1>t DEF TypeOK
    <2> QED BY ZenonT(30), <1>1, <1>3, <2>1 DEF PhysicalRecord
  <1>7. /\ DOMAIN recs' = DOMAIN recs /\ recs' \in Seq(Reservation) /\ Len(recs') = Len(recs)
        /\ \A k \in DOMAIN recs :
             /\ recs'[k].start = recs[k].start /\ recs'[k].end = recs[k].end
             /\ recs'[k].size = recs[k].size
             /\ recs'[k].done = IF k = i THEN last ELSE recs[k].done
    <2>1. recs \in Seq(Reservation)
      BY Zenon, <1>t DEF TypeOK
    <2>2. PICK x : x = [recs[i] EXCEPT !.done = last]
      BY Zenon
    <2>3. recs[i] \in Reservation /\ last \in BOOLEAN
      BY Zenon, <1>2, <2>1, SeqFacts DEF last
    <2>4. /\ x \in Reservation /\ x.start = recs[i].start /\ x.end = recs[i].end
          /\ x.size = recs[i].size /\ x.done = last
      BY Zenon, <2>2, <2>3 DEF Reservation
    <2>5. recs' = [recs EXCEPT ![i] = x]
      BY Zenon, <1>1, <2>2
    <2>6. /\ DOMAIN recs' = DOMAIN recs /\ recs' \in Seq(Reservation) /\ Len(recs') = Len(recs)
          /\ \A k \in DOMAIN recs : recs'[k] = IF k = i THEN x ELSE recs[k]
      BY <1>2, <2>1, <2>4, <2>5
    <2> QED BY Zenon, <2>4, <2>6
  <1>8. /\ \A o \in DOMAIN file : FragmentEnd(o)' = FragmentEnd(o)
        /\ \A k : Fragments(k)' = Fragments(k) /\ Fragments(k) \subseteq DOMAIN file
    BY Zenon, <1>6 DEF FragmentEnd, Fragments
  <1>9. /\ \A u \in Threads : u # t => job'[u] = job[u] /\ pc'[u] = pc[u]
        /\ pc'[t] = IF last THEN "idle" ELSE "emit"
        /\ job'[t] = next /\ job' \in [Threads -> Job]
        /\ pc' \in [Threads -> {"idle", "loaded", "emit", "payload"}]
    <2>1. job \in [Threads -> Job] /\ pc \in [Threads -> {"idle", "loaded", "emit", "payload"}]
      BY Zenon, <1>t DEF TypeOK
    <2>2. next \in Job
      <3>1. NoJob \in Job
        BY DEF NoJob, Job
      <3>2. j.left - len \in Nat
        BY <1>3, <1>4
      <3>3. [j EXCEPT !.pos = e, !.left = j.left - len] \in Job
        BY Zenon, <1>4, <2>1, <3>2, JobChange
      <3> QED BY Zenon, <3>1, <3>3 DEF next
    <2> QED BY Zenon, <1>1, <1>5, <2>1, <2>2
  <1>10. ~last => /\ job'[t].rec = i /\ job'[t].pos = e /\ job'[t].start = j.start
                  /\ job'[t].size = j.size /\ job'[t].left = j.left - len
    <2>1. j \in Job
      BY Zenon, <1>t DEF TypeOK
    <2> QED BY Zenon, <1>0, <1>9, <2>1 DEF Job, next
  <1>11. TypeOK'
    <2>1. file' \in [DOMAIN file' -> PhysicalRecord]
      BY Zenon, <1>1, <1>6
    <2> QED BY Zenon, <1>1, <1>6, <1>7, <1>9, <1>t, <2>1 DEF TypeOK, reader
  <1>12. ResInv'
    <2>1. recs \in Seq(Reservation) /\ recs' \in Seq(Reservation) /\ Len(recs') = Len(recs)
      BY Zenon, <1>7, <1>t DEF TypeOK
    <2>2. /\ recs' = <<>> <=> recs = <<>>
          /\ recs # <<>> => Len(recs) \in DOMAIN recs
          /\ \A k \in DOMAIN recs : k # 1 => k - 1 \in DOMAIN recs
      BY <2>1
    <2>3. offset' = IF recs' = <<>> THEN 0 ELSE recs'[Len(recs')].end
      BY Zenon, <1>1, <1>7, <2>2 DEF LogInv, ResInv
    <2>4. ASSUME NEW k \in DOMAIN recs
          PROVE  /\ recs'[k].start = IF k = 1 THEN 0 ELSE recs'[k - 1].end
                 /\ recs'[k].start <= recs'[k].end /\ recs'[k].end <= offset'
                 /\ \A m \in DOMAIN recs : k < m => recs'[k].end <= recs'[m].start
      <3>1. /\ recs[k].start = IF k = 1 THEN 0 ELSE recs[k - 1].end
            /\ recs[k].start <= recs[k].end /\ recs[k].end <= offset
            /\ \A m \in DOMAIN recs : k < m => recs[k].end <= recs[m].start
        BY Zenon DEF LogInv, ResInv
      <3>2. /\ recs'[k].start = recs[k].start /\ recs'[k].end = recs[k].end
            /\ k # 1 => recs'[k - 1].end = recs[k - 1].end
            /\ offset' = offset
        BY Zenon, <1>1, <1>7, <2>2
      <3>3. \A m \in DOMAIN recs : recs'[m].start = recs[m].start
        BY Zenon, <1>7
      <3> QED BY Zenon, <3>1, <3>2, <3>3
    <2>5. \A b \in Nat : b < offset' =>
            \E k \in DOMAIN recs : recs'[k].start <= b /\ b < recs'[k].end
      BY Zenon, <1>1, <1>7 DEF LogInv, ResInv
    <2> QED BY Zenon, <1>7, <2>3, <2>4, <2>5 DEF ResInv
  <1>13. FragInv'
    <2>1. ASSUME NEW o \in DOMAIN file
          PROVE  /\ file[o].rec \in DOMAIN recs
                 /\ recs[file[o].rec].start <= o /\ FragmentEnd(o) <= recs[file[o].rec].end
                 /\ LeftInBlock(o) >= kHeaderSize + file[o].len
                 /\ \A p \in DOMAIN file : o < p => FragmentEnd(o) <= p
                 /\ ~file[o].payload => file[o].len > 0
                 /\ Linked(o)
      BY Zenon DEF LogInv, FragInv
    <2>2. ASSUME NEW o \in DOMAIN file PROVE Linked(o)'
      <3>0. PICK k : k = file[o].rec
        OBVIOUS
      <3>1. Linked(o) /\ k \in DOMAIN recs
        BY Zenon, <2>1, <3>0
      <3>2. /\ file'[o].rec = k /\ file'[o].from = file[o].from /\ file'[o].len = file[o].len
            /\ file'[o].type = file[o].type
            /\ recs'[k].end = recs[k].end /\ recs'[k].size = recs[k].size
            /\ FragmentEnd(o)' = FragmentEnd(o) /\ Fragments(k)' = Fragments(k)
        BY Zenon, <1>6, <1>7, <1>8, <3>0, <3>1
      <3>3. \A p \in Fragments(k) : FragmentEnd(p)' = FragmentEnd(p)
        BY Zenon, <1>8
      <3>4. /\ file[o].type \in {"full", "first"} =>
                 file[o].from = 0 /\ \A p \in Fragments(k) : o <= p
            /\ file[o].type \in {"full", "last"} => file[o].from + file[o].len = recs[k].size
            /\ file[o].type \in {"middle", "last"} => \E p \in Fragments(k) : FragmentEnd(p)' = o
        BY Zenon, <3>0, <3>1, <3>3 DEF Linked
      <3>5. file[o].type \in {"first", "middle"} =>
              /\ LeftInBlock(FragmentEnd(o)) = kBlockSize /\ FragmentEnd(o) < recs[k].end
              /\ \A p \in DOMAIN file' : p = FragmentEnd(o) =>
                   /\ file'[p].rec = k /\ file'[p].from = file[o].from + file[o].len
                   /\ file'[p].type \in {"middle", "last"}
        BY ZenonT(30), <1>6, <3>0, <3>1 DEF Linked
      <3> QED BY ZenonT(30), <3>2, <3>4, <3>5 DEF Linked
    <2>3. ASSUME NEW o \in DOMAIN file
          PROVE  /\ file'[o].rec \in DOMAIN recs'
                 /\ recs'[file'[o].rec].start <= o
                 /\ FragmentEnd(o)' <= recs'[file'[o].rec].end
                 /\ LeftInBlock(o) >= kHeaderSize + file'[o].len
                 /\ \A p \in DOMAIN file' : o < p => FragmentEnd(o)' <= p
                 /\ ~file'[o].payload => file'[o].len > 0
      <3>1. /\ file'[o].rec = file[o].rec /\ file'[o].len = file[o].len
            /\ ~file'[o].payload => ~file[o].payload
            /\ FragmentEnd(o)' = FragmentEnd(o)
        BY Zenon, <1>6, <1>8
      <3>2. /\ file[o].rec \in DOMAIN recs' /\ DOMAIN file' = DOMAIN file
            /\ recs'[file[o].rec].start = recs[file[o].rec].start
            /\ recs'[file[o].rec].end = recs[file[o].rec].end
        BY Zenon, <1>6, <1>7, <2>1
      <3> QED BY Zenon, <2>1, <3>1, <3>2
    <2> QED BY Zenon, <1>6, <2>2, <2>3 DEF FragInv
  <1>14. /\ \A k, b : Written(k, b) => Written(k, b)'
         /\ \A b \in Nat : at <= b /\ b < e => Written(i, b)'
    BY Zenon, <1>3, <1>8 DEF Written
  <1>15. \A o \in Fragments(i) : o # at =>
           /\ file[o].payload /\ file[o].type \in {"first", "middle"}
           /\ FragmentEnd(o) <= at /\ FragmentEnd(o) \in DOMAIN file
    BY Zenon, <1>0, <1>2, <1>3 DEF Behind
  <1>16. DoneInv'
    <2>1. ASSUME NEW k \in DOMAIN recs, recs'[k].done, k # i
          PROVE  /\ Fragments(k) # {}
                 /\ \A o \in Fragments(k) :
                      /\ file'[o].payload
                      /\ file[o].type \in {"first", "middle"} => FragmentEnd(o) \in DOMAIN file
                 /\ \A b \in Nat : recs[k].start <= b /\ b < recs[k].end =>
                      Written(k, b)' \/ SpareHeader(k, b)'
      <3>1. recs[k].done
        BY Zenon, <1>7, <2>1
      <3>2. \A b : SpareHeader(k, b) => SpareHeader(k, b)'
        BY Zenon, <1>7 DEF SpareHeader
      <3>3. \A o \in DOMAIN file : file[o].payload => file'[o].payload
        BY Zenon, <1>6
      <3> QED BY Zenon, <1>8, <1>14, <3>1, <3>2, <3>3 DEF LogInv, DoneInv
    <2>2. ASSUME last
          PROVE  /\ Fragments(i) # {}
                 /\ \A o \in Fragments(i) :
                      /\ file'[o].payload
                      /\ file[o].type \in {"first", "middle"} => FragmentEnd(o) \in DOMAIN file
                 /\ \A b \in Nat : recs[i].start <= b /\ b < recs[i].end =>
                      Written(i, b)' \/ SpareHeader(i, b)'
      <3>1. ASSUME NEW o \in Fragments(i)
            PROVE  /\ file'[o].payload
                   /\ file[o].type \in {"first", "middle"} => FragmentEnd(o) \in DOMAIN file
        <4>1. CASE o = at
          <5>1. file'[at].payload /\ file[at].type \in {"full", "last"}
            BY Zenon, <1>3, <1>6, <2>2
          <5> QED BY Zenon, <4>1, <5>1
        <4>2. CASE o # at
          BY Zenon, <1>6, <1>8, <1>15, <4>2
        <4> QED BY Zenon, <4>1, <4>2
      <3>2. ASSUME NEW b \in Nat, recs[i].start <= b, b < recs[i].end
            PROVE  Written(i, b)' \/ SpareHeader(i, b)'
        <4>1. CASE b < at
          BY Zenon, <1>0, <1>2, <1>14, <3>2, <4>1 DEF Behind
        <4>2. CASE at <= b /\ b < e
          BY Zenon, <1>14, <4>2
        <4>3. CASE e <= b
          <5>1. recs[i].end = e + kHeaderSize /\ LeftInBlock(e) = kBlockSize
            <6>1. recs[i].end # e
              <7> HIDE DEF e
              <7> QED BY <1>4, <3>2, <4>3
            <6> QED BY Zenon, <1>3, <2>2, <6>1 DEF EndsAt
          <5>2. kHeaderSize \in 0..LeftInBlock(e) - 1
            BY <1>b, <5>1
          <5>3. LeftInBlock(recs[i].end) = LeftInBlock(e) - kHeaderSize
            BY ZenonT(30), <1>4, <5>1, <5>2, Blocks
          <5>4. recs[i].end % kBlockSize = kBlockSize - LeftInBlock(recs[i].end)
            BY Zenon, <1>4, Blocks
          <5> HIDE DEF e
          <5>5. recs[i].end % kBlockSize = kHeaderSize /\ b >= recs[i].end - kHeaderSize
            BY <1>b, <1>4, <4>3, <5>1, <5>3, <5>4
          <5> QED BY Zenon, <1>2, <1>7, <5>5 DEF SpareHeader
        <4> HIDE DEF e
        <4>4. b < at \/ (at <= b /\ b < e) \/ e <= b
          BY <1>4
        <4> QED BY Zenon, <4>1, <4>2, <4>3, <4>4
      <3> QED BY Zenon, <1>3, <3>1, <3>2
    <2>3. \A k \in DOMAIN recs : \A o \in Fragments(k) :
            /\ file'[o].type = file[o].type /\ FragmentEnd(o)' = FragmentEnd(o)
      BY Zenon, <1>6, <1>8
    <2>4. recs'[i].done => last
      BY Zenon, <1>2, <1>7
    <2>5. ASSUME NEW k \in DOMAIN recs, recs'[k].done
          PROVE  /\ Fragments(k) # {}
                 /\ \A o \in Fragments(k) :
                      /\ file'[o].payload
                      /\ file[o].type \in {"first", "middle"} => FragmentEnd(o) \in DOMAIN file
                 /\ \A b \in Nat : recs[k].start <= b /\ b < recs[k].end =>
                      Written(k, b)' \/ SpareHeader(k, b)'
      BY Zenon, <2>1, <2>2, <2>4, <2>5
    <2> QED BY ZenonT(30), <1>6, <1>7, <1>8, <2>3, <2>5 DEF DoneInv
  <1>17. \A u \in Threads : u # t /\ Active(u)' =>
           /\ Active(u) /\ pc'[u] = pc[u] /\ job'[u] = job[u] /\ Writing(u) /\ job[u].rec # i
    BY ZenonT(30), <1>0, <1>2, <1>9 DEF Active, LogInv, JobInv, Writing
  <1>18. ASSUME ~last PROVE Writing(t)'
    <2>1. \A b \in Nat : j.start <= b /\ b < e => Written(i, b)'
      <3>1. \A b \in Nat : b < at \/ at <= b
        BY <1>4
      <3>2. \A b \in Nat : j.start <= b /\ b < at => Written(i, b)'
        BY Zenon, <1>0, <1>2, <1>14 DEF Behind
      <3> QED BY Zenon, <1>14, <3>1, <3>2
    <2>2. ASSUME NEW o \in Fragments(i)
          PROVE  /\ file'[o].payload /\ file[o].type \in {"first", "middle"}
                 /\ FragmentEnd(o) <= e
                 /\ FragmentEnd(o) = e => file[o].from + file[o].len = j.size - (j.left - len)
                 /\ FragmentEnd(o) # e => FragmentEnd(o) \in DOMAIN file
      <3>1. CASE o = at
        <4>1. e <= e /\ (j.size - j.left) + len = j.size - (j.left - len)
          <5> HIDE DEF e, j
          <5> QED BY <1>4
        <4> QED BY ZenonT(30), <1>0, <1>3, <1>6, <1>18, <3>1, <4>1
      <3>2. CASE o # at
        <4>1. /\ file[o].payload /\ file[o].type \in {"first", "middle"}
              /\ FragmentEnd(o) <= at /\ FragmentEnd(o) \in DOMAIN file /\ o \in DOMAIN file
          BY Zenon, <1>8, <1>15, <3>2
        <4>2. FragmentEnd(o) \in Nat
          BY Zenon, <1>t, <4>1, Types
        <4>3. FragmentEnd(o) <= e /\ FragmentEnd(o) # e
          <5> HIDE DEF e
          <5> QED BY <1>4, <4>1, <4>2
        <4> QED BY Zenon, <1>6, <3>2, <4>1, <4>3
      <3> QED BY Zenon, <3>1, <3>2
    <2>3. Behind(job[t])'
      <3>1. \A o \in Fragments(i) :
              /\ FragmentEnd(o)' = FragmentEnd(o) /\ file'[o].type = file[o].type
              /\ file'[o].from = file[o].from /\ file'[o].len = file[o].len
        BY Zenon, <1>6, <1>8
      <3>2. ASSUME NEW o \in Fragments(i)'
            PROVE  /\ file'[o].payload /\ file'[o].type \in {"first", "middle"}
                   /\ FragmentEnd(o)' <= e
                   /\ FragmentEnd(o)' = e =>
                        file'[o].from + file'[o].len = j.size - (j.left - len)
                   /\ FragmentEnd(o)' # e => FragmentEnd(o)' \in DOMAIN file'
        <4>1. /\ o \in Fragments(i) /\ FragmentEnd(o)' = FragmentEnd(o)
              /\ file'[o].type = file[o].type /\ file'[o].from = file[o].from
              /\ file'[o].len = file[o].len /\ DOMAIN file' = DOMAIN file
          BY Zenon, <1>6, <1>8, <3>1, <3>2
        <4>2. /\ file'[o].payload /\ file[o].type \in {"first", "middle"}
              /\ FragmentEnd(o) <= e
              /\ FragmentEnd(o) = e => file[o].from + file[o].len = j.size - (j.left - len)
              /\ FragmentEnd(o) # e => FragmentEnd(o) \in DOMAIN file
          BY Zenon, <2>2, <4>1
        <4> QED BY Zenon, <4>1, <4>2
      <3> QED BY Zenon, <1>10, <1>18, <2>1, <3>2 DEF Behind
    <2>4. Between(job[t])'
      <3>1. e \notin DOMAIN file
        <4>1. ASSUME e \in DOMAIN file PROVE FALSE
          <5>1. file[e].rec = i
            BY Zenon, <1>3, <1>18, <4>1 DEF LogInv, FragInv, Linked
          <5>2. e \in Fragments(i) /\ e # at
            <6>1. e # at
              <7> HIDE DEF e
              <7> QED BY <1>4
            <6> QED BY Zenon, <4>1, <5>1, <6>1 DEF Fragments
          <5>3. FragmentEnd(e) <= at /\ e < FragmentEnd(e) /\ FragmentEnd(e) \in Nat
            BY Zenon, <1>15, <1>t, <4>1, <5>2, Types
          <5> HIDE DEF e
          <5> QED BY <1>4, <5>3
        <4> QED BY Zenon, <4>1
      <3>2. LeftInBlock(e) = kBlockSize
        BY Zenon, <1>3, <1>18 DEF LogInv, FragInv, Linked
      <3>3. e # j.start
        <4> HIDE DEF e, j
        <4> QED BY <1>0, <1>2, <1>4 DEF j
      <3>4. recs'[i].end = ComputeRecordSize(e, j.left - len)
        BY Zenon, <1>2, <1>3, <1>7, <1>18
      <3>5. \E p \in Fragments(i)' : FragmentEnd(p)' = e
        BY Zenon, <1>3, <1>8
      <3> HIDE DEF e
      <3> QED BY Zenon, <1>6, <1>10, <1>18, <3>1, <3>2, <3>3, <3>4, <3>5 DEF Between
    <2>5. \A u \in Threads : Active(u)' /\ job'[u].rec = job'[t].rec => u = t
      BY ZenonT(30), <1>10, <1>17, <1>18
    <2>6. j.start <= e /\ j.left - len <= j.size /\ "payload" # "emit"
      <3> HIDE DEF e, j
      <3> QED BY <1>0, <1>2, <1>3, <1>4 DEF j
    <2>7. /\ i \in DOMAIN recs' /\ ~recs'[i].done /\ recs'[i].start = j.start
          /\ recs'[i].size = j.size /\ pc'[t] = "emit"
      BY Zenon, <1>2, <1>7, <1>9, <1>18
    <2> HIDE DEF e
    <2> QED BY Zenon, <1>10, <1>18, <2>3, <2>4, <2>5, <2>6, <2>7 DEF Writing
  <1>19. ASSUME NEW u \in Threads, u # t, Active(u)' PROVE Writing(u)'
    <2>0. PICK k : k = job[u].rec
      BY Zenon
    <2>1. /\ Active(u) /\ pc'[u] = pc[u] /\ job'[u] = job[u] /\ Writing(u) /\ k # i
          /\ k \in DOMAIN recs'
      BY Zenon, <1>7, <1>17, <1>19, <2>0 DEF Writing
    <2>2. recs'[k] = recs[k]
      BY <1>1, <1>7, <2>1
    <2>3. \A o \in Fragments(k) : FragmentEnd(o)' = FragmentEnd(o) /\ file'[o] = file[o]
      <3>1. \A o \in Fragments(k) : o \in DOMAIN file /\ o # at
        BY Zenon, <1>3, <2>1 DEF Fragments
      <3> QED BY Zenon, <1>1, <1>8, <3>1
    <2>4. Fragments(k)' = Fragments(k) /\ DOMAIN file \subseteq DOMAIN file'
      BY Zenon, <1>6, <1>8
    <2>5. pc[u] = "emit" => job[u].pos \notin DOMAIN file'
      BY Zenon, <1>6, <2>1 DEF Writing, Between
    <2>6. \A v \in Threads : Active(v)' /\ job'[v].rec = job[u].rec => v = u
      <3>1. \A v \in Threads : v # t /\ Active(v)' /\ job'[v].rec = k => v = u
        BY Zenon, <1>17, <2>0, <2>1 DEF Writing
      <3>2. Active(t)' => job'[t].rec = i
        <4>1. last => ~Active(t)'
          BY Zenon, <1>9 DEF Active
        <4> QED BY Zenon, <1>10, <4>1
      <3> QED BY Zenon, <2>0, <2>1, <3>1, <3>2
    <2> QED BY Zenon, <2>0, <2>1, <2>2, <2>3, <2>4, <2>5, <2>6, OtherThread
  <1>20. JobInv'
    <2>1. last => ~Active(t)'
      BY Zenon, <1>9 DEF Active
    <2> QED BY Zenon, <1>18, <1>19, <2>1 DEF JobInv
  <1>21. ReadInv'
    BY Zenon, <1>1, <1>11, NotReading DEF TypeOK
  <1> QED BY Zenon, <1>11, <1>12, <1>13, <1>16, <1>20, <1>21 DEF LogInv

(***************************************************************************)
(* Steps of the reader.                                                    *)
(***************************************************************************)

\* Between the reader's position and the next header there is no fragment, and
\* none straddles them; within a record there is no trailer to skip.
LEMMA AtHere ==
  ASSUME LogInv, NEW h, h = Here
  PROVE  /\ h \in Nat /\ rpos <= h /\ LeftInBlock(h) >= kHeaderSize
         /\ \A o \in DOMAIN file : o < h => o < rpos /\ FragmentEnd(o) <= rpos
         /\ scratch # <<>> => h = rpos
  <1>b. kBlockSize \in Nat /\ kHeaderSize \in 1..kBlockSize - 1
    BY FormatAssumption
  <1>t. TypeOK
    BY Zenon DEF LogInv
  <1>1. rpos \in Nat
    BY Zenon, <1>t DEF TypeOK
  <1>2. /\ h \in Nat /\ rpos <= h /\ LeftInBlock(h) >= kHeaderSize
        /\ LeftInBlock(rpos) >= kHeaderSize => h = rpos
        /\ \A b \in Nat : rpos <= b /\ b < h => LeftInBlock(b) < kHeaderSize
    BY Zenon, <1>1, Skip DEF Here
  <1>3. ASSUME NEW o \in DOMAIN file, o < h PROVE o < rpos /\ FragmentEnd(o) <= rpos
    <2>1. o \in Nat /\ file[o].len \in Nat /\ LeftInBlock(o) >= kHeaderSize + file[o].len
      BY Zenon, <1>t, Types DEF LogInv, FragInv
    <2>2. LeftInBlock(o) \in Nat
      BY <2>1, Blocks, FormatAssumption
    <2>3. ~(LeftInBlock(o) < kHeaderSize)
      BY <1>b, <2>1, <2>2
    <2>4. ~(rpos <= o)
      BY Zenon, <1>2, <1>3, <2>1, <2>3
    <2>5. o < rpos
      BY <1>1, <2>1, <2>4
    <2> QED BY Zenon, <2>5 DEF LogInv, ReadInv
  <1>4. ASSUME scratch # <<>> PROVE h = rpos
    <2> DEFINE p == scratch[Len(scratch)]
    <2>1. p \in DOMAIN file
      BY Zenon, <1>4, <1>t, SeqFacts DEF TypeOK
    <2>2. FragmentEnd(p) = rpos /\ file[p].type \in {"first", "middle"}
      BY Zenon, <1>4 DEF LogInv, ReadInv, ScratchInv
    <2>3. LeftInBlock(rpos) = kBlockSize
      BY Zenon, <2>1, <2>2 DEF LogInv, FragInv, Linked
    <2>4. kBlockSize >= kHeaderSize
      BY <1>b
    <2> QED BY Zenon, <1>2, <2>3, <2>4
  <1> QED BY Zenon, <1>2, <1>3, <1>4

\* What follows the fragments in scratch is the next fragment of their record;
\* a completed record has one.
LEMMA ScratchNext ==
  ASSUME LogInv, scratch # <<>>, NEW h, h = Here, NEW i, i = file[scratch[1]].rec
  PROVE  /\ i \in DOMAIN recs
         /\ h \in DOMAIN file => LET p == scratch[Len(scratch)]
                                 IN  /\ file[h].rec = i
                                     /\ file[h].from = file[p].from + file[p].len
                                     /\ file[h].type \in {"middle", "last"}
         /\ recs[i].done => h \in DOMAIN file /\ file[h].payload /\ h < offset
  <1>t. TypeOK
    BY Zenon DEF LogInv
  <1> DEFINE p == scratch[Len(scratch)]
  <1>1. /\ p \in DOMAIN file /\ scratch[1] \in DOMAIN file
        /\ Len(scratch) \in 1..Len(scratch)
    <2>1. scratch \in Seq(DOMAIN file)
      BY Zenon, <1>t DEF TypeOK
    <2> QED BY Zenon, <2>1, SeqFacts
  <1>2. FragmentEnd(p) = rpos /\ file[p].type \in {"first", "middle"} /\ file[p].rec = i
    BY Zenon, <1>1 DEF LogInv, ReadInv, ScratchInv
  <1>3. h = rpos
    BY Zenon, AtHere
  <1>4. i \in DOMAIN recs /\ Linked(p)
    BY Zenon, <1>1, <1>2 DEF LogInv, FragInv
  <1>5. ASSUME h \in DOMAIN file
        PROVE  /\ file[h].rec = i /\ file[h].from = file[p].from + file[p].len
               /\ file[h].type \in {"middle", "last"}
    BY Zenon, <1>2, <1>3, <1>4, <1>5 DEF Linked
  <1>6. ASSUME recs[i].done PROVE h \in DOMAIN file /\ file[h].payload /\ h < offset
    <2>1. p \in Fragments(i)
      BY Zenon, <1>1, <1>2 DEF Fragments
    <2>2. h \in DOMAIN file
      BY Zenon, <1>2, <1>3, <1>4, <1>6, <2>1 DEF LogInv, DoneInv
    <2>3. h \in Fragments(i)
      BY Zenon, <1>5, <2>2 DEF Fragments
    <2>4. file[h].payload
      BY Zenon, <1>4, <1>6, <2>3 DEF LogInv, DoneInv
    <2>5. FragmentEnd(h) <= recs[i].end /\ recs[i].end <= offset
      BY Zenon, <1>4, <1>5, <2>2 DEF LogInv, FragInv, ResInv
    <2>6. /\ h \in Nat /\ FragmentEnd(h) \in Nat /\ h < FragmentEnd(h) /\ recs[i].end \in Nat
          /\ offset \in Nat
      BY Zenon, <1>4, <1>t, <2>2, Types
    <2>7. h < offset
      BY <2>5, <2>6
    <2> QED BY Zenon, <2>2, <2>4, <2>7
  <1> QED BY Zenon, <1>4, <1>5, <1>6

\* The reader goes on over one fragment.
LEMMA Advance ==
  ASSUME LogInv, UNCHANGED <<offset, recs, file>>,
         NEW h \in DOMAIN file, h = Here, rpos' = FragmentEnd(h),
         ReadBack \subseteq ReadBack',
         scratch # <<>> /\ recs[file[scratch[1]].rec].done =>
           \/ file[scratch[1]].rec \in ReadBack'
           \/ scratch' # <<>> /\ file[scratch'[1]].rec = file[scratch[1]].rec,
         recs[file[h].rec].done =>
           \/ file[h].rec \in ReadBack' \/ BehindGap(file[h].rec)
           \/ scratch' # <<>> /\ file[scratch'[1]].rec = file[h].rec
  PROVE  /\ PassedInv'
         /\ \A o \in DOMAIN file' : o < rpos' => FragmentEnd(o)' <= rpos'
         /\ rpos' \in Nat /\ h < rpos' /\ rpos <= rpos'
  <1>t. TypeOK
    BY Zenon DEF LogInv
  <1>1. \A o : FragmentEnd(o)' = FragmentEnd(o)
    BY Zenon DEF FragmentEnd
  <1>2. /\ \A o \in DOMAIN file : o \in Nat /\ o < FragmentEnd(o) /\ FragmentEnd(o) \in Nat
        /\ rpos \in Nat
    BY Zenon, <1>t, Types
  <1>3. /\ h \in Nat /\ rpos <= h
        /\ \A o \in DOMAIN file : o < h => o < rpos /\ FragmentEnd(o) <= rpos
    BY Zenon, AtHere
  <1>4. \A o \in DOMAIN file : h < o => FragmentEnd(h) <= o
    BY Zenon DEF LogInv, FragInv
  <1>5. ASSUME NEW o \in DOMAIN file, o < FragmentEnd(h)
        PROVE  (o < rpos \/ o = h) /\ FragmentEnd(o) <= FragmentEnd(h)
    BY <1>2, <1>3, <1>4, <1>5
  <1>6. h < FragmentEnd(h) /\ rpos <= FragmentEnd(h)
    BY <1>2, <1>3
  <1>7. \A i : BehindGap(i) => BehindGap(i)'
    BY ZenonT(30) DEF BehindGap, Fragments, Gap, LeftOut, SpareHeader
  <1>8. ASSUME NEW o \in DOMAIN file, o < rpos', recs[file[o].rec].done
        PROVE  \/ file[o].rec \in ReadBack' \/ BehindGap(file[o].rec)'
               \/ scratch' # <<>> /\ file[scratch'[1]].rec = file[o].rec
    <2>1. CASE o = h
      BY Zenon, <1>7, <1>8, <2>1
    <2>2. CASE o < rpos
      <3>1. \/ file[o].rec \in ReadBack \/ BehindGap(file[o].rec)
            \/ scratch # <<>> /\ file[scratch[1]].rec = file[o].rec
        BY Zenon, <1>8, <2>2 DEF LogInv, ReadInv, PassedInv
      <3> QED BY Zenon, <1>7, <1>8, <3>1
    <2> QED BY Zenon, <1>5, <1>8, <2>1, <2>2
  <1>9. PassedInv'
    BY Zenon, <1>8 DEF PassedInv
  <1> QED BY Zenon, <1>1, <1>2, <1>5, <1>6, <1>9

\* A record more in out.
LEMMA Returned ==
  ASSUME LogInv, UNCHANGED <<offset, recs, file>>,
         NEW s \in Seq(DOMAIN file), s # <<>>, Whole(s), out' = Append(out, s),
         file[s[1]].type \in {"full", "first"}, \A k \in DOMAIN out : out[k][1] < s[1]
  PROVE  /\ OnlyWholeRecords' /\ out' \in Seq(Seq(DOMAIN file))
         /\ \A k \in DOMAIN out' : (k \in DOMAIN out /\ out'[k] = out[k]) \/ out'[k] = s
         /\ ReadBack \subseteq ReadBack' /\ file[s[1]].rec \in ReadBack'
  <1>t. TypeOK
    BY Zenon DEF LogInv
  <1>0. PICK n : n = Len(out) + 1
    BY Zenon
  <1>1. out \in Seq(Seq(DOMAIN file))
    BY Zenon, <1>t DEF TypeOK
  <1>2. /\ Append(out, s) \in Seq(Seq(DOMAIN file))
        /\ DOMAIN Append(out, s) = DOMAIN out \cup {Len(out) + 1}
        /\ \A k \in DOMAIN out : Append(out, s)[k] = out[k]
        /\ Append(out, s)[Len(out) + 1] = s /\ Len(out) + 1 \notin DOMAIN out
    BY <1>1
  <1>3. /\ out' \in Seq(Seq(DOMAIN file)) /\ DOMAIN out' = DOMAIN out \cup {n}
        /\ \A k \in DOMAIN out : out'[k] = out[k]
        /\ out'[n] = s
    BY Zenon, <1>0, <1>2
  <1>4. \A k \in DOMAIN out' : k \in Nat /\ (k # n => k \in DOMAIN out)
                               /\ (k > 1 => k - 1 \in DOMAIN out)
    BY <1>0, <1>1, <1>3
  <1>5. \A x : Whole(x)' = Whole(x)
    BY ZenonT(30) DEF Whole
  <1>6. n > 1 => file[out[n - 1][1]].rec < file[s[1]].rec
    <2> SUFFICES ASSUME n > 1 PROVE file[out[n - 1][1]].rec < file[s[1]].rec
      BY Zenon
    <2> DEFINE o == out[n - 1][1]
               p == s[1]
    <2>1. n - 1 \in DOMAIN out
      BY Zenon, <1>3, <1>4
    <2>2. out[n - 1] \in Seq(DOMAIN file) /\ out[n - 1] # <<>> /\ o < p
      BY Zenon, <1>1, <2>1, SeqFacts DEF LogInv, ReadInv, OutInv
    <2>3. o \in DOMAIN file /\ p \in DOMAIN file
      BY Zenon, <2>2, SeqFacts
    <2>4. /\ o \in Nat /\ p \in Nat /\ FragmentEnd(p) \in Nat /\ p < FragmentEnd(p)
          /\ FragmentEnd(o) \in Nat
          /\ file[o].rec \in DOMAIN recs /\ file[p].rec \in DOMAIN recs
          /\ recs[file[o].rec].start <= o /\ FragmentEnd(p) <= recs[file[p].rec].end
      BY Zenon, <1>t, <2>3, Types DEF LogInv, FragInv
    <2>5. /\ file[o].rec \in Nat /\ file[p].rec \in Nat
          /\ recs[file[o].rec].start \in Nat /\ recs[file[p].rec].end \in Nat
          /\ file[p].rec < file[o].rec => recs[file[p].rec].end <= recs[file[o].rec].start
      BY Zenon, <1>t, <2>3, <2>4, Types DEF LogInv, ResInv
    <2>6. file[o].rec # file[p].rec
      <3>1. \A x \in Fragments(file[p].rec) : p <= x
        BY Zenon, <2>3 DEF LogInv, FragInv, Linked
      <3>2. ~(p <= o)
        <4> HIDE DEF o, p
        <4> QED BY <2>2, <2>4
      <3> QED BY Zenon, <2>3, <3>1, <3>2 DEF Fragments
    <2>7. file[o].rec < file[p].rec
      <3> HIDE DEF o, p
      <3> QED BY SMTT(30), <2>2, <2>4, <2>5, <2>6
    <2> QED BY Zenon, <2>7
  <1>7. ASSUME NEW k \in DOMAIN out'
        PROVE  Whole(out'[k]) /\ (k > 1 => file[out'[k - 1][1]].rec < file[out'[k][1]].rec)
    <2>1. CASE k = n
      BY Zenon, <1>3, <1>4, <1>6, <2>1
    <2>2. CASE k # n
      <3>1. k \in DOMAIN out /\ out'[k] = out[k] /\ (k > 1 => out'[k - 1] = out[k - 1])
        BY Zenon, <1>3, <1>4, <2>2
      <3> QED BY Zenon, <3>1 DEF LogInv, ReadInv, OnlyWholeRecords
    <2> QED BY Zenon, <2>1, <2>2
  <1>8. OnlyWholeRecords'
    BY Zenon, <1>5, <1>7 DEF OnlyWholeRecords
  <1>9. ReadBack \subseteq ReadBack' /\ file[s[1]].rec \in ReadBack'
    BY Zenon, <1>3 DEF ReadBack
  <1> QED BY Zenon, <1>3, <1>8, <1>9

LEMMA GoodRead ==
  ASSUME LogInv, NEW type \in {"full", "first", "middle", "last"}, Reads(type), NEW h, h = Here
  PROVE  /\ phase = "read" /\ phase' = "read" /\ h \in DOMAIN file
         /\ file[h].payload /\ file[h].type = type /\ rpos' = FragmentEnd(h)
         /\ UNCHANGED <<offset, recs, file, pc, job, failures>>
  <1>1. /\ phase = "read" /\ ReadPhysicalRecord(h) = type /\ type # "bad"
        /\ rpos' = AfterPhysicalRecord(h, type)
        /\ UNCHANGED <<offset, recs, file, pc, job, failures, phase>>
    BY DEF Reads
  <1>2. h \in DOMAIN file /\ file[h].payload /\ file[h].type = type
    BY Zenon, <1>1 DEF ReadPhysicalRecord
  <1>3. rpos' = FragmentEnd(h)
    BY Zenon, <1>1 DEF AfterPhysicalRecord, FragmentEnd
  <1> QED BY Zenon, <1>1, <1>2, <1>3

\* What a step of the reader has to establish.
LEMMA ReaderStep ==
  ASSUME LogInv, UNCHANGED <<offset, recs, file, pc, job, failures>>,
         phase' \in {"read", "eof"}, rpos' \in Nat,
         scratch' \in Seq(DOMAIN file), out' \in Seq(Seq(DOMAIN file)),
         \A o \in DOMAIN file' : o < rpos' => FragmentEnd(o)' <= rpos',
         ScratchInv', OutInv', OnlyWholeRecords', PassedInv', LostOnlyBehindGap'
  PROVE  LogInv'
  <1>1. TypeOK'
    BY Zenon DEF LogInv, TypeOK
  <1>2. \A t \in Threads : Active(t)' => Active(t) /\ pc'[t] = pc[t] /\ job'[t] = job[t]
    BY Zenon DEF Active
  <1>3. ResInv' /\ FragInv' /\ DoneInv' /\ JobInv'
    BY Zenon, <1>2, SameFile
  <1>4. phase' # "write"
    OBVIOUS
  <1> QED BY Zenon, <1>1, <1>3, <1>4 DEF LogInv, ReadInv

\* The records returned begin before what the reader is at.
LEMMA OutBefore ==
  ASSUME LogInv
  PROVE  \A k \in DOMAIN out : /\ out[k] # <<>> /\ out[k][1] < rpos /\ out[k][1] \in Nat
                               /\ scratch # <<>> => out[k][1] < scratch[1]
  <1>1. out \in Seq(Seq(DOMAIN file)) /\ DOMAIN file \subseteq Nat
    BY Zenon DEF LogInv, TypeOK
  <1>2. \A k \in DOMAIN out : out[k] \in Seq(DOMAIN file) /\ out[k] # <<>> /\ out[k][1] < rpos
                              /\ (scratch # <<>> => out[k][1] < scratch[1])
    BY Zenon, <1>1, SeqFacts DEF LogInv, ReadInv, OutInv
  <1> QED BY Zenon, <1>1, <1>2, SeqFacts

LEMMA ReadFullInv == LogInv /\ ReadFull => LogInv'
  <1> SUFFICES ASSUME LogInv, ReadFull PROVE LogInv'
    OBVIOUS
  <1>0. PICK h : h = Here
    BY Zenon
  <1>1. Reads("full") /\ out' = Append(out, <<h>>) /\ scratch' = <<>>
    BY Zenon, <1>0 DEF ReadFull
  <1>2. /\ phase' = "read" /\ h \in DOMAIN file
        /\ file[h].payload /\ file[h].type = "full" /\ rpos' = FragmentEnd(h)
        /\ UNCHANGED <<offset, recs, file, pc, job, failures>>
    BY Zenon, <1>0, <1>1, GoodRead
  <1>3. scratch # <<>> => ~recs[file[scratch[1]].rec].done
    <2>1. ~("full" \in {"middle", "last"})
      OBVIOUS
    <2> QED BY Zenon, <1>0, <1>2, <2>1, ScratchNext
  <1>4. <<h>> \in Seq(DOMAIN file) /\ <<h>> # <<>> /\ <<h>>[1] = h /\ Len(<<h>>) = 1
    BY <1>2
  <1>5. Whole(<<h>>)
    <2>1. file[h].from = 0 /\ file[h].from + file[h].len = recs[file[h].rec].size
      BY Zenon, <1>2 DEF LogInv, FragInv, Linked
    <2>2. \A f \in 1..Len(<<h>>) : f = 1
      BY <1>4
    <2>3. \A f \in 1..Len(<<h>>) - 1 : FALSE
      BY <1>4
    <2> QED BY Zenon, <1>2, <1>4, <2>1, <2>2, <2>3 DEF Whole
  <1>6. rpos \in Nat /\ rpos <= h /\ h \in Nat
    BY Zenon, <1>0, AtHere DEF LogInv, TypeOK
  <1>7. \A k \in DOMAIN out : out[k] # <<>> /\ out[k][1] < rpos /\ out[k][1] \in Nat
    BY Zenon, OutBefore
  <1>8. \A k \in DOMAIN out : out[k][1] < h
    BY <1>6, <1>7
  <1>9. /\ OnlyWholeRecords' /\ out' \in Seq(Seq(DOMAIN file))
        /\ \A k \in DOMAIN out' : (k \in DOMAIN out /\ out'[k] = out[k]) \/ out'[k] = <<h>>
        /\ ReadBack \subseteq ReadBack' /\ file[h].rec \in ReadBack'
    <2>1. file[h].type \in {"full", "first"}
      BY Zenon, <1>2
    <2> QED BY Zenon, <1>1, <1>2, <1>4, <1>5, <1>8, <2>1, Returned
  <1>10. /\ PassedInv' /\ \A o \in DOMAIN file' : o < rpos' => FragmentEnd(o)' <= rpos'
         /\ rpos' \in Nat /\ h < rpos' /\ rpos <= rpos'
    BY Zenon, <1>0, <1>2, <1>3, <1>9, Advance
  <1>11. ScratchInv'
    BY Zenon, <1>1 DEF ScratchInv
  <1>12. OutInv'
    <2>1. \A k \in DOMAIN out : out[k][1] < rpos'
      BY <1>6, <1>7, <1>10
    <2>2. ASSUME NEW k \in DOMAIN out' PROVE out'[k] # <<>> /\ out'[k][1] < rpos'
      <3>1. CASE k \in DOMAIN out /\ out'[k] = out[k]
        BY Zenon, <1>7, <2>1, <3>1
      <3>2. CASE out'[k] = <<h>>
        BY <1>10, <3>2
      <3> QED BY Zenon, <1>9, <3>1, <3>2
    <2> QED BY Zenon, <1>1, <2>2 DEF OutInv
  <1>13. scratch' \in Seq(DOMAIN file) /\ phase' # "eof" /\ phase' \in {"read", "eof"}
    BY <1>1, <1>2
  <1> QED
    BY Zenon, <1>2, <1>9, <1>10, <1>11, <1>12, <1>13, ReaderStep DEF LostOnlyBehindGap

\* Nothing is returned and the reader goes on.
LEMMA SameOut ==
  ASSUME LogInv, UNCHANGED <<offset, recs, file, out>>, rpos' \in Nat, rpos <= rpos',
         scratch' # <<>> => \A k \in DOMAIN out : out[k][1] < scratch'[1]
  PROVE  OutInv' /\ OnlyWholeRecords' /\ ReadBack' = ReadBack
  <1>1. \A k \in DOMAIN out : out[k] # <<>> /\ out[k][1] < rpos /\ out[k][1] \in Nat
    BY Zenon, OutBefore
  <1>2. rpos \in Nat
    BY Zenon DEF LogInv, TypeOK
  <1>3. \A k \in DOMAIN out : out[k][1] < rpos'
    BY <1>1, <1>2
  <1>4. OutInv'
    BY Zenon, <1>1, <1>3 DEF OutInv
  <1>5. OnlyWholeRecords' /\ ReadBack' = ReadBack
    <2>1. \A x : Whole(x)' = Whole(x)
      BY Zenon DEF Whole
    <2>2. OnlyWholeRecords'
      BY Zenon, <2>1 DEF LogInv, ReadInv, OnlyWholeRecords
    <2> QED BY Zenon, <2>2 DEF ReadBack
  <1> QED BY Zenon, <1>4, <1>5

LEMMA ReadFirstInv == LogInv /\ ReadFirst => LogInv'
  <1> SUFFICES ASSUME LogInv, ReadFirst PROVE LogInv'
    OBVIOUS
  <1>0. PICK h : h = Here
    BY Zenon
  <1>1. Reads("first") /\ scratch' = <<h>> /\ out' = out
    BY Zenon, <1>0 DEF ReadFirst
  <1>2. /\ phase' = "read" /\ h \in DOMAIN file
        /\ file[h].payload /\ file[h].type = "first" /\ rpos' = FragmentEnd(h)
        /\ UNCHANGED <<offset, recs, file, pc, job, failures>>
    BY Zenon, <1>0, <1>1, GoodRead
  <1>3. scratch # <<>> => ~recs[file[scratch[1]].rec].done
    <2>1. ~("first" \in {"middle", "last"})
      OBVIOUS
    <2> QED BY Zenon, <1>0, <1>2, <2>1, ScratchNext
  <1>4. /\ scratch' \in Seq(DOMAIN file) /\ scratch' # <<>> /\ scratch'[1] = h
        /\ Len(scratch') = 1
    BY <1>1, <1>2
  <1>5. ReadBack' = ReadBack
    BY Zenon, <1>1, <1>2 DEF ReadBack
  <1>6. /\ PassedInv' /\ \A o \in DOMAIN file' : o < rpos' => FragmentEnd(o)' <= rpos'
        /\ rpos' \in Nat /\ h < rpos' /\ rpos <= rpos'
    BY Zenon, <1>0, <1>2, <1>3, <1>4, <1>5, Advance
  <1>7. ScratchInv'
    <2>1. \A f \in 1..Len(scratch') : f = 1
      BY <1>4
    <2>2. \A f \in 1..Len(scratch') - 1 : FALSE
      BY <1>4
    <2>3. FragmentEnd(h)' = rpos'
      BY Zenon, <1>2 DEF FragmentEnd
    <2> QED BY Zenon, <1>2, <1>4, <2>1, <2>2, <2>3 DEF ScratchInv
  <1>8. \A k \in DOMAIN out : out[k][1] < h
    <2>1. rpos \in Nat /\ rpos <= h /\ h \in Nat
      BY Zenon, <1>0, AtHere DEF LogInv, TypeOK
    <2>2. \A k \in DOMAIN out : out[k][1] < rpos /\ out[k][1] \in Nat
      BY Zenon, OutBefore
    <2> QED BY <2>1, <2>2
  <1>9. OutInv' /\ OnlyWholeRecords'
    BY Zenon, <1>1, <1>2, <1>4, <1>6, <1>8, SameOut
  <1>10. out' \in Seq(Seq(DOMAIN file)) /\ phase' # "eof" /\ phase' \in {"read", "eof"}
    BY <1>1, <1>2 DEF LogInv, TypeOK
  <1> QED
    BY Zenon, <1>2, <1>4, <1>6, <1>7, <1>9, <1>10, ReaderStep DEF LostOnlyBehindGap

\* A fragment that is not the first of its record, and found with scratch empty:
\* the reader has given the record up before.
LEMMA Skipped ==
  ASSUME LogInv, scratch = <<>>, NEW h \in DOMAIN file, h = Here,
         file[h].type \in {"middle", "last"}, recs[file[h].rec].done
  PROVE  file[h].rec \in ReadBack \/ BehindGap(file[h].rec)
  <1>1. PICK p \in Fragments(file[h].rec) : FragmentEnd(p) = h
    BY Zenon DEF LogInv, FragInv, Linked
  <1>2. p \in DOMAIN file /\ file[p].rec = file[h].rec
    BY Zenon, <1>1 DEF Fragments
  <1>3. p < h
    BY Zenon, <1>1, <1>2, Types DEF LogInv
  <1>4. p < rpos
    BY Zenon, <1>2, <1>3, AtHere
  <1> QED BY Zenon, <1>2, <1>4 DEF LogInv, ReadInv, PassedInv

\* s is scratch with the fragment at h behind it.
Extends(s, h) ==
  /\ s \in Seq(DOMAIN file) /\ s # <<>> /\ Len(s) \in Nat /\ Len(s) > 1
  /\ s[1] = scratch[1] /\ s[Len(s)] = h
  /\ file[s[1]].type = "first" /\ file[s[1]].from = 0
  /\ file[h].rec = file[s[1]].rec
  /\ \A f \in 1..Len(s) - 1 : file[s[f + 1]].from = file[s[f]].from + file[s[f]].len
  /\ \A f \in 1..Len(s) : file[s[f]].payload /\ file[s[f]].rec = file[s[1]].rec

\* One more fragment behind scratch.
LEMMA Extended ==
  ASSUME LogInv, scratch # <<>>, NEW h, h = Here, h \in DOMAIN file, file[h].payload,
         NEW s, s = Append(scratch, h)
  PROVE  Extends(s, h)
  <1> DEFINE n == Len(scratch)
  <1>1. scratch \in Seq(DOMAIN file)
    BY Zenon DEF LogInv, TypeOK
  <1>2. /\ Append(scratch, h) \in Seq(DOMAIN file) /\ Len(Append(scratch, h)) = n + 1
        /\ Append(scratch, h) # <<>> /\ Append(scratch, h)[n + 1] = h /\ n \in Nat /\ n > 0
        /\ \A f \in 1..n : Append(scratch, h)[f] = scratch[f]
    BY <1>1
  <1>3. /\ s \in Seq(DOMAIN file) /\ s # <<>> /\ Len(s) = n + 1 /\ s[n + 1] = h
        /\ \A f \in 1..n : s[f] = scratch[f]
    BY Zenon, <1>2
  <1>4. 1 \in 1..n /\ n \in 1..n /\ Len(s) \in Nat /\ Len(s) > 1
    <2> HIDE DEF n
    <2> QED BY <1>2, <1>3
  <1>5. s[1] = scratch[1] /\ s[Len(s)] = h /\ s[n] = scratch[n]
    BY Zenon, <1>3, <1>4
  <1>6. /\ file[scratch[1]].type = "first"
        /\ \A f \in 1..n - 1 :
             file[scratch[f + 1]].from = file[scratch[f]].from + file[scratch[f]].len
        /\ \A f \in 1..n : file[scratch[f]].payload /\ file[scratch[f]].rec = file[scratch[1]].rec
    BY Zenon DEF LogInv, ReadInv, ScratchInv
  <1>7. file[h].rec = file[scratch[1]].rec /\ file[h].from = file[scratch[n]].from + file[scratch[n]].len
    BY Zenon, ScratchNext
  <1>8. file[scratch[1]].from = 0
    <2>1. scratch[1] \in DOMAIN file
      BY Zenon, <1>1, SeqFacts
    <2> QED BY Zenon, <1>6, <2>1 DEF LogInv, FragInv, Linked
  <1>9. \A f \in 1..Len(s) - 1 :
          (f \in 1..n - 1 /\ f \in 1..n /\ f + 1 \in 1..n) \/ (f = n /\ f + 1 = n + 1)
    <2> HIDE DEF n
    <2> QED BY <1>2, <1>3
  <1>10. \A f \in 1..Len(s) : f \in 1..n \/ f = n + 1
    <2> HIDE DEF n
    <2> QED BY <1>2, <1>3
  <1> HIDE DEF n
  <1>11. ASSUME NEW f \in 1..Len(s) - 1
         PROVE  file[s[f + 1]].from = file[s[f]].from + file[s[f]].len
    <2>1. CASE f \in 1..n - 1 /\ f \in 1..n /\ f + 1 \in 1..n
      BY ZenonT(30), <1>3, <1>6, <2>1
    <2>2. CASE f = n /\ f + 1 = n + 1
      BY Zenon, <1>3, <1>5, <1>7, <2>2
    <2> QED BY Zenon, <1>9, <2>1, <2>2
  <1>12. \A f \in 1..Len(s) : file[s[f]].payload /\ file[s[f]].rec = file[s[1]].rec
    <2>1. ASSUME NEW f \in 1..Len(s)
          PROVE  file[s[f]].payload /\ file[s[f]].rec = file[s[1]].rec
      <3>1. CASE f \in 1..n
        BY ZenonT(30), <1>3, <1>5, <1>6, <3>1
      <3>2. CASE f = n + 1
        BY Zenon, <1>3, <1>5, <1>7, <3>2
      <3> QED BY Zenon, <1>10, <3>1, <3>2
    <2> QED BY Zenon, <2>1
  <1> QED BY Zenon, <1>3, <1>4, <1>5, <1>6, <1>7, <1>8, <1>11, <1>12 DEF Extends

LEMMA ReadMiddleInv == LogInv /\ ReadMiddle => LogInv'
  <1> SUFFICES ASSUME LogInv, ReadMiddle PROVE LogInv'
    OBVIOUS
  <1>0. PICK h, s : h = Here /\ s = Append(scratch, h)
    BY Zenon
  <1>1. Reads("middle") /\ scratch' = (IF scratch = <<>> THEN <<>> ELSE s) /\ out' = out
    BY Zenon, <1>0 DEF ReadMiddle
  <1>2. /\ phase' = "read" /\ h \in DOMAIN file
        /\ file[h].payload /\ file[h].type = "middle" /\ rpos' = FragmentEnd(h)
        /\ UNCHANGED <<offset, recs, file, pc, job, failures>>
    BY Zenon, <1>0, <1>1, GoodRead
  <1>3. "middle" \in {"middle", "last"} /\ "middle" \in {"first", "middle"}
    OBVIOUS
  <1>4. ReadBack' = ReadBack
    BY Zenon, <1>1, <1>2 DEF ReadBack
  <1>5. /\ scratch' \in Seq(DOMAIN file)
        /\ scratch' # <<>> => scratch # <<>> /\ scratch'[1] = scratch[1]
        /\ scratch # <<>> => /\ scratch' # <<>> /\ file[h].rec = file[scratch[1]].rec
                             /\ scratch'[1] = scratch[1]
    <2>1. CASE scratch = <<>>
      BY <1>1, <2>1
    <2>2. CASE scratch # <<>>
      <3>1. Extends(s, h)
        BY Zenon, <1>0, <1>2, <2>2, Extended
      <3>2. scratch' = s
        BY Zenon, <1>1, <2>2
      <3> QED BY Zenon, <2>2, <3>1, <3>2 DEF Extends
    <2> QED BY Zenon, <2>1, <2>2
  <1>6. scratch = <<>> /\ recs[file[h].rec].done =>
          file[h].rec \in ReadBack \/ BehindGap(file[h].rec)
    BY Zenon, <1>0, <1>2, <1>3, Skipped
  <1>7. /\ PassedInv' /\ \A o \in DOMAIN file' : o < rpos' => FragmentEnd(o)' <= rpos'
        /\ rpos' \in Nat /\ h < rpos' /\ rpos <= rpos'
    BY Zenon, <1>0, <1>2, <1>4, <1>5, <1>6, Advance
  <1>8. ScratchInv'
    <2>1. CASE scratch = <<>>
      BY Zenon, <1>1, <2>1 DEF ScratchInv
    <2>2. CASE scratch # <<>>
      <3>1. FragmentEnd(h)' = rpos' /\ scratch' = s
        BY Zenon, <1>1, <1>2, <2>2 DEF FragmentEnd
      <3>2. /\ s[Len(s)] = h /\ file[s[1]].type = "first"
            /\ \A f \in 1..Len(s) - 1 : file[s[f + 1]].from = file[s[f]].from + file[s[f]].len
            /\ \A f \in 1..Len(s) : file[s[f]].payload /\ file[s[f]].rec = file[s[1]].rec
        <4>1. Extends(s, h)
          BY Zenon, <1>0, <1>2, <2>2, Extended
        <4> QED BY Zenon, <4>1 DEF Extends
      <3> QED BY Zenon, <1>2, <1>3, <3>1, <3>2 DEF ScratchInv
    <2> QED BY Zenon, <2>1, <2>2
  <1>9. scratch' # <<>> => \A k \in DOMAIN out : out[k][1] < scratch'[1]
    BY Zenon, <1>5, OutBefore
  <1>10. OutInv' /\ OnlyWholeRecords'
    BY Zenon, <1>1, <1>2, <1>7, <1>9, SameOut
  <1>11. out' \in Seq(Seq(DOMAIN file)) /\ phase' # "eof" /\ phase' \in {"read", "eof"}
    BY <1>1, <1>2 DEF LogInv, TypeOK
  <1> QED
    BY Zenon, <1>2, <1>5, <1>7, <1>8, <1>10, <1>11, ReaderStep DEF LostOnlyBehindGap

LEMMA ReadLastInv == LogInv /\ ReadLast => LogInv'
  <1> SUFFICES ASSUME LogInv, ReadLast PROVE LogInv'
    OBVIOUS
  <1>0. PICK h, s : h = Here /\ s = Append(scratch, h)
    BY Zenon
  <1>1. /\ Reads("last") /\ scratch' = <<>>
        /\ out' = IF scratch = <<>> THEN out ELSE Append(out, s)
    BY Zenon, <1>0 DEF ReadLast
  <1>2. /\ phase' = "read" /\ h \in DOMAIN file
        /\ file[h].payload /\ file[h].type = "last" /\ rpos' = FragmentEnd(h)
        /\ UNCHANGED <<offset, recs, file, pc, job, failures>>
    BY Zenon, <1>0, <1>1, GoodRead
  <1>3. "last" \in {"middle", "last"} /\ "last" \in {"full", "last"}
    OBVIOUS
  <1>4. scratch' \in Seq(DOMAIN file) /\ phase' # "eof" /\ phase' \in {"read", "eof"}
    BY <1>1, <1>2
  <1>5. ScratchInv'
    BY Zenon, <1>1 DEF ScratchInv
  <1>6. CASE scratch = <<>>
    <2>1. out' = out /\ ReadBack' = ReadBack
      BY Zenon, <1>1, <1>2, <1>6 DEF ReadBack
    <2>2. recs[file[h].rec].done => file[h].rec \in ReadBack \/ BehindGap(file[h].rec)
      BY Zenon, <1>0, <1>2, <1>3, <1>6, Skipped
    <2>3. /\ PassedInv' /\ \A o \in DOMAIN file' : o < rpos' => FragmentEnd(o)' <= rpos'
          /\ rpos' \in Nat /\ rpos <= rpos'
      BY Zenon, <1>0, <1>2, <1>6, <2>1, <2>2, Advance
    <2>4. OutInv' /\ OnlyWholeRecords'
      BY Zenon, <1>1, <1>2, <2>1, <2>3, SameOut
    <2>5. out' \in Seq(Seq(DOMAIN file))
      BY Zenon, <2>1 DEF LogInv, TypeOK
    <2> QED
      BY Zenon, <1>2, <1>4, <1>5, <2>3, <2>4, <2>5, ReaderStep DEF LostOnlyBehindGap
  <1>7. CASE scratch # <<>>
    <2>1. out' = Append(out, s)
      BY Zenon, <1>1, <1>7
    <2>2. /\ s \in Seq(DOMAIN file) /\ s # <<>> /\ s[1] = scratch[1] /\ s[Len(s)] = h
          /\ file[s[1]].type = "first" /\ file[s[1]].from = 0 /\ file[h].rec = file[s[1]].rec
          /\ \A f \in 1..Len(s) - 1 : file[s[f + 1]].from = file[s[f]].from + file[s[f]].len
          /\ \A f \in 1..Len(s) : file[s[f]].payload /\ file[s[f]].rec = file[s[1]].rec
      <3>1. Extends(s, h)
        BY Zenon, <1>0, <1>2, <1>7, Extended
      <3> QED BY Zenon, <3>1 DEF Extends
    <2>3. file[h].from + file[h].len = recs[file[h].rec].size
      BY Zenon, <1>2, <1>3 DEF LogInv, FragInv, Linked
    <2>4. Whole(s)
      BY Zenon, <2>2, <2>3 DEF Whole
    <2>5. \A k \in DOMAIN out : out[k][1] < s[1]
      BY Zenon, <1>7, <2>2, OutBefore
    <2>6. file[s[1]].type \in {"full", "first"}
      BY Zenon, <2>2
    <2>7. /\ OnlyWholeRecords' /\ out' \in Seq(Seq(DOMAIN file))
          /\ \A k \in DOMAIN out' : (k \in DOMAIN out /\ out'[k] = out[k]) \/ out'[k] = s
          /\ ReadBack \subseteq ReadBack' /\ file[s[1]].rec \in ReadBack'
      BY Zenon, <1>2, <2>1, <2>2, <2>4, <2>5, <2>6, Returned
    <2>8. /\ PassedInv' /\ \A o \in DOMAIN file' : o < rpos' => FragmentEnd(o)' <= rpos'
          /\ rpos' \in Nat /\ h < rpos' /\ rpos <= rpos'
      BY Zenon, <1>0, <1>2, <2>2, <2>7, Advance
    <2>9. OutInv'
      <3>1. \A k \in DOMAIN out : out[k][1] < rpos'
        <4>1. \A k \in DOMAIN out : out[k][1] < rpos /\ out[k][1] \in Nat
          BY Zenon, OutBefore
        <4>2. rpos \in Nat
          BY Zenon DEF LogInv, TypeOK
        <4> QED BY <2>8, <4>1, <4>2
      <3>2. s[1] < rpos'
        <4>1. s[1] \in DOMAIN file /\ h \in Nat /\ rpos \in Nat
          BY Zenon, <1>0, <2>2, SeqFacts, AtHere DEF LogInv, TypeOK
        <4>2. s[1] \in Nat /\ s[1] <= h
          <5>1. s[1] \in Nat /\ h \in Fragments(file[s[1]].rec)
            BY Zenon, <1>2, <2>2, <4>1, Types DEF LogInv, Fragments
          <5> QED BY Zenon, <2>6, <4>1, <5>1 DEF LogInv, FragInv, Linked
        <4> QED BY <2>8, <4>1, <4>2
      <3>3. \A k \in DOMAIN out : out[k] # <<>>
        BY Zenon, OutBefore
      <3>4. ASSUME NEW k \in DOMAIN out' PROVE out'[k] # <<>> /\ out'[k][1] < rpos'
        <4>1. CASE k \in DOMAIN out /\ out'[k] = out[k]
          BY Zenon, <3>1, <3>3, <4>1
        <4>2. CASE out'[k] = s
          BY Zenon, <2>2, <3>2, <4>2
        <4> QED BY Zenon, <2>7, <4>1, <4>2
      <3> QED BY Zenon, <1>1, <3>4 DEF OutInv
    <2> QED
      BY Zenon, <1>2, <1>4, <1>5, <2>7, <2>8, <2>9, ReaderStep DEF LostOnlyBehindGap
  <1> QED BY Zenon, <1>6, <1>7


\* What no fragment covers with data, in front of a completed record in its
\* block, is the gap that BehindGap asks for.
LEMMA GapAt ==
  ASSUME LogInv, NEW o \in DOMAIN file, recs[file[o].rec].done,
         NEW b \in Nat, b < o, o - (o % kBlockSize) <= b, LeftInBlock(b) >= kHeaderSize,
         \A p \in DOMAIN file :
           b < p \/ b >= p + kHeaderSize + IF file[p].payload THEN file[p].len ELSE 0
  PROVE  BehindGap(file[o].rec)
  <1> DEFINE i == file[o].rec
  <1>t. TypeOK
    BY Zenon DEF LogInv
  <1>1. /\ i \in DOMAIN recs /\ FragmentEnd(o) <= recs[i].end /\ recs[i].end <= offset
        /\ o \in Fragments(i)
    BY Zenon DEF LogInv, FragInv, ResInv, Fragments
  <1>2. /\ o \in Nat /\ file[o].len \in Nat /\ FragmentEnd(o) = o + kHeaderSize + file[o].len
        /\ recs[i].end \in Nat /\ offset \in Nat
    BY Zenon, <1>t, <1>1, Types
  <1>h. kHeaderSize \in Nat /\ kBlockSize \in Nat /\ kHeaderSize > 0 /\ kBlockSize > 0
    BY FormatAssumption
  <1>3. b < offset /\ o + kHeaderSize <= recs[i].end
    <2> HIDE DEF i
    <2> QED BY <1>1, <1>2, <1>h
  <1>4. Gap(b)
    BY Zenon, <1>3 DEF Gap
  <1>5. PICK j \in DOMAIN recs : recs[j].start <= b /\ b < recs[j].end
    BY Zenon, <1>3 DEF LogInv, ResInv
  <1>6. recs[j].start \in Nat /\ recs[j].end \in Nat
    BY Zenon, <1>t, Types
  <1>7. b \in recs[j].start..recs[j].end - 1
    BY <1>5, <1>6
  <1>8. recs[j].done => SpareHeader(j, b)
    <2> SUFFICES ASSUME recs[j].done, ~SpareHeader(j, b) PROVE FALSE
      BY Zenon
    <2>1. Written(j, b)
      BY Zenon, <1>5 DEF LogInv, DoneInv
    <2>2. ~(LeftInBlock(b) < kHeaderSize)
      <3>1. LeftInBlock(b) \in Int
        BY <1>h DEF LeftInBlock
      <3> QED BY <1>h, <3>1
    <2>3. PICK p \in Fragments(j) : p <= b /\ b < FragmentEnd(p)
      BY Zenon, <2>1, <2>2 DEF Written
    <2>4. p \in DOMAIN file /\ file[p].payload
      BY Zenon, <2>3 DEF LogInv, DoneInv, Fragments
    <2>5. /\ p \in Nat /\ file[p].len \in Nat
          /\ FragmentEnd(p) = p + kHeaderSize + file[p].len
      BY Zenon, <1>t, <2>4, Types
    <2>6. b < p \/ b >= p + kHeaderSize + file[p].len
      BY Zenon, <2>4
    <2> QED BY <1>h, <2>3, <2>5, <2>6
  <1>9. j # i
    <2> SUFFICES ASSUME j = i PROVE FALSE
      OBVIOUS
    <2>1. b >= recs[i].end - kHeaderSize
      BY Zenon, <1>8 DEF SpareHeader
    <2> HIDE DEF i
    <2> QED BY <1>2, <1>3, <1>h, <2>1
  <1>10. b \in (o - (o % kBlockSize))..(o - 1)
    <2>1. o % kBlockSize \in Int
      BY <1>2, <1>h
    <2> QED BY <1>2, <2>1
  <1>11. LeftOut(j, b) /\ j \in DOMAIN recs \ {i}
    BY Zenon, <1>7, <1>8, <1>9 DEF LeftOut
  <1> QED BY Zenon, <1>1, <1>4, <1>10, <1>11 DEF BehindGap

\* A bad fragment costs the completed records behind it in the block, and it is
\* a gap in front of them.
LEMMA DroppedBehindGap ==
  ASSUME LogInv, NEW h, h = Here, ReadPhysicalRecord(h) = "bad",
         NEW o \in DOMAIN file, h <= o, o < NextBlock(h), recs[file[o].rec].done
  PROVE  BehindGap(file[o].rec)
  <1>t. TypeOK
    BY Zenon DEF LogInv
  <1>1. /\ h \in Nat /\ rpos \in Nat /\ rpos <= h /\ LeftInBlock(h) >= kHeaderSize
        /\ \A p \in DOMAIN file : p < h => FragmentEnd(p) <= rpos
    BY Zenon, <1>t, AtHere DEF TypeOK
  <1>2. \A p \in DOMAIN file :
          /\ p \in Nat /\ file[p].len \in Nat /\ FragmentEnd(p) = p + kHeaderSize + file[p].len
    BY Zenon, <1>t, Types
  <1>h. kHeaderSize \in Nat /\ kBlockSize \in Nat /\ kHeaderSize > 0 /\ kBlockSize > 0
    BY FormatAssumption
  <1>3. CASE h \in DOMAIN file
    <2>1. ~file[h].payload
      <3>1. file[h].type \in {"full", "first", "middle", "last"}
        BY Zenon, <1>t, <1>3, Types
      <3>2. file[h].type # "bad"
        BY <3>1
      <3> QED BY Zenon, <1>3, <3>2 DEF ReadPhysicalRecord
    <2>2. file[h].len > 0 /\ \A p \in DOMAIN file : h < p => FragmentEnd(h) <= p
      BY Zenon, <1>3, <2>1 DEF LogInv, FragInv
    <2>3. o # h
      <3>1. o \in Fragments(file[o].rec) /\ file[o].rec \in DOMAIN recs
        BY Zenon DEF LogInv, FragInv, Fragments
      <3> QED BY Zenon, <2>1, <3>1 DEF LogInv, DoneInv
    <2>4. PICK b : b = h + kHeaderSize
      OBVIOUS
    <2>5. b \in Nat /\ h <= b /\ b < o /\ b < NextBlock(h)
      <3>1. h < o
        BY <1>1, <1>2, <2>3
      <3>2. FragmentEnd(h) <= o /\ FragmentEnd(h) = h + kHeaderSize + file[h].len
            /\ file[h].len \in Nat /\ o \in Nat
        BY Zenon, <1>2, <1>3, <2>2, <3>1
      <3>3. NextBlock(h) \in Int
        BY <1>1, <1>h DEF NextBlock, LeftInBlock
      <3> QED BY <1>1, <1>h, <2>2, <2>4, <3>2, <3>3
    <2>6. o \in Nat /\ b <= o /\ NextBlock(b) = NextBlock(h)
      BY <1>1, <1>2, <2>5, SameBlock
    <2>7. LeftInBlock(o) = LeftInBlock(b) - (o - b) /\ o - (o % kBlockSize) <= b
      BY Zenon, <2>5, <2>6, SameBlock
    <2>8. LeftInBlock(b) >= kHeaderSize
      <3>1. LeftInBlock(o) >= kHeaderSize + file[o].len /\ file[o].len \in Nat
        BY Zenon, <1>2 DEF LogInv, FragInv
      <3>2. LeftInBlock(b) \in Int
        BY <2>5, <1>h DEF LeftInBlock
      <3> QED BY <1>h, <2>5, <2>6, <2>7, <3>1, <3>2
    <2>9. ASSUME NEW p \in DOMAIN file
          PROVE  b < p \/ b >= p + kHeaderSize + IF file[p].payload THEN file[p].len ELSE 0
      <3>0. p \in Nat /\ file[p].len \in Nat /\ FragmentEnd(p) = p + kHeaderSize + file[p].len
        BY Zenon, <1>2
      <3>1. CASE p = h
        BY <1>1, <1>h, <2>1, <2>4, <3>1
      <3>2. CASE p < h
        <4>1. FragmentEnd(p) <= rpos
          BY Zenon, <1>1, <3>2
        <4> QED BY <1>1, <1>h, <2>4, <3>0, <4>1
      <3>3. CASE h < p
        <4>1. FragmentEnd(h) <= p /\ FragmentEnd(h) = h + kHeaderSize + file[h].len
              /\ file[h].len \in Nat
          BY Zenon, <1>2, <1>3, <2>2, <3>3
        <4> QED BY <1>1, <1>h, <2>2, <2>4, <3>0, <4>1
      <3> QED BY <1>1, <3>0, <3>1, <3>2, <3>3
    <2> QED BY Zenon, <2>5, <2>7, <2>8, <2>9, GapAt
  <1>4. CASE h \notin DOMAIN file
    <2>1. o \in Nat /\ h < o
      BY <1>1, <1>2, <1>4
    <2>2. o - (o % kBlockSize) <= h
      BY Zenon, <1>1, <2>1, SameBlock
    <2>3. ASSUME NEW p \in DOMAIN file
          PROVE  h < p \/ h >= p + kHeaderSize + IF file[p].payload THEN file[p].len ELSE 0
      <3>0. p \in Nat /\ file[p].len \in Nat /\ FragmentEnd(p) = p + kHeaderSize + file[p].len
        BY Zenon, <1>2
      <3>1. CASE p < h
        <4>1. FragmentEnd(p) <= rpos
          BY Zenon, <1>1, <3>1
        <4> QED BY <1>1, <1>h, <3>0, <4>1
      <3>2. p # h
        BY Zenon, <1>4
      <3> QED BY <1>1, <3>0, <3>1, <3>2
    <2> QED BY Zenon, <1>1, <2>1, <2>2, <2>3, GapAt
  <1> QED BY Zenon, <1>3, <1>4


LEMMA ReadBadInv == LogInv /\ ReadBad => LogInv'
  <1> SUFFICES ASSUME LogInv, ReadBad PROVE LogInv'
    OBVIOUS
  <1>0. PICK h : h = Here
    BY Zenon
  <1>1. /\ phase = "read" /\ ReadPhysicalRecord(h) = "bad" /\ rpos' = NextBlock(h)
        /\ scratch' = <<>> /\ out' = out
        /\ UNCHANGED <<offset, recs, file, pc, job, failures, phase>>
    BY Zenon, <1>0 DEF ReadBad, Reads, AfterPhysicalRecord
  <1>t. TypeOK
    BY Zenon DEF LogInv
  <1>2. /\ h \in Nat /\ rpos \in Nat /\ rpos <= h /\ LeftInBlock(h) >= kHeaderSize
        /\ \A o \in DOMAIN file : o < h => o < rpos /\ FragmentEnd(o) <= rpos
    BY Zenon, <1>0, <1>t, AtHere DEF TypeOK
  <1>3. \A o \in DOMAIN file :
          o \in Nat /\ file[o].len \in Nat /\ FragmentEnd(o) = o + kHeaderSize + file[o].len
    BY Zenon, <1>t, Types
  <1>h. kHeaderSize \in Nat /\ kBlockSize \in Nat /\ kHeaderSize > 0 /\ kBlockSize > 0
    BY FormatAssumption
  <1>4. rpos' \in Nat /\ h < rpos' /\ rpos <= rpos' /\ rpos' = h + LeftInBlock(h)
    <2>1. LeftInBlock(h) \in 1..kBlockSize /\ NextBlock(h) = h + LeftInBlock(h)
      BY Zenon, <1>2, Blocks
    <2> QED BY <1>1, <1>2, <1>h, <2>1
  <1>5. ~(scratch # <<>> /\ recs[file[scratch[1]].rec].done)
    <2> SUFFICES ASSUME scratch # <<>>, recs[file[scratch[1]].rec].done PROVE FALSE
      BY Zenon
    <2>1. h \in DOMAIN file /\ file[h].payload
      BY Zenon, <1>0, ScratchNext
    <2>2. file[h].type \in {"full", "first", "middle", "last"}
      BY Zenon, <1>t, <2>1, Types
    <2>3. file[h].type # "bad"
      BY <2>2
    <2> QED BY Zenon, <1>1, <2>1, <2>3 DEF ReadPhysicalRecord
  <1>6. OutInv' /\ OnlyWholeRecords' /\ ReadBack' = ReadBack
    BY Zenon, <1>1, <1>4, SameOut
  <1>7. PassedInv'
    <2>1. \A i : BehindGap(i) => BehindGap(i)'
      BY ZenonT(30), <1>1 DEF BehindGap, Fragments, Gap, LeftOut, SpareHeader
    <2>2. ASSUME NEW o \in DOMAIN file, o < rpos', recs[file[o].rec].done
          PROVE  file[o].rec \in ReadBack \/ BehindGap(file[o].rec)
      <3>1. CASE o < rpos
        BY Zenon, <1>5, <2>2, <3>1 DEF LogInv, ReadInv, PassedInv
      <3>2. CASE ~(o < rpos)
        <4>1. ~(o < h)
          BY Zenon, <1>2, <3>2
        <4>2. h <= o
          BY <1>2, <1>3, <4>1
        <4> QED BY Zenon, <1>0, <1>1, <2>2, <4>2, DroppedBehindGap
      <3> QED BY Zenon, <3>1, <3>2
    <2> QED BY Zenon, <1>1, <1>6, <2>1, <2>2 DEF PassedInv
  <1>8. \A o \in DOMAIN file' : o < rpos' => FragmentEnd(o)' <= rpos'
    <2>1. \A o : FragmentEnd(o)' = FragmentEnd(o)
      BY Zenon, <1>1 DEF FragmentEnd
    <2>2. ASSUME NEW o \in DOMAIN file, o < rpos' PROVE FragmentEnd(o) <= rpos'
      <3>0. o \in Nat /\ file[o].len \in Nat /\ FragmentEnd(o) = o + kHeaderSize + file[o].len
        BY Zenon, <1>3
      <3>1. CASE o < h
        <4>1. FragmentEnd(o) <= rpos
          BY Zenon, <1>2, <3>1
        <4> QED BY <1>2, <1>4, <1>h, <3>0, <4>1
      <3>2. CASE h <= o
        <4>1. LeftInBlock(o) = LeftInBlock(h) - (o - h)
          BY Zenon, <1>1, <1>2, <2>2, <3>0, <3>2, SameBlock
        <4>2. LeftInBlock(o) >= kHeaderSize + file[o].len
          BY Zenon DEF LogInv, FragInv
        <4>3. LeftInBlock(h) \in Int
          BY <1>2, <1>h DEF LeftInBlock
        <4> QED BY <1>2, <1>4, <1>h, <3>0, <4>1, <4>2, <4>3
      <3> QED BY <1>2, <3>0, <3>1, <3>2
    <2> QED BY Zenon, <1>1, <2>1, <2>2
  <1>9. ScratchInv'
    BY Zenon, <1>1 DEF ScratchInv
  <1>10. /\ phase' \in {"read", "eof"} /\ phase' # "eof" /\ scratch' \in Seq(DOMAIN file)
         /\ out' \in Seq(Seq(DOMAIN file))
    BY <1>1, <1>t DEF TypeOK
  <1> QED
    BY Zenon, <1>1, <1>4, <1>6, <1>7, <1>8, <1>9, <1>10, ReaderStep DEF LostOnlyBehindGap

LEMMA ReadEofInv == LogInv /\ ReadEof => LogInv'
  <1> SUFFICES ASSUME LogInv, ReadEof PROVE LogInv'
    OBVIOUS
  <1>0. PICK h : h = Here
    BY Zenon
  <1>1. /\ h >= offset /\ phase' = "eof" /\ scratch' = <<>> /\ out' = out /\ rpos' = rpos
        /\ UNCHANGED <<offset, recs, file, pc, job, failures>>
    BY Zenon, <1>0 DEF ReadEof
  <1>t. TypeOK
    BY Zenon DEF LogInv
  <1>2. /\ h \in Nat /\ rpos \in Nat /\ offset \in Nat
        /\ \A o \in DOMAIN file : o < h => o < rpos
    BY Zenon, <1>0, <1>t, AtHere DEF TypeOK
  <1>3. \A o \in DOMAIN file : o < rpos
    <2> SUFFICES ASSUME NEW o \in DOMAIN file PROVE o < h
      BY Zenon, <1>2
    <2>1. /\ file[o].rec \in DOMAIN recs /\ FragmentEnd(o) <= recs[file[o].rec].end
          /\ recs[file[o].rec].end <= offset
      BY Zenon DEF LogInv, FragInv, ResInv
    <2>2. /\ o \in Nat /\ FragmentEnd(o) \in Nat /\ o < FragmentEnd(o)
          /\ recs[file[o].rec].end \in Nat
      BY Zenon, <1>t, <2>1, Types
    <2> QED BY <1>1, <1>2, <2>1, <2>2
  <1>4. ~(scratch # <<>> /\ recs[file[scratch[1]].rec].done)
    <2> SUFFICES ASSUME scratch # <<>>, recs[file[scratch[1]].rec].done PROVE FALSE
      BY Zenon
    <2>1. h < offset
      BY Zenon, <1>0, ScratchNext
    <2> QED BY <1>1, <1>2, <2>1
  <1>5. OutInv' /\ OnlyWholeRecords' /\ ReadBack' = ReadBack
    <2>1. rpos' \in Nat /\ rpos <= rpos'
      BY <1>1, <1>2
    <2> QED BY Zenon, <1>1, <2>1, SameOut
  <1>6. \A i : BehindGap(i) => BehindGap(i)'
    BY ZenonT(30), <1>1 DEF BehindGap, Fragments, Gap, LeftOut, SpareHeader
  <1>7. ASSUME NEW o \in DOMAIN file, recs[file[o].rec].done
        PROVE  file[o].rec \in ReadBack \/ BehindGap(file[o].rec)
    BY Zenon, <1>3, <1>4, <1>7 DEF LogInv, ReadInv, PassedInv
  <1>8. PassedInv'
    BY Zenon, <1>1, <1>5, <1>6, <1>7 DEF PassedInv
  <1>9. LostOnlyBehindGap'
    <2>1. ASSUME NEW i \in DOMAIN recs, recs[i].done
          PROVE  i \in ReadBack \/ BehindGap(i)
      <3>1. PICK o : o \in Fragments(i)
        BY Zenon, <2>1 DEF LogInv, DoneInv
      <3>2. o \in DOMAIN file /\ file[o].rec = i
        BY Zenon, <3>1 DEF Fragments
      <3> QED BY Zenon, <1>7, <2>1, <3>2
    <2> QED BY Zenon, <1>1, <1>5, <1>6, <2>1 DEF LostOnlyBehindGap
  <1>10. \A o \in DOMAIN file' : o < rpos' => FragmentEnd(o)' <= rpos'
    BY Zenon, <1>1 DEF LogInv, ReadInv, FragmentEnd
  <1>11. ScratchInv'
    BY Zenon, <1>1 DEF ScratchInv
  <1>12. /\ phase' \in {"read", "eof"} /\ rpos' \in Nat /\ scratch' \in Seq(DOMAIN file)
         /\ out' \in Seq(Seq(DOMAIN file))
    BY <1>1, <1>t DEF TypeOK
  <1> QED
    BY Zenon, <1>1, <1>5, <1>8, <1>9, <1>10, <1>11, <1>12, ReaderStep


(***************************************************************************)
(* The steps that change neither the file nor the reservations.            *)
(***************************************************************************)

\* A step of t alone, after which t is not writing a record.
LEMMA QuietStep ==
  ASSUME LogInv, phase = "write", UNCHANGED <<offset, recs, file, reader>>,
         NEW t \in Threads, NEW p \in {"idle", "loaded"}, NEW j \in Job,
         pc' = [pc EXCEPT ![t] = p], job' = [job EXCEPT ![t] = j], failures' \in Nat
  PROVE  LogInv'
  <1>t. TypeOK
    BY Zenon DEF LogInv
  <1>1. p \in {"idle", "loaded", "emit", "payload"} /\ p \notin {"emit", "payload"}
    OBVIOUS
  <1>2. /\ pc \in [Threads -> {"idle", "loaded", "emit", "payload"}]
        /\ job \in [Threads -> Job]
    BY Zenon, <1>t DEF TypeOK
  <1>3. /\ pc' \in [Threads -> {"idle", "loaded", "emit", "payload"}]
        /\ job' \in [Threads -> Job]
        /\ pc'[t] = p /\ \A u \in Threads : u # t => pc'[u] = pc[u] /\ job'[u] = job[u]
    BY Zenon, <1>1, <1>2
  <1>4. TypeOK'
    BY Zenon, <1>t, <1>3 DEF TypeOK, reader
  <1>5. \A u \in Threads : Active(u)' => Active(u) /\ pc'[u] = pc[u] /\ job'[u] = job[u]
    BY Zenon, <1>1, <1>3 DEF Active
  <1>6. ResInv' /\ FragInv' /\ DoneInv' /\ JobInv'
    BY Zenon, <1>5, SameFile
  <1>7. ReadInv'
    BY Zenon, <1>t, NotReading DEF TypeOK
  <1> QED BY Zenon, <1>4, <1>6, <1>7 DEF LogInv

LEMMA NoJobType == NoJob \in Job
  BY DEF NoJob, Job

LEMMA LoadInv ==
  ASSUME LogInv, NEW t \in Threads, NEW n \in Sizes, Load(t, n)
  PROVE  LogInv'
  <1>1. /\ phase = "write" /\ UNCHANGED <<offset, recs, file, failures, reader>>
        /\ pc' = [pc EXCEPT ![t] = "loaded"]
        /\ job' = [job EXCEPT ![t] = [@ EXCEPT !.size = n, !.start = offset]]
    BY Zenon DEF Load
  <1>2. /\ job \in [Threads -> Job] /\ offset \in Nat /\ failures \in Nat
    BY Zenon DEF LogInv, TypeOK
  <1>3. n \in Nat
    BY Zenon, FormatAssumption
  <1>4. job[t] \in Job
    BY Zenon, <1>2
  <1>5. PICK j : j = [job[t] EXCEPT !.size = n, !.start = offset]
    BY Zenon
  <1>6. j \in Job
    BY Zenon, <1>2, <1>3, <1>4, <1>5, JobChange
  <1>7. job' = [job EXCEPT ![t] = j] /\ "loaded" \in {"idle", "loaded"}
    BY Zenon, <1>1, <1>5
  <1> QED BY Zenon, <1>1, <1>2, <1>6, <1>7, QuietStep

LEMMA ReloadInv ==
  ASSUME LogInv, NEW t \in Threads, Reload(t)
  PROVE  LogInv'
  <1>1. /\ phase = "write" /\ UNCHANGED <<offset, recs, file, failures, pc, reader>>
        /\ pc[t] = "loaded" /\ job' = [job EXCEPT ![t].start = offset]
    BY Zenon DEF Reload
  <1>2. /\ job \in [Threads -> Job] /\ offset \in Nat /\ failures \in Nat
        /\ pc \in [Threads -> {"idle", "loaded", "emit", "payload"}]
    BY Zenon DEF LogInv, TypeOK
  <1>3. job[t] \in Job
    BY Zenon, <1>2
  <1>4. PICK j : j = [job[t] EXCEPT !.start = offset]
    BY Zenon
  <1>5. j \in Job
    BY Zenon, <1>2, <1>3, <1>4, JobChange
  <1>6. job' = [job EXCEPT ![t] = j] /\ "loaded" \in {"idle", "loaded"}
    BY Zenon, <1>1, <1>4
  <1>7. pc' = [pc EXCEPT ![t] = "loaded"]
    BY <1>1, <1>2
  <1> QED BY Zenon, <1>1, <1>2, <1>5, <1>6, <1>7, QuietStep

LEMMA EmitErrorInv ==
  ASSUME LogInv, NEW t \in Threads, EmitError(t)
  PROVE  LogInv'
  <1>1. /\ phase = "write" /\ UNCHANGED <<offset, recs, file, reader>>
        /\ failures' = failures + 1
        /\ pc' = [pc EXCEPT ![t] = "idle"] /\ job' = [job EXCEPT ![t] = NoJob]
    BY Zenon DEF EmitError
  <1>2. failures' \in Nat
    BY <1>1 DEF LogInv, TypeOK
  <1>3. "idle" \in {"idle", "loaded"}
    OBVIOUS
  <1> QED BY Zenon, <1>1, <1>2, <1>3, NoJobType, QuietStep

LEMMA CrashInv == LogInv /\ Crash => LogInv'
  <1> SUFFICES ASSUME LogInv, Crash PROVE LogInv'
    OBVIOUS
  <1>1. /\ phase = "write" /\ phase' = "read"
        /\ pc' = [t \in Threads |-> "idle"] /\ job' = [t \in Threads |-> NoJob]
        /\ UNCHANGED <<offset, recs, file, failures, rpos, scratch, out>>
    BY Zenon DEF Crash
  <1>2. TypeOK'
    <2>1. /\ pc' \in [Threads -> {"idle", "loaded", "emit", "payload"}]
          /\ job' \in [Threads -> Job] /\ phase' \in {"write", "read", "eof"}
      BY Zenon, <1>1, NoJobType
    <2> QED BY Zenon, <1>1, <2>1 DEF LogInv, TypeOK
  <1>3. \A t \in Threads : ~Active(t)'
    BY <1>1 DEF Active
  <1>4. ResInv' /\ FragInv' /\ DoneInv' /\ JobInv'
    BY Zenon, <1>1, <1>3, SameFile
  <1>5. ReadInv'
    <2>1. rpos' = 0 /\ scratch' = <<>> /\ out' = <<>>
      BY Zenon, <1>1 DEF LogInv, ReadInv
    <2>2. DOMAIN out' = {} /\ phase' # "eof" /\ phase' # "write"
      BY <1>1, <2>1
    <2>3. \A o \in DOMAIN file' : ~(o < rpos')
      <3>1. DOMAIN file' \subseteq Nat
        BY Zenon, <1>1 DEF LogInv, TypeOK
      <3> QED BY <2>1, <3>1
    <2> QED
      BY Zenon, <2>1, <2>2, <2>3 DEF ReadInv, ScratchInv, OutInv, OnlyWholeRecords, PassedInv,
         LostOnlyBehindGap
  <1> QED BY Zenon, <1>2, <1>4, <1>5 DEF LogInv

LEMMA UnchangedInv == LogInv /\ UNCHANGED vars => LogInv'
  <1> SUFFICES ASSUME LogInv, UNCHANGED vars PROVE LogInv'
    OBVIOUS
  <1>1. UNCHANGED <<offset, recs, file, pc, job, failures, phase, rpos, scratch, out>>
    BY Zenon DEF vars, reader
  <1>2. TypeOK'
    BY Zenon, <1>1 DEF LogInv, TypeOK
  <1>3. \A t \in Threads : Active(t)' => Active(t) /\ pc'[t] = pc[t] /\ job'[t] = job[t]
    BY Zenon, <1>1 DEF Active
  <1>4. ResInv' /\ FragInv' /\ DoneInv' /\ JobInv'
    BY Zenon, <1>1, <1>3, SameFile
  <1>5. ReadInv'
    <2>1. /\ \A i : BehindGap(i)' = BehindGap(i)
          /\ \A o : FragmentEnd(o)' = FragmentEnd(o)
          /\ \A x : Whole(x)' = Whole(x)
      BY ZenonT(30), <1>1 DEF BehindGap, Fragments, Gap, LeftOut, SpareHeader, FragmentEnd, Whole
    <2>2. ReadBack' = ReadBack
      BY Zenon, <1>1 DEF ReadBack
    <2>3. ScratchInv' /\ OutInv'
      BY Zenon, <1>1, <2>1 DEF LogInv, ReadInv, ScratchInv, OutInv
    <2>4. OnlyWholeRecords' /\ PassedInv' /\ LostOnlyBehindGap'
      BY Zenon, <1>1, <2>1, <2>2
         DEF LogInv, ReadInv, OnlyWholeRecords, PassedInv, LostOnlyBehindGap
    <2> QED BY Zenon, <1>1, <2>1, <2>3, <2>4 DEF LogInv, ReadInv
  <1> QED BY Zenon, <1>2, <1>4, <1>5 DEF LogInv

LEMMA NextInv == LogInv /\ [Next]_vars => LogInv'
  <1> SUFFICES ASSUME LogInv, [Next]_vars PROVE LogInv'
    OBVIOUS
  <1>1. ASSUME NEW t \in Threads, AddRecord(t) PROVE LogInv'
    <2>1. ASSUME NEW n \in Sizes, Load(t, n) PROVE LogInv'
      BY Zenon, <2>1, LoadInv
    <2>2. CASE Reserve(t)
      BY Zenon, <2>2, ReserveInv
    <2>3. CASE Reload(t)
      BY ZenonT(30), <2>3, ReloadInv
    <2>4. CASE EmitHeader(t)
      BY Zenon, <2>4, EmitHeaderInv
    <2>5. CASE EmitPayload(t)
      BY Zenon, <2>5, EmitPayloadInv
    <2>6. CASE EmitError(t)
      BY Zenon, <2>6, EmitErrorInv
    <2> QED BY Zenon, <1>1, <2>1, <2>2, <2>3, <2>4, <2>5, <2>6 DEF AddRecord
  <1>2. CASE Crash
    BY Zenon, <1>2, CrashInv
  <1>3. CASE ReadFull
    BY ZenonT(30), <1>3, ReadFullInv
  <1>4. CASE ReadFirst
    BY Zenon, <1>4, ReadFirstInv
  <1>5. CASE ReadMiddle
    BY Zenon, <1>5, ReadMiddleInv
  <1>6. CASE ReadLast
    BY Zenon, <1>6, ReadLastInv
  <1>7. CASE ReadBad
    BY Zenon, <1>7, ReadBadInv
  <1>8. CASE ReadEof
    BY Zenon, <1>8, ReadEofInv
  <1>9. CASE UNCHANGED vars
    BY Zenon, <1>9, UnchangedInv
  <1> QED
    BY Zenon, <1>1, <1>2, <1>3, <1>4, <1>5, <1>6, <1>7, <1>8, <1>9 DEF Next, ReadRecord

(***************************************************************************)
(* The theorems.                                                           *)
(***************************************************************************)

\* The invariant of the writers and the reader holds in every state.
THEOREM LogInvariant == Spec => []LogInv
  BY InitInv, NextInv, PTL DEF Spec

\* AddRecord's compare-and-swap hands out ranges that follow each other; what
\* its callers write without a lock stays inside their own range, inside one
\* block, and overlaps nothing.
THEOREM WritersStayApart == Spec => []WritesInReservation
  <1>1. LogInv => WritesInReservation
    BY Zenon DEF LogInv, ResInv, FragInv, WritesInReservation
  <1> QED BY <1>1, LogInvariant, PTL

\* ReadRecord returns only records that were completely written, each put
\* together from its own fragments, none twice and in the order of the file,
\* wherever the crash came.
THEOREM ReaderReturnsWhole == Spec => []OnlyWholeRecords
  <1>1. LogInv => OnlyWholeRecords
    BY Zenon DEF LogInv, ReadInv
  <1> QED BY <1>1, LogInvariant, PTL

\* At the end of the file ReadRecord has returned every completed record, except
\* where another writer has left a gap in front of it in a block.
THEOREM LossesBehindGaps == Spec => []LostOnlyBehindGap
  <1>1. LogInv => LostOnlyBehindGap
    BY Zenon DEF LogInv, ReadInv
  <1> QED BY <1>1, LogInvariant, PTL

============================================================================
