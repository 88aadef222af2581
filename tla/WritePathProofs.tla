------------------------- MODULE WritePathProofs -------------------------
(***************************************************************************)
(* The write path implements the queue of writers: what WriterQueueProofs  *)
(* proves of the queue holds of the whole write path.  Then two parts of   *)
(* the inductive invariant of WritePathRecovery: the tickets of the        *)
(* writers and their turns; and where an open database keeps its data.     *)
(***************************************************************************)
EXTENDS WritePath, FiniteSetTheorems, TLAPS

----------------------------------------------------------------------------
(* The order of numbers, for leaves that hand the rest to first-order logic. *)

\* A number is at most itself.
LEMMA LeqSelf == \A a \in Nat : a <= a /\ ~(a < a)
OBVIOUS

\* Sequence numbers and file numbers in a row.
LEMMA LeqLeq == \A a, b, c \in Nat : a <= b /\ b <= c => a <= c
OBVIOUS

\* As LeqLeq, the first step strict.
LEMMA LtLeq == \A a, b, c \in Nat : a < b /\ b <= c => a < c
OBVIOUS

\* As LeqLeq, the second step strict.
LEMMA LeqLt == \A a, b, c \in Nat : a <= b /\ b < c => a < c /\ a <= c /\ a # c
OBVIOUS

\* A smaller number is another one, and not the larger one.
LEMMA LtNot == \A a, b \in Nat : a < b => a # b /\ ~(b < a) /\ ~(b <= a)
OBVIOUS

\* A step of the queue other than a restart.
QueueStep ==
  \/ \E w \in Writers :
       (\E sw \in BOOLEAN : Q!WriteBegin(w, sw)) \/ Q!WriteStep(w)
  \/ \E r \in Snappers : Q!SnapRead(r) \/ Q!SnapStep(r) \/ Q!SnapRelease(r)
  \/ \E b \in Backers : Q!BackupRequest(b) \/ Q!BackupStep(b)

\* Threads that go through SequenceWriteBegin take a step of the queue or wait.
LEMMA BeginRefines ==
  ASSUME NEW t \in Threads,
         BeginRoom(t) \/ BeginWait(t) \/ BeginSwitch(t) \/ BeginError(t)
  PROVE  QueueStep \/ UNCHANGED queueVars
<1>1. ASSUME NEW sw \in BOOLEAN, t \in Callers, QueueBegin(t, sw) PROVE QueueStep
  BY Zenon, <1>1 DEF QueueBegin, QueueStep, Q!BackupStep
<1>2. CASE BeginRoom(t)
  BY Zenon, <1>1, <1>2 DEF BeginRoom, InBegin
<1>3. CASE BeginWait(t)
  BY Zenon, <1>3 DEF BeginWait
<1>4. CASE BeginSwitch(t)
  BY Zenon, <1>1, <1>4 DEF BeginSwitch, InBegin
<1>5. CASE BeginError(t)
  BY Zenon, <1>5 DEF BeginError, QueueStep, Q!BackupStep
<1> QED BY Zenon, <1>2, <1>3, <1>4, <1>5

\* The rest of an operation.
LEMMA ThreadRefines ==
  ASSUME NEW t \in Threads, ThreadStep(t)
  PROVE  QueueStep \/ UNCHANGED queueVars
<1> USE DEF Threads, Callers
<1>1. CASE BeginRoom(t) \/ BeginWait(t) \/ BeginSwitch(t) \/ BeginError(t)
  BY Zenon, <1>1, BeginRefines
<1>2. CASE QueueOnly(t)
  <2>1. CASE t \in Writers /\ \/ \E d \in BatchSizes : Q!WriteLink(t, d)
                              \/ Q!WriteUnblock(t)
    BY Zenon, <2>1 DEF QueueStep, Q!WriteStep
  <2>2. CASE t \in Callers /\ Q!WriteUnlink(t)
    BY Zenon, <2>2 DEF QueueStep, Q!WriteStep, Q!BackupStep
  <2>3. CASE t \in Snappers /\ \/ Q!SnapRead(t) \/ Q!SnapNoWait(t) \/ Q!SnapWait(t)
                               \/ Q!SnapSleepAgain(t) \/ Q!SnapLeave(t)
                               \/ Q!SnapRelease(t)
    BY Zenon, <2>3 DEF QueueStep, Q!SnapStep
  <2>4. CASE t \in Backers /\ \/ Q!BackupTurn(t) \/ Q!WriteLink(t, 0)
                              \/ Q!BackupReleaseAhead(t) \/ Q!BackupHead(t)
                              \/ Q!BackupStart(t)
    BY Zenon, <2>4 DEF QueueStep, Q!BackupStep
  <2> QED BY Zenon, <1>2, <2>1, <2>2, <2>3, <2>4 DEF QueueOnly
<1>3. CASE \E g \in 0..MaxGuards : LogAppend(t, g)
  BY Zenon, <1>3 DEF LogAppend
<1>4. ASSUME t \in Callers, Q!WriteEnd(t) PROVE QueueStep
  BY Zenon, <1>4 DEF QueueStep, Q!WriteStep, Q!BackupStep
<1>5. CASE EndInsert(t) \/ EndError(t) \/ EndBackup(t)
  BY Zenon, <1>4, <1>5 DEF EndInsert, EndError, EndBackup
<1>6. CASE Return(t)
  BY Zenon, <1>6 DEF Return, QueueStep, Q!WriteStep, Q!SnapStep, Q!BackupStep
<1>7. CASE BackupRequest(t)
  BY Zenon, <1>7 DEF BackupRequest, QueueStep, Q!BackupRequest
<1>8. CASE BackupOccupy(t) \/ BackupFinish(t)
  BY Zenon, <1>8 DEF BackupOccupy, BackupFinish, QueueStep, Q!BackupStep
<1>9. CASE \/ BackupList(t) \/ BackupUnlock(t)
           \/ \E f \in {0} \cup DOMAIN logs : BackupCopy(t, f)
  BY Zenon, <1>9 DEF BackupList, BackupCopy, BackupUnlock
<1> QED BY ZenonT(30), <1>1, <1>2, <1>3, <1>5, <1>6, <1>7, <1>8, <1>9 DEF ThreadStep

----------------------------------------------------------------------------
SeqBase ==
  /\ upper \in Nat
  /\ lastSeq \in Nat /\ lastSeq <= upper
  /\ last \in [Threads -> Nat]
  /\ first \in [Threads -> Int]
  /\ \A t \in Threads : last[t] <= upper

\* Sequence numbers only rise.
Rises == upper <= upper' /\ lastSeq <= lastSeq'

\* The queue hands out sequence numbers upwards.
LEMMA QueueStepSeq ==
  SeqBase /\ (QueueStep \/ UNCHANGED queueVars) => SeqBase' /\ Rises
<1> SUFFICES ASSUME SeqBase, QueueStep \/ UNCHANGED queueVars
             PROVE  SeqBase' /\ Rises
  BY Zenon
<1>1. ASSUME UNCHANGED <<upper, lastSeq, first, last>> PROVE SeqBase' /\ Rises
  BY <1>1 DEF Rises, SeqBase
<1>2. ASSUME NEW t \in Threads, NEW d \in Nat, Q!WriteLink(t, d)
      PROVE  SeqBase' /\ Rises
  BY <1>2 DEF Rises, SeqBase, Q!WriteLink, Q!Ticket
<1>3. ASSUME NEW t \in Threads, Q!WriteEnd(t) \/ Q!BackupStart(t)
      PROVE  SeqBase' /\ Rises
  BY <1>3 DEF Rises, SeqBase, Q!WriteEnd, Q!BackupStart, Q!Max2
<1>4. ASSUME NEW t \in Threads, Q!WriteReturn(t) \/ Q!SnapReturn(t)
      PROVE  SeqBase' /\ Rises
  BY <1>4 DEF Rises, SeqBase, Q!WriteReturn, Q!SnapReturn, Q!Destroy
<1>5. ASSUME NEW w \in Writers, NEW sw \in BOOLEAN, Q!WriteBegin(w, sw)
      PROVE  UNCHANGED <<upper, lastSeq, first, last>>
  BY Zenon, <1>5 DEF Q!WriteBegin, Q!seqVars
<1>6. ASSUME NEW w \in Threads, Q!WriteUnblock(w) \/ Q!WriteUnlink(w)
      PROVE  UNCHANGED <<upper, lastSeq, first, last>>
  BY Zenon, <1>6 DEF Q!WriteUnblock, Q!WriteUnlink, Q!seqVars
<1>7. ASSUME NEW r \in Snappers,
             \/ Q!SnapRead(r) \/ Q!SnapNoWait(r) \/ Q!SnapWait(r)
             \/ Q!SnapSleepAgain(r) \/ Q!SnapLeave(r) \/ Q!SnapRelease(r)
      PROVE  UNCHANGED <<upper, lastSeq, first, last>>
  BY Zenon, <1>7 DEF Q!SnapRead, Q!SnapNoWait, Q!SnapWait, Q!SnapSleepAgain,
              Q!SnapLeave, Q!SnapRelease, Q!seqVars
<1>8. ASSUME NEW b \in Backers,
             \/ Q!BackupRequest(b) \/ Q!BackupTurn(b) \/ Q!BackupReleaseAhead(b)
             \/ \E ok, sw \in BOOLEAN : Q!BackupBegin(b, ok, sw)
             \/ Q!BackupHead(b) \/ Q!BackupOccupy(b) \/ Q!BackupFinish(b)
      PROVE  UNCHANGED <<upper, lastSeq, first, last>>
  BY Zenon, <1>8 DEF Q!BackupRequest, Q!BackupTurn, Q!BackupReleaseAhead, Q!BackupBegin,
              Q!BackupHead, Q!BackupOccupy, Q!BackupFinish, Q!seqVars
<1>9. CASE \E w \in Writers :
             (\E sw \in BOOLEAN : Q!WriteBegin(w, sw)) \/ Q!WriteStep(w)
  BY ZenonT(30), <1>9, <1>1, <1>2, <1>3, <1>4, <1>5, <1>6, PathAssumption
     DEF Q!WriteStep, Threads
<1>10. CASE \E r \in Snappers : Q!SnapRead(r) \/ Q!SnapStep(r) \/ Q!SnapRelease(r)
  BY Zenon, <1>10, <1>1, <1>4, <1>7 DEF Q!SnapStep, Threads
<1>11. CASE \E b \in Backers : Q!BackupRequest(b) \/ Q!BackupStep(b)
  BY ZenonT(30), <1>11, <1>1, <1>2, <1>3, <1>4, <1>6, <1>8 DEF Q!BackupStep, Threads
<1>12. CASE UNCHANGED queueVars
  BY Zenon, <1>12, <1>1 DEF queueVars
<1> QED BY Zenon, <1>9, <1>10, <1>11, <1>12 DEF QueueStep

----------------------------------------------------------------------------
Record == [first : Int, top : Int]

\* The log files ls hold records; in those that a recovery with log_number_ m
\* would replay, the sequence numbers do not exceed the bound.
LogsOK(ls, m, bound) ==
  /\ IsFiniteSet(DOMAIN ls) /\ DOMAIN ls \subseteq Nat
  /\ \A n \in DOMAIN ls : ls[n] \in Seq(Record)
  /\ \A n \in DOMAIN ls : n >= m =>
       \A i \in DOMAIN ls[n] : ls[n][i].top \in Int /\ ls[n][i].top <= bound

\* Fewer live logs, and a larger bound, do no harm.
LEMMA LogsMonotone ==
  ASSUME NEW ls, NEW m \in Nat, NEW b \in Int, NEW m2 \in Nat, NEW b2 \in Int,
         m <= m2, b <= b2, LogsOK(ls, m, b)
  PROVE  LogsOK(ls, m2, b2)
BY DEF LogsOK

\* Deleting files does no harm.
LEMMA LogsRestrict ==
  ASSUME NEW ls, NEW m \in Nat, NEW b \in Int, LogsOK(ls, m, b),
         NEW S \in SUBSET DOMAIN ls
  PROVE  LogsOK([n \in S |-> ls[n]], m, b)
<1>1. IsFiniteSet(S)
  BY Zenon, FS_Subset DEF LogsOK
<1> QED BY Zenon, <1>1 DEF LogsOK

\* A new, empty log.
LEMMA LogsNew ==
  ASSUME NEW ls, NEW m \in Nat, NEW b \in Int, LogsOK(ls, m, b), NEW k \in Nat
  PROVE  LogsOK([n \in DOMAIN ls \cup {k} |-> IF n = k THEN <<>> ELSE ls[n]], m, b)
<1>1. IsFiniteSet(DOMAIN ls \cup {k})
  BY Zenon, FS_AddElement DEF LogsOK
<1>2. <<>> \in Seq(Record) /\ DOMAIN <<>> = {}
  OBVIOUS
<1> QED BY Zenon, <1>1, <1>2 DEF LogsOK

\* A record appended to one of the logs.
LEMMA LogsAppend ==
  ASSUME NEW ls, NEW m \in Nat, NEW b \in Int, LogsOK(ls, m, b), NEW k,
         NEW r \in Record, r.top <= b
  PROVE  LogsOK([n \in DOMAIN ls |-> IF n = k THEN Append(ls[n], r) ELSE ls[n]], m, b)
<1> DEFINE new == [n \in DOMAIN ls |-> IF n = k THEN Append(ls[n], r) ELSE ls[n]]
<1>1. ASSUME NEW s \in Seq(Record)
      PROVE  /\ Append(s, r) \in Seq(Record)
             /\ \A i \in DOMAIN Append(s, r) :
                  Append(s, r)[i] = r \/ (i \in DOMAIN s /\ Append(s, r)[i] = s[i])
  BY <1>1
<1>2. r.top \in Int
  BY Zenon DEF Record
<1>3. \A n \in DOMAIN ls : new[n] \in Seq(Record)
  BY Zenon, <1>1 DEF LogsOK
<1>4. ASSUME NEW n \in DOMAIN ls, n >= m, NEW i \in DOMAIN new[n]
      PROVE  new[n][i].top \in Int /\ new[n][i].top <= b
  BY Zenon, <1>1, <1>2, <1>4 DEF LogsOK
<1> QED BY Zenon, <1>3, <1>4 DEF LogsOK

----------------------------------------------------------------------------
\* The sequence numbers that a recovery would find lie within the numbers
\* handed out, up to the guard records that a log record counts besides its
\* updates.
DiskInv ==
  /\ manifest.seq \in Nat /\ manifest.seq <= upper
  /\ edit.seq \in Nat /\ edit.seq <= upper
  /\ LogsOK(logs, manifest.log, upper + MaxGuards)

\* log_number_ never falls, on disk or on its way there.
NumberInv ==
  /\ manifest.log \in Nat /\ manifest.next \in Nat
  /\ manifest.log <= manifest.next
  /\ mode # "down" => /\ logNum \in Nat /\ nextFile \in Nat
                      /\ manifest.log <= logNum /\ logNum < nextFile
  /\ memPc \in {"built", "logging", "logged"} =>
       edit.log \in Nat /\ manifest.log <= edit.log /\ edit.log <= logNum
  /\ memPc \in {"logging", "logged"} =>
       edit.next \in Nat /\ edit.log <= edit.next
  /\ mode # "open" => memPc = "check"

PathInv == SeqBase /\ DiskInv /\ NumberInv

\* A crash restarts the queue at a sequence number in its range.
LEMMA CrashRefines == PathInv /\ Crash => Q!Next
<1> SUFFICES ASSUME PathInv, Crash PROVE Q!Next
  BY Zenon
<1>1. PICK n \in StoredSequences :
        (\A m \in StoredSequences : m <= n) /\ Q!Restart(n)
  BY Zenon DEF Crash
<1>2. n \in Int /\ n <= upper + MaxGuards
  BY PathAssumption DEF StoredSequences, LiveLogs, LogsOK, PathInv, SeqBase, DiskInv
<1>3. manifest.seq <= n
  BY Zenon, <1>1 DEF StoredSequences
<1>4. n \in 0..(upper + MaxGuards)
  BY <1>2, <1>3, PathAssumption DEF PathInv, SeqBase, DiskInv
<1> QED BY Zenon, <1>1, <1>4 DEF Q!Next

\* Every step of the write path is a step of the queue or leaves it alone.
LEMMA StepRefines == PathInv /\ [Next]_vars => [Q!Next]_(Q!vars)
<1> SUFFICES ASSUME PathInv, [Next]_vars PROVE Q!Next \/ UNCHANGED queueVars
  BY Zenon DEF queueVars, Q!vars, Q!listVars, Q!seqVars, Q!gateVars, Q!ghostVars
<1>1. CASE \E t \in Threads : ThreadStep(t)
  BY Zenon, <1>1, ThreadRefines DEF QueueStep, Q!Next
<1>2. CASE MemThread
  BY Zenon, <1>2 DEF MemThread, MemCheck, MemBuilt, MemOccupy, MemManifest, MemInstall,
              MemError
<1>3. CASE Crash
  BY Zenon, <1>3, CrashRefines
<1>4. CASE (\E bad \in SUBSET LiveLogs : Recover(bad)) \/ Open
  BY Zenon, <1>4 DEF Recover, Open
<1>5. CASE UNCHANGED vars
  BY Zenon, <1>5 DEF vars
<1> QED BY Zenon, <1>1, <1>2, <1>3, <1>4, <1>5 DEF Next

----------------------------------------------------------------------------
\* A step that leaves the files and their numbers alone.
LEMMA QuietPath ==
  ASSUME PathInv, SeqBase', upper <= upper',
         UNCHANGED <<logs, manifest, edit, logNum, nextFile, mode>>,
         UNCHANGED memPc \/ SignalMemThread
  PROVE  PathInv'
<1>1. LogsOK(logs, manifest.log, upper' + MaxGuards)
  BY LogsMonotone, PathAssumption DEF PathInv, DiskInv, NumberInv, SeqBase
<1>2. DiskInv'
  BY <1>1 DEF PathInv, DiskInv, SeqBase
<1>3. NumberInv'
  BY Zenon DEF PathInv, NumberInv, SignalMemThread
<1> QED BY Zenon, <1>2, <1>3 DEF PathInv

\* A step that only changes log files.
LEMMA LogsPath ==
  ASSUME PathInv, SeqBase', upper <= upper',
         UNCHANGED <<manifest, edit, logNum, nextFile, mode, memPc>>,
         LogsOK(logs', manifest.log, upper + MaxGuards)
  PROVE  PathInv'
<1>1. LogsOK(logs', manifest.log, upper' + MaxGuards)
  BY LogsMonotone, PathAssumption DEF PathInv, DiskInv, NumberInv, SeqBase
<1>2. DiskInv'
  BY <1>1 DEF PathInv, DiskInv, SeqBase
<1>3. NumberInv'
  BY Zenon DEF PathInv, NumberInv
<1> QED BY Zenon, <1>2, <1>3 DEF PathInv

\* DeleteObsoleteFiles.
LEMMA DeletePath ==
  ASSUME PathInv, NEW k, DeleteObsolete(k)
  PROVE  LogsOK(logs', manifest.log, upper + MaxGuards)
<1> DEFINE S == {m \in DOMAIN logs : m >= k}
<1>1. S \in SUBSET DOMAIN logs
  BY Zenon
<1>2. LogsOK([n \in S |-> logs[n]], manifest.log, upper + MaxGuards)
  BY <1>1, LogsRestrict, PathAssumption DEF PathInv, DiskInv, NumberInv, SeqBase
<1> QED BY Zenon, <1>2 DEF DeleteObsolete, PathInv, DiskInv

\* The threads of the users.
LEMMA ThreadPath ==
  ASSUME PathInv, NEW t \in Threads, ThreadStep(t)
  PROVE  PathInv'
<1>1. SeqBase' /\ upper <= upper'
  BY Zenon, ThreadRefines, QueueStepSeq DEF PathInv, Rises
<1>2. CASE BeginRoom(t) \/ BeginWait(t) \/ BeginError(t)
  BY Zenon, <1>1, <1>2, QuietPath
     DEF BeginRoom, BeginWait, BeginError, diskVars, versionVars, threadVars
<1>3. CASE BeginSwitch(t)
  <2>1. nextFile \in Nat /\ mode = "open" /\ logNum' = nextFile
    BY Zenon, <1>3 DEF BeginSwitch, InBegin, PathInv, NumberInv
  <2>2. LogsOK(logs', manifest.log, upper + MaxGuards)
    <3>1. /\ manifest.log \in Nat /\ upper + MaxGuards \in Int
          /\ LogsOK(logs, manifest.log, upper + MaxGuards)
      BY PathAssumption DEF PathInv, DiskInv, NumberInv, SeqBase
    <3>2. LogsOK([n \in DOMAIN logs \cup {nextFile} |->
                    IF n = nextFile THEN <<>> ELSE logs[n]],
                 manifest.log, upper + MaxGuards)
      BY ZenonT(30), <2>1, <3>1, LogsNew
    <3> QED BY Zenon, <1>3, <3>2 DEF BeginSwitch
  <2>3. LogsOK(logs', manifest.log, upper' + MaxGuards)
    <3>1. manifest.log \in Nat /\ upper \in Nat /\ upper' \in Nat /\ upper <= upper'
      BY Zenon, <1>1 DEF PathInv, NumberInv, SeqBase, Rises
    <3>2. /\ upper + MaxGuards \in Int /\ upper' + MaxGuards \in Int
          /\ upper + MaxGuards <= upper' + MaxGuards /\ manifest.log <= manifest.log
      BY <3>1, PathAssumption
    <3> QED BY ZenonT(30), <2>2, <3>1, <3>2, LogsMonotone
  <2>4. DiskInv'
    BY SMTT(30), <1>1, <1>3, <2>3 DEF BeginSwitch, threadVars, PathInv, DiskInv, SeqBase
  <2>5. NumberInv'
    BY <1>3, <2>1 DEF BeginSwitch, threadVars, PathInv, NumberInv
  <2> QED BY Zenon, <1>1, <2>4, <2>5 DEF PathInv
<1>4. CASE QueueOnly(t)
  BY Zenon, <1>1, <1>4, QuietPath
     DEF QueueOnly, pathVars, memVars, diskVars, versionVars, threadVars
<1>5. CASE \E g \in 0..MaxGuards : LogAppend(t, g)
  <2>1. PICK g \in 0..MaxGuards : LogAppend(t, g)
    BY Zenon, <1>5
  <2> DEFINE r == [first |-> first[t], top |-> last[t] + g - 1]
  <2>2. r \in Record /\ r.top <= upper + MaxGuards
    BY PathAssumption DEF Record, PathInv, SeqBase
  <2>3. logs' = [n \in DOMAIN logs |->
                   IF n = wlog[t] THEN Append(logs[n], r) ELSE logs[n]]
    BY Zenon, <2>1 DEF LogAppend
  <2> HIDE DEF r
  <2>4. LogsOK(logs', manifest.log, upper + MaxGuards)
    <3>1. /\ manifest.log \in Nat /\ upper + MaxGuards \in Int
          /\ LogsOK(logs, manifest.log, upper + MaxGuards)
      BY PathAssumption DEF PathInv, DiskInv, NumberInv, SeqBase
    <3>2. LogsOK([n \in DOMAIN logs |->
                    IF n = wlog[t] THEN Append(logs[n], r) ELSE logs[n]],
                 manifest.log, upper + MaxGuards)
      BY ZenonT(30), <2>2, <3>1, LogsAppend
    <3> QED BY Zenon, <2>3, <3>2
  <2> QED BY Zenon, <1>1, <2>1, <2>4, LogsPath DEF LogAppend, versionVars, threadVars
<1>6. CASE EndInsert(t) \/ EndError(t) \/ EndBackup(t)
  BY Zenon, <1>1, <1>6, QuietPath
     DEF EndInsert, EndError, EndBackup, pathVars, memVars, diskVars, versionVars,
         threadVars
<1>7. CASE Return(t)
  BY Zenon, <1>1, <1>7, QuietPath DEF Return, diskVars, versionVars
<1>8. CASE BackupRequest(t) \/ BackupOccupy(t) \/ BackupFinish(t) \/ BackupList(t)
  BY Zenon, <1>1, <1>8, QuietPath
     DEF BackupRequest, BackupOccupy, BackupFinish, BackupList, memVars, diskVars,
         versionVars, threadVars
<1>9. CASE \E f \in {0} \cup DOMAIN logs : BackupCopy(t, f)
  BY Zenon, <1>1, <1>9, QuietPath
     DEF BackupCopy, memVars, diskVars, versionVars, threadVars
<1>10. CASE BackupUnlock(t)
  <2>1. LogsOK(logs', manifest.log, upper + MaxGuards)
    BY Zenon, <1>10, DeletePath DEF BackupUnlock, PathInv, DiskInv
  <2> QED BY Zenon, <1>1, <1>10, <2>1, LogsPath DEF BackupUnlock, memVars, versionVars
<1> QED
  BY ZenonT(30), <1>2, <1>3, <1>4, <1>5, <1>6, <1>7, <1>8, <1>9, <1>10 DEF ThreadStep

\* The memtable thread.
LEMMA MemPath ==
  ASSUME PathInv, MemThread
  PROVE  PathInv'
<1>1. UNCHANGED queueVars
  BY Zenon DEF MemThread, MemCheck, MemBuilt, MemOccupy, MemManifest, MemInstall, MemError
<1>2. SeqBase' /\ upper' = upper /\ lastSeq' = lastSeq
  BY Zenon, <1>1, QueueStepSeq DEF PathInv, queueVars
<1>3. mode = "open" /\ mode' = mode
  BY Zenon DEF MemThread, MemCheck, MemBuilt, MemOccupy, MemManifest, MemInstall, MemError
<1>4. ASSUME UNCHANGED <<logs, manifest, logNum>>,
             nextFile' \in Nat, nextFile <= nextFile',
             edit'.seq \in Nat /\ edit'.seq <= upper,
             memPc' \in {"built", "logging", "logged"} =>
               edit'.log \in Nat /\ manifest.log <= edit'.log /\ edit'.log <= logNum,
             memPc' \in {"logging", "logged"} =>
               edit'.next \in Nat /\ edit'.log <= edit'.next
      PROVE  PathInv'
  BY <1>2, <1>3, <1>4 DEF PathInv, DiskInv, NumberInv
<1>5. CASE MemCheck
  <2>1. UNCHANGED <<logs, manifest, logNum>>
    BY Zenon, <1>5 DEF MemCheck, memVars, diskVars
  <2>2. memPc' = "asleep" \/ memPc' = "building"
    BY Zenon, <1>5 DEF MemCheck
  <2>3. nextFile \in Nat /\ (nextFile' = nextFile \/ nextFile' = nextFile + 1)
    BY Zenon, <1>3, <1>5 DEF MemCheck, PathInv, NumberInv
  <2>4. edit' = edit \/ edit'.seq = 0
    BY <1>5 DEF MemCheck
  <2>5. edit'.seq \in Nat /\ edit'.seq <= upper
    BY <2>4 DEF PathInv, DiskInv, SeqBase
  <2> QED BY <1>4, <2>1, <2>2, <2>3, <2>5
<1>6. CASE MemBuilt
  <2>1. UNCHANGED <<logs, manifest, logNum, nextFile>> /\ memPc' = "built"
    BY Zenon, <1>6 DEF MemBuilt, memVars, diskVars, versionVars
  <2>2. edit'.log = logNum /\ edit'.seq = 0
    BY Zenon, <1>6 DEF MemBuilt
  <2>3. nextFile \in Nat /\ logNum \in Nat /\ manifest.log <= logNum
    BY Zenon, <1>3 DEF PathInv, NumberInv
  <2>4. edit'.seq \in Nat /\ edit'.seq <= upper
    BY <2>2 DEF PathInv, SeqBase
  <2> QED BY <1>4, <2>1, <2>2, <2>3, <2>4
<1>7. CASE MemOccupy
  <2>1. /\ UNCHANGED <<logs, manifest, logNum, nextFile>>
        /\ memPc = "built" /\ memPc' = "logging"
    BY Zenon, <1>7 DEF MemOccupy, memVars, diskVars, versionVars
  <2>2. edit'.log = edit.log /\ edit'.seq = lastSeq /\ edit'.next = nextFile
    BY Zenon, <1>7 DEF MemOccupy
  <2>3. /\ nextFile \in Nat /\ logNum \in Nat /\ logNum < nextFile
        /\ edit.log \in Nat /\ manifest.log <= edit.log /\ edit.log <= logNum
    BY Zenon, <1>3, <2>1 DEF PathInv, NumberInv
  <2>4. edit'.seq \in Nat /\ edit'.seq <= upper
    BY Zenon, <2>2 DEF PathInv, SeqBase
  <2>5. edit'.next \in Nat /\ edit'.log <= edit'.next
    BY <2>2, <2>3
  <2>6. nextFile' \in Nat /\ nextFile <= nextFile' /\ UNCHANGED <<logs, manifest, logNum>>
    BY ZenonT(30), <2>1, <2>3, LeqSelf
  <2>7. edit'.log \in Nat /\ manifest.log <= edit'.log /\ edit'.log <= logNum
    BY ZenonT(30), <2>2, <2>3
  <2> QED BY ZenonT(30), <1>4, <2>4, <2>5, <2>6, <2>7
<1>8. ASSUME manifest' = ManifestAfterEdit, memPc = "logging",
             UNCHANGED <<logs, logNum, nextFile>>,
             edit'.seq \in Nat /\ edit'.seq <= upper,
             edit' = edit \/ memPc' = "check"
      PROVE  PathInv'
  <2>1. LogsOK(logs, edit.log, upper + MaxGuards)
    BY <1>8, LogsMonotone, PathAssumption DEF PathInv, DiskInv, NumberInv, SeqBase
  <2>2. DiskInv'
    BY Zenon, <1>2, <1>8, <2>1 DEF ManifestAfterEdit, PathInv, DiskInv
  <2>3. NumberInv'
    BY <1>3, <1>8 DEF ManifestAfterEdit, PathInv, NumberInv
  <2> QED BY ZenonT(30), <1>2, <2>2, <2>3 DEF PathInv
<1>9. CASE MemManifest
  BY Zenon, <1>8, <1>9 DEF MemManifest, memVars, versionVars, PathInv, DiskInv
<1>10. CASE MemError
  <2>1. edit'.seq \in Nat /\ edit'.seq <= upper
    BY <1>10 DEF MemError, NoEdit, PathInv, SeqBase
  <2>2. CASE manifest' = manifest
    BY <1>4, <1>10, <2>1, <2>2 DEF MemError, versionVars, PathInv, NumberInv
  <2>3. CASE manifest' = ManifestAfterEdit /\ memPc = "logging"
    BY ZenonT(30), <1>8, <1>10, <2>1, <2>3 DEF MemError, versionVars
  <2> QED BY ZenonT(30), <1>10, <2>2, <2>3 DEF MemError
<1>11. CASE MemInstall
  <2>1. LogsOK(logs', manifest.log, upper + MaxGuards)
    BY ZenonT(30), <1>11, DeletePath DEF MemInstall
  <2>2. DiskInv'
    BY <1>2, <1>11, <2>1 DEF MemInstall, NoEdit, PathInv, DiskInv, SeqBase
  <2>3. NumberInv'
    BY Zenon, <1>3, <1>11 DEF MemInstall, PathInv, NumberInv
  <2> QED BY Zenon, <1>2, <2>2, <2>3 DEF PathInv
<1> QED BY ZenonT(30), <1>5, <1>6, <1>7, <1>9, <1>10, <1>11 DEF MemThread

\* A crash: the numbers restart from the largest one stored.
LEMMA CrashPath ==
  ASSUME PathInv, Crash
  PROVE  PathInv'
<1>1. PICK n \in StoredSequences :
        (\A m \in StoredSequences : m <= n) /\ Q!Restart(n)
  BY Zenon DEF Crash
<1>a. /\ manifest.seq \in Nat
      /\ \A m \in DOMAIN logs : m >= manifest.log =>
            \A i \in DOMAIN logs[m] : logs[m][i].top \in Int
  BY Zenon DEF LogsOK, PathInv, DiskInv
<1>2. n \in Int /\ manifest.seq <= n
  BY <1>1, <1>a DEF StoredSequences, LiveLogs
<1>b. upper' = n /\ lastSeq' = n
  BY Zenon, <1>1 DEF Q!Restart
<1>3. upper' = n /\ lastSeq' = n /\ n \in Nat
  BY <1>2, <1>a, <1>b
<1>4. SeqBase'
  BY <1>1, <1>3 DEF Q!Restart, SeqBase, Threads, Q!Threads
<1>5. UNCHANGED <<logs, manifest>> /\ edit' = NoEdit /\ mode' = "down" /\ memPc' = "check"
  BY Zenon DEF Crash, diskVars
<1>6. LogsOK(logs, manifest.log, n)
  BY <1>1 DEF PathInv, DiskInv, LogsOK, StoredSequences, LiveLogs
<1>7. LogsOK(logs, manifest.log, n + MaxGuards)
  BY <1>3, <1>6, LogsMonotone, PathAssumption DEF PathInv, NumberInv
<1>8. DiskInv'
  BY <1>2, <1>3, <1>5, <1>7 DEF DiskInv, PathInv, NoEdit
<1>9. NumberInv'
  BY Zenon, <1>5 DEF PathInv, NumberInv
<1> QED BY ZenonT(30), <1>4, <1>8, <1>9 DEF PathInv

\* Replaying finitely many logs writes finitely many tables.
LEMMA ReplayFinite ==
  ASSUME PathInv, NEW bad
  PROVE  IsFiniteSet(ReplayTables(bad))
<1>1. IsFiniteSet(LiveLogs)
  BY Zenon, FS_Subset DEF LiveLogs, PathInv, DiskInv, LogsOK
<1> DEFINE Tables(n) == {n} \X (1..(NumTables(logs[n]) - IF n \in bad THEN 1 ELSE 0))
<1>2. ASSUME NEW n \in LiveLogs PROVE IsFiniteSet(Tables(n))
  <2>1. logs[n] \in Seq(Record)
    BY Zenon DEF LiveLogs, PathInv, DiskInv, LogsOK
  <2>2. NumTables(logs[n]) \in Int
    BY <2>1, PathAssumption DEF NumTables
  <2>3. NumTables(logs[n]) - (IF n \in bad THEN 1 ELSE 0) \in Int
    BY <2>2
  <2>4. IsFiniteSet(1..(NumTables(logs[n]) - IF n \in bad THEN 1 ELSE 0))
    BY <2>3, FS_Interval
  <2> QED BY Zenon, <2>4, FS_Singleton, FS_Product
<1>3. IsFiniteSet({Tables(n) : n \in LiveLogs})
  <2> DEFINE T == {Tables(n) : n \in LiveLogs}
             f == [n \in LiveLogs |-> Tables(n)]
  <2>1. f \in [LiveLogs -> T]
    BY Zenon
  <2>2. \A y \in T : \E n \in LiveLogs : f[n] = y
    BY Zenon
  <2>3. f \in Surjection(LiveLogs, T)
    BY Zenon, <2>1, <2>2 DEF Surjection
  <2> HIDE DEF f, T
  <2> QED BY Zenon, <1>1, <2>3, FS_Surjection DEF T
<1>4. IsFiniteSet(UNION {Tables(n) : n \in LiveLogs})
  BY Zenon, <1>2, <1>3, FS_UNION
<1> QED BY Zenon, <1>4 DEF ReplayTables

\* DB::Open: the new log has a number above the ones in use and is empty.
LEMMA RecoverPath ==
  ASSUME PathInv, NEW bad \in SUBSET LiveLogs, Recover(bad)
  PROVE  PathInv'
<1>1. UNCHANGED <<upper, lastSeq, first, last>> /\ mode' = "recovering"
  BY Zenon DEF Recover, queueVars
<1>2. SeqBase'
  BY Zenon, <1>1 DEF SeqBase, PathInv
<1>3. PICK base \in {manifest.next + 1} \cup {n + 1 : n \in LiveLogs} :
        base > manifest.next /\ logNum' = base + Cardinality(ReplayTables(bad))
  BY ZenonT(30) DEF Recover
<1>4. base \in Nat
  BY DEF PathInv, NumberInv, DiskInv, LiveLogs, LogsOK
<1>5. IsFiniteSet(ReplayTables(bad))
  BY Zenon, ReplayFinite
<1>6. logNum' \in Nat /\ manifest.log <= logNum'
  BY <1>3, <1>4, <1>5, FS_CardinalityType DEF PathInv, NumberInv
<1>7. manifest' = [log |-> logNum', seq |-> lastSeq, next |-> logNum' + 1,
                   tables |-> tables'] /\ nextFile' = logNum' + 1
  BY Zenon DEF Recover
<1>8. LogsOK(logs', manifest'.log, upper' + MaxGuards)
  <2>1. /\ manifest.log \in Nat /\ upper + MaxGuards \in Int
        /\ LogsOK(logs, manifest.log, upper + MaxGuards)
    <3>1. /\ manifest.log \in Nat /\ upper \in Nat /\ MaxGuards \in Nat
          /\ LogsOK(logs, manifest.log, upper + MaxGuards)
      BY Zenon, PathAssumption DEF PathInv, DiskInv, NumberInv, SeqBase
    <3>2. upper + MaxGuards \in Int
      BY <3>1
    <3> QED BY Zenon, <3>1, <3>2
  <2>2. LogsOK([n \in DOMAIN logs \cup {logNum'} |->
                  IF n = logNum' THEN <<>> ELSE logs[n]],
               manifest.log, upper + MaxGuards)
    BY ZenonT(30), <1>6, <2>1, LogsNew
  <2>3. LogsOK(logs', manifest.log, upper + MaxGuards)
    BY Zenon, <2>2 DEF Recover
  <2> QED BY SMTT(30), <1>1, <1>6, <1>7, <2>1, <2>3, LogsMonotone
<1>9. UNCHANGED <<edit, memPc>> /\ memPc = "check"
  BY Zenon DEF Recover, threadVars, PathInv, NumberInv
<1>10. DiskInv'
  BY Zenon, <1>1, <1>7, <1>8, <1>9 DEF DiskInv, PathInv, SeqBase
<1>11. NumberInv'
  <2>1. manifest'.log = logNum' /\ manifest'.next = logNum' + 1
    BY Zenon, <1>7
  <2>2. memPc' = "check" /\ mode' = "recovering"
    BY ZenonT(30), <1>1, <1>9
  <2>3. nextFile' = logNum' + 1 /\ logNum' \in Nat
    BY ZenonT(30), <1>6, <1>7
  <2>4. \A n \in Nat : n + 1 \in Nat /\ n <= n /\ n <= n + 1 /\ n < n + 1
    OBVIOUS
  <2>5. /\ manifest'.log \in Nat /\ manifest'.next \in Nat /\ nextFile' \in Nat
        /\ manifest'.log <= manifest'.next /\ manifest'.log <= logNum' /\ logNum' < nextFile'
    BY ZenonT(30), <2>1, <2>3, <2>4
  <2>6. memPc' \notin {"built", "logging", "logged"}
    BY <2>2
  <2> QED BY ZenonT(30), <2>2, <2>3, <2>5, <2>6 DEF NumberInv
<1> QED BY Zenon, <1>2, <1>10, <1>11 DEF PathInv

LEMMA PathStep == PathInv /\ [Next]_vars => PathInv'
<1> SUFFICES ASSUME PathInv, [Next]_vars PROVE PathInv'
  BY Zenon
<1>1. CASE Open
  <2>1. LogsOK(logs', manifest.log, upper + MaxGuards)
    BY Zenon, <1>1, DeletePath DEF Open
  <2>2. UNCHANGED <<upper, lastSeq, first, last, manifest, logNum, nextFile, edit,
                    memPc>> /\ mode = "recovering"
    BY Zenon, <1>1 DEF Open, queueVars, memVars, versionVars, threadVars
  <2> QED BY Zenon, <2>1, <2>2 DEF PathInv, SeqBase, DiskInv, NumberInv
<1>2. CASE UNCHANGED vars
  BY Zenon, <1>2 DEF vars, pathVars, queueVars, memVars, diskVars, versionVars,
     threadVars, PathInv, SeqBase, DiskInv, NumberInv
<1> QED BY ZenonT(30), <1>1, <1>2, ThreadPath, MemPath, CrashPath, RecoverPath DEF Next

LEMMA PathInit == Init => PathInv
<1> SUFFICES ASSUME Init PROVE PathInv
  BY ZenonT(30)
<1>1. SeqBase
  BY DEF Init, Q!Init, SeqBase, Threads, Q!Threads
<1>2. logs = [n \in {3} |-> <<>>] /\ manifest.log = 3 /\ upper = 0
  BY Zenon DEF Init, Q!Init
<1>3. IsFiniteSet({3})
  BY Zenon, FS_Singleton
<1>4. LogsOK(logs, 3, 0 + MaxGuards)
  BY SMTT(30), <1>2, <1>3 DEF LogsOK
<1>5. DiskInv
  BY <1>2, <1>4 DEF Init, DiskInv, NoEdit
<1>6. NumberInv
  BY <1>2 DEF Init, NumberInv
<1> QED BY Zenon, <1>1, <1>5, <1>6 DEF PathInv

\* ImplementsQueue: with logs, memtables, the memtable thread, backups, errors,
\* crashes and recovery, the queue of writers is still run by its protocol, for
\* any number of threads and any bounds.
THEOREM PathImplementsQueue == Spec => ImplementsQueue
<1>1. Init => Q!Init
  BY Zenon DEF Init
<1> QED BY <1>1, PathInit, PathStep, StepRefines, PTL DEF Spec, ImplementsQueue, Q!Spec

-----------------------------------------------------------------------------
(* Sequence numbers and turns.                                            *)

\* A writer that has its sequence numbers.
Claimed == {"blocked", "linked", "ended", "unlinked"}

\* The sequence numbers of a writer, and how far LastSequence has come.
TicketInv ==
  /\ DOMAIN pc = Threads /\ DOMAIN wlog = Threads /\ (\A t \in Threads : wlog[t] \in Nat)
  /\ \A w \in Writers : pc[w] \in Claimed => first[w] \in Nat /\ first[w] < last[w]
  /\ \A w \in Writers : pc[w] \in {"ended", "unlinked"} => last[w] <= lastSeq
  /\ logged \subseteq {w \in Writers : pc[w] = "linked"}
  /\ mode # "open" => \A t \in Threads : pc[t] = "idle"
  /\ mode = "down" => lastSeq = upper

\* Where a backup has the turn.
InTurn == {"turn", "begun", "blocked", "release", "waitHead", "head", "occupy", "copying"}

TurnInv ==
  /\ \A b \in Backers : pc[b] \in InTurn => turn
  /\ \A b \in Backers : pc[b] \in InTurn \cup {"waitTurn"} => backup
  /\ \A b, c \in Backers : pc[b] \in InTurn /\ pc[c] \in InTurn => b = c
  /\ logOwner \in Backers => pc[logOwner] = "copying"
  /\ logOwner = "memtable" <=> memPc \in {"logging", "logged"}

-----------------------------------------------------------------------------
(* The queue: what becomes of the numbers of the writers.                  *)

\* w keeps its numbers, or has none afterwards.
Keeps(w) ==
  \/ pc'[w] \notin Claimed /\ pc[w] \notin {"blocked", "linked", "ended"}
  \/ /\ first'[w] = first[w] /\ last'[w] = last[w]
     /\ \/ pc'[w] = pc[w]
        \/ pc[w] = "blocked" /\ pc'[w] = "linked"
        \/ pc[w] = "ended" /\ pc'[w] = "unlinked"

\* w gets its numbers: they are new.
Links(w) ==
  /\ pc[w] = "begun" /\ pc'[w] \in {"blocked", "linked"}
  /\ first'[w] = upper + 1 /\ first'[w] < last'[w]

Calm == \A w \in Writers : Keeps(w)

LEMMA QueueOnlyMoves ==
  ASSUME TicketInv, SeqBase, NEW t \in Threads, QueueOnly(t)
  PROVE  /\ DOMAIN pc' = Threads
         /\ \/ Calm
            \/ t \in Writers /\ Links(t) /\ \A v \in Writers \ {t} : Keeps(v)
<1> USE DEF TicketInv, SeqBase, Threads
<1>1. ASSUME t \in Writers, NEW d \in BatchSizes, Q!WriteLink(t, d)
      PROVE  DOMAIN pc' = Threads /\ Links(t) /\ \A v \in Writers \ {t} : Keeps(v)
  BY <1>1, PathAssumption DEF Q!WriteLink, Q!Ticket, Q!Goto, Links, Keeps
<1>2. ASSUME t \in Writers, Q!WriteUnblock(t)
      PROVE  DOMAIN pc' = Threads /\ Calm
  BY Zenon, <1>2 DEF Q!WriteUnblock, Q!Goto, Q!seqVars, Calm, Keeps
<1>3. ASSUME t \in Callers, Q!WriteUnlink(t)
      PROVE  DOMAIN pc' = Threads /\ Calm
  BY Zenon, <1>3 DEF Q!WriteUnlink, Q!Goto, Q!seqVars, Calm, Keeps
<1>4. ASSUME t \in Snappers,
             \/ Q!SnapRead(t) \/ Q!SnapNoWait(t) \/ Q!SnapWait(t)
             \/ Q!SnapSleepAgain(t) \/ Q!SnapLeave(t) \/ Q!SnapRelease(t)
      PROVE  DOMAIN pc' = Threads /\ Calm
  BY Zenon, <1>4, PathAssumption
     DEF Q!SnapRead, Q!SnapNoWait, Q!SnapWait, Q!SnapSleepAgain, Q!SnapLeave,
         Q!SnapRelease, Q!Goto, Q!seqVars, Calm, Keeps
<1>5. ASSUME t \in Backers,
             \/ Q!BackupTurn(t) \/ Q!WriteLink(t, 0) \/ Q!BackupReleaseAhead(t)
             \/ Q!BackupHead(t) \/ Q!BackupStart(t)
      PROVE  DOMAIN pc' = Threads /\ Calm
  BY ZenonT(30), <1>5, PathAssumption
     DEF Q!BackupTurn, Q!WriteLink, Q!BackupReleaseAhead, Q!BackupHead, Q!BackupStart,
         Q!Goto, Q!seqVars, Calm, Keeps
<1> QED BY ZenonT(30), <1>1, <1>2, <1>3, <1>4, <1>5 DEF QueueOnly

\* A step that changes nothing that is stored.
Idle ==
  /\ UNCHANGED <<mem, imm, logNum, logs, manifest, tables, dbLog, nextFile, logged, edit,
                 mode, acked, straddled, resplit>>
  /\ memPc' = memPc \/ (memPc = "asleep" /\ memPc' = "check")
  /\ DOMAIN pc' = Threads /\ Calm
  /\ DOMAIN wlog' = Threads
  /\ \A t \in Threads : wlog'[t] = wlog[t] \/ (wlog'[t] = logNum /\ pc'[t] = "begun")

\* SequenceWriteBegin.
LEMMA BeginMoves ==
  ASSUME TicketInv, NEW t \in Callers, NEW sw \in BOOLEAN, QueueBegin(t, sw)
  PROVE  DOMAIN pc' = Threads /\ Calm /\ pc'[t] = "begun" /\ pc[t] # "linked"
<1>1. CASE t \in Writers /\ Q!WriteBegin(t, sw)
  BY Zenon, <1>1 DEF TicketInv, Threads, Q!WriteBegin, Q!Goto, Q!seqVars, Calm, Keeps, Claimed
<1>2. CASE t \in Backers /\ Q!BackupBegin(t, TRUE, sw)
  BY ZenonT(30), <1>2, PathAssumption
     DEF TicketInv, Threads, Q!BackupBegin, Q!Goto, Q!seqVars, Calm, Keeps
<1> QED BY ZenonT(30), <1>1, <1>2 DEF QueueBegin

LEMMA CalmSteps ==
  ASSUME TicketInv, NEW t \in Threads,
         \/ BeginRoom(t) \/ BeginWait(t) \/ BeginError(t) \/ EndBackup(t)
         \/ BackupRequest(t) \/ BackupOccupy(t) \/ BackupList(t) \/ BackupFinish(t)
         \/ \E f \in {0} \cup DOMAIN logs : BackupCopy(t, f)
  PROVE  Idle
<1>1. CASE BeginRoom(t)
  <2>1. t \in Callers /\ QueueBegin(t, FALSE)
    BY Zenon, <1>1 DEF BeginRoom, InBegin
  <2>2. DOMAIN pc' = Threads /\ Calm /\ pc'[t] = "begun"
    BY ZenonT(30), <2>1, BeginMoves
  <2>3. /\ UNCHANGED <<mem, imm, logNum, logs, manifest, tables, dbLog, nextFile, logged,
                       edit, mode, acked, straddled, resplit, memPc>>
        /\ wlog' = [wlog EXCEPT ![t] = logNum]
    BY Zenon, <1>1 DEF BeginRoom, diskVars, versionVars, threadVars, ghostVars
  <2>4. DOMAIN wlog' = Threads
        /\ \A u \in Threads : wlog'[u] = wlog[u] \/ (wlog'[u] = logNum /\ u = t)
    BY Zenon, <2>3 DEF TicketInv
  <2> QED BY ZenonT(30), <2>2, <2>3, <2>4 DEF Idle
<1>q. UNCHANGED queueVars => DOMAIN pc' = Threads /\ Calm
  BY Zenon DEF queueVars, TicketInv, Calm, Keeps
<1>2. CASE BeginWait(t)
  BY ZenonT(30), <1>2, <1>q
     DEF BeginWait, SignalMemThread, TicketInv, diskVars, versionVars, ghostVars, Idle
<1>b. ASSUME NEW b \in Backers, \E l : pc' = [pc EXCEPT ![b] = l],
             UNCHANGED <<first, last>>
      PROVE  DOMAIN pc' = Threads /\ Calm
  BY <1>b, PathAssumption DEF TicketInv, Calm, Keeps
<1>3. CASE BeginError(t)
  <2>1. DOMAIN pc' = Threads /\ Calm
    BY ZenonT(30), <1>3, <1>q, <1>b DEF BeginError, Q!BackupBegin, Q!Goto, Q!seqVars
  <2> QED BY Zenon, <1>3, <2>1
          DEF BeginError, TicketInv, diskVars, versionVars, threadVars, ghostVars, Idle
<1>4. CASE EndBackup(t)
  <2>1. DOMAIN pc' = Threads /\ Calm
    BY Zenon, <1>4, <1>b DEF EndBackup, Q!WriteEnd, Q!Goto
  <2> QED BY Zenon, <1>4, <2>1
          DEF EndBackup, TicketInv, pathVars, memVars, diskVars, versionVars, threadVars,
              ghostVars, Idle
<1>5. CASE BackupRequest(t) \/ BackupOccupy(t) \/ BackupFinish(t)
  <2>1. DOMAIN pc' = Threads /\ Calm
    BY Zenon, <1>5, <1>b
       DEF BackupRequest, BackupOccupy, BackupFinish, Q!BackupRequest, Q!BackupOccupy,
           Q!BackupFinish, Q!Goto, Q!seqVars
  <2> QED BY ZenonT(30), <1>5, <2>1
          DEF BackupRequest, BackupOccupy, BackupFinish, TicketInv, memVars, diskVars,
              versionVars, threadVars, ghostVars, Idle
<1>6. CASE BackupList(t) \/ \E f \in {0} \cup DOMAIN logs : BackupCopy(t, f)
  BY ZenonT(30), <1>6, <1>q
     DEF BackupList, BackupCopy, TicketInv, memVars, diskVars, versionVars, threadVars,
         ghostVars, Idle
<1> QED BY ZenonT(30), <1>1, <1>2, <1>3, <1>4, <1>5, <1>6

\* The end of a write, and the return to the caller.
LEMMA EndMoves ==
  ASSUME TicketInv, SeqBase, NEW w \in Writers, Q!WriteEnd(w)
  PROVE  /\ DOMAIN pc' = Threads /\ pc[w] = "linked" /\ pc'[w] = "ended"
         /\ UNCHANGED <<first, last>> /\ last[w] <= lastSeq'
         /\ \A v \in Writers \ {w} : Keeps(v) /\ pc'[v] = pc[v]
BY DEF TicketInv, SeqBase, Threads, Q!WriteEnd, Q!Goto, Q!Max2, Keeps

LEMMA ReturnMoves ==
  ASSUME TicketInv, SeqBase, NEW t \in Threads, Return(t)
  PROVE  /\ DOMAIN pc' = Threads /\ Calm
         /\ t \in Writers => pc[t] = "unlinked" /\ pc'[t] \notin Claimed
<1>1. ASSUME t \in Snappers, Q!SnapReturn(t) PROVE DOMAIN pc' = Threads /\ Calm
  BY Zenon, <1>1, PathAssumption
     DEF TicketInv, SeqBase, Q!SnapReturn, Q!Destroy, Q!Goto, Calm, Keeps, Threads
<1>2. ASSUME t \in Callers, Q!WriteReturn(t)
      PROVE  /\ DOMAIN pc' = Threads /\ Calm
             /\ pc[t] = "unlinked" /\ pc'[t] \notin Claimed
  BY Zenon, <1>2 DEF TicketInv, SeqBase, Q!WriteReturn, Q!Destroy, Q!Goto, Calm, Keeps, Threads, Claimed
<1>3. t \in Writers => t \notin Snappers
  BY Zenon, PathAssumption
<1> QED BY ZenonT(30), <1>1, <1>2, <1>3 DEF Return

\* Writers claim their numbers before they log, and LastSequence covers them
\* before they leave the queue.
LEMMA TicketStep ==
  ASSUME PathInv, TicketInv, [Next]_vars
  PROVE  TicketInv'
<1> DEFINE Wlog == DOMAIN wlog' = Threads /\ \A t \in Threads : wlog'[t] \in Nat
<1>s. /\ SeqBase /\ first \in [Threads -> Int] /\ last \in [Threads -> Nat]
      /\ upper \in Nat /\ lastSeq \in Nat
  BY Zenon DEF PathInv, SeqBase
<1>l. mode = "open" => logNum \in Nat /\ nextFile \in Nat
  BY Zenon DEF PathInv, NumberInv
<1>r. ASSUME NEW t \in Threads, ThreadStep(t)
      PROVE  SeqBase' /\ Rises /\ mode = "open" /\ mode' = "open"
  <2>1. SeqBase' /\ Rises
    BY ZenonT(30), <1>r, <1>s, ThreadRefines, QueueStepSeq
  <2>2. mode = "open" /\ mode' = mode
    <3>1. BeginRoom(t) \/ BeginWait(t) \/ BeginSwitch(t) \/ BeginError(t) => mode = "open" /\ mode' = mode
      BY Zenon DEF BeginRoom, BeginWait, BeginSwitch, BeginError, InBegin
    <3>2. QueueOnly(t) \/ EndBackup(t) => mode = "open" /\ mode' = mode
      BY Zenon DEF QueueOnly, EndBackup, pathVars
    <3>3. (\E g \in 0..MaxGuards : LogAppend(t, g)) \/ EndInsert(t) \/ EndError(t) \/ Return(t)
            => mode = "open" /\ mode' = mode
      BY Zenon DEF LogAppend, EndInsert, EndError, Return
    <3>4. BackupRequest(t) \/ BackupOccupy(t) \/ BackupList(t) \/ BackupUnlock(t) \/ BackupFinish(t)
            \/ (\E f \in {0} \cup DOMAIN logs : BackupCopy(t, f)) => mode = "open" /\ mode' = mode
      BY Zenon DEF BackupRequest, BackupOccupy, BackupList, BackupCopy, BackupUnlock, BackupFinish
    <3> QED BY ZenonT(30), <1>r, <3>1, <3>2, <3>3, <3>4 DEF ThreadStep
  <2> QED BY Zenon, <2>1, <2>2
<1>k. ASSUME DOMAIN pc' = Threads, Calm, Wlog, Rises, logged' = logged,
             mode' = "open", lastSeq' \in Nat
      PROVE  TicketInv'
  <2>1. \A w \in Writers : pc'[w] \in Claimed => first'[w] \in Nat /\ first'[w] < last'[w]
    BY ZenonT(30), <1>k DEF Calm, Keeps, TicketInv, Claimed
  <2>2. \A w \in Writers : pc'[w] \in {"ended", "unlinked"} => last'[w] <= lastSeq'
    <3> SUFFICES ASSUME NEW w \in Writers, pc'[w] \in {"ended", "unlinked"}
                 PROVE  last'[w] <= lastSeq'
      BY Zenon
    <3>1. last'[w] = last[w] /\ pc[w] \in {"ended", "unlinked"}
      BY Zenon, <1>k DEF Calm, Keeps, Claimed
    <3>2. last[w] <= lastSeq /\ last[w] \in Nat
      BY Zenon, <3>1, <1>s DEF TicketInv, Threads
    <3>3. lastSeq \in Nat /\ lastSeq' \in Nat /\ lastSeq <= lastSeq'
      BY Zenon, <1>k, <1>s DEF Rises, SeqBase
    <3> QED BY ZenonT(30), <3>1, <3>2, <3>3, LeqLeq
  <2>3. \A w \in Writers : pc[w] = "linked" => pc'[w] = "linked"
    BY Zenon, <1>k DEF Calm, Keeps
  <2> QED BY ZenonT(30), <1>k, <2>1, <2>2, <2>3 DEF TicketInv
<1>1. CASE Idle /\ \E t \in Threads : ThreadStep(t)
  <2>1. Wlog /\ DOMAIN pc' = Threads /\ Calm /\ logged' = logged
    BY Zenon, <1>1, <1>l, <1>r DEF Idle, TicketInv
  <2> QED BY ZenonT(30), <1>1, <1>k, <1>r, <2>1 DEF SeqBase
<1>2. ASSUME NEW t \in Threads, QueueOnly(t) PROVE TicketInv'
  <2>1. UNCHANGED <<wlog, logged, mode>>
    BY Zenon, <1>2 DEF QueueOnly, pathVars, memVars
  <2>2. Rises /\ mode = "open" /\ lastSeq' \in Nat
    BY Zenon, <1>2, <1>r DEF ThreadStep, SeqBase
  <2>3. Wlog
    BY Zenon, <2>1 DEF TicketInv
  <2>4. CASE Calm
    BY ZenonT(30), <1>2, <1>k, <1>s, <2>1, <2>2, <2>3, <2>4, QueueOnlyMoves
  <2>5. CASE t \in Writers /\ Links(t) /\ \A v \in Writers \ {t} : Keeps(v)
    <3>1. DOMAIN pc' = Threads
      BY ZenonT(30), <1>2, <1>s, QueueOnlyMoves
    <3>2. first'[t] \in Nat /\ first'[t] < last'[t] /\ pc'[t] \notin {"ended", "unlinked"}
          /\ pc[t] # "linked"
      BY <1>s, <2>5 DEF Links
    <3>3. \A w \in Writers : pc'[w] \in Claimed => first'[w] \in Nat /\ first'[w] < last'[w]
      BY ZenonT(30), <2>5, <3>2 DEF Keeps, TicketInv, Claimed
    <3>4. ASSUME NEW w \in Writers, pc'[w] \in {"ended", "unlinked"}
          PROVE  last'[w] <= lastSeq'
      <4>1. last'[w] = last[w] /\ pc[w] \in {"ended", "unlinked"}
        BY ZenonT(30), <2>5, <3>2, <3>4 DEF Keeps, Claimed
      <4>2. last[w] <= lastSeq /\ last[w] \in Nat
        BY Zenon, <4>1, <1>s DEF TicketInv, Threads
      <4>3. lastSeq \in Nat /\ lastSeq' \in Nat /\ lastSeq <= lastSeq'
        BY Zenon, <1>s, <2>2 DEF Rises, SeqBase
      <4> QED BY ZenonT(30), <4>1, <4>2, <4>3, LeqLeq
    <3>5. \A w \in Writers : pc[w] = "linked" => pc'[w] = "linked"
      BY Zenon, <2>5, <3>2 DEF Keeps
    <3> QED BY ZenonT(30), <2>1, <2>2, <2>3, <3>1, <3>3, <3>4, <3>5 DEF TicketInv
  <2> QED BY ZenonT(30), <1>2, <1>s, <2>4, <2>5, QueueOnlyMoves
<1>3. ASSUME NEW t \in Threads, BeginSwitch(t) PROVE TicketInv'
  <2>1. DOMAIN pc' = Threads /\ Calm
    BY ZenonT(30), <1>3, BeginMoves DEF BeginSwitch, InBegin
  <2>2. wlog' = [wlog EXCEPT ![t] = nextFile] /\ logged' = logged
    BY Zenon, <1>3 DEF BeginSwitch
  <2>3. Rises /\ mode = "open" /\ mode' = "open" /\ lastSeq' \in Nat
    BY Zenon, <1>3, <1>r DEF ThreadStep, SeqBase
  <2>4. Wlog
    BY ZenonT(30), <1>l, <2>2, <2>3 DEF TicketInv
  <2> QED BY ZenonT(30), <1>k, <2>1, <2>2, <2>3, <2>4
<1>4. ASSUME NEW t \in Threads, NEW g \in 0..MaxGuards, LogAppend(t, g) PROVE TicketInv'
  <2>1. UNCHANGED <<pc, first, last, lastSeq, upper, wlog, mode>>
        /\ t \in Writers /\ pc[t] = "linked" /\ logged' = logged \cup {t} /\ mode = "open"
    BY Zenon, <1>4 DEF LogAppend, queueVars
  <2> QED BY Zenon, <2>1 DEF TicketInv
<1>5. ASSUME NEW t \in Threads, EndInsert(t) \/ EndError(t) PROVE TicketInv'
  <2>1. /\ t \in Writers /\ Q!WriteEnd(t) /\ logged' = logged \ {t}
        /\ wlog' = wlog \/ wlog' = [wlog EXCEPT ![t] = 0]
    BY Zenon, <1>5 DEF EndInsert, EndError
  <2>2. Rises /\ mode = "open" /\ mode' = "open" /\ lastSeq' \in Nat
    BY ZenonT(30), <1>5, <1>r DEF ThreadStep, SeqBase
  <2>3. Wlog
    BY <2>1 DEF TicketInv
  <2>4. /\ DOMAIN pc' = Threads /\ pc[t] = "linked" /\ pc'[t] = "ended"
        /\ UNCHANGED <<first, last>> /\ last[t] <= lastSeq'
        /\ \A v \in Writers \ {t} : Keeps(v) /\ pc'[v] = pc[v]
    BY ZenonT(30), <1>s, <2>1, EndMoves
  <2>5. ASSUME NEW w \in Writers, pc'[w] \in {"ended", "unlinked"}
        PROVE  last'[w] <= lastSeq'
    <3>1. CASE w = t
      BY ZenonT(30), <2>4, <3>1
    <3>2. CASE w # t
      <4>1. last[w] <= lastSeq /\ last[w] \in Nat
        BY ZenonT(30), <2>4, <2>5, <3>2, <1>s DEF TicketInv, Threads
      <4>2. lastSeq \in Nat /\ lastSeq' \in Nat /\ lastSeq <= lastSeq'
        BY Zenon, <1>s, <2>2 DEF Rises, SeqBase
      <4> QED BY ZenonT(30), <2>4, <4>1, <4>2, LeqLeq
    <3> QED BY ZenonT(30), <3>1, <3>2
  <2> QED BY ZenonT(30), <2>1, <2>2, <2>3, <2>4, <2>5 DEF TicketInv, Claimed
<1>6. ASSUME NEW t \in Threads, Return(t) PROVE TicketInv'
  <2>1. logged' = logged /\ wlog' = [wlog EXCEPT ![t] = 0]
    BY Zenon, <1>6 DEF Return
  <2>2. Rises /\ mode = "open" /\ mode' = "open" /\ lastSeq' \in Nat
    BY ZenonT(30), <1>6, <1>r DEF ThreadStep, SeqBase
  <2>3. Wlog
    BY Zenon, <2>1 DEF TicketInv
  <2> QED BY ZenonT(30), <1>6, <1>k, <1>s, <2>1, <2>2, <2>3, ReturnMoves
<1>7. ASSUME NEW t \in Threads, BackupUnlock(t) PROVE TicketInv'
  BY ZenonT(30), <1>7 DEF BackupUnlock, queueVars, memVars, TicketInv
<1>8. CASE MemThread \/ UNCHANGED vars
  <2>1. UNCHANGED <<queueVars, wlog, logged, mode>>
    BY ZenonT(30), <1>8 DEF MemThread, MemCheck, MemBuilt, MemOccupy, MemManifest, MemInstall,
         MemError, memVars, vars, pathVars
  <2> QED BY ZenonT(30), <2>1 DEF queueVars, TicketInv
<1>9. CASE Open \/ \E bad \in SUBSET LiveLogs : Recover(bad)
  <2>1. UNCHANGED <<queueVars, wlog, logged>> /\ mode # "open" /\ mode' # "down"
    BY ZenonT(30), <1>9 DEF Open, Recover, memVars
  <2> QED BY ZenonT(30), <2>1 DEF queueVars, TicketInv
<1>10. CASE Crash
  <2>1. PICK n : Q!Restart(n)
    BY ZenonT(30), <1>10 DEF Crash
  <2>2. DOMAIN pc' = Threads /\ (\A t \in Threads : pc'[t] = "idle") /\ lastSeq' = upper'
    BY ZenonT(30), <2>1 DEF Q!Restart, Q!Threads, Threads
  <2>3. logged' = {} /\ wlog' = [t \in Threads |-> 0] /\ mode' = "down"
    BY ZenonT(30), <1>10 DEF Crash
  <2>4. Wlog
    BY Zenon, <2>3
  <2> QED BY ZenonT(30), <2>2, <2>3, <2>4 DEF TicketInv, Claimed, Threads
<1> QED
  BY ZenonT(30), <1>1, <1>2, <1>3, <1>4, <1>5, <1>6, <1>7, <1>8, <1>9, <1>10, CalmSteps
     DEF Next, ThreadStep

-----------------------------------------------------------------------------
(* Backups take turns, and keep the memtable thread out of LogAndApply.    *)

BackersStay == UNCHANGED <<backup, turn>> /\ \A b \in Backers : pc'[b] = pc[b]

BackerMoves(b) ==
  /\ UNCHANGED <<backup, turn>> /\ \A c \in Backers \ {b} : pc'[c] = pc[c]
  /\ \/ pc[b] \in InTurn \ {"copying"} /\ pc'[b] \in InTurn
     \/ pc[b] \notin InTurn /\ pc'[b] \notin InTurn \cup {"waitTurn"}

LEMMA BackersMove ==
  ASSUME TicketInv, NEW t \in Threads, ThreadStep(t)
  PROVE  \/ BackersStay
         \/ /\ t \in Backers
            /\ \/ BackerMoves(t)
               \/ Q!BackupRequest(t) \/ Q!BackupTurn(t) \/ BackupFinish(t)
<1> USE DEF Threads, Callers
<1>d. DOMAIN pc = Threads /\ Writers \cap Backers = {} /\ Snappers \cap Backers = {}
  BY Zenon, PathAssumption DEF TicketInv
<1>g. ASSUME \E l : Q!Goto(t, l), t \notin Backers, UNCHANGED <<backup, turn>>
      PROVE  BackersStay
  BY Zenon, <1>d, <1>g DEF Q!Goto, BackersStay
<1>h. ASSUME t \in Backers, NEW l, Q!Goto(t, l), UNCHANGED <<backup, turn>>,
             \/ pc[t] \in InTurn \ {"copying"} /\ l \in InTurn
             \/ pc[t] \notin InTurn /\ l \notin InTurn \cup {"waitTurn"}
      PROVE  BackerMoves(t)
  BY Zenon, <1>d, <1>h DEF Q!Goto, BackerMoves
<1>q. UNCHANGED queueVars => BackersStay
  BY Zenon DEF queueVars, BackersStay
<1>w. ASSUME Q!WriteEnd(t) \/ Q!WriteReturn(t) \/ Q!WriteUnlink(t) \/ Q!SnapReturn(t)
      PROVE  /\ UNCHANGED <<backup, turn>>
             /\ \E l : Q!Goto(t, l) /\ l \in {"ended", "idle", "unlinked", "held"}
             /\ pc[t] \in {"linked", "ended", "unlinked"}
  BY Zenon, <1>w DEF Q!WriteEnd, Q!WriteReturn, Q!WriteUnlink, Q!SnapReturn, Q!gateVars
<1>u. ASSUME Q!WriteEnd(t) \/ Q!WriteReturn(t) \/ Q!WriteUnlink(t) \/ Q!SnapReturn(t)
      PROVE  BackersStay \/ (t \in Backers /\ BackerMoves(t))
  BY ZenonT(30), <1>g, <1>h, <1>u, <1>w DEF InTurn
<1>1. CASE BeginRoom(t) \/ BeginWait(t) \/ BeginSwitch(t) \/ BeginError(t)
  <2>1. \/ \E sw \in BOOLEAN : t \in Writers /\ Q!WriteBegin(t, sw)
        \/ \E ok, sw \in BOOLEAN : t \in Backers /\ Q!BackupBegin(t, ok, sw)
        \/ UNCHANGED queueVars
    BY ZenonT(30), <1>1 DEF BeginRoom, BeginWait, BeginSwitch, BeginError, QueueBegin
  <2>2. ASSUME NEW sw \in BOOLEAN, t \in Writers, Q!WriteBegin(t, sw) PROVE BackersStay
    BY ZenonT(30), <1>d, <1>g, <2>2 DEF Q!WriteBegin, Q!gateVars
  <2>3. ASSUME NEW ok \in BOOLEAN, NEW sw \in BOOLEAN, t \in Backers, Q!BackupBegin(t, ok, sw)
        PROVE  BackerMoves(t)
    <3>1. UNCHANGED <<backup, turn>> /\ pc[t] = "turn" /\ Q!Goto(t, IF ok THEN "begun" ELSE "release")
      BY ZenonT(30), <2>3 DEF Q!BackupBegin, Q!gateVars
    <3> QED BY ZenonT(30), <1>h, <2>3, <3>1 DEF InTurn
  <2> QED BY ZenonT(30), <1>q, <2>1, <2>2, <2>3
<1>2. CASE QueueOnly(t)
  <2>1. CASE t \in Writers /\ ((\E d \in BatchSizes : Q!WriteLink(t, d)) \/ Q!WriteUnblock(t))
    BY ZenonT(30), <1>d, <1>g, <2>1 DEF Q!WriteLink, Q!WriteUnblock, Q!gateVars
  <2>2. CASE t \in Snappers /\ \/ Q!SnapRead(t) \/ Q!SnapNoWait(t) \/ Q!SnapWait(t)
                               \/ Q!SnapLeave(t) \/ Q!SnapRelease(t)
    BY ZenonT(30), <1>d, <1>g, <2>2
       DEF Q!SnapRead, Q!SnapNoWait, Q!SnapWait, Q!SnapLeave, Q!SnapRelease, Q!gateVars
  <2>3. CASE Q!SnapSleepAgain(t)
    BY ZenonT(30), <2>3 DEF Q!SnapSleepAgain, Q!gateVars, BackersStay
  <2>4. CASE t \in Backers /\ \/ Q!WriteLink(t, 0) \/ Q!BackupReleaseAhead(t)
                              \/ Q!BackupHead(t) \/ Q!BackupStart(t)
    <3>1. /\ UNCHANGED <<backup, turn>> /\ pc[t] \in {"begun", "release", "waitHead", "head"}
          /\ \E l : Q!Goto(t, l) /\ l \in {"blocked", "release", "head", "waitHead", "occupy"}
      BY Zenon, <2>4 DEF Q!WriteLink, Q!BackupReleaseAhead, Q!BackupHead, Q!BackupStart, Q!gateVars
    <3> QED BY ZenonT(30), <1>h, <2>4, <3>1 DEF InTurn
  <2> QED BY ZenonT(30), <1>2, <1>u, <2>1, <2>2, <2>3, <2>4 DEF QueueOnly
<1>3. CASE (\E g \in 0..MaxGuards : LogAppend(t, g)) \/ BackupList(t) \/ BackupUnlock(t)
           \/ \E f \in {0} \cup DOMAIN logs : BackupCopy(t, f)
  BY ZenonT(30), <1>3, <1>q DEF LogAppend, BackupList, BackupUnlock, BackupCopy
<1>4. CASE EndInsert(t) \/ EndError(t) \/ EndBackup(t) \/ Return(t)
  BY ZenonT(30), <1>4, <1>u DEF EndInsert, EndError, EndBackup, Return
<1>5. CASE BackupOccupy(t)
  <2>1. /\ t \in Backers /\ UNCHANGED <<backup, turn>> /\ pc[t] = "occupy"
        /\ Q!Goto(t, "copying")
    BY Zenon, <1>5 DEF BackupOccupy, Q!BackupOccupy, Q!gateVars
  <2> QED BY ZenonT(30), <1>h, <2>1 DEF InTurn
<1>6. CASE BackupRequest(t)
  BY Zenon, <1>6 DEF BackupRequest, Q!BackupRequest
<1>7. CASE BackupFinish(t)
  BY Zenon, <1>7 DEF BackupFinish
<1> QED BY ZenonT(30), <1>1, <1>2, <1>3, <1>4, <1>5, <1>6, <1>7 DEF ThreadStep

\* Who has set bg_log_occupied_.
LEMMA OwnerMoves ==
  ASSUME TicketInv, NEW t \in Threads, ThreadStep(t)
  PROVE  /\ memPc' = memPc \/ (memPc = "asleep" /\ memPc' = "check")
         /\ \/ logOwner' = logOwner
            \/ BackupOccupy(t) /\ logOwner = NoOne /\ logOwner' = t /\ pc'[t] = "copying"
            \/ BackupUnlock(t) /\ logOwner = t /\ logOwner' = NoOne
<1>1. CASE BeginRoom(t) \/ BeginWait(t) \/ BeginSwitch(t) \/ BeginError(t)
  BY ZenonT(30), <1>1 DEF BeginRoom, BeginWait, BeginSwitch, BeginError, SignalMemThread, threadVars
<1>2. CASE QueueOnly(t) \/ EndBackup(t)
  BY ZenonT(30), <1>2 DEF QueueOnly, EndBackup, pathVars, threadVars
<1>3. CASE (\E g \in 0..MaxGuards : LogAppend(t, g)) \/ EndInsert(t) \/ EndError(t) \/ Return(t)
  BY Zenon, <1>3 DEF LogAppend, EndInsert, EndError, Return, SignalMemThread, threadVars
<1>4. CASE \/ BackupRequest(t) \/ BackupList(t) \/ BackupFinish(t)
           \/ \E f \in {0} \cup DOMAIN logs : BackupCopy(t, f)
  BY Zenon, <1>4 DEF BackupRequest, BackupList, BackupCopy, BackupFinish, threadVars
<1>5. CASE BackupOccupy(t)
  BY Zenon, <1>5 DEF BackupOccupy, Q!BackupOccupy, Q!Goto, TicketInv
<1>6. CASE BackupUnlock(t)
  BY Zenon, <1>6 DEF BackupUnlock
<1> QED BY ZenonT(30), <1>1, <1>2, <1>3, <1>4, <1>5, <1>6 DEF ThreadStep

\* A backup copies until it finishes.
LEMMA CopyingStays ==
  ASSUME TicketInv, NEW t \in Threads, ThreadStep(t), NEW c \in Backers, pc[c] = "copying",
         BackupFinish(t) => c # t
  PROVE  pc'[c] = "copying"
<1>0. DOMAIN pc = Threads
  BY Zenon DEF TicketInv
<1>1. CASE BackersStay
  BY Zenon, <1>1 DEF BackersStay
<1>2. CASE t \in Backers /\ BackerMoves(t)
  BY Zenon, <1>2 DEF BackerMoves, InTurn
<1>3. CASE Q!BackupRequest(t) \/ Q!BackupTurn(t)
  <2>1. pc[t] # "copying" /\ \E l : pc' = [pc EXCEPT ![t] = l]
    BY Zenon, <1>3 DEF Q!BackupRequest, Q!BackupTurn, Q!Goto
  <2> QED BY ZenonT(30), <1>0, <2>1 DEF Threads
<1>4. CASE BackupFinish(t)
  BY ZenonT(30), <1>0, <1>4 DEF BackupFinish, Q!BackupFinish, Q!Goto, Threads
<1> QED BY ZenonT(30), <1>1, <1>2, <1>3, <1>4, BackersMove

LEMMA TurnStep ==
  ASSUME PathInv, TicketInv, TurnInv, [Next]_vars
  PROVE  TurnInv'
<1> DEFINE Exclusive ==
             /\ \A b \in Backers : pc[b] \in InTurn => turn
             /\ \A b \in Backers : pc[b] \in InTurn \cup {"waitTurn"} => backup
             /\ \A b, c \in Backers : pc[b] \in InTurn /\ pc[c] \in InTurn => b = c
           Owned == logOwner \in Backers => pc[logOwner] = "copying"
           Occupied == logOwner = "memtable" <=> memPc \in {"logging", "logged"}
<1>0. Exclusive /\ Owned /\ Occupied
  BY Zenon DEF TurnInv
<1>q. Exclusive' /\ Owned' /\ Occupied' => TurnInv'
  BY Zenon DEF TurnInv
<1>n. NoOne \notin Backers /\ "memtable" \notin Backers /\ NoOne # "memtable"
  BY Zenon, PathAssumption
<1>1. ASSUME NEW t \in Threads, ThreadStep(t) PROVE TurnInv'
  <2>1. CASE BackersStay
    <3>1. Exclusive'
      BY ZenonT(30), <1>0, <2>1 DEF BackersStay
    <3>2. Owned'
      BY ZenonT(30), <1>0, <1>1, <1>n, <2>1, OwnerMoves DEF BackersStay
    <3>3. Occupied'
      BY ZenonT(30), <1>0, <1>1, <1>n, OwnerMoves DEF BackupOccupy, BackupUnlock
    <3> QED BY ZenonT(30), <1>q, <3>1, <3>2, <3>3
  <2>2. ASSUME t \in Backers,
               \/ BackerMoves(t)
               \/ Q!BackupRequest(t) \/ Q!BackupTurn(t) \/ BackupFinish(t)
        PROVE  TurnInv'
    <3>0. DOMAIN pc = Threads
      BY Zenon DEF TicketInv
    <3>1. Exclusive'
      <4>1. CASE BackerMoves(t)
        BY ZenonT(30), <1>0, <2>2, <4>1 DEF BackerMoves
      <4>2. CASE Q!BackupRequest(t) \/ Q!BackupTurn(t)
        <5>1. /\ turn' = TRUE /\ pc' = [pc EXCEPT ![t] = IF turn THEN "waitTurn" ELSE "turn"]
              /\ backup' = TRUE
          BY ZenonT(30), <1>0, <2>2, <4>2 DEF Q!BackupRequest, Q!BackupTurn, Q!Goto, TurnInv
        <5>2. \A c \in Backers \ {t} : pc'[c] = pc[c]
          BY ZenonT(30), <3>0, <5>1 DEF Threads
        <5>3. pc'[t] = IF turn THEN "waitTurn" ELSE "turn"
          BY ZenonT(30), <3>0, <5>1
        <5>4. pc'[t] \in InTurn => ~turn
          BY Zenon, <5>3 DEF InTurn
        <5> QED BY ZenonT(30), <1>0, <5>1, <5>2, <5>4
      <4>3. CASE BackupFinish(t)
        <5>1. /\ pc[t] = "copying" /\ turn' = FALSE
              /\ backup' = ({c \in Backers : pc[c] = "waitTurn"} # {})
              /\ pc' = [pc EXCEPT ![t] = IF t \in linked THEN "linked" ELSE "idle"]
          BY ZenonT(30), <4>3 DEF BackupFinish, Q!BackupFinish, Q!Goto
        <5>2. \A c \in Backers \ {t} : pc'[c] = pc[c]
          BY ZenonT(30), <3>0, <5>1 DEF Threads
        <5>3. pc'[t] \notin InTurn \cup {"waitTurn"} /\ pc[t] \in InTurn
          BY ZenonT(30), <3>0, <5>1 DEF InTurn
        <5>4. \A c \in Backers : pc'[c] \notin InTurn
          BY ZenonT(30), <1>0, <2>2, <5>2, <5>3
        <5> QED BY ZenonT(30), <5>1, <5>2, <5>3, <5>4
      <4> QED BY ZenonT(30), <2>2, <4>1, <4>2, <4>3
    <3>2. \A c \in Backers : pc[c] = "copying" /\ (BackupFinish(t) => c # t) => pc'[c] = "copying"
      BY ZenonT(30), <1>1, CopyingStays
    <3>3. Owned'
      <4>1. BackupFinish(t) => logOwner' = logOwner /\ logOwner # t
        BY Zenon DEF BackupFinish, threadVars
      <4> QED BY ZenonT(30), <1>0, <1>1, <1>n, <3>2, <4>1, OwnerMoves
    <3>4. Occupied'
      BY ZenonT(30), <1>0, <1>1, <1>n, <2>2, OwnerMoves
    <3> QED BY Zenon, <1>q, <3>1, <3>3, <3>4
  <2> QED BY ZenonT(30), <1>1, <2>1, <2>2, BackersMove
<1>2. CASE MemThread \/ Open \/ (\E bad \in SUBSET LiveLogs : Recover(bad)) \/ UNCHANGED vars
  <2>1. UNCHANGED <<pc, turn, backup>>
    BY Zenon, <1>2 DEF MemThread, MemCheck, MemBuilt, MemOccupy, MemManifest, MemInstall,
         MemError, Open, Recover, vars, queueVars
  <2>2. Exclusive'
    BY Zenon, <1>0, <2>1
  <2>3. Owned' /\ Occupied'
    <3>1. CASE MemCheck \/ MemBuilt \/ MemOccupy \/ MemManifest
      BY ZenonT(30), <1>0, <1>n, <2>1, <3>1 DEF MemCheck, MemBuilt, MemOccupy, MemManifest
    <3>2. CASE MemInstall \/ MemError
      BY ZenonT(30), <1>0, <1>n, <2>1, <3>2 DEF MemInstall, MemError
    <3>3. CASE Open \/ (\E bad \in SUBSET LiveLogs : Recover(bad)) \/ UNCHANGED vars
      BY ZenonT(30), <1>0, <2>1, <3>3 DEF Open, Recover, threadVars, vars, pathVars
    <3> QED BY ZenonT(30), <1>2, <3>1, <3>2, <3>3 DEF MemThread
  <2> QED BY ZenonT(30), <1>q, <2>2, <2>3
<1>3. CASE Crash
  <2>1. \A t \in Threads : pc'[t] = "idle"
    BY Zenon, <1>3 DEF Crash, Q!Restart, Q!Threads, Threads
  <2>2. logOwner' = NoOne /\ memPc' = "check"
    BY Zenon, <1>3 DEF Crash
  <2>3. Exclusive'
    BY Zenon, <2>1 DEF InTurn, Threads
  <2>4. Owned' /\ Occupied'
    BY ZenonT(30), <1>n, <2>2
  <2> QED BY Zenon, <1>q, <2>3, <2>4
<1> QED BY ZenonT(30), <1>1, <1>2, <1>3 DEF Next

----------------------------------------------------------------------------
(***************************************************************************)
(* Where the write path keeps its data: what the steps of an open database *)
(* leave in memory, in logs and in tables, in which order, and that what   *)
(* is in memory can be recovered.                                          *)
(***************************************************************************)

\* The table that the memtable thread builds holds the immutable memtable.
EditInv ==
  /\ \A m, n \in imm : m = n
  /\ memPc \in {"building", "built", "logging", "logged"} =>
       /\ imm # {}
       /\ DataIn(edit.table) = UNION imm
       /\ \A t \in edit.table : t.data = UNION imm
  /\ memPc \in {"built", "logging", "logged"} => edit.log = logNum
  /\ memPc = "logged" => manifest.log = logNum /\ edit.table \subseteq manifest.tables

\* Upper bounds of sequence numbers, where they are stored.
Upto(S, n) == \A s \in S : s \in Nat /\ s <= n

LiveBatches == UNION {Batches(logs[n]) : n \in LiveLogs}

SeqInv ==
  /\ manifest.seq <= lastSeq
  /\ Upto(mem \cup (UNION imm), lastSeq)
  /\ Upto(DataIn(manifest.tables), manifest.seq)
  /\ memPc \in {"logging", "logged"} => Upto(UNION imm, edit.seq) /\ edit.seq <= lastSeq
  /\ memPc = "logging" => manifest.seq <= edit.seq
  /\ Upto(LiveBatches, upper)
  /\ \A n \in LiveLogs : \A i \in DOMAIN logs[n] : logs[n][i].first <= logs[n][i].top

\* What is in memory can be recovered.
StoreInv ==
  /\ tables \subseteq manifest.tables
  /\ \A n \in DOMAIN logs : n # 0
  /\ mode # "down" =>
       /\ logNum \in DOMAIN logs /\ \A n \in DOMAIN logs : n <= logNum
       /\ dbLog \in Nat /\ dbLog <= manifest.log
       /\ mem \ straddled \subseteq Batches(logs[logNum])
       /\ (UNION imm) \ straddled \subseteq Recoverable
       /\ \A w \in logged : wlog[w] = logNum => first[w] \in Batches(logs[logNum])
  /\ mode # "open" => mem = {} /\ imm = {}

AckInv ==
  /\ mode # "down" =>
       /\ acked \subseteq Visible
       /\ \A w \in Writers : pc[w] \in {"ended", "unlinked"} /\ wlog[w] # 0 =>
            first[w] \in Visible
  /\ mode = "down" => acked \subseteq Recoverable

\* Batches that are exempt from the order.
Exempt == straddled \cup resplit

\* Every number of S is below every number of T.
Precedes(S, T) == \A x \in S, y \in T : x < y

NumsInv ==
  /\ \A t \in manifest.tables : t.num \in Nat /\ t.num < manifest.next /\ t.data # {}
  /\ \A t, u \in manifest.tables : t.num = u.num => t = u
  /\ mode # "down" => manifest.next <= nextFile /\ \A t \in Threads : wlog[t] <= logNum
  /\ memPc \in {"building", "built", "logging", "logged"} =>
       /\ \A t \in edit.table : t.num \in Nat /\ t.num < nextFile /\ t.data # {}
       /\ \A t, u \in edit.table : t = u
  /\ memPc \in {"building", "built", "logging"} =>
       \A t \in edit.table, u \in manifest.tables : u.num < t.num
  /\ memPc \in {"logging", "logged"} =>
       edit.next <= nextFile /\ \A t \in edit.table : t.num < edit.next
  /\ memPc = "logging" => manifest.next <= edit.next
  /\ mode = "down" => \A t \in Threads : wlog[t] = 0

\* Batches of the logs, without the ones that are not in order.
InOrder(n) == Batches(logs[n]) \ (Exempt \cup Late)

OrderInv ==
  /\ \A t, u \in manifest.tables : t.num < u.num =>
       \A x \in t.data \ Exempt, y \in u.data \ Exempt : x < y \/ x \in u.data
  /\ \A x \in DataIn(manifest.tables) \ Exempt, y \in (UNION imm) \ Exempt : x < y \/ x \in UNION imm
  /\ Precedes((DataIn(manifest.tables) \cup (UNION imm)) \ Exempt, mem \ Exempt)
  /\ \A n \in LiveLogs : Precedes(DataIn(manifest.tables) \ Exempt, InOrder(n))
  /\ \A m, n \in LiveLogs : m < n => Precedes(InOrder(m), InOrder(n))
  /\ mode = "open" => Precedes((UNION imm) \ Exempt, InOrder(logNum))
  /\ \A w \in Writers : pc[w] \in {"blocked", "linked"} /\ wlog[w] = logNum =>
       /\ \A x \in (DataIn(manifest.tables) \cup (UNION imm)) \ Exempt : x < first[w]
       /\ \A n \in LiveLogs : n < logNum => \A x \in InOrder(n) : x < first[w]

DataInv == EditInv /\ SeqInv /\ StoreInv /\ AckInv /\ NumsInv /\ OrderInv

-----------------------------------------------------------------------------
(* Files: what a step leaves of the logs and tables.                       *)

LEMMA RecoverableSplits == Recoverable = DataIn(manifest.tables) \cup LiveBatches
BY Zenon DEF Recoverable, RecoverableFrom, LiveBatches, LiveLogs

LEMMA InLive ==
  /\ \A x : x \in LiveBatches <=> \E n \in LiveLogs : x \in Batches(logs[n])
  /\ \A x : x \in LiveBatches' <=> \E n \in LiveLogs' : x \in Batches(logs'[n])
BY Zenon DEF LiveBatches

LEMMA AppendBatches ==
  ASSUME NEW s \in Seq(Record), NEW r \in Record
  PROVE  /\ Batches(Append(s, r)) = Batches(s) \cup {r.first}
         /\ \A i \in DOMAIN Append(s, r) :
              Append(s, r)[i] = r \/ (i \in DOMAIN s /\ Append(s, r)[i] = s[i])
<1>1. /\ DOMAIN s = 1..Len(s) /\ Len(s) \in Nat
      /\ DOMAIN Append(s, r) = 1..(Len(s) + 1) /\ Append(s, r)[Len(s) + 1] = r
      /\ \A i \in 1..Len(s) : Append(s, r)[i] = s[i]
  OBVIOUS
<1>2. \A i \in 1..(Len(s) + 1) : i \in 1..Len(s) \/ i = Len(s) + 1
  BY SMTT(30), <1>1
<1>3. Len(s) + 1 \in 1..(Len(s) + 1) /\ \A i \in 1..Len(s) : i \in 1..(Len(s) + 1)
  BY <1>1
<1> QED BY ZenonT(30), <1>1, <1>2, <1>3 DEF Batches

\* The log files that a recovery would replay stay as they are.
LiveLogsStay ==
  /\ LiveLogs' = LiveLogs /\ DOMAIN logs' \subseteq DOMAIN logs
  /\ \A n \in LiveLogs : logs'[n] = logs[n]

\* DeleteObsoleteFiles deletes no log that a recovery would replay.
LEMMA DeleteKeeps ==
  ASSUME PathInv, NEW k \in Nat, k <= manifest.log, manifest' = manifest,
         DeleteObsolete(k) \/ logs' = logs
  PROVE  LiveLogsStay
<1>1. CASE logs' = logs
  BY ZenonT(30), <1>1 DEF LiveLogs, LiveLogsStay
<1>2. CASE logs' = [n \in {m \in DOMAIN logs : m >= k} |-> logs[n]]
  BY <1>2 DEF LiveLogs, LiveLogsStay, PathInv, DiskInv, LogsOK, NumberInv
<1> QED BY ZenonT(30), <1>1, <1>2 DEF DeleteObsolete

\* The log that is written to is one of those that would be replayed.
LEMMA CurrentLive ==
  ASSUME PathInv, StoreInv, mode # "down"
  PROVE  /\ logNum \in LiveLogs /\ logNum \in Nat /\ \A n \in LiveLogs : n \in Nat /\ n <= logNum
         /\ Batches(logs[logNum]) \subseteq LiveBatches /\ LiveBatches \subseteq Recoverable
<1>1. /\ logNum \in LiveLogs /\ logNum \in Nat
      /\ \A n \in LiveLogs : n \in Nat /\ n <= logNum
  BY Zenon DEF PathInv, StoreInv, NumberInv, DiskInv, LogsOK, LiveLogs
<1> QED BY ZenonT(30), <1>1, RecoverableSplits DEF LiveBatches

-----------------------------------------------------------------------------
(* Steps that leave what is stored alone: only a queued writer moves, or   *)
(* files that nobody needs are deleted.                                    *)

Still ==
  /\ UNCHANGED <<mem, imm, logNum, manifest, tables, dbLog, nextFile, logged, edit,
                 straddled, resplit>>
  /\ memPc' = memPc \/ (memPc = "asleep" /\ memPc' = "check")
  /\ LiveLogsStay
  /\ mode' = mode \/ (mode = "recovering" /\ mode' = "open")
  /\ mode = "down" => wlog' = wlog
  /\ \A w \in Writers : Keeps(w) \/ Links(w)
  /\ \A t \in Threads :
       \/ wlog'[t] = wlog[t]
       \/ wlog'[t] \in {0, logNum} /\ (t \in Writers => pc'[t] \notin Claimed)

\* Writers on their way to the memtable stay there.
LEMMA StillWriters ==
  ASSUME TicketInv, Still
  PROVE  /\ \A w \in logged : first'[w] = first[w] /\ wlog'[w] = wlog[w]
         /\ Late' = Late /\ Exempt' = Exempt /\ LiveBatches' = LiveBatches
         /\ \A n \in LiveLogs : InOrder(n)' = InOrder(n)
         /\ Recoverable' = Recoverable
<1>1. ASSUME NEW w \in logged PROVE first'[w] = first[w] /\ wlog'[w] = wlog[w]
  <2>1. w \in Writers /\ w \in Threads /\ pc[w] = "linked"
    BY Zenon DEF TicketInv, Threads
  <2>2. first'[w] = first[w] /\ pc'[w] = "linked"
    BY Zenon, <2>1 DEF Still, Keeps, Links
  <2> QED BY ZenonT(30), <2>1, <2>2 DEF Still, Claimed
<1>2. Late' = Late
  <2>1. Late' = {first'[w] : w \in {v \in logged : wlog'[v] # logNum}}
    BY Zenon DEF Late, Still
  <2> QED BY ZenonT(30), <1>1, <2>1 DEF Late
<1>3. Exempt' = Exempt
  BY Zenon DEF Exempt, Still
<1>4. LiveBatches' = LiveBatches
  BY Zenon DEF LiveBatches, Still, LiveLogsStay
<1>5. \A n \in LiveLogs : InOrder(n)' = InOrder(n)
  BY ZenonT(30), <1>2, <1>3 DEF InOrder, Still, LiveLogsStay
<1>6. Recoverable' = Recoverable
  <2>1. Recoverable' = DataIn(manifest'.tables) \cup LiveBatches'
    BY ZenonT(30) DEF Recoverable, RecoverableFrom, LiveBatches, LiveLogs
  <2> QED BY ZenonT(30), <1>4, <2>1, RecoverableSplits DEF Still
<1> QED BY ZenonT(30), <1>1, <1>2, <1>3, <1>4, <1>5, <1>6

\* Everything that is stored is below the numbers that are still free.
LEMMA StoredBelow ==
  ASSUME PathInv, SeqInv
  PROVE  /\ Upto(DataIn(manifest.tables), upper) /\ Upto(DataIn(manifest.tables), lastSeq)
         /\ Upto(mem, upper) /\ Upto(UNION imm, upper) /\ Upto(LiveBatches, upper)
         /\ \A n \in LiveLogs : InOrder(n) \subseteq LiveBatches
<1>1. /\ upper \in Nat /\ lastSeq \in Nat /\ manifest.seq \in Nat
      /\ lastSeq <= upper /\ manifest.seq <= lastSeq
  BY Zenon DEF PathInv, SeqBase, DiskInv, SeqInv
<1>2. \A n \in LiveLogs : InOrder(n) \subseteq LiveBatches
  BY Zenon DEF InOrder, LiveBatches
<1> QED BY <1>1, <1>2 DEF SeqInv, Upto

LEMMA StillData ==
  ASSUME PathInv, TicketInv, EditInv, SeqInv, StoreInv, NumsInv, OrderInv,
         Still, SeqBase', Rises
  PROVE  EditInv' /\ SeqInv' /\ StoreInv' /\ NumsInv' /\ OrderInv'
<1>s. /\ \A w \in logged : first'[w] = first[w] /\ wlog'[w] = wlog[w]
      /\ Late' = Late /\ Exempt' = Exempt /\ LiveBatches' = LiveBatches
      /\ \A n \in LiveLogs : InOrder(n)' = InOrder(n)
      /\ Recoverable' = Recoverable /\ LiveLogs' = LiveLogs
  BY Zenon, StillWriters DEF Still, LiveLogsStay
<1>1. EditInv'
  BY Zenon DEF EditInv, Still
<1>2. SeqInv'
  <2>1. /\ lastSeq \in Nat /\ lastSeq' \in Nat /\ upper \in Nat /\ upper' \in Nat
        /\ lastSeq <= lastSeq' /\ upper <= upper'
        /\ manifest.seq \in Nat /\ edit.seq \in Nat
    BY ZenonT(30) DEF PathInv, SeqBase, Rises, DiskInv
  <2>2. /\ manifest.seq <= lastSeq'
        /\ Upto(mem \cup (UNION imm), lastSeq') /\ Upto(LiveBatches, upper')
        /\ memPc \in {"logging", "logged"} => edit.seq <= lastSeq'
    BY <2>1 DEF SeqInv, Upto
  <2>3. memPc' \in {"logging", "logged"} => memPc \in {"logging", "logged"}
    BY Zenon DEF Still
  <2>4. memPc' = "logging" => memPc = "logging"
    BY Zenon DEF Still
  <2>5. \A n \in LiveLogs : logs'[n] = logs[n]
    BY Zenon DEF Still, LiveLogsStay
  <2> QED BY ZenonT(30), <1>s, <2>2, <2>3, <2>4, <2>5 DEF SeqInv, Still
<1>3. StoreInv'
  <2>1. mode' # "down" => mode # "down"
    BY Zenon DEF Still
  <2>2. mode # "down" => logNum \in LiveLogs
    BY ZenonT(30), CurrentLive
  <2>3. DOMAIN logs' \subseteq DOMAIN logs /\ LiveLogs' \subseteq DOMAIN logs'
        /\ \A n \in LiveLogs : logs'[n] = logs[n]
    BY Zenon DEF Still, LiveLogsStay, LiveLogs
  <2>4. mode' # "open" => mode # "open"
    BY Zenon DEF Still
  <2>5. mode # "down" => logNum \in DOMAIN logs' /\ logs'[logNum] = logs[logNum]
    BY ZenonT(30), <1>s, <2>2, <2>3
  <2> QED BY ZenonT(30), <1>s, <2>1, <2>3, <2>4, <2>5 DEF StoreInv, Still
<1>4. NumsInv'
  <2>1. mode' = "down" => mode = "down" /\ wlog' = wlog
    BY ZenonT(30) DEF Still
  <2>2. ASSUME mode' # "down", NEW t \in Threads PROVE wlog'[t] <= logNum
    <3>1. logNum \in Nat /\ wlog[t] <= logNum
      BY ZenonT(30), <2>2 DEF Still, PathInv, NumberInv, NumsInv
    <3> QED BY <3>1 DEF Still
  <2>3. mode' # "down" => mode # "down"
    BY Zenon DEF Still
  <2>4. memPc' \in {"building", "built", "logging", "logged"}
          => memPc \in {"building", "built", "logging", "logged"}
    BY Zenon DEF Still
  <2>5. memPc' \in {"building", "built", "logging"} => memPc \in {"building", "built", "logging"}
    BY ZenonT(30) DEF Still
  <2>6. memPc' \in {"logging", "logged"} => memPc \in {"logging", "logged"}
    BY Zenon DEF Still
  <2>7. memPc' = "logging" => memPc = "logging"
    BY Zenon DEF Still
  <2> QED BY ZenonT(30), <2>1, <2>2, <2>3, <2>4, <2>5, <2>6, <2>7 DEF NumsInv, Still
<1>5. OrderInv'
  <2>1. mode' = "open" => Precedes((UNION imm) \ Exempt, InOrder(logNum)')
    <3>1. CASE mode = "open"
      <4>1. InOrder(logNum)' = InOrder(logNum)
        BY ZenonT(30), <1>s, <3>1, CurrentLive DEF InOrder, Still, LiveLogsStay
      <4> QED BY ZenonT(30), <3>1, <4>1 DEF OrderInv
    <3>2. CASE mode = "recovering"
      BY Zenon, <3>2 DEF StoreInv, Precedes
    <3> QED BY ZenonT(30), <3>1, <3>2 DEF Still
  <2>2. ASSUME NEW w \in Writers, pc'[w] \in {"blocked", "linked"}, wlog'[w] = logNum
        PROVE  /\ \A x \in (DataIn(manifest.tables) \cup (UNION imm)) \ Exempt : x < first'[w]
               /\ \A n \in LiveLogs : n < logNum => \A x \in InOrder(n) : x < first'[w]
    <3>1. CASE Keeps(w)
      <4>1. pc[w] \in {"blocked", "linked"} /\ first'[w] = first[w]
        BY ZenonT(30), <2>2, <3>1 DEF Keeps, Claimed
      <4>2. wlog[w] = logNum
        BY Zenon, <2>2 DEF Still, Threads, Claimed
      <4> QED BY ZenonT(30), <4>1, <4>2 DEF OrderInv
    <3>2. CASE Links(w)
      <4>1. first'[w] = upper + 1 /\ upper \in Nat
        BY Zenon, <3>2 DEF Links, PathInv, SeqBase
      <4>2. Upto(DataIn(manifest.tables), upper) /\ Upto(UNION imm, upper)
            /\ Upto(LiveBatches, upper) /\ \A n \in LiveLogs : InOrder(n) \subseteq LiveBatches
        BY ZenonT(30), StoredBelow
      <4>3. ASSUME NEW S, Upto(S, upper) PROVE \A x \in S : x < first'[w]
        BY SMTT(30), <4>1, <4>3 DEF Upto
      <4> QED BY ZenonT(30), <4>2, <4>3
    <3> QED BY ZenonT(30), <3>1, <3>2 DEF Still
  <2> QED BY ZenonT(30), <1>s, <2>1, <2>2 DEF OrderInv, Still
<1> QED BY ZenonT(30), <1>1, <1>2, <1>3, <1>4, <1>5

\* What is acknowledged anew has been inserted.
AckGrows ==
  \/ acked' = acked
  \/ /\ mode = "open" /\ acked \subseteq acked'
     /\ \A x \in acked' \ acked :
          \E w \in Writers : pc[w] = "unlinked" /\ wlog[w] # 0 /\ x = first[w]

LEMMA StillAck ==
  ASSUME PathInv, TicketInv, StoreInv, AckInv, Still, AckGrows
  PROVE  AckInv'
<1>1. Visible' = Visible
  BY Zenon DEF Visible, DataIn, Still
<1>2. mode' = "down" => acked' \subseteq Recoverable'
  <2>1. mode' = "down" => mode = "down" /\ acked' = acked
    BY Zenon DEF Still, AckGrows
  <2> QED BY ZenonT(30), <2>1, StillWriters DEF AckInv
<1>3. ASSUME mode' # "down" PROVE acked' \subseteq Visible
  <2>1. mode # "down"
    BY Zenon, <1>3 DEF Still
  <2>2. acked \subseteq Visible
        /\ \A w \in Writers : pc[w] = "unlinked" /\ wlog[w] # 0 => first[w] \in Visible
    BY Zenon, <2>1 DEF AckInv
  <2> QED BY <2>2 DEF AckGrows
<1>4. ASSUME mode' # "down", NEW w \in Writers, pc'[w] \in {"ended", "unlinked"}, wlog'[w] # 0
      PROVE  first'[w] \in Visible
  <2>1. mode # "down"
    BY ZenonT(30), <1>4 DEF Still
  <2>2. Keeps(w)
    BY ZenonT(30), <1>4 DEF Still, Links
  <2>3. pc[w] \in {"ended", "unlinked"} /\ first'[w] = first[w]
    BY ZenonT(30), <1>4, <2>2 DEF Keeps, Claimed
  <2>4. wlog'[w] = wlog[w]
    BY ZenonT(30), <1>4 DEF Still, Threads, Claimed
  <2> QED BY ZenonT(30), <1>4, <2>1, <2>3, <2>4 DEF AckInv
<1> QED BY ZenonT(30), <1>1, <1>2, <1>3, <1>4 DEF AckInv

\* The steps of this kind.
LEMMA StillSteps ==
  ASSUME PathInv, TicketInv, StoreInv,
         \/ (Idle /\ mode = "open") \/ Open \/ UNCHANGED vars
         \/ \E t \in Threads : QueueOnly(t) \/ Return(t) \/ BackupUnlock(t)
  PROVE  Still /\ AckGrows
<1>l. logs' = logs /\ manifest' = manifest => LiveLogsStay
  BY Zenon DEF LiveLogsStay, LiveLogs
<1>d. mode # "down" => dbLog \in Nat /\ dbLog <= manifest.log
  BY Zenon DEF StoreInv
<1>s. SeqBase
  BY Zenon DEF PathInv
<1>q. UNCHANGED queueVars => \A w \in Writers : Keeps(w)
  BY Zenon DEF queueVars, Keeps
<1>1. CASE Idle /\ mode = "open"
  BY ZenonT(30), <1>l, <1>1 DEF Idle, Still, AckGrows, Calm, Claimed
<1>2. ASSUME NEW t \in Threads, QueueOnly(t) PROVE Still /\ AckGrows
  <2>1. \A w \in Writers : Keeps(w) \/ Links(w)
    BY ZenonT(30), <1>2, <1>s, QueueOnlyMoves DEF Calm
  <2> QED BY ZenonT(30), <1>2, <1>l, <2>1
          DEF QueueOnly, pathVars, memVars, diskVars, versionVars, threadVars, ghostVars, Still,
              AckGrows
<1>3. ASSUME NEW t \in Threads, Return(t) PROVE Still /\ AckGrows
  <2>1. Calm /\ (t \in Writers => pc[t] = "unlinked" /\ pc'[t] \notin Claimed)
    BY ZenonT(30), <1>3, <1>s, ReturnMoves
  <2>2. /\ UNCHANGED <<mem, imm, logNum, logs, manifest, tables, dbLog, nextFile, logged, edit,
                       straddled, resplit, mode>>
        /\ memPc' = memPc \/ (memPc = "asleep" /\ memPc' = "check")
        /\ wlog' = [wlog EXCEPT ![t] = 0] /\ mode = "open"
    BY ZenonT(30), <1>3 DEF Return, diskVars, versionVars, SignalMemThread
  <2>3. \A u \in Threads : wlog'[u] = wlog[u] \/ (u = t /\ wlog'[u] = 0)
    BY ZenonT(30), <2>2 DEF TicketInv
  <2>4. Still
    BY ZenonT(30), <1>l, <2>1, <2>2, <2>3 DEF Still, Calm
  <2>5. AckGrows
    BY ZenonT(30), <1>3, <2>1 DEF Return, AckGrows
  <2> QED BY ZenonT(30), <2>4, <2>5
<1>4. ASSUME NEW t \in Threads, BackupUnlock(t) PROVE Still /\ AckGrows
  <2>1. LiveLogsStay
    BY ZenonT(30), <1>4, <1>d, DeleteKeeps DEF BackupUnlock
  <2> QED BY ZenonT(30), <1>4, <1>q, <2>1
          DEF BackupUnlock, memVars, versionVars, ghostVars, Still, AckGrows
<1>5. CASE Open
  <2>1. LiveLogsStay
    BY ZenonT(30), <1>5, <1>d, DeleteKeeps DEF Open
  <2> QED BY ZenonT(30), <1>5, <1>q, <2>1
          DEF Open, memVars, versionVars, threadVars, ghostVars, Still, AckGrows
<1>6. CASE UNCHANGED vars
  BY ZenonT(30), <1>6, <1>l, <1>q
     DEF vars, pathVars, memVars, diskVars, versionVars, threadVars, ghostVars, Still, AckGrows
<1> QED BY ZenonT(30), <1>1, <1>2, <1>3, <1>4, <1>5, <1>6

LEMMA StillStep ==
  ASSUME PathInv, TicketInv, DataInv, SeqBase', Rises,
         \/ (Idle /\ mode = "open") \/ Open \/ UNCHANGED vars
         \/ \E t \in Threads : QueueOnly(t) \/ Return(t) \/ BackupUnlock(t)
  PROVE  DataInv'
<1>1. Still /\ AckGrows
  BY ZenonT(30), StillSteps DEF DataInv
<1> QED BY ZenonT(30), <1>1, StillData, StillAck DEF DataInv

-----------------------------------------------------------------------------
(* A record goes to a log file.                                            *)

LEMMA AppendStep ==
  ASSUME PathInv, TicketInv, DataInv, NEW w \in Writers, NEW g \in 0..MaxGuards,
         LogAppend(w, g)
  PROVE  DataInv'
<1> DEFINE r == [first |-> first[w], top |-> last[w] + g - 1]
<1>u. /\ UNCHANGED <<queueVars, mem, imm, logNum, wlog, manifest, tables, dbLog, nextFile,
                     edit, memPc, mode, acked, straddled, resplit>>
      /\ mode = "open" /\ pc[w] = "linked" /\ logged' = logged \cup {w}
      /\ logs' = [n \in DOMAIN logs |->
                    IF n = wlog[w] THEN Append(logs[n], r) ELSE logs[n]]
  BY Zenon DEF LogAppend, versionVars, threadVars, ghostVars
<1>q. UNCHANGED <<pc, first, last, upper, lastSeq>>
  BY ZenonT(30), <1>u DEF queueVars
<1>w. /\ w \in Threads /\ first[w] \in Nat /\ first[w] <= upper /\ first[w] <= r.top
      /\ r \in Record /\ r.first = first[w]
  <2>1. /\ w \in Threads /\ first[w] \in Nat /\ first[w] < last[w]
        /\ last[w] \in Nat /\ last[w] <= upper /\ upper \in Nat
    BY ZenonT(30), <1>u DEF TicketInv, PathInv, SeqBase, Claimed, Threads
  <2>2. first[w] <= upper /\ first[w] \in Int
    BY <2>1
  <2>3. last[w] + g - 1 \in Int /\ first[w] <= last[w] + g - 1
    BY <2>1, PathAssumption
  <2> QED BY ZenonT(30), <2>1, <2>2, <2>3 DEF Record
<1> HIDE DEF r
<1>a. /\ DOMAIN logs' = DOMAIN logs /\ LiveLogs' = LiveLogs /\ LiveLogs \subseteq DOMAIN logs
      /\ \A n \in DOMAIN logs : n # wlog[w] => logs'[n] = logs[n]
  BY ZenonT(30), <1>u DEF LiveLogs
<1>b. ASSUME NEW n \in DOMAIN logs, n = wlog[w]
      PROVE  /\ Batches(logs'[n]) = Batches(logs[n]) \cup {first[w]}
             /\ \A i \in DOMAIN logs'[n] :
                  logs'[n][i] = r \/ (i \in DOMAIN logs[n] /\ logs'[n][i] = logs[n][i])
  <2>1. logs[n] \in Seq(Record) /\ logs'[n] = Append(logs[n], r)
    BY ZenonT(30), <1>b, <1>u DEF PathInv, DiskInv, LogsOK
  <2>2. /\ Batches(Append(logs[n], r)) = Batches(logs[n]) \cup {r.first}
        /\ \A i \in DOMAIN Append(logs[n], r) :
             \/ Append(logs[n], r)[i] = r
             \/ i \in DOMAIN logs[n] /\ Append(logs[n], r)[i] = logs[n][i]
    BY ZenonT(30), <1>w, <2>1, AppendBatches
  <2> QED BY ZenonT(30), <1>w, <2>1, <2>2
<1>c. \A n \in DOMAIN logs : /\ Batches(logs[n]) \subseteq Batches(logs'[n])
                             /\ Batches(logs'[n]) \subseteq Batches(logs[n]) \cup {first[w]}
                             /\ n # wlog[w] => Batches(logs'[n]) = Batches(logs[n])
  BY ZenonT(30), <1>a, <1>b
<1>d. LiveBatches \subseteq LiveBatches' /\ LiveBatches' \subseteq LiveBatches \cup {first[w]}
  BY ZenonT(30), <1>a, <1>c, InLive
<1>e. Recoverable \subseteq Recoverable'
  <2>1. Recoverable' = DataIn(manifest'.tables) \cup LiveBatches'
    BY Zenon DEF Recoverable, RecoverableFrom, LiveBatches, LiveLogs
  <2> QED BY ZenonT(30), <1>u, <1>d, <2>1, RecoverableSplits
<1>l. Late \subseteq Late' /\ (wlog[w] # logNum => first[w] \in Late') /\ Exempt' = Exempt
  BY ZenonT(30), <1>u, <1>q DEF Late, Exempt
<1>o. ASSUME NEW n \in LiveLogs, NEW x \in InOrder(n)'
      PROVE  x \in InOrder(n) \/ (n = logNum /\ wlog[w] = logNum /\ x = first[w])
  BY ZenonT(30), <1>a, <1>c, <1>l, <1>o DEF InOrder
<1>v. Visible' = Visible
  BY ZenonT(30), <1>u DEF Visible, DataIn
<1>k. logNum \in LiveLogs /\ \A n \in LiveLogs : n \in Nat /\ n <= logNum
  BY ZenonT(30), <1>u, CurrentLive DEF DataInv
<1>1. EditInv' /\ NumsInv'
  BY Zenon, <1>u DEF DataInv, EditInv, NumsInv
<1>2. AckInv'
  BY ZenonT(30), <1>u, <1>q, <1>v DEF DataInv, AckInv
<1>3. SeqInv'
  <2>1. Upto(LiveBatches', upper)
    BY ZenonT(30), <1>d, <1>w DEF DataInv, SeqInv, Upto
  <2>2. \A n \in LiveLogs : \A i \in DOMAIN logs'[n] : logs'[n][i].first <= logs'[n][i].top
    BY ZenonT(30), <1>a, <1>b, <1>w DEF DataInv, SeqInv
  <2> QED BY ZenonT(30), <1>u, <1>q, <1>a, <2>1, <2>2 DEF DataInv, SeqInv
<1>4. StoreInv'
  <2>1. \A v \in logged' : wlog[v] = logNum => first[v] \in Batches(logs'[logNum])
    <3>1. \A v \in logged : wlog[v] = logNum => first[v] \in Batches(logs[logNum])
      BY ZenonT(30), <1>u DEF DataInv, StoreInv
    <3>2. wlog[w] = logNum => first[w] \in Batches(logs'[logNum])
      BY ZenonT(30), <1>a, <1>b, <1>k
    <3> QED BY ZenonT(30), <1>u, <1>a, <1>c, <1>k, <3>1, <3>2
  <2>2. mem \ straddled \subseteq Batches(logs'[logNum])
    BY ZenonT(30), <1>u, <1>a, <1>c, <1>k DEF DataInv, StoreInv
  <2>3. (UNION imm) \ straddled \subseteq Recoverable'
    BY ZenonT(30), <1>u, <1>e DEF DataInv, StoreInv
  <2> QED BY ZenonT(30), <1>u, <1>q, <1>a, <2>1, <2>2, <2>3 DEF DataInv, StoreInv
<1>5. OrderInv'
  <2>1. wlog[w] = logNum =>
          /\ \A x \in (DataIn(manifest.tables) \cup (UNION imm)) \ Exempt : x < first[w]
          /\ \A n \in LiveLogs : n < logNum => \A x \in InOrder(n) : x < first[w]
    BY ZenonT(30), <1>u DEF DataInv, OrderInv
  <2>2. \A n \in LiveLogs : Precedes(DataIn(manifest.tables) \ Exempt, InOrder(n)')
    BY ZenonT(30), <1>o, <2>1 DEF DataInv, OrderInv, Precedes
  <2>3. \A m, n \in LiveLogs : m < n => Precedes(InOrder(m)', InOrder(n)')
    <3> SUFFICES ASSUME NEW m \in LiveLogs, NEW n \in LiveLogs, m < n,
                        NEW x \in InOrder(m)', NEW y \in InOrder(n)'
                 PROVE  x < y
      BY Zenon DEF Precedes
    <3>1. m # logNum
      BY <1>k
    <3>2. x \in InOrder(m)
      BY Zenon, <1>o, <3>1
    <3> QED BY ZenonT(30), <1>o, <2>1, <3>2 DEF DataInv, OrderInv, Precedes
  <2>4. Precedes((UNION imm) \ Exempt, InOrder(logNum)')
    <3>1. \A x \in InOrder(logNum)' : x \in InOrder(logNum) \/ (wlog[w] = logNum /\ x = first[w])
      <4>1. logNum' = logNum
        BY ZenonT(30), <1>u
      <4> QED BY ZenonT(30), <1>a, <1>c, <1>k, <1>l, <4>1 DEF InOrder
    <3>2. Precedes((UNION imm) \ Exempt, InOrder(logNum))
      BY ZenonT(30), <1>u DEF DataInv, OrderInv
    <3> QED BY ZenonT(30), <2>1, <3>1, <3>2 DEF Precedes
  <2>5. \A n \in LiveLogs : n < logNum => InOrder(n)' \subseteq InOrder(n)
    <3>1. \A n \in LiveLogs : n < logNum => n # logNum
      BY <1>k
    <3> QED BY ZenonT(30), <1>o, <3>1
  <2> QED BY ZenonT(30), <1>u, <1>q, <1>a, <1>l, <2>2, <2>3, <2>4, <2>5 DEF DataInv, OrderInv
<1> QED BY ZenonT(30), <1>1, <1>2, <1>3, <1>4, <1>5 DEF DataInv

-----------------------------------------------------------------------------
(* SequenceWriteEnd: the batch goes into the memtable, or is given up.     *)

LEMMA EndStep ==
  ASSUME PathInv, TicketInv, TicketInv', DataInv, SeqBase', Rises, NEW w \in Writers,
         EndInsert(w) \/ EndError(w)
  PROVE  DataInv'
<1>u. /\ UNCHANGED <<imm, logNum, logs, manifest, tables, dbLog, nextFile, edit, memPc, mode,
                     acked, resplit>>
      /\ mode = "open" /\ w \in logged /\ logged' = logged \ {w} /\ Q!WriteEnd(w)
      /\ straddled' = IF wlog[w] = logNum THEN straddled ELSE straddled \cup {first[w]}
      /\ \/ wlog' = wlog /\ mem' = mem \cup {first[w]}
         \/ wlog' = [wlog EXCEPT ![w] = 0] /\ mem' = mem
  BY Zenon DEF EndInsert, EndError, diskVars, versionVars, threadVars
<1>m. /\ pc[w] = "linked" /\ pc'[w] = "ended" /\ UNCHANGED <<first, last>> /\ last[w] <= lastSeq'
      /\ \A v \in Writers \ {w} : pc'[v] = pc[v]
  BY ZenonT(30), <1>u, EndMoves DEF PathInv
<1>n. /\ first[w] \in Nat /\ first[w] <= lastSeq' /\ w \in Threads
      /\ lastSeq \in Nat /\ lastSeq' \in Nat /\ lastSeq <= lastSeq'
      /\ upper \in Nat /\ upper' \in Nat /\ upper <= upper'
  BY <1>m DEF TicketInv, Claimed, PathInv, SeqBase, Rises, Threads
<1>w. /\ \A v \in Threads : wlog'[v] = wlog[v] \/ (v = w /\ wlog'[v] = 0)
      /\ mem' \subseteq mem \cup {first[w]} /\ mem \subseteq mem'
      /\ wlog'[w] # 0 => first[w] \in mem'
  BY ZenonT(30), <1>n, <1>u DEF TicketInv
<1>x. /\ Exempt \subseteq Exempt' /\ straddled \subseteq straddled'
      /\ wlog[w] # logNum => first[w] \in straddled' /\ first[w] \in Exempt'
  BY ZenonT(30), <1>u DEF Exempt
<1>l. Late \subseteq Late' \cup Exempt'
  BY ZenonT(30), <1>u, <1>m, <1>w, <1>x DEF Late, TicketInv, Threads
<1>a. /\ LiveLogs' = LiveLogs /\ LiveBatches' = LiveBatches
      /\ Recoverable' = Recoverable
  BY Zenon, <1>u DEF LiveLogs, LiveBatches, Recoverable
<1>o. \A n \in LiveLogs : InOrder(n)' \subseteq InOrder(n)
  BY Zenon, <1>u, <1>x, <1>l DEF InOrder
<1>1. EditInv'
  BY ZenonT(30), <1>u DEF DataInv, EditInv
<1>2. SeqInv'
  <2>1. /\ manifest.seq <= lastSeq' /\ edit.seq \in Nat
        /\ Upto(mem' \cup (UNION imm), lastSeq') /\ Upto(LiveBatches, upper')
        /\ memPc \in {"logging", "logged"} => edit.seq <= lastSeq'
    <3>1. manifest.seq \in Nat /\ edit.seq \in Nat
      BY Zenon DEF PathInv, DiskInv
    <3>2. mem' \cup (UNION imm) \subseteq (mem \cup (UNION imm)) \cup {first[w]}
      BY ZenonT(30), <1>w
    <3>3. Upto((mem \cup (UNION imm)) \cup {first[w]}, lastSeq')
      BY <1>n DEF DataInv, SeqInv, Upto
    <3>4. Upto(mem' \cup (UNION imm), lastSeq')
      BY ZenonT(30), <3>2, <3>3 DEF Upto
    <3>5. manifest.seq <= lastSeq /\ (memPc \in {"logging", "logged"} => edit.seq <= lastSeq)
          /\ Upto(LiveBatches, upper)
      BY ZenonT(30), <1>u DEF DataInv, SeqInv
    <3>6. Upto(LiveBatches, upper')
      BY ZenonT(30), <1>n, <3>5, LeqLeq DEF Upto
    <3> QED BY ZenonT(30), <1>n, <3>1, <3>4, <3>5, <3>6, LeqLeq
  <2> QED BY ZenonT(30), <1>u, <1>a, <2>1 DEF DataInv, SeqInv
<1>3. StoreInv'
  <2>1. mem' \ straddled' \subseteq Batches(logs[logNum])
    <3>1. wlog[w] = logNum => first[w] \in Batches(logs[logNum])
      BY ZenonT(30), <1>u DEF DataInv, StoreInv
    <3>2. mem \ straddled \subseteq Batches(logs[logNum])
      BY ZenonT(30), <1>u DEF DataInv, StoreInv
    <3> QED BY ZenonT(30), <1>w, <1>x, <3>1, <3>2
  <2>2. (UNION imm) \ straddled' \subseteq Recoverable
    BY ZenonT(30), <1>u, <1>x DEF DataInv, StoreInv
  <2>3. \A v \in logged' : wlog'[v] = logNum => first[v] \in Batches(logs[logNum])
    BY ZenonT(30), <1>u, <1>w DEF DataInv, StoreInv, TicketInv, Threads
  <2> QED BY ZenonT(30), <1>u, <1>m, <1>a, <2>1, <2>2, <2>3 DEF DataInv, StoreInv
<1>4. AckInv'
  <2>1. Visible \subseteq Visible' /\ mem' \subseteq Visible'
    BY ZenonT(30), <1>u, <1>w DEF Visible
  <2>2. \A v \in Writers : pc'[v] \in {"ended", "unlinked"} /\ wlog'[v] # 0 => first[v] \in Visible'
    BY ZenonT(30), <1>u, <1>m, <1>w, <2>1 DEF DataInv, AckInv, Threads
  <2> QED BY ZenonT(30), <1>u, <1>m, <2>1, <2>2 DEF DataInv, AckInv
<1>5. NumsInv'
  <2>1. \A t \in Threads : wlog'[t] <= logNum
    <3>1. mode # "down"
      BY <1>u
    <3>2. logNum \in Nat /\ \A t \in Threads : wlog[t] <= logNum
      BY ZenonT(30), <3>1 DEF DataInv, NumsInv, PathInv, NumberInv
    <3>3. 0 <= logNum
      BY <3>2
    <3> QED BY ZenonT(30), <1>w, <3>2, <3>3
  <2> QED BY ZenonT(30), <1>u, <2>1 DEF DataInv, NumsInv
<1>6. OrderInv'
  <2> DEFINE D == DataIn(manifest.tables)
             I == UNION imm
  <2>1. wlog[w] = logNum => \A x \in (D \cup I) \ Exempt : x < first[w]
    BY Zenon, <1>m DEF DataInv, OrderInv
  <2>2. Precedes((D \cup I) \ Exempt', mem' \ Exempt')
    BY ZenonT(30), <1>w, <1>x, <2>1 DEF DataInv, OrderInv, Precedes
  <2>3. /\ \A n \in LiveLogs : Precedes(D \ Exempt', InOrder(n)')
        /\ \A m, n \in LiveLogs : m < n => Precedes(InOrder(m)', InOrder(n)')
    BY Zenon, <1>o, <1>x DEF DataInv, OrderInv, Precedes
  <2>4. Precedes(I \ Exempt', InOrder(logNum)')
    <3>1. InOrder(logNum)' \subseteq InOrder(logNum)
      BY ZenonT(30), <1>u, <1>x, <1>l DEF InOrder
    <3>2. Precedes(I \ Exempt, InOrder(logNum))
      BY ZenonT(30), <1>u DEF DataInv, OrderInv
    <3> QED BY ZenonT(30), <1>x, <3>1, <3>2 DEF Precedes
  <2>5. ASSUME NEW v \in Writers, pc'[v] \in {"blocked", "linked"}, wlog'[v] = logNum
        PROVE  /\ \A x \in (D \cup I) \ Exempt' : x < first[v]
               /\ \A n \in LiveLogs : n < logNum => \A x \in InOrder(n)' : x < first[v]
    <3>1. v # w /\ pc[v] \in {"blocked", "linked"} /\ wlog[v] = logNum
      BY ZenonT(30), <1>m, <1>w, <2>5 DEF Threads
    <3> QED BY ZenonT(30), <1>x, <1>o, <3>1 DEF DataInv, OrderInv
  <2>6. \A t, u \in manifest.tables : t.num < u.num =>
          \A x \in t.data \ Exempt', y \in u.data \ Exempt' : x < y \/ x \in u.data
    BY ZenonT(30), <1>x DEF DataInv, OrderInv
  <2>7. \A x \in D \ Exempt', y \in I \ Exempt' : x < y \/ x \in I
    BY ZenonT(30), <1>x DEF DataInv, OrderInv
  <2> QED BY ZenonT(30), <1>u, <1>m, <1>a, <2>2, <2>3, <2>4, <2>5, <2>6, <2>7 DEF OrderInv
<1> QED BY ZenonT(30), <1>1, <1>2, <1>3, <1>4, <1>5, <1>6 DEF DataInv

-----------------------------------------------------------------------------
(* SequenceWriteBegin starts a new log and a new memtable.                 *)

LEMMA SwitchStep ==
  ASSUME PathInv, TicketInv, DataInv, SeqBase', Rises, NEW t \in Threads, BeginSwitch(t)
  PROVE  DataInv'
<1>u. /\ UNCHANGED <<logged, manifest, tables, dbLog, memPc, edit, mode, acked, straddled, resplit>>
      /\ mode = "open" /\ imm = {} /\ imm' = {mem} /\ mem' = {}
      /\ logNum' = nextFile /\ nextFile' = nextFile + 1
      /\ logs' = [n \in DOMAIN logs \cup {nextFile} |->
                    IF n = nextFile THEN <<>> ELSE logs[n]]
      /\ wlog' = [wlog EXCEPT ![t] = nextFile] /\ t \in Callers /\ QueueBegin(t, TRUE)
  BY Zenon DEF BeginSwitch, InBegin, threadVars, ghostVars
<1>c. Calm /\ pc'[t] = "begun" /\ pc[t] # "linked"
  BY ZenonT(30), <1>u, BeginMoves
<1>n. /\ nextFile \in Nat /\ logNum \in Nat /\ logNum < nextFile /\ manifest.log \in Nat
      /\ manifest.log <= logNum /\ \A n \in DOMAIN logs : n \in Nat /\ n <= logNum
  BY ZenonT(30), <1>u DEF PathInv, NumberInv, DiskInv, LogsOK, DataInv, StoreInv
<1>f. nextFile \notin DOMAIN logs /\ nextFile >= manifest.log /\ nextFile # 0
      /\ \A n \in DOMAIN logs : n < nextFile
  BY <1>n
<1>i. UNION imm' = mem /\ UNION imm = {}
  BY Zenon, <1>u
<1>e. /\ memPc \notin {"building", "built", "logging", "logged"}
      /\ memPc \notin {"built", "logging", "logged"} /\ memPc \notin {"building", "built", "logging"}
      /\ memPc \notin {"logging", "logged"} /\ memPc # "logging" /\ memPc # "logged"
  BY Zenon, <1>u DEF DataInv, EditInv
<1>a. /\ LiveLogs' = LiveLogs \cup {nextFile} /\ logs'[nextFile] = <<>>
      /\ DOMAIN logs' = DOMAIN logs \cup {nextFile} /\ LiveLogs \subseteq DOMAIN logs
      /\ \A n \in DOMAIN logs : logs'[n] = logs[n]
  BY ZenonT(30), <1>u, <1>f DEF LiveLogs
<1>b. DOMAIN logs'[nextFile] = {} /\ Batches(logs'[nextFile]) = {}
  <2>1. DOMAIN <<>> = {}
    OBVIOUS
  <2> QED BY ZenonT(30), <1>a, <2>1 DEF Batches
<1>d. LiveBatches' = LiveBatches
  BY ZenonT(30), <1>a, <1>b, InLive
<1>r. Recoverable' = Recoverable
  <2>1. Recoverable' = DataIn(manifest'.tables) \cup LiveBatches'
    BY Zenon DEF Recoverable, RecoverableFrom, LiveBatches, LiveLogs
  <2> QED BY ZenonT(30), <1>u, <1>d, <2>1, RecoverableSplits
<1>w. ASSUME NEW v \in Writers, pc'[v] \in Claimed
      PROVE  v # t /\ first'[v] = first[v] /\ wlog'[v] = wlog[v] /\ wlog[v] # nextFile
  <2>1. v # t /\ v \in Threads
    BY ZenonT(30), <1>c, <1>w DEF Claimed, Threads
  <2>2. wlog[v] \in Nat /\ wlog[v] <= logNum
    BY ZenonT(30), <1>u, <2>1 DEF DataInv, NumsInv, TicketInv
  <2>3. wlog[v] # nextFile
    BY ZenonT(30), <1>n, <2>2, LeqLt
  <2>4. wlog'[v] = wlog[v]
    BY ZenonT(30), <1>u, <2>1 DEF TicketInv
  <2> QED BY ZenonT(30), <1>c, <1>w, <2>1, <2>3, <2>4 DEF Calm, Keeps
<1>g. \A v \in logged : v \in Writers /\ pc'[v] \in Claimed
  BY ZenonT(30), <1>c DEF TicketInv, Calm, Keeps, Claimed
<1>l. Late \subseteq Late' /\ Exempt' = Exempt
  BY ZenonT(30), <1>u, <1>w, <1>g DEF Late, Exempt
<1>o. /\ \A n \in LiveLogs : InOrder(n)' \subseteq InOrder(n)
      /\ \A n : n = nextFile => InOrder(n)' = {}
      /\ InOrder(logNum)' = {}
  <2>1. \A x : x \notin Batches(logs'[nextFile])
    BY ZenonT(30), <1>b
  <2> QED BY ZenonT(30), <1>u, <1>a, <1>l, <2>1 DEF InOrder
<1>1. EditInv'
  BY ZenonT(30), <1>u, <1>e DEF EditInv
<1>2. SeqInv'
  <2>1. /\ lastSeq \in Nat /\ lastSeq' \in Nat /\ lastSeq <= lastSeq'
        /\ upper \in Nat /\ upper' \in Nat /\ upper <= upper' /\ manifest.seq \in Nat
    BY ZenonT(30) DEF PathInv, SeqBase, Rises, DiskInv
  <2>2. manifest.seq <= lastSeq' /\ Upto(mem, lastSeq') /\ Upto(LiveBatches, upper')
    BY <2>1 DEF DataInv, SeqInv, Upto
  <2>3. mem' \cup (UNION imm') = mem
    BY ZenonT(30), <1>u, <1>i
  <2>4. \A n \in LiveLogs' : \A i \in DOMAIN logs'[n] : logs'[n][i].first <= logs'[n][i].top
    BY ZenonT(30), <1>a, <1>b DEF DataInv, SeqInv
  <2> QED BY ZenonT(30), <1>u, <1>e, <1>d, <2>2, <2>3, <2>4 DEF DataInv, SeqInv
<1>3. StoreInv'
  <2>1. mem \ straddled \subseteq Recoverable
    BY ZenonT(30), <1>u, CurrentLive DEF DataInv, StoreInv
  <2>2. /\ nextFile \in DOMAIN logs' /\ (\A n \in DOMAIN logs' : n <= nextFile)
        /\ \A n \in DOMAIN logs' : n # 0
    BY SMTT(30), <1>a, <1>n DEF DataInv, StoreInv
  <2>3. \A v \in logged : wlog'[v] # nextFile
    BY ZenonT(30), <1>w, <1>g
  <2> QED BY ZenonT(30), <1>u, <1>i, <1>r, <2>1, <2>2, <2>3 DEF DataInv, StoreInv
<1>4. AckInv'
  <2>1. Visible' = Visible
    BY ZenonT(30), <1>u, <1>i DEF Visible
  <2>2. ASSUME NEW v \in Writers, pc'[v] \in {"ended", "unlinked"}, wlog'[v] # 0
        PROVE  first'[v] \in Visible
    <3>1. pc'[v] \in Claimed
      BY ZenonT(30), <2>2 DEF Claimed
    <3>2. first'[v] = first[v] /\ wlog[v] # 0
      BY ZenonT(30), <1>w, <2>2, <3>1
    <3>3. pc[v] \in {"ended", "unlinked"}
      BY ZenonT(30), <1>c, <2>2, <3>1 DEF Calm, Keeps
    <3> QED BY ZenonT(30), <1>u, <3>2, <3>3 DEF DataInv, AckInv
  <2> QED BY ZenonT(30), <1>u, <2>1, <2>2 DEF DataInv, AckInv
<1>5. NumsInv'
  <2>1. manifest.next <= nextFile'
    <3>1. /\ manifest.next \in Nat /\ manifest.next <= nextFile /\ nextFile \in Nat
          /\ nextFile' = nextFile + 1
      BY ZenonT(30), <1>u, <1>n DEF DataInv, NumsInv, PathInv, NumberInv
    <3> QED BY <3>1
  <2>2. \A v \in Threads : wlog'[v] <= nextFile
    <3>1. \A v \in Threads : wlog[v] \in Nat /\ wlog[v] <= logNum
      BY ZenonT(30), <1>u DEF DataInv, NumsInv, TicketInv
    <3>2. \A v \in Threads : wlog[v] <= nextFile
      BY ZenonT(30), <1>n, <3>1, LeqLt
    <3>3. \A v \in Threads : wlog'[v] = wlog[v] \/ wlog'[v] = nextFile
      BY ZenonT(30), <1>u DEF TicketInv
    <3> QED BY ZenonT(30), <1>n, <3>2, <3>3, LeqSelf
  <2> QED BY ZenonT(30), <1>u, <1>e, <2>1, <2>2 DEF DataInv, NumsInv
<1>6. OrderInv'
  <2> DEFINE D == DataIn(manifest.tables)
  <2>1. Precedes(D \ Exempt, mem \ Exempt)
    BY Zenon DEF DataInv, OrderInv, Precedes
  <2>2. \A x \in D \ Exempt, y \in mem \ Exempt : x < y
    BY ZenonT(30), <2>1 DEF Precedes
  <2>3. \A n \in LiveLogs' : Precedes(D \ Exempt, InOrder(n)')
    BY ZenonT(30), <1>a, <1>o DEF DataInv, OrderInv, Precedes
  <2>4. ASSUME NEW m \in LiveLogs', NEW n \in LiveLogs', m < n
        PROVE  Precedes(InOrder(m)', InOrder(n)')
    <3>1. CASE n = nextFile
      BY ZenonT(30), <1>o, <3>1 DEF Precedes
    <3>2. CASE n \in LiveLogs
      <4>1. m \in LiveLogs
        BY ZenonT(30), <1>a, <1>f, <1>n, <2>4, <3>2, LtNot
      <4> QED BY ZenonT(30), <1>o, <2>4, <3>2, <4>1 DEF DataInv, OrderInv, Precedes
    <3> QED BY ZenonT(30), <1>a, <3>1, <3>2
  <2>5. Precedes(mem \ Exempt, InOrder(logNum)')
    BY ZenonT(30), <1>o DEF Precedes
  <2>6. \A v \in Writers : ~(pc'[v] \in {"blocked", "linked"} /\ wlog'[v] = nextFile)
    BY ZenonT(30), <1>w DEF Claimed
  <2>7. Precedes((D \cup mem) \ Exempt, mem' \ Exempt)
    BY ZenonT(30), <1>u DEF Precedes
  <2> QED BY ZenonT(30), <1>u, <1>i, <1>l, <2>2, <2>3, <2>4, <2>5, <2>6, <2>7 DEF DataInv, OrderInv
<1> QED BY ZenonT(30), <1>1, <1>2, <1>3, <1>4, <1>5, <1>6 DEF DataInv

-----------------------------------------------------------------------------
(* The memtable thread.                                                    *)

\* The thread prepares its edit; nothing is stored yet.
LEMMA PrepareStep ==
  ASSUME PathInv, DataInv, MemCheck \/ MemBuilt \/ MemOccupy
  PROVE  DataInv'
<1>u. /\ UNCHANGED <<pc, first, last, upper, lastSeq, mem, imm, logNum, wlog, logged, logs,
                     manifest, tables, dbLog, mode, acked, straddled, resplit>>
      /\ mode = "open"
  BY Zenon DEF MemCheck, MemBuilt, MemOccupy, queueVars, memVars, diskVars, versionVars, ghostVars
<1>n. nextFile \in Nat /\ logNum \in Nat /\ manifest.next \in Nat /\ manifest.next <= nextFile
  BY ZenonT(30), <1>u DEF PathInv, NumberInv, DataInv, NumsInv
<1>1. StoreInv' /\ AckInv'
  BY ZenonT(30), <1>u DEF DataInv, StoreInv, AckInv, Recoverable, Visible
<1>s. UNCHANGED <<LiveLogs, LiveBatches, Late, Exempt>>
  BY ZenonT(30), <1>u DEF LiveLogs, LiveBatches, Late, Exempt
<1>2. OrderInv'
  <2>1. InOrder(logNum)' = InOrder(logNum) /\ \A n : InOrder(n)' = InOrder(n)
    BY ZenonT(30), <1>u, <1>s DEF InOrder
  <2> QED BY ZenonT(30), <1>u, <1>s, <2>1 DEF DataInv, OrderInv
<1>3. CASE MemCheck /\ imm = {}
  <2>1. memPc' = "asleep" /\ UNCHANGED <<edit, nextFile>>
    BY ZenonT(30), <1>3 DEF MemCheck
  <2>2. EditInv' /\ SeqInv' /\ NumsInv'
    BY ZenonT(30), <1>u, <1>s, <2>1 DEF DataInv, EditInv, SeqInv, NumsInv
  <2> QED BY ZenonT(30), <1>1, <1>2, <2>2 DEF DataInv
<1>4. CASE MemCheck /\ imm # {}
  <2>1. /\ memPc' = "building" /\ nextFile' = nextFile + 1
        /\ edit' = [log |-> 0, seq |-> 0, next |-> 0,
                    table |-> {[num |-> nextFile, data |-> m] : m \in imm \ {{}}}]
    BY ZenonT(30), <1>4 DEF MemCheck
  <2>2. PICK m : imm = {m}
    <3>1. \A x, y \in imm : x = y
      BY Zenon DEF DataInv, EditInv
    <3>2. PICK m \in imm : TRUE
      BY ZenonT(30), <1>4
    <3>3. imm = {m}
      BY ZenonT(30), <3>1, <3>2
    <3> QED BY ZenonT(30), <3>3
  <2>3. UNION imm = m
    BY ZenonT(30), <2>2
  <2>4. edit'.table = {[num |-> nextFile, data |-> x] : x \in imm \ {{}}}
    BY ZenonT(30), <2>1
  <2>5. \A e \in edit'.table : e.num = nextFile /\ e.data = m /\ e.data # {}
                               /\ e = [num |-> nextFile, data |-> m]
    <3>1. \A e \in edit'.table : e = [num |-> nextFile, data |-> m] /\ m # {}
      BY ZenonT(30), <2>2, <2>4
    <3>2. /\ [num |-> nextFile, data |-> m].num = nextFile
          /\ [num |-> nextFile, data |-> m].data = m
      BY Zenon
    <3> QED BY ZenonT(30), <3>1, <3>2
  <2>6. m # {} => [num |-> nextFile, data |-> m] \in edit'.table
    BY ZenonT(30), <2>2, <2>4
  <2>7. DataIn(edit'.table) = m
    <3>1. \A x \in m : x \in [num |-> nextFile, data |-> m].data /\ m # {}
      BY Zenon
    <3> QED BY ZenonT(30), <2>5, <2>6, <3>1 DEF DataIn
  <2>8. EditInv'
    <3>1. memPc' \notin {"built", "logging", "logged"} /\ memPc' # "logged"
      BY ZenonT(30), <2>1
    <3>2. \A e \in edit'.table : e.data = UNION imm
      BY ZenonT(30), <2>3, <2>5
    <3>3. DataIn(edit'.table) = UNION imm
      BY ZenonT(30), <2>3, <2>7
    <3> QED BY ZenonT(30), <1>u, <1>4, <3>1, <3>2, <3>3 DEF DataInv, EditInv
  <2>9. SeqInv'
    BY ZenonT(30), <1>u, <1>s, <2>1 DEF DataInv, SeqInv
  <2>10. NumsInv'
    <3>a. nextFile < nextFile + 1 /\ nextFile + 1 \in Nat
      BY <1>n
    <3>0. nextFile' = nextFile + 1 /\ nextFile < nextFile + 1
      BY ZenonT(30), <2>1, <3>a
    <3>1. \A e \in edit'.table, u \in manifest.tables : u.num < e.num
      <4>1. \A u \in manifest.tables : u.num \in Nat /\ u.num < manifest.next
        BY ZenonT(30) DEF DataInv, NumsInv
      <4>2. \A u \in manifest.tables : u.num < nextFile
        BY ZenonT(30), <1>n, <4>1, LtLeq
      <4> QED BY ZenonT(30), <2>5, <4>2
    <3>2. \A e \in edit'.table : e.num \in Nat /\ e.num < nextFile'
      BY ZenonT(30), <1>n, <2>5, <3>0
    <3>3. manifest.next <= nextFile'
      BY ZenonT(30), <1>n, <3>0, <3>a, LeqLt
    <3>4. memPc' \notin {"logging", "logged"} /\ memPc' # "logging"
      BY ZenonT(30), <2>1
    <3> QED BY ZenonT(30), <1>u, <2>5, <3>1, <3>2, <3>3, <3>4 DEF DataInv, NumsInv
  <2> QED BY ZenonT(30), <1>1, <1>2, <2>8, <2>9, <2>10 DEF DataInv
<1>5. CASE MemBuilt
  <2>1. /\ memPc = "building" /\ memPc' = "built" /\ nextFile' = nextFile
        /\ edit'.log = logNum /\ edit'.table = edit.table
    BY ZenonT(30), <1>5 DEF MemBuilt, versionVars
  <2>2. EditInv' /\ SeqInv' /\ NumsInv'
    BY ZenonT(30), <1>u, <1>s, <2>1 DEF DataInv, EditInv, SeqInv, NumsInv
  <2> QED BY Zenon, <1>1, <1>2, <2>2 DEF DataInv
<1>6. CASE MemOccupy
  <2>1. /\ memPc = "built" /\ memPc' = "logging" /\ nextFile' = nextFile
        /\ edit'.log = edit.log /\ edit'.table = edit.table
        /\ edit'.seq = lastSeq /\ edit'.next = nextFile
    BY ZenonT(30), <1>6 DEF MemOccupy, versionVars
  <2>2. EditInv'
    BY ZenonT(30), <1>u, <2>1 DEF DataInv, EditInv
  <2>3. SeqInv'
    <3>1. Upto(UNION imm, lastSeq) /\ lastSeq <= lastSeq
      BY ZenonT(30), LeqSelf DEF DataInv, SeqInv, Upto, PathInv, SeqBase
    <3> QED BY ZenonT(30), <1>u, <1>s, <2>1, <3>1 DEF DataInv, SeqInv
  <2>4. NumsInv'
    <3>1. nextFile <= nextFile
      BY ZenonT(30), <1>n, LeqSelf
    <3> QED BY ZenonT(30), <1>u, <1>n, <2>1, <3>1 DEF DataInv, NumsInv
  <2> QED BY Zenon, <1>1, <1>2, <2>2, <2>3, <2>4 DEF DataInv
<1> QED BY ZenonT(30), <1>3, <1>4, <1>5, <1>6

=============================================================================
