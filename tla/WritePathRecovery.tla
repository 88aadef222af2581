------------------------- MODULE WritePathRecovery -------------------------
(***************************************************************************)
(* What the write path keeps through crashes, recoveries and backups:      *)
(* acknowledged writes can be recovered, read and backed up, sequence      *)
(* numbers are not used twice, and a read finds the newest write, for any  *)
(* number of threads and any bounds.                                       *)
(***************************************************************************)
EXTENDS WritePathProofs, WellFoundedInduction

\* What a backup has listed, and what it has of the files.
Listed(b) == todo[b] \cup DOMAIN copied[b]

CopiedOf(b) ==
  DataIn(manifest.tables) \cup
  (UNION {Batches(copied[b][n]) : n \in {k \in (DOMAIN copied[b]) \ {0} : k >= manifest.log}}) \cup
  (UNION {Batches(logs[n]) : n \in {k \in todo[b] \ {0} : k >= manifest.log}})

CopyInv(b) ==
  /\ ackedAt[b] \subseteq acked /\ (mode # "open" => ackedAt[b] = {})
  /\ logOwner # b => todo[b] = {}
  /\ pc[b] # "copying" => copied[b] = <<>>
  /\ copied[b] # <<>> => DOMAIN copied[b] # {}
  /\ todo[b] \cap DOMAIN copied[b] = {}
  /\ logOwner = b =>
       /\ todo[b] \subseteq {0} \cup DOMAIN logs
       /\ 0 \in DOMAIN copied[b] => copied[b][0] = manifest
       /\ Listed(b) # {} => 0 \in Listed(b) /\ ackedAt[b] \ straddled \subseteq CopiedOf(b)

BackupInv ==
  /\ DOMAIN todo = Backers /\ DOMAIN copied = Backers /\ DOMAIN ackedAt = Backers
  /\ \A b \in Backers : CopyInv(b)

RecoveryInv == TicketInv /\ TurnInv /\ DataInv /\ BackupInv

-----------------------------------------------------------------------------
(* The thread that writes the immutable memtable to a table.               *)

\* The record of the MANIFEST: the immutable memtable is a table now, and only
\* the current log is replayed.
LEMMA ManifestStep ==
  ASSUME PathInv, DataInv, MemManifest \/ MemError, memPc = "logging",
         manifest' = ManifestAfterEdit
  PROVE  DataInv'
<1>u. /\ UNCHANGED <<pc, first, last, upper, lastSeq, mem, imm, logNum, wlog, logged, logs,
                     tables, dbLog, nextFile, mode, acked, straddled, resplit>>
      /\ mode = "open" /\ ((memPc' = "logged" /\ edit' = edit) \/ memPc' = "check")
  BY Zenon DEF MemManifest, MemError, queueVars, memVars, versionVars, ghostVars
<1>f. /\ manifest'.log = edit.log /\ manifest'.seq = edit.seq /\ manifest'.next = edit.next
      /\ manifest'.tables = manifest.tables \cup edit.table
  BY Zenon DEF ManifestAfterEdit
<1>e. /\ edit.log = logNum /\ DataIn(edit.table) = UNION imm /\ \A e \in edit.table : e.data = UNION imm
  BY Zenon DEF DataInv, EditInv
<1>d. DataIn(manifest'.tables) = DataIn(manifest.tables) \cup (UNION imm)
  <2>1. DataIn(manifest.tables \cup edit.table) = DataIn(manifest.tables) \cup DataIn(edit.table)
    BY Zenon DEF DataIn
  <2> QED BY ZenonT(30), <1>e, <1>f, <2>1
<1>k. /\ logNum \in LiveLogs /\ logNum \in Nat /\ \A n \in LiveLogs : n \in Nat /\ n <= logNum
      /\ manifest.log \in Nat /\ manifest.log <= logNum /\ \A n \in DOMAIN logs : n \in Nat /\ n <= logNum
  BY ZenonT(30), <1>u, CurrentLive DEF DataInv, StoreInv, PathInv, NumberInv, DiskInv, LogsOK
<1>l. LiveLogs' = {logNum} /\ logNum \in DOMAIN logs
  <2>1. manifest'.log = logNum /\ logs' = logs /\ logNum \in DOMAIN logs
    BY ZenonT(30), <1>u, <1>f, <1>e, <1>k DEF LiveLogs
  <2>2. \A n \in DOMAIN logs : n >= logNum => n = logNum
    BY <1>k
  <2>3. logNum >= logNum
    BY ZenonT(30), <1>k
  <2> QED BY ZenonT(30), <2>1, <2>2, <2>3 DEF LiveLogs
<1>b. LiveBatches' \subseteq LiveBatches
  BY ZenonT(30), <1>u, <1>k, <1>l, InLive
<1>r. Recoverable' = DataIn(manifest'.tables) \cup LiveBatches'
  BY Zenon DEF Recoverable, RecoverableFrom, LiveBatches, LiveLogs
<1>s. UNCHANGED <<Late, Exempt, Visible>> /\ InOrder(logNum)' = InOrder(logNum)
      /\ \A n : InOrder(n)' = InOrder(n)
  <2>1. UNCHANGED <<Late, Exempt, Visible>>
    BY ZenonT(30), <1>u DEF Late, Exempt, Visible, DataIn
  <2> QED BY ZenonT(30), <1>u, <2>1 DEF InOrder
<1>p. /\ memPc' # "logging" /\ (memPc' # "check" => memPc' = "logged" /\ edit' = edit)
      /\ memPc' \notin {"building", "built", "logging"}
  BY ZenonT(30), <1>u
<1>1. EditInv'
  BY ZenonT(30), <1>u, <1>f, <1>e, <1>p DEF DataInv, EditInv
<1>2. SeqInv'
  <2>1. /\ edit.seq \in Nat /\ manifest.seq \in Nat /\ manifest.seq <= edit.seq
        /\ edit.seq <= lastSeq /\ Upto(UNION imm, edit.seq)
    BY ZenonT(30) DEF DataInv, SeqInv, PathInv, DiskInv
  <2>2. Upto(DataIn(manifest.tables), edit.seq)
    BY <2>1 DEF DataInv, SeqInv, Upto
  <2>3. Upto(DataIn(manifest'.tables), edit.seq)
    BY ZenonT(30), <1>d, <2>1, <2>2 DEF Upto
  <2>4. Upto(LiveBatches', upper)
    BY ZenonT(30), <1>b DEF DataInv, SeqInv, Upto
  <2>5. \A n \in LiveLogs' : \A i \in DOMAIN logs[n] : logs[n][i].first <= logs[n][i].top
    BY ZenonT(30), <1>k, <1>l DEF DataInv, SeqInv
  <2>6. memPc' \in {"logging", "logged"} => edit' = edit
    BY ZenonT(30), <1>u
  <2> QED BY ZenonT(30), <1>u, <1>f, <1>p, <2>1, <2>3, <2>4, <2>5, <2>6 DEF DataInv, SeqInv
<1>3. StoreInv'
  <2>1. dbLog \in Nat /\ dbLog <= manifest'.log
    <3>1. dbLog \in Nat /\ dbLog <= manifest.log
      BY ZenonT(30), <1>u DEF DataInv, StoreInv
    <3> QED BY ZenonT(30), <1>f, <1>e, <1>k, <3>1, LeqLeq
  <2>2. (UNION imm) \ straddled \subseteq Recoverable'
    BY ZenonT(30), <1>d, <1>r
  <2>3. tables \subseteq manifest'.tables
    BY ZenonT(30), <1>f DEF DataInv, StoreInv
  <2> QED BY ZenonT(30), <1>u, <2>1, <2>2, <2>3 DEF DataInv, StoreInv
<1>4. AckInv'
  BY ZenonT(30), <1>u, <1>s DEF DataInv, AckInv
<1>5. NumsInv'
  <2>1. /\ manifest.next \in Nat /\ manifest.next <= edit.next /\ edit.next \in Nat
        /\ edit.next <= nextFile
        /\ \A e \in edit.table : e.num \in Nat /\ e.num < edit.next /\ e.data # {}
        /\ \A e \in edit.table : e.num < nextFile
        /\ \A e, f \in edit.table : e = f
        /\ \A e \in edit.table, f \in manifest.tables : f.num < e.num
    BY ZenonT(30) DEF DataInv, NumsInv, PathInv, NumberInv
  <2>2. \A e \in manifest'.tables : e.num \in Nat /\ e.num < edit.next /\ e.data # {}
    <3>1. \A e \in manifest.tables : e.num \in Nat /\ e.num < manifest.next /\ e.data # {}
      BY ZenonT(30) DEF DataInv, NumsInv
    <3>2. \A e \in manifest.tables : e.num < edit.next
      BY ZenonT(30), <2>1, <3>1, LtLeq
    <3> QED BY ZenonT(30), <1>f, <2>1, <3>1, <3>2
  <2>3. \A e, f \in manifest'.tables : e.num = f.num => e = f
    <3>1. \A e \in edit.table, f \in manifest.tables : e.num # f.num
      BY ZenonT(30), <1>f, <2>1, <2>2, LtNot
    <3>2. \A e, f \in manifest.tables : e.num = f.num => e = f
      BY Zenon DEF DataInv, NumsInv
    <3> QED BY ZenonT(30), <1>f, <2>1, <3>1, <3>2
  <2>4. memPc' \in {"building", "built", "logging", "logged"} => edit' = edit
    BY ZenonT(30), <1>u
  <2>5. memPc' \in {"logging", "logged"} => edit' = edit
    BY Zenon, <1>u
  <2> QED BY ZenonT(30), <1>u, <1>f, <1>p, <2>1, <2>2, <2>3, <2>4, <2>5 DEF DataInv, NumsInv
<1>6. OrderInv'
  <2> DEFINE D == DataIn(manifest.tables)
             I == UNION imm
  <2>1. ASSUME NEW e \in manifest'.tables, NEW f \in manifest'.tables, e.num < f.num,
               NEW x \in e.data \ Exempt, NEW y \in f.data \ Exempt
        PROVE  x < y \/ x \in f.data
    <3>1. CASE e \in manifest.tables /\ f \in manifest.tables
      BY ZenonT(30), <2>1, <3>1 DEF DataInv, OrderInv
    <3>2. CASE e \in manifest.tables /\ f \in edit.table
      <4>1. f.data = I /\ x \in D \ Exempt /\ y \in I \ Exempt
        BY ZenonT(30), <1>e, <2>1, <3>2 DEF DataIn
      <4> QED BY ZenonT(30), <4>1 DEF DataInv, OrderInv
    <3>3. CASE e \in edit.table
      <4>1. f \notin manifest.tables
        <5>1. f \in manifest.tables => f.num < e.num /\ f.num \in Nat /\ e.num \in Nat
          BY ZenonT(30), <3>3 DEF DataInv, NumsInv
        <5> QED BY ZenonT(30), <2>1, <5>1, LtNot
      <4>2. f = e
        BY ZenonT(30), <1>f, <2>1, <3>3, <4>1 DEF DataInv, NumsInv
      <4> QED BY ZenonT(30), <2>1, <4>2
    <3> QED BY ZenonT(30), <1>f, <3>1, <3>2, <3>3
  <2>2. \A x \in (D \cup I) \ Exempt, y \in I \ Exempt : x < y \/ x \in I
    BY Zenon DEF DataInv, OrderInv
  <2>3. Precedes(((D \cup I) \cup I) \ Exempt, mem \ Exempt)
    BY ZenonT(30) DEF DataInv, OrderInv, Precedes
  <2>4. Precedes((D \cup I) \ Exempt, InOrder(logNum))
    <3>1. Precedes(D \ Exempt, InOrder(logNum)) /\ Precedes(I \ Exempt, InOrder(logNum))
      BY ZenonT(30), <1>u, <1>k DEF DataInv, OrderInv
    <3> QED BY ZenonT(30), <3>1 DEF Precedes
  <2>5. \A m, n \in LiveLogs' : m < n => FALSE
    BY ZenonT(30), <1>k, <1>l, LeqSelf
  <2>6. \A w \in Writers : pc[w] \in {"blocked", "linked"} /\ wlog[w] = logNum =>
          \A x \in ((D \cup I) \cup I) \ Exempt : x < first[w]
    BY ZenonT(30) DEF DataInv, OrderInv
  <2>7. \A n \in LiveLogs' : n < logNum => FALSE
    BY ZenonT(30), <1>k, <1>l, LeqSelf
  <2>8. \A n \in LiveLogs' : n = logNum
    BY ZenonT(30), <1>l
  <2> QED
    BY ZenonT(30), <1>u, <1>d, <1>s, <2>1, <2>2, <2>3, <2>4, <2>5, <2>6, <2>7, <2>8
       DEF DataInv, OrderInv
<1> QED BY ZenonT(30), <1>1, <1>2, <1>3, <1>4, <1>5, <1>6 DEF DataInv

\* The new version is installed, imm_ is dropped, obsolete logs are deleted; or
\* the thread gives up and the MANIFEST has not changed.
LEMMA InstallStep ==
  ASSUME PathInv, DataInv, MemInstall \/ (MemError /\ manifest' = manifest)
  PROVE  DataInv'
<1>u. /\ UNCHANGED <<pc, first, last, upper, lastSeq, mem, logNum, wlog, logged,
                     manifest, nextFile, mode, acked, straddled, resplit>>
      /\ mode = "open" /\ memPc' = "check"
  BY Zenon DEF MemInstall, MemError, queueVars, versionVars, ghostVars
<1>i. \/ /\ imm' = {} /\ tables' = tables \cup edit.table /\ dbLog' = edit.log
         /\ DeleteObsolete(edit.log) /\ memPc = "logged"
      \/ UNCHANGED <<imm, tables, dbLog, logs>>
  BY Zenon DEF MemInstall, MemError, versionVars
<1>e. memPc = "logged" => /\ edit.log = logNum /\ manifest.log = logNum /\ logNum \in Nat
                          /\ DataIn(edit.table) = UNION imm /\ edit.table \subseteq manifest.tables
  BY ZenonT(30), <1>u DEF DataInv, EditInv, PathInv, NumberInv
<1>l. LiveLogsStay
  <2>1. \E k \in Nat : k <= manifest.log /\ (DeleteObsolete(k) \/ logs' = logs)
    <3>1. CASE logs' = logs
      <4>1. manifest.log \in Nat /\ manifest.log <= manifest.log
        BY DEF PathInv, NumberInv
      <4> QED BY ZenonT(30), <3>1, <4>1
    <3>2. CASE memPc = "logged" /\ DeleteObsolete(edit.log)
      <4>1. logNum <= logNum
        BY ZenonT(30), <1>e, <3>2, LeqSelf
      <4> QED BY ZenonT(30), <1>e, <3>2, <4>1
    <3> QED BY ZenonT(30), <1>i, <3>1, <3>2
  <2> QED BY ZenonT(30), <1>u, <2>1, DeleteKeeps
<1>v. Visible' = Visible
  <2>1. DataIn(tables \cup edit.table) = DataIn(tables) \cup DataIn(edit.table)
    BY Zenon DEF DataIn
  <2>2. imm' = {} => UNION imm' = {}
    BY Zenon
  <2> QED BY ZenonT(30), <1>u, <1>i, <1>e, <2>1, <2>2 DEF Visible
<1>s. /\ UNCHANGED <<Late, Exempt, LiveLogs, LiveBatches>>
      /\ \A n \in LiveLogs : InOrder(n)' = InOrder(n)
  <2>1. UNCHANGED <<Late, Exempt>>
    BY ZenonT(30), <1>u DEF Late, Exempt
  <2>2. UNCHANGED <<LiveLogs, LiveBatches>>
    BY ZenonT(30), <1>l DEF LiveLogsStay, LiveBatches
  <2> QED BY ZenonT(30), <1>l, <2>1, <2>2 DEF InOrder, LiveLogsStay
<1>r. Recoverable' = Recoverable
  <2>1. Recoverable' = DataIn(manifest'.tables) \cup LiveBatches'
    BY Zenon DEF Recoverable, RecoverableFrom, LiveBatches, LiveLogs
  <2> QED BY ZenonT(30), <1>u, <1>s, <2>1, RecoverableSplits
<1>m. imm' \subseteq imm /\ UNION imm' \subseteq UNION imm
  BY ZenonT(30), <1>i
<1>k. /\ logNum \in LiveLogs /\ logNum \in DOMAIN logs' /\ logs'[logNum] = logs[logNum]
      /\ DOMAIN logs' \subseteq DOMAIN logs
  BY ZenonT(30), <1>u, <1>l, CurrentLive DEF DataInv, LiveLogs, LiveLogsStay
<1>1. EditInv' /\ NumsInv'
  BY ZenonT(30), <1>u, <1>m DEF DataInv, EditInv, NumsInv
<1>2. SeqInv'
  <2>1. Upto(mem \cup (UNION imm'), lastSeq)
    BY ZenonT(30), <1>m DEF DataInv, SeqInv, Upto
  <2>2. memPc' \notin {"logging", "logged"} /\ memPc' # "logging"
    BY ZenonT(30), <1>u
  <2> QED BY ZenonT(30), <1>u, <1>l, <1>s, <2>1, <2>2 DEF DataInv, SeqInv, LiveLogsStay
<1>3. StoreInv'
  <2>1. tables' \subseteq manifest.tables
    BY ZenonT(30), <1>i, <1>e DEF DataInv, StoreInv
  <2>2. dbLog' \in Nat /\ dbLog' <= manifest.log
    BY ZenonT(30), <1>u, <1>i, <1>e DEF DataInv, StoreInv
  <2>3. (UNION imm') \ straddled \subseteq Recoverable
    BY ZenonT(30), <1>u, <1>m DEF DataInv, StoreInv
  <2> QED BY ZenonT(30), <1>u, <1>k, <1>r, <2>1, <2>2, <2>3 DEF DataInv, StoreInv
<1>4. AckInv'
  BY ZenonT(30), <1>u, <1>v DEF DataInv, AckInv
<1>5. OrderInv'
  <2> DEFINE D == DataIn(manifest.tables)
             I == UNION imm
             J == UNION imm'
  <2>1. \A x \in D \ Exempt, y \in J \ Exempt : x < y \/ x \in J
    <3>1. J = {} \/ J = I
      BY ZenonT(30), <1>i
    <3> QED BY ZenonT(30), <3>1 DEF DataInv, OrderInv
  <2>2. Precedes((D \cup J) \ Exempt, mem \ Exempt)
    BY ZenonT(30), <1>m DEF DataInv, OrderInv, Precedes
  <2>3. Precedes(J \ Exempt, InOrder(logNum)')
    <3>1. InOrder(logNum)' = InOrder(logNum)
      BY ZenonT(30), <1>u, <1>k, <1>s DEF InOrder
    <3>2. Precedes(I \ Exempt, InOrder(logNum))
      BY ZenonT(30), <1>u DEF DataInv, OrderInv
    <3> QED BY ZenonT(30), <1>m, <3>1, <3>2 DEF Precedes
  <2>4. \A w \in Writers : pc[w] \in {"blocked", "linked"} /\ wlog[w] = logNum =>
          /\ \A x \in (D \cup J) \ Exempt : x < first[w]
          /\ \A n \in LiveLogs : n < logNum => \A x \in InOrder(n) : x < first[w]
    BY ZenonT(30), <1>m DEF DataInv, OrderInv
  <2> QED BY ZenonT(30), <1>u, <1>s, <2>1, <2>2, <2>3, <2>4 DEF DataInv, OrderInv
<1> QED BY ZenonT(30), <1>1, <1>2, <1>3, <1>4, <1>5 DEF DataInv

\* The thread that writes out the immutable memtable.
LEMMA MemStep ==
  ASSUME PathInv, DataInv, MemThread
  PROVE  DataInv'
<1>1. MemError => manifest' = manifest \/ (memPc = "logging" /\ manifest' = ManifestAfterEdit)
  BY Zenon DEF MemError
<1>2. MemManifest => memPc = "logging" /\ manifest' = ManifestAfterEdit
  BY Zenon DEF MemManifest
<1> QED BY ZenonT(30), <1>1, <1>2, PrepareStep, ManifestStep, InstallStep DEF MemThread

-----------------------------------------------------------------------------
(* A crash of the process.                                                 *)

\* What is acknowledged can be recovered.
LEMMA AckedRecoverable ==
  ASSUME PathInv, DataInv
  PROVE  acked \ straddled \subseteq Recoverable
<1>1. CASE mode = "down"
  BY Zenon, <1>1 DEF DataInv, AckInv
<1>2. CASE mode # "down"
  <2>1. /\ acked \subseteq Visible /\ tables \subseteq manifest.tables
        /\ mem \ straddled \subseteq Recoverable /\ (UNION imm) \ straddled \subseteq Recoverable
    BY Zenon, <1>2, CurrentLive DEF DataInv, AckInv, StoreInv
  <2>2. DataIn(tables) \subseteq Recoverable
    BY Zenon, <2>1, RecoverableSplits DEF DataIn
  <2> QED BY Zenon, <2>1, <2>2 DEF Visible
<1> QED BY Zenon, <1>1, <1>2

LEMMA CrashStep ==
  ASSUME PathInv, TicketInv, DataInv, SeqBase', Crash
  PROVE  DataInv'
<1>1. PICK n \in StoredSequences :
        (\A m \in StoredSequences : m <= n) /\ Q!Restart(n)
  BY Zenon DEF Crash
<1>q. upper' = n /\ lastSeq' = n /\ \A t \in Threads : pc'[t] = "idle"
  BY Zenon, <1>1 DEF Q!Restart, Q!Threads, Threads
<1>u. /\ UNCHANGED <<logs, manifest, resplit>> /\ mode # "down" /\ mode' = "down"
      /\ mem' = {} /\ imm' = {} /\ tables' = {} /\ logged' = {} /\ memPc' = "check"
      /\ wlog' = [t \in Threads |-> 0]
      /\ acked' = acked \ (straddled \ Recoverable)
      /\ straddled' = (straddled \cup Late) \cap Recoverable
  BY Zenon DEF Crash, diskVars
<1>i. UNION imm' = {}
  BY Zenon, <1>u
<1>s. UNCHANGED <<LiveLogs, LiveBatches, Recoverable>> /\ Late' = {}
  BY Zenon, <1>u DEF LiveLogs, LiveBatches, Recoverable, Late
<1>r. DataIn(manifest.tables) \subseteq Recoverable /\ LiveBatches \subseteq Recoverable
  BY Zenon, RecoverableSplits
<1>x. \A x \in Recoverable : x \notin Exempt' => x \notin Exempt /\ x \notin Late
  BY Zenon, <1>u DEF Exempt
<1>o. \A m \in LiveLogs : InOrder(m)' \subseteq InOrder(m)
  <2>1. \A m \in LiveLogs : \A x \in Batches(logs[m]) : x \in Recoverable
    BY Zenon, <1>r, InLive
  <2> QED BY Zenon, <1>u, <1>x, <2>1 DEF InOrder
<1>2. EditInv'
  <2>1. memPc' \notin {"building", "built", "logging", "logged"} /\ memPc' # "logged"
        /\ memPc' \notin {"built", "logging", "logged"}
    BY Zenon, <1>u
  <2> QED BY Zenon, <1>u, <2>1 DEF EditInv
<1>3. SeqInv'
  <2>1. manifest.seq <= n
    BY Zenon, <1>1 DEF StoredSequences
  <2>2. ASSUME NEW x \in LiveBatches PROVE x \in Nat /\ x <= n
    <3>1. PICK m \in LiveLogs : x \in Batches(logs[m])
      BY Zenon, InLive
    <3>2. PICK i \in DOMAIN logs[m] : x = logs[m][i].first
      BY Zenon, <3>1 DEF Batches
    <3>3. x \in Nat /\ x <= logs[m][i].top
      BY Zenon, <3>2 DEF DataInv, SeqInv, Upto
    <3>4. logs[m][i].top \in StoredSequences
      <4>1. logs[m][i].top \in {logs[m][j].top : j \in DOMAIN logs[m]}
        BY Zenon
      <4>2. {logs[m][j].top : j \in DOMAIN logs[m]} \in
              {{logs[k][j].top : j \in DOMAIN logs[k]} : k \in LiveLogs}
        BY Zenon
      <4> QED BY Zenon, <4>1, <4>2 DEF StoredSequences
    <3>5. logs[m][i].top <= n
      BY Zenon, <1>1, <3>4
    <3>6. logs[m][i].top \in Int
      BY Zenon DEF LiveLogs, LogsOK, PathInv, DiskInv
    <3>7. n \in Nat
      BY Zenon, <1>q DEF SeqBase
    <3> QED BY <3>3, <3>5, <3>6, <3>7
  <2>3. memPc' \notin {"logging", "logged"} /\ memPc' # "logging"
    BY Zenon, <1>u
  <2>4. Upto(mem' \cup (UNION imm'), n) /\ Upto(LiveBatches, n)
    BY Zenon, <1>u, <1>i, <2>2 DEF Upto
  <2> QED BY Zenon, <1>q, <1>u, <1>s, <2>1, <2>3, <2>4 DEF DataInv, SeqInv
<1>4. StoreInv'
  BY Zenon, <1>u DEF DataInv, StoreInv
<1>5. AckInv'
  <2>1. acked' \subseteq Recoverable
    BY Zenon, <1>u, AckedRecoverable
  <2> QED BY Zenon, <1>u, <1>s, <2>1 DEF AckInv
<1>6. NumsInv'
  <2>1. \A t \in Threads : wlog'[t] = 0
    BY Zenon, <1>u
  <2>2. memPc' \notin {"building", "built", "logging", "logged"} /\ memPc' # "logging"
        /\ memPc' \notin {"building", "built", "logging"} /\ memPc' \notin {"logging", "logged"}
    BY Zenon, <1>u
  <2> QED BY Zenon, <1>u, <2>1, <2>2 DEF DataInv, NumsInv
<1>7. OrderInv'
  <2> DEFINE D == DataIn(manifest.tables)
  <2>1. D \ Exempt' \subseteq D \ Exempt
    BY Zenon, <1>r, <1>x
  <2>2. \A e \in manifest.tables : e.data \ Exempt' \subseteq e.data \ Exempt
    BY Zenon, <1>r, <1>x DEF DataIn
  <2>3. \A e, f \in manifest.tables : e.num < f.num =>
          \A x \in e.data \ Exempt', y \in f.data \ Exempt' : x < y \/ x \in f.data
    BY Zenon, <2>2 DEF DataInv, OrderInv
  <2>4. /\ \A m \in LiveLogs : Precedes(D \ Exempt', InOrder(m)')
        /\ \A k, m \in LiveLogs : k < m => Precedes(InOrder(k)', InOrder(m)')
    BY Zenon, <1>o, <2>1 DEF DataInv, OrderInv, Precedes
  <2>5. \A w \in Writers : ~(pc'[w] \in {"blocked", "linked"})
    BY Zenon, <1>q DEF Threads
  <2>6. Precedes((D \cup (UNION imm')) \ Exempt', mem' \ Exempt')
    BY Zenon, <1>u DEF Precedes
  <2>7. mode' # "open"
    BY Zenon, <1>u
  <2> QED BY Zenon, <1>u, <1>i, <1>s, <2>3, <2>4, <2>5, <2>6, <2>7 DEF OrderInv
<1> QED BY Zenon, <1>2, <1>3, <1>4, <1>5, <1>6, <1>7 DEF DataInv

-----------------------------------------------------------------------------
(* Recovery: the tables that the replay of the logs writes.                *)

LEMMA DivFacts ==
  ASSUME NEW a \in Nat, NEW d \in Nat \ {0}
  PROVE  /\ a \div d \in Nat /\ d * (a \div d) <= a /\ a < d * (a \div d) + d
         /\ \A q \in Nat : d * q <= a => q <= a \div d
         /\ (d * a) \div d = a
<1>1. a \div d \in Nat /\ d * (a \div d) <= a /\ a < d * (a \div d) + d
  OBVIOUS
<1>2. ASSUME NEW q \in Nat, d * q <= a, (a \div d) + 1 <= q PROVE FALSE
  <2>1. ASSUME NEW p \in Nat, p <= q PROVE d * p <= d * q
    BY <2>1
  <2>2. d * ((a \div d) + 1) <= d * q
    BY <1>1, <1>2, <2>1
  <2>3. d * ((a \div d) + 1) = d * (a \div d) + d
    BY <1>1
  <2> QED BY <1>1, <1>2, <2>2, <2>3
<1>3. (d * a) \div d = a
  OBVIOUS
<1> QED BY <1>1, <1>2, <1>3

\* The tables of a log hold its batches, and none of them is empty.
LEMMA ReplayComplete ==
  ASSUME NEW log, NEW R, log \in Seq(R)
  PROVE  /\ NumTables(log) \in Nat
         /\ \A i : TableOf(log, i) \subseteq Batches(log)
         /\ \A x \in Batches(log) : \E i \in 1..NumTables(log) : x \in TableOf(log, i)
         /\ \A i \in 1..NumTables(log) : TableOf(log, i) # {}
<1> DEFINE d == BufferSize + 1
           L == Len(log)
           q(k) == (k - 1) \div d
<1>1. BufferSize \in Nat /\ d \in Nat \ {0} /\ L \in Nat /\ DOMAIN log = 1..L
  BY PathAssumption
<1>2. NumTables(log) = (L + BufferSize) \div d /\ L + BufferSize \in Nat
  BY <1>1 DEF NumTables
<1>3. NumTables(log) \in Nat /\ d * NumTables(log) <= L + BufferSize
  BY Zenon, <1>1, <1>2, DivFacts
<1>4. \A i : TableOf(log, i) \subseteq Batches(log)
  BY Zenon DEF TableOf, Batches
<1>5. ASSUME NEW k \in 1..L PROVE q(k) + 1 \in 1..NumTables(log) /\ q(k) = (q(k) + 1) - 1
  <2>1. k - 1 \in Nat /\ k <= L
    BY <1>1
  <2>2. q(k) \in Nat /\ d * q(k) <= k - 1
    BY Zenon, <1>1, <2>1, DivFacts
  <2>3. d * (q(k) + 1) = d * q(k) + d
    BY <1>1, <2>2
  <2>4. d * (q(k) + 1) <= L + BufferSize /\ q(k) + 1 \in Nat
    BY <1>1, <2>1, <2>2, <2>3
  <2>5. q(k) + 1 <= NumTables(log)
    BY ZenonT(30), <1>1, <1>2, <2>4, DivFacts
  <2> QED BY <1>3, <2>2, <2>5
<1>6. ASSUME NEW x \in Batches(log) PROVE \E i \in 1..NumTables(log) : x \in TableOf(log, i)
  <2>1. PICK k \in 1..L : x = log[k].first
    BY Zenon, <1>1 DEF Batches
  <2>2. x \in TableOf(log, q(k) + 1)
    BY Zenon, <1>1, <1>5, <2>1 DEF TableOf
  <2> QED BY Zenon, <1>5, <2>2
<1>7. ASSUME NEW i \in 1..NumTables(log) PROVE TableOf(log, i) # {}
  <2> DEFINE k == d * (i - 1) + 1
  <2>1. i \in Nat /\ i - 1 \in Nat /\ i <= NumTables(log)
    BY <1>3
  <2>2. d * i <= d * NumTables(log) /\ d * i = d * (i - 1) + d /\ d * (i - 1) \in Nat
    BY <1>1, <1>3, <2>1
  <2>3. k \in 1..L
    BY <1>1, <1>3, <2>1, <2>2
  <2>4. k - 1 = d * (i - 1)
    BY <2>2
  <2>5. (d * (i - 1)) \div d = i - 1
    BY Zenon, <1>1, <2>1, DivFacts
  <2>6. log[k].first \in TableOf(log, i)
    BY Zenon, <1>1, <2>3, <2>4, <2>5 DEF TableOf
  <2> QED BY Zenon, <2>6
<1> QED BY Zenon, <1>3, <1>4, <1>6, <1>7

\* The file numbers of the new tables follow the order of the replay.
NumberIn(new, base, t) == base + Cardinality({u \in new : Before(u, t)})

LEMMA ReplayNumbers ==
  ASSUME NEW new, IsFiniteSet(new), new \subseteq Nat \X Nat, NEW base \in Nat
  PROVE  /\ \A t, u \in new : t = u \/ Before(t, u) \/ Before(u, t)
         /\ \A t \in new : NumberIn(new, base, t) \in base..(base + Cardinality(new))
         /\ \A t, u \in new : Before(t, u) => NumberIn(new, base, t) < NumberIn(new, base, u)
<1> DEFINE Pred(t) == {u \in new : Before(u, t)}
<1>1. Cardinality(new) \in Nat
  BY Zenon, FS_CardinalityType
<1>2. ASSUME NEW t \in new
      PROVE  IsFiniteSet(Pred(t)) /\ Cardinality(Pred(t)) \in Nat
             /\ Cardinality(Pred(t)) <= Cardinality(new)
  <2>1. Pred(t) \in SUBSET new
    BY Zenon
  <2> QED BY Zenon, <2>1, FS_Subset, FS_CardinalityType
<1>3. \A t, u \in new : t = u \/ Before(t, u) \/ Before(u, t)
  BY DEF Before
<1>4. ASSUME NEW t \in new, NEW u \in new, Before(t, u)
      PROVE  Cardinality(Pred(t)) < Cardinality(Pred(u))
  <2>1. \A v \in new : Before(v, t) => Before(v, u)
    BY <1>4 DEF Before
  <2>2. ~Before(t, t)
    BY DEF Before
  <2>3. Pred(t) \in SUBSET Pred(u) /\ t \in Pred(u) /\ t \notin Pred(t)
    BY Zenon, <1>4, <2>1, <2>2
  <2>4. Cardinality(Pred(t)) <= Cardinality(Pred(u)) /\ Cardinality(Pred(u)) # Cardinality(Pred(t))
    BY Zenon, <1>2, <2>3, FS_Subset
  <2> QED BY <1>2, <2>4
<1>n. \A t : NumberIn(new, base, t) = base + Cardinality(Pred(t))
  BY Zenon DEF NumberIn
<1>5. ASSUME NEW t \in new PROVE NumberIn(new, base, t) \in base..(base + Cardinality(new))
  <2> HIDE DEF Pred
  <2> QED BY <1>1, <1>2, <1>n
<1>6. ASSUME NEW t \in new, NEW u \in new, Before(t, u)
      PROVE  NumberIn(new, base, t) < NumberIn(new, base, u)
  <2> HIDE DEF Pred
  <2> QED BY <1>2, <1>4, <1>6, <1>n
<1> QED BY Zenon, <1>3, <1>5, <1>6

\* A table of the replay is a piece of a live log; the last piece of a log is
\* left out where it cannot be written.
LEMMA ReplayPieces ==
  ASSUME PathInv, NEW bad
  PROVE  /\ ReplayTables(bad) \subseteq Nat \X Nat
         /\ \A t \in ReplayTables(bad) :
              t[1] \in LiveLogs /\ t[2] \in 1..NumTables(logs[t[1]])
         /\ \A n \in LiveLogs : \A i \in 1..NumTables(logs[n]) :
              n \notin bad \/ i # NumTables(logs[n]) => <<n, i>> \in ReplayTables(bad)
<1> DEFINE Top(n) == NumTables(logs[n]) - IF n \in bad THEN 1 ELSE 0
           Pieces(n) == {n} \X (1..Top(n))
<1>1. ReplayTables(bad) = UNION {Pieces(n) : n \in LiveLogs}
  BY Zenon DEF ReplayTables
<1>2. \A n \in LiveLogs : n \in Nat /\ NumTables(logs[n]) \in Nat
  BY Zenon, ReplayComplete DEF LiveLogs, PathInv, DiskInv, LogsOK
<1>3. \A n \in LiveLogs : 1..Top(n) \subseteq 1..NumTables(logs[n])
  BY <1>2
<1>4. ASSUME NEW t \in ReplayTables(bad)
      PROVE  t \in Nat \X Nat /\ t[1] \in LiveLogs /\ t[2] \in 1..NumTables(logs[t[1]])
  <2>1. PICK n \in LiveLogs : t \in Pieces(n)
    BY Zenon, <1>1
  <2>2. t[1] = n /\ t[2] \in 1..Top(n) /\ t = <<t[1], t[2]>>
    BY <2>1
  <2>3. t[2] \in 1..NumTables(logs[n])
    BY Zenon, <1>3, <2>2
  <2>4. t[2] \in Nat
    BY <1>2, <2>3
  <2> QED BY Zenon, <1>2, <2>2, <2>3, <2>4
<1>5. ASSUME NEW n \in LiveLogs, NEW i \in 1..NumTables(logs[n]),
             n \notin bad \/ i # NumTables(logs[n])
      PROVE  <<n, i>> \in ReplayTables(bad)
  <2>1. i \in 1..Top(n)
    BY <1>2, <1>5
  <2>2. <<n, i>> \in Pieces(n)
    BY Zenon, <2>1
  <2> HIDE DEF Pieces
  <2> QED BY Zenon, <1>1, <2>2
<1> QED BY Zenon, <1>4, <1>5

\* The file numbers from b to top of a recovery lie above the numbers in use: m is
\* the next number of the MANIFEST, l its log number.
NumberedAfter(b, m, l, n, top) ==
  /\ top \in Nat /\ b <= top /\ m < top /\ top # 0 /\ 0 <= top /\ top <= top /\ top >= top
  /\ \A k \in Nat : b > k => k < top
  /\ \A k \in Nat : ~(k >= l) => k < top
  /\ \A k \in Nat : k < top => k <= top /\ ~(k >= top)
  /\ \A k \in Nat : k < m => k < b /\ k < top + 1
  /\ \A k \in b..(b + n) : k \in Nat /\ b <= k /\ k < top + 1
  /\ \A k \in Nat, j \in b..(b + n) : k < m => k # j /\ ~(j < k)

LEMMA NumbersAfter ==
  ASSUME NEW b \in Nat, NEW m \in Nat, NEW l \in Nat, NEW n \in Nat, NEW top,
         b > m, l <= m, top = b + n
  PROVE  NumberedAfter(b, m, l, n, top)
BY DEF NumberedAfter

\* A log that became one table has no two pieces in order.
LEMMA OnePiece == \A n \in Nat : ~(n > 1) => \A i, j \in 1..n : ~(i < j)
OBVIOUS

\* DB::Open: the tables of the MANIFEST stay, and the new ones hold what was in
\* the logs, in their order.
LEMMA RecoverStep ==
  ASSUME PathInv, TicketInv, DataInv, NEW bad \in SUBSET LiveLogs, Recover(bad)
  PROVE  DataInv'
<1> DEFINE new == ReplayTables(bad)
           N == Cardinality(new)
           D == DataIn(manifest.tables)
<1>1. PICK base \in {manifest.next + 1} \cup {n + 1 : n \in LiveLogs} :
        /\ base > manifest.next /\ (\A n \in LiveLogs : base > n)
        /\ tables' = manifest.tables \cup
             {[num |-> NumberIn(new, base, t), data |-> TableOf(logs[t[1]], t[2])] : t \in new}
        /\ logNum' = base + N
  BY Zenon DEF Recover, NumberIn
<1> DEFINE Made(t) == [num |-> NumberIn(new, base, t), data |-> TableOf(logs[t[1]], t[2])]
<1>u. /\ UNCHANGED <<mem, imm, wlog, logged, memPc, edit, upper, lastSeq, pc, first, straddled>>
      /\ mode = "down" /\ mode' = "recovering"
      /\ nextFile' = logNum' + 1 /\ dbLog' = logNum'
      /\ logs' = [n \in DOMAIN logs \cup {logNum'} |-> IF n = logNum' THEN <<>> ELSE logs[n]]
      /\ manifest' = [log |-> logNum', seq |-> lastSeq, next |-> nextFile', tables |-> tables']
      /\ acked' = acked \ UNION {TableOf(logs[n], NumTables(logs[n])) : n \in bad}
      /\ resplit' = resplit \cup
           UNION {Batches(logs[n]) : n \in {m \in LiveLogs : NumTables(logs[m]) > 1}}
  BY Zenon DEF Recover, threadVars, queueVars
<1>m. /\ manifest'.log = logNum' /\ manifest'.seq = lastSeq /\ manifest'.tables = tables'
      /\ manifest'.next = logNum' + 1
  BY Zenon, <1>u
<1>e. /\ mem = {} /\ imm = {} /\ UNION imm = {} /\ memPc = "check" /\ memPc' = "check"
      /\ lastSeq = upper /\ logged = {} /\ Late = {} /\ (\A t \in Threads : pc[t] = "idle")
  <2>1. mode # "open"
    BY Zenon, <1>u
  <2>2. mem = {} /\ imm = {} /\ UNION imm = {} /\ memPc = "check" /\ lastSeq = upper
    BY Zenon, <1>u, <2>1 DEF DataInv, StoreInv, PathInv, NumberInv, TicketInv
  <2>3. \A t \in Threads : pc[t] = "idle"
    BY Zenon, <2>1 DEF TicketInv
  <2>4. logged = {}
    BY Zenon, <2>3 DEF TicketInv, Threads
  <2> QED BY Zenon, <1>u, <2>2, <2>3, <2>4 DEF Late
<1>p. /\ new \subseteq Nat \X Nat
      /\ \A t \in new : t[1] \in LiveLogs /\ t[2] \in 1..NumTables(logs[t[1]])
      /\ \A n \in LiveLogs : \A i \in 1..NumTables(logs[n]) :
           n \notin bad \/ i # NumTables(logs[n]) => <<n, i>> \in new
  BY Zenon, ReplayPieces
<1>f. IsFiniteSet(new) /\ N \in Nat
  BY Zenon, ReplayFinite, FS_CardinalityType
<1>b. base \in Nat /\ manifest.next \in Nat /\ manifest.log \in Nat /\ manifest.log <= manifest.next
  BY DEF PathInv, NumberInv, DiskInv, LiveLogs, LogsOK
<1>n. /\ \A t, u \in new : t = u \/ Before(t, u) \/ Before(u, t)
      /\ \A t \in new : NumberIn(new, base, t) \in base..(base + N)
      /\ \A t, u \in new : Before(t, u) => NumberIn(new, base, t) < NumberIn(new, base, u)
  BY Zenon, <1>b, <1>f, <1>p, ReplayNumbers
<1>l. \A n \in LiveLogs :
        /\ n \in Nat /\ NumTables(logs[n]) \in Nat
        /\ \A i : TableOf(logs[n], i) \subseteq Batches(logs[n])
        /\ \A x \in Batches(logs[n]) : \E i \in 1..NumTables(logs[n]) : x \in TableOf(logs[n], i)
        /\ \A i \in 1..NumTables(logs[n]) : TableOf(logs[n], i) # {}
  BY Zenon, ReplayComplete DEF LiveLogs, PathInv, DiskInv, LogsOK
<1>t. /\ \A e \in tables' : e \in manifest.tables \/ \E t \in new : e = Made(t)
      /\ manifest.tables \subseteq tables' /\ \A t \in new : Made(t) \in tables'
  BY Zenon, <1>1
<1>d. \A t \in new : /\ Made(t).num = NumberIn(new, base, t)
                     /\ Made(t).data = TableOf(logs[t[1]], t[2])
                     /\ Made(t).data \subseteq Batches(logs[t[1]]) /\ Made(t).data # {}
  BY Zenon, <1>l, <1>p
<1>o. /\ base > manifest.next /\ (\A n \in LiveLogs : base > n) /\ logNum' = base + N
      /\ \A t \in new : Made(t).num \in base..(base + N)
  BY Zenon, <1>1, <1>d, <1>n
<1> HIDE DEF new, N, Made

<1>r. NumberedAfter(base, manifest.next, manifest.log, N, logNum')
  BY Zenon, <1>b, <1>f, <1>o, NumbersAfter
<1>h. logNum' \in Nat /\ base <= logNum' /\ logNum' # 0 /\ manifest.next < logNum'
      /\ \A n \in DOMAIN logs : n \in Nat /\ n < logNum'
  <2>1. logNum' \in Nat /\ base <= logNum' /\ manifest.next < logNum' /\ logNum' # 0
    BY Zenon, <1>r DEF NumberedAfter
  <2>2. \A n \in DOMAIN logs : n \in Nat /\ (n \in LiveLogs \/ ~(n >= manifest.log))
    BY Zenon DEF LiveLogs, PathInv, DiskInv, LogsOK
  <2>3. ASSUME NEW n \in DOMAIN logs PROVE n < logNum'
    <3>1. CASE n \in LiveLogs
      <4>1. n \in Nat /\ base > n
        BY Zenon, <1>o, <2>2, <3>1
      <4> QED BY Zenon, <1>r, <4>1 DEF NumberedAfter
    <3>2. CASE ~(n >= manifest.log)
      <4>1. n \in Nat
        BY Zenon, <2>2
      <4> QED BY Zenon, <1>r, <3>2, <4>1 DEF NumberedAfter
    <3> QED BY Zenon, <2>2, <3>1, <3>2
  <2> QED BY Zenon, <2>1, <2>2, <2>3
<1>g. /\ DOMAIN logs' = DOMAIN logs \cup {logNum'} /\ logs'[logNum'] = <<>>
      /\ LiveLogs' = {logNum'} /\ Batches(logs'[logNum']) = {} /\ DOMAIN logs'[logNum'] = {}
      /\ LiveBatches' = {}
  <2>1. DOMAIN logs' = DOMAIN logs \cup {logNum'} /\ logs'[logNum'] = <<>>
    BY Zenon, <1>u
  <2>2. DOMAIN logs'[logNum'] = {}
    BY <2>1
  <2>3. Batches(logs'[logNum']) = {}
    BY Zenon, <2>2 DEF Batches
  <2>4. LiveLogs' = {logNum'}
    BY ZenonT(30), <1>h, <1>m, <1>r, <2>1 DEF LiveLogs, NumberedAfter
  <2> QED BY Zenon, <2>1, <2>2, <2>3, <2>4, InLive
<1>2. EditInv'
  <2>1. memPc' \notin {"building", "built", "logging", "logged"} /\ memPc' # "logged"
        /\ memPc' \notin {"built", "logging", "logged"}
    BY Zenon, <1>e
  <2> QED BY Zenon, <1>u, <1>e, <2>1 DEF EditInv
<1>3. SeqInv'
  <2>1. ASSUME NEW x \in DataIn(tables') PROVE x \in Nat /\ x <= lastSeq
    <3>1. PICK e \in tables' : x \in e.data
      BY Zenon DEF DataIn
    <3>2. CASE e \in manifest.tables
      <4>1. x \in D
        BY Zenon, <3>1, <3>2 DEF DataIn
      <4>2. x \in Nat /\ x <= manifest.seq /\ manifest.seq <= lastSeq
        BY Zenon, <4>1 DEF DataInv, SeqInv, Upto
      <4> QED BY <4>2 DEF PathInv, SeqBase, DiskInv
    <3>3. CASE \E t \in new : e = Made(t)
      <4>1. x \in LiveBatches
        BY Zenon, <1>d, <1>p, <3>1, <3>3, InLive
      <4> QED BY Zenon, <1>e, <4>1 DEF DataInv, SeqInv, Upto
    <3> QED BY Zenon, <1>t, <3>2, <3>3
  <2>2. memPc' \notin {"logging", "logged"} /\ memPc' # "logging"
    BY Zenon, <1>e
  <2>3. lastSeq <= lastSeq
    BY DEF PathInv, SeqBase
  <2>4. Upto(mem' \cup (UNION imm'), lastSeq') /\ Upto(LiveBatches', upper')
    BY Zenon, <1>u, <1>e, <1>g DEF Upto
  <2>5. Upto(DataIn(tables'), lastSeq)
    BY Zenon, <2>1 DEF Upto
  <2> QED BY Zenon, <1>u, <1>m, <1>g, <2>2, <2>3, <2>4, <2>5 DEF SeqInv
<1>4. StoreInv'
  <2>1. mode' # "down"
    BY Zenon, <1>u
  <2>2. \A n \in DOMAIN logs' : n # 0 /\ n <= logNum'
    BY ZenonT(30), <1>g, <1>h, <1>r DEF DataInv, StoreInv, NumberedAfter
  <2>3. logNum' <= logNum'
    BY Zenon, <1>r DEF NumberedAfter
  <2>4. mem' = {} /\ imm' = {} /\ UNION imm' = {} /\ logged' = {}
    BY Zenon, <1>u, <1>e
  <2> QED BY Zenon, <1>u, <1>m, <1>g, <1>h, <2>1, <2>2, <2>3, <2>4 DEF StoreInv
<1>5. AckInv'
  <2>1. ASSUME NEW x \in acked' PROVE x \in DataIn(tables')
    <3>1. x \in acked /\ x \notin UNION {TableOf(logs[n], NumTables(logs[n])) : n \in bad}
      BY Zenon, <1>u
    <3>2. x \in D \/ x \in LiveBatches
      BY Zenon, <1>u, <3>1, RecoverableSplits DEF DataInv, AckInv
    <3>3. CASE x \in D
      BY Zenon, <1>t, <3>3 DEF DataIn
    <3>4. CASE x \in LiveBatches
      <4>1. PICK n \in LiveLogs : x \in Batches(logs[n])
        BY Zenon, <3>4, InLive
      <4>2. PICK i \in 1..NumTables(logs[n]) : x \in TableOf(logs[n], i)
        BY Zenon, <1>l, <4>1
      <4>3. n \notin bad \/ i # NumTables(logs[n])
        BY Zenon, <3>1, <4>2
      <4> DEFINE t == <<n, i>>
      <4>4. t \in new /\ t[1] = n /\ t[2] = i
        BY Zenon, <1>p, <4>3
      <4>5. x \in Made(t).data
        BY Zenon, <1>d, <4>2, <4>4
      <4> QED BY Zenon, <1>t, <4>4, <4>5 DEF DataIn
    <3> QED BY Zenon, <3>2, <3>3, <3>4
  <2>2. \A w \in Writers : ~(pc'[w] \in {"ended", "unlinked"})
    BY Zenon, <1>u, <1>e DEF Threads
  <2>3. mode' # "down"
    BY Zenon, <1>u
  <2> QED BY Zenon, <2>1, <2>2, <2>3 DEF AckInv, Visible
<1>6. NumsInv'
  <2>1. \A e \in manifest.tables : e.num \in Nat /\ e.num < base /\ e.num < logNum' + 1 /\ e.data # {}
    <3>1. \A e \in manifest.tables : e.num \in Nat /\ e.num < manifest.next /\ e.data # {}
      BY Zenon DEF DataInv, NumsInv
    <3> QED BY ZenonT(30), <1>r, <3>1 DEF NumberedAfter
  <2>2. \A t \in new : /\ Made(t).num \in Nat /\ base <= Made(t).num
                       /\ Made(t).num < logNum' + 1 /\ Made(t).data # {}
    <3>1. \A t \in new : /\ Made(t).num \in Nat /\ base <= Made(t).num
                         /\ Made(t).num < logNum' + 1
      BY ZenonT(30), <1>o, <1>r DEF NumberedAfter
    <3> QED BY Zenon, <1>d, <3>1
  <2>3. \A e \in tables' : e.num \in Nat /\ e.num < manifest'.next /\ e.data # {}
    BY Zenon, <1>m, <1>t, <2>1, <2>2
  <2>4. ASSUME NEW e \in tables', NEW f \in tables', e.num = f.num PROVE e = f
    <3>1. CASE e \in manifest.tables /\ f \in manifest.tables
      BY Zenon, <2>4, <3>1 DEF DataInv, NumsInv
    <3>2. ASSUME NEW o \in manifest.tables, NEW t \in new, o.num = Made(t).num PROVE FALSE
      BY ZenonT(30), <1>b, <2>1, <2>2, <3>2, LtLeq, LtNot
    <3>3. ASSUME NEW t \in new, NEW u \in new, Made(t).num = Made(u).num PROVE t = u
      <4>1. Made(t).num \in Nat /\ Made(u).num \in Nat
        BY Zenon, <2>2
      <4>2. ~(Made(t).num < Made(u).num) /\ ~(Made(u).num < Made(t).num)
        BY ZenonT(30), <3>3, <4>1, LeqSelf
      <4>3. ~Before(t, u) /\ ~Before(u, t)
        BY Zenon, <1>d, <1>n, <4>2
      <4> QED BY Zenon, <1>n, <4>3
    <3>4. CASE e \in manifest.tables /\ f \notin manifest.tables
      BY Zenon, <1>t, <2>4, <3>2, <3>4
    <3>5. CASE e \notin manifest.tables /\ f \in manifest.tables
      <4>1. PICK t \in new : e = Made(t)
        BY Zenon, <1>t, <3>5
      <4>2. f.num = Made(t).num
        BY Zenon, <2>4, <4>1
      <4> QED BY Zenon, <3>2, <3>5, <4>2
    <3>6. CASE e \notin manifest.tables /\ f \notin manifest.tables
      <4>1. PICK t \in new, u \in new : e = Made(t) /\ f = Made(u)
        BY Zenon, <1>t, <3>6
      <4>2. t = u
        BY Zenon, <2>4, <3>3, <4>1
      <4> QED BY Zenon, <4>1, <4>2
    <3> QED BY Zenon, <3>1, <3>4, <3>5, <3>6
  <2>5. \A t \in Threads : wlog'[t] <= logNum'
    <3>1. \A t \in Threads : wlog'[t] = 0
      BY Zenon, <1>u DEF DataInv, NumsInv
    <3>2. 0 <= logNum'
      BY Zenon, <1>r DEF NumberedAfter
    <3> QED BY Zenon, <3>1, <3>2
  <2>6. memPc' \notin {"building", "built", "logging", "logged"} /\ memPc' # "logging"
        /\ memPc' \notin {"building", "built", "logging"} /\ memPc' \notin {"logging", "logged"}
        /\ mode' # "down" /\ logNum' + 1 <= logNum' + 1
    <3>1. memPc' = "check" /\ mode' = "recovering" /\ logNum' \in Nat
      BY Zenon, <1>u, <1>e, <1>h
    <3>2. \A n \in Nat : n + 1 <= n + 1
      OBVIOUS
    <3>3. "recovering" # "down" /\ "check" \notin {"building", "built", "logging", "logged"}
      BY Zenon
    <3> QED BY Zenon, <3>1, <3>2, <3>3
  <2> QED BY Zenon, <1>u, <1>m, <2>3, <2>4, <2>5, <2>6 DEF NumsInv
<1>7. OrderInv'
  <2>1. /\ Exempt \subseteq Exempt'
        /\ \A n \in LiveLogs : InOrder(n) = Batches(logs[n]) \ Exempt
        /\ \A n \in LiveLogs : NumTables(logs[n]) > 1 => Batches(logs[n]) \subseteq Exempt'
    BY Zenon, <1>u, <1>e DEF Exempt, InOrder
  <2>2. ASSUME NEW e \in tables', NEW f \in tables', e.num < f.num,
               NEW x \in e.data \ Exempt', NEW y \in f.data \ Exempt'
        PROVE  x < y \/ x \in f.data
    <3>1. CASE e \in manifest.tables /\ f \in manifest.tables
      BY Zenon, <2>1, <2>2, <3>1 DEF DataInv, OrderInv
    <3>2. ASSUME e \in manifest.tables, NEW u \in new, f = Made(u) PROVE x < y
      <4>1. x \in D \ Exempt /\ u[1] \in LiveLogs /\ y \in InOrder(u[1])
        BY Zenon, <1>d, <1>p, <2>1, <3>2 DEF DataIn
      <4> QED BY Zenon, <4>1 DEF DataInv, OrderInv, Precedes
    <3>3. ASSUME f \in manifest.tables, NEW t \in new, e = Made(t) PROVE FALSE
      <4>1. f.num \in Nat /\ f.num < manifest.next
        BY Zenon, <3>3 DEF DataInv, NumsInv
      <4>2. e.num \in base..(base + N)
        BY Zenon, <1>d, <1>n, <3>3
      <4>3. e.num < f.num /\ base > manifest.next
        BY Zenon, <1>o, <2>2
      <4> QED BY ZenonT(30), <1>r, <4>1, <4>2, <4>3 DEF NumberedAfter
    <3>4. ASSUME NEW t \in new, NEW u \in new, e = Made(t), f = Made(u) PROVE x < y
      <4>1. /\ t[1] \in LiveLogs /\ u[1] \in LiveLogs
            /\ x \in InOrder(t[1]) /\ y \in InOrder(u[1])
            /\ ~(NumTables(logs[t[1]]) > 1)
        BY Zenon, <1>d, <1>p, <2>1, <3>4
      <4>2. Before(t, u)
        <5>1. e.num = NumberIn(new, base, t) /\ f.num = NumberIn(new, base, u)
          BY Zenon, <1>d, <3>4
        <5>2. e.num \in Nat /\ f.num \in Nat
          BY ZenonT(30), <1>n, <1>r, <5>1 DEF NumberedAfter
        <5> QED BY ZenonT(30), <1>n, <2>2, <5>1, <5>2, LtNot
      <4>3. t[1] < u[1]
        <5>1. /\ t[1] \in Nat /\ u[1] \in Nat /\ NumTables(logs[t[1]]) \in Nat
              /\ t[2] \in 1..NumTables(logs[t[1]]) /\ u[2] \in 1..NumTables(logs[u[1]])
          BY Zenon, <1>l, <1>p, <4>1
        <5>2. t[1] # u[1]
          BY ZenonT(30), <4>1, <4>2, <5>1, LeqSelf, OnePiece DEF Before
        <5> QED BY Zenon, <4>2, <5>1, <5>2 DEF Before
      <4> QED BY Zenon, <4>1, <4>3 DEF DataInv, OrderInv, Precedes
    <3> QED BY Zenon, <1>t, <3>1, <3>2, <3>3, <3>4
  <2>3. \A n \in LiveLogs' : InOrder(n)' = {}
    BY Zenon, <1>g DEF InOrder
  <2>4. mem' = {} /\ UNION imm' = {}
    BY Zenon, <1>u, <1>e
  <2>5. mode' # "open" /\ \A w \in Writers : ~(pc'[w] \in {"blocked", "linked"})
    BY Zenon, <1>u, <1>e DEF Threads
  <2> QED BY Zenon, <1>m, <2>2, <2>3, <2>4, <2>5 DEF OrderInv, Precedes
<1> QED BY Zenon, <1>2, <1>3, <1>4, <1>5, <1>6, <1>7 DEF DataInv

-----------------------------------------------------------------------------
(* Backups: what is listed stays, and the copies hold what it held.        *)

\* Nothing that the backup that holds bg_log_occupied_ has listed goes away.
ListedStays ==
  \A b \in Backers : logOwner' = b =>
    /\ logOwner = b /\ manifest' = manifest /\ DOMAIN logs \subseteq DOMAIN logs'
    /\ \A n \in DOMAIN logs : Batches(logs[n]) \subseteq Batches(logs'[n])

LEMMA BackupKeeps ==
  ASSUME BackupInv, UNCHANGED <<todo, copied, ackedAt>>, acked \subseteq acked',
         straddled \subseteq straddled', mode' = "open" \/ mode' = mode,
         \A b \in Backers : pc[b] = "copying" => pc'[b] = "copying",
         \A b \in Backers : logOwner = b => logOwner' = b,
         ListedStays
  PROVE  BackupInv'
<1> SUFFICES ASSUME NEW b \in Backers PROVE CopyInv(b)'
  BY Zenon DEF BackupInv
<1>1. CopyInv(b)
  BY Zenon DEF BackupInv
<1>2. mode' # "open" => ackedAt'[b] = {}
  BY Zenon, <1>1 DEF CopyInv
<1>3. ASSUME logOwner' = b
      PROVE  /\ todo'[b] \subseteq {0} \cup DOMAIN logs'
             /\ 0 \in DOMAIN copied'[b] => copied'[b][0] = manifest'
             /\ Listed(b)' # {} => 0 \in Listed(b)' /\ ackedAt'[b] \ straddled' \subseteq CopiedOf(b)'
  <2>1. /\ logOwner = b /\ manifest' = manifest /\ DOMAIN logs \subseteq DOMAIN logs'
        /\ \A n \in DOMAIN logs : Batches(logs[n]) \subseteq Batches(logs'[n])
    BY Zenon, <1>3 DEF ListedStays
  <2>2. todo[b] \ {0} \subseteq DOMAIN logs
    BY Zenon, <1>1, <2>1 DEF CopyInv
  <2>3. CopiedOf(b) \subseteq CopiedOf(b)'
    <3> DEFINE Old == {k \in todo[b] \ {0} : k >= manifest.log}
    <3>1. \A n \in Old : Batches(logs[n]) \subseteq Batches(logs'[n])
      BY Zenon, <2>1, <2>2
    <3>2. UNION {Batches(logs[n]) : n \in Old} \subseteq UNION {Batches(logs'[n]) : n \in Old}
      BY Zenon, <3>1
    <3>3. CopiedOf(b)' = DataIn(manifest.tables) \cup
            (UNION {Batches(copied[b][n]) : n \in {k \in (DOMAIN copied[b]) \ {0} : k >= manifest.log}})
            \cup (UNION {Batches(logs'[n]) : n \in Old})
      BY Zenon, <2>1 DEF CopiedOf
    <3> QED BY Zenon, <3>2, <3>3 DEF CopiedOf
  <2>4. Listed(b)' = Listed(b)
    BY Zenon DEF Listed
  <2> QED BY Zenon, <1>1, <2>1, <2>3, <2>4 DEF CopyInv
<1>4. (logOwner' # b => todo'[b] = {}) /\ (pc'[b] # "copying" => copied'[b] = <<>>)
  BY Zenon, <1>1 DEF CopyInv
<1> QED BY Zenon, <1>1, <1>2, <1>3, <1>4 DEF CopyInv

\* The other backups, when one of them takes a step.
LEMMA OthersKeep ==
  ASSUME BackupInv, NEW b \in Backers, NEW c \in Backers \ {b}, CopyInv(c), logOwner' # c,
         todo'[c] = todo[c], copied'[c] = copied[c], ackedAt'[c] = ackedAt[c], logOwner # c,
         acked' = acked, mode' = "open", pc'[c] = pc[c]
  PROVE  CopyInv(c)'
BY Zenon DEF CopyInv

\* The steps of a backup that concern its files.
LEMMA BackupFiles ==
  ASSUME PathInv, TicketInv, TurnInv, DataInv, BackupInv, NEW b \in Backers,
         \/ BackupRequest(b) \/ BackupOccupy(b) \/ BackupList(b)
         \/ \E f \in {0} \cup DOMAIN logs : BackupCopy(b, f)
         \/ BackupUnlock(b) \/ BackupFinish(b)
  PROVE  BackupInv'
<1>0. /\ DOMAIN todo = Backers /\ DOMAIN copied = Backers /\ DOMAIN ackedAt = Backers
      /\ (\A c \in Backers : CopyInv(c)) /\ DOMAIN pc = Threads /\ NoOne \notin Backers
      /\ b \in Threads
  BY Zenon, PathAssumption DEF BackupInv, TicketInv, Threads
<1>p. \A c \in Backers : logOwner = c => pc[c] = "copying"
  BY Zenon DEF TurnInv
<1>e. DOMAIN <<>> = {}
  OBVIOUS
<1>1. CASE BackupRequest(b)
  <2>1. /\ ackedAt' = [ackedAt EXCEPT ![b] = acked] /\ mode' = "open" /\ pc[b] = "idle"
        /\ \E l : pc' = [pc EXCEPT ![b] = l] /\ l \in {"waitTurn", "turn"}
        /\ UNCHANGED <<todo, copied, acked, logOwner, logs, manifest, straddled>>
    BY Zenon, <1>1 DEF BackupRequest, Q!BackupRequest, Q!Goto, diskVars, threadVars, ghostVars
  <2>2. logOwner # b /\ pc'[b] # "copying"
    BY Zenon, <1>0, <1>p, <2>1
  <2>3. /\ ackedAt'[b] = acked /\ \A c \in Backers \ {b} : ackedAt'[c] = ackedAt[c] /\ pc'[c] = pc[c]
    BY Zenon, <1>0, <2>1 DEF Threads
  <2>4. CopyInv(b)'
    <3>1. copied[b] = <<>>
      BY Zenon, <1>0, <2>1 DEF CopyInv
    <3> QED BY Zenon, <1>0, <2>1, <2>2, <2>3, <3>1 DEF CopyInv
  <2>5. \A c \in Backers \ {b} : CopyInv(c)'
    <3> SUFFICES ASSUME NEW c \in Backers \ {b} PROVE CopyInv(c)'
      BY Zenon
    <3>1. CopiedOf(c)' = CopiedOf(c) /\ Listed(c)' = Listed(c)
      BY Zenon, <2>1 DEF CopiedOf, Listed
    <3>2. CopyInv(c)
      BY Zenon, <1>0
    <3>3. mode' # "open" => ackedAt'[c] = {}
      BY Zenon, <2>1
    <3> QED BY Zenon, <2>1, <2>3, <3>1, <3>2, <3>3 DEF CopyInv
  <2> QED BY Zenon, <1>0, <2>1, <2>4, <2>5 DEF BackupInv
<1>2. CASE BackupOccupy(b)
  <2>1. /\ logOwner = NoOne /\ logOwner' = b /\ mode' = "open" /\ pc[b] = "occupy"
        /\ pc' = [pc EXCEPT ![b] = "copying"]
        /\ UNCHANGED <<todo, copied, ackedAt, acked>>
    BY Zenon, <1>2 DEF BackupOccupy, Q!BackupOccupy, Q!Goto, backupVars, ghostVars
  <2>2. pc'[b] = "copying" /\ \A c \in Backers \ {b} : pc'[c] = pc[c]
    BY Zenon, <1>0, <2>1 DEF Threads
  <2>3. CopyInv(b)'
    <3>1. copied[b] = <<>> /\ todo[b] = {}
      BY Zenon, <1>0, <2>1 DEF CopyInv
    <3>2. Listed(b)' = {}
      BY Zenon, <1>e, <2>1, <3>1 DEF Listed
    <3> QED BY Zenon, <1>0, <1>e, <2>1, <2>2, <3>1, <3>2 DEF CopyInv
  <2>4. \A c \in Backers \ {b} : CopyInv(c)'
    BY Zenon, <1>0, <2>1, <2>2, OthersKeep
  <2> QED BY Zenon, <1>0, <2>1, <2>3, <2>4 DEF BackupInv
<1>3. CASE BackupList(b)
  <2>1. /\ logOwner = b /\ mode' = "open" /\ todo[b] = {} /\ copied[b] = <<>>
        /\ todo' = [todo EXCEPT ![b] = DOMAIN logs \cup {0}]
        /\ UNCHANGED <<pc, copied, ackedAt, acked, logOwner, logs, manifest, straddled>>
    BY Zenon, <1>3 DEF BackupList, queueVars, diskVars, threadVars, ghostVars
  <2>2. todo'[b] = DOMAIN logs \cup {0} /\ \A c \in Backers \ {b} : todo'[c] = todo[c]
    BY Zenon, <1>0, <2>1
  <2>3. CopyInv(b)'
    <3>1. Recoverable \subseteq CopiedOf(b)'
      <4>1. \A n \in LiveLogs : n \in {k \in todo'[b] \ {0} : k >= manifest.log}
        BY Zenon, <2>2 DEF LiveLogs, DataInv, StoreInv
      <4> QED BY Zenon, <2>1, <4>1, RecoverableSplits, InLive DEF CopiedOf
    <3>2. ackedAt[b] \ straddled \subseteq Recoverable
      BY Zenon, <1>0, AckedRecoverable DEF CopyInv
    <3>3. DOMAIN copied'[b] = {} /\ 0 \in Listed(b)'
      BY Zenon, <1>e, <2>1, <2>2 DEF Listed
    <3> QED BY Zenon, <1>0, <2>1, <2>2, <3>1, <3>2, <3>3 DEF CopyInv
  <2>4. \A c \in Backers \ {b} : CopyInv(c)'
    BY Zenon, <1>0, <2>1, <2>2, OthersKeep
  <2> QED BY Zenon, <1>0, <2>1, <2>3, <2>4 DEF BackupInv

<1>4. ASSUME NEW f \in {0} \cup DOMAIN logs, BackupCopy(b, f) PROVE BackupInv'
  <2>1. /\ mode' = "open" /\ f \in todo[b]
        /\ todo' = [todo EXCEPT ![b] = @ \ {f}]
        /\ copied' = [copied EXCEPT ![b] =
             [n \in DOMAIN @ \cup {f} |->
                IF n # f THEN @[n] ELSE IF f = 0 THEN manifest ELSE logs[f]]]
        /\ UNCHANGED <<pc, ackedAt, acked, logOwner, logs, manifest, straddled>>
    BY Zenon, <1>4 DEF BackupCopy, queueVars, diskVars, threadVars, ghostVars
  <2>2. logOwner = b /\ f \notin DOMAIN copied[b] /\ pc[b] = "copying"
    BY Zenon, <1>0, <1>p, <2>1 DEF CopyInv
  <2>3. /\ todo'[b] = todo[b] \ {f} /\ DOMAIN copied'[b] = DOMAIN copied[b] \cup {f}
        /\ copied'[b][f] = (IF f = 0 THEN manifest ELSE logs[f])
        /\ \A n \in DOMAIN copied[b] : copied'[b][n] = copied[b][n]
        /\ \A c \in Backers \ {b} : todo'[c] = todo[c] /\ copied'[c] = copied[c]
    BY Zenon, <1>0, <2>1, <2>2
  <2>4. CopyInv(b)'
    <3>1. CopiedOf(b) \subseteq CopiedOf(b)'
      <4> SUFFICES ASSUME NEW x \in CopiedOf(b) PROVE x \in CopiedOf(b)'
        BY Zenon
      <4>1. CASE x \in DataIn(manifest.tables)
        BY Zenon, <2>1, <4>1 DEF CopiedOf
      <4>2. ASSUME NEW n \in (DOMAIN copied[b]) \ {0}, n >= manifest.log, x \in Batches(copied[b][n])
            PROVE  x \in CopiedOf(b)'
        <5>1. n \in (DOMAIN copied'[b]) \ {0} /\ x \in Batches(copied'[b][n])
          BY Zenon, <2>3, <4>2
        <5> QED BY Zenon, <2>1, <4>2, <5>1 DEF CopiedOf
      <4>3. ASSUME NEW n \in todo[b] \ {0}, n >= manifest.log, x \in Batches(logs[n])
            PROVE  x \in CopiedOf(b)'
        <5>1. CASE n = f
          <6>1. n \in (DOMAIN copied'[b]) \ {0} /\ x \in Batches(copied'[b][n])
            BY Zenon, <2>3, <4>3, <5>1
          <6> QED BY Zenon, <2>1, <4>3, <6>1 DEF CopiedOf
        <5>2. CASE n # f
          <6>1. n \in todo'[b] \ {0}
            BY Zenon, <2>3, <5>2
          <6> QED BY Zenon, <2>1, <4>3, <6>1 DEF CopiedOf
        <5> QED BY Zenon, <5>1, <5>2
      <4> QED BY Zenon, <4>1, <4>2, <4>3 DEF CopiedOf
    <3>2. Listed(b)' = Listed(b) /\ Listed(b) # {}
      BY Zenon, <2>1, <2>3 DEF Listed
    <3>3. 0 \in DOMAIN copied'[b] => copied'[b][0] = manifest
      BY Zenon, <1>0, <2>2, <2>3 DEF CopyInv
    <3>4. todo'[b] \cap DOMAIN copied'[b] = {} /\ DOMAIN copied'[b] # {}
      BY Zenon, <1>0, <2>3 DEF CopyInv
    <3>5. CopyInv(b) /\ mode' = "open" /\ todo'[b] \subseteq {0} \cup DOMAIN logs
      BY Zenon, <1>0, <2>1, <2>2, <2>3 DEF CopyInv
    <3>6. ackedAt[b] \ straddled \subseteq CopiedOf(b) /\ 0 \in Listed(b)
      BY Zenon, <2>2, <3>2, <3>5 DEF CopyInv
    <3> QED BY Zenon, <2>1, <2>2, <3>1, <3>2, <3>3, <3>4, <3>5, <3>6 DEF CopyInv
  <2>5. \A c \in Backers \ {b} : CopyInv(c)'
    BY Zenon, <1>0, <2>1, <2>2, <2>3, OthersKeep
  <2> QED BY Zenon, <1>0, <2>1, <2>4, <2>5 DEF BackupInv
<1>5. CASE BackupUnlock(b)
  <2>1. /\ logOwner = b /\ logOwner' = NoOne /\ mode' = "open"
        /\ todo' = [todo EXCEPT ![b] = {}]
        /\ UNCHANGED <<pc, copied, ackedAt, acked>>
    BY Zenon, <1>5 DEF BackupUnlock, queueVars, ghostVars
  <2>2. todo'[b] = {} /\ \A c \in Backers \ {b} : todo'[c] = todo[c]
    BY Zenon, <1>0, <2>1
  <2>3. CopyInv(b)'
    BY Zenon, <1>0, <2>1, <2>2 DEF CopyInv
  <2>4. \A c \in Backers \ {b} : CopyInv(c)'
    BY Zenon, <1>0, <2>1, <2>2, OthersKeep
  <2> QED BY Zenon, <1>0, <2>1, <2>3, <2>4 DEF BackupInv
<1>6. CASE BackupFinish(b)
  <2>1. /\ logOwner # b /\ mode' = "open" /\ copied' = [copied EXCEPT ![b] = <<>>]
        /\ pc[b] = "copying" /\ \E l : pc' = [pc EXCEPT ![b] = l]
        /\ UNCHANGED <<todo, ackedAt, acked, logOwner>>
    BY Zenon, <1>6 DEF BackupFinish, Q!BackupFinish, Q!Goto, threadVars, ghostVars
  <2>2. copied'[b] = <<>> /\ \A c \in Backers \ {b} : copied'[c] = copied[c] /\ pc'[c] = pc[c]
    BY Zenon, <1>0, <2>1 DEF Threads
  <2>3. CopyInv(b)'
    BY Zenon, <1>0, <1>e, <2>1, <2>2 DEF CopyInv
  <2>4. ASSUME NEW c \in Backers \ {b} PROVE CopyInv(c)' 
    <3>1. logOwner # c
      BY Zenon, <1>p, <2>1 DEF TurnInv, InTurn
    <3> QED BY Zenon, <1>0, <2>1, <2>2, <3>1, OthersKeep
  <2> QED BY Zenon, <1>0, <2>1, <2>3, <2>4 DEF BackupInv
<1> QED BY Zenon, <1>1, <1>2, <1>3, <1>4, <1>5, <1>6

\* Writers and the memtable thread leave alone what a backup has listed.
LEMMA BackupStep ==
  ASSUME PathInv, TicketInv, TurnInv, DataInv, BackupInv, [Next]_vars
  PROVE  BackupInv'
<1>n. /\ NoOne \notin Backers /\ "memtable" \notin Backers
      /\ Backers \subseteq Threads /\ Writers \subseteq Threads
      /\ Writers \cap Backers = {} /\ Snappers \cap Backers = {}
  BY Zenon, PathAssumption DEF Threads
<1>s. ASSUME UNCHANGED <<todo, copied, ackedAt, acked, straddled, pc, logOwner, logs, manifest>>,
             mode' = "open" \/ mode' = mode
      PROVE  BackupInv'
  BY Zenon, <1>s, BackupKeeps DEF ListedStays
<1>1. ASSUME NEW t \in Threads, ThreadStep(t),
             ~(\/ BackupRequest(t) \/ BackupOccupy(t) \/ BackupList(t)
               \/ (\E f \in {0} \cup DOMAIN logs : BackupCopy(t, f))
               \/ BackupUnlock(t) \/ BackupFinish(t))
      PROVE  BackupInv'
  <2>1. \A c \in Backers : pc[c] = "copying" => pc'[c] = "copying"
    BY Zenon, <1>1, CopyingStays
  <2>k. ASSUME UNCHANGED <<todo, copied, ackedAt, logOwner, manifest, mode>>,
               acked \subseteq acked', straddled \subseteq straddled',
               DOMAIN logs \subseteq DOMAIN logs',
               \A n \in DOMAIN logs : Batches(logs[n]) \subseteq Batches(logs'[n])
        PROVE  BackupInv'
    BY Zenon, <2>1, <2>k, BackupKeeps DEF ListedStays
  <2>2. CASE BeginRoom(t) \/ BeginWait(t) \/ BeginError(t) \/ QueueOnly(t) \/ EndBackup(t)
             \/ EndInsert(t) \/ EndError(t) \/ Return(t)
    <3>1. /\ UNCHANGED <<todo, copied, ackedAt, logOwner, manifest, mode, logs>>
          /\ acked \subseteq acked' /\ straddled \subseteq straddled'
      <4>1. CASE BeginRoom(t) \/ BeginWait(t) \/ BeginError(t)
        BY Zenon, <4>1
           DEF BeginRoom, BeginWait, BeginError, backupVars, threadVars, diskVars, ghostVars
      <4>2. CASE QueueOnly(t) \/ EndBackup(t)
        BY Zenon, <4>2 DEF QueueOnly, EndBackup, pathVars, backupVars, threadVars, diskVars, ghostVars
      <4>3. CASE EndInsert(t) \/ EndError(t) \/ Return(t)
        BY Zenon, <4>3 DEF EndInsert, EndError, Return, backupVars, threadVars, diskVars
      <4> QED BY Zenon, <2>2, <4>1, <4>2, <4>3
    <3> QED BY Zenon, <2>k, <3>1
  <2>3. CASE BeginSwitch(t)
    <3>1. /\ UNCHANGED <<todo, copied, ackedAt, logOwner, manifest, mode, acked, straddled>>
          /\ logs' = [n \in DOMAIN logs \cup {nextFile} |->
                        IF n = nextFile THEN <<>> ELSE logs[n]]
          /\ mode = "open"
      BY Zenon, <2>3 DEF BeginSwitch, InBegin, backupVars, threadVars, ghostVars
    <3>2. nextFile \notin DOMAIN logs
      BY <3>1 DEF PathInv, NumberInv, DiskInv, LogsOK, DataInv, StoreInv
    <3>3. DOMAIN logs \subseteq DOMAIN logs' /\ \A n \in DOMAIN logs : logs'[n] = logs[n]
      BY Zenon, <3>1, <3>2
    <3> QED BY Zenon, <2>k, <3>1, <3>3
  <2>4. CASE \E g \in 0..MaxGuards : LogAppend(t, g)
    <3>1. PICK g \in 0..MaxGuards : LogAppend(t, g)
      BY Zenon, <2>4
    <3> DEFINE r == [first |-> first[t], top |-> last[t] + g - 1]
    <3>2. /\ UNCHANGED <<todo, copied, ackedAt, logOwner, manifest, mode, acked, straddled>>
          /\ logs' = [n \in DOMAIN logs |-> IF n = wlog[t] THEN Append(logs[n], r) ELSE logs[n]]
      BY Zenon, <3>1 DEF LogAppend, backupVars, threadVars, ghostVars
    <3>a. first \in [Threads -> Int] /\ last \in [Threads -> Nat] /\ t \in Threads
          /\ MaxGuards \in Nat /\ \A n \in DOMAIN logs : logs[n] \in Seq(Record)
      BY Zenon, PathAssumption DEF PathInv, SeqBase, DiskInv, LogsOK
    <3>b. first[t] \in Int /\ last[t] + g - 1 \in Int
      BY <3>a
    <3>c. r \in Record
      BY Zenon, <3>b DEF Record
    <3>3. r \in Record /\ \A n \in DOMAIN logs : logs[n] \in Seq(Record)
      BY Zenon, <3>a, <3>c
    <3> HIDE DEF r
    <3>4. \A n \in DOMAIN logs : Batches(logs[n]) \subseteq Batches(Append(logs[n], r))
      <4>1. \A s \in Seq(Record) : Batches(Append(s, r)) = Batches(s) \cup {r.first}
        BY Zenon, <3>3, AppendBatches
      <4> QED BY Zenon, <3>3, <4>1
    <3>5. DOMAIN logs' = DOMAIN logs /\ \A n \in DOMAIN logs : Batches(logs[n]) \subseteq Batches(logs'[n])
      BY Zenon, <3>2, <3>4
    <3> QED BY Zenon, <2>k, <3>2, <3>5
  <2> QED BY Zenon, <1>1, <2>2, <2>3, <2>4 DEF ThreadStep
<1>2. ASSUME NEW t \in Threads,
             \/ BackupRequest(t) \/ BackupOccupy(t) \/ BackupList(t)
             \/ (\E f \in {0} \cup DOMAIN logs : BackupCopy(t, f))
             \/ BackupUnlock(t) \/ BackupFinish(t)
      PROVE  BackupInv'
  <2>1. t \in Backers
    <3>1. BackupRequest(t) => t \in Backers
      BY Zenon DEF BackupRequest, Q!BackupRequest
    <3> QED BY Zenon, <1>2, <3>1 DEF BackupOccupy, BackupList, BackupCopy, BackupUnlock, BackupFinish
  <2> QED BY Zenon, <1>2, <2>1, BackupFiles
<1>3. CASE MemThread
  <2>1. UNCHANGED <<pc, todo, copied, ackedAt, acked, straddled, mode>>
    BY Zenon, <1>3 DEF MemThread, MemCheck, MemBuilt, MemOccupy, MemManifest, MemInstall, MemError,
                       queueVars, backupVars, ghostVars
  <2>2. CASE UNCHANGED <<logOwner, logs, manifest>>
    BY Zenon, <1>s, <2>1, <2>2
  <2>3. CASE logOwner \notin Backers /\ logOwner' \notin Backers
    BY Zenon, <2>1, <2>3, BackupKeeps DEF ListedStays
  <2>4. MemCheck \/ MemBuilt => UNCHANGED <<logOwner, logs, manifest>>
    BY Zenon DEF MemCheck, MemBuilt, diskVars
  <2>5. MemOccupy => logOwner \notin Backers /\ logOwner' \notin Backers
    BY Zenon, <1>n DEF MemOccupy
  <2>6. MemManifest \/ MemInstall => logOwner \notin Backers /\ logOwner' \notin Backers
    <3>1. memPc \in {"logging", "logged"} => logOwner = "memtable"
      BY Zenon DEF TurnInv
    <3> QED BY Zenon, <1>n, <3>1 DEF MemManifest, MemInstall
  <2>7. MemError => \/ UNCHANGED <<logOwner, logs, manifest>>
                    \/ logOwner \notin Backers /\ logOwner' \notin Backers
    <3>1. memPc = "logging" => logOwner = "memtable"
      BY Zenon DEF TurnInv
    <3> QED BY Zenon, <1>n, <3>1 DEF MemError
  <2> QED BY Zenon, <1>3, <2>2, <2>3, <2>4, <2>5, <2>6, <2>7 DEF MemThread
<1>4. CASE Crash
  <2>1. /\ todo' = [b \in Backers |-> {}] /\ copied' = [b \in Backers |-> <<>>]
        /\ ackedAt' = [b \in Backers |-> {}] /\ logOwner' = NoOne
    BY Zenon, <1>4 DEF Crash
  <2>2. DOMAIN <<>> = {}
    OBVIOUS
  <2> QED BY Zenon, <1>n, <2>1, <2>2 DEF BackupInv, CopyInv
<1>5. ASSUME mode # "open" PROVE \A b \in Backers : logOwner # b
  BY Zenon, <1>5, <1>n DEF TurnInv, TicketInv
<1>6. CASE \E bad \in SUBSET LiveLogs : Recover(bad)
  <2>1. /\ UNCHANGED <<pc, todo, copied, ackedAt, logOwner>> /\ mode # "open"
    BY Zenon, <1>6 DEF Recover, queueVars, backupVars, threadVars
  <2>2. \A b \in Backers : ackedAt[b] = {} /\ logOwner # b /\ logOwner' # b
    BY Zenon, <1>5, <2>1 DEF BackupInv, CopyInv
  <2> QED BY Zenon, <2>1, <2>2 DEF BackupInv, CopyInv
<1>7. CASE Open
  <2>1. /\ UNCHANGED <<pc, todo, copied, ackedAt, logOwner, acked, straddled>> /\ mode # "open"
        /\ mode' = "open"
    BY Zenon, <1>7 DEF Open, queueVars, backupVars, threadVars, ghostVars
  <2> QED BY Zenon, <1>5, <2>1, BackupKeeps DEF ListedStays
<1>8. CASE UNCHANGED vars
  BY Zenon, <1>8, <1>s
     DEF vars, pathVars, queueVars, backupVars, threadVars, ghostVars, diskVars
<1> QED BY Zenon, <1>1, <1>2, <1>3, <1>4, <1>6, <1>7, <1>8 DEF Next

-----------------------------------------------------------------------------
(* The invariant.                                                          *)

LEMMA RecoveryInit == Init => RecoveryInv
<1> SUFFICES ASSUME Init PROVE RecoveryInv
  BY Zenon
<1>1. /\ (\A t \in Threads : pc[t] = "idle") /\ DOMAIN pc = Threads
      /\ upper = 0 /\ lastSeq = 0 /\ backup = FALSE /\ turn = FALSE
  BY Zenon DEF Init, Q!Init, Q!Threads, Threads
<1>2. /\ mem = {} /\ imm = {} /\ logNum = 3 /\ logs = [n \in {3} |-> <<>>]
      /\ wlog = [t \in Threads |-> 0] /\ logged = {} /\ nextFile = 4
      /\ tables = {} /\ dbLog = 3 /\ memPc = "check" /\ logOwner = NoOne
      /\ manifest.log = 3 /\ manifest.seq = 0 /\ manifest.next = 4 /\ manifest.tables = {}
      /\ todo = [b \in Backers |-> {}] /\ copied = [b \in Backers |-> <<>>]
      /\ ackedAt = [b \in Backers |-> {}] /\ mode = "open"
      /\ acked = {} /\ straddled = {} /\ resplit = {}
  BY Zenon DEF Init
<1>3. /\ UNION imm = {} /\ DataIn({}) = {} /\ DOMAIN <<>> = {}
      /\ DOMAIN logs = {3} /\ logs[3] = <<>> /\ Batches(<<>>) = {}
  BY <1>2 DEF DataIn, Batches
<1>4. LiveLogs = {3} /\ LiveBatches = {} /\ \A n \in LiveLogs : InOrder(n) = {}
  BY <1>2, <1>3 DEF LiveLogs, LiveBatches, InOrder
<1>w. (\A w \in Writers : pc[w] = "idle") /\ (\A b \in Backers : pc[b] = "idle")
  BY Zenon, <1>1 DEF Threads
<1>5. TicketInv
  BY Zenon, <1>1, <1>2, <1>w DEF TicketInv, Claimed
<1>6. TurnInv
  BY Zenon, <1>1, <1>2, <1>w, PathAssumption DEF TurnInv, InTurn
<1>7. EditInv
  BY Zenon, <1>2 DEF EditInv
<1>8. SeqInv
  <2>1. 0 \in Nat /\ 0 <= 0
    OBVIOUS
  <2> QED BY ZenonT(30), <1>1, <1>2, <1>3, <1>4, <2>1 DEF SeqInv, Upto
<1>9. StoreInv
  BY <1>2, <1>3 DEF StoreInv
<1>10. AckInv
  BY Zenon, <1>2, <1>w DEF AckInv
<1>11. NumsInv
  BY <1>2 DEF NumsInv
<1>12. OrderInv
  <2>1. \A w \in Writers : ~(pc[w] \in {"blocked", "linked"})
    BY Zenon, <1>w
  <2>2. InOrder(logNum) = {}
    BY Zenon, <1>2, <1>4
  <2> QED BY Zenon, <1>2, <1>3, <1>4, <2>1, <2>2 DEF OrderInv, Precedes
<1>13. BackupInv
  BY Zenon, <1>2, <1>3, PathAssumption DEF BackupInv, CopyInv
<1> QED BY Zenon, <1>5, <1>6, <1>7, <1>8, <1>9, <1>10, <1>11, <1>12, <1>13
        DEF RecoveryInv, DataInv

LEMMA RecoveryStep ==
  ASSUME PathInv, RecoveryInv, [Next]_vars
  PROVE  RecoveryInv'
<1>0. TicketInv /\ TurnInv /\ DataInv /\ BackupInv
  BY Zenon DEF RecoveryInv
<1>1. SeqBase /\ SeqBase'
  BY Zenon, PathStep DEF PathInv
<1>2. TicketInv' /\ TurnInv' /\ BackupInv'
  BY Zenon, <1>0, TicketStep, TurnStep, BackupStep
<1>3. DataInv'
  <2>1. ASSUME NEW t \in Threads, ThreadStep(t) PROVE DataInv'
    <3>1. Rises
      BY Zenon, <1>1, <2>1, ThreadRefines, QueueStepSeq
    <3>2. CASE \/ BeginRoom(t) \/ BeginWait(t) \/ BeginError(t) \/ EndBackup(t)
               \/ BackupRequest(t) \/ BackupOccupy(t) \/ BackupList(t) \/ BackupFinish(t)
               \/ \E f \in {0} \cup DOMAIN logs : BackupCopy(t, f)
      <4>1. Idle
        BY Zenon, <1>0, <3>2, CalmSteps
      <4>2. mode = "open"
        BY Zenon, <3>2 DEF BeginRoom, BeginWait, BeginError, InBegin, EndBackup, BackupRequest,
                           BackupOccupy, BackupList, BackupFinish, BackupCopy
      <4> QED BY Zenon, <1>0, <1>1, <3>1, <4>1, <4>2, StillStep
    <3>3. CASE QueueOnly(t) \/ Return(t) \/ BackupUnlock(t)
      BY Zenon, <1>0, <1>1, <3>1, <3>3, StillStep
    <3>4. CASE BeginSwitch(t)
      BY Zenon, <1>0, <1>1, <3>1, <3>4, SwitchStep
    <3>5. CASE \E g \in 0..MaxGuards : LogAppend(t, g)
      BY Zenon, <1>0, <3>5, AppendStep DEF LogAppend
    <3>6. CASE EndInsert(t) \/ EndError(t)
      BY Zenon, <1>0, <1>1, <1>2, <3>1, <3>6, EndStep DEF EndInsert, EndError
    <3> QED BY Zenon, <2>1, <3>2, <3>3, <3>4, <3>5, <3>6 DEF ThreadStep
  <2>2. ASSUME UNCHANGED queueVars PROVE Rises
    BY Zenon, <1>1, <2>2, QueueStepSeq
  <2>3. CASE Open \/ UNCHANGED vars
    BY Zenon, <1>0, <1>1, <2>2, <2>3, StillStep DEF Open, vars
  <2> QED BY Zenon, <1>0, <1>1, <2>1, <2>3, MemStep, CrashStep, RecoverStep DEF Next
<1> QED BY Zenon, <1>2, <1>3 DEF RecoveryInv

LEMMA RecoveryInvariant == Spec => [](PathInv /\ RecoveryInv)
BY PathInit, PathStep, RecoveryInit, RecoveryStep, PTL DEF Spec

-----------------------------------------------------------------------------
(* What the invariant says of the properties.                              *)

\* SequencesNotReused: after any crashes and recoveries, a new write gets
\* sequence numbers above all those that Get can see or that a recovery would
\* find, although Recover takes LastSequence from the MANIFEST and the logs.
THEOREM SequencesFresh == Spec => []SequencesNotReused
<1>1. ASSUME PathInv, RecoveryInv PROVE SequencesNotReused
  <2>1. /\ Upto(mem \cup (UNION imm), lastSeq) /\ Upto(DataIn(manifest.tables), manifest.seq)
        /\ Upto(LiveBatches, upper) /\ tables \subseteq manifest.tables
    BY Zenon, <1>1 DEF RecoveryInv, DataInv, SeqInv, StoreInv
  <2>2. /\ manifest.seq \in Nat /\ manifest.seq <= upper /\ lastSeq \in Nat /\ lastSeq <= upper
        /\ upper \in Nat
    BY Zenon, <1>1 DEF PathInv, SeqBase, DiskInv
  <2>3. DataIn(tables) \subseteq DataIn(manifest.tables)
    BY Zenon, <2>1 DEF DataIn
  <2>4. \A s \in Visible \cup Recoverable :
          s \in mem \cup (UNION imm) \/ s \in DataIn(manifest.tables) \/ s \in LiveBatches
    BY Zenon, <2>3, RecoverableSplits DEF Visible
  <2>5. \A s \in Visible \cup Recoverable : s <= upper
    BY <2>1, <2>2, <2>4 DEF Upto
  <2> QED BY Zenon, <2>5 DEF SequencesNotReused
<1> QED BY <1>1, RecoveryInvariant, PTL

\* DurableUnlessStraddled: a write that was acknowledged is in the tables of
\* the MANIFEST or in a log that DB::Open would replay, whatever the memtable
\* thread, the deletion of obsolete logs, errors, crashes and earlier
\* recoveries did, unless a memtable switch had retired its log.
THEOREM AckedDurably == Spec => []DurableUnlessStraddled
<1>1. PathInv /\ RecoveryInv => DurableUnlessStraddled
  BY Zenon, AckedRecoverable DEF RecoveryInv, DurableUnlessStraddled
<1> QED BY <1>1, RecoveryInvariant, PTL

\* AckedReadable: while the database is open, Get reaches every acknowledged
\* write, be it in mem_, in imm_ or in a table, also between the steps of
\* CompactMemTableThread.
THEOREM AckedVisible == Spec => []AckedReadable
<1>1. PathInv /\ RecoveryInv => AckedReadable
  <2>1. mode = "open" => mode # "down"
    BY Zenon
  <2> QED BY Zenon, <2>1 DEF RecoveryInv, DataInv, AckInv, AckedReadable
<1> QED BY <1>1, RecoveryInvariant, PTL

\* BackupComplete: the files that LiveBackup copies one by one, while writers
\* and the memtable thread go on, hold every write acknowledged before the
\* call, and none of them is deleted before it is copied.
THEOREM BackupsComplete == Spec => []BackupComplete
<1>1. ASSUME PathInv, RecoveryInv PROVE BackupComplete
  <2> SUFFICES ASSUME NEW b \in Backers
               PROVE  /\ todo[b] \subseteq {0} \cup DOMAIN logs
                      /\ logOwner = b /\ CopyDone(b) =>
                           ackedAt[b] \ straddled \subseteq
                             RecoverableFrom(copied[b][0],
                                             [n \in DOMAIN copied[b] \ {0} |-> copied[b][n]])
    BY Zenon DEF BackupComplete
  <2>1. CopyInv(b)
    BY Zenon, <1>1 DEF RecoveryInv, BackupInv
  <2>2. todo[b] \subseteq {0} \cup DOMAIN logs
    BY Zenon, <2>1 DEF CopyInv
  <2>3. ASSUME logOwner = b, CopyDone(b)
        PROVE  ackedAt[b] \ straddled \subseteq
                 RecoverableFrom(copied[b][0], [n \in DOMAIN copied[b] \ {0} |-> copied[b][n]])
    <3> DEFINE ls == [n \in DOMAIN copied[b] \ {0} |-> copied[b][n]]
    <3>1. todo[b] = {} /\ DOMAIN copied[b] # {}
      BY Zenon, <2>1, <2>3 DEF CopyDone, CopyInv
    <3>2. /\ 0 \in DOMAIN copied[b] /\ copied[b][0] = manifest
          /\ ackedAt[b] \ straddled \subseteq CopiedOf(b)
      BY Zenon, <2>1, <2>3, <3>1 DEF CopyInv, Listed
    <3>3. UNION {Batches(logs[n]) : n \in {k \in todo[b] \ {0} : k >= manifest.log}} = {}
      BY Zenon, <3>1
    <3>4. DOMAIN ls = (DOMAIN copied[b]) \ {0} /\ \A n \in DOMAIN ls : ls[n] = copied[b][n]
      BY Zenon
    <3> HIDE DEF ls
    <3>5. CopiedOf(b) \subseteq RecoverableFrom(manifest, ls)
      <4>1. ASSUME NEW n \in {k \in (DOMAIN copied[b]) \ {0} : k >= manifest.log},
                   NEW x \in Batches(copied[b][n])
            PROVE  x \in RecoverableFrom(manifest, ls)
        <5>1. n \in {k \in DOMAIN ls : k >= manifest.log} /\ x \in Batches(ls[n])
          BY Zenon, <3>4
        <5> QED BY Zenon, <5>1 DEF RecoverableFrom
      <4>2. DataIn(manifest.tables) \subseteq RecoverableFrom(manifest, ls)
        BY Zenon DEF RecoverableFrom
      <4> QED BY Zenon, <3>3, <4>1, <4>2 DEF CopiedOf
    <3> QED BY Zenon, <3>2, <3>5 DEF ls
  <2> QED BY Zenon, <2>2, <2>3
<1> QED BY <1>1, RecoveryInvariant, PTL

\* A bounded set of numbers has a maximum.
LEMMA MaxIs ==
  ASSUME NEW S, NEW B \in Nat, \A x \in S : x \in Nat /\ x <= B, S # {}
  PROVE  Max(S) \in S /\ \A y \in S : Max(S) \in Nat /\ y \in Nat /\ y <= Max(S)
<1> DEFINE T == {B - x : x \in S}
<1>1. T \subseteq Nat /\ T # {}
  OBVIOUS
<1>2. PICK m \in T : \A y \in T : ~(<<y, m>> \in OpToRel(<, Nat))
  BY Zenon, <1>1, NatLessThanWellFounded, WFMin
<1>r. \A a, b \in Nat : a < b => <<a, b>> \in OpToRel(<, Nat)
  BY Zenon DEF OpToRel
<1>3. \A y \in T : m <= y
  <2> SUFFICES ASSUME NEW y \in T PROVE m <= y
    BY Zenon
  <2>1. y \in Nat /\ m \in Nat /\ ~(y < m)
    BY Zenon, <1>1, <1>2, <1>r
  <2> QED BY <2>1
<1>4. PICK x \in S : m = B - x
  BY Zenon
<1>5. \A y \in S : x >= y
  BY <1>3, <1>4
<1>6. Max(S) \in S /\ \A y \in S : Max(S) >= y
  BY Zenon, <1>5 DEF Max
<1> QED BY Zenon, <1>6

\* Among finitely numbered tables one is the newest.
LEMMA NewestIs ==
  ASSUME NEW S, NEW B \in Nat, \A t \in S : t.num \in Nat /\ t.num <= B, S # {}
  PROVE  LET newest == CHOOSE t \in S : \A u \in S : u.num <= t.num
         IN  newest \in S /\ \A u \in S : u.num <= newest.num
<1> DEFINE N == {t.num : t \in S}
<1>1. N # {} /\ \A x \in N : x \in Nat /\ x <= B
  BY Zenon
<1>2. Max(N) \in N /\ \A y \in N : y <= Max(N)
  BY Zenon, <1>1, MaxIs
<1>3. PICK t \in S : t.num = Max(N)
  BY Zenon, <1>2
<1>4. \A u \in S : u.num <= t.num
  BY Zenon, <1>2, <1>3
<1> QED BY Zenon, <1>4

\* ReadsNewestUnlessReordered: Get stops at the first memtable or table that
\* has the key, in the order mem_, imm_, tables by falling number, and that
\* one has the newest write of all that are visible, unless one of the two was
\* inserted after its log had been retired or recovered from a split log.
THEOREM ReadsNewest == Spec => []ReadsNewestUnlessReordered
<1>1. ASSUME PathInv, RecoveryInv PROVE ReadsNewestUnlessReordered
  <2> DEFINE V == Max(Visible)
             I == UNION imm
             D == DataIn(manifest.tables)
  <2> SUFFICES ASSUME mode = "open", Visible # {}, Lookup \notin Exempt, V \notin Exempt
               PROVE  Lookup = V
    BY Zenon DEF ReadsNewestUnlessReordered, Exempt
  <2>1. /\ Upto(mem \cup I, lastSeq) /\ Upto(D, manifest.seq) /\ tables \subseteq manifest.tables
    BY Zenon, <1>1 DEF RecoveryInv, DataInv, SeqInv, StoreInv
  <2>2. /\ manifest.seq \in Nat /\ manifest.seq <= upper /\ lastSeq \in Nat /\ lastSeq <= upper
        /\ upper \in Nat
    BY Zenon, <1>1 DEF PathInv, SeqBase, DiskInv
  <2>3. DataIn(tables) \subseteq D
    BY Zenon, <2>1 DEF DataIn
  <2>4. \A x \in Visible : x \in Nat /\ x <= upper
    BY ZenonT(30), <2>1, <2>2, <2>3, LeqLeq DEF Visible, Upto
  <2>5. V \in Visible /\ \A y \in Visible : V \in Nat /\ y \in Nat /\ y <= V
    BY Zenon, <2>2, <2>4, MaxIs
  <2>6. ASSUME NEW S, S \subseteq Visible, S # {}
        PROVE  Max(S) \in S /\ Max(S) \in Visible /\ Max(S) <= V
               /\ \A y \in S : y <= Max(S)
    BY Zenon, <2>2, <2>4, <2>5, <2>6, MaxIs
  <2> HIDE DEF V
  <2>e. \A x \in Visible : x <= V /\ (V <= x \/ ~(V > x)) => x = V
    BY <2>5
  <2>l. \A x \in Visible : V < x => FALSE
    BY <2>5
  <2>7. CASE mem # {}
    <3>1. Lookup = Max(mem) /\ mem \subseteq Visible
      BY Zenon, <2>7 DEF Lookup, Visible
    <3>2. V \in mem \/ V \in (D \cup I) \ Exempt
      BY Zenon, <2>3, <2>5 DEF Visible
    <3>3. V \in (D \cup I) \ Exempt => V < Max(mem)
      BY Zenon, <1>1, <2>6, <2>7, <3>1 DEF RecoveryInv, DataInv, OrderInv, Precedes
    <3> QED BY Zenon, <2>6, <2>7, <2>e, <2>l, <3>1, <3>2, <3>3
  <2>8. CASE mem = {} /\ I # {}
    <3>1. Lookup = Max(I) /\ I \subseteq Visible
      BY Zenon, <2>8 DEF Lookup, Visible
    <3>2. V \in I \/ V \in D \ Exempt
      BY Zenon, <2>3, <2>5, <2>8 DEF Visible
    <3>3. V \in D \ Exempt => V < Max(I) \/ V \in I
      BY Zenon, <1>1, <2>6, <2>8, <3>1 DEF RecoveryInv, DataInv, OrderInv
    <3> QED BY Zenon, <2>6, <2>8, <2>e, <2>l, <3>1, <3>2, <3>3
  <2>9. CASE mem = {} /\ I = {}
    <3> DEFINE newest == CHOOSE t \in tables : \A u \in tables : u.num <= t.num
    <3>1. Lookup = Max(newest.data)
      BY Zenon, <2>9 DEF Lookup
    <3>2. PICK u \in tables : V \in u.data
      BY Zenon, <2>5, <2>9 DEF Visible, DataIn
    <3>3. /\ manifest.next \in Nat
          /\ \A t \in tables : t.num \in Nat /\ t.num <= manifest.next /\ t.data # {}
          /\ \A s, t \in tables : s.num = t.num => s = t
      <4>1. /\ manifest.next \in Nat
            /\ \A t \in manifest.tables : t.num \in Nat /\ t.num < manifest.next /\ t.data # {}
            /\ \A s, t \in manifest.tables : s.num = t.num => s = t
        BY Zenon, <1>1 DEF RecoveryInv, DataInv, NumsInv, PathInv, NumberInv
      <4>2. \A m, n \in Nat : m < n => m <= n
        OBVIOUS
      <4> QED BY Zenon, <2>1, <4>1, <4>2
    <3>4. newest \in tables /\ \A t \in tables : t.num <= newest.num
      BY Zenon, <3>2, <3>3, NewestIs
    <3> HIDE DEF newest
    <3>5. newest.data \subseteq Visible /\ newest.data # {}
      BY Zenon, <3>3, <3>4 DEF Visible, DataIn
    <3>6. Lookup \in newest.data /\ Lookup \in Visible /\ Lookup <= V
          /\ \A y \in newest.data : y <= Lookup
      BY Zenon, <2>6, <3>1, <3>5
    <3>7. V \in newest.data \/ V < Lookup
      <4>1. CASE u.num = newest.num
        BY Zenon, <3>2, <3>3, <3>4, <4>1
      <4>2. CASE u.num # newest.num
        <5>1. u.num < newest.num
          BY <3>3, <3>4, <4>2
        <5> QED BY Zenon, <1>1, <2>1, <3>2, <3>4, <3>6, <5>1 DEF RecoveryInv, DataInv, OrderInv
      <4> QED BY Zenon, <4>1, <4>2
    <3> QED BY Zenon, <2>e, <2>l, <3>6, <3>7
  <2> QED BY Zenon, <2>7, <2>8, <2>9
<1> QED BY <1>1, RecoveryInvariant, PTL
=============================================================================
