----------------------------- MODULE WritePath -----------------------------
(***************************************************************************)
(* The write path of PebblesDB (db/db_impl.cc): the writers of WriterQueue *)
(* together with the write-ahead log, the two memtables, the memtable      *)
(* compaction thread, LiveBackup, a crash of the process and recovery.     *)
(*                                                                         *)
(* Every batch writes the one key of the model, so a batch is known by its *)
(* start sequence and a table or memtable is the set of batches in it.     *)
(* What is appended to a log file survives a crash of the process.         *)
(***************************************************************************)
EXTENDS Integers, FiniteSets, Sequences, FiniteSetsExt

CONSTANTS Writers, Snappers, Backers, NoOne, BatchSizes, MaxStarts, MaxGuards,
          BeginMayFail,
          BufferSize,     \* options_.write_buffer_size, in batches
          MaxErrors       \* bound: how many file operations fail

ASSUME PathAssumption ==
  /\ BatchSizes \subseteq Nat \ {0}   \* every batch has an update
  /\ MaxGuards \in Nat
  /\ BufferSize \in Nat
  /\ MaxErrors \in Nat
  /\ Writers \cap Snappers = {} /\ Writers \cap Backers = {}
  /\ Snappers \cap Backers = {}
  /\ NoOne \notin Writers \cup Snappers \cup Backers
  /\ "memtable" \notin Backers \cup {NoOne}

VARIABLES pc, tail, prev, next, linked, wakeMe, blockIf, hasImm, first, last,
          upper, lastSeq, snap, asleep, backup, turn, started,
          ahead, missed, orphans

Q == INSTANCE WriterQueue WITH MaySwitch <- TRUE

VARIABLES
  mem,       \* mem_
  imm,       \* imm_: {} when NULL, {contents} otherwise
  logNum,    \* logfile_number_
  logs,      \* the log files of the directory: number -> sequence of records
  wlog,      \* Writer::log_, as the number of the log
  logged,    \* writers whose record has been handed to AddRecord
  room,      \* a thread in SequenceWriteBegin: "out", "wait" (bg_fg_cv_), "retry"
  nextFile,  \* VersionSet::next_file_number_
  tables,    \* tables of the current version
  dbLog,     \* VersionSet::log_number_
  manifest,  \* what CURRENT and the MANIFEST say on disk
  memPc,     \* where CompactMemTableThread is
  edit,      \* the VersionEdit being applied by it
  bgError,   \* bg_error_ is set
  errors,    \* number of file operations that have failed (bounded)
  logOwner,  \* who has set bg_log_occupied_: a backup, "memtable" or NoOne
  deferred,  \* backup_deferred_delete_
  todo,      \* files a backup has listed and not copied yet (0: the MANIFEST)
  copied,    \* files a backup has copied: name -> contents
  mode       \* "open", "down" after a crash, "recovering" once recovery is durable

(* History variables. *)
VARIABLES
  acked,     \* batches whose Write returned OK and that a crash did not lose in
             \* one of the two known ways (straddled; a log in `bad' of Recover)
  straddled, \* batches whose log a memtable switch had retired when they were
             \* inserted, or when an error or a crash kept them from it
  resplit,   \* batches recovered from a log that filled several tables
  ackedAt    \* batches acknowledged when a backup was requested

queueVars == <<pc, tail, prev, next, linked, wakeMe, blockIf, hasImm, first,
               last, upper, lastSeq, snap, asleep, backup, turn, started,
               ahead, missed, orphans>>
memVars == <<mem, imm, logNum, wlog, logged, room>>
diskVars == <<logs, manifest>>
versionVars == <<tables, dbLog, nextFile>>
threadVars == <<memPc, edit, logOwner, deferred>>
errorVars == <<bgError, errors>>
backupVars == <<todo, copied, ackedAt>>
ghostVars == <<acked, straddled, resplit>>
pathVars == <<memVars, diskVars, versionVars, threadVars, backupVars, errorVars,
              mode, ghostVars>>
vars == <<queueVars, pathVars>>

Callers == Writers \cup Backers
Threads == Writers \cup Snappers \cup Backers

NoEdit == [log |-> 0, seq |-> 0, next |-> 0, table |-> {}]

Init ==
  /\ Q!Init
  /\ mem = {} /\ imm = {}
  /\ logNum = 3
  /\ logs = [n \in {3} |-> <<>>]
  /\ wlog = [t \in Threads |-> 0]
  /\ logged = {}
  /\ room = [t \in Threads |-> "out"]
  /\ nextFile = 4
  /\ tables = {} /\ dbLog = 3
  /\ manifest = [log |-> 3, seq |-> 0, next |-> 4, tables |-> {}]
  /\ memPc = "check" /\ edit = NoEdit
  /\ bgError = FALSE /\ errors = 0 /\ logOwner = NoOne /\ deferred = FALSE
  /\ todo = [b \in Backers |-> {}]
  /\ copied = [b \in Backers |-> <<>>]
  /\ ackedAt = [b \in Backers |-> {}]
  /\ mode = "open"
  /\ acked = {} /\ straddled = {} /\ resplit = {}

----------------------------------------------------------------------------
(***************************************************************************)
(* Files.                                                                  *)
(***************************************************************************)

Batches(log) == {log[i].first : i \in DOMAIN log}

DataIn(ts) == UNION {t.data : t \in ts}

\* What a recovery from MANIFEST m and the log files ls brings back.
RecoverableFrom(m, ls) ==
  DataIn(m.tables) \cup
  UNION {Batches(ls[n]) : n \in {k \in DOMAIN ls : k >= m.log}}

Recoverable == RecoverableFrom(manifest, logs)

\* DeleteObsoleteFiles, for log files: deferred during a backup, given up
\* after a background error, and otherwise log_number_ decides.
DeleteObsolete(number) ==
  logs' = IF backup \/ bgError THEN logs
          ELSE [n \in {m \in DOMAIN logs : m >= number} |-> logs[n]]

WokenNobody == room

\* bg_fg_cv_.SignalAll()
Woken == [t \in Threads |-> IF room[t] = "wait" THEN "retry" ELSE room[t]]

\* A file operation fails.
Fail == errors < MaxErrors /\ errors' = errors + 1

SignalNobody == memPc' = memPc

SignalMemThread == memPc' = IF memPc = "asleep" THEN "check" ELSE memPc

----------------------------------------------------------------------------
(***************************************************************************)
(* SequenceWriteBegin under mutex_: one action per exit of its loop.       *)
(***************************************************************************)

\* t is about to run the body of the loop.
InBegin(t) ==
  /\ mode = "open"
  /\ t \in Callers
  /\ pc[t] = IF t \in Writers THEN "idle" ELSE "turn"
  /\ room[t] # "wait"

\* !force and the current memtable has room.
HasRoom(t) == t \in Writers /\ Cardinality(mem) <= BufferSize

QueueBegin(t, switched) ==
  \/ t \in Writers /\ Q!WriteBegin(t, switched)
  \/ t \in Backers /\ Q!BackupBegin(t, TRUE, switched)

BeginRoom(t) ==
  /\ InBegin(t)
  /\ ~bgError
  /\ HasRoom(t)
  /\ QueueBegin(t, FALSE)
  /\ wlog' = [wlog EXCEPT ![t] = logNum]
  /\ room' = [room EXCEPT ![t] = "out"]
  /\ UNCHANGED <<mem, imm, logNum, logged, diskVars, versionVars, threadVars,
                 backupVars, errorVars, mode, ghostVars>>

\* imm_ is still being compacted: signal bg_memtable_cv_, wait on bg_fg_cv_.
BeginWait(t) ==
  /\ InBegin(t)
  /\ ~bgError
  /\ ~HasRoom(t)
  /\ imm # {}
  /\ SignalMemThread
  /\ room' = [room EXCEPT ![t] = "wait"]
  /\ UNCHANGED <<queueVars, mem, imm, logNum, wlog, logged, diskVars,
                 versionVars, edit, logOwner, deferred, backupVars, errorVars,
                 mode, ghostVars>>

\* Switch to a new log and a new memtable.
BeginSwitch(t) ==
  /\ InBegin(t)
  /\ ~bgError
  /\ ~HasRoom(t)
  /\ imm = {}
  /\ QueueBegin(t, TRUE)
  /\ logNum' = nextFile
  /\ nextFile' = nextFile + 1
  /\ logs' = [n \in DOMAIN logs \cup {nextFile} |->
                IF n = nextFile THEN <<>> ELSE logs[n]]
  /\ imm' = {mem}
  /\ mem' = {}
  /\ wlog' = [wlog EXCEPT ![t] = nextFile]
  /\ room' = [room EXCEPT ![t] = "out"]
  /\ UNCHANGED <<logged, manifest, tables, dbLog, threadVars, backupVars,
                 errorVars, mode, ghostVars>>

\* bg_error_, or the new log file cannot be created (its number is given
\* back).  Write returns the error; LiveBackup ignores it.
BeginError(t) ==
  /\ InBegin(t)
  /\ \/ bgError /\ UNCHANGED errorVars
     \/ ~bgError /\ ~HasRoom(t) /\ imm = {} /\ Fail /\ UNCHANGED bgError
  /\ room' = [room EXCEPT ![t] = "out"]
  /\ \/ t \in Writers /\ UNCHANGED queueVars
     \/ t \in Backers /\ Q!BackupBegin(t, FALSE, FALSE)
  /\ UNCHANGED <<mem, imm, logNum, wlog, logged, diskVars, versionVars,
                 threadVars, backupVars, mode, ghostVars>>

----------------------------------------------------------------------------
(***************************************************************************)
(* The rest of DBImpl::Write.                                              *)
(***************************************************************************)

\* The steps of the queue that touch neither memtables nor files.
QueueOnly(t) ==
  /\ mode = "open"
  /\ \/ t \in Writers /\ \/ \E d \in BatchSizes : Q!WriteLink(t, d)
                         \/ Q!WriteUnblock(t)
     \/ t \in Callers /\ Q!WriteUnlink(t)
     \/ t \in Snappers /\ \/ Q!SnapRead(t) \/ Q!SnapNoWait(t) \/ Q!SnapWait(t)
                          \/ Q!SnapSleepAgain(t) \/ Q!SnapLeave(t)
                          \/ Q!SnapRelease(t)
     \/ t \in Backers /\ \/ Q!BackupTurn(t) \/ Q!WriteLink(t, 0)
                         \/ Q!BackupReleaseAhead(t) \/ Q!BackupHead(t)
                         \/ Q!BackupStart(t)
  /\ UNCHANGED pathVars

\* AddRecord to the log that SequenceWriteBegin found, outside any lock.  The
\* record counts the g guard records of the batch as well.  The log may have
\* been deleted meanwhile; then the record goes to a file without a name.
LogAppend(w, g) ==
  /\ mode = "open"
  /\ w \in Writers
  /\ pc[w] = "linked"
  /\ w \notin logged
  /\ logged' = logged \cup {w}
  /\ logs' = [n \in DOMAIN logs |->
                IF n = wlog[w]
                THEN Append(logs[n], [first |-> first[w],
                                      top |-> last[w] + g - 1])
                ELSE logs[n]]
  /\ UNCHANGED <<queueVars, mem, imm, logNum, wlog, room, manifest, versionVars,
                 threadVars, backupVars, errorVars, mode, ghostVars>>

EndInsertLastWins(w) ==
  /\ mode = "open"
  /\ w \in Writers \cap logged
  /\ pc[w] = "linked"
  /\ pc' = [pc EXCEPT ![w] = "ended"]
  /\ lastSeq' = last[w]
  /\ mem' = mem \cup {first[w]}
  /\ straddled' = IF wlog[w] = logNum THEN straddled
                  ELSE straddled \cup {first[w]}
  /\ logged' = logged \ {w}
  /\ UNCHANGED <<tail, prev, next, linked, wakeMe, blockIf, hasImm, first, last,
                 upper, snap, asleep, backup, turn, started, ahead, missed,
                 orphans, imm, logNum, wlog, room, diskVars, versionVars,
                 threadVars, backupVars, errorVars, mode, acked, resplit>>

\* SequenceWriteEnd under mutex_, s.ok(): the batch goes into the memtable
\* that is current now, and LastSequence covers it.
EndInsert(w) ==
  /\ mode = "open"
  /\ w \in Writers \cap logged
  /\ Q!WriteEnd(w)
  /\ mem' = mem \cup {first[w]}
  /\ straddled' = IF wlog[w] = logNum THEN straddled
                  ELSE straddled \cup {first[w]}
  /\ logged' = logged \ {w}
  /\ UNCHANGED <<imm, logNum, wlog, room, diskVars, versionVars, threadVars,
                 backupVars, errorVars, mode, acked, resplit>>

\* The same when the sync of the log failed: nothing is inserted, the error
\* sticks and wakes everybody on bg_fg_cv_; LastSequence advances all the same.
EndError(w) ==
  /\ mode = "open"
  /\ Fail
  /\ w \in Writers \cap logged
  /\ Q!WriteEnd(w)
  /\ bgError' = TRUE
  /\ straddled' = IF wlog[w] = logNum THEN straddled
                  ELSE straddled \cup {first[w]}
  /\ wlog' = [wlog EXCEPT ![w] = 0]
  /\ room' = Woken
  /\ logged' = logged \ {w}
  /\ UNCHANGED <<mem, imm, logNum, diskVars, versionVars, threadVars,
                 backupVars, mode, acked, resplit>>

\* SequenceWriteEnd of a backup, whose batch is NULL.
EndBackup(b) ==
  /\ mode = "open"
  /\ b \in Backers
  /\ Q!WriteEnd(b)
  /\ UNCHANGED pathVars

\* The end of SequenceWriteEnd (or of WaitOutWriters): a head that holds
\* has_imm_ signals the memtable thread.  A batch that was inserted (its wlog
\* is still set) is acknowledged.
Return(t) ==
  /\ mode = "open"
  /\ IF t \in Snappers THEN Q!SnapReturn(t) ELSE t \in Callers /\ Q!WriteReturn(t)
  /\ IF hasImm[t] /\ prev[t] = NoOne THEN SignalMemThread ELSE UNCHANGED memPc
  /\ acked' = IF t \in Writers /\ wlog[t] # 0 THEN acked \cup {first[t]}
              ELSE acked
  /\ wlog' = [wlog EXCEPT ![t] = 0]
  /\ UNCHANGED <<mem, imm, logNum, logged, room, diskVars, versionVars, edit,
                 logOwner, deferred, backupVars, errorVars, mode, straddled,
                 resplit>>

----------------------------------------------------------------------------
(***************************************************************************)
(* CompactMemTableThread and VersionSet::LogAndApply.                      *)
(***************************************************************************)

\* Under mutex_: wait for imm_, or reserve a file number and start building.
MemCheck ==
  /\ mode = "open"
  /\ memPc = "check"
  /\ IF imm = {}
     THEN memPc' = "asleep" /\ UNCHANGED <<edit, nextFile>>
     ELSE /\ memPc' = "building"
          /\ edit' = [log |-> 0, seq |-> 0, next |-> 0,
                      table |-> {[num |-> nextFile, data |-> m] : m \in imm \ {{}}}]
          /\ nextFile' = nextFile + 1
  /\ UNCHANGED <<queueVars, memVars, diskVars, tables, dbLog, logOwner, deferred,
                 backupVars, errorVars, mode, ghostVars>>

MemBuiltDropsImm ==
  /\ mode = "open"
  /\ memPc = "building"
  /\ memPc' = "built"
  /\ imm' = {}
  /\ edit' = [log |-> logNum, seq |-> 0, next |-> 0, table |-> edit.table]
  /\ UNCHANGED <<queueVars, mem, logNum, wlog, logged, room, diskVars,
                 versionVars, logOwner, deferred, backupVars, errorVars, mode,
                 ghostVars>>

\* Back under mutex_ with the table built: SetLogNumber(logfile_number_).
MemBuilt ==
  /\ mode = "open"
  /\ memPc = "building"
  /\ memPc' = "built"
  /\ edit' = [log |-> logNum, seq |-> 0, next |-> 0, table |-> edit.table]
  /\ UNCHANGED <<queueVars, memVars, diskVars, versionVars, logOwner, deferred,
                 backupVars, errorVars, mode, ghostVars>>

\* LogAndApply waits for bg_log_occupied_, takes it and completes the edit.
MemOccupy ==
  /\ mode = "open"
  /\ memPc = "built"
  /\ logOwner = NoOne
  /\ logOwner' = "memtable"
  /\ edit' = [log |-> edit.log, seq |-> lastSeq, next |-> nextFile,
              table |-> edit.table]
  /\ memPc' = "logging"
  /\ UNCHANGED <<queueVars, memVars, diskVars, versionVars, deferred, backupVars,
                 errorVars, mode, ghostVars>>

\* The record the MANIFEST gains, outside mutex_.
ManifestAfterEdit ==
  [log |-> edit.log, seq |-> edit.seq, next |-> edit.next,
   tables |-> manifest.tables \cup edit.table]

MemManifest ==
  /\ mode = "open"
  /\ memPc = "logging"
  /\ manifest' = ManifestAfterEdit
  /\ memPc' = "logged"
  /\ UNCHANGED <<queueVars, memVars, logs, versionVars, edit, logOwner, deferred,
                 backupVars, errorVars, mode, ghostVars>>

\* Back under mutex_: install the version, drop imm_, wake the writers, delete
\* obsolete files.
MemInstall ==
  /\ mode = "open"
  /\ memPc = "logged"
  /\ tables' = tables \cup edit.table
  /\ dbLog' = edit.log
  /\ logOwner' = NoOne
  /\ imm' = {}
  /\ room' = Woken
  /\ DeleteObsolete(edit.log)
  /\ deferred' = (deferred \/ backup)
  /\ memPc' = "check"
  /\ edit' = NoEdit
  /\ UNCHANGED <<queueVars, mem, logNum, wlog, logged, manifest, nextFile,
                 backupVars, errorVars, mode, ghostVars>>

\* Building the table or writing the MANIFEST failed; in the second case the
\* record may or may not have reached the file.  The thread sleeps and retries.
MemError ==
  /\ mode = "open"
  /\ Fail
  /\ memPc \in {"building", "logging"}
  /\ manifest' \in IF memPc = "logging" THEN {manifest, ManifestAfterEdit}
                   ELSE {manifest}
  /\ logOwner' = IF memPc = "logging" THEN NoOne ELSE logOwner
  /\ bgError' = TRUE
  /\ room' = Woken
  /\ memPc' = "check"
  /\ edit' = NoEdit
  /\ UNCHANGED <<queueVars, mem, imm, logNum, wlog, logged, logs, versionVars,
                 deferred, backupVars, mode, ghostVars>>

----------------------------------------------------------------------------
(***************************************************************************)
(* LiveBackup, where it touches files.                                     *)
(***************************************************************************)

BackupRequest(b) ==
  /\ mode = "open"
  /\ Q!BackupRequest(b)
  /\ ackedAt' = [ackedAt EXCEPT ![b] = acked]
  /\ UNCHANGED <<memVars, diskVars, versionVars, threadVars, todo, copied,
                 errorVars, mode, ghostVars>>

\* Under mutex_: keep LogAndApply out.
BackupOccupy(b) ==
  /\ mode = "open"
  /\ b \in Backers
  /\ logOwner = NoOne
  /\ Q!BackupOccupy(b)
  /\ logOwner' = b
  /\ UNCHANGED <<memVars, diskVars, versionVars, memPc, edit, deferred,
                 backupVars, errorVars, mode, ghostVars>>

BackupListCurrentLog(b) ==
  /\ mode = "open"
  /\ b \in Backers
  /\ logOwner = b
  /\ todo[b] = {} /\ copied[b] = <<>>
  /\ todo' = [todo EXCEPT ![b] = {logNum, 0}]
  /\ UNCHANGED <<queueVars, memVars, diskVars, versionVars, threadVars, copied,
                 ackedAt, errorVars, mode, ghostVars>>

\* GetChildren, outside any lock.
BackupList(b) ==
  /\ mode = "open"
  /\ b \in Backers
  /\ logOwner = b
  /\ todo[b] = {} /\ copied[b] = <<>>
  /\ todo' = [todo EXCEPT ![b] = DOMAIN logs \cup {0}]
  /\ UNCHANGED <<queueVars, memVars, diskVars, versionVars, threadVars, copied,
                 ackedAt, errorVars, mode, ghostVars>>

\* The copy of one of the files (the live tables come along with the MANIFEST,
\* whose tables they are).
BackupCopy(b, f) ==
  /\ mode = "open"
  /\ b \in Backers
  /\ f \in todo[b] \cap ({0} \cup DOMAIN logs)
  /\ todo' = [todo EXCEPT ![b] = @ \ {f}]
  /\ copied' = [copied EXCEPT ![b] =
                  [n \in DOMAIN @ \cup {f} |->
                     IF n # f THEN @[n] ELSE IF f = 0 THEN manifest ELSE logs[f]]]
  /\ UNCHANGED <<queueVars, memVars, diskVars, versionVars, threadVars, ackedAt,
                 errorVars, mode, ghostVars>>

CopyDone(b) == todo[b] = {} /\ copied[b] # <<>>

\* The copy is done, or has failed.  Under mutex_: the deletion that was put
\* off is called, and LogAndApply is let in again.
BackupUnlock(b) ==
  /\ mode = "open"
  /\ b \in Backers
  /\ logOwner = b
  /\ \/ /\ CopyDone(b)
        /\ IF deferred THEN DeleteObsolete(dbLog) ELSE UNCHANGED logs
        /\ UNCHANGED errors
     \/ ~CopyDone(b) /\ Fail /\ UNCHANGED logs
  /\ todo' = [todo EXCEPT ![b] = {}]
  /\ deferred' = FALSE
  /\ logOwner' = NoOne
  /\ UNCHANGED <<queueVars, memVars, manifest, versionVars, memPc, edit, copied,
                 ackedAt, bgError, mode, ghostVars>>

\* Under writers_mutex_: pass the turn on.
BackupFinish(b) ==
  /\ mode = "open"
  /\ b \in Backers
  /\ logOwner # b
  /\ Q!BackupFinish(b)
  /\ copied' = [copied EXCEPT ![b] = <<>>]
  /\ UNCHANGED <<memVars, diskVars, versionVars, threadVars, todo, ackedAt,
                 errorVars, mode, ghostVars>>

----------------------------------------------------------------------------
(***************************************************************************)
(* A crash of the process, and DB::Open.                                   *)
(***************************************************************************)

LiveLogsAfter == {n \in DOMAIN logs : n > manifest.log}

LiveLogs == {n \in DOMAIN logs : n >= manifest.log}

StoredSequencesOfManifest == {manifest.seq}

\* The last sequence numbers that Recover finds; LastSequence becomes the
\* largest.
StoredSequences ==
  {manifest.seq} \cup
  UNION {{logs[n][i].top : i \in DOMAIN logs[n]} : n \in LiveLogs}

\* The batches that have a record in a log whose memtable is not mem_ any more.
Late == {first[w] : w \in {v \in logged : wlog[v] # logNum}}

Crash ==
  /\ mode # "down"
  /\ mode' = "down"
  /\ \E n \in StoredSequences :
       (\A m \in StoredSequences : m <= n) /\ Q!Restart(n)
  /\ mem' = {} /\ imm' = {} /\ tables' = {}
  /\ logNum' = 0 /\ dbLog' = 0 /\ nextFile' = 0
  /\ wlog' = [t \in Threads |-> 0]
  /\ logged' = {}
  /\ room' = [t \in Threads |-> "out"]
  /\ memPc' = "check" /\ edit' = NoEdit
  /\ bgError' = FALSE /\ logOwner' = NoOne /\ deferred' = FALSE
  /\ todo' = [b \in Backers |-> {}]
  /\ copied' = [b \in Backers |-> <<>>]
  /\ ackedAt' = [b \in Backers |-> {}]
  /\ acked' = acked \ (straddled \ Recoverable)
  /\ straddled' = (straddled \cup Late) \cap Recoverable
  /\ UNCHANGED <<diskVars, errors, resplit>>

\* RecoverLogFile: the records of a log, in the order of the file, fill
\* memtables that are written out as soon as they exceed the buffer size.
NumTables(log) == (Len(log) + BufferSize) \div (BufferSize + 1)

TableOf(log, i) ==
  {log[j].first : j \in {k \in DOMAIN log : (k - 1) \div (BufferSize + 1) = i - 1}}

\* The tables that the replay writes, as <<log, position in the log>>.  The
\* last table of a log in `bad' cannot be written.
ReplayTables(bad) ==
  UNION {{n} \X (1..(NumTables(logs[n]) - IF n \in bad THEN 1 ELSE 0)) :
           n \in LiveLogs}

\* The logs are replayed in the order of their numbers.
Before(a, b) == a[1] < b[1] \/ (a[1] = b[1] /\ a[2] < b[2])

\* Recover and the LogAndApply of DB::Open, up to the switch of CURRENT.  The
\* status of a log is overwritten by that of the next one, so that only an
\* error in the last log makes DB::Open fail (and change nothing).  New files
\* are numbered upwards from a number above every one in use.  (The code steps
\* over the number of a log once it is replayed; the order is the same.)
Recover(bad) ==
  /\ mode = "down"
  /\ bad \subseteq {n \in LiveLogs : logs[n] # <<>> /\ \E m \in LiveLogs : m > n}
  /\ errors + Cardinality(bad) <= MaxErrors
  /\ errors' = errors + Cardinality(bad)
  /\ mode' = "recovering"
  /\ \E base \in {manifest.next + 1} \cup {n + 1 : n \in LiveLogs} :
       /\ base > manifest.next
       /\ \A n \in LiveLogs : base > n
       /\ LET new == ReplayTables(bad)
              Number(t) == base + Cardinality({u \in new : Before(u, t)})
          IN  /\ tables' = manifest.tables \cup
                   {[num |-> Number(t), data |-> TableOf(logs[t[1]], t[2])] : t \in new}
              /\ logNum' = base + Cardinality(new)
  /\ nextFile' = logNum' + 1
  /\ dbLog' = logNum'
  /\ logs' = [n \in DOMAIN logs \cup {logNum'} |->
                IF n = logNum' THEN <<>> ELSE logs[n]]
  /\ manifest' = [log |-> logNum', seq |-> lastSeq, next |-> nextFile',
                  tables |-> tables']
  /\ acked' = acked \ UNION {TableOf(logs[n], NumTables(logs[n])) : n \in bad}
  /\ resplit' = resplit \cup
       UNION {Batches(logs[n]) : n \in {m \in LiveLogs : NumTables(logs[m]) > 1}}
  /\ UNCHANGED <<queueVars, mem, imm, wlog, logged, room, threadVars, backupVars,
                 bgError, straddled>>

\* DeleteObsoleteFiles, the threads are let go, DB::Open returns.
Open ==
  /\ mode = "recovering"
  /\ mode' = "open"
  /\ DeleteObsolete(dbLog)
  /\ UNCHANGED <<queueVars, memVars, manifest, versionVars, threadVars,
                 backupVars, errorVars, ghostVars>>

----------------------------------------------------------------------------
ThreadStep(t) ==
  \/ BeginRoom(t) \/ BeginWait(t) \/ BeginSwitch(t) \/ BeginError(t)
  \/ QueueOnly(t)
  \/ \E g \in 0..MaxGuards : LogAppend(t, g)
  \/ EndInsert(t) \/ EndError(t) \/ EndBackup(t)
  \/ Return(t)
  \/ BackupRequest(t) \/ BackupOccupy(t) \/ BackupList(t)
  \/ \E f \in {0} \cup DOMAIN logs : BackupCopy(t, f)
  \/ BackupUnlock(t) \/ BackupFinish(t)

MemThread ==
  MemCheck \/ MemBuilt \/ MemOccupy \/ MemManifest \/ MemInstall \/ MemError

Next ==
  \/ \E t \in Threads : ThreadStep(t)
  \/ MemThread
  \/ Crash
  \/ \E bad \in SUBSET LiveLogs : Recover(bad)
  \/ Open

Spec == Init /\ [][Next]_vars

\* Threads inside an operation and the memtable thread keep being scheduled.
FairSpec ==
  /\ Spec
  /\ \A t \in Threads :
       WF_vars(ThreadStep(t) /\ (pc[t] # "idle" \/ room[t] = "retry"))
  /\ WF_vars(MemThread)
  /\ WF_vars(\E bad \in SUBSET LiveLogs : Recover(bad))
  /\ WF_vars(Open)

----------------------------------------------------------------------------
(***************************************************************************)
(* Properties.                                                             *)
(***************************************************************************)

Seqs == SUBSET Nat

TypeOK ==
  /\ mem \in Seqs
  /\ \A m \in imm : m \in Seqs
  /\ Cardinality(imm) <= 1
  /\ logged \subseteq Writers
  /\ room \in [Threads -> {"out", "wait", "retry"}]
  /\ memPc \in {"check", "asleep", "building", "built", "logging", "logged"}
  /\ logOwner \in Backers \cup {NoOne, "memtable"}
  /\ mode \in {"open", "down", "recovering"}
  /\ (mode = "open") => logNum \in DOMAIN logs /\ logNum < nextFile

\* An acknowledged write is in the tables and logs that a recovery would use,
\* unless it was logged before a memtable switch and inserted after it.
DurableUnlessStraddled == acked \ straddled \subseteq Recoverable

\* options.h: when the process crashes and the machine does not reboot, "no
\* writes will be lost even if sync==false".
AckedDurable == acked \subseteq Recoverable

\* What Get sees: the current memtable, the immutable one, the tables.
Visible == mem \cup (UNION imm) \cup DataIn(tables)

\* A memtable that is handed to the memtable thread, and a table that is
\* being installed, never drop out of the reach of Get.
AckedReadable == mode = "open" => acked \subseteq Visible

LookupOldestTable ==
  IF mem # {} THEN Max(mem)
  ELSE IF UNION imm # {} THEN Max(UNION imm)
  ELSE LET oldest == CHOOSE t \in tables : \A u \in tables : u.num >= t.num
       IN Max(oldest.data)

\* Get: the first memtable or table with an entry answers; tables are tried by
\* falling file number.
Lookup ==
  IF mem # {} THEN Max(mem)
  ELSE IF UNION imm # {} THEN Max(UNION imm)
  ELSE LET newest == CHOOSE t \in tables : \A u \in tables : u.num <= t.num
       IN Max(newest.data)

\* Get returns the newest write, unless one of the two writes concerned was
\* not in the memtable that its log belongs to (a switch came in between, then
\* the insertion or a crash), or came from a log that recovery had to split
\* into several tables.
ReadsNewestUnlessReordered ==
  mode = "open" /\ Visible # {} /\ Lookup # Max(Visible) =>
    {Lookup, Max(Visible)} \cap (straddled \cup resplit) # {}

\* No sequence number that is stored anywhere, or that a recovery would find,
\* will be claimed by a later write.
SequencesNotReused ==
  mode = "open" => \A s \in Visible \cup Recoverable : s <= upper

\* LiveBackup: no file disappears between its listing and its copy, and the
\* files copied, each at a moment of its own, hold every write that had been
\* acknowledged before the call.
BackupComplete ==
  \A b \in Backers :
    /\ todo[b] \subseteq {0} \cup DOMAIN logs
    /\ logOwner = b /\ CopyDone(b) =>
         ackedAt[b] \ straddled \subseteq
           RecoverableFrom(copied[b][0],
                           [n \in DOMAIN copied[b] \ {0} |-> copied[b][n]])

\* The write path runs the queue of writers by its protocol.
ImplementsQueue == Q!Spec

\* The immutable memtable is written out.
ImmFlushed == imm # {} ~> imm = {}

\* A writer that waits for room gets on.
WaiterProceeds == \A t \in Callers : room[t] = "wait" ~> room[t] # "wait"

============================================================================
