----------------------------- MODULE TableFiles -----------------------------
(***************************************************************************)
(* The life of PebblesDB's table files and of the MANIFEST                 *)
(* (db/db_impl.cc, db/builder.cc, db/version_set.cc).                      *)
(*                                                                         *)
(* Five kinds of threads share the set of files: the memtable thread       *)
(* flushes the frozen memtable into new level-0 tables, the level thread   *)
(* merges tables into new ones, callers of CompactRange hand it manual     *)
(* compactions, readers hold a version while they read, and a live backup  *)
(* links the tables of the live versions.  A version is a set of file      *)
(* numbers; DeleteObsoleteFiles removes every table that no version and no *)
(* pending output names.  Writing a table, writing the MANIFEST and        *)
(* creating a file may fail, and the process may crash between two steps.  *)
(*                                                                         *)
(* The contents of a memtable are abstracted to pieces <<generation, part>>*)
(* one for each level-0 guard range it has keys in; what a merge drops is  *)
(* the subject of GuardTree.  All steps under mutex_ without an unlock are *)
(* one action.                                                             *)
(***************************************************************************)
EXTENDS Integers, FiniteSets

CONSTANTS
  Readers,     \* threads that read through a version
  Callers,     \* threads in TEST_CompactRange
  Contents,    \* generation -> parts (guard ranges) its memtable has keys in
  LastGuard,   \* number of level-0 guards: parts are 0..LastGuard
  LastLevel,   \* config::kNumLevels - 1
  LevelOf,     \* caller -> level it compacts
  MaxFile,     \* bound on file numbers
  Budget,      \* bound on errors, crashes, closings, compactions and client
               \* operations, taken together
  None         \* a null pointer

Parts  == 0..LastGuard
Gens   == DOMAIN Contents
Number == 1..MaxFile
Piece  == Gens \X Parts
Logs   == [num : Number, gen : Gens]

ASSUME TableFilesAssumption ==
  /\ LastGuard \in Nat /\ LastLevel \in Nat \ {0} /\ Budget \in Nat
  /\ MaxFile \in Nat /\ MaxFile >= 4
  /\ Gens \subseteq Nat \ {0} /\ 1 \in Gens
  /\ Contents \in [Gens -> SUBSET Parts]
  /\ None \notin Callers
  /\ LevelOf \in [Callers -> 0..(LastLevel - 1)]

VARIABLES
  status,    \* "run", "closing", "closed", "down", "replay", "missing"
  threads,   \* num_bg_threads_
  nextFile,  \* next_file_number_
  disk,      \* numbers of the table files on disk
  data,      \* pieces in the table written last under a number
  lvl,       \* level a table was written for
  logs,      \* log files on disk
  mem,       \* generation of the memtable
  imm,       \* generation of imm_, 0 when NULL
  current,   \* the current version
  logNum,    \* versions_->LogNumber()
  pending,   \* pending_outputs_
  bgError,   \* ~bg_error_.ok()
  occupied,  \* who has bg_log_occupied_
  rec,       \* the edit LogAndApply is writing
  manifest,  \* what VersionSet::Recover would read from CURRENT's MANIFEST
  hidden,    \* a failed record left a gap that hides the next ones
  fpc, fbase, fnew, fadd, fnums,          \* the memtable thread
  lpc, lman, lout, lbase, lins, ltodo, louts, lfrom, \* the level thread
  manual,    \* manual_compaction_
  cpc, cdone,                     \* callers of TEST_CompactRange
  held,      \* version a reader holds ({} when none)
  bpc, blive,                             \* a live backup, its live tables
  redo, redoOK, redoBad,                  \* logs to replay, last status, generations that failed
  broken,    \* history: tables listed in an edit although deleted
  lost,      \* history: pieces whose error was overwritten by a success
  unlogged,  \* history: generations whose flush record is unreadable
  clobbered, \* history: num_bg_threads_ was overwritten
  spent      \* how much of Budget is spent

disks   == <<disk, data, lvl, logs>>
memory  == <<mem, imm, current, logNum, pending, nextFile, bgError>>
journal == <<occupied, rec, manifest, hidden>>
flusher == <<fpc, fbase, fnew, fadd, fnums>>
leveler == <<lpc, lman, lout, lbase, lins, ltodo, louts, lfrom>>
calls   == <<manual, cpc, cdone>>
backup  == <<bpc, blive>>
redoing == <<redo, redoOK, redoBad>>
history == <<broken, lost, unlogged, clobbered>>
vars == <<status, threads, disks, memory, journal, flusher, leveler, calls,
          held, backup, redoing, history, spent>>

NoEdit == [add |-> {}, del |-> {}, next |-> 1, log |-> 1]

TypeOK ==
  /\ status \in {"run", "closing", "closed", "down", "replay", "missing"}
  /\ threads \in Int
  /\ nextFile \in 1..(MaxFile + 1)
  /\ disk \subseteq Number
  /\ data \in [Number -> SUBSET Piece]
  /\ lvl \in [Number -> 0..LastLevel]
  /\ logs \subseteq Logs
  /\ mem \in Gens /\ imm \in Gens \cup {0}
  /\ current \subseteq Number /\ logNum \in Number /\ pending \subseteq Number
  /\ bgError \in BOOLEAN
  /\ occupied \in {"none", "flush", "level", "backup"}
  /\ rec \in [add : SUBSET Number, del : SUBSET Number, next : 1..(MaxFile + 1),
              log : Number]
  /\ manifest \in [files : SUBSET Number, next : 1..(MaxFile + 1), log : Number]
  /\ hidden \in BOOLEAN
  /\ fpc \in {"idle", "build", "wait", "log", "gone"}
  /\ {fbase, fadd, fnums} \subseteq SUBSET Number
  /\ fnew \in 0..MaxFile
  /\ lpc \in {"check", "asleep", "merge", "log", "gone"}
  /\ lman \in BOOLEAN /\ lout \in 0..LastLevel /\ lfrom \in 0..LastLevel
  /\ {lbase, lins, louts} \subseteq SUBSET Number
  /\ ltodo \subseteq Piece
  /\ manual \in Callers \cup {None}
  /\ cpc \in [Callers -> {"out", "loop", "wait"}]
  /\ cdone \in [Callers -> BOOLEAN]
  /\ held \in [Readers -> SUBSET Number]
  /\ bpc \in {"off", "on", "link"} /\ blive \subseteq Number
  /\ redo \subseteq Logs /\ redoOK \in BOOLEAN /\ redoBad \subseteq Gens
  /\ broken \subseteq Number /\ lost \subseteq Piece /\ unlogged \subseteq Gens
  /\ clobbered \in BOOLEAN
  /\ spent \in 0..Budget

-----------------------------------------------------------------------------
(* A database just created and opened: MANIFEST 2, log 3, no tables.       *)

Init ==
  /\ status = "run" /\ threads = 2
  /\ nextFile = 4 /\ disk = {}
  /\ data = [n \in Number |-> {}] /\ lvl = [n \in Number |-> 0]
  /\ logs = {[num |-> 3, gen |-> 1]}
  /\ mem = 1 /\ imm = 0
  /\ current = {} /\ logNum = 3 /\ pending = {} /\ bgError = FALSE
  /\ occupied = "none" /\ rec = NoEdit
  /\ manifest = [files |-> {}, next |-> 4, log |-> 3] /\ hidden = FALSE
  /\ fpc = "idle" /\ fbase = {} /\ fnew = 0 /\ fadd = {} /\ fnums = {}
  /\ lpc = "check" /\ lman = FALSE /\ lout = 0 /\ lfrom = 0
  /\ lbase = {} /\ lins = {} /\ ltodo = {} /\ louts = {}
  /\ manual = None /\ cpc = [c \in Callers |-> "out"]
  /\ cdone = [c \in Callers |-> FALSE]
  /\ held = [r \in Readers |-> {}]
  /\ bpc = "off" /\ blive = {}
  /\ redo = {} /\ redoOK = TRUE /\ redoBad = {}
  /\ broken = {} /\ lost = {} /\ unlogged = {} /\ clobbered = FALSE
  /\ spent = 0

-----------------------------------------------------------------------------
(* Versions and the files they keep.                                       *)

DataOf(files) == UNION {data[n] : n \in files}

\* The threads still run: a closing database lets them finish.
Up == status \in {"run", "closing"}

\* Files of the versions other threads hold.
HeldFiles == UNION {held[r] : r \in Readers}

\* VersionSet::AddLiveFiles: every version that is referenced.
LiveFiles == current \cup fbase \cup lbase \cup HeldFiles

\* Callers asleep on bg_fg_cv_ wake up.
Woken == [c \in Callers |-> IF cpc[c] = "wait" THEN "loop" ELSE cpc[c]]

\* DeleteObsoleteFiles without its test of bg_error_.
DeleteAfterError(p, live, ln, err) ==
  IF bpc # "off"
  THEN UNCHANGED <<disk, logs>>
  ELSE /\ disk' = disk \cap (p \cup live)
       /\ logs' = {l \in logs : l.num >= ln}

(***************************************************************************)
(* DeleteObsoleteFiles with pending outputs p, live tables live and log    *)
(* number ln: it does nothing during a backup or after a background error. *)
(* (The flag backup_deferred_delete_ it sets makes LiveBackup call it      *)
(* again, while the backup is still in progress: again nothing.)           *)
(***************************************************************************)
DeleteObsoleteFiles(p, live, ln, err) ==
  IF bpc # "off" \/ err
  THEN UNCHANGED <<disk, logs>>
  ELSE /\ disk' = disk \cap (p \cup live)
       /\ logs' = {l \in logs : l.num >= ln}

-----------------------------------------------------------------------------
(* LogAndApply: an edit becomes a record of the MANIFEST.                  *)

Apply(view, e) ==
  [files |-> (view.files \ e.del) \cup e.add, next |-> e.next, log |-> e.log]

\* The edit a thread gets bg_log_occupied_ for, with the counters of now.
BeginEdit(who, add, del, ln) ==
  /\ occupied = "none" /\ occupied' = who
  /\ rec' = [add |-> add, del |-> del, next |-> nextFile, log |-> ln]

(***************************************************************************)
(* AddRecord and Sync return ok or an error.  A record is readable when    *)
(* both succeeded, and may be when only Sync failed.  A failed AddRecord   *)
(* may leave a gap of zeros: the reader then skips, without a report, what *)
(* follows in the same block, so later records stay hidden until one lies  *)
(* in a new block.                                                         *)
(***************************************************************************)
WriteRecord(ok) ==
  \/ manifest' = Apply(manifest, rec) /\ hidden' = FALSE
  \/ (hidden \/ ~ok) /\ UNCHANGED <<manifest, hidden>>
  \/ ~ok /\ hidden' = TRUE /\ UNCHANGED manifest

Spend(n) == spent + n <= Budget /\ spent' = spent + n

-----------------------------------------------------------------------------
(* Writers fill the memtable; MakeRoomForWrite freezes it, with a new log. *)

SwitchMemTable ==
  /\ status = "run" /\ imm = 0 /\ ~bgError
  /\ mem + 1 \in Gens /\ nextFile < MaxFile
  /\ imm' = mem /\ mem' = mem + 1
  /\ logs' = logs \cup {[num |-> nextFile, gen |-> mem + 1]}
  /\ nextFile' = nextFile + 1
  /\ UNCHANGED <<status, threads, disk, data, lvl, current, logNum, pending,
                 bgError, journal, flusher, leveler, calls, held, backup,
                 redoing, history, spent>>

-----------------------------------------------------------------------------
(* BuildLevel0Tables: one table for each part that has keys, in order,     *)
(* with the numbers reserved from r on.  Before part "cut" creation failed *)
(* and the function returned.  A table whose Finish failed is deleted and  *)
(* gets no metadata; one whose Sync, Close or check failed is deleted too, *)
(* but FinishFileCompletion has its status by value and the metadata stays.*)

Fates == [Parts -> {"ok", "unsynced", "unfinished"}]

TableNo(g, r, p) == r + Cardinality({q \in Contents[g] : q < p})

Made(g, cut)             == {p \in Contents[g] : p < cut}
Written(g, r, cut, fate) == {TableNo(g, r, p) : p \in {q \in Made(g, cut) : fate[q] = "ok"}}
MetaList(g, r, cut, fate) ==
  {TableNo(g, r, p) : p \in {q \in Made(g, cut) : fate[q] # "unfinished"}}

\* The status that is left: each NewWritableFile overwrites the last one.
BuildOK(g, cut, fate) ==
  /\ cut > LastGuard
  /\ \A p \in Contents[g] :
       fate[p] = "unfinished" => \E q \in Contents[g] : q > p

\* An outcome with at most the errors that are still allowed.
Possible(g, cut, fate) ==
  /\ \A p \in Parts \ Made(g, cut) : fate[p] = "ok"
  /\ Spend(Cardinality({p \in Parts : fate[p] # "ok"})
            + IF cut > LastGuard THEN 0 ELSE 1)

\* The numbers WriteLevel0TableGuards hands back: those of the tables it
\* added to the edit, and the reserved ones behind meta_list.size().
Numbers(g, r, cut, fate) ==
  (IF BuildOK(g, cut, fate) THEN MetaList(g, r, cut, fate) ELSE {})
    \cup (r + Cardinality(MetaList(g, r, cut, fate)))..(r + LastGuard)

\* The files and their contents after the build of generation g.
BuildLevel0Tables(g, r, cut, fate) ==
  LET nums == {TableNo(g, r, p) : p \in Made(g, cut)} IN
  /\ disk' = (disk \ nums) \cup Written(g, r, cut, fate)
  /\ data' = [n \in Number |->
                IF n \in nums
                THEN {<<g, p>> : p \in {q \in Made(g, cut) : TableNo(g, r, q) = n}}
                ELSE data[n]]
  /\ lvl' = [n \in Number |-> IF n \in nums THEN 0 ELSE lvl[n]]
  /\ broken' = (broken \ nums) \cup (MetaList(g, r, cut, fate) \ Written(g, r, cut, fate))
  /\ lost' = lost \cup
       IF BuildOK(g, cut, fate)
       THEN {<<g, p>> : p \in {q \in Contents[g] : fate[q] = "unfinished"}}
       ELSE {}

-----------------------------------------------------------------------------
(* CompactMemTableThread.                                                  *)

\* It takes a reference to the current version and reserves the numbers.
FlushStart ==
  /\ status = "run" /\ fpc = "idle" /\ imm # 0
  /\ nextFile + LastGuard < MaxFile
  /\ fpc' = "build" /\ fbase' = current /\ fnew' = nextFile
  /\ nextFile' = nextFile + LastGuard + 1
  /\ pending' = pending \cup nextFile..(nextFile + LastGuard)
  /\ UNCHANGED <<status, threads, disks, mem, imm, current, logNum, bgError,
                 journal, fadd, fnums, leveler, calls, held, backup, redoing,
                 history, spent>>

\* FlushBuild that gives the numbers back before LogAndApply.
FlushBuildUnpends ==
  /\ Up /\ fpc = "build" /\ fbase' = {}
  /\ \E cut \in 0..(LastGuard + 1), fate \in Fates :
       LET nums == Numbers(imm, fnew, cut, fate)
           good == BuildOK(imm, cut, fate) /\ status = "run"
       IN /\ cut \in Contents[imm] \cup {LastGuard + 1}
          /\ Possible(imm, cut, fate)
          /\ BuildLevel0Tables(imm, fnew, cut, fate)
          /\ IF good
             THEN /\ fpc' = "wait" /\ fnums' = nums
                  /\ fadd' = MetaList(imm, fnew, cut, fate)
                  /\ pending' = pending \ nums /\ UNCHANGED <<bgError, cpc>>
             ELSE /\ fpc' = "idle" /\ pending' = pending \ nums
                  /\ bgError' = TRUE /\ cpc' = Woken
                  /\ UNCHANGED <<fadd, fnums>>
  /\ UNCHANGED <<status, threads, logs, mem, imm, current, logNum, nextFile,
                 journal, fnew, leveler, manual, cdone, held, backup,
                 redoing, unlogged, clobbered>>

\* The tables are built without the mutex.  On success LogAndApply comes
\* next; on an error, or when the database is being closed, the error is
\* recorded, the numbers are given back and the thread tries again later.
FlushBuild ==
  /\ Up /\ fpc = "build" /\ fbase' = {}
  /\ \E cut \in 0..(LastGuard + 1), fate \in Fates :
       LET nums == Numbers(imm, fnew, cut, fate)
           good == BuildOK(imm, cut, fate) /\ status = "run"
       IN /\ cut \in Contents[imm] \cup {LastGuard + 1}
          /\ Possible(imm, cut, fate)
          /\ BuildLevel0Tables(imm, fnew, cut, fate)
          /\ IF good
             THEN /\ fpc' = "wait" /\ fnums' = nums
                  /\ fadd' = MetaList(imm, fnew, cut, fate)
                  /\ UNCHANGED <<pending, bgError, cpc>>
             ELSE /\ fpc' = "idle" /\ pending' = pending \ nums
                  /\ bgError' = TRUE /\ cpc' = Woken
                  /\ UNCHANGED <<fadd, fnums>>
  /\ UNCHANGED <<status, threads, logs, mem, imm, current, logNum, nextFile,
                 journal, fnew, leveler, manual, cdone, held, backup,
                 redoing, unlogged, clobbered>>

\* LogAndApply of a flush: the logs before the memtable's are not needed.
FlushLog ==
  /\ Up /\ fpc = "wait" /\ fpc' = "log"
  /\ \E l \in logs :
       l.gen = mem /\ BeginEdit("flush", fadd, {}, l.num)
  /\ UNCHANGED <<status, threads, disks, memory, manifest, hidden, fbase, fnew,
                 fadd, fnums, leveler, calls, held, backup, redoing, history,
                 spent>>

\* The record is written; the new version is installed, imm_ dropped, the
\* numbers leave pending_outputs_, and obsolete files are deleted.
FlushRecord ==
  /\ Up /\ fpc = "log" /\ fpc' = "idle" /\ occupied' = "none"
  /\ pending' = pending \ fnums /\ fadd' = {} /\ fnums' = {} /\ fnew' = 0
  /\ cpc' = Woken
  /\ \/ /\ WriteRecord(TRUE) /\ UNCHANGED spent
        /\ current' = current \cup rec.add /\ logNum' = rec.log
        /\ imm' = 0
        /\ unlogged' = IF manifest' = manifest THEN unlogged \cup {imm} ELSE unlogged
        /\ lpc' = IF lpc = "asleep" THEN "check" ELSE lpc
        /\ DeleteObsoleteFiles(pending', current' \cup lbase \cup HeldFiles, logNum', bgError)
        /\ UNCHANGED bgError
     \/ /\ Spend(1) /\ WriteRecord(FALSE) /\ bgError' = TRUE
        /\ UNCHANGED <<current, logNum, imm, unlogged, lpc, disk, logs>>
  /\ UNCHANGED <<status, threads, data, lvl, mem, nextFile, rec, fbase, lman, lout,
                 lbase, lins, ltodo, louts, lfrom, manual, cdone, held, backup,
                 redoing, broken, lost, clobbered>>

FlushExit ==
  /\ status = "closing" /\ fpc = "idle" /\ fpc' = "gone"
  /\ threads' = threads - 1
  /\ UNCHANGED <<status, disks, memory, journal, fbase, fnew, fadd, fnums, leveler,
                 calls, held, backup, redoing, history, spent>>

-----------------------------------------------------------------------------
(* TEST_CompactRange: a caller installs its manual compaction when there   *)
(* is none, waits for the level thread, and cancels it after an error.     *)

CallerEnter(c) ==
  /\ status = "run" /\ Spend(1) /\ cpc[c] = "out"
  /\ cpc' = [cpc EXCEPT ![c] = "loop"]
  /\ cdone' = [cdone EXCEPT ![c] = FALSE]
  /\ UNCHANGED <<status, threads, disks, memory, journal, flusher, leveler, manual,
                 held, backup, redoing, history>>

\* CallerLoop that does not wait while a compaction is installed.
CallerLoopLeaves(c) ==
  /\ Up /\ cpc[c] = "loop"
  /\ IF cdone[c] \/ manual # None
     THEN /\ cpc' = [cpc EXCEPT ![c] = "out"]
          /\ manual' = IF manual = c THEN None ELSE manual
          /\ UNCHANGED lpc
     ELSE /\ cpc' = [cpc EXCEPT ![c] = "wait"]
          /\ manual' = IF manual = None THEN c ELSE manual
          /\ lpc' = IF manual = None /\ lpc = "asleep" THEN "check" ELSE lpc
  /\ UNCHANGED <<status, threads, disks, memory, journal, flusher, lman, lout, lbase,
                 lins, ltodo, louts, lfrom, cdone, held, backup, redoing,
                 history, spent>>

CallerLoop(c) ==
  /\ Up /\ cpc[c] = "loop"
  /\ IF cdone[c] \/ bgError
     THEN /\ cpc' = [cpc EXCEPT ![c] = "out"]
          /\ manual' = IF manual = c THEN None ELSE manual
          /\ UNCHANGED lpc
     ELSE /\ cpc' = [cpc EXCEPT ![c] = "wait"]
          /\ manual' = IF manual = None THEN c ELSE manual
          /\ lpc' = IF manual = None /\ lpc = "asleep" THEN "check" ELSE lpc
  /\ UNCHANGED <<status, threads, disks, memory, journal, flusher, lman, lout, lbase,
                 lins, ltodo, louts, lfrom, cdone, held, backup, redoing,
                 history, spent>>

-----------------------------------------------------------------------------
(* CompactLevelThread.  The contents of a compaction are its input files   *)
(* lins, taken from level lfrom and the next; it writes tables of level    *)
(* lout.  PickCompactionForGuards and CompactRange choose by sizes, scores *)
(* and key ranges: any choice of files of the two levels.                  *)

FilesAt(l) == {n \in current : lvl[n] = l}

StartCompaction(man, from, out, ins) ==
  /\ lpc' = "merge" /\ lman' = man /\ lfrom' = from /\ lout' = out
  /\ lbase' = current /\ lins' = ins /\ ltodo' = DataOf(ins) /\ louts' = {}
  /\ Spend(1)

\* A compaction to the next level, or within one of the last two levels.
LevelPick ==
  /\ status = "run" /\ lpc = "check" /\ manual = None
  /\ \E l \in 0..LastLevel, across \in BOOLEAN :
       /\ IF across THEN l >= LastLevel - 1 ELSE l < LastLevel
       /\ \E ins \in (SUBSET FilesAt(l)) \ {{}},
             next \in SUBSET (IF across THEN {} ELSE FilesAt(l + 1)) :
            StartCompaction(FALSE, l, IF across THEN l ELSE l + 1, ins \cup next)
  /\ UNCHANGED <<status, threads, disks, memory, journal, flusher, calls, held, backup,
                 redoing, history>>

\* A manual compaction takes what overlaps its range; when nothing does,
\* it is done.
LevelManual ==
  /\ status = "run" /\ lpc = "check" /\ manual # None /\ threads = 2
  /\ LET l == LevelOf[manual] IN
     \/ /\ \E ins \in (SUBSET FilesAt(l)) \ {{}}, next \in SUBSET FilesAt(l + 1) :
             StartCompaction(TRUE, l, l + 1, ins \cup next)
        /\ UNCHANGED calls
     \/ /\ cdone' = [cdone EXCEPT ![manual] = TRUE]
        /\ manual' = None /\ cpc' = Woken
        /\ UNCHANGED <<leveler, spent>>
  /\ UNCHANGED <<status, threads, disks, memory, journal, flusher, held, backup,
                 redoing, history>>

LevelSleep ==
  /\ status = "run" /\ lpc = "check" /\ manual = None /\ lpc' = "asleep"
  /\ UNCHANGED <<status, threads, disks, memory, journal, flusher, lman, lout, lbase,
                 lins, ltodo, louts, lfrom, calls, held, backup, redoing, history,
                 spent>>

\* One output table, for the first guard range that is left: its number is
\* pending before the file is created.
LevelOutput ==
  /\ Up /\ lpc = "merge" /\ ltodo # {} /\ lins \subseteq disk /\ nextFile <= MaxFile
  /\ \E p \in Parts :
       LET part == {x \in ltodo : x[2] = p} IN
       /\ part # {} /\ \A x \in ltodo : p <= x[2]
       /\ ltodo' = ltodo \ part
       /\ data' = [data EXCEPT ![nextFile] = part]
  /\ lvl' = [lvl EXCEPT ![nextFile] = lout]
  /\ disk' = disk \cup {nextFile} /\ broken' = broken \ {nextFile}
  /\ pending' = pending \cup {nextFile} /\ louts' = louts \cup {nextFile}
  /\ nextFile' = nextFile + 1
  /\ UNCHANGED <<status, threads, logs, mem, imm, current, logNum, bgError, journal,
                 flusher, lpc, lman, lout, lbase, lins, lfrom, calls, held, backup,
                 redoing, lost, unlogged, clobbered, spent>>

\* LevelLog with the number of the log in use, as a flush has it.
LevelLogSkips ==
  /\ Up /\ lpc = "merge" /\ ltodo = {} /\ lpc' = "log"
  /\ \E l \in logs : l.gen = mem /\ BeginEdit("level", louts, lins, l.num)
  /\ UNCHANGED <<status, threads, disks, memory, manifest, hidden, flusher, lman, lout,
                 lbase, lins, ltodo, louts, lfrom, calls, held, backup, redoing,
                 history, spent>>

\* LogAndApply of the compaction's edit.
LevelLog ==
  /\ Up /\ lpc = "merge" /\ ltodo = {} /\ lpc' = "log"
  /\ BeginEdit("level", louts, lins, logNum)
  /\ UNCHANGED <<status, threads, disks, memory, manifest, hidden, flusher, lman, lout,
                 lbase, lins, ltodo, louts, lfrom, calls, held, backup, redoing,
                 history, spent>>

\* LevelEnd without the SignalAll of bg_fg_cv_.
LevelEndSilent(ok) ==
  /\ lman => manual # None
  /\ lpc' = "check" /\ lbase' = {} /\ lins' = {} /\ louts' = {} /\ ltodo' = {}
  /\ lman' = FALSE /\ lfrom' = 0 /\ lout' = 0
  /\ pending' = pending \ louts
  /\ IF lfrom = LastLevel
     THEN threads' \in {0, threads} /\ clobbered' = TRUE
     ELSE UNCHANGED <<threads, clobbered>>
  /\ manual' = IF lman THEN None ELSE manual
  /\ cdone' = IF lman /\ ~ok THEN [cdone EXCEPT ![manual] = TRUE] ELSE cdone
  /\ cpc' = cpc
  /\ DeleteObsoleteFiles(pending', current' \cup fbase \cup HeldFiles, logNum, bgError')

(***************************************************************************)
(* The end of BackgroundCompactionGuards, under the mutex: the outputs     *)
(* leave pending_outputs_, the input version is released, obsolete files   *)
(* are deleted, levels_locked_[level + 1] is cleared (at the last level    *)
(* that is the first byte of num_bg_threads_, behind the array), and a     *)
(* manual compaction is taken from manual_compaction_, done if there was   *)
(* an error.  A manual compaction its caller cancelled is a null pointer:  *)
(* LevelNull.                                                              *)
(***************************************************************************)
LevelEnd(ok) ==
  /\ lman => manual # None
  /\ lpc' = "check" /\ lbase' = {} /\ lins' = {} /\ louts' = {} /\ ltodo' = {}
  /\ lman' = FALSE /\ lfrom' = 0 /\ lout' = 0
  /\ pending' = pending \ louts
  /\ IF lfrom = LastLevel
     THEN threads' \in {0, threads} /\ clobbered' = TRUE
     ELSE UNCHANGED <<threads, clobbered>>
  /\ manual' = IF lman THEN None ELSE manual
  /\ cdone' = IF lman /\ ~ok THEN [cdone EXCEPT ![manual] = TRUE] ELSE cdone
  /\ cpc' = Woken
  /\ DeleteObsoleteFiles(pending', current' \cup fbase \cup HeldFiles, logNum, bgError')

\* LevelRecord that removes the inputs from the version without adding the outputs.
LevelRecordDrops ==
  /\ Up /\ lpc = "log" /\ occupied' = "none"
  /\ \/ /\ WriteRecord(TRUE) /\ current' = current \ rec.del
        /\ UNCHANGED <<bgError, spent>> /\ LevelEnd(TRUE)
     \/ /\ Spend(1) /\ WriteRecord(FALSE) /\ bgError' = TRUE
        /\ UNCHANGED current /\ LevelEnd(FALSE)
  /\ UNCHANGED <<status, data, lvl, mem, imm, logNum, nextFile, rec, flusher, held,
                 backup, redoing, broken, lost, unlogged>>

\* The record of the compaction's edit, then the end of the compaction.
LevelRecord ==
  /\ Up /\ lpc = "log" /\ occupied' = "none"
  /\ \/ /\ WriteRecord(TRUE) /\ current' = (current \ rec.del) \cup rec.add
        /\ UNCHANGED <<bgError, spent>> /\ LevelEnd(TRUE)
     \/ /\ Spend(1) /\ WriteRecord(FALSE) /\ bgError' = TRUE
        /\ UNCHANGED current /\ LevelEnd(FALSE)
  /\ UNCHANGED <<status, data, lvl, mem, imm, logNum, nextFile, rec, flusher, held,
                 backup, redoing, broken, lost, unlogged>>

\* An input cannot be read, an output cannot be written, or the database is
\* being closed: the error is recorded and the compaction ends.
LevelFail ==
  /\ Up /\ lpc = "merge"
  /\ IF lins \subseteq disk /\ status = "run" THEN Spend(1) ELSE UNCHANGED spent
  /\ bgError' = TRUE /\ UNCHANGED current /\ LevelEnd(FALSE)
  /\ UNCHANGED <<status, data, lvl, mem, imm, logNum, nextFile, journal, flusher, held,
                 backup, redoing, broken, lost, unlogged>>

LevelExit ==
  /\ status = "closing" /\ lpc \in {"check", "asleep"} /\ lpc' = "gone"
  /\ threads' = threads - 1
  /\ UNCHANGED <<status, disks, memory, journal, flusher, lman, lout, lbase, lins, ltodo,
                 louts, lfrom, calls, held, backup, redoing, history, spent>>

-----------------------------------------------------------------------------
(* Readers hold a version; a live backup stops deletions, then takes       *)
(* bg_log_occupied_ and links the live tables.                             *)

ReaderRef(r) ==
  /\ status = "run" /\ Spend(1) /\ held[r] = {} /\ current # {}
  /\ held' = [held EXCEPT ![r] = current]
  /\ UNCHANGED <<status, threads, disks, memory, journal, flusher, leveler, calls,
                 backup, redoing, history>>

ReaderUnref(r) ==
  /\ status = "run" /\ held[r] # {}
  /\ held' = [held EXCEPT ![r] = {}]
  /\ UNCHANGED <<status, threads, disks, memory, journal, flusher, leveler, calls,
                 backup, redoing, history, spent>>

BackupStart ==
  /\ status = "run" /\ Spend(1) /\ bpc = "off" /\ bpc' = "on"
  /\ UNCHANGED <<status, threads, disks, memory, journal, flusher, leveler, calls,
                 held, blive, redoing, history>>

\* BackupList that does not wait for bg_log_occupied_.
BackupListAtOnce ==
  /\ status = "run" /\ bpc = "on" /\ bpc' = "link"
  /\ UNCHANGED occupied
  /\ blive' = LiveFiles
  /\ UNCHANGED <<status, threads, disks, memory, rec, manifest, hidden, flusher,
                 leveler, calls, held, redoing, history, spent>>

BackupList ==
  /\ status = "run" /\ bpc = "on" /\ bpc' = "link"
  /\ occupied = "none" /\ occupied' = "backup"
  /\ blive' = LiveFiles
  /\ UNCHANGED <<status, threads, disks, memory, rec, manifest, hidden, flusher,
                 leveler, calls, held, redoing, history, spent>>

BackupFinish ==
  /\ status = "run" /\ bpc = "link" /\ bpc' = "off" /\ blive' = {}
  /\ occupied' = "none"
  /\ UNCHANGED <<status, threads, disks, memory, rec, manifest, hidden, flusher,
                 leveler, calls, held, redoing, history, spent>>

-----------------------------------------------------------------------------
(* The end of the process: by a crash, by the assertion on num_bg_threads_ *)
(* or the null manual compaction, or by closing the database.  A record    *)
(* that was being written may be readable afterwards.                      *)

Stop ==
  /\ status' = "down" /\ threads' = 0
  /\ current' = {} /\ pending' = {} /\ imm' = 0 /\ bgError' = FALSE
  /\ occupied' = "none" /\ rec' = NoEdit /\ hidden' = FALSE
  /\ manifest' \in {manifest} \cup
       IF occupied \in {"flush", "level"} THEN {Apply(manifest, rec)} ELSE {}
  /\ fpc' = "idle" /\ fbase' = {} /\ fnew' = 0 /\ fadd' = {} /\ fnums' = {}
  /\ lpc' = "check" /\ lman' = FALSE /\ lout' = 0 /\ lfrom' = 0
  /\ lbase' = {} /\ lins' = {} /\ ltodo' = {} /\ louts' = {}
  /\ manual' = None /\ cpc' = [c \in Callers |-> "out"]
  /\ cdone' = [c \in Callers |-> FALSE]
  /\ held' = [r \in Readers |-> {}]
  /\ bpc' = "off" /\ blive' = {} /\ redo' = {} /\ redoOK' = TRUE /\ redoBad' = {}
  /\ clobbered' = FALSE
  /\ UNCHANGED <<disks, mem, logNum, nextFile, broken, lost, unlogged>>

Crash ==
  /\ status \in {"run", "closing", "replay"} /\ Spend(1) /\ Stop

LevelNull ==
  /\ Up /\ lpc \in {"merge", "log"} /\ lman /\ manual = None
  /\ Stop /\ UNCHANGED spent

LevelAssert ==
  /\ status = "run" /\ lpc = "check" /\ manual # None /\ threads # 2
  /\ Stop /\ UNCHANGED spent

\* ~DBImpl, called when no operation is going on.
Close ==
  /\ status = "run" /\ Spend(1)
  /\ \A c \in Callers : cpc[c] = "out"
  /\ \A r \in Readers : held[r] = {}
  /\ bpc = "off" /\ status' = "closing"
  /\ UNCHANGED <<threads, disks, memory, journal, flusher, leveler, calls, held, backup,
                 redoing, history>>

\* CloseDone that does not wait.
CloseDoneAtOnce ==
  /\ status = "closing"
  /\ IF fpc = "gone" /\ lpc = "gone"
     THEN Stop /\ UNCHANGED spent
     ELSE /\ status' = "closed"
          /\ UNCHANGED <<threads, disks, memory, journal, flusher, leveler, calls, held,
                         backup, redoing, history, spent>>

\* It waits for num_bg_threads_ and then frees what the threads use.
CloseDone ==
  /\ status = "closing" /\ threads <= 0
  /\ IF fpc = "gone" /\ lpc = "gone"
     THEN Stop /\ UNCHANGED spent
     ELSE /\ status' = "closed"
          /\ UNCHANGED <<threads, disks, memory, journal, flusher, leveler, calls, held,
                         backup, redoing, history, spent>>

-----------------------------------------------------------------------------
(* DB::Open: VersionSet::Recover reads the MANIFEST, the logs from its log *)
(* number on are replayed into level-0 tables, and an edit with them and a *)
(* new log goes to a new MANIFEST.                                         *)

\* Recover that does not restore the log number.
RecoverNoLog ==
  /\ status = "down"
  /\ IF manifest.files \subseteq disk \cup {l.num : l \in logs}
     THEN /\ manifest.next < MaxFile
          /\ status' = "replay" /\ nextFile' = manifest.next + 1
          /\ current' = manifest.files /\ logNum' = 0
          /\ redo' = {l \in logs : l.num >= manifest.log}
     ELSE status' = "missing" /\ UNCHANGED <<nextFile, current, logNum, redo>>
  /\ UNCHANGED <<threads, disks, mem, imm, pending, bgError, journal, flusher, leveler,
                 calls, held, backup, redoOK, redoBad, history, spent>>

\* Recover that counts on from the log number.
RecoverReuses ==
  /\ status = "down"
  /\ IF manifest.files \subseteq disk \cup {l.num : l \in logs}
     THEN /\ manifest.next < MaxFile
          /\ status' = "replay" /\ nextFile' = manifest.log + 1
          /\ current' = manifest.files /\ logNum' = manifest.log
          /\ redo' = {l \in logs : l.num >= manifest.log}
     ELSE status' = "missing" /\ UNCHANGED <<nextFile, current, logNum, redo>>
  /\ UNCHANGED <<threads, disks, mem, imm, pending, bgError, journal, flusher, leveler,
                 calls, held, backup, redoOK, redoBad, history, spent>>

\* A table is missed only when no file of any type has its number.
Recover ==
  /\ status = "down"
  /\ IF manifest.files \subseteq disk \cup {l.num : l \in logs}
     THEN /\ manifest.next < MaxFile
          /\ status' = "replay" /\ nextFile' = manifest.next + 1
          /\ current' = manifest.files /\ logNum' = manifest.log
          /\ redo' = {l \in logs : l.num >= manifest.log}
     ELSE status' = "missing" /\ UNCHANGED <<nextFile, current, logNum, redo>>
  /\ UNCHANGED <<threads, disks, mem, imm, pending, bgError, journal, flusher, leveler,
                 calls, held, backup, redoOK, redoBad, history, spent>>

\* RecoverLogFile for the oldest log.  The status of the last log is kept.
ReplayLog ==
  /\ status = "replay" /\ nextFile + LastGuard < MaxFile
  /\ \E l \in redo, cut \in 0..(LastGuard + 1), fate \in Fates :
       LET nums == Numbers(l.gen, nextFile, cut, fate)
           good == BuildOK(l.gen, cut, fate)
       IN /\ \A k \in redo : l.num <= k.num
          /\ cut \in Contents[l.gen] \cup {LastGuard + 1}
          /\ Possible(l.gen, cut, fate)
          /\ BuildLevel0Tables(l.gen, nextFile, cut, fate)
          /\ redo' = redo \ {l} /\ redoOK' = good
          /\ redoBad' = IF good THEN redoBad ELSE redoBad \cup {l.gen}
          /\ fadd' = IF good THEN fadd \cup MetaList(l.gen, nextFile, cut, fate)
                     ELSE fadd
          /\ pending' = (pending \cup nextFile..(nextFile + LastGuard)) \ nums
          /\ nextFile' = IF nextFile + LastGuard < l.num THEN l.num + 1
                         ELSE nextFile + LastGuard + 1
  /\ UNCHANGED <<status, threads, logs, mem, imm, current, logNum, bgError, journal,
                 fpc, fbase, fnew, fnums, leveler, calls, held, backup, unlogged,
                 clobbered>>

\* The edit is in the new MANIFEST, CURRENT names it, obsolete files go.
OpenDB ==
  /\ status = "replay" /\ redo = {} /\ redoOK
  /\ mem + 1 \in Gens /\ nextFile < MaxFile
  /\ current' = current \cup fadd /\ logNum' = nextFile /\ nextFile' = nextFile + 1
  /\ manifest' = [files |-> current', next |-> nextFile', log |-> nextFile]
  /\ disk' = disk \cap (pending \cup current')
  /\ logs' = {[num |-> nextFile, gen |-> mem + 1]}
  /\ mem' = mem + 1 /\ status' = "run" /\ threads' = 2
  /\ pending' = {} /\ fadd' = {} /\ redoBad' = {}
  /\ lost' = lost \cup {x \in Piece : x[1] \in redoBad /\ x[2] \in Contents[x[1]]}
  /\ UNCHANGED <<data, lvl, imm, bgError, occupied, rec, hidden, fpc, fbase, fnew, fnums,
                 leveler, calls, held, backup, redo, redoOK, broken, unlogged, clobbered,
                 spent>>

\* The last log could not be replayed or the MANIFEST not be written.
OpenFails ==
  /\ status = "replay" /\ redo = {}
  /\ IF redoOK THEN Spend(1) ELSE UNCHANGED spent
  /\ status' = "down" /\ current' = {} /\ pending' = {} /\ fadd' = {}
  /\ redoOK' = TRUE /\ redoBad' = {}
  /\ UNCHANGED <<threads, disks, mem, imm, logNum, nextFile, bgError, journal, fpc, fbase,
                 fnew, fnums, leveler, calls, held, backup, redo, history>>

-----------------------------------------------------------------------------
FlushStep == FlushStart \/ FlushBuild \/ FlushLog \/ FlushRecord \/ FlushExit

LevelStep ==
  LevelPick \/ LevelManual \/ LevelSleep \/ LevelOutput \/ LevelLog
    \/ LevelRecord \/ LevelFail \/ LevelNull \/ LevelAssert \/ LevelExit

OpenStep == Recover \/ ReplayLog \/ OpenDB \/ OpenFails

Next ==
  \/ SwitchMemTable \/ FlushStep \/ LevelStep \/ OpenStep
  \/ Crash \/ Close \/ CloseDone
  \/ \E c \in Callers : CallerEnter(c) \/ CallerLoop(c)
  \/ \E r \in Readers : ReaderRef(r) \/ ReaderUnref(r)
  \/ BackupStart \/ BackupList \/ BackupFinish

Spec == Init /\ [][Next]_vars

(***************************************************************************)
(* Fairness: the threads go on running (bg_log_occupied_ is waited for     *)
(* with a condition variable that every holder signals).  Nothing is       *)
(* assumed of writers, readers, errors, crashes or of opening and closing. *)
(***************************************************************************)
FairSpec ==
  /\ Spec
  /\ WF_vars(FlushStep) /\ WF_vars(LevelStep)
  /\ WF_vars(BackupList) /\ WF_vars(BackupFinish)
  /\ \A c \in Callers : WF_vars(CallerLoop(c))

-----------------------------------------------------------------------------
(* Properties.                                                             *)

\* No reader, compaction, flush or backup misses a table of the version it
\* holds (DeleteObsoleteFiles, pending_outputs_, AddLiveFiles, Ref), except
\* the ones FinishFileCompletion deleted after their metadata was kept.
FilesExist ==
  /\ Up => LiveFiles \ broken \subseteq disk
  /\ bpc = "link" => blive \ broken \subseteq disk

\* Whenever the process stops, the next DB::Open finds every table the
\* MANIFEST names (no "missing files" from DBImpl::Recover), again except
\* the tables FinishFileCompletion deleted.  After a failed MANIFEST write
\* this rests on DeleteObsoleteFiles doing nothing once bg_error_ is set.
ManifestFilesExist == manifest.files \ broken \subseteq disk

\* The data of every memtable so far can be recovered: from its log, which
\* is replayed, or from a table the MANIFEST names.  The code gives up data
\* in two places: the status of BuildLevel0Tables or of RecoverLogFile is
\* overwritten by a later success (lost), or the flush's record lies behind
\* a gap of the MANIFEST and a later record, readable again, carries the new
\* log number (unlogged).
DataRecoverable ==
  \A g \in Gens, p \in Parts :
    g <= mem /\ p \in Contents[g] =>
      \/ \E l \in logs : l.gen = g /\ l.num >= manifest.log
      \/ <<g, p>> \in DataOf(manifest.files)
      \/ <<g, p>> \in lost \/ g \in unlogged

\* The same data can be read from the memtables and the current version: a
\* compaction or a flush never uninstalls data (LogAndApply, Builder).
DataReadable ==
  Up => \A g \in Gens, p \in Parts :
    g < mem /\ p \in Contents[g] =>
      g = imm \/ <<g, p>> \in DataOf(current) \cup lost \/ g \in unlogged

\* A table that a version or the MANIFEST names is never written again: file
\* numbers are not reused, across crashes too (NewFileNumber, SetNextFile,
\* MarkFileNumberUsed).
TablesImmutable ==
  [][\A n \in manifest.files \cup LiveFiles :
       data'[n] = data[n] /\ lvl'[n] = lvl[n]]_vars

\* What LiveBackup copies opens: every table of the copied MANIFEST is linked
\* (bg_log_occupied_ keeps the version and the MANIFEST together), unless a
\* background error left a record in the MANIFEST that was not installed.
BackupOpens == bpc = "link" /\ ~bgError => manifest.files \subseteq blive

\* "Wait for background work to finish" (~DBImpl): the database is freed only
\* when both threads have ended, unless a compaction of the last level has
\* written behind levels_locked_ into num_bg_threads_.
CloseWaits == status = "closed" => clobbered

\* The manual compaction the level thread works on stays installed until the
\* thread takes it out (BackgroundCompactionGuards reads it again at its
\* end), unless a background error lets the caller cancel it.
ManualKept ==
  lman /\ lpc \in {"merge", "log"} => manual # None \/ bgError

\* Every TEST_CompactRange returns: its compaction is run until nothing is
\* left, or an error or the end of the process ends the wait.
ManualReturns == \A c \in Callers : cpc[c] # "out" ~> cpc[c] = "out"
====
