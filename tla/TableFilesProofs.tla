-------------------------- MODULE TableFilesProofs --------------------------
(***************************************************************************)
(* No table that is needed is ever deleted and no data is lost: proofs     *)
(* about TableFiles, for any number of readers, callers, generations,      *)
(* guards, levels and errors.                                              *)
(***************************************************************************)
EXTENDS TableFiles, FiniteSetTheorems, TLAPS

\* The numbers a flush has reserved.
Reserved == fnew..(fnew + LastGuard)

Flushing == fpc \in {"build", "wait", "log"}
Merging  == lpc \in {"merge", "log"}
Opened   == Up \/ status = "replay"

Below(S, n) == \A x \in S : x \in Number /\ x < n

\* Types that the argument uses.
Shape ==
  /\ status \in {"run", "closing", "closed", "down", "replay", "missing"}
  /\ nextFile \in Nat \ {0} /\ manifest.next \in Nat /\ rec.next \in Nat
  /\ mem \in Gens /\ imm \in Gens \cup {0}
  /\ \A l \in logs \cup redo : l.gen \in Gens /\ l.num \in Nat
  /\ DOMAIN data = Number /\ DOMAIN lvl = Number /\ DOMAIN held = Readers
  /\ fpc \in {"idle", "build", "wait", "log", "gone"}
  /\ lpc \in {"check", "asleep", "merge", "log", "gone"}
  /\ bpc \in {"off", "on", "link"} /\ bgError \in BOOLEAN /\ hidden \in BOOLEAN

\* Nothing is held while the database is not open.
Rest ==
  status \in {"down", "replay", "missing"} =>
    /\ fpc = "idle" /\ lpc = "check" /\ bpc = "off" /\ occupied = "none"
    /\ HeldFiles = {} /\ ~bgError /\ ~hidden
    /\ status # "replay" => current = {} /\ fadd = {}

\* Whose turn it is to write the MANIFEST, and what the threads hold.
Turns ==
  /\ fpc = "log" <=> occupied = "flush"
  /\ lpc = "log" <=> occupied = "level"
  /\ bpc = "link" <=> occupied = "backup"
  /\ bpc # "off" => status = "run"
  /\ bpc # "link" => blive = {}
  /\ fpc = "log" => rec.add = fadd /\ rec.del = {}
  /\ lpc = "log" => rec.add = louts /\ rec.del = lins
  /\ fpc # "build" => fbase = {}
  /\ fpc \notin {"wait", "log"} /\ status # "replay" => fadd = {}
  /\ ~Merging => lbase = {} /\ lins = {} /\ louts = {}
  /\ lins \subseteq lbase

\* Numbers in use are below the next one, in memory and in the MANIFEST.
InUse == LiveFiles \cup louts \cup fadd \cup manifest.files \cup blive

Numbered ==
  /\ Below(manifest.files, manifest.next)
  /\ Opened => Below(InUse, nextFile) /\ manifest.next <= nextFile
  /\ occupied \in {"flush", "level"} =>
       Below(rec.add, rec.next) /\ manifest.next <= rec.next /\ rec.next <= nextFile

\* A flush has its numbers for itself.
Reservation ==
  Flushing =>
    /\ fnew \in Nat \ {0} /\ imm \in Gens
    /\ fnew + LastGuard < nextFile /\ fnew + LastGuard <= MaxFile
    /\ fadd \subseteq Reserved /\ Reserved \cap louts = {}
    /\ fpc # "build" => fnums \subseteq Reserved
    /\ fpc = "build" => /\ Reserved \subseteq pending
                        /\ Reserved \cap (LiveFiles \cup manifest.files \cup blive) = {}
    /\ fadd \subseteq pending

\* What is named exists.
Exists ==
  /\ manifest.files \ broken \subseteq disk
  /\ Opened => (LiveFiles \cup louts \cup fadd \cup blive) \ broken \subseteq disk
  /\ louts \subseteq pending

\* Without an error the MANIFEST and the current version agree.
Synced ==
  /\ Opened /\ ~bgError => ~hidden /\ manifest.files = current
  /\ bpc = "link" /\ ~bgError => manifest.files \subseteq blive

FilesInv ==
  Shape /\ Rest /\ Turns /\ Numbered /\ Reservation /\ Exists /\ Synced

\* The counter of threads is right until it is overwritten.
ThreadsInv ==
  /\ Up /\ ~clobbered =>
       threads = (IF fpc = "gone" THEN 0 ELSE 1) + (IF lpc = "gone" THEN 0 ELSE 1)
  /\ CloseWaits

\* An installed manual compaction is not done.
ManualInv ==
  /\ manual # None => manual \in Callers /\ ~cdone[manual]
  /\ DOMAIN cdone = Callers
  /\ ManualKept

-----------------------------------------------------------------------------
(* The tables of a build.                                                  *)

\* A part's table gets one of the reserved numbers.
LEMMA TableRange ==
  ASSUME NEW g \in Gens, NEW r \in Nat, NEW p \in Parts
  PROVE  TableNo(g, r, p) \in r..(r + LastGuard)
<1> DEFINE S == {q \in Contents[g] : q < p}
<1>1. S \subseteq 0..(p - 1)
  BY TableFilesAssumption DEF Parts
<1>2. IsFiniteSet(0..(p - 1)) /\ Cardinality(0..(p - 1)) = p
  BY FS_Interval, TableFilesAssumption DEF Parts
<1>3. Cardinality(S) \in Nat /\ Cardinality(S) <= p
  BY Zenon, <1>1, <1>2, FS_Subset, FS_CardinalityType
<1> QED BY <1>3, TableFilesAssumption DEF TableNo, Parts

\* So do all numbers a build uses or gives back.
LEMMA BuildRange ==
  ASSUME NEW g \in Gens, NEW r \in Nat, NEW cut \in 0..(LastGuard + 1), NEW fate \in Fates
  PROVE  /\ {TableNo(g, r, p) : p \in Made(g, cut)} \subseteq r..(r + LastGuard)
         /\ Written(g, r, cut, fate) \subseteq r..(r + LastGuard)
         /\ MetaList(g, r, cut, fate) \subseteq r..(r + LastGuard)
         /\ Numbers(g, r, cut, fate) \subseteq r..(r + LastGuard)
<1>1. Made(g, cut) \subseteq Parts
  BY Zenon, TableFilesAssumption DEF Made
<1>2. {TableNo(g, r, p) : p \in Made(g, cut)} \subseteq r..(r + LastGuard)
  BY Zenon, <1>1, TableRange
<1>3. Written(g, r, cut, fate) \subseteq r..(r + LastGuard)
  BY Zenon, <1>1, TableRange DEF Written
<1>4. MetaList(g, r, cut, fate) \subseteq r..(r + LastGuard)
  BY Zenon, <1>1, TableRange DEF MetaList
<1>5. Cardinality(MetaList(g, r, cut, fate)) \in Nat
  <2>1. r \in Int /\ r + LastGuard \in Int
    BY TableFilesAssumption
  <2>2. IsFiniteSet(r..(r + LastGuard))
    BY Zenon, <2>1, FS_Interval
  <2> QED BY Zenon, <1>4, <2>2, FS_Subset, FS_CardinalityType
<1>6. Numbers(g, r, cut, fate) \subseteq r..(r + LastGuard)
  BY <1>4, <1>5, TableFilesAssumption DEF Numbers
<1> QED BY Zenon, <1>2, <1>3, <1>4, <1>6

\* A build changes nothing outside its numbers, and what it lists exists
\* unless it is broken.
LEMMA BuildEffect ==
  ASSUME NEW g \in Gens, NEW r \in Nat, NEW cut \in 0..(LastGuard + 1), NEW fate \in Fates,
         BuildLevel0Tables(g, r, cut, fate)
  PROVE  /\ \A n : n \notin r..(r + LastGuard) =>
              /\ n \in disk => n \in disk'
              /\ n \in broken' => n \in broken
              /\ n \in broken => n \in broken'
         /\ \A n \in Number : n \notin r..(r + LastGuard) =>
              data'[n] = data[n] /\ lvl'[n] = lvl[n]
         /\ MetaList(g, r, cut, fate) \ broken' \subseteq disk'
         /\ DOMAIN data' = Number /\ DOMAIN lvl' = Number
<1> DEFINE nums == {TableNo(g, r, p) : p \in Made(g, cut)}
<1>1. nums \subseteq r..(r + LastGuard) /\ Written(g, r, cut, fate) \subseteq r..(r + LastGuard)
      /\ MetaList(g, r, cut, fate) \subseteq r..(r + LastGuard)
  BY Zenon, BuildRange
<1>2. disk' = (disk \ nums) \cup Written(g, r, cut, fate)
  BY Zenon DEF BuildLevel0Tables
<1>3. broken' = (broken \ nums) \cup (MetaList(g, r, cut, fate) \ Written(g, r, cut, fate))
  BY Zenon DEF BuildLevel0Tables
<1>4. \A n \in Number : n \notin nums => data'[n] = data[n] /\ lvl'[n] = lvl[n]
  BY Zenon DEF BuildLevel0Tables
<1>5. DOMAIN data' = Number /\ DOMAIN lvl' = Number
  BY Zenon DEF BuildLevel0Tables
<1> HIDE DEF nums
<1> QED BY Zenon, <1>1, <1>2, <1>3, <1>4, <1>5

-----------------------------------------------------------------------------
(* Kinds of steps.                                                         *)

\* Steps that touch no file and no version.
Quiet ==
  /\ UNCHANGED <<disks, memory, journal, fbase, fnew, fadd, fnums, lbase, lins, louts,
                 ltodo, held, backup, redo, redoBad, broken, lost, unlogged>>
  /\ fpc' = fpc \/ (fpc = "idle" /\ fpc' = "gone")
  /\ lpc' = lpc \/ (lpc \in {"check", "asleep"} /\ lpc' \in {"check", "asleep", "gone"} /\ Up)
  /\ fpc' # fpc => Up
  /\ \/ status' = status
     \/ Up /\ bpc = "off" /\ status' \in {"closing", "closed"}

\* A compaction begins.
Merges ==
  /\ status = "run" /\ lpc = "check" /\ lpc' = "merge"
  /\ lbase' = current /\ louts' = {} /\ lins' \subseteq current /\ ltodo' = DataOf(lins')
  /\ UNCHANGED <<status, disks, memory, journal, flusher, held, backup, redo, redoBad,
                 broken, lost, unlogged>>

\* The process ends.
Stopped ==
  /\ Opened /\ status' = "down" /\ current' = {} /\ imm' = 0 /\ bgError' = FALSE
  /\ occupied' = "none" /\ rec'.next = 1 /\ hidden' = FALSE
  /\ \/ manifest' = manifest
     \/ /\ occupied \in {"flush", "level"} /\ manifest'.next = rec.next
        /\ manifest'.files = (manifest.files \ rec.del) \cup rec.add
  /\ fpc' = "idle" /\ fbase' = {} /\ fadd' = {}
  /\ lpc' = "check" /\ lbase' = {} /\ lins' = {} /\ louts' = {}
  /\ held' = [r \in Readers |-> {}] /\ bpc' = "off" /\ blive' = {} /\ redo' = {}
  /\ UNCHANGED <<disks, mem, nextFile, broken>>

\* A build outside the mutex: what it does to the numbers R, and to no others.
Builds(R) ==
  /\ \A n : n \notin R =>
       /\ n \in disk => n \in disk'
       /\ n \in broken' => n \in broken
       /\ n \in broken => n \in broken'
  /\ \A n \in Number : n \notin R => data'[n] = data[n] /\ lvl'[n] = lvl[n]
  /\ DOMAIN data' = Number /\ DOMAIN lvl' = Number

Built ==
  /\ Up /\ fpc = "build" /\ fbase' = {} /\ Builds(Reserved)
  /\ \/ /\ fpc' = "wait" /\ pending' = pending /\ bgError' = bgError
        /\ fadd' \subseteq Reserved /\ fnums' \subseteq Reserved /\ fadd' \ broken' \subseteq disk'
     \/ /\ fpc' = "idle" /\ bgError' = TRUE /\ fadd' = fadd
        /\ pending \ Reserved \subseteq pending'
  /\ UNCHANGED <<status, logs, mem, imm, current, nextFile, journal, fnew, lpc, lbase, lins,
                 louts, held, backup, redo>>

Replayed ==
  /\ status = "replay" /\ nextFile + LastGuard < MaxFile
  /\ Builds(nextFile..(nextFile + LastGuard))
  /\ redo' \subseteq redo /\ nextFile' \in Nat /\ nextFile' > nextFile + LastGuard
  /\ fadd' \subseteq fadd \cup nextFile..(nextFile + LastGuard)
  /\ (fadd' \ fadd) \ broken' \subseteq disk'
  /\ pending \subseteq pending' \cup nextFile..(nextFile + LastGuard)
  /\ UNCHANGED <<status, logs, mem, imm, current, bgError, journal, fpc, fbase, fnew, lpc,
                 lbase, lins, louts, held, backup>>

\* The outcome of writing a record.
Recorded(ok) ==
  \/ /\ manifest'.files = (manifest.files \ rec.del) \cup rec.add
     /\ manifest'.next = rec.next /\ hidden' = FALSE
  \/ (hidden \/ ~ok) /\ manifest' = manifest /\ hidden' \in BOOLEAN

\* Obsolete files are deleted, or nothing is.
Collected(live) ==
  /\ logs' \subseteq logs
  /\ disk' = disk \/ (bpc = "off" /\ ~bgError' /\ disk' = disk \cap live)

Flushed(ok) ==
  /\ Up /\ fpc = "log" /\ fpc' = "idle" /\ occupied' = "none"
  /\ pending' = pending \ fnums /\ fadd' = {} /\ Recorded(ok)
  /\ Collected(pending' \cup current' \cup lbase \cup HeldFiles)
  /\ IF ok THEN current' = current \cup rec.add /\ imm' = 0 /\ bgError' = bgError
     ELSE current' = current /\ imm' = imm /\ bgError' = TRUE
  /\ lpc' = lpc \/ (lpc = "asleep" /\ lpc' = "check")
  /\ UNCHANGED <<status, data, lvl, mem, nextFile, rec, fbase, lbase, lins, louts, held,
                 backup, redo, broken>>

Merged(ok) ==
  /\ Up /\ Merging /\ lpc' = "check" /\ lbase' = {} /\ lins' = {} /\ louts' = {}
  /\ pending' = pending \ louts
  /\ Collected(pending' \cup current' \cup fbase \cup HeldFiles)
  /\ \/ lpc = "log" /\ Recorded(ok) /\ occupied' = "none"
     \/ lpc = "merge" /\ ~ok /\ UNCHANGED <<manifest, hidden, occupied>>
  /\ IF ok THEN current' = (current \ rec.del) \cup rec.add /\ bgError' = bgError
     ELSE current' = current /\ bgError' = TRUE
  /\ UNCHANGED <<status, data, lvl, mem, imm, nextFile, rec, flusher, held, backup, redo,
                 broken>>

Holding ==
  /\ status = "run" /\ DOMAIN held' = DOMAIN held /\ HeldFiles' \subseteq HeldFiles \cup current
  /\ UNCHANGED <<status, disks, memory, journal, flusher, leveler, backup, redo, redoBad,
                 broken, lost, unlogged>>

LEMMA RecordKind ==
  ASSUME NEW ok \in BOOLEAN, WriteRecord(ok), hidden \in BOOLEAN
  PROVE  Recorded(ok)
<1>1. CASE manifest' = Apply(manifest, rec) /\ hidden' = FALSE
  BY Zenon, <1>1 DEF Recorded, Apply
<1>2. CASE (hidden \/ ~ok) /\ UNCHANGED <<manifest, hidden>>
  BY Zenon, <1>2 DEF Recorded
<1>3. CASE ~ok /\ hidden' = TRUE /\ UNCHANGED manifest
  BY Zenon, <1>3 DEF Recorded
<1> QED BY Zenon, <1>1, <1>2, <1>3 DEF WriteRecord

LEMMA StopKind ==
  ASSUME Opened, Stop
  PROVE  Stopped
<1>1. \/ manifest' = manifest
      \/ occupied \in {"flush", "level"} /\ manifest' = Apply(manifest, rec)
  BY Zenon DEF Stop
<1>2. \/ manifest' = manifest
      \/ /\ occupied \in {"flush", "level"} /\ manifest'.next = rec.next
         /\ manifest'.files = (manifest.files \ rec.del) \cup rec.add
  BY <1>1 DEF Apply
<1> QED BY Zenon, <1>2 DEF Stop, Stopped, NoEdit

LEMMA FlushBuildKind ==
  ASSUME FilesInv, FlushBuild
  PROVE  Built
<1>1. imm \in Gens /\ fnew \in Nat
  BY Zenon DEF FilesInv, Reservation, Flushing, FlushBuild
<1>2. PICK cut \in 0..(LastGuard + 1), fate \in Fates :
        /\ BuildLevel0Tables(imm, fnew, cut, fate)
        /\ \/ /\ fpc' = "wait" /\ fnums' = Numbers(imm, fnew, cut, fate)
              /\ fadd' = MetaList(imm, fnew, cut, fate) /\ UNCHANGED <<pending, bgError>>
           \/ /\ fpc' = "idle" /\ pending' = pending \ Numbers(imm, fnew, cut, fate)
              /\ bgError' = TRUE /\ UNCHANGED <<fadd, fnums>>
  BY Zenon DEF FlushBuild
<1>3. /\ MetaList(imm, fnew, cut, fate) \subseteq Reserved
      /\ Numbers(imm, fnew, cut, fate) \subseteq Reserved
  BY Zenon, <1>1, BuildRange DEF Reserved
<1>4. Builds(Reserved) /\ MetaList(imm, fnew, cut, fate) \ broken' \subseteq disk'
  BY Zenon, <1>1, <1>2, BuildEffect DEF Builds, Reserved
<1>5. /\ Up /\ fpc = "build" /\ fbase' = {}
      /\ UNCHANGED <<status, logs, mem, imm, current, nextFile, journal, fnew, lpc, lbase,
                     lins, louts, held, backup, redo>>
  BY Zenon DEF FlushBuild, leveler, redoing
<1> QED BY Zenon, <1>2, <1>3, <1>4, <1>5 DEF Built

LEMMA ReplayKind ==
  ASSUME FilesInv, ReplayLog
  PROVE  Replayed
<1> DEFINE R == nextFile..(nextFile + LastGuard)
<1>1. PICK l \in redo, cut \in 0..(LastGuard + 1), fate \in Fates :
        /\ BuildLevel0Tables(l.gen, nextFile, cut, fate)
        /\ redo' = redo \ {l}
        /\ \/ fadd' = fadd \cup MetaList(l.gen, nextFile, cut, fate)
           \/ fadd' = fadd
        /\ pending' = (pending \cup R) \ Numbers(l.gen, nextFile, cut, fate)
        /\ nextFile' = IF nextFile + LastGuard < l.num THEN l.num + 1
                       ELSE nextFile + LastGuard + 1
  BY ZenonT(30) DEF ReplayLog
<1>2. l.gen \in Gens /\ l.num \in Nat /\ nextFile \in Nat
  BY Zenon DEF FilesInv, Shape
<1>3. MetaList(l.gen, nextFile, cut, fate) \subseteq R /\ Numbers(l.gen, nextFile, cut, fate) \subseteq R
  BY Zenon, <1>2, BuildRange
<1>4. Builds(R) /\ MetaList(l.gen, nextFile, cut, fate) \ broken' \subseteq disk'
  BY Zenon, <1>1, <1>2, BuildEffect DEF Builds
<1>5. nextFile' \in Nat /\ nextFile' > nextFile + LastGuard
  BY <1>1, <1>2, TableFilesAssumption
<1>6. /\ status = "replay" /\ nextFile + LastGuard < MaxFile
      /\ UNCHANGED <<status, logs, mem, imm, current, bgError, journal, fpc, fbase, fnew, lpc,
                     lbase, lins, louts, held, backup>>
  BY Zenon DEF ReplayLog, leveler
<1>7. redo' \subseteq redo /\ fadd' \subseteq fadd \cup R /\ pending \subseteq pending' \cup R
      /\ (fadd' \ fadd) \ broken' \subseteq disk'
  BY Zenon, <1>1, <1>3, <1>4
<1> QED BY Zenon, <1>4, <1>5, <1>6, <1>7 DEF Replayed

LEMMA FlushRecordKind ==
  ASSUME FilesInv, FlushRecord
  PROVE  Flushed(TRUE) \/ Flushed(FALSE)
<1>1. /\ Up /\ fpc = "log" /\ fpc' = "idle" /\ occupied' = "none"
      /\ pending' = pending \ fnums /\ fadd' = {} /\ hidden \in BOOLEAN
      /\ UNCHANGED <<status, data, lvl, mem, nextFile, rec, fbase, lbase, lins, louts, held,
                     backup, redo, broken>>
  BY Zenon DEF FlushRecord, redoing, FilesInv, Shape
<1>2. CASE WriteRecord(TRUE) /\ bgError' = bgError
           /\ current' = current \cup rec.add /\ imm' = 0
           /\ lpc' = (IF lpc = "asleep" THEN "check" ELSE lpc)
           /\ DeleteObsoleteFiles(pending', current' \cup lbase \cup HeldFiles, logNum', bgError)
  <2>1. Collected(pending' \cup current' \cup lbase \cup HeldFiles)
    BY Zenon, <1>2 DEF DeleteObsoleteFiles, Collected
  <2>2. Recorded(TRUE)
    BY Zenon, <1>1, <1>2, RecordKind
  <2> QED BY Zenon, <1>1, <1>2, <2>1, <2>2 DEF Flushed
<1>3. CASE WriteRecord(FALSE) /\ bgError' = TRUE
           /\ UNCHANGED <<current, imm, lpc, disk, logs>>
  <2>1. Recorded(FALSE)
    BY Zenon, <1>1, <1>3, RecordKind
  <2> QED BY Zenon, <1>1, <1>3, <2>1 DEF Flushed, Collected
<1> QED BY Zenon, <1>2, <1>3 DEF FlushRecord

LEMMA LevelEndKind ==
  ASSUME FilesInv, LevelRecord \/ LevelFail
  PROVE  Merged(TRUE) \/ Merged(FALSE)
<1>1. /\ Up /\ Merging /\ hidden \in BOOLEAN
      /\ UNCHANGED <<status, data, lvl, mem, imm, nextFile, rec, flusher, held, backup, redo,
                     broken>>
  BY Zenon DEF LevelRecord, LevelFail, Merging, redoing, journal, FilesInv, Shape
<1>2. ASSUME NEW ok \in BOOLEAN, LevelEnd(ok)
      PROVE  /\ lpc' = "check" /\ lbase' = {} /\ lins' = {} /\ louts' = {}
             /\ pending' = pending \ louts
             /\ Collected(pending' \cup current' \cup fbase \cup HeldFiles)
  BY Zenon, <1>2 DEF LevelEnd, DeleteObsoleteFiles, Collected
<1>3. CASE lpc = "log" /\ occupied' = "none" /\ WriteRecord(TRUE)
           /\ current' = (current \ rec.del) \cup rec.add /\ bgError' = bgError /\ LevelEnd(TRUE)
  <2>1. Recorded(TRUE)
    BY Zenon, <1>1, <1>3, RecordKind
  <2> QED BY Zenon, <1>1, <1>2, <1>3, <2>1 DEF Merged
<1>4. CASE lpc = "log" /\ occupied' = "none" /\ WriteRecord(FALSE)
           /\ current' = current /\ bgError' = TRUE /\ LevelEnd(FALSE)
  <2>1. Recorded(FALSE)
    BY Zenon, <1>1, <1>4, RecordKind
  <2> QED BY Zenon, <1>1, <1>2, <1>4, <2>1 DEF Merged
<1>5. CASE lpc = "merge" /\ UNCHANGED journal /\ current' = current /\ bgError' = TRUE
           /\ LevelEnd(FALSE)
  BY Zenon, <1>1, <1>2, <1>5 DEF Merged, journal
<1> QED BY Zenon, <1>3, <1>4, <1>5 DEF LevelRecord, LevelFail

LEMMA ReaderKind ==
  ASSUME FilesInv, NEW r \in Readers, ReaderRef(r) \/ ReaderUnref(r)
  PROVE  Holding
<1>1. status = "run" /\ DOMAIN held = Readers
      /\ UNCHANGED <<status, disks, memory, journal, flusher, leveler, backup, redo, redoBad,
                     broken, lost, unlogged>>
  BY Zenon DEF ReaderRef, ReaderUnref, redoing, history, FilesInv, Shape
<1>2. held' = [held EXCEPT ![r] = current] \/ held' = [held EXCEPT ![r] = {}]
  BY Zenon DEF ReaderRef, ReaderUnref
<1>3. DOMAIN held' = DOMAIN held /\ \A x \in Readers : held'[x] \subseteq held[x] \cup current
  BY Zenon, <1>1, <1>2
<1>4. HeldFiles' \subseteq HeldFiles \cup current
  BY Zenon, <1>3 DEF HeldFiles
<1> QED BY Zenon, <1>1, <1>3, <1>4 DEF Holding

\* The steps that need a look of their own.
LEMMA Actions ==
  ASSUME FilesInv, [Next]_vars
  PROVE  \/ Quiet \/ (Opened /\ Stop) \/ Merges \/ SwitchMemTable
         \/ FlushStart \/ FlushBuild \/ FlushLog \/ FlushRecord
         \/ LevelOutput \/ LevelLog \/ LevelRecord \/ LevelFail
         \/ Recover \/ ReplayLog \/ OpenDB \/ OpenFails
         \/ (\E r \in Readers : ReaderRef(r) \/ ReaderUnref(r))
         \/ BackupStart \/ BackupList \/ BackupFinish
<1>1. UNCHANGED vars => Quiet
  BY Zenon DEF Quiet, vars, memory, journal, flusher, leveler, history, redoing, disks, backup
<1>2. FlushExit => Quiet
  BY Zenon DEF Quiet, FlushExit, Up, leveler, history, redoing, memory
<1>3. LevelSleep \/ LevelExit => Quiet
  BY Zenon DEF Quiet, LevelSleep, LevelExit, Up, flusher, history, redoing, memory
<1>4. Close \/ (status' = "closed" /\ CloseDone) => Quiet
  BY Zenon
     DEF Quiet, Close, CloseDone, Stop, Up, flusher, leveler, history, redoing, memory, FilesInv, Turns
<1>5. CloseDone => (Opened /\ Stop) \/ status' = "closed"
  BY Zenon DEF CloseDone, Opened, Up
<1>6. Crash \/ LevelNull \/ LevelAssert => Opened /\ Stop
  BY Zenon DEF Crash, LevelNull, LevelAssert, Opened, Up
<1>7. (\E c \in Callers : CallerEnter(c) \/ CallerLoop(c)) => Quiet
  BY Zenon DEF Quiet, CallerEnter, CallerLoop, Up, flusher, leveler, history, redoing, memory
<1>8. LevelPick => Merges
  <2> SUFFICES ASSUME LevelPick PROVE Merges
    BY Zenon
  <2>1. UNCHANGED <<status, disks, memory, journal, flusher, held, backup, redo, redoBad,
                    broken, lost, unlogged>>
        /\ status = "run" /\ lpc = "check"
    BY Zenon DEF LevelPick, redoing, history
  <2>2. \E man, from, out : \E ins \in SUBSET current : StartCompaction(man, from, out, ins)
    BY Zenon DEF LevelPick, FilesAt
  <2> QED BY Zenon, <2>1, <2>2 DEF Merges, StartCompaction
<1>9. LevelManual => Merges \/ Quiet
  <2> SUFFICES ASSUME LevelManual PROVE Merges \/ Quiet
    BY Zenon
  <2>1. UNCHANGED <<status, disks, memory, journal, flusher, held, backup, redo, redoBad,
                    broken, lost, unlogged>>
        /\ status = "run" /\ lpc = "check"
    BY Zenon DEF LevelManual, redoing, history
  <2>2. \/ \E man, from, out : \E ins \in SUBSET current : StartCompaction(man, from, out, ins)
        \/ UNCHANGED leveler
    BY Zenon DEF LevelManual, FilesAt
  <2> QED BY Zenon, <2>1, <2>2 DEF Merges, Quiet, StartCompaction, leveler, flusher
<1> QED
  BY Zenon, <1>1, <1>2, <1>3, <1>4, <1>5, <1>6, <1>7, <1>8, <1>9
     DEF Next, FlushStep, LevelStep, OpenStep

LEMMA Cases ==
  ASSUME FilesInv, [Next]_vars
  PROVE  \/ Quiet \/ Stopped \/ Merges \/ SwitchMemTable
         \/ FlushStart \/ Built \/ FlushLog \/ (\E ok \in BOOLEAN : Flushed(ok))
         \/ LevelOutput \/ LevelLog \/ (\E ok \in BOOLEAN : Merged(ok))
         \/ Recover \/ Replayed \/ OpenDB \/ OpenFails
         \/ Holding \/ BackupStart \/ BackupList \/ BackupFinish
BY Zenon, Actions, StopKind, FlushBuildKind, ReplayKind, FlushRecordKind, LevelEndKind, ReaderKind

-----------------------------------------------------------------------------
(* Every step keeps each part of the invariant.                            *)

\* Types.
LEMMA ShapeStep ==
  ASSUME FilesInv, [Next]_vars
  PROVE  Shape'
<1>n. /\ nextFile \in Nat /\ nextFile + 1 \in Nat \ {0} /\ manifest.next \in Nat
      /\ nextFile + LastGuard + 1 \in Nat \ {0} /\ manifest.next + 1 \in Nat \ {0}
      /\ rec.next \in Nat
  <2>1. nextFile \in Nat /\ manifest.next \in Nat /\ rec.next \in Nat
    BY Zenon DEF FilesInv, Shape
  <2>2. LastGuard \in Nat
    BY Zenon, TableFilesAssumption
  <2> QED BY <2>1, <2>2
<1>1. CASE Quiet
  <2>1. UNCHANGED <<nextFile, manifest, rec, mem, imm, logs, redo, data, lvl, held, bpc,
                    bgError, hidden>>
    BY Zenon, <1>1 DEF Quiet, disks, memory, journal, backup
  <2>2. /\ status' = status \/ status' \in {"closing", "closed"}
        /\ fpc' = fpc \/ fpc' = "gone"
        /\ lpc' = lpc \/ lpc' \in {"check", "asleep", "gone"}
    BY Zenon, <1>1 DEF Quiet
  <2>3. status' \in {"run", "closing", "closed", "down", "replay", "missing"}
    BY Zenon, <2>2 DEF FilesInv, Shape
  <2>4. /\ fpc' \in {"idle", "build", "wait", "log", "gone"}
        /\ lpc' \in {"check", "asleep", "merge", "log", "gone"}
    BY Zenon, <2>2 DEF FilesInv, Shape
  <2> QED BY Zenon, <2>1, <2>3, <2>4 DEF FilesInv, Shape
<1>2. CASE Stopped
  <2>1. manifest'.next \in Nat /\ rec'.next \in Nat
    <3>1. rec'.next = 1 /\ (manifest' = manifest \/ manifest'.next = rec.next)
      BY Zenon, <1>2 DEF Stopped
    <3> QED BY <1>n, <3>1
  <2>2. UNCHANGED <<nextFile, mem, logs, data, lvl>> /\ DOMAIN held' = Readers
    BY Zenon, <1>2 DEF Stopped, disks
  <2>3. /\ status' = "down" /\ imm' = 0 /\ redo' = {} /\ fpc' = "idle" /\ lpc' = "check"
        /\ bpc' = "off" /\ bgError' = FALSE /\ hidden' = FALSE
    BY Zenon, <1>2 DEF Stopped
  <2> QED BY Zenon, <2>1, <2>2, <2>3 DEF FilesInv, Shape
<1>3. CASE Merges
  BY Zenon, <1>3, TableFilesAssumption
     DEF FilesInv, Shape, Merges, disks, memory, journal, flusher, backup
<1>4. CASE SwitchMemTable
  <2>1. /\ nextFile' = nextFile + 1 /\ imm' = mem /\ mem' \in Gens
        /\ logs' = logs \cup {[num |-> nextFile, gen |-> mem']}
    BY Zenon, <1>4 DEF SwitchMemTable
  <2>2. UNCHANGED <<status, manifest, rec, hidden, data, lvl, held, fpc, lpc, bpc, bgError, redo>>
    BY Zenon, <1>4 DEF SwitchMemTable, journal, flusher, leveler, backup, redoing
  <2>3. \A l \in logs' : l \in logs \/ (l.gen \in Gens /\ l.num \in Nat)
    BY <1>n, <2>1
  <2> QED BY ZenonT(30), <1>n, <2>1, <2>2, <2>3 DEF FilesInv, Shape
<1>5. CASE FlushStart
  <2>1. fpc' = "build" /\ nextFile' = nextFile + LastGuard + 1
    BY Zenon, <1>5 DEF FlushStart
  <2>2. UNCHANGED <<status, manifest, rec, hidden, data, lvl, logs, mem, imm, held, lpc, bpc,
                    bgError, redo>>
    BY Zenon, <1>5 DEF FlushStart, disks, journal, leveler, backup, redoing
  <2> QED BY ZenonT(30), <1>n, <2>1, <2>2 DEF FilesInv, Shape
<1>6. CASE Built
  BY ZenonT(30), <1>6, TableFilesAssumption DEF FilesInv, Shape, Built, journal, backup, Builds
<1>7. CASE FlushLog
  <2>1. fpc' = "log" /\ rec'.next = nextFile
    BY <1>7 DEF FlushLog, BeginEdit
  <2>2. UNCHANGED <<status, nextFile, manifest, hidden, data, lvl, logs, mem, imm, held, lpc,
                    bpc, bgError, redo>>
    BY Zenon, <1>7 DEF FlushLog, disks, memory, leveler, backup, redoing
  <2> QED BY ZenonT(30), <1>n, <2>1, <2>2 DEF FilesInv, Shape
<1>8. CASE \E ok \in BOOLEAN : Flushed(ok)
  <2>1. UNCHANGED <<status, nextFile, rec, mem, redo, data, lvl, held, bpc>>
    BY Zenon, <1>8 DEF Flushed, backup
  <2>2. manifest'.next \in Nat /\ hidden' \in BOOLEAN
    BY Zenon, <1>8 DEF Flushed, Recorded, FilesInv, Shape
  <2>3. /\ fpc' = "idle" /\ logs' \subseteq logs
        /\ lpc' = lpc \/ lpc' = "check"
        /\ bgError' = bgError \/ bgError' = TRUE
        /\ imm' = imm \/ imm' = 0
    BY Zenon, <1>8 DEF Flushed, Collected
  <2> QED BY ZenonT(30), <2>1, <2>2, <2>3 DEF FilesInv, Shape
<1>9. CASE LevelOutput
  <2>1. nextFile' = nextFile + 1
    BY Zenon, <1>9 DEF LevelOutput
  <2>2. DOMAIN data' = DOMAIN data /\ DOMAIN lvl' = DOMAIN lvl
    BY Zenon, <1>9 DEF LevelOutput
  <2>3. UNCHANGED <<status, manifest, rec, hidden, logs, mem, imm, held, fpc, lpc, bpc, bgError,
                    redo>>
    BY Zenon, <1>9 DEF LevelOutput, journal, flusher, backup, redoing
  <2> QED BY <1>n, <2>1, <2>2, <2>3 DEF FilesInv, Shape
<1>10. CASE LevelLog
  BY Zenon, <1>10, TableFilesAssumption
     DEF FilesInv, Shape, LevelLog, BeginEdit, disks, memory, flusher, backup,
         redoing, history
<1>11. CASE \E ok \in BOOLEAN : Merged(ok)
  <2>1. PICK ok \in BOOLEAN : Merged(ok)
    BY Zenon, <1>11
  <2>2. manifest'.next \in Nat /\ hidden' \in BOOLEAN /\ bgError' \in BOOLEAN
    BY Zenon, <2>1 DEF FilesInv, Shape, Merged, Recorded
  <2>3. logs' \subseteq logs
    BY Zenon, <2>1 DEF Merged, Collected
  <2> QED BY Zenon, <2>1, <2>2, <2>3 DEF FilesInv, Shape, Merged, flusher, backup
<1>12. CASE Recover
  <2>1. /\ status' \in {"replay", "missing"}
        /\ nextFile' = manifest.next + 1 \/ nextFile' = nextFile
        /\ redo' \subseteq logs \/ redo' = redo
    BY Zenon, <1>12 DEF Recover
  <2>2. UNCHANGED <<manifest, rec, hidden, data, lvl, logs, mem, imm, held, fpc, lpc, bpc, bgError>>
    BY Zenon, <1>12 DEF Recover, disks, journal, flusher, leveler, backup
  <2>3. status' \in {"run", "closing", "closed", "down", "replay", "missing"}
    BY Zenon, <2>1
  <2>4. nextFile' \in Nat \ {0}
    BY Zenon, <1>n, <2>1 DEF FilesInv, Shape
  <2>5. \A l \in logs' \cup redo' : l.gen \in Gens /\ l.num \in Nat
    BY Zenon, <2>1, <2>2 DEF FilesInv, Shape
  <2> QED BY Zenon, <2>2, <2>3, <2>4, <2>5 DEF FilesInv, Shape
<1>13. CASE Replayed
  <2>1. /\ nextFile' \in Nat \ {0} /\ redo' \subseteq redo
        /\ DOMAIN data' = Number /\ DOMAIN lvl' = Number
    <3>1. /\ nextFile' \in Nat /\ nextFile' > nextFile + LastGuard /\ redo' \subseteq redo
          /\ DOMAIN data' = Number /\ DOMAIN lvl' = Number
      BY Zenon, <1>13 DEF Replayed, Builds
    <3> QED BY <1>n, <3>1, TableFilesAssumption
  <2>2. UNCHANGED <<status, manifest, rec, hidden, logs, mem, imm, held, fpc, lpc, bpc, bgError>>
    BY Zenon, <1>13 DEF Replayed, journal, backup
  <2>3. \A l \in logs' \cup redo' : l.gen \in Gens /\ l.num \in Nat
    BY Zenon, <2>1, <2>2 DEF FilesInv, Shape
  <2> QED BY ZenonT(30), <2>1, <2>2, <2>3 DEF FilesInv, Shape
<1>14. CASE OpenDB
  <2>1. /\ nextFile' = nextFile + 1 /\ mem' \in Gens /\ status' = "run"
        /\ logs' = {[num |-> nextFile, gen |-> mem']}
        /\ manifest' = [files |-> current', next |-> nextFile', log |-> nextFile]
    BY Zenon, <1>14 DEF OpenDB
  <2>2. UNCHANGED <<data, lvl, imm, bgError, rec, hidden, fpc, lpc, held, bpc, redo>>
    BY Zenon, <1>14 DEF OpenDB, leveler, backup
  <2>3. /\ \A l \in logs' : l.gen \in Gens /\ l.num \in Nat
        /\ manifest'.next \in Nat
    BY <1>n, <2>1
  <2> QED BY Zenon, <1>n, <2>1, <2>2, <2>3 DEF FilesInv, Shape
<1>15. CASE OpenFails
  BY Zenon, <1>15, TableFilesAssumption
     DEF FilesInv, Shape, OpenFails, disks, journal, leveler, backup, history
<1>16. CASE Holding
  BY Zenon, <1>16, TableFilesAssumption
     DEF FilesInv, Shape, Holding, disks, memory, journal, flusher, leveler, backup
<1>17. CASE BackupStart
  BY Zenon, <1>17, TableFilesAssumption
     DEF FilesInv, Shape, BackupStart, disks, memory, journal, flusher, leveler,
         redoing, history
<1>18. CASE BackupList
  BY Zenon, <1>18, TableFilesAssumption
     DEF FilesInv, Shape, BackupList, disks, memory, flusher, leveler, redoing,
         history
<1>19. CASE BackupFinish
  BY ZenonT(30), <1>19, TableFilesAssumption
     DEF FilesInv, Shape, BackupFinish, disks, memory, flusher, leveler, redoing,
         history
<1> QED
  BY ZenonT(30), Cases, <1>1, <1>2, <1>3, <1>4, <1>5, <1>6, <1>7, <1>8, <1>9,
     <1>10, <1>11, <1>12, <1>13, <1>14, <1>15, <1>16, <1>17, <1>18, <1>19

\* A step to another state than an open one leaves nothing behind.
LEMMA RestStep ==
  ASSUME FilesInv, [Next]_vars
  PROVE  Rest'
<1>h. held' = held => HeldFiles' = HeldFiles
  BY Zenon DEF HeldFiles
<1>1. CASE Quiet
  BY Zenon, <1>1, <1>h DEF FilesInv, Rest, Up, Quiet, disks, memory, journal, backup
<1>2. CASE Stopped
  <2>1. HeldFiles' = {}
    BY Zenon, <1>2 DEF Stopped, HeldFiles
  <2> QED BY Zenon, <1>2, <2>1 DEF Rest, Stopped
<1>3. CASE Merges
  BY Zenon, <1>3, <1>h
     DEF FilesInv, Rest, Up, Merges, disks, memory, journal, flusher, backup
<1>4. CASE SwitchMemTable
  BY Zenon, <1>4, <1>h
     DEF FilesInv, Rest, Up, SwitchMemTable, journal, flusher, leveler, backup,
         redoing, history
<1>5. CASE FlushStart
  BY Zenon, <1>5, <1>h
     DEF FilesInv, Rest, Up, FlushStart, disks, journal, leveler, backup, redoing,
         history
<1>6. CASE Built
  BY Zenon, <1>6, <1>h DEF FilesInv, Rest, Up, Built, journal, backup
<1>7. CASE FlushLog
  BY Zenon, <1>7, <1>h
     DEF FilesInv, Rest, Up, FlushLog, BeginEdit, disks, memory, leveler, backup,
         redoing, history
<1>8. CASE \E ok \in BOOLEAN : Flushed(ok)
  BY Zenon, <1>8, <1>h DEF FilesInv, Rest, Up, Flushed, backup
<1>9. CASE LevelOutput
  BY Zenon, <1>9, <1>h DEF FilesInv, Rest, Up, LevelOutput, journal, flusher, backup, redoing
<1>10. CASE LevelLog
  BY Zenon, <1>10, <1>h
     DEF FilesInv, Rest, Up, LevelLog, BeginEdit, disks, memory, flusher, backup,
         redoing, history
<1>11. CASE \E ok \in BOOLEAN : Merged(ok)
  BY Zenon, <1>11, <1>h DEF FilesInv, Rest, Up, Merged, flusher, backup
<1>12. CASE Recover
  BY Zenon, <1>12, <1>h
     DEF FilesInv, Rest, Up, Recover, disks, journal, flusher, leveler, backup,
         history
<1>13. CASE Replayed
  BY Zenon, <1>13, <1>h DEF FilesInv, Rest, Up, Replayed, journal, backup
<1>14. CASE OpenDB
  BY Zenon, <1>14, <1>h DEF FilesInv, Rest, Up, OpenDB, leveler, backup
<1>15. CASE OpenFails
  BY Zenon, <1>15, <1>h
     DEF FilesInv, Rest, Up, OpenFails, disks, journal, leveler, backup, history
<1>16. CASE Holding
  BY Zenon, <1>16, <1>h
     DEF FilesInv, Rest, Up, Holding, disks, memory, journal, flusher, leveler, backup
<1>17. CASE BackupStart
  BY Zenon, <1>17, <1>h
     DEF FilesInv, Rest, Up, BackupStart, disks, memory, journal, flusher, leveler,
         redoing, history
<1>18. CASE BackupList
  BY Zenon, <1>18, <1>h
     DEF FilesInv, Rest, Up, BackupList, disks, memory, flusher, leveler, redoing,
         history
<1>19. CASE BackupFinish
  BY ZenonT(30), <1>19, <1>h
     DEF FilesInv, Rest, Up, BackupFinish, disks, memory, flusher, leveler, redoing,
         history
<1> QED
  BY Zenon, Cases, <1>1, <1>2, <1>3, <1>4, <1>5, <1>6, <1>7, <1>8, <1>9,
     <1>10, <1>11, <1>12, <1>13, <1>14, <1>15, <1>16, <1>17, <1>18, <1>19

\* Turns at the MANIFEST.
LEMMA TurnsStep ==
  ASSUME FilesInv, [Next]_vars
  PROVE  Turns'
<1>1. CASE Quiet
  BY Zenon, <1>1
     DEF FilesInv, Rest, Turns, Shape, Up, Flushing, Merging, Quiet, disks, memory,
         journal, backup
<1>2. CASE Stopped
  BY Zenon, <1>2 DEF FilesInv, Rest, Turns, Shape, Up, Flushing, Merging, Stopped, disks
<1>3. CASE Merges
  BY Zenon, <1>3
     DEF FilesInv, Rest, Turns, Shape, Up, Flushing, Merging, Merges, disks, memory,
         journal, flusher, backup
<1>4. CASE SwitchMemTable
  BY Zenon, <1>4
     DEF FilesInv, Rest, Turns, Shape, Up, Flushing, Merging, SwitchMemTable, journal,
         flusher, leveler, backup, redoing, history
<1>5. CASE FlushStart
  BY Zenon, <1>5
     DEF FilesInv, Rest, Turns, Shape, Up, Flushing, Merging, FlushStart, disks,
         journal, leveler, backup, redoing, history
<1>6. CASE Built
  BY Zenon, <1>6
     DEF FilesInv, Rest, Turns, Shape, Up, Flushing, Merging, Built, journal, backup
<1>7. CASE FlushLog
  <2>1. /\ fpc = "wait" /\ occupied = "none"
        /\ fpc' = "log" /\ occupied' = "flush" /\ rec'.add = fadd /\ rec'.del = {}
    BY <1>7 DEF FlushLog, BeginEdit, Up
  <2>2. UNCHANGED <<lpc, bpc, status, blive, fadd, fbase, lbase, lins, louts>>
    BY Zenon, <1>7 DEF FlushLog, disks, memory, leveler, backup, redoing, history
  <2> QED BY Zenon, <2>1, <2>2 DEF FilesInv, Turns, Merging
<1>8. CASE \E ok \in BOOLEAN : Flushed(ok)
  BY Zenon, <1>8 DEF FilesInv, Rest, Turns, Shape, Up, Flushing, Merging, Flushed, backup
<1>9. CASE LevelOutput
  BY Zenon, <1>9
     DEF FilesInv, Rest, Turns, Shape, Up, Flushing, Merging, LevelOutput, journal,
         flusher, backup, redoing
<1>10. CASE LevelLog
  BY Zenon, <1>10
     DEF FilesInv, Rest, Turns, Shape, Up, Flushing, Merging, LevelLog, BeginEdit,
         disks, memory, flusher, backup, redoing, history
<1>11. CASE \E ok \in BOOLEAN : Merged(ok)
  BY Zenon, <1>11
     DEF FilesInv, Rest, Turns, Shape, Up, Flushing, Merging, Merged, flusher, backup
<1>12. CASE Recover
  BY Zenon, <1>12
     DEF FilesInv, Rest, Turns, Shape, Up, Flushing, Merging, Recover, disks, journal,
         flusher, leveler, backup, history
<1>13. CASE Replayed
  BY Zenon, <1>13
     DEF FilesInv, Rest, Turns, Shape, Up, Flushing, Merging, Replayed, journal,
         backup
<1>14. CASE OpenDB
  BY Zenon, <1>14
     DEF FilesInv, Rest, Turns, Shape, Up, Flushing, Merging, OpenDB, leveler, backup
<1>15. CASE OpenFails
  BY Zenon, <1>15
     DEF FilesInv, Rest, Turns, Shape, Up, Flushing, Merging, OpenFails, disks,
         journal, leveler, backup, history
<1>16. CASE Holding
  BY Zenon, <1>16
     DEF FilesInv, Rest, Turns, Shape, Up, Flushing, Merging, Holding, disks, memory,
         journal, flusher, leveler, backup
<1>17. CASE BackupStart
  BY Zenon, <1>17
     DEF FilesInv, Rest, Turns, Shape, Up, Flushing, Merging, BackupStart, disks,
         memory, journal, flusher, leveler, redoing, history
<1>18. CASE BackupList
  BY Zenon, <1>18
     DEF FilesInv, Rest, Turns, Shape, Up, Flushing, Merging, BackupList, disks,
         memory, flusher, leveler, redoing, history
<1>19. CASE BackupFinish
  BY ZenonT(30), <1>19
     DEF FilesInv, Rest, Turns, Shape, Up, Flushing, Merging, BackupFinish, disks,
         memory, flusher, leveler, redoing, history
<1> QED
  BY Zenon, Cases, <1>1, <1>2, <1>3, <1>4, <1>5, <1>6, <1>7, <1>8, <1>9,
     <1>10, <1>11, <1>12, <1>13, <1>14, <1>15, <1>16, <1>17, <1>18, <1>19

-----------------------------------------------------------------------------
(* The steps.                                                              *)

\* Numbers in use stay below the next one.
LEMMA NumberedStep ==
  ASSUME FilesInv, [Next]_vars
  PROVE  Numbered'
<1>h. held' = held => HeldFiles' = HeldFiles
  BY Zenon DEF HeldFiles
<1>n. \A x \in Number : x \in Int
  BY TableFilesAssumption DEF Number
<1>1. CASE Quiet
  BY Zenon, <1>1, <1>h, <1>n
     DEF FilesInv, Shape, Rest, Turns, Numbered, Below, InUse, LiveFiles, Opened, Up,
         Quiet, disks, memory, journal, backup
<1>2. CASE Stopped
  <2>1. CASE manifest' = manifest
    BY Zenon, <1>2, <2>1 DEF FilesInv, Numbered, Stopped, Opened, Up
  <2>2. CASE manifest' # manifest
    <3>1. Below(rec.add, rec.next) /\ manifest.next <= rec.next /\ Below(manifest.files, manifest.next)
          /\ manifest.next \in Int /\ rec.next \in Int
      BY <1>2, <2>2 DEF FilesInv, Shape, Numbered, Stopped
    <3>2. manifest'.files \subseteq manifest.files \cup rec.add /\ manifest'.next = rec.next
      BY Zenon, <1>2, <2>2 DEF Stopped
    <3>3. Below(manifest'.files, manifest'.next)
      BY <3>1, <3>2, <1>n DEF Below
    <3> QED BY Zenon, <1>2, <3>3 DEF Numbered, Stopped, Opened, Up, Below
  <2> QED BY Zenon, <2>1, <2>2
<1>3. CASE Merges
  BY Zenon, <1>3, <1>h, <1>n
     DEF FilesInv, Shape, Rest, Turns, Numbered, Below, InUse, LiveFiles, Opened, Up,
         Merges, disks, memory, journal, flusher, backup
<1>4. CASE SwitchMemTable
  BY <1>4, <1>h, <1>n
     DEF FilesInv, Shape, Rest, Turns, Numbered, Below, InUse, LiveFiles, Opened, Up,
         SwitchMemTable, journal, flusher, leveler, backup, redoing, history
<1>5. CASE FlushStart
  <2>1. nextFile' \in Int /\ nextFile <= nextFile' /\ InUse' \subseteq InUse /\ nextFile \in Int
        /\ manifest.next \in Int /\ rec.next \in Int
    BY <1>5, <1>h, TableFilesAssumption
       DEF FlushStart, InUse, LiveFiles, FilesInv, Shape, disks, journal, leveler, backup
  <2> QED BY <1>5, <1>n, <2>1 DEF FlushStart, FilesInv, Numbered, Below, Opened, Up, journal
<1>6. CASE Built
  <2>1. Up /\ Up' /\ UNCHANGED <<nextFile, journal>>
    BY Zenon, <1>6 DEF Built, Up
  <2>2. fadd' \subseteq fadd \cup Reserved
    BY Zenon, <1>6 DEF Built
  <2>3. Below(Reserved, nextFile)
    BY <1>6, TableFilesAssumption
       DEF Built, FilesInv, Shape, Reservation, Flushing, Reserved, Below, Number
  <2>4. InUse' \subseteq InUse \cup Reserved
    BY Zenon, <1>6, <1>h, <2>2 DEF Built, InUse, LiveFiles, journal, backup
  <2> QED BY Zenon, <2>1, <2>3, <2>4 DEF FilesInv, Numbered, Below, Opened, journal
<1>7. CASE FlushLog
  <2>1. Up /\ Up' /\ UNCHANGED <<nextFile, manifest>> /\ rec'.add = fadd /\ rec'.next = nextFile
    BY <1>7 DEF FlushLog, BeginEdit, Up, memory
  <2>2. InUse' = InUse
    BY Zenon, <1>7, <1>h DEF FlushLog, InUse, LiveFiles, memory, leveler, backup
  <2>3. Below(InUse, nextFile) /\ manifest.next <= nextFile /\ Below(manifest.files, manifest.next)
        /\ nextFile \in Int
    BY <2>1 DEF FilesInv, Shape, Numbered, Opened
  <2> QED BY <2>1, <2>2, <2>3 DEF Numbered, Below, InUse
<1>8. CASE \E ok \in BOOLEAN : Flushed(ok)
  <2>1. PICK ok \in BOOLEAN : Flushed(ok)
    BY Zenon, <1>8
  <2>2. Up /\ Up' /\ occupied' = "none" /\ UNCHANGED <<nextFile, rec>>
    BY Zenon, <2>1 DEF Flushed, Up
  <2>3. Below(rec.add, rec.next) /\ manifest.next <= rec.next /\ rec.next <= nextFile
    BY Zenon, <2>1 DEF Flushed, FilesInv, Turns, Numbered
  <2>4. \/ manifest'.files \subseteq manifest.files /\ manifest'.next = manifest.next
        \/ manifest'.files \subseteq manifest.files \cup rec.add /\ manifest'.next = rec.next
    BY Zenon, <2>1 DEF Flushed, Recorded
  <2>5. InUse' \subseteq InUse \cup rec.add
    BY ZenonT(30), <2>1, <2>4, <1>h DEF Flushed, InUse, LiveFiles, backup
  <2>6. nextFile \in Int /\ manifest.next \in Int /\ rec.next \in Int
        /\ Below(manifest.files, manifest.next) /\ Below(InUse, nextFile) /\ manifest.next <= nextFile
    BY <2>2 DEF FilesInv, Shape, Numbered, Opened
  <2> QED BY <1>n, <2>2, <2>3, <2>4, <2>5, <2>6 DEF Numbered, Below
<1>9. CASE LevelOutput
  <2>1. Up /\ Up' /\ nextFile' = nextFile + 1 /\ nextFile \in Number /\ UNCHANGED journal
    BY <1>9, TableFilesAssumption DEF LevelOutput, Up, FilesInv, Shape, Number
  <2>2. InUse' \subseteq InUse \cup {nextFile}
    BY Zenon, <1>9, <1>h DEF LevelOutput, InUse, LiveFiles, journal, flusher, backup
  <2>3. manifest.next \in Int /\ rec.next \in Int
    BY DEF FilesInv, Shape
  <2> QED BY <1>n, <2>1, <2>2, <2>3 DEF FilesInv, Numbered, Below, Opened, journal
<1>10. CASE LevelLog
  BY <1>10, <1>h, <1>n
     DEF FilesInv, Shape, Rest, Turns, Numbered, Below, InUse, LiveFiles, Opened, Up,
         LevelLog, BeginEdit, disks, memory, flusher, backup, redoing, history
<1>11. CASE \E ok \in BOOLEAN : Merged(ok)
  <2>1. PICK ok \in BOOLEAN : Merged(ok)
    BY Zenon, <1>11
  <2>2. Up /\ Up' /\ UNCHANGED <<nextFile, rec>>
    BY Zenon, <2>1 DEF Merged, Up
  <2>3. nextFile \in Int /\ manifest.next \in Int /\ rec.next \in Int
        /\ Below(manifest.files, manifest.next) /\ Below(InUse, nextFile) /\ manifest.next <= nextFile
    BY <2>2 DEF FilesInv, Shape, Numbered, Opened
  <2>4. CASE lpc = "log"
    <3>1. Below(rec.add, rec.next) /\ manifest.next <= rec.next /\ rec.next <= nextFile
      BY Zenon, <2>4 DEF FilesInv, Turns, Numbered
    <3>2. /\ occupied' = "none"
          /\ \/ manifest'.files \subseteq manifest.files /\ manifest'.next = manifest.next
             \/ manifest'.files \subseteq manifest.files \cup rec.add /\ manifest'.next = rec.next
      BY Zenon, <2>1, <2>4 DEF Merged, Recorded
    <3>3. InUse' \subseteq InUse \cup rec.add
      BY ZenonT(30), <2>1, <3>2, <1>h DEF Merged, InUse, LiveFiles, flusher, backup
    <3> QED BY <1>n, <2>2, <2>3, <3>1, <3>2, <3>3 DEF Numbered, Below
  <2>5. CASE lpc = "merge"
    <3>0. UNCHANGED <<manifest, occupied, current, fbase, fadd, held, blive>>
          /\ lbase' = {} /\ louts' = {}
      BY Zenon, <2>1, <2>5 DEF Merged, flusher, backup
    <3>1. InUse' \subseteq InUse /\ UNCHANGED <<manifest, occupied>>
      BY Zenon, <1>h, <3>0 DEF InUse, LiveFiles
    <3> QED BY Zenon, <2>2, <2>3, <3>1 DEF FilesInv, Numbered, Below
  <2> QED BY Zenon, <2>1, <2>4, <2>5 DEF Merged, Merging
<1>12. CASE Recover
  <2>1. CASE status' = "missing"
    BY Zenon, <1>12, <2>1 DEF Recover, FilesInv, Rest, Numbered, Opened, Up, journal
  <2>2. CASE status' = "replay"
    <3>1. nextFile' = manifest.next + 1 /\ current' = manifest.files /\ UNCHANGED journal
      BY Zenon, <1>12, <2>2 DEF Recover
    <3>2. InUse' \subseteq manifest.files
      BY Zenon, <1>12, <1>h, <3>1
         DEF Recover, InUse, LiveFiles, FilesInv, Rest, Turns, Merging, journal, flusher, leveler, backup
    <3>3. manifest.next \in Int /\ occupied = "none"
      BY <1>12 DEF FilesInv, Shape, Rest, Recover
    <3> QED BY <1>n, <3>1, <3>2, <3>3 DEF FilesInv, Numbered, Below, journal
  <2> QED BY Zenon, <1>12, <2>1, <2>2 DEF Recover
<1>13. CASE Replayed
  <2> DEFINE R == nextFile..(nextFile + LastGuard)
  <2>1. nextFile \in Int /\ nextFile' \in Int /\ nextFile < nextFile' /\ Below(R, nextFile')
    BY <1>13, TableFilesAssumption DEF Replayed, FilesInv, Shape, Below, Number
  <2>2. InUse' \subseteq InUse \cup R /\ UNCHANGED journal /\ Opened
    BY Zenon, <1>13, <1>h DEF Replayed, InUse, LiveFiles, journal, backup, Opened
  <2>3. manifest.next \in Int /\ rec.next \in Int
    BY DEF FilesInv, Shape
  <2> HIDE DEF R
  <2> QED BY <1>n, <2>1, <2>2, <2>3 DEF FilesInv, Numbered, Below, journal
<1>14. CASE OpenDB
  <2>1. Opened /\ nextFile' = nextFile + 1 /\ nextFile \in Int /\ occupied' = "none"
        /\ Below(InUse, nextFile)
    BY <1>14 DEF OpenDB, FilesInv, Shape, Rest, Numbered, Opened
  <2>2. InUse' \subseteq InUse /\ manifest'.files \subseteq InUse /\ manifest'.next = nextFile'
    BY Zenon, <1>14, <1>h DEF OpenDB, InUse, LiveFiles, leveler, backup
  <2>3. nextFile' <= nextFile' /\ \A x \in InUse : x \in Number /\ x < nextFile'
    BY <1>n, <2>1 DEF Below
  <2> QED BY ZenonT(30), <2>1, <2>2, <2>3 DEF Numbered, Below
<1>15. CASE OpenFails
  BY Zenon, <1>15, <1>h, <1>n
     DEF FilesInv, Shape, Rest, Turns, Numbered, Below, InUse, LiveFiles, Opened, Up,
         OpenFails, disks, journal, leveler, backup, history
<1>16. CASE Holding
  BY ZenonT(30), <1>16, <1>h, <1>n
     DEF FilesInv, Shape, Rest, Turns, Numbered, Below, InUse, LiveFiles, Opened, Up,
         Holding, disks, memory, journal, flusher, leveler, backup
<1>17. CASE BackupStart
  BY Zenon, <1>17, <1>h, <1>n
     DEF FilesInv, Shape, Rest, Turns, Numbered, Below, InUse, LiveFiles, Opened, Up,
         BackupStart, disks, memory, journal, flusher, leveler, redoing, history
<1>18. CASE BackupList
  BY Zenon, <1>18, <1>h, <1>n
     DEF FilesInv, Shape, Rest, Turns, Numbered, Below, InUse, LiveFiles, Opened, Up,
         BackupList, disks, memory, flusher, leveler, redoing, history
<1>19. CASE BackupFinish
  BY ZenonT(30), <1>19, <1>h, <1>n
     DEF FilesInv, Shape, Rest, Turns, Numbered, Below, InUse, LiveFiles, Opened, Up,
         BackupFinish, disks, memory, flusher, leveler, redoing, history
<1> QED
  BY Zenon, Cases, <1>1, <1>2, <1>3, <1>4, <1>5, <1>6, <1>7, <1>8, <1>9,
     <1>10, <1>11, <1>12, <1>13, <1>14, <1>15, <1>16, <1>17, <1>18, <1>19

\* Reserved numbers stay the flush's own.
LEMMA ReservationStep ==
  ASSUME FilesInv, [Next]_vars
  PROVE  Reservation'
<1>h. held' = held => HeldFiles' = HeldFiles
  BY Zenon DEF HeldFiles
<1>1. CASE Quiet
  BY Zenon, <1>1, <1>h
     DEF FilesInv, Rest, Reservation, Reserved, LiveFiles, Flushing, Quiet, disks,
         memory, journal, backup
<1>2. CASE Stopped
  BY Zenon, <1>2, <1>h
     DEF FilesInv, Rest, Reservation, Reserved, LiveFiles, Flushing, Stopped, disks
<1>3. CASE Merges
  BY Zenon, <1>3, <1>h
     DEF FilesInv, Rest, Reservation, Reserved, LiveFiles, Flushing, Merges, disks,
         memory, journal, flusher, backup
<1>4. CASE SwitchMemTable
  <2>1. ~Flushing
    BY ZenonT(30), <1>4, TableFilesAssumption DEF SwitchMemTable, FilesInv, Reservation
  <2> QED BY Zenon, <1>4, <2>1 DEF SwitchMemTable, Reservation, Flushing, flusher
<1>5. CASE FlushStart
  <2>1. Up /\ Up' /\ Below(InUse, nextFile) /\ nextFile \in Nat \ {0} /\ imm \in Gens
    BY Zenon, <1>5 DEF FlushStart, FilesInv, Shape, Numbered, Opened, Up
  <2>2. /\ fnew' = nextFile /\ nextFile' = nextFile + LastGuard + 1 /\ imm' = imm
        /\ nextFile + LastGuard < MaxFile /\ fadd' = fadd /\ fnums' = fnums
        /\ Reserved' \subseteq pending'
    BY Zenon, <1>5 DEF FlushStart, Reserved
  <2>3. InUse' \subseteq InUse /\ louts' = louts /\ fadd = {} /\ fpc' = "build"
    BY Zenon, <1>5, <1>h
       DEF FlushStart, InUse, LiveFiles, journal, leveler, backup, FilesInv, Turns
  <2>4. Reserved' \cap InUse = {}
    BY <2>1, <2>2 DEF Reserved, Below, Number
  <2> QED BY <2>1, <2>2, <2>3, <2>4, TableFilesAssumption DEF Reservation, InUse
<1>6. CASE Built
  BY Zenon, <1>6, <1>h
     DEF FilesInv, Rest, Reservation, Reserved, LiveFiles, Flushing, Built, journal,
         backup
<1>7. CASE FlushLog
  BY Zenon, <1>7, <1>h
     DEF FilesInv, Rest, Reservation, Reserved, LiveFiles, Flushing, FlushLog,
         BeginEdit, disks, memory, leveler, backup, redoing, history
<1>8. CASE \E ok \in BOOLEAN : Flushed(ok)
  BY Zenon, <1>8, <1>h
     DEF FilesInv, Rest, Reservation, Reserved, LiveFiles, Flushing, Flushed, backup
<1>9. CASE LevelOutput
  <2>1. Flushing => nextFile \notin Reserved /\ nextFile' = nextFile + 1
        /\ fnew + LastGuard < nextFile'
    BY <1>9, TableFilesAssumption DEF LevelOutput, FilesInv, Shape, Reservation, Reserved
  <2>2. /\ louts' = louts \cup {nextFile} /\ pending \subseteq pending'
        /\ UNCHANGED <<fpc, fnew, fadd, fnums, imm, manifest, blive>> /\ LiveFiles' = LiveFiles
        /\ Reserved' = Reserved /\ Flushing' = Flushing
    BY Zenon, <1>9, <1>h DEF LevelOutput, LiveFiles, Reserved, Flushing, flusher, journal, backup
  <2> QED BY ZenonT(30), <2>1, <2>2 DEF FilesInv, Reservation
<1>10. CASE LevelLog
  BY Zenon, <1>10, <1>h
     DEF FilesInv, Rest, Reservation, Reserved, LiveFiles, Flushing, LevelLog,
         BeginEdit, disks, memory, flusher, backup, redoing, history
<1>11. CASE \E ok \in BOOLEAN : Merged(ok)
  <2>1. PICK ok \in BOOLEAN : Merged(ok)
    BY Zenon, <1>11
  <2>2. lpc = "log" => rec.add = louts
    BY Zenon DEF FilesInv, Turns
  <2>3. /\ LiveFiles' \subseteq LiveFiles \cup louts /\ manifest'.files \subseteq manifest.files \cup louts
        /\ louts' = {} /\ pending' = pending \ louts
    BY Zenon, <2>1, <2>2, <1>h DEF Merged, Recorded, Merging, LiveFiles, flusher, FilesInv, Turns
  <2>4. /\ UNCHANGED <<fpc, fnew, fadd, fnums, imm, blive, nextFile>>
        /\ Reserved' = Reserved /\ Flushing' = Flushing
    BY Zenon, <2>1 DEF Merged, Reserved, Flushing, flusher, backup
  <2> QED BY Zenon, <2>3, <2>4 DEF FilesInv, Reservation
<1>12. CASE Recover
  BY Zenon, <1>12, <1>h
     DEF FilesInv, Rest, Reservation, Reserved, LiveFiles, Flushing, Recover, disks,
         journal, flusher, leveler, backup, history
<1>13. CASE Replayed
  BY Zenon, <1>13, <1>h
     DEF FilesInv, Rest, Reservation, Reserved, LiveFiles, Flushing, Replayed,
         journal, backup
<1>14. CASE OpenDB
  BY Zenon, <1>14, <1>h
     DEF FilesInv, Rest, Reservation, Reserved, LiveFiles, Flushing, OpenDB, leveler,
         backup
<1>15. CASE OpenFails
  BY Zenon, <1>15, <1>h
     DEF FilesInv, Rest, Reservation, Reserved, LiveFiles, Flushing, OpenFails, disks,
         journal, leveler, backup, history
<1>16. CASE Holding
  BY Zenon, <1>16, <1>h
     DEF FilesInv, Rest, Reservation, Reserved, LiveFiles, Flushing, Holding, disks,
         memory, journal, flusher, leveler, backup
<1>17. CASE BackupStart
  BY Zenon, <1>17, <1>h
     DEF FilesInv, Rest, Reservation, Reserved, LiveFiles, Flushing, BackupStart,
         disks, memory, journal, flusher, leveler, redoing, history
<1>18. CASE BackupList
  BY Zenon, <1>18, <1>h
     DEF FilesInv, Rest, Reservation, Reserved, LiveFiles, Flushing, BackupList,
         disks, memory, flusher, leveler, redoing, history
<1>19. CASE BackupFinish
  BY ZenonT(30), <1>19, <1>h
     DEF FilesInv, Rest, Reservation, Reserved, LiveFiles, Flushing, BackupFinish,
         disks, memory, flusher, leveler, redoing, history
<1> QED
  BY Zenon, Cases, <1>1, <1>2, <1>3, <1>4, <1>5, <1>6, <1>7, <1>8, <1>9,
     <1>10, <1>11, <1>12, <1>13, <1>14, <1>15, <1>16, <1>17, <1>18, <1>19



\* No step deletes a table that is named.
LEMMA ExistsStep ==
  ASSUME FilesInv, [Next]_vars
  PROVE  Exists'
<1>h. held' = held => HeldFiles' = HeldFiles
  BY Zenon DEF HeldFiles
<1>g. ASSUME NEW S, NEW R, Builds(R), S \cap R = {}, S \ broken \subseteq disk
      PROVE  S \ broken' \subseteq disk'
  BY Zenon, <1>g DEF Builds
<1>1. CASE Quiet
  BY Zenon, <1>1, <1>h
     DEF FilesInv, Rest, Turns, Exists, LiveFiles, Opened, Up, Quiet, disks, memory,
         journal, backup
<1>2. CASE Stopped
  <2>1. rec.add \ broken \subseteq disk \/ occupied \notin {"flush", "level"}
    BY Zenon, <1>2 DEF Stopped, FilesInv, Turns, Exists
  <2>2. manifest'.files \ broken \subseteq disk
    BY Zenon, <1>2, <2>1 DEF Stopped, FilesInv, Exists
  <2> QED BY Zenon, <1>2, <2>2 DEF Stopped, Exists, Opened, Up, disks
<1>3. CASE Merges
  BY Zenon, <1>3, <1>h
     DEF FilesInv, Rest, Turns, Exists, LiveFiles, Opened, Up, Merges, disks, memory,
         journal, flusher, backup
<1>4. CASE SwitchMemTable
  BY Zenon, <1>4, <1>h
     DEF FilesInv, Rest, Turns, Exists, LiveFiles, Opened, Up, SwitchMemTable,
         journal, flusher, leveler, backup, redoing, history
<1>5. CASE FlushStart
  BY Zenon, <1>5, <1>h
     DEF FilesInv, Rest, Turns, Exists, LiveFiles, Opened, Up, FlushStart, disks,
         journal, leveler, backup, redoing, history
<1>6. CASE Built
  <2> DEFINE S == LiveFiles \cup manifest.files \cup blive \cup louts
  <2>1. Up /\ S \cap Reserved = {} /\ S \ broken \subseteq disk /\ fadd = {}
    BY Zenon, <1>6 DEF Built, FilesInv, Turns, Reservation, Flushing, Exists, Opened, Up
  <2>2. S \ broken' \subseteq disk'
    BY Zenon, <1>6, <1>g, <2>1 DEF Built
  <2>3. LiveFiles' \subseteq S /\ manifest'.files \subseteq S /\ blive' \subseteq S /\ louts' \subseteq S
    BY Zenon, <1>6, <1>h DEF Built, LiveFiles, journal, backup
  <2>4. fadd' \ broken' \subseteq disk'
    BY Zenon, <1>6, <2>1 DEF Built
  <2>5. louts' \subseteq pending'
    BY Zenon, <1>6 DEF Built, FilesInv, Exists, Reservation, Flushing
  <2> HIDE DEF S
  <2> QED BY Zenon, <2>2, <2>3, <2>4, <2>5 DEF Exists
<1>7. CASE FlushLog
  BY Zenon, <1>7, <1>h
     DEF FilesInv, Rest, Turns, Exists, LiveFiles, Opened, Up, FlushLog, BeginEdit,
         disks, memory, leveler, backup, redoing, history
<1>8. CASE \E ok \in BOOLEAN : Flushed(ok)
  <2>1. PICK ok \in BOOLEAN : Flushed(ok)
    BY Zenon, <1>8
  <2>2. /\ Up /\ rec.add = fadd /\ fbase = {} /\ fbase' = {} /\ fadd' = {} /\ louts' = louts
        /\ broken' = broken /\ lbase' = lbase /\ HeldFiles' = HeldFiles /\ blive' = blive
        /\ current' \subseteq current \cup fadd
    BY Zenon, <2>1, <1>h DEF Flushed, FilesInv, Turns, backup
  <2>3. louts' \subseteq pending'
    BY Zenon, <2>1, <2>2 DEF Flushed, FilesInv, Turns, Exists, Reservation, Flushing
  <2>4. manifest'.files \subseteq manifest.files \cup fadd
    BY Zenon, <2>1, <2>2 DEF Flushed, Recorded
  <2>5. (LiveFiles \cup louts \cup fadd \cup blive \cup manifest.files) \ broken \subseteq disk
    BY Zenon, <2>2 DEF FilesInv, Exists, Opened
  <2>6. CASE disk' = disk
    BY ZenonT(30), <2>2, <2>3, <2>4, <2>5, <2>6 DEF Exists, LiveFiles
  <2>7. CASE /\ bpc = "off" /\ ~bgError'
             /\ disk' = disk \cap (pending' \cup current' \cup lbase \cup HeldFiles)
    <3>1. ok /\ ~hidden /\ manifest.files = current /\ blive = {}
      BY Zenon, <2>1, <2>2, <2>7 DEF Flushed, FilesInv, Synced, Opened, Turns
    <3>2. manifest'.files \subseteq current' /\ current' = current \cup fadd
      BY Zenon, <2>1, <2>2, <3>1 DEF Flushed, Recorded
    <3> QED BY <2>2, <2>3, <2>5, <2>7, <3>1, <3>2 DEF Exists, LiveFiles
  <2> QED BY Zenon, <2>1, <2>6, <2>7 DEF Flushed, Collected
<1>9. CASE LevelOutput
  <2>1. Up /\ Below(InUse, nextFile) /\ nextFile \in Int
    BY <1>9 DEF LevelOutput, FilesInv, Shape, Numbered, Opened, Up
  <2>2. nextFile \notin InUse
    BY <2>1 DEF Below
  <2>3. InUse \ broken \subseteq disk /\ louts \subseteq pending
    BY Zenon, <2>1 DEF FilesInv, Exists, Opened, InUse
  <2>4. LiveFiles' = LiveFiles /\ fadd' = fadd /\ blive' = blive /\ manifest' = manifest
    BY Zenon, <1>9, <1>h DEF LevelOutput, LiveFiles, journal, flusher, backup
  <2>5. louts' = louts \cup {nextFile} /\ pending' = pending \cup {nextFile}
        /\ disk' = disk \cup {nextFile} /\ broken' = broken \ {nextFile}
    BY Zenon, <1>9 DEF LevelOutput
  <2> QED BY Zenon, <2>2, <2>3, <2>4, <2>5 DEF Exists, InUse
<1>10. CASE LevelLog
  BY Zenon, <1>10, <1>h
     DEF FilesInv, Rest, Turns, Exists, LiveFiles, Opened, Up, LevelLog, BeginEdit,
         disks, memory, flusher, backup, redoing, history
<1>11. CASE \E ok \in BOOLEAN : Merged(ok)
  <2>1. PICK ok \in BOOLEAN : Merged(ok)
    BY Zenon, <1>11
  <2>2. /\ Up /\ louts' = {} /\ lbase' = {} /\ broken' = broken /\ fbase' = fbase
        /\ fadd' = fadd /\ HeldFiles' = HeldFiles /\ blive' = blive
    BY Zenon, <2>1, <1>h DEF Merged, flusher, backup
  <2>3. current' \subseteq current \cup louts /\ manifest'.files \subseteq manifest.files \cup louts
    BY Zenon, <2>1 DEF Merged, Recorded, Merging, FilesInv, Turns
  <2>4. (LiveFiles \cup louts \cup fadd \cup blive \cup manifest.files) \ broken \subseteq disk
    BY Zenon, <2>2 DEF FilesInv, Exists, Opened
  <2>5. CASE disk' = disk
    BY ZenonT(30), <2>2, <2>3, <2>4, <2>5 DEF Exists, LiveFiles
  <2>6. CASE /\ bpc = "off" /\ ~bgError'
             /\ disk' = disk \cap (pending' \cup current' \cup fbase \cup HeldFiles)
    <3>1. ok /\ ~hidden /\ manifest.files = current /\ blive = {} /\ lpc = "log"
      BY Zenon, <2>1, <2>2, <2>6 DEF Merged, FilesInv, Synced, Opened, Turns
    <3>2. manifest'.files = current'
      BY Zenon, <2>1, <3>1 DEF Merged, Recorded
    <3>3. fadd \subseteq pending'
      BY Zenon, <2>1, <2>2 DEF Merged, FilesInv, Turns, Reservation, Flushing, Up
    <3> QED BY <2>2, <2>3, <2>4, <2>6, <3>1, <3>2, <3>3 DEF Exists, LiveFiles
  <2> QED BY Zenon, <2>1, <2>5, <2>6 DEF Merged, Collected
<1>12. CASE Recover
  BY ZenonT(30), <1>12, <1>h
     DEF FilesInv, Rest, Turns, Exists, LiveFiles, Opened, Up, Merging, Recover, disks,
         journal, flusher, leveler, backup, history
<1>13. CASE Replayed
  <2> DEFINE R == nextFile..(nextFile + LastGuard)
  <2>1. Below(InUse, nextFile) /\ nextFile \in Int /\ Opened
    BY <1>13 DEF Replayed, FilesInv, Shape, Numbered, Opened
  <2>2. InUse \cap R = {}
    BY <2>1, TableFilesAssumption DEF Below, Number
  <2>3. InUse \ broken \subseteq disk
    BY Zenon, <2>1 DEF FilesInv, Exists, InUse
  <2>4. InUse \ broken' \subseteq disk'
    BY Zenon, <1>13, <1>g, <2>2, <2>3 DEF Replayed
  <2>5. LiveFiles' = LiveFiles /\ louts' = louts /\ blive' = blive /\ manifest' = manifest /\ louts = {}
    BY Zenon, <1>13, <1>h DEF Replayed, LiveFiles, journal, backup, FilesInv, Rest, Turns, Merging
  <2>6. (fadd' \ fadd) \ broken' \subseteq disk'
    BY Zenon, <1>13 DEF Replayed
  <2> HIDE DEF R
  <2> QED BY Zenon, <2>4, <2>5, <2>6 DEF Exists, InUse
<1>14. CASE OpenDB
  <2>1. fbase = {} /\ lbase = {} /\ louts = {} /\ HeldFiles = {} /\ blive = {}
    BY Zenon, <1>14 DEF OpenDB, FilesInv, Rest, Turns, Merging
  <2>2. (current \cup fadd) \ broken \subseteq disk
    BY Zenon, <1>14 DEF OpenDB, FilesInv, Exists, Opened, LiveFiles
  <2> QED BY Zenon, <1>14, <1>h, <2>1, <2>2 DEF OpenDB, Exists, LiveFiles, leveler, backup
<1>15. CASE OpenFails
  BY Zenon, <1>15, <1>h
     DEF FilesInv, Rest, Turns, Exists, LiveFiles, Opened, Up, Merging, OpenFails, disks,
         journal, leveler, backup, history
<1>16. CASE Holding
  BY ZenonT(30), <1>16, <1>h
     DEF FilesInv, Rest, Turns, Exists, LiveFiles, Opened, Up, Holding, disks, memory,
         journal, flusher, leveler, backup
<1>17. CASE BackupStart
  BY Zenon, <1>17, <1>h
     DEF FilesInv, Rest, Turns, Exists, LiveFiles, Opened, Up, BackupStart, disks,
         memory, journal, flusher, leveler, redoing, history
<1>18. CASE BackupList
  BY Zenon, <1>18, <1>h
     DEF FilesInv, Rest, Turns, Exists, LiveFiles, Opened, Up, BackupList, disks,
         memory, flusher, leveler, redoing, history
<1>19. CASE BackupFinish
  BY Zenon, <1>19, <1>h
     DEF FilesInv, Rest, Turns, Exists, LiveFiles, Opened, Up, BackupFinish, disks,
         memory, flusher, leveler, redoing, history
<1> QED
  BY Zenon, Cases, <1>1, <1>2, <1>3, <1>4, <1>5, <1>6, <1>7, <1>8, <1>9,
     <1>10, <1>11, <1>12, <1>13, <1>14, <1>15, <1>16, <1>17, <1>18, <1>19

\* Without an error the MANIFEST keeps up with the current version.
LEMMA SyncedStep ==
  ASSUME FilesInv, [Next]_vars
  PROVE  Synced'
<1>1. CASE Quiet
  BY Zenon, <1>1
     DEF FilesInv, Rest, Turns, Synced, LiveFiles, Opened, Up, Quiet, disks, memory,
         journal, backup
<1>2. CASE Stopped
  BY Zenon, <1>2 DEF FilesInv, Rest, Turns, Synced, LiveFiles, Opened, Up, Stopped, disks
<1>3. CASE Merges
  BY Zenon, <1>3
     DEF FilesInv, Rest, Turns, Synced, LiveFiles, Opened, Up, Merges, disks, memory,
         journal, flusher, backup
<1>4. CASE SwitchMemTable
  BY Zenon, <1>4
     DEF FilesInv, Rest, Turns, Synced, LiveFiles, Opened, Up, SwitchMemTable,
         journal, flusher, leveler, backup, redoing, history
<1>5. CASE FlushStart
  BY Zenon, <1>5
     DEF FilesInv, Rest, Turns, Synced, LiveFiles, Opened, Up, FlushStart, disks,
         journal, leveler, backup, redoing, history
<1>6. CASE Built
  BY <1>6
     DEF FilesInv, Rest, Turns, Synced, LiveFiles, Opened, Up, Built, journal, backup
<1>7. CASE FlushLog
  BY Zenon, <1>7
     DEF FilesInv, Rest, Turns, Synced, LiveFiles, Opened, Up, FlushLog, BeginEdit,
         disks, memory, leveler, backup, redoing, history
<1>8. CASE \E ok \in BOOLEAN : Flushed(ok)
  <2>1. PICK ok \in BOOLEAN : Flushed(ok)
    BY Zenon, <1>8
  <2>2. Up /\ bpc' # "link" /\ rec.add = fadd /\ rec.del = {}
    BY Zenon, <2>1 DEF Flushed, FilesInv, Turns, Shape, backup
  <2>3. CASE ~bgError'
    <3>1. ok /\ ~hidden /\ manifest.files = current
      BY Zenon, <2>1, <2>2, <2>3 DEF Flushed, FilesInv, Synced, Opened
    <3> QED BY Zenon, <2>1, <2>2, <3>1 DEF Flushed, Recorded, Synced
  <2> QED BY Zenon, <2>2, <2>3 DEF Synced
<1>9. CASE LevelOutput
  BY Zenon, <1>9
     DEF FilesInv, Rest, Turns, Synced, LiveFiles, Opened, Up, LevelOutput, journal,
         flusher, backup, redoing
<1>10. CASE LevelLog
  BY Zenon, <1>10
     DEF FilesInv, Rest, Turns, Synced, LiveFiles, Opened, Up, LevelLog, BeginEdit,
         disks, memory, flusher, backup, redoing, history
<1>11. CASE \E ok \in BOOLEAN : Merged(ok)
  <2>1. PICK ok \in BOOLEAN : Merged(ok)
    BY Zenon, <1>11
  <2>2. CASE ~bgError'
    <3>1. ok /\ ~hidden /\ manifest.files = current /\ lpc = "log"
      BY Zenon, <2>1, <2>2 DEF Merged, FilesInv, Synced, Opened
    <3>2. bpc' # "link"
      BY Zenon, <2>1, <3>1 DEF Merged, FilesInv, Turns, backup
    <3> QED BY Zenon, <2>1, <3>1, <3>2 DEF Merged, Recorded, Synced
  <2> QED BY Zenon, <2>2 DEF Synced
<1>12. CASE Recover
  BY Zenon, <1>12
     DEF FilesInv, Rest, Turns, Synced, LiveFiles, Opened, Up, Recover, disks,
         journal, flusher, leveler, backup, history
<1>13. CASE Replayed
  BY Zenon, <1>13
     DEF FilesInv, Rest, Turns, Synced, LiveFiles, Opened, Up, Replayed, journal,
         backup
<1>14. CASE OpenDB
  BY Zenon, <1>14
     DEF FilesInv, Rest, Turns, Synced, LiveFiles, Opened, Up, OpenDB, leveler, backup
<1>15. CASE OpenFails
  BY Zenon, <1>15
     DEF FilesInv, Rest, Turns, Synced, LiveFiles, Opened, Up, OpenFails, disks,
         journal, leveler, backup, history
<1>16. CASE Holding
  BY Zenon, <1>16
     DEF FilesInv, Rest, Turns, Synced, LiveFiles, Opened, Up, Holding, disks, memory,
         journal, flusher, leveler, backup
<1>17. CASE BackupStart
  BY Zenon, <1>17
     DEF FilesInv, Rest, Turns, Synced, LiveFiles, Opened, Up, BackupStart, disks,
         memory, journal, flusher, leveler, redoing, history
<1>18. CASE BackupList
  BY Zenon, <1>18
     DEF FilesInv, Rest, Turns, Synced, LiveFiles, Opened, Up, BackupList, disks,
         memory, flusher, leveler, redoing, history
<1>19. CASE BackupFinish
  BY Zenon, <1>19
     DEF FilesInv, Rest, Turns, Synced, LiveFiles, Opened, Up, BackupFinish, disks,
         memory, flusher, leveler, redoing, history
<1> QED
  BY Zenon, Cases, <1>1, <1>2, <1>3, <1>4, <1>5, <1>6, <1>7, <1>8, <1>9,
     <1>10, <1>11, <1>12, <1>13, <1>14, <1>15, <1>16, <1>17, <1>18, <1>19

-----------------------------------------------------------------------------
(* The theorems.                                                           *)

LEMMA FilesInit == Init => FilesInv
<1> SUFFICES ASSUME Init PROVE FilesInv
  BY Zenon
<1>1. HeldFiles = {} /\ LiveFiles = {}
  BY Zenon DEF Init, HeldFiles, LiveFiles
<1>2. Shape
  <2>1. \A l \in logs \cup redo : l.gen \in Gens /\ l.num \in Nat
    BY TableFilesAssumption DEF Init
  <2>2. nextFile \in Nat \ {0} /\ manifest.next \in Nat /\ rec.next \in Nat
    BY DEF Init, NoEdit
  <2>3. mem \in Gens /\ imm \in Gens \cup {0}
    BY Zenon, TableFilesAssumption DEF Init
  <2>4. DOMAIN data = Number /\ DOMAIN lvl = Number /\ DOMAIN held = Readers
    BY Zenon DEF Init
  <2> QED BY Zenon, <2>1, <2>2, <2>3, <2>4 DEF Init, Shape
<1>3. Rest /\ Turns /\ Reservation
  BY Zenon, <1>1 DEF Init, Rest, Turns, Reservation, Flushing, Merging
<1>4. Numbered /\ Exists /\ Synced
  BY <1>1 DEF Init, Numbered, Exists, Synced, Below, InUse, LiveFiles
<1> QED BY Zenon, <1>2, <1>3, <1>4 DEF FilesInv

LEMMA FilesStep == FilesInv /\ [Next]_vars => FilesInv'
BY Zenon, ShapeStep, RestStep, TurnsStep, NumberedStep, ReservationStep, ExistsStep, SyncedStep
   DEF FilesInv

LEMMA FilesAlways == Spec => []FilesInv
BY FilesInit, FilesStep, PTL DEF Spec

\* Tables in use are on disk, always: deleting obsolete files never races
\* with a flush, a compaction, a reader or a backup, whatever errors and
\* crashes occur (DeleteObsoleteFiles, pending_outputs_, AddLiveFiles).
THEOREM FilesSafe == Spec => []FilesExist
<1>1. FilesInv => FilesExist
  BY Zenon DEF FilesInv, Turns, Exists, FilesExist, Opened, Up
<1> QED BY <1>1, FilesAlways, PTL

\* After any crash the next DB::Open finds the tables that the MANIFEST names
\* (DBImpl::Recover's test for missing files).
THEOREM ManifestSafe == Spec => []ManifestFilesExist
<1>1. FilesInv => ManifestFilesExist
  BY Zenon DEF FilesInv, Exists, ManifestFilesExist
<1> QED BY <1>1, FilesAlways, PTL

\* A live backup links every table of the MANIFEST it copies.
THEOREM BackupComplete == Spec => []BackupOpens
<1>1. FilesInv => BackupOpens
  BY Zenon DEF FilesInv, Synced, BackupOpens
<1> QED BY <1>1, FilesAlways, PTL

\* No step writes a table in use.
LEMMA InUseSame ==
  ASSUME FilesInv, [Next]_vars, NEW n \in InUse
  PROVE  data'[n] = data[n] /\ lvl'[n] = lvl[n]
<1>1. CASE UNCHANGED <<data, lvl>>
  BY Zenon, <1>1
<1>2. CASE Built
  <2>1. n \in Number
    BY Zenon, <1>2 DEF Built, FilesInv, Numbered, Opened, Below
  <2>2. n \notin Reserved
    BY Zenon, <1>2 DEF Built, FilesInv, Turns, Reservation, Flushing, InUse, Up
  <2> QED BY Zenon, <1>2, <2>1, <2>2 DEF Built, Builds
<1>3. CASE Replayed
  <2>1. n \in Number /\ n < nextFile
    BY Zenon, <1>3 DEF Replayed, FilesInv, Numbered, Opened, Below
  <2>2. n \notin nextFile..(nextFile + LastGuard)
    BY <2>1, TableFilesAssumption DEF FilesInv, Shape, Number
  <2> QED BY Zenon, <1>3, <2>1, <2>2 DEF Replayed, Builds
<1>4. CASE LevelOutput
  <2>1. n \in Number /\ n < nextFile
    BY Zenon, <1>4 DEF LevelOutput, FilesInv, Numbered, Opened, Below
  <2>2. n # nextFile /\ n \in DOMAIN data /\ n \in DOMAIN lvl
    BY <2>1, TableFilesAssumption DEF FilesInv, Shape, Number
  <2>3. \E part : data' = [data EXCEPT ![nextFile] = part]
    BY Zenon, <1>4 DEF LevelOutput
  <2>4. lvl' = [lvl EXCEPT ![nextFile] = lout]
    BY Zenon, <1>4 DEF LevelOutput
  <2> QED BY Zenon, <2>2, <2>3, <2>4
<1>5. UNCHANGED <<data, lvl>> \/ Built \/ Replayed \/ LevelOutput
  <2>1. Quiet \/ Stopped \/ Merges \/ SwitchMemTable => UNCHANGED <<data, lvl>>
    BY Zenon DEF Quiet, Stopped, Merges, SwitchMemTable, disks
  <2>2. FlushStart \/ FlushLog \/ LevelLog \/ Holding => UNCHANGED <<data, lvl>>
    BY Zenon DEF FlushStart, FlushLog, LevelLog, Holding, disks
  <2>3. (\E ok \in BOOLEAN : Flushed(ok) \/ Merged(ok)) => UNCHANGED <<data, lvl>>
    BY Zenon DEF Flushed, Merged
  <2>4. Recover \/ OpenDB \/ OpenFails => UNCHANGED <<data, lvl>>
    BY Zenon DEF Recover, OpenDB, OpenFails, disks
  <2>5. BackupStart \/ BackupList \/ BackupFinish => UNCHANGED <<data, lvl>>
    BY Zenon DEF BackupStart, BackupList, BackupFinish, disks
  <2> QED BY Zenon, Cases, <2>1, <2>2, <2>3, <2>4, <2>5
<1> QED BY Zenon, <1>1, <1>2, <1>3, <1>4, <1>5

\* No table in use is written a second time.
THEOREM NumbersNotReused == Spec => TablesImmutable
<1> DEFINE Same == \A n \in manifest.files \cup LiveFiles : data'[n] = data[n] /\ lvl'[n] = lvl[n]
<1>1. FilesInv /\ [Next]_vars => [Same]_vars
  BY Zenon, InUseSame DEF InUse
<1> QED BY <1>1, FilesAlways, PTL DEF Spec, TablesImmutable

-----------------------------------------------------------------------------
(* Threads and manual compactions.                                         *)

LEMMA ThreadsInit == Init => ThreadsInv
BY DEF Init, ThreadsInv, CloseWaits, Up

\* Two counted threads, each counted down once by itself.
LEMMA ThreadsStep == FilesInv /\ ThreadsInv /\ [Next]_vars => ThreadsInv'
<1> SUFFICES ASSUME FilesInv, ThreadsInv, [Next]_vars
             PROVE  ThreadsInv'
  BY Zenon
<1> USE DEF ThreadsInv, CloseWaits, Up
<1>1. CASE Stop
  BY Zenon, <1>1 DEF Stop
<1>2. CASE CloseDone /\ ~Stop
  BY <1>2 DEF CloseDone, history
<1>3. CASE FlushExit
  BY <1>3 DEF FlushExit, leveler, history
<1>4. CASE LevelExit
  BY <1>4 DEF LevelExit, flusher, history
<1>5. CASE LevelRecord \/ LevelFail
  BY Zenon, <1>5 DEF LevelRecord, LevelFail, LevelEnd, flusher
<1>6. CASE Close
  BY ZenonT(30), <1>6 DEF Close, flusher, leveler, history
<1>7. CASE OpenDB
  BY <1>7 DEF OpenDB, leveler, FilesInv, Rest
<1>8. CASE Recover \/ ReplayLog \/ OpenFails
  BY Zenon, <1>8 DEF Recover, ReplayLog, OpenFails
<1> DEFINE Keeps == /\ UNCHANGED <<status, threads, clobbered>>
                    /\ fpc' = fpc \/ (fpc # "gone" /\ fpc' # "gone")
                    /\ lpc' = lpc \/ (lpc # "gone" /\ lpc' # "gone")
<1>9. CASE Keeps
  BY Zenon, <1>9
<1>10. UNCHANGED vars \/ SwitchMemTable => Keeps
  BY Zenon DEF vars, SwitchMemTable, flusher, leveler, history
<1>11. FlushStart \/ FlushBuild \/ FlushLog \/ FlushRecord => Keeps
  BY Zenon DEF FlushStart, FlushBuild, FlushLog, FlushRecord, leveler, history
<1>12. LevelPick \/ LevelManual \/ LevelSleep \/ LevelOutput \/ LevelLog => Keeps
  BY Zenon DEF LevelPick, LevelManual, StartCompaction, LevelSleep, LevelOutput, LevelLog, flusher,
         leveler, history
<1>13. (\E c \in Callers : CallerEnter(c) \/ CallerLoop(c)) => Keeps
  BY Zenon DEF CallerEnter, CallerLoop, flusher, leveler, history
<1>14. (\E r \in Readers : ReaderRef(r) \/ ReaderUnref(r)) => Keeps
  BY Zenon DEF ReaderRef, ReaderUnref, flusher, leveler, history
<1>15. BackupStart \/ BackupList \/ BackupFinish => Keeps
  BY Zenon DEF BackupStart, BackupList, BackupFinish, flusher, leveler, history
<1>16. Crash \/ LevelNull \/ LevelAssert => Stop
  BY Zenon DEF Crash, LevelNull, LevelAssert
<1> HIDE DEF Keeps
<1> QED
  BY ZenonT(30), <1>1, <1>2, <1>3, <1>4, <1>5, <1>6, <1>7, <1>8, <1>9, <1>10, <1>11, <1>12, <1>13,
     <1>14, <1>15, <1>16 DEF Next, FlushStep, LevelStep, OpenStep

\* ~DBImpl frees the database only when both threads have ended, unless the
\* store behind levels_locked_ has changed their number.
THEOREM ClosingWaits == Spec => []CloseWaits
<1>1. ThreadsInv => CloseWaits
  BY Zenon DEF ThreadsInv
<1> QED BY <1>1, ThreadsInit, ThreadsStep, FilesAlways, PTL DEF Spec

LEMMA ManualInit == Init => ManualInv
BY Zenon DEF Init, ManualInv, ManualKept

\* Only an error lets a caller cancel a compaction that is installed.
LEMMA ManualStep == FilesInv /\ ManualInv /\ [Next]_vars => ManualInv'
<1> SUFFICES ASSUME FilesInv, ManualInv, [Next]_vars
             PROVE  ManualInv'
  BY Zenon
<1> USE DEF ManualInv, ManualKept
<1>1. CASE Stop
  BY Zenon, <1>1 DEF Stop
<1>2. CASE \E c \in Callers : CallerEnter(c)
  BY SMTT(30), <1>2 DEF CallerEnter, memory, leveler
<1>3. CASE \E c \in Callers : CallerLoop(c)
  BY <1>3, TableFilesAssumption DEF CallerLoop, memory
<1>4. CASE LevelPick
  BY Zenon, <1>4 DEF LevelPick, StartCompaction, calls
<1>5. CASE LevelManual
  BY Zenon, <1>5 DEF LevelManual, StartCompaction, calls, leveler
<1>6. CASE LevelRecord \/ LevelFail
  BY Zenon, <1>6 DEF LevelRecord, LevelFail, LevelEnd
<1> DEFINE Keeps == /\ UNCHANGED <<manual, cdone, lman>>
                    /\ bgError' = bgError \/ bgError'
                    /\ lpc' = lpc \/ lpc = "merge" \/ lpc' \in {"check", "asleep", "gone"}
<1>7. CASE Keeps
  BY <1>7 DEF FilesInv, Shape
<1>8. UNCHANGED vars \/ SwitchMemTable \/ Close => Keeps
  BY Zenon DEF vars, SwitchMemTable, Close, memory, leveler, calls
<1>9. FlushStart \/ FlushLog \/ FlushExit => Keeps
  BY Zenon DEF FlushStart, FlushLog, FlushExit, memory, leveler, calls
<1>10. FlushBuild \/ FlushRecord => Keeps
  <2>1. FlushBuild => Keeps
    BY Zenon DEF FlushBuild, leveler
  <2>2. FlushRecord => UNCHANGED <<manual, cdone, lman>> /\ (bgError' = bgError \/ bgError')
    BY Zenon DEF FlushRecord
  <2>3. FlushRecord => lpc' = lpc \/ lpc' = "check"
    BY Zenon DEF FlushRecord
  <2>4. FlushRecord => Keeps
    BY Zenon, <2>2, <2>3
  <2> QED BY Zenon, <2>1, <2>4
<1>11. LevelSleep \/ LevelOutput \/ LevelLog \/ LevelExit => Keeps
  BY Zenon DEF LevelSleep, LevelOutput, LevelLog, LevelExit, memory, calls
<1>12. (\E r \in Readers : ReaderRef(r) \/ ReaderUnref(r)) => Keeps
  BY Zenon DEF ReaderRef, ReaderUnref, memory, leveler, calls
<1>13. BackupStart \/ BackupList \/ BackupFinish => Keeps
  BY Zenon DEF BackupStart, BackupList, BackupFinish, memory, leveler, calls
<1>14. Recover \/ ReplayLog \/ OpenDB \/ OpenFails => Keeps
  BY Zenon DEF Recover, ReplayLog, OpenDB, OpenFails, memory, leveler, calls
<1>15. CloseDone => Stop \/ Keeps
  BY Zenon DEF CloseDone, memory, leveler, calls
<1>16. Crash \/ LevelNull \/ LevelAssert => Stop
  BY Zenon DEF Crash, LevelNull, LevelAssert
<1> HIDE DEF Keeps
<1> QED
  BY ZenonT(30), <1>1, <1>2, <1>3, <1>4, <1>5, <1>6, <1>7, <1>8, <1>9, <1>10, <1>11, <1>12, <1>13,
     <1>14, <1>15, <1>16 DEF Next, FlushStep, LevelStep, OpenStep

\* The level thread finds its manual compaction again, unless an error came.
THEOREM ManualStays == Spec => []ManualKept
<1>1. ManualInv => ManualKept
  BY Zenon DEF ManualInv
<1> QED BY <1>1, ManualInit, ManualStep, FilesAlways, PTL DEF Spec

-----------------------------------------------------------------------------
(* Where the pieces of the memtables are.                                  *)

Kept(g, P, U) == g \in U \/ \A p \in Contents[g] : <<g, p>> \in P

\* Generation g is in the tables S, but for what the code gives up.
Safe(g, S) == Kept(g, DataOf(S) \cup lost, unlogged)

Alive == status \in {"run", "closing", "closed"}

\* Each generation has one log, with a number of its own.
LogsOK ==
  /\ \A l \in logs : l.gen <= mem
  /\ \A k, l \in logs : k.gen = l.gen => k = l
  /\ Alive => \A l \in logs : l.num < nextFile
  /\ logNum \in Nat /\ manifest.log \in Nat /\ rec.log \in Nat

\* With the logs, a MANIFEST that reads m gives all generations back.
Opens(m) ==
  /\ \A g \in Gens : g < mem /\ g # imm => Safe(g, m.files)
  /\ \E l \in logs : l.gen = mem /\ l.num >= m.log /\ l.num >= logNum
  /\ imm # 0 =>
       \E l \in logs : /\ l.gen = imm /\ l.num >= logNum
                       /\ l.num >= m.log \/ Safe(imm, m.files)

Placed ==
  /\ Opens(manifest)
  /\ \A g \in Gens : g < mem /\ g # imm => Safe(g, current)

\* The edits under way: a flush's tables hold the frozen memtable, and a
\* merge has written or still has to write all that its inputs hold.
Edited ==
  /\ fpc \in {"wait", "log"} => Safe(imm, fadd)
  /\ fpc = "log" => \E l \in logs : l.gen = mem /\ l.num = rec.log
  /\ lpc \in {"merge", "log"} => DataOf(lins) \subseteq DataOf(louts) \cup ltodo
  /\ lpc = "log" => ltodo = {} /\ rec.log = logNum

\* What DB::Open has not replayed yet is in the logs it still has to read.
Replaying ==
  /\ redo \subseteq logs
  /\ \A g \in Gens : g <= mem =>
       Safe(g, current \cup fadd) \/ g \in redoBad \/ \E l \in redo : l.gen = g

PiecesInv ==
  /\ LogsOK
  /\ Alive => Placed /\ Edited
  /\ ~Alive => imm = 0 /\ DataRecoverable
  /\ status = "replay" => Replaying

LEMMA PiecesSame ==
  ASSUME NEW d, NEW e, NEW S, NEW T, S \subseteq T, \A n \in S : e[n] = d[n]
  PROVE  UNION {d[n] : n \in S} \subseteq UNION {e[n] : n \in T}
BY Zenon

LEMMA KeptMore ==
  ASSUME NEW g, NEW P, NEW Q, NEW U, NEW V, P \subseteq Q, U \subseteq V, Kept(g, P, U)
  PROVE  Kept(g, Q, V)
BY Zenon DEF Kept

\* What was given up once stays given up.
LEMMA HistoryGrows ==
  ASSUME [Next]_vars
  PROVE  lost \subseteq lost' /\ unlogged \subseteq unlogged'
<1> DEFINE Grow == lost \subseteq lost' /\ unlogged \subseteq unlogged'
<1>1. Stop => Grow
  BY Zenon DEF Stop
<1>2. UNCHANGED vars \/ SwitchMemTable \/ Close => Grow
  BY Zenon DEF vars, SwitchMemTable, Close, history
<1>3. FlushStart \/ FlushLog \/ FlushExit => Grow
  BY Zenon DEF FlushStart, FlushLog, FlushExit, history
<1>4. FlushBuild \/ ReplayLog => Grow
  <2>1. \A g, r, cut, fate : BuildLevel0Tables(g, r, cut, fate) => lost \subseteq lost'
    BY DEF BuildLevel0Tables
  <2>2. FlushBuild => \E g, r, cut, fate : BuildLevel0Tables(g, r, cut, fate)
    BY Zenon DEF FlushBuild
  <2>3. ReplayLog => \E g, r, cut, fate : BuildLevel0Tables(g, r, cut, fate)
    BY Zenon DEF ReplayLog
  <2>4. FlushBuild \/ ReplayLog => unlogged' = unlogged
    BY Zenon DEF FlushBuild, ReplayLog
  <2> QED BY Zenon, <2>1, <2>2, <2>3, <2>4
<1>5. FlushRecord => Grow
  BY Zenon DEF FlushRecord
<1>6. LevelPick \/ LevelManual \/ LevelSleep \/ LevelLog \/ LevelExit => Grow
  BY Zenon DEF LevelPick, LevelManual, LevelSleep, LevelLog, LevelExit, history
<1>7. LevelOutput \/ LevelRecord \/ LevelFail => Grow
  BY Zenon DEF LevelOutput, LevelRecord, LevelFail
<1>8. (\E c \in Callers : CallerEnter(c) \/ CallerLoop(c)) => Grow
  BY Zenon DEF CallerEnter, CallerLoop, history
<1>9. (\E r \in Readers : ReaderRef(r) \/ ReaderUnref(r)) => Grow
  BY Zenon DEF ReaderRef, ReaderUnref, history
<1>10. BackupStart \/ BackupList \/ BackupFinish => Grow
  BY Zenon DEF BackupStart, BackupList, BackupFinish, history
<1>11. Recover \/ OpenDB \/ OpenFails => Grow
  BY Zenon DEF Recover, OpenDB, OpenFails, history
<1>12. CloseDone => Stop \/ Grow
  BY Zenon DEF CloseDone, history
<1>13. Crash \/ LevelNull \/ LevelAssert => Stop
  BY Zenon DEF Crash, LevelNull, LevelAssert
<1> HIDE DEF Grow
<1>14. Grow
  BY ZenonT(30), <1>1, <1>2, <1>3, <1>4, <1>5, <1>6, <1>7, <1>8, <1>9, <1>10, <1>11, <1>12, <1>13
     DEF Next, FlushStep, LevelStep, OpenStep
<1> QED BY Zenon, <1>14 DEF Grow

\* So what is in tables in use stays there.
LEMMA SafeStays ==
  ASSUME FilesInv, [Next]_vars, NEW g, NEW S, NEW T,
         S \subseteq InUse, S \subseteq T, Safe(g, S)
  PROVE  Kept(g, (UNION {data'[n] : n \in T}) \cup lost', unlogged')
<1>1. UNION {data[n] : n \in S} \subseteq UNION {data'[n] : n \in T}
  BY Zenon, InUseSame, PiecesSame
<1>2. (UNION {data[n] : n \in S}) \cup lost \subseteq (UNION {data'[n] : n \in T}) \cup lost'
  BY Zenon, <1>1, HistoryGrows
<1> QED BY Zenon, <1>2, HistoryGrows, KeptMore DEF Safe, DataOf

LEMMA SafeMore ==
  ASSUME NEW g, NEW S, NEW T, S \subseteq T, Safe(g, S)
  PROVE  Safe(g, T)
<1>1. DataOf(S) \subseteq DataOf(T)
  BY Zenon DEF DataOf
<1> QED BY Zenon, <1>1 DEF Safe, Kept

\* Replacing the inputs of a merge by its outputs loses nothing.
LEMMA SafeMerge ==
  ASSUME NEW g, NEW S, Safe(g, S), DataOf(lins) \subseteq DataOf(louts)
  PROVE  Safe(g, (S \ lins) \cup louts)
<1>1. DataOf(S) \subseteq DataOf((S \ lins) \cup louts)
  BY Zenon DEF DataOf
<1> QED BY Zenon, <1>1 DEF Safe, Kept

\* Numbers, for arithmetic.
LEMMA PieceTypes ==
  ASSUME FilesInv
  PROVE  /\ Gens \subseteq Nat \ {0} /\ mem \in Nat /\ imm \in Nat /\ nextFile \in Nat
         /\ \A l \in logs : l.gen \in Nat /\ l.num \in Nat
<1>1. /\ mem \in Gens /\ imm \in Gens \cup {0} /\ nextFile \in Nat
      /\ \A l \in logs : l.gen \in Gens /\ l.num \in Nat
  BY Zenon DEF FilesInv, Shape
<1>2. Gens \subseteq Nat \ {0} /\ 0 \in Nat
  BY Zenon, TableFilesAssumption
<1> QED BY Zenon, <1>1, <1>2

\* A record that LogAndApply writes does not spoil the MANIFEST.
LEMMA RecordOpens ==
  ASSUME FilesInv, PiecesInv, Alive, occupied \in {"flush", "level"}
  PROVE  Opens(Apply(manifest, rec))
<1> DEFINE F == (manifest.files \ rec.del) \cup rec.add
<1>a. Apply(manifest, rec).files = F /\ Apply(manifest, rec).log = rec.log
  BY Zenon DEF Apply
<1>p. LogsOK /\ Placed /\ Edited
  BY Zenon DEF PiecesInv
<1>q. PICK k \in logs : k.gen = mem /\ k.num >= manifest.log /\ k.num >= logNum
  BY Zenon, <1>p DEF Placed, Opens
<1>1. CASE occupied = "flush"
  <2>1. fpc = "log" /\ rec.add = fadd /\ rec.del = {}
    BY Zenon, <1>1 DEF FilesInv, Turns
  <2>2. manifest.files \subseteq F /\ fadd \subseteq F
    BY Zenon, <2>1
  <2>3. PICK l \in logs : l.gen = mem /\ l.num = rec.log
    BY Zenon, <1>p, <2>1 DEF Edited
  <2>4. l = k
    BY Zenon, <1>p, <1>q, <2>3 DEF LogsOK
  <2>5. l.num >= rec.log
    BY <2>3, PieceTypes
  <2>6. \A g \in Gens : g < mem /\ g # imm => Safe(g, F)
    <3>1. \A g \in Gens : g < mem /\ g # imm => Safe(g, manifest.files)
      BY Zenon, <1>p DEF Placed, Opens
    <3> HIDE DEF F
    <3> QED BY Zenon, <2>2, <3>1, SafeMore
  <2>7. Safe(imm, F)
    BY Zenon, <1>p, <2>1, <2>2, SafeMore DEF Edited
  <2>8. imm # 0 => \E i \in logs : i.gen = imm /\ i.num >= logNum
    BY Zenon, <1>p DEF Placed, Opens
  <2> HIDE DEF F
  <2> QED BY Zenon, <1>a, <1>q, <2>3, <2>4, <2>5, <2>6, <2>7, <2>8 DEF Opens
<1>2. CASE occupied = "level"
  <2>1. lpc = "log" /\ rec.add = louts /\ rec.del = lins
    BY Zenon, <1>2 DEF FilesInv, Turns
  <2>2. rec.log = logNum /\ DataOf(lins) \subseteq DataOf(louts)
    BY Zenon, <1>p, <2>1 DEF Edited
  <2>5. \A g \in Gens : g < mem /\ g # imm => Safe(g, F)
    <3>1. \A g \in Gens : g < mem /\ g # imm => Safe(g, manifest.files)
      BY Zenon, <1>p DEF Placed, Opens
    <3> QED BY Zenon, <2>1, <2>2, <3>1, SafeMerge
  <2>6. imm # 0 => \E i \in logs : i.gen = imm /\ i.num >= logNum
    BY Zenon, <1>p DEF Placed, Opens
  <2> HIDE DEF F
  <2> QED BY Zenon, <1>a, <1>q, <2>2, <2>5, <2>6 DEF Opens
<1> QED BY Zenon, <1>1, <1>2

\* What such a MANIFEST and the logs give back.
LEMMA OpensRecover ==
  ASSUME FilesInv, NEW m, Opens(m), NEW g \in Gens, g <= mem
  PROVE  Safe(g, m.files) \/ \E l \in logs : l.gen = g /\ l.num >= m.log
<1>1. g = mem \/ g < mem
  BY PieceTypes
<1>2. g # 0
  BY Zenon, PieceTypes
<1> QED BY Zenon, <1>1, <1>2 DEF Opens

\* The same, as the property has it.
LEMMA RecoverForm ==
  ASSUME UNCHANGED <<data, logs, mem, lost, unlogged>>,
         \A g \in Gens : g <= mem =>
           \/ Safe(g, manifest'.files)
           \/ \E l \in logs : l.gen = g /\ l.num >= manifest'.log
  PROVE  DataRecoverable'
<1>1. DataOf(manifest'.files) = DataOf(manifest.files)'
  BY Zenon DEF DataOf
<1>2. \A g \in Gens : g <= mem =>
        \/ \E l \in logs : l.gen = g /\ l.num >= manifest'.log
        \/ g \in unlogged
        \/ \A p \in Contents[g] : <<g, p>> \in DataOf(manifest'.files) \/ <<g, p>> \in lost
  BY Zenon DEF Safe, Kept
<1> QED BY Zenon, <1>1, <1>2 DEF DataRecoverable

\* A step that leaves the memtables alone and keeps the logs from LogNumber() on.
LEMMA OpensStays ==
  ASSUME FilesInv, LogsOK, [Next]_vars, NEW m, m.files \subseteq InUse, Opens(m),
         manifest'.files = m.files, manifest'.log = m.log, UNCHANGED <<mem, imm, logNum>>,
         logs' = logs \/ logs' = {l \in logs : l.num >= logNum}
  PROVE  Opens(manifest)'
<1>1. \A g : Safe(g, m.files) => Safe(g, manifest.files)'
  <2>1. \A g : Safe(g, m.files) =>
          Kept(g, (UNION {data'[n] : n \in m.files}) \cup lost', unlogged')
    BY Zenon, SafeStays
  <2> QED BY Zenon, <2>1 DEF Safe, DataOf
<1>2. \A l \in logs : l.num >= logNum => l \in logs'
  BY Zenon
<1> QED BY Zenon, <1>1, <1>2 DEF Opens

LEMMA PiecesInit == Init => PiecesInv
<1> SUFFICES ASSUME Init PROVE PiecesInv
  BY Zenon
<1>1. LogsOK
  BY DEF Init, LogsOK, NoEdit
<1>2. \A g \in Gens : ~(g < mem)
  BY TableFilesAssumption DEF Init
<1>3. Placed
  BY <1>2 DEF Init, Placed, Opens
<1> QED BY Zenon, <1>1, <1>3 DEF Init, PiecesInv, Edited, Alive

\* Steps that touch no log, no table and no edit.
Still ==
  /\ UNCHANGED <<data, logs, mem, imm, current, logNum, rec, manifest, fadd, lins, louts,
                 ltodo, redo, redoBad, lost, unlogged>>
  /\ nextFile' = nextFile \/ nextFile' = nextFile + LastGuard + 1
  /\ fpc' = fpc \/ fpc' \notin {"wait", "log"}
  /\ lpc' = lpc \/ lpc' \notin {"merge", "log"}
  /\ Alive' <=> Alive
  /\ status' = "replay" <=> status = "replay"

LEMMA StillCases ==
  ASSUME FilesInv, [Next]_vars
  PROVE  \/ Still \/ (Opened /\ Stop) \/ Merges \/ SwitchMemTable
         \/ FlushBuild \/ FlushLog \/ FlushRecord
         \/ LevelOutput \/ LevelLog \/ LevelRecord \/ LevelFail
         \/ Recover \/ ReplayLog \/ OpenDB \/ OpenFails
<1>1. Quiet => Still
  <2> SUFFICES ASSUME Quiet PROVE Still
    BY Zenon
  <2>1. /\ UNCHANGED <<data, logs, mem, imm, current, logNum, nextFile, rec, manifest, fadd,
                       lins, louts, ltodo, redo, redoBad, lost, unlogged>>
        /\ fpc' = fpc \/ fpc' = "gone"
        /\ lpc' = lpc \/ lpc' \in {"check", "asleep", "gone"}
    BY Zenon DEF Quiet, disks, memory, journal
  <2>2. (Alive' <=> Alive) /\ (status' = "replay" <=> status = "replay")
    BY Zenon DEF Quiet, Alive, Up
  <2> QED BY Zenon, <2>1, <2>2 DEF Still
<1>2. Holding => Still
  BY Zenon DEF Still, Holding, Alive, disks, memory, journal, flusher, leveler
<1>3. FlushStart => Still
  BY Zenon DEF Still, FlushStart, Alive, disks, journal, leveler, redoing, history
<1>4. BackupStart \/ BackupList \/ BackupFinish => Still
  BY Zenon DEF Still, BackupStart, BackupList, BackupFinish, Alive, disks, memory, journal,
     flusher, leveler, redoing, history
<1> QED BY Zenon, Actions, ReaderKind, <1>1, <1>2, <1>3, <1>4

-----------------------------------------------------------------------------
(* Every step keeps the pieces.                                            *)

\* Tables of the versions and of the MANIFEST are in use.
LEMMA Used == current \subseteq InUse /\ manifest.files \subseteq InUse /\ fadd \subseteq InUse
              /\ louts \subseteq InUse /\ (FilesInv => lins \subseteq InUse)
BY Zenon DEF InUse, LiveFiles, FilesInv, Turns

LEMMA StillStep ==
  ASSUME FilesInv, PiecesInv, Still
  PROVE  PiecesInv'
<1>1. LogsOK'
  <2>1. UNCHANGED <<logs, mem, logNum, manifest, rec>> /\ (Alive' <=> Alive)
    BY Zenon DEF Still
  <2>2. \A n \in Nat : n < nextFile => n < nextFile'
    <3>1. nextFile' = nextFile \/ nextFile' = nextFile + LastGuard + 1
      BY Zenon DEF Still
    <3> QED BY <3>1, PieceTypes, TableFilesAssumption
  <2> QED BY Zenon, <2>1, <2>2, PieceTypes DEF PiecesInv, LogsOK
<1>2. \A g, S : Safe(g, S) <=> Kept(g, (UNION {data'[n] : n \in S}) \cup lost', unlogged')
  BY Zenon DEF Still, Safe, DataOf
<1>3. Alive' => Placed'
  <2>1. UNCHANGED <<logs, mem, imm, logNum, manifest, current>> /\ (Alive' <=> Alive)
    BY Zenon DEF Still
  <2> QED BY Zenon, <1>2, <2>1 DEF PiecesInv, Placed, Opens, Safe, DataOf
<1>4. Alive' => Edited'
  <2>1. UNCHANGED <<logs, mem, imm, logNum, rec, fadd, lins, louts, ltodo, data>>
        /\ (Alive' <=> Alive)
        /\ (fpc' = fpc \/ fpc' \notin {"wait", "log"})
        /\ (lpc' = lpc \/ lpc' \notin {"merge", "log"})
    BY Zenon DEF Still
  <2>2. Edited \/ ~Alive'
    BY Zenon, <2>1 DEF PiecesInv
  <2>3. Edited => (fpc' \in {"wait", "log"} => Safe(imm, fadd)')
    BY Zenon, <1>2, <2>1 DEF Edited, Safe, DataOf
  <2>4. DataOf(lins)' = DataOf(lins) /\ DataOf(louts)' = DataOf(louts)
    BY Zenon, <2>1 DEF DataOf
  <2> QED BY Zenon, <2>1, <2>2, <2>3, <2>4 DEF Edited
<1>5. ~Alive' => imm' = 0 /\ DataRecoverable'
  BY Zenon DEF Still, PiecesInv, DataRecoverable, DataOf
<1>6. status' = "replay" => Replaying'
  <2>1. UNCHANGED <<logs, mem, current, fadd, redo, redoBad>>
        /\ (status' = "replay" <=> status = "replay")
    BY Zenon DEF Still
  <2> QED BY Zenon, <1>2, <2>1 DEF PiecesInv, Replaying, Safe, DataOf
<1> QED BY Zenon, <1>1, <1>3, <1>4, <1>5, <1>6 DEF PiecesInv

\* After a crash the MANIFEST and the logs have everything.
LEMMA StopPieces ==
  ASSUME FilesInv, PiecesInv, Opened, Stop
  PROVE  PiecesInv'
<1>1. /\ UNCHANGED <<data, logs, mem, logNum, lost, unlogged>>
      /\ status' = "down" /\ imm' = 0 /\ rec'.log = 1
  BY Zenon DEF Stop, disks, NoEdit
<1>2. \/ manifest' = manifest
      \/ occupied \in {"flush", "level"} /\ manifest' = Apply(manifest, rec)
  BY Zenon DEF Stop
<1>3. manifest'.log \in Nat /\ rec'.log \in Nat
  BY <1>1, <1>2 DEF PiecesInv, LogsOK, Apply
<1>4. ~Alive' /\ status' # "replay"
  BY Zenon, <1>1 DEF Alive
<1>5. LogsOK'
  BY Zenon, <1>1, <1>3, <1>4 DEF PiecesInv, LogsOK
<1>6. DataRecoverable'
  <2>1. CASE manifest' = manifest /\ ~Alive
    BY Zenon, <1>1, <2>1 DEF PiecesInv, DataRecoverable, DataOf
  <2>2. CASE manifest' = manifest /\ Alive
    <3>1. Opens(manifest)
      BY Zenon, <2>2 DEF PiecesInv, Placed
    <3>2. \A g \in Gens : g <= mem =>
            Safe(g, manifest.files) \/ \E l \in logs : l.gen = g /\ l.num >= manifest.log
      BY Zenon, <3>1, OpensRecover
    <3> QED BY Zenon, <1>1, <2>2, <3>2, RecoverForm
  <2>3. CASE occupied \in {"flush", "level"} /\ manifest' = Apply(manifest, rec)
    <3>1. Alive
      BY Zenon, <2>3 DEF FilesInv, Rest, Opened, Up, Alive
    <3>2. \A g \in Gens : g <= mem =>
            \/ Safe(g, Apply(manifest, rec).files)
            \/ \E l \in logs : l.gen = g /\ l.num >= Apply(manifest, rec).log
      BY Zenon, <2>3, <3>1, RecordOpens, OpensRecover
    <3> QED BY Zenon, <1>1, <2>3, <3>2, RecoverForm
  <2> QED BY Zenon, <1>2, <2>1, <2>2, <2>3
<1> QED BY Zenon, <1>1, <1>4, <1>5, <1>6 DEF PiecesInv

\* A new memtable gets a new log.
LEMMA SwitchPieces ==
  ASSUME FilesInv, PiecesInv, [Next]_vars, SwitchMemTable
  PROVE  PiecesInv'
<1> DEFINE new == [num |-> nextFile, gen |-> mem + 1]
<1>1. /\ imm = 0 /\ imm' = mem /\ mem' = mem + 1 /\ logs' = logs \cup {new}
      /\ nextFile' = nextFile + 1 /\ status' = "run" /\ status = "run"
      /\ UNCHANGED <<data, current, logNum, rec, manifest, fadd, lins, louts, ltodo, fpc, lpc,
                     lost, unlogged>>
  BY Zenon DEF SwitchMemTable, journal, flusher, leveler, history
<1>2. LogsOK /\ Placed /\ Edited /\ Alive /\ Alive'
  BY Zenon, <1>1 DEF PiecesInv, Alive
<1>3. new.gen = mem + 1 /\ new.num = nextFile
  BY Zenon
<1>4. \A l \in logs : l.gen <= mem /\ l.num < nextFile
  BY Zenon, <1>2 DEF LogsOK
<1> HIDE DEF new
<1>5. LogsOK'
  <2>1. \A l \in logs' : l.gen <= mem' /\ l.num < nextFile'
    BY <1>1, <1>3, <1>4, PieceTypes
  <2>2. \A l \in logs : l.gen # new.gen
    BY <1>3, <1>4, PieceTypes
  <2>3. \A k, l \in logs' : k.gen = l.gen => k = l
    BY Zenon, <1>1, <1>2, <2>2 DEF LogsOK
  <2> QED BY Zenon, <1>1, <1>2, <2>1, <2>3 DEF LogsOK
<1>6. PICK k \in logs : k.gen = mem /\ k.num >= manifest.log /\ k.num >= logNum
  BY Zenon, <1>2 DEF Placed, Opens
<1>7. new.num >= manifest.log /\ new.num >= logNum
  <2>1. manifest.log \in Nat /\ logNum \in Nat
    BY Zenon, <1>2 DEF LogsOK
  <2> QED BY <1>3, <1>4, <1>6, <2>1, PieceTypes
<1>8. \A g \in Gens : g < mem' /\ g # imm' => g < mem /\ g # imm
  BY <1>1, PieceTypes
<1>9. Placed'
  BY Zenon, <1>1, <1>2, <1>3, <1>6, <1>7, <1>8 DEF Placed, Opens, Safe, DataOf
<1>10. fpc \notin {"wait", "log"}
  BY Zenon, <1>1, PieceTypes DEF FilesInv, Reservation, Flushing
<1>11. Edited'
  BY ZenonT(30), <1>1, <1>2, <1>10 DEF Edited, DataOf
<1>12. status' # "replay"
  BY Zenon, <1>1
<1> QED BY Zenon, <1>2, <1>5, <1>9, <1>11, <1>12 DEF PiecesInv

\* A build that reports no error leaves each piece in a table or recorded as lost.
LEMMA BuildSafe ==
  ASSUME NEW g \in Gens, NEW r \in Nat \ {0}, r + LastGuard <= MaxFile,
         NEW cut \in 0..(LastGuard + 1), NEW fate \in Fates,
         BuildLevel0Tables(g, r, cut, fate), BuildOK(g, cut, fate)
  PROVE  Kept(g, (UNION {data'[n] : n \in MetaList(g, r, cut, fate)}) \cup lost', unlogged')
<1> SUFFICES ASSUME NEW p \in Contents[g]
             PROVE  \/ <<g, p>> \in UNION {data'[n] : n \in MetaList(g, r, cut, fate)}
                    \/ <<g, p>> \in lost'
  BY Zenon DEF Kept
<1>1. p \in Parts
  BY Zenon, TableFilesAssumption
<1>2. p \in Made(g, cut)
  BY <1>1, TableFilesAssumption DEF BuildOK, Made, Parts
<1>3. CASE fate[p] = "unfinished"
  <2>1. lost' = lost \cup {<<g, q>> : q \in {q \in Contents[g] : fate[q] = "unfinished"}}
    BY Zenon DEF BuildLevel0Tables
  <2> QED BY Zenon, <1>3, <2>1
<1>4. CASE fate[p] # "unfinished"
  <2> DEFINE n == TableNo(g, r, p)
  <2>1. n \in MetaList(g, r, cut, fate)
    BY Zenon, <1>2, <1>4 DEF MetaList
  <2>2. n \in Number
    <3>1. n \in r..(r + LastGuard)
      BY Zenon, <1>1, TableRange
    <3> HIDE DEF n
    <3> QED BY <3>1, TableFilesAssumption DEF Number
  <2>3. data'[n] = {<<g, q>> : q \in {q \in Made(g, cut) : TableNo(g, r, q) = n}}
    BY Zenon, <1>2, <2>2 DEF BuildLevel0Tables
  <2>4. <<g, p>> \in data'[n]
    BY Zenon, <1>2, <2>3
  <2> QED BY Zenon, <2>1, <2>4
<1> QED BY Zenon, <1>3, <1>4

\* A merge under way is not disturbed.
LEMMA MergeStays ==
  ASSUME FilesInv, [Next]_vars, UNCHANGED <<lins, louts, ltodo>>,
         DataOf(lins) \subseteq DataOf(louts) \cup ltodo
  PROVE  (DataOf(lins) \subseteq DataOf(louts) \cup ltodo)'
<1>1. \A n \in lins \cup louts : data'[n] = data[n]
  BY Zenon, InUseSame, Used
<1>2. DataOf(lins)' = DataOf(lins) /\ DataOf(louts)' = DataOf(louts)
  BY Zenon, <1>1 DEF DataOf
<1> QED BY Zenon, <1>2

\* Nor is what the current version holds.
LEMMA CurrentStays ==
  ASSUME FilesInv, [Next]_vars, UNCHANGED <<mem, imm>>, NEW S, S \subseteq InUse, S \subseteq current',
         \A g \in Gens : g < mem /\ g # imm => Safe(g, S)
  PROVE  (\A g \in Gens : g < mem /\ g # imm => Safe(g, current))'
<1>1. \A g \in Gens : g < mem /\ g # imm =>
        Kept(g, (UNION {data'[n] : n \in current'}) \cup lost', unlogged')
  BY Zenon, SafeStays
<1> QED BY Zenon, <1>1 DEF Safe, DataOf

\* The tables of a flush.
LEMMA FlushBuildPieces ==
  ASSUME FilesInv, PiecesInv, [Next]_vars, FlushBuild
  PROVE  PiecesInv'
<1>1. /\ Up /\ fpc = "build"
      /\ UNCHANGED <<status, logs, mem, imm, current, logNum, nextFile, manifest, rec, lpc, lins,
                     louts, ltodo>>
  BY Zenon DEF FlushBuild, journal, leveler
<1>2. LogsOK /\ Placed /\ Edited /\ Alive /\ Alive' /\ status' # "replay"
  BY Zenon, <1>1 DEF PiecesInv, Alive, Up
<1>3. LogsOK'
  BY Zenon, <1>1, <1>2 DEF LogsOK
<1>4. Placed'
  <2>1. Opens(manifest)'
    BY Zenon, <1>1, <1>2, Used, OpensStays DEF Placed
  <2> QED BY Zenon, <1>1, <1>2, <2>1, Used, CurrentStays DEF Placed
<1>5. fpc' \in {"wait", "log"} => Safe(imm, fadd)' /\ fpc' # "log"
  <2> SUFFICES ASSUME fpc' \in {"wait", "log"} PROVE Safe(imm, fadd)' /\ fpc' # "log"
    BY Zenon
  <2>1. imm \in Gens /\ fnew \in Nat \ {0} /\ fnew + LastGuard <= MaxFile
    BY Zenon, <1>1 DEF FilesInv, Reservation, Flushing
  <2>2. PICK cut \in 0..(LastGuard + 1), fate \in Fates :
          /\ BuildLevel0Tables(imm, fnew, cut, fate)
          /\ fpc' = "wait" \/ fpc' = "idle"
          /\ fpc' = "wait" => /\ BuildOK(imm, cut, fate)
                              /\ fadd' = MetaList(imm, fnew, cut, fate)
    BY Zenon DEF FlushBuild
  <2>3. Kept(imm, (UNION {data'[n] : n \in fadd'}) \cup lost', unlogged')
    BY Zenon, <2>1, <2>2, BuildSafe
  <2> QED BY Zenon, <1>1, <2>2, <2>3 DEF Safe, DataOf
<1>6. Edited'
  BY Zenon, <1>1, <1>2, <1>5, MergeStays DEF Edited
<1> QED BY Zenon, <1>2, <1>3, <1>4, <1>6 DEF PiecesInv

\* Its edit, with the number of the memtable's log.
LEMMA FlushLogPieces ==
  ASSUME FilesInv, PiecesInv, FlushLog
  PROVE  PiecesInv'
<1>1. /\ Up /\ fpc = "wait" /\ fpc' = "log" /\ occupied = "none"
      /\ UNCHANGED <<status, data, logs, mem, imm, current, logNum, nextFile, manifest, fadd, lpc,
                     lins, louts, ltodo, lost, unlogged>>
  BY Zenon DEF FlushLog, BeginEdit, disks, memory, leveler, history
<1>2. \E l \in logs : l.gen = mem /\ l.num = rec'.log
  BY DEF FlushLog, BeginEdit
<1>3. LogsOK /\ Placed /\ Edited /\ Alive /\ Alive' /\ status' # "replay"
  BY Zenon, <1>1 DEF PiecesInv, Alive, Up
<1>4. LogsOK'
  BY Zenon, <1>1, <1>2, <1>3, PieceTypes DEF LogsOK
<1>5. Placed'
  BY Zenon, <1>1, <1>3 DEF Placed, Opens, Safe, DataOf
<1>6. lpc # "log"
  BY Zenon, <1>1 DEF FilesInv, Turns
<1>7. Safe(imm, fadd)' /\ DataOf(lins)' = DataOf(lins) /\ DataOf(louts)' = DataOf(louts)
  BY Zenon, <1>1, <1>3 DEF Edited, Safe, DataOf
<1>8. Edited'
  BY Zenon, <1>1, <1>2, <1>3, <1>6, <1>7 DEF Edited
<1> QED BY Zenon, <1>3, <1>4, <1>5, <1>8 DEF PiecesInv

\* Its record: the memtable is dropped, with the logs up to its own.
LEMMA FlushRecordPieces ==
  ASSUME FilesInv, PiecesInv, [Next]_vars, FlushRecord
  PROVE  PiecesInv'
<1>1. /\ Up /\ fpc = "log" /\ fpc' = "idle"
      /\ UNCHANGED <<status, data, mem, nextFile, rec, lins, louts, ltodo>>
  BY Zenon DEF FlushRecord
<1>2. LogsOK /\ Placed /\ Edited /\ Alive /\ Alive' /\ status' # "replay"
  BY Zenon, <1>1 DEF PiecesInv, Alive, Up
<1>3. occupied = "flush" /\ lpc # "log" /\ rec.add = fadd /\ rec.del = {}
  BY Zenon, <1>1 DEF FilesInv, Turns
<1>4. /\ Apply(manifest, rec).files = (manifest.files \ {}) \cup fadd
      /\ Apply(manifest, rec).log = rec.log
  BY Zenon, <1>3 DEF Apply
<1>5. manifest' = manifest \/ manifest' = Apply(manifest, rec)
  BY Zenon DEF FlushRecord, WriteRecord
<1>6. manifest'.log \in Nat
  BY Zenon, <1>2, <1>4, <1>5 DEF LogsOK
<1>7. PICK k \in logs : k.gen = mem /\ k.num >= manifest.log /\ k.num >= logNum /\ k.num = rec.log
  <2>1. \E k \in logs : k.gen = mem /\ k.num >= manifest.log /\ k.num >= logNum
    BY Zenon, <1>2 DEF Placed, Opens
  <2>2. \E k \in logs : k.gen = mem /\ k.num = rec.log
    BY Zenon, <1>1, <1>2 DEF Edited
  <2> QED BY Zenon, <1>2, <2>1, <2>2 DEF LogsOK
<1>8. lpc' \in {"merge", "log"} => lpc' = lpc
  BY Zenon DEF FlushRecord
<1>9. Edited'
  BY Zenon, <1>1, <1>2, <1>3, <1>8, MergeStays DEF Edited
<1>10. CASE /\ current' = current \cup rec.add /\ logNum' = rec.log /\ imm' = 0
            /\ manifest' = manifest => imm \in unlogged'
            /\ logs' = logs \/ logs' = {l \in logs : l.num >= logNum'}
  <2>1. LogsOK'
    BY Zenon, <1>1, <1>2, <1>6, <1>10 DEF LogsOK
  <2>2. k \in logs' /\ k.num >= manifest'.log /\ k.num >= logNum'
    <3>1. k.num >= k.num
      BY PieceTypes
    <3> QED BY Zenon, <1>4, <1>5, <1>7, <1>10, <3>1
  <2>3. ASSUME NEW g \in Gens, g < mem
        PROVE  /\ Kept(g, (UNION {data'[n] : n \in current'}) \cup lost', unlogged')
               /\ Kept(g, (UNION {data'[n] : n \in manifest'.files}) \cup lost', unlogged')
    <3>1. /\ current \subseteq current' /\ fadd \subseteq current'
          /\ manifest.files \subseteq manifest'.files
          /\ manifest' # manifest => fadd \subseteq manifest'.files
      BY Zenon, <1>3, <1>4, <1>5, <1>10
    <3>2. CASE g # imm
      <4>1. Safe(g, current) /\ Safe(g, manifest.files)
        BY Zenon, <1>2, <2>3, <3>2 DEF Placed, Opens
      <4> QED BY Zenon, <3>1, <4>1, Used, SafeStays
    <3>3. CASE g = imm
      <4>1. Safe(g, fadd)
        BY Zenon, <1>1, <1>2, <3>3 DEF Edited
      <4>2. Kept(g, (UNION {data'[n] : n \in current'}) \cup lost', unlogged')
        BY Zenon, <3>1, <4>1, Used, SafeStays
      <4>3. CASE manifest' # manifest
        BY ZenonT(30), <3>1, <4>1, <4>2, <4>3, Used, SafeStays
      <4>4. CASE manifest' = manifest
        BY Zenon, <1>10, <3>3, <4>2, <4>4 DEF Kept
      <4> QED BY Zenon, <4>3, <4>4
    <3> QED BY Zenon, <3>2, <3>3
  <2>4. Placed'
    BY ZenonT(30), <1>1, <1>7, <1>10, <2>2, <2>3 DEF Placed, Opens, Safe, DataOf
  <2> QED BY Zenon, <1>2, <1>9, <2>1, <2>4 DEF PiecesInv
<1>11. CASE UNCHANGED <<current, logNum, imm, unlogged, logs>>
  <2>1. LogsOK'
    BY Zenon, <1>1, <1>2, <1>6, <1>11 DEF LogsOK
  <2>2. Opens(manifest)'
    <3>1. CASE manifest' = manifest
      BY Zenon, <1>1, <1>2, <1>11, <3>1, Used, OpensStays DEF Placed
    <3>2. CASE manifest' = Apply(manifest, rec)
      <4>1. Opens(Apply(manifest, rec)) /\ Apply(manifest, rec).files \subseteq InUse
        BY ZenonT(30), <1>2, <1>3, <1>4, RecordOpens, Used
      <4> QED BY Zenon, <1>1, <1>2, <1>11, <3>2, <4>1, OpensStays
    <3> QED BY Zenon, <1>5, <3>1, <3>2
  <2>3. Placed'
    BY ZenonT(30), <1>1, <1>2, <1>11, <2>2, Used, CurrentStays DEF Placed
  <2> QED BY Zenon, <1>2, <1>9, <2>1, <2>3 DEF PiecesInv
<1> QED BY Zenon, <1>10, <1>11 DEF FlushRecord, DeleteObsoleteFiles

\* A compaction starts with everything to be written.
LEMMA MergesPieces ==
  ASSUME FilesInv, PiecesInv, Merges
  PROVE  PiecesInv'
<1>1. /\ status = "run" /\ status' = "run" /\ lpc' = "merge" /\ louts' = {}
      /\ ltodo' = DataOf(lins')
      /\ UNCHANGED <<data, logs, mem, imm, current, logNum, nextFile, manifest, rec, fadd, fpc,
                     lost, unlogged>>
  BY Zenon DEF Merges, disks, memory, journal, flusher
<1>2. LogsOK /\ Placed /\ Edited /\ Alive /\ Alive' /\ status' # "replay"
  BY Zenon, <1>1 DEF PiecesInv, Alive
<1>3. LogsOK'
  BY Zenon, <1>1, <1>2 DEF LogsOK
<1>4. Placed'
  BY Zenon, <1>1, <1>2 DEF Placed, Opens, Safe, DataOf
<1>5. DataOf(lins)' = ltodo' /\ (fpc' \in {"wait", "log"} => Safe(imm, fadd)')
  BY Zenon, <1>1, <1>2 DEF Edited, Safe, DataOf
<1>6. Edited'
  BY ZenonT(30), <1>1, <1>2, <1>5 DEF Edited
<1> QED BY ZenonT(30), <1>2, <1>3, <1>4, <1>6 DEF PiecesInv

\* An output takes its part over.
LEMMA LevelOutputPieces ==
  ASSUME FilesInv, PiecesInv, [Next]_vars, LevelOutput
  PROVE  PiecesInv'
<1>1. /\ Up /\ lpc = "merge" /\ louts' = louts \cup {nextFile} /\ nextFile' = nextFile + 1
      /\ UNCHANGED <<status, logs, mem, imm, current, logNum, manifest, rec, fadd, fpc, lpc, lins,
                     lost, unlogged>>
  BY Zenon DEF LevelOutput, journal, flusher
<1>2. LogsOK /\ Placed /\ Edited /\ Alive /\ Alive' /\ status' # "replay"
  BY Zenon, <1>1 DEF PiecesInv, Alive, Up
<1>3. LogsOK'
  <2>1. \A n \in Nat : n < nextFile => n < nextFile'
    BY <1>1, PieceTypes
  <2> QED BY ZenonT(30), <1>1, <1>2, <2>1, PieceTypes DEF LogsOK
<1>4. Placed'
  <2>1. Opens(manifest)'
    BY Zenon, <1>1, <1>2, Used, OpensStays DEF Placed
  <2> QED BY Zenon, <1>1, <1>2, <2>1, Used, CurrentStays DEF Placed
<1>5. fpc' \in {"wait", "log"} => Safe(imm, fadd)'
  <2>1. fpc \in {"wait", "log"} => Kept(imm, (UNION {data'[n] : n \in fadd}) \cup lost', unlogged')
    BY Zenon, <1>2, Used, SafeStays DEF Edited
  <2> QED BY Zenon, <1>1, <2>1 DEF Safe, DataOf
<1>6. (DataOf(lins) \subseteq DataOf(louts) \cup ltodo)'
  <2>1. \A n \in lins \cup louts : data'[n] = data[n]
    BY Zenon, InUseSame, Used
  <2>2. PICK part : data' = [data EXCEPT ![nextFile] = part] /\ ltodo' = ltodo \ part
    BY ZenonT(30) DEF LevelOutput
  <2>3. nextFile \in DOMAIN data
    BY PieceTypes, TableFilesAssumption DEF LevelOutput, FilesInv, Shape, Number
  <2>4. data'[nextFile] = part
    BY Zenon, <2>2, <2>3
  <2>5. DataOf(lins)' = DataOf(lins)
    BY Zenon, <1>1, <2>1 DEF DataOf
  <2>6. DataOf(louts) \subseteq DataOf(louts)' /\ part \subseteq DataOf(louts)'
    BY Zenon, <1>1, <2>1, <2>4 DEF DataOf
  <2>7. DataOf(lins) \subseteq DataOf(louts) \cup ltodo
    BY Zenon, <1>1, <1>2 DEF Edited
  <2> QED BY Zenon, <2>2, <2>5, <2>6, <2>7
<1>7. Edited'
  BY ZenonT(30), <1>1, <1>2, <1>5, <1>6 DEF Edited
<1> QED BY Zenon, <1>2, <1>3, <1>4, <1>7 DEF PiecesInv

\* The edit of a compaction has the log number in force.
LEMMA LevelLogPieces ==
  ASSUME FilesInv, PiecesInv, LevelLog
  PROVE  PiecesInv'
<1>1. /\ Up /\ lpc = "merge" /\ ltodo = {} /\ occupied = "none"
      /\ UNCHANGED <<status, data, logs, mem, imm, current, logNum, nextFile, manifest, fadd, fpc,
                     lins, louts, ltodo, lost, unlogged>>
  BY Zenon DEF LevelLog, BeginEdit, disks, memory, flusher, history
<1>2. rec'.log = logNum
  BY Zenon DEF LevelLog, BeginEdit
<1>3. LogsOK /\ Placed /\ Edited /\ Alive /\ Alive' /\ status' # "replay"
  BY Zenon, <1>1 DEF PiecesInv, Alive, Up
<1>4. LogsOK'
  BY Zenon, <1>1, <1>2, <1>3 DEF LogsOK
<1>5. Placed'
  BY Zenon, <1>1, <1>3 DEF Placed, Opens, Safe, DataOf
<1>6. fpc # "log"
  BY Zenon, <1>1 DEF FilesInv, Turns
<1>7. /\ fpc' \in {"wait", "log"} => Safe(imm, fadd)'
      /\ DataOf(lins)' = DataOf(lins) /\ DataOf(louts)' = DataOf(louts)
  BY Zenon, <1>1, <1>3 DEF Edited, Safe, DataOf
<1>8. Edited'
  BY ZenonT(30), <1>1, <1>2, <1>3, <1>6, <1>7 DEF Edited
<1> QED BY Zenon, <1>3, <1>4, <1>5, <1>8 DEF PiecesInv

\* The end of a compaction, with its record or without.
LEMMA LevelEndPieces ==
  ASSUME FilesInv, PiecesInv, [Next]_vars, LevelRecord \/ LevelFail
  PROVE  PiecesInv'
<1>1. /\ Up
      /\ UNCHANGED <<status, data, mem, imm, logNum, nextFile, rec, fadd, fpc, lost, unlogged>>
  BY Zenon DEF LevelRecord, LevelFail, journal, flusher
<1>2. lpc' = "check" /\ (logs' = logs \/ logs' = {l \in logs : l.num >= logNum})
  BY Zenon DEF LevelRecord, LevelFail, LevelEnd, DeleteObsoleteFiles
<1>3. /\ manifest' = manifest \/ (lpc = "log" /\ manifest' = Apply(manifest, rec))
      /\ current' = current \/ (lpc = "log" /\ current' = (current \ rec.del) \cup rec.add)
  BY Zenon DEF LevelRecord, LevelFail, WriteRecord, journal
<1>4. LogsOK /\ Placed /\ Edited /\ Alive /\ Alive' /\ status' # "replay"
  BY Zenon, <1>1 DEF PiecesInv, Alive, Up
<1>5. lpc = "log" => occupied = "level" /\ rec.add = louts /\ rec.del = lins
  BY ZenonT(30) DEF FilesInv, Turns
<1>6. manifest'.log \in Nat
  BY <1>3, <1>4 DEF LogsOK, Apply
<1>7. LogsOK'
  BY Zenon, <1>1, <1>2, <1>4, <1>6 DEF LogsOK
<1>8. Opens(manifest)'
  <2>1. CASE manifest' = manifest
    BY ZenonT(30), <1>1, <1>2, <1>4, <2>1, Used, OpensStays DEF Placed
  <2>2. CASE lpc = "log" /\ manifest' = Apply(manifest, rec)
    <3>1. Apply(manifest, rec).files = (manifest.files \ rec.del) \cup rec.add
      BY Zenon DEF Apply
    <3>2. Opens(Apply(manifest, rec)) /\ Apply(manifest, rec).files \subseteq InUse
      BY Zenon, <1>4, <1>5, <2>2, <3>1, RecordOpens, Used
    <3> QED BY ZenonT(30), <1>1, <1>2, <1>4, <2>2, <3>2, OpensStays
  <2> QED BY Zenon, <1>3, <2>1, <2>2
<1>9. (\A g \in Gens : g < mem /\ g # imm => Safe(g, current))'
  <2>1. CASE current' = current
    BY ZenonT(30), <1>1, <1>4, <2>1, Used, CurrentStays DEF Placed
  <2>2. CASE lpc = "log" /\ current' = (current \ lins) \cup louts
    <3>1. DataOf(lins) \subseteq DataOf(louts)
      BY Zenon, <1>4, <2>2 DEF Edited
    <3>2. \A g \in Gens : g < mem /\ g # imm => Safe(g, (current \ lins) \cup louts)
      BY Zenon, <1>4, <3>1, SafeMerge DEF Placed
    <3> QED BY Zenon, <1>1, <2>2, <3>2, Used, CurrentStays
  <2> QED BY Zenon, <1>3, <1>5, <2>1, <2>2
<1>10. Edited'
  <2>1. fpc' \in {"wait", "log"} => Safe(imm, fadd)'
    BY Zenon, <1>1, <1>4 DEF Edited, Safe, DataOf
  <2>2. fpc = "log" => \E l \in logs' : l.gen = mem /\ l.num = rec.log
    <3>1. \E k \in logs : k.gen = mem /\ k.num >= logNum
      BY Zenon, <1>4 DEF Placed, Opens
    <3>2. fpc = "log" => \E l \in logs : l.gen = mem /\ l.num = rec.log
      BY Zenon, <1>4 DEF Edited
    <3> QED BY Zenon, <1>2, <1>4, <3>1, <3>2 DEF LogsOK
  <2> QED BY Zenon, <1>1, <1>2, <2>1, <2>2 DEF Edited
<1> QED BY ZenonT(30), <1>4, <1>7, <1>8, <1>9, <1>10 DEF PiecesInv, Placed

\* DB::Open starts from what can be recovered.
LEMMA RecoverPieces ==
  ASSUME FilesInv, PiecesInv, Recover
  PROVE  PiecesInv'
<1>1. /\ status = "down" /\ status' \in {"replay", "missing"}
      /\ UNCHANGED <<data, logs, mem, imm, manifest, rec, fadd, redoBad, lost, unlogged>>
  BY Zenon DEF Recover, disks, journal, flusher, history
<1>2. LogsOK /\ ~Alive /\ ~Alive' /\ imm = 0 /\ DataRecoverable
  BY Zenon, <1>1 DEF PiecesInv, Alive
<1>3. LogsOK'
  BY Zenon, <1>1, <1>2 DEF Recover, LogsOK
<1>4. DataRecoverable'
  BY Zenon, <1>1, <1>2 DEF DataRecoverable, DataOf
<1>5. CASE status' = "replay"
  <2>1. current' = manifest.files /\ redo' = {l \in logs : l.num >= manifest.log} /\ fadd = {}
    BY Zenon, <1>1, <1>5 DEF Recover, FilesInv, Rest
  <2>2. \A g \in Gens : g <= mem =>
          Safe(g, manifest.files) \/ \E l \in logs : l.gen = g /\ l.num >= manifest.log
    <3>1. \A g \in Gens, p \in Parts : g <= mem /\ p \in Contents[g] =>
            \/ \E l \in logs : l.gen = g /\ l.num >= manifest.log
            \/ <<g, p>> \in DataOf(manifest.files) \cup lost
            \/ g \in unlogged
      BY Zenon, <1>2 DEF DataRecoverable
    <3>2. \A g \in Gens : Contents[g] \subseteq Parts
      BY Zenon, TableFilesAssumption
    <3> QED BY Zenon, <3>1, <3>2 DEF Safe, Kept
  <2>3. \A g : Safe(g, manifest.files) => Safe(g, current \cup fadd)'
    BY Zenon, <1>1, <2>1 DEF Safe, DataOf, Kept
  <2>4. Replaying'
    BY Zenon, <1>1, <2>1, <2>2, <2>3 DEF Replaying
  <2> QED BY Zenon, <1>1, <1>2, <1>3, <1>4, <2>4 DEF PiecesInv
<1>6. CASE status' = "missing"
  BY Zenon, <1>1, <1>2, <1>3, <1>4, <1>6 DEF PiecesInv
<1> QED BY Zenon, <1>1, <1>5, <1>6

\* A log is replayed into tables, or its generation is given up.
LEMMA ReplayPieces ==
  ASSUME FilesInv, PiecesInv, [Next]_vars, ReplayLog
  PROVE  PiecesInv'
<1>1. /\ status = "replay" /\ nextFile + LastGuard < MaxFile
      /\ UNCHANGED <<status, logs, mem, imm, current, logNum, manifest, rec, unlogged>>
  BY Zenon DEF ReplayLog, journal
<1>2. LogsOK /\ ~Alive /\ ~Alive' /\ imm = 0 /\ DataRecoverable /\ Replaying
  BY Zenon, <1>1 DEF PiecesInv, Alive
<1>3. LogsOK'
  BY Zenon, <1>1, <1>2 DEF LogsOK
<1>4. DataRecoverable'
  <2>1. DataOf(manifest.files) \subseteq DataOf(manifest.files)'
    BY Zenon, <1>1, InUseSame, Used DEF DataOf
  <2> QED BY Zenon, <1>1, <1>2, <2>1, HistoryGrows DEF DataRecoverable
<1>5. PICK l \in redo, cut \in 0..(LastGuard + 1), fate \in Fates :
        /\ BuildLevel0Tables(l.gen, nextFile, cut, fate)
        /\ redo' = redo \ {l}
        /\ \/ /\ BuildOK(l.gen, cut, fate) /\ redoBad' = redoBad
              /\ fadd' = fadd \cup MetaList(l.gen, nextFile, cut, fate)
           \/ redoBad' = redoBad \cup {l.gen} /\ fadd' = fadd
  BY ZenonT(30) DEF ReplayLog
<1>6. Replaying'
  <2>1. l.gen \in redoBad' \/ Safe(l.gen, current \cup fadd)'
    <3> SUFFICES ASSUME BuildOK(l.gen, cut, fate),
                        fadd' = fadd \cup MetaList(l.gen, nextFile, cut, fate)
                 PROVE  Safe(l.gen, current \cup fadd)'
      BY Zenon, <1>5
    <3>1. l.gen \in Gens /\ nextFile \in Nat \ {0} /\ nextFile + LastGuard <= MaxFile
      <4>1. l.gen \in Gens /\ nextFile \in Nat \ {0}
        BY Zenon DEF FilesInv, Shape
      <4> QED BY <1>1, <4>1, TableFilesAssumption
    <3>2. Kept(l.gen, (UNION {data'[n] : n \in MetaList(l.gen, nextFile, cut, fate)}) \cup lost',
               unlogged')
      BY Zenon, <1>5, <3>1, BuildSafe
    <3>3. MetaList(l.gen, nextFile, cut, fate) \subseteq (current \cup fadd)'
      BY Zenon
    <3> QED BY Zenon, <3>2, <3>3 DEF Safe, DataOf, Kept
  <2>2. \A g : Safe(g, current \cup fadd) => Safe(g, current \cup fadd)'
    <3>1. current \cup fadd \subseteq (current \cup fadd)' /\ current \cup fadd \subseteq InUse
      BY Zenon, <1>1, <1>5, Used
    <3>2. \A g : Safe(g, current \cup fadd) =>
            Kept(g, (UNION {data'[n] : n \in (current \cup fadd)'}) \cup lost', unlogged')
      BY Zenon, <3>1, SafeStays
    <3> QED BY Zenon, <3>2 DEF Safe, DataOf
  <2>3. redo' \subseteq logs' /\ redoBad \subseteq redoBad'
    BY Zenon, <1>1, <1>2, <1>5 DEF Replaying
  <2>4. \A g : (\E k \in redo : k.gen = g) => g = l.gen \/ \E k \in redo' : k.gen = g
    BY Zenon, <1>5
  <2> QED BY Zenon, <1>1, <1>2, <2>1, <2>2, <2>3, <2>4 DEF Replaying
<1> QED BY Zenon, <1>1, <1>2, <1>3, <1>4, <1>6 DEF PiecesInv

\* The new MANIFEST names all that was recovered.
LEMMA OpenPieces ==
  ASSUME FilesInv, PiecesInv, OpenDB
  PROVE  PiecesInv'
<1> DEFINE new == [num |-> nextFile, gen |-> mem + 1]
<1>1. /\ status = "replay" /\ status' = "run" /\ redo = {} /\ mem' = mem + 1
      /\ current' = current \cup fadd /\ logs' = {new} /\ logNum' = nextFile
      /\ nextFile' = nextFile + 1
      /\ manifest' = [files |-> current', next |-> nextFile', log |-> nextFile]
      /\ lost' = lost \cup {x \in Piece : x[1] \in redoBad /\ x[2] \in Contents[x[1]]}
      /\ UNCHANGED <<data, imm, rec, fpc, lpc, unlogged>>
  BY Zenon DEF OpenDB, leveler
<1>2. LogsOK /\ imm = 0 /\ Replaying /\ Alive' /\ status' # "replay"
  BY Zenon, <1>1 DEF PiecesInv, Alive
<1>3. new.gen = mem + 1 /\ new.num = nextFile /\ manifest'.files = current' /\ manifest'.log = nextFile
  BY Zenon, <1>1
<1> HIDE DEF new
<1>4. LogsOK'
  <2>1. new.gen <= mem' /\ new.num < nextFile' /\ logNum' \in Nat /\ manifest'.log \in Nat
    BY <1>1, <1>3, PieceTypes
  <2> QED BY ZenonT(30), <1>1, <1>2, <2>1 DEF LogsOK
<1>5. ASSUME NEW g \in Gens, g < mem'
      PROVE  Safe(g, current)'
  <2>1. g <= mem
    BY <1>1, <1>5, PieceTypes
  <2>2. Safe(g, current \cup fadd) \/ g \in redoBad
    BY Zenon, <1>1, <1>2, <2>1 DEF Replaying
  <2>3. CASE Safe(g, current \cup fadd)
    BY Zenon, <1>1, <2>3 DEF Safe, DataOf, Kept
  <2>4. CASE g \in redoBad
    <3>1. \A p \in Contents[g] : <<g, p>> \in Piece
      BY Zenon, TableFilesAssumption DEF Piece
    <3>2. \A p \in Contents[g] : <<g, p>> \in lost'
      BY Zenon, <1>1, <2>4, <3>1
    <3> QED BY Zenon, <3>2 DEF Safe, Kept
  <2> QED BY ZenonT(30), <2>2, <2>3, <2>4
<1>6. Placed'
  <2>1. new.num >= manifest'.log /\ new.num >= logNum'
    BY <1>1, <1>3, PieceTypes
  <2>2. \A g : Safe(g, current)' => Safe(g, manifest.files)'
    BY Zenon, <1>3 DEF Safe, DataOf
  <2> QED BY ZenonT(30), <1>1, <1>2, <1>3, <1>5, <2>1, <2>2 DEF Placed, Opens
<1>7. Edited'
  BY Zenon, <1>1 DEF Edited, FilesInv, Rest
<1> QED BY Zenon, <1>2, <1>4, <1>6, <1>7 DEF PiecesInv

\* An open that fails changes nothing that is needed.
LEMMA OpenFailsPieces ==
  ASSUME FilesInv, PiecesInv, OpenFails
  PROVE  PiecesInv'
<1>1. /\ status = "replay" /\ status' = "down"
      /\ UNCHANGED <<data, logs, mem, imm, logNum, manifest, rec, lost, unlogged>>
  BY Zenon DEF OpenFails, disks, journal, history
<1>2. LogsOK /\ ~Alive /\ ~Alive' /\ imm = 0 /\ DataRecoverable
  BY Zenon, <1>1 DEF PiecesInv, Alive
<1>3. LogsOK'
  BY Zenon, <1>1, <1>2 DEF LogsOK
<1>4. DataRecoverable'
  BY Zenon, <1>1, <1>2 DEF DataRecoverable, DataOf
<1> QED BY Zenon, <1>1, <1>2, <1>3, <1>4 DEF PiecesInv

LEMMA PiecesStep == FilesInv /\ PiecesInv /\ [Next]_vars => PiecesInv'
BY ZenonT(30), StillCases, StillStep, StopPieces, MergesPieces, SwitchPieces, FlushBuildPieces,
   FlushLogPieces, FlushRecordPieces, LevelOutputPieces, LevelLogPieces, LevelEndPieces,
   RecoverPieces, ReplayPieces, OpenPieces, OpenFailsPieces

LEMMA PiecesAlways == Spec => []PiecesInv
BY PiecesInit, PiecesStep, FilesAlways, PTL DEF Spec

\* Whenever the process stops, the MANIFEST and the logs that the next DB::Open
\* replays hold the data of every memtable, but for the two causes that the
\* property names (LogAndApply, DeleteObsoleteFiles, RecoverLogFile).
THEOREM RecoveryComplete == Spec => []DataRecoverable
<1>1. FilesInv /\ PiecesInv => DataRecoverable
  <2> SUFFICES ASSUME FilesInv, PiecesInv, Alive PROVE DataRecoverable
    BY Zenon DEF PiecesInv
  <2>1. \A g \in Gens : g <= mem =>
          Safe(g, manifest.files) \/ \E l \in logs : l.gen = g /\ l.num >= manifest.log
    BY Zenon, OpensRecover DEF PiecesInv, Placed
  <2> QED BY Zenon, <2>1 DEF DataRecoverable, Safe, Kept
<1> QED BY <1>1, FilesAlways, PiecesAlways, PTL

\* Flushes and compactions never uninstall data: what has left the memtables
\* is in the current version (VersionSet::Builder, LogAndApply).
THEOREM ReadsComplete == Spec => []DataReadable
<1>1. PiecesInv => DataReadable
  BY Zenon DEF PiecesInv, Placed, Alive, Up, DataReadable, Safe, Kept
<1> QED BY <1>1, PiecesAlways, PTL

-----------------------------------------------------------------------------
(* Types.                                                                  *)

Flags ==
  /\ threads \in Int /\ spent \in 0..Budget
  /\ occupied \in {"none", "flush", "level", "backup"}
  /\ lman \in BOOLEAN /\ lout \in 0..LastLevel /\ lfrom \in 0..LastLevel
  /\ manual \in Callers \cup {None}
  /\ cpc \in [Callers -> {"out", "loop", "wait"}] /\ cdone \in [Callers -> BOOLEAN]
  /\ redoOK \in BOOLEAN /\ clobbered \in BOOLEAN

Places ==
  /\ nextFile \in 1..(MaxFile + 1) /\ logNum \in Number /\ fnew \in 0..MaxFile
  /\ disk \subseteq Number /\ current \subseteq Number /\ pending \subseteq Number
  /\ fbase \subseteq Number /\ fadd \subseteq Number /\ fnums \subseteq Number
  /\ lbase \subseteq Number /\ lins \subseteq Number /\ louts \subseteq Number
  /\ blive \subseteq Number /\ broken \subseteq Number
  /\ held \in [Readers -> SUBSET Number]
  /\ rec \in [add : SUBSET Number, del : SUBSET Number, next : 1..(MaxFile + 1), log : Number]
  /\ manifest \in [files : SUBSET Number, next : 1..(MaxFile + 1), log : Number]

Stored ==
  /\ data \in [Number -> SUBSET Piece] /\ lvl \in [Number -> 0..LastLevel]
  /\ logs \subseteq Logs /\ redo \subseteq Logs
  /\ ltodo \subseteq Piece /\ lost \subseteq Piece
  /\ redoBad \subseteq Gens /\ unlogged \subseteq Gens

LEMMA Spending ==
  ASSUME NEW n \in Nat, Spend(n), spent \in 0..Budget
  PROVE  spent' \in 0..Budget
BY TableFilesAssumption DEF Spend

LEMMA SpendingBuild ==
  ASSUME NEW g, NEW cut, NEW fate, Possible(g, cut, fate), spent \in 0..Budget
  PROVE  spent' \in 0..Budget
<1> DEFINE S == {p \in Parts : fate[p] # "ok"}
<1>1. IsFiniteSet(Parts)
  BY FS_Interval, TableFilesAssumption DEF Parts
<1>2. Cardinality(S) \in Nat
  BY Zenon, <1>1, FS_Subset, FS_CardinalityType
<1>3. Spend(Cardinality(S) + (IF cut > LastGuard THEN 0 ELSE 1))
  BY Zenon DEF Possible
<1> HIDE DEF S
<1>4. Cardinality(S) + (IF cut > LastGuard THEN 0 ELSE 1) \in Nat
  BY <1>2
<1> QED BY ZenonT(30), <1>3, <1>4, Spending

\* Flags, counters of threads and callers.
LEMMA FlagsStep ==
  ASSUME FilesInv, Flags, [Next]_vars
  PROVE  Flags'
<1>w. Woken \in [Callers -> {"out", "loop", "wait"}]
  BY Zenon DEF Flags, Woken
<1>s. \A n \in Nat : Spend(n) => spent' \in 0..Budget
  BY Zenon, Spending DEF Flags
<1>n. 1 \in Nat /\ 0 \in 0..LastLevel /\ 0 \in Int /\ 2 \in Int /\ threads - 1 \in Int
  BY TableFilesAssumption DEF Flags
<1>1. CASE Stop /\ (Spend(1) \/ spent' = spent)
  <2>1. spent' \in 0..Budget
    BY Zenon, <1>1, <1>s, <1>n DEF Flags
  <2> QED BY Zenon, <1>1, <1>n, <2>1 DEF Stop, Flags
<1>2. Crash \/ LevelNull \/ LevelAssert => Stop /\ (Spend(1) \/ spent' = spent)
  BY Zenon DEF Crash, LevelNull, LevelAssert
<1> DEFINE Keeps == UNCHANGED <<threads, spent, occupied, lman, lout, lfrom, manual, cpc, cdone,
                               redoOK, clobbered>>
<1>3. Keeps => Flags'
  BY Zenon DEF Flags
<1>4. CloseDone => (Stop /\ spent' = spent) \/ Keeps
  BY Zenon DEF CloseDone, journal, leveler, calls, redoing, history
<1>5. UNCHANGED vars \/ SwitchMemTable \/ FlushStart => Keeps
  BY Zenon DEF vars, SwitchMemTable, FlushStart, journal, leveler, calls, redoing, history
<1>6. LevelSleep \/ LevelOutput \/ Recover => Keeps
  BY Zenon DEF LevelSleep, LevelOutput, Recover, journal, leveler, calls, redoing, history
<1>7. (\E r \in Readers : ReaderUnref(r)) => Keeps
  BY Zenon DEF ReaderUnref, journal, leveler, calls, redoing, history
<1>8. FlushLog \/ LevelLog \/ BackupList \/ BackupFinish => Flags'
  BY Zenon DEF FlushLog, LevelLog, BeginEdit, BackupList, BackupFinish, leveler, calls, redoing,
     history, Flags
<1>9. FlushExit \/ LevelExit => Flags'
  BY Zenon, <1>n DEF FlushExit, LevelExit, journal, leveler, calls, redoing, history, Flags
<1>10. Close \/ BackupStart \/ (\E r \in Readers : ReaderRef(r)) => Flags'
  BY Zenon, <1>s, <1>n
     DEF Close, BackupStart, ReaderRef, journal, leveler, calls, redoing, history, Flags
<1>11. CASE FlushBuild
  <2>1. /\ cpc' = cpc \/ cpc' = Woken
        /\ \E cut, fate : Possible(imm, cut, fate)
        /\ UNCHANGED <<threads, occupied, lman, lout, lfrom, manual, cdone, redoOK, clobbered>>
    BY Zenon, <1>11 DEF FlushBuild, journal, leveler, redoing
  <2>2. spent' \in 0..Budget
    BY Zenon, <2>1, SpendingBuild DEF Flags
  <2> QED BY Zenon, <1>w, <2>1, <2>2 DEF Flags
<1>12. CASE FlushRecord
  <2>1. /\ cpc' = Woken /\ occupied' = "none" /\ (Spend(1) \/ spent' = spent)
        /\ UNCHANGED <<threads, lman, lout, lfrom, manual, cdone, redoOK, clobbered>>
    BY Zenon, <1>12 DEF FlushRecord, redoing
  <2> QED BY Zenon, <1>w, <1>s, <1>n, <2>1 DEF Flags
<1>13. CASE \E c \in Callers : CallerEnter(c)
  BY Zenon, <1>13, <1>s, <1>n DEF CallerEnter, journal, leveler, redoing, history, Flags
<1>14. CASE \E c \in Callers : CallerLoop(c)
  BY ZenonT(30), <1>14 DEF CallerLoop, journal, redoing, history, Flags
<1>15. CASE LevelPick \/ LevelManual
  <2>1. /\ \/ \E from, out \in 0..LastLevel, man \in BOOLEAN : \E ins :
                StartCompaction(man, from, out, ins)
           \/ UNCHANGED <<leveler, spent>>
        /\ UNCHANGED <<threads, journal, redoing, history>>
    <3>1. CASE LevelPick
      <4>1. PICK l \in 0..LastLevel, across \in BOOLEAN :
              /\ IF across THEN l >= LastLevel - 1 ELSE l < LastLevel
              /\ \E ins : StartCompaction(FALSE, l, IF across THEN l ELSE l + 1, ins)
        BY Zenon, <3>1 DEF LevelPick
      <4>2. (IF across THEN l ELSE l + 1) \in 0..LastLevel
        BY <4>1, TableFilesAssumption
      <4> QED BY Zenon, <3>1, <4>1, <4>2 DEF LevelPick
    <3>2. CASE LevelManual
      <4>1. manual \in Callers
        BY Zenon, <3>2 DEF LevelManual, Flags
      <4>2. LevelOf[manual] \in 0..LastLevel /\ LevelOf[manual] + 1 \in 0..LastLevel
        BY <4>1, TableFilesAssumption
      <4> QED BY Zenon, <3>2, <4>2 DEF LevelManual
    <3> QED BY Zenon, <1>15, <3>1, <3>2
  <2>2. manual' \in Callers \cup {None} /\ cpc' \in [Callers -> {"out", "loop", "wait"}]
        /\ cdone' \in [Callers -> BOOLEAN]
    BY Zenon, <1>15, <1>w DEF LevelPick, LevelManual, calls, Flags
  <2> QED BY Zenon, <1>s, <1>n, <2>1, <2>2
        DEF StartCompaction, leveler, journal, redoing, history, Flags
<1>16. CASE LevelRecord \/ LevelFail
  <2>1. /\ occupied' = "none" \/ occupied' = occupied
        /\ Spend(1) \/ spent' = spent
        /\ redoOK' = redoOK
        /\ \E ok \in BOOLEAN : LevelEnd(ok)
    BY Zenon, <1>16 DEF LevelRecord, LevelFail, journal, redoing
  <2>2. /\ lman' = FALSE /\ lfrom' = 0 /\ lout' = 0 /\ cpc' = Woken
        /\ threads' \in {0, threads} /\ clobbered' \in {clobbered, TRUE}
        /\ manual' \in {None, manual}
        /\ cdone' = cdone \/ (manual # None /\ cdone' = [cdone EXCEPT ![manual] = TRUE])
    BY Zenon, <2>1 DEF LevelEnd
  <2>3. cdone' \in [Callers -> BOOLEAN]
    BY Zenon, <2>2 DEF Flags
  <2> QED BY Zenon, <1>w, <1>s, <1>n, <2>1, <2>2, <2>3 DEF Flags
<1>17. CASE ReplayLog
  <2>1. /\ redoOK' \in BOOLEAN /\ \E g, cut, fate : Possible(g, cut, fate)
        /\ UNCHANGED <<threads, occupied, lman, lout, lfrom, manual, cpc, cdone, clobbered>>
    BY ZenonT(30), <1>17 DEF ReplayLog, BuildOK, journal, leveler, calls
  <2>2. spent' \in 0..Budget
    BY Zenon, <2>1, SpendingBuild DEF Flags
  <2> QED BY Zenon, <2>1, <2>2 DEF Flags
<1>18. OpenDB \/ OpenFails => Flags'
  BY Zenon, <1>s, <1>n DEF OpenDB, OpenFails, journal, leveler, calls, history, Flags
<1> HIDE DEF Keeps
<1> QED
  BY ZenonT(30), <1>1, <1>2, <1>3, <1>4, <1>5, <1>6, <1>7, <1>8, <1>9, <1>10, <1>11, <1>12, <1>13,
     <1>14, <1>15, <1>16, <1>17, <1>18 DEF Next, FlushStep, LevelStep, OpenStep

\* A build stays within its numbers, which exist.
LEMMA BuildTypes ==
  ASSUME NEW g \in Gens, NEW r \in Nat \ {0}, r + LastGuard <= MaxFile,
         NEW cut \in 0..(LastGuard + 1), NEW fate \in Fates,
         BuildLevel0Tables(g, r, cut, fate), disk \subseteq Number, broken \subseteq Number, Stored
  PROVE  /\ r..(r + LastGuard) \subseteq Number
         /\ disk' \subseteq Number /\ broken' \subseteq Number
         /\ MetaList(g, r, cut, fate) \subseteq Number /\ Numbers(g, r, cut, fate) \subseteq Number
         /\ data' \in [Number -> SUBSET Piece] /\ lvl' \in [Number -> 0..LastLevel]
         /\ lost' \subseteq Piece
<1>1. r..(r + LastGuard) \subseteq Number
  BY TableFilesAssumption DEF Number
<1>2. /\ Written(g, r, cut, fate) \subseteq Number /\ MetaList(g, r, cut, fate) \subseteq Number
      /\ Numbers(g, r, cut, fate) \subseteq Number
  BY Zenon, <1>1, BuildRange
<1>3. disk' \subseteq Number /\ broken' \subseteq Number
  <2>1. \E X : disk' = (disk \ X) \cup Written(g, r, cut, fate)
    BY Zenon DEF BuildLevel0Tables
  <2>2. \E X : broken' = (broken \ X) \cup (MetaList(g, r, cut, fate) \ Written(g, r, cut, fate))
    BY Zenon DEF BuildLevel0Tables
  <2> QED BY Zenon, <1>2, <2>1, <2>2
<1>4. Contents[g] \subseteq Parts
  BY Zenon, TableFilesAssumption
<1>5. \A S : S \subseteq Contents[g] => {<<g, p>> : p \in S} \subseteq Piece
  <2>1. \A p \in Contents[g] : <<g, p>> \in Piece
    BY Zenon, <1>4 DEF Piece
  <2> QED BY Zenon, <2>1
<1>6. lost' \subseteq Piece
  <2>1. lost' = lost \cup (IF BuildOK(g, cut, fate)
                           THEN {<<g, p>> : p \in {q \in Contents[g] : fate[q] = "unfinished"}}
                           ELSE {})
    BY Zenon DEF BuildLevel0Tables
  <2>2. {<<g, p>> : p \in {q \in Contents[g] : fate[q] = "unfinished"}} \subseteq Piece
    BY Zenon, <1>5
  <2> QED BY Zenon, <2>1, <2>2 DEF Stored
<1>7. data' \in [Number -> SUBSET Piece]
  <2> DEFINE nums == {TableNo(g, r, p) : p \in Made(g, cut)}
             T(n) == {<<g, p>> : p \in {q \in Made(g, cut) : TableNo(g, r, q) = n}}
  <2>1. data' = [n \in Number |-> IF n \in nums THEN T(n) ELSE data[n]]
    BY Zenon DEF BuildLevel0Tables
  <2>2. \A n : T(n) \subseteq Piece
    BY Zenon, <1>5 DEF Made
  <2> HIDE DEF nums, T
  <2> QED BY Zenon, <2>1, <2>2 DEF Stored
<1>8. lvl' \in [Number -> 0..LastLevel]
  <2>1. \E X : lvl' = [n \in Number |-> IF n \in X THEN 0 ELSE lvl[n]]
    BY Zenon DEF BuildLevel0Tables
  <2>2. 0 \in 0..LastLevel
    BY TableFilesAssumption
  <2> QED BY Zenon, <2>1, <2>2 DEF Stored
<1> QED BY ZenonT(30), <1>1, <1>2, <1>3, <1>6, <1>7, <1>8

\* Records of the MANIFEST.
LEMMA RecordTypes ==
  ASSUME Places
  PROVE  Apply(manifest, rec) \in [files : SUBSET Number, next : 1..(MaxFile + 1), log : Number]
BY Zenon DEF Places, Apply

LEMMA EditTypes ==
  ASSUME Places, NEW who, NEW add \in SUBSET Number, NEW del \in SUBSET Number,
         NEW ln \in Number, BeginEdit(who, add, del, ln)
  PROVE  rec' \in [add : SUBSET Number, del : SUBSET Number, next : 1..(MaxFile + 1), log : Number]
BY Zenon DEF Places, BeginEdit

\* File numbers, files and the MANIFEST.
LEMMA PlacesStep ==
  ASSUME FilesInv, Places, Stored, Flags, [Next]_vars
  PROVE  Places'
<1>m. manifest' \in {manifest, Apply(manifest, rec)} =>
        manifest' \in [files : SUBSET Number, next : 1..(MaxFile + 1), log : Number]
  BY Zenon, RecordTypes DEF Places
<1>r. /\ rec.add \subseteq Number /\ rec.log \in Number /\ nextFile \in 1..(MaxFile + 1)
      /\ manifest.next \in 1..(MaxFile + 1) /\ manifest.log \in Number
      /\ manifest.files \subseteq Number
  BY Zenon DEF Places
<1>n. nextFile < MaxFile \/ nextFile <= MaxFile =>
        nextFile + 1 \in 1..(MaxFile + 1) /\ nextFile \in Number
  BY <1>r, TableFilesAssumption DEF Number
<1>h. HeldFiles \subseteq Number
  BY ZenonT(30) DEF HeldFiles, Places
<1>l. \A l \in logs \cup redo : l.num \in Number /\ l.gen \in Gens
  BY Zenon DEF Stored, Logs
<1>z. 0 \in 0..MaxFile
  BY TableFilesAssumption
<1> DEFINE Keeps == UNCHANGED <<nextFile, logNum, fnew, disk, current, pending, fbase, fadd, fnums,
                               lbase, lins, louts, blive, broken, held, rec, manifest>>
<1>1. Keeps => Places'
  BY Zenon DEF Places
<1>2. UNCHANGED vars \/ LevelSleep \/ LevelExit \/ Close => Keeps
  BY Zenon DEF vars, LevelSleep, LevelExit, Close, disks, memory, journal, flusher, leveler, backup,
     history
<1>3. FlushExit \/ BackupStart \/ (\E c \in Callers : CallerEnter(c) \/ CallerLoop(c)) => Keeps
  BY Zenon DEF FlushExit, BackupStart, CallerEnter, CallerLoop, disks, memory, journal, flusher,
     leveler, backup, history
<1>4. CloseDone => Stop \/ Keeps
  BY Zenon DEF CloseDone, disks, memory, journal, flusher, leveler, backup, history
<1>5. CASE Stop
  <2>1. manifest' \in {manifest, Apply(manifest, rec)}
    BY Zenon, <1>5 DEF Stop
  <2>2. rec' \in [add : SUBSET Number, del : SUBSET Number, next : 1..(MaxFile + 1), log : Number]
    <3>1. NoEdit \in [add : SUBSET Number, del : SUBSET Number, next : 1..(MaxFile + 1),
                       log : Number]
      BY TableFilesAssumption DEF NoEdit, Number
    <3> QED BY ZenonT(30), <1>5, <3>1 DEF Stop
  <2> QED BY ZenonT(30), <1>5, <1>m, <1>z, <2>1, <2>2 DEF Stop, disks, Places
<1>6. Crash \/ LevelNull \/ LevelAssert => Stop
  BY Zenon DEF Crash, LevelNull, LevelAssert
<1>7. CASE SwitchMemTable
  <2>1. nextFile' \in 1..(MaxFile + 1)
    BY Zenon, <1>7, <1>n DEF SwitchMemTable
  <2> QED BY Zenon, <1>7, <2>1
        DEF SwitchMemTable, journal, flusher, leveler, backup, history, Places
<1>8. CASE FlushStart
  <2>1. /\ nextFile' \in 1..(MaxFile + 1) /\ nextFile \in 0..MaxFile
        /\ nextFile..(nextFile + LastGuard) \subseteq Number
    BY <1>8, TableFilesAssumption DEF FlushStart, Places, Number
  <2> QED BY ZenonT(30), <1>8, <2>1
        DEF FlushStart, disks, journal, leveler, backup, history, Places
<1>9. CASE FlushBuild
  <2>1. imm \in Gens /\ fnew \in Nat \ {0} /\ fnew + LastGuard <= MaxFile
    BY Zenon, <1>9 DEF FlushBuild, FilesInv, Reservation, Flushing
  <2>2. PICK cut \in 0..(LastGuard + 1), fate \in Fates :
          /\ BuildLevel0Tables(imm, fnew, cut, fate)
          /\ fadd' \in {fadd, MetaList(imm, fnew, cut, fate)}
          /\ fnums' \in {fnums, Numbers(imm, fnew, cut, fate)}
          /\ pending' \in {pending, pending \ Numbers(imm, fnew, cut, fate)}
    BY Zenon, <1>9 DEF FlushBuild
  <2>3. /\ disk' \subseteq Number /\ broken' \subseteq Number
        /\ fadd' \subseteq Number /\ fnums' \subseteq Number /\ pending' \subseteq Number
    BY ZenonT(30), <2>1, <2>2, BuildTypes DEF Places
  <2> QED BY ZenonT(30), <1>9, <2>3 DEF FlushBuild, journal, leveler, backup, Places
<1>10. CASE FlushLog
  <2>1. rec' \in [add : SUBSET Number, del : SUBSET Number, next : 1..(MaxFile + 1), log : Number]
    BY ZenonT(30), <1>10, <1>l, EditTypes DEF FlushLog, Places
  <2> QED BY Zenon, <1>10, <2>1 DEF FlushLog, disks, memory, leveler, backup, history, Places
<1>11. CASE FlushRecord
  <2>1. manifest' \in {manifest, Apply(manifest, rec)} /\ disk' \subseteq disk
        /\ current' \in {current, current \cup rec.add} /\ logNum' \in {logNum, rec.log}
    BY Zenon, <1>11 DEF FlushRecord, WriteRecord, DeleteObsoleteFiles
  <2>3. /\ pending' = pending \ fnums /\ fadd' = {} /\ fnums' = {} /\ fnew' = 0
        /\ UNCHANGED <<nextFile, rec, fbase, lbase, lins, louts, held, blive, broken>>
    BY Zenon, <1>11 DEF FlushRecord, backup
  <2> QED BY ZenonT(30), <1>m, <1>z, <1>r, <2>1, <2>3 DEF Places
<1>12. CASE LevelPick \/ LevelManual
  <2>1. \/ \E man, from, out : \E ins \in SUBSET current : StartCompaction(man, from, out, ins)
        \/ UNCHANGED leveler
    BY Zenon, <1>12 DEF LevelPick, LevelManual, FilesAt
  <2>2. lbase' \subseteq Number /\ lins' \subseteq Number /\ louts' \subseteq Number
    BY Zenon, <2>1 DEF StartCompaction, leveler, Places
  <2> QED BY Zenon, <1>12, <2>2
        DEF LevelPick, LevelManual, disks, memory, journal, flusher, backup, history, Places
<1>13. CASE LevelOutput
  <2>1. nextFile' \in 1..(MaxFile + 1) /\ nextFile \in Number
    BY Zenon, <1>13, <1>n DEF LevelOutput
  <2> QED BY Zenon, <1>13, <2>1 DEF LevelOutput, journal, flusher, backup, Places
<1>14. CASE LevelLog
  <2>1. rec' \in [add : SUBSET Number, del : SUBSET Number, next : 1..(MaxFile + 1), log : Number]
    BY Zenon, <1>14, EditTypes DEF LevelLog, Places
  <2> QED BY Zenon, <1>14, <2>1 DEF LevelLog, disks, memory, flusher, backup, history, Places
<1>15. CASE LevelRecord \/ LevelFail
  <2>1. manifest' \in {manifest, Apply(manifest, rec)}
        /\ current' \in {current, (current \ rec.del) \cup rec.add}
    BY Zenon, <1>15 DEF LevelRecord, LevelFail, WriteRecord, journal
  <2>3. lbase' = {} /\ lins' = {} /\ louts' = {} /\ pending' = pending \ louts /\ disk' \subseteq disk
    BY Zenon, <1>15 DEF LevelRecord, LevelFail, LevelEnd, DeleteObsoleteFiles
  <2>4. UNCHANGED <<nextFile, logNum, fnew, fbase, fadd, fnums, blive, broken, held, rec>>
    BY Zenon, <1>15 DEF LevelRecord, LevelFail, journal, flusher, backup
  <2> QED BY ZenonT(30), <1>m, <1>r, <2>1, <2>3, <2>4 DEF Places
<1>16. CASE \E r \in Readers : ReaderRef(r) \/ ReaderUnref(r)
  <2>1. held' \in [Readers -> SUBSET Number]
    BY Zenon, <1>16 DEF ReaderRef, ReaderUnref, Places
  <2> QED BY Zenon, <1>16, <2>1
        DEF ReaderRef, ReaderUnref, disks, memory, journal, flusher, leveler, backup, history, Places
<1>17. CASE BackupList \/ BackupFinish
  <2>1. blive' \subseteq Number
    BY Zenon, <1>17, <1>h DEF BackupList, BackupFinish, LiveFiles, Places
  <2> QED BY Zenon, <1>17, <2>1
        DEF BackupList, BackupFinish, disks, memory, flusher, leveler, history, Places
<1>18. CASE Recover
  <2>1. nextFile' = nextFile \/ (nextFile' = manifest.next + 1 /\ manifest.next < MaxFile)
    BY Zenon, <1>18 DEF Recover
  <2>2. nextFile' \in 1..(MaxFile + 1) /\ manifest.log \in Number /\ manifest.files \subseteq Number
    BY <1>r, <2>1, TableFilesAssumption
  <2> QED BY Zenon, <1>18, <2>2
        DEF Recover, disks, journal, flusher, leveler, backup, history, Places
<1>19. CASE ReplayLog
  <2>1. PICK l \in redo, cut \in 0..(LastGuard + 1), fate \in Fates :
          /\ BuildLevel0Tables(l.gen, nextFile, cut, fate)
          /\ fadd' \in {fadd, fadd \cup MetaList(l.gen, nextFile, cut, fate)}
          /\ pending' = (pending \cup nextFile..(nextFile + LastGuard))
                          \ Numbers(l.gen, nextFile, cut, fate)
          /\ nextFile' \in {l.num + 1, nextFile + LastGuard + 1}
    BY ZenonT(30), <1>19 DEF ReplayLog
  <2>2. /\ nextFile \in Nat \ {0} /\ nextFile + LastGuard <= MaxFile
        /\ nextFile' \in 1..(MaxFile + 1)
    <3>1. nextFile + LastGuard < MaxFile /\ l.num \in Number /\ nextFile \in 1..(MaxFile + 1)
      BY Zenon, <1>19, <1>l DEF ReplayLog, Places
    <3> QED BY <2>1, <3>1, TableFilesAssumption DEF Number
  <2>3. /\ disk' \subseteq Number /\ broken' \subseteq Number
        /\ fadd' \subseteq Number /\ pending' \subseteq Number
    <3>1. /\ nextFile..(nextFile + LastGuard) \subseteq Number
          /\ disk' \subseteq Number /\ broken' \subseteq Number
          /\ MetaList(l.gen, nextFile, cut, fate) \subseteq Number
      BY ZenonT(30), <1>l, <2>1, <2>2, BuildTypes DEF Places
    <3> QED BY Zenon, <2>1, <3>1 DEF Places
  <2> QED BY ZenonT(30), <1>19, <2>2, <2>3 DEF ReplayLog, journal, leveler, backup, Places
<1>20. CASE OpenDB
  <2>1. nextFile' \in 1..(MaxFile + 1) /\ nextFile \in Number
    BY ZenonT(30), <1>20, <1>n DEF OpenDB
  <2>2. current' \subseteq Number /\ disk' \subseteq Number
    BY Zenon, <1>20 DEF OpenDB, Places
  <2>3. manifest' \in [files : SUBSET Number, next : 1..(MaxFile + 1), log : Number]
    <3>1. manifest' = [files |-> current', next |-> nextFile', log |-> nextFile]
      BY Zenon, <1>20 DEF OpenDB
    <3> QED BY ZenonT(30), <2>1, <2>2, <3>1
  <2> QED BY ZenonT(30), <1>20, <2>1, <2>2, <2>3 DEF OpenDB, leveler, backup, Places
<1>21. CASE OpenFails
  BY Zenon, <1>21 DEF OpenFails, disks, journal, leveler, backup, history, Places
<1> HIDE DEF Keeps
<1> QED
  BY ZenonT(30), <1>1, <1>2, <1>3, <1>4, <1>5, <1>6, <1>7, <1>8, <1>9, <1>10, <1>11, <1>12, <1>13,
     <1>14, <1>15, <1>16, <1>17, <1>18, <1>19, <1>20, <1>21
     DEF Next, FlushStep, LevelStep, OpenStep

\* Tables, logs and the history.
LEMMA StoredStep ==
  ASSUME FilesInv, Places, Stored, Flags, [Next]_vars
  PROVE  Stored'
<1>d. \A S : S \subseteq Number => DataOf(S) \subseteq Piece
  BY Zenon DEF DataOf, Stored
<1>l. \A l \in logs \cup redo : l.num \in Number /\ l.gen \in Gens
  BY Zenon DEF Stored, Logs
<1> DEFINE Keeps == UNCHANGED <<data, lvl, ltodo, lost, redoBad, unlogged>>
                    /\ logs' \subseteq logs /\ redo' \subseteq redo
<1>1. Keeps => Stored'
  BY Zenon DEF Stored
<1>2. UNCHANGED vars \/ LevelSleep \/ LevelExit \/ Close => Keeps
  BY Zenon DEF vars, LevelSleep, LevelExit, Close, disks, leveler, redoing, history
<1>3. FlushExit \/ BackupStart \/ (\E c \in Callers : CallerEnter(c) \/ CallerLoop(c)) => Keeps
  BY Zenon DEF FlushExit, BackupStart, CallerEnter, CallerLoop, disks, leveler, redoing, history
<1>4. CloseDone => Stop \/ Keeps
  BY Zenon DEF CloseDone, disks, leveler, redoing, history
<1>5. Stop => Stored'
  BY Zenon DEF Stop, disks, Stored
<1>6. Crash \/ LevelNull \/ LevelAssert => Stop
  BY Zenon DEF Crash, LevelNull, LevelAssert
<1>7. FlushStart \/ FlushLog \/ LevelLog => Keeps
  BY Zenon DEF FlushStart, FlushLog, LevelLog, disks, leveler, redoing, history
<1>8. BackupList \/ BackupFinish \/ (\E r \in Readers : ReaderRef(r) \/ ReaderUnref(r)) => Keeps
  BY Zenon DEF BackupList, BackupFinish, ReaderRef, ReaderUnref, disks, leveler, redoing, history
<1>9. CASE SwitchMemTable \/ OpenDB
  <2>1. nextFile < MaxFile /\ nextFile \in Nat \ {0} /\ mem + 1 \in Gens
    BY Zenon, <1>9 DEF SwitchMemTable, OpenDB, FilesInv, Shape
  <2>2. [num |-> nextFile, gen |-> mem + 1] \in Logs
    BY <2>1, TableFilesAssumption DEF Logs, Number
  <2>3. logs' \subseteq logs \cup {[num |-> nextFile, gen |-> mem + 1]}
    BY Zenon, <1>9 DEF SwitchMemTable, OpenDB
  <2>4. /\ UNCHANGED <<data, lvl, ltodo, unlogged, redo>> /\ lost' \subseteq lost \cup Piece
        /\ redoBad' \in {redoBad, {}}
    BY Zenon, <1>9 DEF SwitchMemTable, OpenDB, leveler, redoing, history
  <2> QED BY Zenon, <2>2, <2>3, <2>4 DEF Stored
<1>10. CASE FlushBuild
  <2>1. imm \in Gens /\ fnew \in Nat \ {0} /\ fnew + LastGuard <= MaxFile
    BY Zenon, <1>10 DEF FlushBuild, FilesInv, Reservation, Flushing
  <2>2. \E cut \in 0..(LastGuard + 1), fate \in Fates : BuildLevel0Tables(imm, fnew, cut, fate)
    BY Zenon, <1>10 DEF FlushBuild
  <2>3. /\ data' \in [Number -> SUBSET Piece] /\ lvl' \in [Number -> 0..LastLevel]
        /\ lost' \subseteq Piece
    BY ZenonT(30), <2>1, <2>2, BuildTypes DEF Places
  <2> QED BY ZenonT(30), <1>10, <2>3 DEF FlushBuild, leveler, redoing, Stored
<1>11. CASE FlushRecord
  <2>1. imm \in Gens
    BY Zenon, <1>11 DEF FlushRecord, FilesInv, Reservation, Flushing
  <2>2. unlogged' \in {unlogged, unlogged \cup {imm}} /\ logs' \subseteq logs
        /\ UNCHANGED <<data, lvl, redo, ltodo, lost, redoBad>>
    BY ZenonT(30), <1>11 DEF FlushRecord, DeleteObsoleteFiles, redoing
  <2> QED BY Zenon, <2>1, <2>2 DEF Stored
<1>12. CASE LevelPick \/ LevelManual
  <2>1. \/ \E man, from, out : \E ins \in SUBSET current : StartCompaction(man, from, out, ins)
        \/ UNCHANGED leveler
    BY Zenon, <1>12 DEF LevelPick, LevelManual, FilesAt
  <2>2. ltodo' \subseteq Piece
    <3>1. \A ins \in SUBSET current : DataOf(ins) \subseteq Piece
      BY Zenon, <1>d DEF Places
    <3>2. ltodo' = ltodo \/ \E ins \in SUBSET current : ltodo' = DataOf(ins)
      BY Zenon, <2>1 DEF StartCompaction, leveler
    <3> QED BY Zenon, <3>1, <3>2 DEF Stored
  <2> QED BY ZenonT(30), <1>12, <2>2 DEF LevelPick, LevelManual, disks, redoing, history, Stored
<1>13. CASE LevelOutput
  <2>1. PICK p \in Parts : /\ ltodo' = ltodo \ {x \in ltodo : x[2] = p}
                           /\ data' = [data EXCEPT ![nextFile] = {x \in ltodo : x[2] = p}]
    BY Zenon, <1>13 DEF LevelOutput
  <2>2. data' \in [Number -> SUBSET Piece] /\ ltodo' \subseteq Piece
    BY Zenon, <2>1 DEF Stored
  <2>3. lvl' \in [Number -> 0..LastLevel]
    BY Zenon, <1>13 DEF LevelOutput, Flags, Stored
  <2> QED BY Zenon, <1>13, <2>2, <2>3 DEF LevelOutput, redoing, Stored
<1>14. CASE LevelRecord \/ LevelFail
  BY Zenon, <1>14 DEF LevelRecord, LevelFail, LevelEnd, DeleteObsoleteFiles, redoing, Stored
<1>15. CASE Recover
  BY Zenon, <1>15 DEF Recover, disks, leveler, history, Stored
<1>16. CASE ReplayLog
  <2>1. PICK l \in redo :
          /\ \E cut \in 0..(LastGuard + 1), fate \in Fates :
               BuildLevel0Tables(l.gen, nextFile, cut, fate)
          /\ redo' = redo \ {l} /\ redoBad' \in {redoBad, redoBad \cup {l.gen}}
    BY ZenonT(30), <1>16 DEF ReplayLog
  <2>2. nextFile \in Nat \ {0} /\ nextFile + LastGuard <= MaxFile
    <3>1. nextFile + LastGuard < MaxFile /\ nextFile \in Nat \ {0}
      BY Zenon, <1>16 DEF ReplayLog, FilesInv, Shape
    <3> QED BY <3>1, TableFilesAssumption
  <2>3. /\ data' \in [Number -> SUBSET Piece] /\ lvl' \in [Number -> 0..LastLevel]
        /\ lost' \subseteq Piece
    BY ZenonT(30), <1>l, <2>1, <2>2, BuildTypes DEF Places
  <2> QED BY ZenonT(30), <1>16, <1>l, <2>1, <2>3 DEF ReplayLog, leveler, Stored
<1>17. CASE OpenFails
  BY Zenon, <1>17 DEF OpenFails, disks, leveler, history, Stored
<1> HIDE DEF Keeps
<1> QED
  BY ZenonT(30), <1>1, <1>2, <1>3, <1>4, <1>5, <1>6, <1>7, <1>8, <1>9, <1>10, <1>11, <1>12, <1>13,
     <1>14, <1>15, <1>16, <1>17 DEF Next, FlushStep, LevelStep, OpenStep

LEMMA TypesInit == Init => Flags /\ Places /\ Stored
<1> SUFFICES ASSUME Init PROVE Flags /\ Places /\ Stored
  BY Zenon
<1>1. /\ 0 \in 0..Budget /\ 2 \in Int /\ 0 \in 0..LastLevel /\ 4 \in 1..(MaxFile + 1)
      /\ 3 \in Number /\ 0 \in 0..MaxFile
  BY SMTT(30), TableFilesAssumption DEF Number
<1>2. NoEdit \in [add : SUBSET Number, del : SUBSET Number, next : 1..(MaxFile + 1), log : Number]
      /\ [files |-> {}, next |-> 4, log |-> 3]
           \in [files : SUBSET Number, next : 1..(MaxFile + 1), log : Number]
      /\ [num |-> 3, gen |-> 1] \in Logs
  BY TableFilesAssumption DEF NoEdit, Number, Logs
<1>3. Flags
  BY Zenon, <1>1 DEF Init, Flags
<1>4. Places
  BY Zenon, <1>1, <1>2 DEF Init, Places
<1>5. Stored
  BY Zenon, <1>1, <1>2 DEF Init, Stored
<1> QED BY Zenon, <1>3, <1>4, <1>5

\* Every variable keeps its type: no file number beyond the counter's bound,
\* no piece of an unknown generation, no MANIFEST with a number out of range.
THEOREM FilesTyped == Spec => []TypeOK
<1>1. FilesInv /\ Flags /\ Places /\ Stored => TypeOK
  BY Zenon DEF FilesInv, Shape, Flags, Places, Stored, TypeOK
<1>2. FilesInv /\ (Flags /\ Places /\ Stored) /\ [Next]_vars => (Flags /\ Places /\ Stored)'
  BY Zenon, FlagsStep, PlacesStep, StoredStep
<1> QED BY <1>1, <1>2, TypesInit, FilesAlways, PTL DEF Spec
=============================================================================
