---------------------------- MODULE WriterQueue ----------------------------
(***************************************************************************)
(* The queue of writers of PebblesDB (DBImpl::writers_tail_ in             *)
(* db/db_impl.cc) and the threads that go through it: Write, GetSnapshot / *)
(* LastSequence (through WaitOutWriters) and LiveBackup.                   *)
(*                                                                         *)
(* A thread's Writer object lives on its stack.  The queue is a doubly     *)
(* linked list guarded by writers_mutex_; sequence numbers are claimed     *)
(* while joining it; LastSequence is advanced under mutex_, in the order   *)
(* in which writers finish and not in the order in which they joined.      *)
(* Each critical section is one action.  A CondVar wait puts the thread in *)
(* `asleep'; Signal takes it out.                                          *)
(***************************************************************************)
EXTENDS Integers, FiniteSets

CONSTANTS
  Writers,      \* threads calling DB::Write
  Snappers,     \* threads calling DB::GetSnapshot
  Backers,      \* threads calling DB::LiveBackup
  NoOne,        \* the NULL Writer*
  BatchSizes,   \* possible WriteBatchInternal::Count values
  MaxStarts,    \* bound: how many writes, backups and restarts happen
  MaxGuards,    \* bound: guard records a batch may carry in the log
  BeginMayFail, \* may SequenceWriteBegin of a backup meet bg_error_ ?
  MaySwitch     \* may SequenceWriteBegin switch memtables?

Threads == Writers \cup Snappers \cup Backers

ASSUME ThreadsAssumption ==
  /\ NoOne \notin Threads
  /\ Writers \cap Snappers = {}
  /\ Writers \cap Backers = {}
  /\ Snappers \cap Backers = {}

ASSUME BoundsAssumption ==
  /\ BatchSizes \subseteq Nat
  /\ MaxStarts \in Nat
  /\ MaxGuards \in Nat
  /\ BeginMayFail \in BOOLEAN
  /\ MaySwitch \in BOOLEAN

VARIABLES
  pc,        \* where each thread is
  tail,      \* writers_tail_
  prev,      \* Writer::prev_
  next,      \* Writer::next_
  linked,    \* the threads whose Writer is in the list
  wakeMe,    \* Writer::wake_me_when_head_
  blockIf,   \* Writer::block_if_backup_in_progress_
  hasImm,    \* Writer::has_imm_
  first,     \* Writer::start_sequence_
  last,      \* Writer::end_sequence_
  upper,     \* writers_upper_
  lastSeq,   \* versions_->LastSequence()
  snap,      \* the sequence number a Snapper read
  asleep,    \* threads inside a CondVar wait
  backup,    \* backup_in_progress_ # NULL
  turn,      \* backup_waiter_has_it_
  started    \* number of writes, backups and restarts (bounded)

(***************************************************************************)
(* History variables: they are never read by a guard of the code.          *)
(***************************************************************************)
VARIABLES
  ahead,     \* ahead[t]: threads t could reach when it joined and still queued
  missed,    \* missed[t]: queued threads t could not reach when it joined
  orphans    \* queued threads that cannot be reached from writers_tail_

listVars == <<tail, prev, next, linked>>
ghostVars == <<ahead, missed, orphans>>
seqVars == <<first, last, upper, lastSeq, snap>>
gateVars == <<backup, turn>>
vars == <<pc, listVars, wakeMe, blockIf, hasImm, seqVars, asleep, gateVars,
          started, ghostVars>>

Locations ==
  {"idle", "begun", "blocked", "linked", "ended", "unlinked",
   "read", "waiting", "held",
   "waitTurn", "turn", "release", "waitHead", "head", "occupy",
   "copying"}

Init ==
  /\ pc = [t \in Threads |-> "idle"]
  /\ tail = NoOne
  /\ prev = [t \in Threads |-> NoOne]
  /\ next = [t \in Threads |-> NoOne]
  /\ linked = {}
  /\ wakeMe = [t \in Threads |-> FALSE]
  /\ blockIf = [t \in Threads |-> t \notin Backers]
  /\ hasImm = [t \in Threads |-> FALSE]
  /\ first = [t \in Threads |-> 0]
  /\ last = [t \in Threads |-> 0]
  /\ upper = 0
  /\ lastSeq = 0
  /\ snap = [t \in Threads |-> 0]
  /\ asleep = {}
  /\ backup = FALSE
  /\ turn = FALSE
  /\ ahead = [t \in Threads |-> {}]
  /\ missed = [t \in Threads |-> {}]
  /\ orphans = {}
  /\ started = 0

----------------------------------------------------------------------------
(***************************************************************************)
(* The list.                                                               *)
(***************************************************************************)

\* The pointer p with the field of one Writer overwritten, unless it is NULL.
Store(p, t, v) == IF t = NoOne THEN p ELSE [p EXCEPT ![t] = v]

\* A Writer is appended behind writers_tail_.
JoinQueue(t) ==
  /\ next' = [Store(next, tail, t) EXCEPT ![t] = NoOne]
  /\ prev' = [prev EXCEPT ![t] = tail]
  /\ tail' = t
  /\ linked' = linked \cup {t}
  /\ ahead' = [ahead EXCEPT ![t] = linked \ orphans]
  /\ missed' = [missed EXCEPT ![t] = orphans]
  /\ UNCHANGED orphans

LeaveQueueKeepTail(t) ==
  /\ next' = Store(next, prev[t], next[t])
  /\ prev' = Store(prev, next[t], prev[t])
  /\ tail' = tail
  /\ linked' = linked \ {t}
  /\ ahead' = [u \in Threads |-> ahead[u] \ {t}]
  /\ missed' = [u \in Threads |-> missed[u] \ {t}]
  /\ orphans' = orphans \ {t}

\* A Writer is taken out.  When it is the tail, writers_tail_ becomes NULL
\* whether or not other writers are still in front of it.
LeaveQueue(t) ==
  /\ next' = Store(next, prev[t], next[t])
  /\ prev' = Store(prev, next[t], prev[t])
  /\ tail' = IF tail = t THEN NoOne ELSE tail
  /\ linked' = linked \ {t}
  /\ ahead' = [u \in Threads |-> ahead[u] \ {t}]
  /\ missed' = [u \in Threads |-> missed[u] \ {t}]
  /\ orphans' = (IF tail = t THEN linked ELSE orphans) \ {t}

WakeNobody(t) == asleep' = asleep

\* Signal the successor of t when it becomes the head and asked for it.
WakeSuccessor(t) ==
  asleep' = IF next[t] # NoOne /\ prev[t] = NoOne /\ wakeMe[next[t]]
            THEN asleep \ {next[t]} ELSE asleep

\* The threads in front of t, following prev_ until NULL.
Chain(t) ==
  LET reach[n \in 0..Cardinality(Threads)] ==
        IF n = 0 THEN {t}
                 ELSE reach[n - 1] \cup
                      ({prev[u] : u \in reach[n - 1]} \ {NoOne})
  IN reach[Cardinality(Threads)] \ {t}

Goto(t, l) == pc' = [pc EXCEPT ![t] = l]

Max2(a, b) == IF a > b THEN a ELSE b

TicketWithoutOne(diff) == upper + diff

\* __sync_add_and_fetch(&writers_upper_, 1 + diff)
Ticket(diff) == upper + 1 + diff

SnapshotSequenceExclusive == lastSeq - 1

\* The sequence number a new snapshot gets.
SnapshotSequence == lastSeq

\* The Writer goes out of scope; the thread's next one starts afresh.
Destroy(t) ==
  /\ prev' = [prev EXCEPT ![t] = NoOne]
  /\ next' = [next EXCEPT ![t] = NoOne]
  /\ wakeMe' = [wakeMe EXCEPT ![t] = FALSE]
  /\ blockIf' = [blockIf EXCEPT ![t] = t \notin Backers]
  /\ hasImm' = [hasImm EXCEPT ![t] = FALSE]
  /\ first' = [first EXCEPT ![t] = 0]
  /\ last' = [last EXCEPT ![t] = 0]

----------------------------------------------------------------------------
(***************************************************************************)
(* DBImpl::Write: SequenceWriteBegin, the log append, SequenceWriteEnd.    *)
(***************************************************************************)

\* SequenceWriteBegin, the section under mutex_, when it ends with s.ok().
\* `switched': this call made the memtable immutable.
WriteBegin(w, switched) ==
  /\ pc[w] = "idle"
  /\ switched => MaySwitch
  /\ started < MaxStarts
  /\ started' = started + 1
  /\ hasImm' = [hasImm EXCEPT ![w] = switched]
  /\ Goto(w, "begun")
  /\ UNCHANGED <<listVars, wakeMe, blockIf, seqVars, asleep, gateVars,
                 ghostVars>>

\* SequenceWriteBegin, the section under writers_mutex_: join the queue,
\* claim 1 + diff sequence numbers, and wait while a backup is in progress.
WriteLink(t, diff) ==
  /\ pc[t] = "begun"
  /\ JoinQueue(t)
  /\ upper' = Ticket(diff)
  /\ first' = [first EXCEPT ![t] = upper' - diff]
  /\ last' = [last EXCEPT ![t] = upper']
  /\ LET wait == blockIf[t] /\ backup IN
     /\ Goto(t, IF wait THEN "blocked"
                ELSE IF t \in Backers THEN "release" ELSE "linked")
     /\ wakeMe' = [wakeMe EXCEPT ![t] = wait]
     /\ asleep' = IF wait THEN asleep \cup {t} ELSE asleep
  /\ UNCHANGED <<blockIf, hasImm, lastSeq, snap, gateVars, started>>

\* A blocked writer was signalled: it looks at its two flags again.
WriteUnblock(w) ==
  /\ pc[w] = "blocked"
  /\ w \notin asleep
  /\ LET wait == blockIf[w] /\ backup IN
     /\ wakeMe' = [wakeMe EXCEPT ![w] = wait]
     /\ asleep' = IF wait THEN asleep \cup {w} ELSE asleep
     /\ Goto(w, IF wait THEN "blocked" ELSE "linked")
  /\ UNCHANGED <<listVars, blockIf, hasImm, seqVars, gateVars, started,
                 ghostVars>>

\* SequenceWriteEnd under mutex_: SetLastSequence keeps the larger value.
WriteEnd(t) ==
  /\ pc[t] = "linked"
  /\ lastSeq' = Max2(lastSeq, last[t])
  /\ Goto(t, "ended")
  /\ UNCHANGED <<listVars, wakeMe, blockIf, hasImm, first, last, upper, snap,
                 asleep, gateVars, started, ghostVars>>

\* SequenceWriteEnd under writers_mutex_: leave the queue, pass has_imm_ to
\* the writer in front, signal the successor that becomes the head.
WriteUnlink(t) ==
  /\ pc[t] = "ended"
  /\ LeaveQueue(t)
  /\ WakeSuccessor(t)
  /\ hasImm' = IF prev[t] # NoOne /\ hasImm[t]
               THEN [hasImm EXCEPT ![prev[t]] = TRUE, ![t] = FALSE]
               ELSE hasImm
  /\ Goto(t, "unlinked")
  /\ UNCHANGED <<wakeMe, blockIf, seqVars, gateVars, started>>

\* The end of SequenceWriteEnd: the Writer goes out of scope.  (The signal
\* to the memtable thread given by a head that has has_imm_ is the subject of
\* module WritePath.)
WriteReturn(t) ==
  /\ pc[t] = "unlinked"
  /\ t \notin Snappers
  /\ Destroy(t)
  /\ Goto(t, "idle")
  /\ UNCHANGED <<tail, linked, upper, lastSeq, snap, asleep, gateVars,
                 started, ghostVars>>

----------------------------------------------------------------------------
(***************************************************************************)
(* DBImpl::GetSnapshot and LastSequence: read, then WaitOutWriters.        *)
(***************************************************************************)

\* Under mutex_: the snapshot is entered with the current LastSequence.
SnapRead(r) ==
  /\ r \in Snappers
  /\ pc[r] = "idle"
  /\ snap' = [snap EXCEPT ![r] = SnapshotSequence]
  /\ Goto(r, "read")
  /\ UNCHANGED <<listVars, wakeMe, blockIf, hasImm, first, last, upper,
                 lastSeq, asleep, gateVars, started, ghostVars>>

SnapNeverWait(r) ==
  /\ pc[r] = "read"
  /\ missed' = [missed EXCEPT ![r] = orphans]
  /\ Goto(r, "unlinked")
  /\ UNCHANGED <<listVars, wakeMe, blockIf, hasImm, seqVars, asleep, gateVars,
                 started, ahead, orphans>>

\* WaitOutWriters with an empty queue: join and leave in one section.
SnapNoWait(r) ==
  /\ pc[r] = "read"
  /\ tail = NoOne
  /\ missed' = [missed EXCEPT ![r] = orphans]
  /\ Goto(r, "unlinked")
  /\ UNCHANGED <<listVars, wakeMe, blockIf, hasImm, seqVars, asleep, gateVars,
                 started, ahead, orphans>>

\* WaitOutWriters behind other writers: join and sleep.
SnapWait(r) ==
  /\ pc[r] = "read"
  /\ tail # NoOne
  /\ JoinQueue(r)
  /\ wakeMe' = [wakeMe EXCEPT ![r] = TRUE]
  /\ asleep' = asleep \cup {r}
  /\ Goto(r, "waiting")
  /\ UNCHANGED <<blockIf, hasImm, seqVars, gateVars, started>>

\* Signalled while another writer is still in front (LiveBackup signals
\* everybody it finds): the loop waits again.
SnapSleepAgain(r) ==
  /\ pc[r] = "waiting"
  /\ r \notin asleep
  /\ prev[r] # NoOne
  /\ asleep' = asleep \cup {r}
  /\ UNCHANGED <<pc, listVars, wakeMe, blockIf, hasImm, seqVars, gateVars,
                 started, ghostVars>>

\* The waiter is the head: it leaves the queue.
SnapLeave(r) ==
  /\ pc[r] = "waiting"
  /\ r \notin asleep
  /\ prev[r] = NoOne
  /\ LeaveQueue(r)
  /\ WakeSuccessor(r)
  /\ Goto(r, "unlinked")
  /\ UNCHANGED <<wakeMe, blockIf, hasImm, seqVars, gateVars, started>>

\* GetSnapshot returns.
SnapReturn(r) ==
  /\ pc[r] = "unlinked"
  /\ r \in Snappers
  /\ Destroy(r)
  /\ Goto(r, "held")
  /\ UNCHANGED <<tail, linked, upper, lastSeq, snap, asleep, gateVars,
                 started, ghostVars>>

\* ReleaseSnapshot.
SnapRelease(r) ==
  /\ pc[r] = "held"
  /\ snap' = [snap EXCEPT ![r] = 0]
  /\ missed' = [missed EXCEPT ![r] = {}]
  /\ Goto(r, "idle")
  /\ UNCHANGED <<listVars, wakeMe, blockIf, hasImm, first, last, upper,
                 lastSeq, asleep, gateVars, started, ahead, orphans>>

----------------------------------------------------------------------------
(***************************************************************************)
(* DBImpl::LiveBackup.  The copying of files and the deferred deletion,    *)
(* which touch nothing declared here, are the subject of module WritePath. *)
(***************************************************************************)

\* Under writers_mutex_: raise backup_in_progress_, take the turn or wait.
BackupRequest(b) ==
  /\ b \in Backers
  /\ pc[b] = "idle"
  /\ started < MaxStarts
  /\ started' = started + 1
  /\ backup' = TRUE
  /\ turn' = TRUE
  /\ Goto(b, IF turn THEN "waitTurn" ELSE "turn")
  /\ asleep' = IF turn THEN asleep \cup {b} ELSE asleep
  /\ UNCHANGED <<listVars, wakeMe, blockIf, hasImm, seqVars, ghostVars>>

\* Woken from backup_cv_: the turn is free, or another backup took it.
BackupTurn(b) ==
  /\ pc[b] = "waitTurn"
  /\ b \notin asleep
  /\ turn' = TRUE
  /\ Goto(b, IF turn THEN "waitTurn" ELSE "turn")
  /\ asleep' = IF turn THEN asleep \cup {b} ELSE asleep
  /\ UNCHANGED <<listVars, wakeMe, blockIf, hasImm, seqVars, backup, started,
                 ghostVars>>

\* SequenceWriteBegin(&w, NULL), the section under mutex_.  Its status is
\* ignored: after a background error the backup goes on without being linked.
BackupBegin(b, ok, switched) ==
  /\ pc[b] = "turn"
  /\ ok \/ BeginMayFail
  /\ switched => MaySwitch
  /\ hasImm' = [hasImm EXCEPT ![b] = ok /\ switched]
  /\ Goto(b, IF ok THEN "begun" ELSE "release")
  /\ UNCHANGED <<listVars, wakeMe, blockIf, seqVars, asleep, gateVars, started,
                 ghostVars>>

ReleaseWithoutSignal(b) ==
  /\ pc[b] = "release"
  /\ blockIf' = [t \in Threads |-> blockIf[t] /\ t \notin Chain(b)]
  /\ asleep' = asleep \cup (IF prev[b] = NoOne THEN {} ELSE {b})
  /\ wakeMe' = [wakeMe EXCEPT ![b] = prev[b] # NoOne]
  /\ Goto(b, IF prev[b] = NoOne THEN "head" ELSE "waitHead")
  /\ UNCHANGED <<listVars, hasImm, seqVars, gateVars, started, ghostVars>>

\* Under writers_mutex_: let everybody in front go on, wait to be the head.
BackupReleaseAhead(b) ==
  /\ pc[b] = "release"
  /\ blockIf' = [t \in Threads |-> blockIf[t] /\ t \notin Chain(b)]
  /\ asleep' = (asleep \ Chain(b)) \cup (IF prev[b] = NoOne THEN {} ELSE {b})
  /\ wakeMe' = [wakeMe EXCEPT ![b] = prev[b] # NoOne]
  /\ Goto(b, IF prev[b] = NoOne THEN "head" ELSE "waitHead")
  /\ UNCHANGED <<listVars, hasImm, seqVars, gateVars, started, ghostVars>>

BackupHead(b) ==
  /\ pc[b] = "waitHead"
  /\ b \notin asleep
  /\ Goto(b, IF prev[b] = NoOne THEN "head" ELSE "waitHead")
  /\ asleep' = IF prev[b] = NoOne THEN asleep ELSE asleep \cup {b}
  /\ UNCHANGED <<listVars, wakeMe, blockIf, hasImm, seqVars, gateVars, started,
                 ghostVars>>

\* Under mutex_: SetLastSequence(w.end_sequence_) ...
BackupStart(b) ==
  /\ pc[b] = "head"
  /\ lastSeq' = Max2(lastSeq, last[b])
  /\ Goto(b, "occupy")
  /\ UNCHANGED <<listVars, wakeMe, blockIf, hasImm, first, last, upper, snap,
                 asleep, gateVars, started, ghostVars>>

\* ... and, when nobody is in LogAndApply any more, the copy begins.
BackupOccupy(b) ==
  /\ pc[b] = "occupy"
  /\ Goto(b, "copying")
  /\ UNCHANGED <<listVars, wakeMe, blockIf, hasImm, seqVars, asleep, gateVars,
                 started, ghostVars>>

BackupFinishForgetsWaiters(b) ==
  /\ pc[b] = "copying"
  /\ turn' = FALSE
  /\ backup' = FALSE
  /\ Goto(b, IF b \in linked THEN "linked" ELSE "idle")
  /\ UNCHANGED <<listVars, wakeMe, blockIf, hasImm, seqVars, asleep, started,
                 ghostVars>>

\* Under writers_mutex_: pass the turn on, keep backup_in_progress_ raised
\* exactly when another backup waits, and signal backup_cv_.  A Writer that
\* was never linked makes SequenceWriteEnd return at once.
BackupFinish(b) ==
  LET waiters == {c \in Backers : pc[c] = "waitTurn"} IN
  /\ pc[b] = "copying"
  /\ turn' = FALSE
  /\ backup' = (waiters # {})
  /\ IF waiters \cap asleep = {}
     THEN UNCHANGED asleep
     ELSE \E c \in waiters \cap asleep : asleep' = asleep \ {c}
  /\ Goto(b, IF b \in linked THEN "linked" ELSE "idle")
  /\ UNCHANGED <<listVars, wakeMe, blockIf, hasImm, seqVars, started,
                 ghostVars>>

----------------------------------------------------------------------------
\* The process dies and the database is opened again.  Recovery finds some
\* last sequence number; a batch in the log counts its guard records too, so
\* it may lie beyond the numbers that were claimed.  DB::Open ends by setting
\* writers_upper_ to it.
Restart(n) ==
  /\ started < MaxStarts
  /\ started' = started + 1
  /\ pc' = [t \in Threads |-> "idle"]
  /\ tail' = NoOne
  /\ prev' = [t \in Threads |-> NoOne]
  /\ next' = [t \in Threads |-> NoOne]
  /\ linked' = {}
  /\ wakeMe' = [t \in Threads |-> FALSE]
  /\ blockIf' = [t \in Threads |-> t \notin Backers]
  /\ hasImm' = [t \in Threads |-> FALSE]
  /\ first' = [t \in Threads |-> 0]
  /\ last' = [t \in Threads |-> 0]
  /\ upper' = n
  /\ lastSeq' = n
  /\ snap' = [t \in Threads |-> 0]
  /\ asleep' = {}
  /\ backup' = FALSE
  /\ turn' = FALSE
  /\ ahead' = [t \in Threads |-> {}]
  /\ missed' = [t \in Threads |-> {}]
  /\ orphans' = {}

WriteStep(w) ==
  \/ \E d \in BatchSizes : WriteLink(w, d)
  \/ WriteUnblock(w)
  \/ WriteEnd(w)
  \/ WriteUnlink(w)
  \/ WriteReturn(w)

SnapStep(r) ==
  \/ SnapNoWait(r)
  \/ SnapWait(r)
  \/ SnapSleepAgain(r)
  \/ SnapLeave(r)
  \/ SnapReturn(r)

BackupStep(b) ==
  \/ BackupTurn(b)
  \/ \E ok, switched \in BOOLEAN : BackupBegin(b, ok, switched)
  \/ WriteLink(b, 0)
  \/ BackupReleaseAhead(b)
  \/ BackupHead(b)
  \/ BackupStart(b)
  \/ BackupOccupy(b)
  \/ BackupFinish(b)
  \/ WriteEnd(b)
  \/ WriteUnlink(b)
  \/ WriteReturn(b)

Next ==
  \/ \E w \in Writers : (\E sw \in BOOLEAN : WriteBegin(w, sw)) \/ WriteStep(w)
  \/ \E r \in Snappers : SnapRead(r) \/ SnapStep(r) \/ SnapRelease(r)
  \/ \E b \in Backers : BackupRequest(b) \/ BackupStep(b)
  \/ \E n \in 0..(upper + MaxGuards) : Restart(n)

Spec == Init /\ [][Next]_vars

\* A thread inside an operation keeps being scheduled; nobody is obliged to
\* start one.
Fairness ==
  /\ \A w \in Writers : WF_vars(WriteStep(w))
  /\ \A r \in Snappers : WF_vars(SnapStep(r))
  /\ \A b \in Backers : WF_vars(BackupStep(b))

FairSpec == Spec /\ Fairness

----------------------------------------------------------------------------
(***************************************************************************)
(* Properties.                                                             *)
(***************************************************************************)

\* The shape of every variable, and that only threads inside an operation
\* are queued or asleep.
TypeOK ==
  /\ pc \in [Threads -> Locations]
  /\ tail \in Threads \cup {NoOne}
  /\ prev \in [Threads -> Threads \cup {NoOne}]
  /\ next \in [Threads -> Threads \cup {NoOne}]
  /\ linked \subseteq Threads
  /\ wakeMe \in [Threads -> BOOLEAN]
  /\ blockIf \in [Threads -> BOOLEAN]
  /\ hasImm \in [Threads -> BOOLEAN]
  /\ first \in [Threads -> Nat]
  /\ last \in [Threads -> Nat]
  /\ upper \in Nat
  /\ lastSeq \in Nat
  /\ snap \in [Threads -> Nat]
  /\ asleep \subseteq Threads
  /\ backup \in BOOLEAN
  /\ turn \in BOOLEAN
  /\ started \in Nat
  /\ ahead \in [Threads -> SUBSET Threads]
  /\ missed \in [Threads -> SUBSET Threads]
  /\ orphans \subseteq Threads

\* No pointer of a queued Writer, nor writers_tail_, refers to a Writer whose
\* thread has left (its stack frame may be gone), the links agree in both
\* directions, and the tail has no successor: the two assert(!w->next_).
PointersSafe ==
  /\ tail # NoOne => tail \in linked /\ next[tail] = NoOne
  /\ \A t \in linked :
       /\ next[t] # NoOne => next[t] \in linked /\ prev[next[t]] = t
       /\ prev[t] # NoOne => prev[t] \in linked /\ next[prev[t]] = t

InFlight(w) == w \in Writers /\ pc[w] \in {"blocked", "linked"}

\* When GetSnapshot has returned, a writer that has yet to insert entries at
\* or below the snapshot is one that a finishing tail cut off the queue.
SnapshotMissesOnlyOrphans ==
  \A r \in Snappers : pc[r] \in {"unlinked", "held"} =>
    \A w \in Writers : InFlight(w) /\ first[w] <= snap[r] => w \in missed[r]

\* The sequence numbers claimed by two queued writers do not overlap, follow
\* the order of the queue, and LastSequence never passes writers_upper_.
TicketsOrdered ==
  /\ lastSeq <= upper
  /\ \A t \in linked \ Snappers :
       /\ first[t] <= last[t] /\ last[t] <= upper
       /\ \A u \in linked \ Snappers :
            /\ u \in ahead[t] \cup missed[t] => last[u] < first[t]
            /\ u # t => last[u] < first[t] \/ last[t] < first[u]

\* WaitOutWriters returns.
SnapshotReturns ==
  \A r \in Snappers : pc[r] = "waiting" ~> pc[r] # "waiting"

\* A writer that waits for a backup to end is let through.
BlockedWriterProceeds ==
  \A w \in Writers : pc[w] = "blocked" ~> pc[w] # "blocked"

\* A backup that waits for another one to end gets its turn.
BackupGetsTurn ==
  \A b \in Backers : pc[b] = "waitTurn" ~> pc[b] # "waitTurn"

============================================================================
