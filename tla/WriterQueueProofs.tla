------------------------- MODULE WriterQueueProofs -------------------------
(***************************************************************************)
(* What WriterQueue guarantees for any number of writers, snapshot takers  *)
(* and backups: the list of stack-allocated Writers stays well formed, and *)
(* a snapshot only misses writers that were cut off the queue.             *)
(***************************************************************************)
EXTENDS WriterQueue, TLAPS

\* Where a thread is tells whether its Writer is in the list.
PhaseInv ==
  /\ \A t \in Threads :
       /\ pc[t] \in {"idle", "begun", "read", "unlinked", "held",
                     "waitTurn", "turn"} => t \notin linked
       /\ pc[t] \in {"blocked", "linked", "ended", "waiting"} => t \in linked
  /\ \A w \in Writers : pc[w] \in
       {"idle", "begun", "blocked", "linked", "ended", "unlinked"}
  /\ \A r \in Snappers : pc[r] \in
       {"idle", "read", "waiting", "unlinked", "held"}
  /\ \A b \in Backers : pc[b] \in Locations \ {"read", "waiting", "held"}
  /\ linked \subseteq Threads

\* What prev_ reaches is what was in front; what writers_tail_ reaches is
\* everything but the orphans.
ChainInv ==
  /\ orphans \subseteq linked
  /\ tail = NoOne => linked = orphans
  /\ tail # NoOne => linked \ orphans = ahead[tail] \cup {tail}
  /\ \A t \in linked :
       /\ t \notin ahead[t]
       /\ ahead[t] \subseteq linked
       /\ prev[t] = NoOne => ahead[t] = {}
       /\ prev[t] # NoOne => ahead[t] = ahead[prev[t]] \cup {prev[t]}

\* Any two queued threads joined one after the other, and claimed their
\* sequence numbers in that order.
OrderInv ==
  /\ lastSeq <= upper
  /\ \A t \in Threads : last[t] <= upper /\ snap[t] <= upper
  /\ \A t \in Threads : missed[t] \subseteq linked
  /\ \A t, u \in linked : t # u =>
       \/ u \in ahead[t] \cup missed[t]
       \/ t \in ahead[u] \cup missed[u]
  /\ \A t \in linked \ Snappers :
       /\ first[t] <= last[t]
       /\ \A u \in linked \ Snappers :
            u \in ahead[t] \cup missed[t] => last[u] < first[t]

\* A waiter has every writer at or below its sequence number in front of it,
\* or never could reach it.
WaitInv ==
  \A r \in Snappers : \A w \in linked \cap Writers : first[w] <= snap[r] =>
    /\ pc[r] = "waiting" => w \in ahead[r] \cup missed[r]
    /\ pc[r] \in {"unlinked", "held"} => w \in missed[r]

\* The inductive invariant.
IInv ==
  /\ TypeOK
  /\ PhaseInv
  /\ PointersSafe
  /\ ChainInv
  /\ OrderInv
  /\ WaitInv

----------------------------------------------------------------------------
\* The sequence numbers a recovery may come up with.
LEMMA RestartRange == TypeOK => 0..(upper + MaxGuards) \subseteq Nat
  BY BoundsAssumption DEF TypeOK

\* The initial state has the declared shape.
LEMMA TypeInit == Init => TypeOK
<1> SUFFICES ASSUME Init PROVE TypeOK
  OBVIOUS
<1>1. blockIf \in [Threads -> BOOLEAN]
  BY Zenon DEF Init
<1> QED
  BY Zenon, <1>1 DEF Init, TypeOK, Locations

\* DB::Open leaves a state of the declared shape.
LEMMA RestartType ==
  ASSUME NEW n \in Nat, started \in Nat, Restart(n)
  PROVE  TypeOK'
<1>1. blockIf' \in [Threads -> BOOLEAN]
  BY Zenon DEF Restart
<1>2. /\ pc' \in [Threads -> Locations]
      /\ wakeMe' \in [Threads -> BOOLEAN] /\ hasImm' \in [Threads -> BOOLEAN]
      /\ backup' \in BOOLEAN /\ turn' \in BOOLEAN
  BY Zenon DEF Restart, Locations
<1>3. /\ tail' \in Threads \cup {NoOne}
      /\ prev' \in [Threads -> Threads \cup {NoOne}]
      /\ next' \in [Threads -> Threads \cup {NoOne}]
      /\ linked' \subseteq Threads /\ asleep' \subseteq Threads
      /\ ahead' \in [Threads -> SUBSET Threads]
      /\ missed' \in [Threads -> SUBSET Threads] /\ orphans' \subseteq Threads
  BY DEF Restart
<1>4. /\ first' \in [Threads -> Nat] /\ last' \in [Threads -> Nat]
      /\ upper' \in Nat /\ lastSeq' \in Nat
      /\ snap' \in [Threads -> Nat] /\ started' \in Nat
  BY DEF Restart
<1> QED
  BY <1>1, <1>2, <1>3, <1>4 DEF TypeOK

\* TypeOK is inductive by itself: no critical section of Write, GetSnapshot
\* or LiveBackup leaves a field of a Writer, or a shared counter, outside its
\* range.
LEMMA TypeStep == TypeOK /\ [Next]_vars => TypeOK'
<1> SUFFICES ASSUME TypeOK, [Next]_vars PROVE TypeOK'
  OBVIOUS
<1> USE ThreadsAssumption, BoundsAssumption
    DEF TypeOK, Goto, Locations, listVars, ghostVars, seqVars, gateVars
<1>1. ASSUME NEW w \in Writers, NEW sw \in BOOLEAN, WriteBegin(w, sw)
      PROVE  TypeOK'
  BY <1>1 DEF WriteBegin, Threads
<1>2. ASSUME NEW t \in Threads, NEW d \in Nat, WriteLink(t, d)
      PROVE  TypeOK'
  BY <1>2 DEF WriteLink, JoinQueue, Store, Ticket
<1>3. ASSUME NEW w \in Threads, WriteUnblock(w) PROVE TypeOK'
  BY <1>3 DEF WriteUnblock
<1>4. ASSUME NEW t \in Threads, WriteEnd(t) PROVE TypeOK'
  BY <1>4 DEF WriteEnd, Max2
<1>5. ASSUME NEW t \in Threads, WriteUnlink(t) PROVE TypeOK'
  BY Zenon, <1>5 DEF WriteUnlink, LeaveQueue, Store, WakeSuccessor
<1>6. ASSUME NEW t \in Threads, WriteReturn(t) PROVE TypeOK'
  BY <1>6 DEF WriteReturn, Destroy
<1>7. ASSUME NEW r \in Snappers, SnapRead(r) PROVE TypeOK'
  BY <1>7 DEF SnapRead, SnapshotSequence, Threads
<1>8. ASSUME NEW r \in Snappers, SnapNoWait(r) PROVE TypeOK'
  BY <1>8 DEF SnapNoWait, Threads
<1>9. ASSUME NEW r \in Threads, SnapWait(r) PROVE TypeOK'
  BY SMTT(30), <1>9 DEF SnapWait, JoinQueue, Store
<1>10. ASSUME NEW r \in Threads, SnapSleepAgain(r) PROVE TypeOK'
  BY <1>10 DEF SnapSleepAgain
<1>11. ASSUME NEW r \in Threads, SnapLeave(r) PROVE TypeOK'
  BY <1>11 DEF SnapLeave, LeaveQueue, Store, WakeSuccessor
<1>12. ASSUME NEW r \in Threads, SnapReturn(r) PROVE TypeOK'
  BY <1>12 DEF SnapReturn, Destroy
<1>13. ASSUME NEW r \in Threads, SnapRelease(r) PROVE TypeOK'
  BY <1>13 DEF SnapRelease
<1>14. ASSUME NEW b \in Threads, BackupRequest(b) PROVE TypeOK'
  BY <1>14 DEF BackupRequest
<1>15. ASSUME NEW b \in Threads, BackupTurn(b) PROVE TypeOK'
  BY <1>15 DEF BackupTurn
<1>16. ASSUME NEW b \in Threads, NEW ok \in BOOLEAN, NEW sw \in BOOLEAN,
              BackupBegin(b, ok, sw)
       PROVE  TypeOK'
  BY <1>16 DEF BackupBegin
<1>17. ASSUME NEW b \in Threads, BackupReleaseAhead(b) PROVE TypeOK'
  <2>1. blockIf' \in [Threads -> BOOLEAN]
    BY <1>17, Zenon DEF BackupReleaseAhead
  <2> QED
    BY <1>17, <2>1 DEF BackupReleaseAhead
<1>18. ASSUME NEW b \in Threads, BackupHead(b) PROVE TypeOK'
  BY <1>18 DEF BackupHead
<1>19. ASSUME NEW b \in Threads, BackupStart(b) PROVE TypeOK'
  BY <1>19 DEF BackupStart, Max2
<1>20. ASSUME NEW b \in Threads, BackupFinish(b) PROVE TypeOK'
  BY ZenonT(30), <1>20 DEF BackupFinish
<1>21. ASSUME NEW b \in Threads, BackupOccupy(b) PROVE TypeOK'
  BY <1>21 DEF BackupOccupy
<1>22. ASSUME NEW n \in Nat, Restart(n) PROVE TypeOK'
  BY <1>22, RestartType
<1>23. CASE UNCHANGED vars
  BY <1>23 DEF vars
<1> HIDE DEF TypeOK, Goto, Locations, listVars, ghostVars, seqVars, gateVars
<1> QED
  BY <1>1, <1>2, <1>3, <1>4, <1>5, <1>6, <1>7, <1>8, <1>9, <1>10, <1>11,
     <1>12, <1>13, <1>14, <1>15, <1>16, <1>17, <1>18, <1>19, <1>20, <1>21,
     <1>22, <1>23, RestartRange
     DEF Next, WriteStep, SnapStep, BackupStep, Threads

\* Every field of a Writer and every shared counter stays in its range.
THEOREM TypeCorrect == Spec => []TypeOK
  BY TypeInit, TypeStep, PTL DEF Spec

----------------------------------------------------------------------------
\* Joining the queue: the new Writer becomes the tail, reachable from nobody
\* else, and reaches everything but the orphans.
LEMMA JoinList ==
  ASSUME TypeOK, linked \subseteq Threads, PointersSafe, ChainInv,
         NEW t \in Threads, t \notin linked, JoinQueue(t)
  PROVE  PointersSafe' /\ ChainInv'
<1> USE ThreadsAssumption DEF JoinQueue, Store
<1>1. tail # t /\ t # NoOne /\ t \notin orphans
  BY DEF PointersSafe, ChainInv
<1>2. /\ prev' = [prev EXCEPT ![t] = tail]
      /\ \A u \in Threads : next'[u] = IF u = t THEN NoOne
                                       ELSE IF u = tail THEN t ELSE next[u]
  BY <1>1 DEF TypeOK
<1>3. PointersSafe'
  BY <1>1, <1>2 DEF PointersSafe, TypeOK
<1>4. ChainInv'
  <2>1. /\ \A u \in linked : u # t /\ ahead'[u] = ahead[u] /\ prev'[u] = prev[u]
        /\ ahead'[t] = linked \ orphans
        /\ prev'[t] = tail
        /\ linked' = linked \cup {t} /\ tail' = t /\ orphans' = orphans
    BY <1>2 DEF TypeOK
  <2>2. /\ orphans' \subseteq linked'
        /\ linked' \ orphans' = ahead'[t] \cup {t}
    BY <2>1, <1>1 DEF ChainInv
  <2>3. ASSUME NEW u \in linked
        PROVE  /\ u \notin ahead'[u]
               /\ ahead'[u] \subseteq linked'
               /\ prev'[u] = NoOne => ahead'[u] = {}
               /\ prev'[u] # NoOne => ahead'[u] = ahead'[prev'[u]] \cup {prev'[u]}
    BY <2>1 DEF ChainInv, PointersSafe
  <2>4. /\ t \notin ahead'[t]
        /\ ahead'[t] \subseteq linked'
        /\ prev'[t] = NoOne => ahead'[t] = {}
        /\ prev'[t] # NoOne => ahead'[t] = ahead'[prev'[t]] \cup {prev'[t]}
    BY <2>1, <1>1 DEF ChainInv, PointersSafe
  <2> QED
    BY <2>1, <2>2, <2>3, <2>4, <1>1 DEF ChainInv
<1> QED
  BY <1>3, <1>4

\* Leaving the queue: nobody points to the Writer any more, and what was
\* behind it still reaches what was in front of it.
LEMMA LeaveList ==
  ASSUME TypeOK, linked \subseteq Threads, PointersSafe, ChainInv,
         NEW t \in Threads, t \in linked, LeaveQueue(t)
  PROVE  PointersSafe' /\ ChainInv'
<1> DEFINE p == prev[t]
           n == next[t]
<1>1. /\ t # NoOne
      /\ p # NoOne => p \in linked /\ next[p] = t /\ p # t
      /\ n # NoOne => n \in linked /\ prev[n] = t /\ n # t
  BY ThreadsAssumption DEF PointersSafe, ChainInv
<1>2. /\ linked' = linked \ {t}
      /\ tail' = IF tail = t THEN NoOne ELSE tail
      /\ orphans' = (IF tail = t THEN linked ELSE orphans) \ {t}
      /\ \A u \in Threads : next'[u] = IF u = p THEN n ELSE next[u]
      /\ \A u \in Threads : prev'[u] = IF u = n THEN p ELSE prev[u]
      /\ \A u \in Threads : ahead'[u] = ahead[u] \ {t}
  BY ThreadsAssumption DEF LeaveQueue, Store, TypeOK
<1>3. tail = t => n = NoOne
  BY <1>1 DEF PointersSafe
<1>4. PointersSafe'
  BY <1>1, <1>2, <1>3 DEF PointersSafe
<1>5. ChainInv'
  <2>1. ASSUME NEW u \in linked, u # t
        PROVE  /\ u \notin ahead'[u]
               /\ ahead'[u] \subseteq linked'
               /\ prev'[u] = NoOne => ahead'[u] = {}
               /\ prev'[u] # NoOne => ahead'[u] = ahead'[prev'[u]] \cup {prev'[u]}
    <3>1. u \notin ahead'[u] /\ ahead'[u] \subseteq linked'
      BY <1>2, <2>1 DEF ChainInv
    <3>2. CASE u = n
      <4>1. prev'[u] = p /\ ahead'[u] = ahead[t]
        <5>1. prev[u] = t /\ t # NoOne
          BY <3>2, <1>1, <2>1, ThreadsAssumption
        <5>2. ahead[u] = ahead[t] \cup {t} /\ t \notin ahead[t]
          BY <5>1 DEF ChainInv
        <5>3. u \in Threads
          BY <2>1
        <5>4. prev'[u] = p /\ ahead'[u] = ahead[u] \ {t}
          BY <5>3, <3>2, <1>2
        <5>5. ahead[u] \ {t} = ahead[t]
          BY <5>2
        <5> QED
          BY <5>4, <5>5
      <4>2. p # NoOne => ahead[t] = ahead'[p] \cup {p}
        BY <1>1, <1>2 DEF ChainInv
      <4>3. p = NoOne => ahead[t] = {}
        BY DEF ChainInv
      <4> QED
        BY <3>1, <4>1, <4>2, <4>3
    <3>3. CASE u # n
      BY <3>3, <2>1, <1>1, <1>2 DEF ChainInv, PointersSafe
    <3> QED
      BY <3>1, <3>2, <3>3
  <2>2. orphans' \subseteq linked'
    BY <1>2 DEF ChainInv
  <2>3. tail' = NoOne => linked' = orphans'
    BY <1>1, <1>2 DEF ChainInv
  <2>4. tail' # NoOne => linked' \ orphans' = ahead'[tail'] \cup {tail'}
    BY <1>1, <1>2 DEF ChainInv, PointersSafe
  <2> QED
    BY <2>1, <2>2, <2>3, <2>4, <1>2 DEF ChainInv
<1> QED
  BY <1>4, <1>5

\* A step that leaves the queued Writers' pointers alone keeps the list.
LEMMA SameList ==
  ASSUME TypeOK, linked \subseteq Threads, PointersSafe, ChainInv,
         UNCHANGED <<tail, linked, ahead, orphans>>,
         \A u \in linked : prev'[u] = prev[u] /\ next'[u] = next[u]
  PROVE  PointersSafe' /\ ChainInv'
<1>1. PointersSafe'
  BY DEF PointersSafe
<1>2. ChainInv'
  BY DEF ChainInv
<1> QED
  BY <1>1, <1>2

\* A step that touches neither the queued Writers nor what a waiter recorded.
QuietStep ==
  /\ UNCHANGED <<tail, linked, ahead, orphans, missed, upper, snap>>
  /\ lastSeq' <= upper
  /\ \A u \in Threads : last'[u] <= upper
  /\ \A u \in linked : /\ prev'[u] = prev[u] /\ next'[u] = next[u]
                       /\ first'[u] = first[u] /\ last'[u] = last[u]
  /\ \A r \in Snappers : \/ pc'[r] = pc[r]
                         \/ pc[r] = "unlinked" /\ pc'[r] = "held"

\* Such a step keeps everything but, perhaps, PhaseInv.
LEMMA QuietInv ==
  ASSUME IInv, QuietStep
  PROVE  PointersSafe' /\ ChainInv' /\ OrderInv' /\ WaitInv'
<1>1. PointersSafe' /\ ChainInv'
  BY SameList DEF IInv, QuietStep, PhaseInv
<1>2. OrderInv'
  BY DEF IInv, QuietStep, OrderInv
<1>3. WaitInv'
  BY SMTT(30) DEF IInv, QuietStep, WaitInv
<1> QED
  BY <1>1, <1>2, <1>3

\* GetSnapshot reads the sequence number: it misses the orphans only.
LEMMA SnapReadInv ==
  ASSUME IInv, NEW t \in Snappers, SnapRead(t)
  PROVE  PhaseInv' /\ PointersSafe' /\ ChainInv' /\ OrderInv' /\ WaitInv'
<1>i. TypeOK /\ PhaseInv /\ PointersSafe /\ ChainInv /\ OrderInv /\ WaitInv
  BY Zenon DEF IInv
<1>m. linked \subseteq Threads
  BY Zenon, <1>i DEF PhaseInv
<1>n. /\ Writers \subseteq Threads /\ Snappers \subseteq Threads
      /\ Backers \subseteq Threads
  BY Zenon DEF Threads
<1>1. PhaseInv'
  BY <1>i, ThreadsAssumption
     DEF SnapRead, SnapshotSequence, Goto, PhaseInv, TypeOK, Locations,
         listVars, Threads
<1>2. /\ UNCHANGED <<tail, prev, next, linked, ahead, orphans>>
      /\ UNCHANGED <<first, last, upper, lastSeq>>
  BY DEF SnapRead, SnapshotSequence, listVars, seqVars, ghostVars
<1>3. PointersSafe' /\ ChainInv'
  BY <1>i, <1>m, <1>2, SameList
<1>4. t \in Threads /\ t \notin linked
  BY SMTT(30), <1>i, <1>n DEF SnapRead, SnapshotSequence, PhaseInv
<1>5. /\ snap'[t] <= upper /\ missed'[t] \subseteq linked
      /\ \A u \in Threads \ {t} : /\ snap'[u] = snap[u]
                                  /\ missed'[u] = missed[u]
                                  /\ pc'[u] = pc[u]
  BY <1>i, <1>4 DEF SnapRead, SnapshotSequence, Goto, TypeOK, OrderInv, ChainInv,
     seqVars, ghostVars
<1>6. OrderInv'
  BY ZenonT(30), <1>i, <1>m, <1>2, <1>4, <1>5 DEF OrderInv
<1>7. WaitInv'
  <2>1. \A w \in linked : pc'[t] # "waiting"
           /\ (pc'[t] \in {"unlinked", "held"} => w \in missed'[t])
    BY ZenonT(30), <1>i, <1>4 DEF SnapRead, SnapshotSequence, Goto, TypeOK, ChainInv
  <2> QED
    BY ZenonT(30), <1>i, <1>n, <1>2, <1>5, <2>1 DEF WaitInv
<1> QED
  BY Zenon, <1>1, <1>3, <1>6, <1>7

\* GetSnapshot that need not wait has every writer it must see behind it.
LEMMA SnapNoWaitInv ==
  ASSUME IInv, NEW t \in Snappers, SnapNoWait(t)
  PROVE  PhaseInv' /\ PointersSafe' /\ ChainInv' /\ OrderInv' /\ WaitInv'
<1>i. TypeOK /\ PhaseInv /\ PointersSafe /\ ChainInv /\ OrderInv /\ WaitInv
  BY Zenon DEF IInv
<1>m. linked \subseteq Threads
  BY Zenon, <1>i DEF PhaseInv
<1>n. /\ Writers \subseteq Threads /\ Snappers \subseteq Threads
      /\ Backers \subseteq Threads
  BY Zenon DEF Threads
<1>1. PhaseInv'
  BY <1>i, ThreadsAssumption
     DEF SnapNoWait, Goto, PhaseInv, TypeOK, Locations, listVars, Threads
<1>2. /\ UNCHANGED <<tail, prev, next, linked, ahead, orphans>>
      /\ UNCHANGED <<first, last, upper, lastSeq>>
  BY DEF SnapNoWait, listVars, seqVars, ghostVars
<1>3. PointersSafe' /\ ChainInv'
  BY <1>i, <1>m, <1>2, SameList
<1>4. t \in Threads /\ t \notin linked
  BY ZenonT(30), <1>i, <1>n DEF SnapNoWait, PhaseInv
<1>5. /\ snap'[t] <= upper /\ missed'[t] \subseteq linked
      /\ \A u \in Threads \ {t} : /\ snap'[u] = snap[u]
                                  /\ missed'[u] = missed[u]
                                  /\ pc'[u] = pc[u]
  BY SMTT(30), <1>i, <1>4 DEF SnapNoWait, Goto, TypeOK, OrderInv, ChainInv,
     seqVars, ghostVars
<1>6. OrderInv'
  BY Zenon, <1>i, <1>m, <1>2, <1>4, <1>5 DEF OrderInv
<1>7. WaitInv'
  <2>1. \A w \in linked : pc'[t] # "waiting"
           /\ (pc'[t] \in {"unlinked", "held"} => w \in missed'[t])
    BY ZenonT(30), <1>i, <1>4 DEF SnapNoWait, Goto, TypeOK, ChainInv
  <2> QED
    BY ZenonT(30), <1>i, <1>n, <1>2, <1>5, <2>1 DEF WaitInv
<1> QED
  BY Zenon, <1>1, <1>3, <1>6, <1>7

\* ReleaseSnapshot forgets the snapshot.
LEMMA SnapReleaseInv ==
  ASSUME IInv, NEW t \in Snappers, SnapRelease(t)
  PROVE  PhaseInv' /\ PointersSafe' /\ ChainInv' /\ OrderInv' /\ WaitInv'
<1>i. TypeOK /\ PhaseInv /\ PointersSafe /\ ChainInv /\ OrderInv /\ WaitInv
  BY Zenon DEF IInv
<1>m. linked \subseteq Threads
  BY Zenon, <1>i DEF PhaseInv
<1>n. /\ Writers \subseteq Threads /\ Snappers \subseteq Threads
      /\ Backers \subseteq Threads
  BY Zenon DEF Threads
<1>1. PhaseInv'
  BY <1>i, ThreadsAssumption
     DEF SnapRelease, Goto, PhaseInv, TypeOK, Locations, listVars, Threads
<1>2. /\ UNCHANGED <<tail, prev, next, linked, ahead, orphans>>
      /\ UNCHANGED <<first, last, upper, lastSeq>>
  BY DEF SnapRelease, listVars, seqVars
<1>3. PointersSafe' /\ ChainInv'
  BY <1>i, <1>m, <1>2, SameList
<1>4. t \in Threads /\ t \notin linked
  BY SMTT(30), <1>i, <1>n DEF SnapRelease, PhaseInv
<1>5. /\ snap'[t] <= upper /\ missed'[t] \subseteq linked
      /\ \A u \in Threads \ {t} : /\ snap'[u] = snap[u]
                                  /\ missed'[u] = missed[u]
                                  /\ pc'[u] = pc[u]
  BY SMTT(30), <1>i, <1>4 DEF SnapRelease, Goto, TypeOK, OrderInv, ChainInv,
     seqVars, ghostVars
<1>6. OrderInv'
  BY Zenon, <1>i, <1>m, <1>2, <1>4, <1>5 DEF OrderInv
<1>7. WaitInv'
  <2>1. \A w \in linked : pc'[t] # "waiting"
           /\ (pc'[t] \in {"unlinked", "held"} => w \in missed'[t])
    BY <1>i, <1>4 DEF SnapRelease, Goto, TypeOK, ChainInv
  <2> QED
    BY SMTT(30), <1>i, <1>n, <1>2, <1>5, <2>1 DEF WaitInv
<1> QED
  BY Zenon, <1>1, <1>3, <1>6, <1>7

\* SequenceWriteBegin puts a writer behind those in the list, with numbers above all
\* that were handed out.
LEMMA WriteLinkInv ==
  ASSUME IInv, NEW t \in Writers \cup Backers, NEW d \in Nat, WriteLink(t, d)
  PROVE  PhaseInv' /\ PointersSafe' /\ ChainInv' /\ OrderInv' /\ WaitInv'
<1>i. TypeOK /\ PhaseInv /\ PointersSafe /\ ChainInv /\ OrderInv /\ WaitInv
  BY Zenon DEF IInv
<1>m. linked \subseteq Threads
  BY Zenon, <1>i DEF PhaseInv
<1>n. /\ Writers \subseteq Threads /\ Snappers \subseteq Threads
      /\ Backers \subseteq Threads
  BY Zenon DEF Threads
<1>1. t \in Threads /\ t \notin linked
  BY SMTT(30), <1>i, <1>n DEF WriteLink, PhaseInv
<1>2. PointersSafe' /\ ChainInv'
  BY ZenonT(30), <1>i, <1>m, <1>1, JoinList DEF WriteLink
<1>3. PhaseInv'
  BY SMTT(30), <1>i, <1>1, ThreadsAssumption
     DEF WriteLink, JoinQueue, Goto, PhaseInv, TypeOK, Locations, Threads
<1>4. /\ upper' = upper + 1 + d /\ lastSeq' = lastSeq /\ snap' = snap
      /\ last'[t] = upper + 1 + d /\ first'[t] = upper + 1
      /\ \A u \in Threads \ {t} : last'[u] = last[u] /\ first'[u] = first[u]
  BY SMTT(30), <1>i, <1>1 DEF WriteLink, Ticket, TypeOK
<1>5. /\ linked' = linked \cup {t}
      /\ ahead'[t] = linked \ orphans /\ missed'[t] = orphans
      /\ \A u \in Threads \ {t} : ahead'[u] = ahead[u] /\ missed'[u] = missed[u]
  BY ZenonT(30), <1>i, <1>1 DEF WriteLink, JoinQueue, TypeOK
<1>6. /\ orphans \subseteq linked
      /\ \A u \in linked : t \notin ahead[u] \cup missed[u]
  BY ZenonT(30), <1>i, <1>m, <1>1 DEF ChainInv, OrderInv
<1>7. OrderInv'
  <2>1. \A u \in Threads :
          last'[u] <= upper' /\ snap'[u] <= upper' /\ missed'[u] \subseteq linked'
    BY SMTT(30), <1>i, <1>1, <1>4, <1>5, <1>6 DEF OrderInv, TypeOK
  <2>2. \A u, v \in linked' : u # v =>
          \/ v \in ahead'[u] \cup missed'[u]
          \/ u \in ahead'[v] \cup missed'[v]
    BY SMTT(30), <1>i, <1>m, <1>1, <1>5 DEF OrderInv
  <2>3. ASSUME NEW u \in linked \ Snappers, NEW v \in linked' \ Snappers,
               v \in ahead'[u] \cup missed'[u]
        PROVE  last'[v] < first'[u]
    <3>1. v # t /\ v \in linked /\ u # t
      BY ZenonT(30), <2>3, <1>m, <1>1, <1>5, <1>6
    <3> QED
      BY <2>3, <3>1, <1>i, <1>m, <1>4, <1>5 DEF OrderInv
  <2>4. ASSUME NEW v \in linked' \ Snappers, v \in ahead'[t] \cup missed'[t]
        PROVE  last'[v] < first'[t]
    <3>1. v \in linked /\ v # t
      BY ZenonT(30), <2>4, <1>1, <1>5, <1>6
    <3> QED
      BY <3>1, <1>i, <1>m, <1>4 DEF OrderInv, TypeOK
  <2>5. \A u \in linked' \ Snappers : first'[u] <= last'[u]
    BY SMTT(30), <1>i, <1>m, <1>1, <1>4, <1>5 DEF OrderInv, TypeOK
  <2>6. lastSeq' <= upper'
    BY SMTT(30), <1>i, <1>4 DEF OrderInv, TypeOK
  <2> QED
    BY ZenonT(30), <2>1, <2>2, <2>3, <2>4, <2>5, <2>6, <1>5 DEF OrderInv
<1>8. WaitInv'
  <2>1. \A r \in Snappers : r \in Threads /\ r # t /\ pc'[r] = pc[r]
    BY ZenonT(30), <1>i, <1>n, <1>1, ThreadsAssumption DEF WriteLink, Goto, TypeOK
  <2>2. \A r \in Snappers : first'[t] > snap'[r]
    BY SMTT(30), <1>i, <1>n, <1>4 DEF OrderInv, TypeOK
  <2>3. ASSUME NEW r \in Snappers, NEW w \in linked' \cap Writers,
               first'[w] <= snap'[r]
        PROVE  /\ pc'[r] = "waiting" => w \in ahead'[r] \cup missed'[r]
               /\ pc'[r] \in {"unlinked", "held"} => w \in missed'[r]
    <3>1. snap'[r] \in Nat /\ first'[t] \in Nat /\ first'[t] > snap'[r]
      BY <1>i, <1>n, <1>4, <2>2 DEF TypeOK
    <3>2. w # t
      BY SMTT(30), <2>3, <3>1
    <3>3. w \in linked \cap Writers /\ first[w] <= snap[r]
      BY <2>3, <3>2, <1>n, <1>4, <1>5
    <3>4. r \in Threads \ {t} /\ pc'[r] = pc[r]
      BY <2>1
    <3>5. ahead'[r] = ahead[r] /\ missed'[r] = missed[r]
      BY <3>4, <1>5
    <3>6. /\ pc[r] = "waiting" => w \in ahead[r] \cup missed[r]
          /\ pc[r] \in {"unlinked", "held"} => w \in missed[r]
      BY Zenon, <3>3, <1>i DEF WaitInv
    <3> QED BY SMTT(30), <3>4, <3>5, <3>6
  <2> QED
    BY ZenonT(30), <2>3 DEF WaitInv
<1> QED
  BY Zenon, <1>2, <1>3, <1>7, <1>8

\* GetSnapshot puts its waiter behind the writers in the list.
LEMMA SnapWaitInv ==
  ASSUME IInv, NEW t \in Snappers, SnapWait(t)
  PROVE  PhaseInv' /\ PointersSafe' /\ ChainInv' /\ OrderInv' /\ WaitInv'
<1>i. TypeOK /\ PhaseInv /\ PointersSafe /\ ChainInv /\ OrderInv /\ WaitInv
  BY Zenon DEF IInv
<1>m. linked \subseteq Threads
  BY Zenon, <1>i DEF PhaseInv
<1>n. /\ Writers \subseteq Threads /\ Snappers \subseteq Threads
      /\ Backers \subseteq Threads
  BY Zenon DEF Threads
<1>1. t \in Threads /\ t \notin linked
  BY <1>i, <1>n DEF SnapWait, PhaseInv
<1>2. PointersSafe' /\ ChainInv'
  BY ZenonT(30), <1>i, <1>m, <1>1, JoinList DEF SnapWait
<1>3. PhaseInv'
  BY <1>i, <1>1, ThreadsAssumption
     DEF SnapWait, JoinQueue, Goto, PhaseInv, TypeOK, Locations, Threads
<1>4. UNCHANGED seqVars
  BY DEF SnapWait
<1>5. /\ linked' = linked \cup {t}
      /\ ahead'[t] = linked \ orphans /\ missed'[t] = orphans
      /\ \A u \in Threads \ {t} : ahead'[u] = ahead[u] /\ missed'[u] = missed[u]
  BY <1>i, <1>1 DEF SnapWait, JoinQueue, TypeOK
<1>6. orphans \subseteq linked
  BY <1>i DEF ChainInv
<1>7. OrderInv'
  BY ZenonT(30), <1>i, <1>m, <1>1, <1>4, <1>5, <1>6 DEF OrderInv, seqVars
<1>8. WaitInv'
  <2>1. pc'[t] = "waiting" /\ \A r \in Snappers \ {t} : pc'[r] = pc[r]
    BY <1>i, <1>n, <1>1 DEF SnapWait, Goto, TypeOK
  <2>2. linked' \cap Writers = linked \cap Writers
    BY <1>5, ThreadsAssumption
  <2> QED
    BY Zenon, <1>i, <1>n, <1>4, <1>5, <2>1, <2>2 DEF WaitInv, seqVars
<1> QED
  BY Zenon, <1>2, <1>3, <1>7, <1>8

\* SequenceWriteEnd takes a writer out of the list.
LEMMA WriteUnlinkInv ==
  ASSUME IInv, NEW t \in Writers \cup Backers, WriteUnlink(t)
  PROVE  PhaseInv' /\ PointersSafe' /\ ChainInv' /\ OrderInv' /\ WaitInv'
<1>i. TypeOK /\ PhaseInv /\ PointersSafe /\ ChainInv /\ OrderInv /\ WaitInv
  BY Zenon DEF IInv
<1>m. linked \subseteq Threads
  BY Zenon, <1>i DEF PhaseInv
<1>n. /\ Writers \subseteq Threads /\ Snappers \subseteq Threads
      /\ Backers \subseteq Threads
  BY Zenon DEF Threads
<1>1. t \in Threads /\ t \in linked
  BY SMTT(30), <1>i, <1>n DEF WriteUnlink, PhaseInv
<1>2. PointersSafe' /\ ChainInv'
  BY SMTT(30), <1>i, <1>m, <1>1, LeaveList DEF WriteUnlink
<1>3. PhaseInv'
  BY ZenonT(30), <1>i, <1>1, ThreadsAssumption
     DEF WriteUnlink, LeaveQueue, Goto, PhaseInv, TypeOK, Locations, Threads
<1>4. /\ UNCHANGED seqVars
      /\ linked' = linked \ {t}
      /\ \A u \in Threads : /\ ahead'[u] = ahead[u] \ {t}
                            /\ missed'[u] = missed[u] \ {t}
  BY SMTT(30) DEF WriteUnlink, LeaveQueue
<1>5. OrderInv'
  BY SMTT(30), <1>i, <1>m, <1>4 DEF OrderInv, seqVars
<1>6. WaitInv'
  <2>1. \A r \in Snappers : pc'[r] = pc[r]
    BY ZenonT(30), <1>i, <1>n, ThreadsAssumption DEF WriteUnlink, Goto, TypeOK
  <2> QED
    BY SMTT(30), <1>i, <1>n, <1>4, <2>1 DEF WaitInv, seqVars
<1> QED
  BY Zenon, <1>2, <1>3, <1>5, <1>6

\* GetSnapshot takes its waiter out of the list.
LEMMA SnapLeaveInv ==
  ASSUME IInv, NEW t \in Snappers, SnapLeave(t)
  PROVE  PhaseInv' /\ PointersSafe' /\ ChainInv' /\ OrderInv' /\ WaitInv'
<1>i. TypeOK /\ PhaseInv /\ PointersSafe /\ ChainInv /\ OrderInv /\ WaitInv
  BY Zenon DEF IInv
<1>m. linked \subseteq Threads
  BY Zenon, <1>i DEF PhaseInv
<1>n. /\ Writers \subseteq Threads /\ Snappers \subseteq Threads
      /\ Backers \subseteq Threads
  BY Zenon DEF Threads
<1>1. t \in Threads /\ t \in linked
  BY ZenonT(30), <1>i, <1>n DEF SnapLeave, PhaseInv
<1>2. PointersSafe' /\ ChainInv'
  BY ZenonT(30), <1>i, <1>m, <1>1, LeaveList DEF SnapLeave
<1>3. PhaseInv'
  BY ZenonT(30), <1>i, <1>1, ThreadsAssumption
     DEF SnapLeave, LeaveQueue, Goto, PhaseInv, TypeOK, Locations, Threads
<1>4. /\ UNCHANGED seqVars
      /\ linked' = linked \ {t}
      /\ \A u \in Threads : /\ ahead'[u] = ahead[u] \ {t}
                            /\ missed'[u] = missed[u] \ {t}
  BY ZenonT(30) DEF SnapLeave, LeaveQueue
<1>5. OrderInv'
  BY SMTT(30), <1>i, <1>m, <1>4 DEF OrderInv, seqVars
<1>6. WaitInv'
  <2>1. /\ \A r \in Snappers \ {t} : pc'[r] = pc[r]
        /\ pc[t] = "waiting" /\ pc'[t] = "unlinked"
    BY ZenonT(30), <1>i, <1>n DEF SnapLeave, Goto, TypeOK
  <2>2. ahead[t] = {}
    BY ZenonT(30), <1>i, <1>1 DEF SnapLeave, ChainInv
  <2> QED
    BY SMTT(30), <1>i, <1>n, <1>4, <2>1, <2>2 DEF WaitInv, seqVars
<1> QED
  BY Zenon, <1>2, <1>3, <1>5, <1>6

\* Every critical section preserves the inductive invariant.
LEMMA InvStep == IInv /\ [Next]_vars => IInv'
<1> SUFFICES ASSUME IInv, [Next]_vars PROVE IInv'
  OBVIOUS
<1>t. TypeOK'
  BY TypeStep DEF IInv
<1>i. TypeOK /\ PhaseInv /\ PointersSafe /\ ChainInv /\ OrderInv /\ WaitInv
  BY DEF IInv
<1>m. linked \subseteq Threads
  BY <1>i DEF PhaseInv
<1>n. /\ Writers \subseteq Threads /\ Snappers \subseteq Threads
      /\ Backers \subseteq Threads
  BY DEF Threads
<1>1. ASSUME NEW t \in Writers, NEW sw \in BOOLEAN, WriteBegin(t, sw)
     PROVE  IInv'
  <2>1. PhaseInv'
    BY SMTT(30), <1>1, <1>i, ThreadsAssumption
       DEF WriteBegin, Goto, PhaseInv, TypeOK, Locations, listVars, Threads
  <2>2. QuietStep
    BY <1>1, <1>i, ThreadsAssumption
       DEF WriteBegin, Goto, QuietStep, PhaseInv, OrderInv, TypeOK, Threads,
           listVars, ghostVars, seqVars, gateVars
  <2> QED
    BY SMTT(30), <1>t, <2>1, <2>2, QuietInv DEF IInv
<1>2. ASSUME NEW t \in Writers, WriteUnblock(t)
     PROVE  IInv'
  <2>1. PhaseInv'
    BY SMTT(30), <1>2, <1>i, ThreadsAssumption
       DEF WriteUnblock, Goto, PhaseInv, TypeOK, Locations, listVars, Threads
  <2>2. QuietStep
    BY <1>2, <1>i, ThreadsAssumption
       DEF WriteUnblock, Goto, QuietStep, PhaseInv, OrderInv, TypeOK, Threads,
           listVars, ghostVars, seqVars, gateVars
  <2> QED
    BY SMTT(30), <1>t, <2>1, <2>2, QuietInv DEF IInv
<1>3. ASSUME NEW t \in Writers \cup Backers, WriteEnd(t)
     PROVE  IInv'
  <2>1. PhaseInv'
    BY SMTT(30), <1>3, <1>i, ThreadsAssumption
       DEF WriteEnd, Max2, Goto, PhaseInv, TypeOK, Locations, listVars,
           Threads
  <2>2. QuietStep
    BY SMTT(30), <1>3, <1>i, ThreadsAssumption
       DEF WriteEnd, Max2, Goto, QuietStep, PhaseInv, OrderInv, TypeOK,
           Threads,
           listVars, ghostVars, seqVars, gateVars
  <2> QED
    BY <1>t, <2>1, <2>2, QuietInv DEF IInv
<1>4. ASSUME NEW t \in Writers \cup Backers, WriteReturn(t)
     PROVE  IInv'
  <2>1. PhaseInv'
    BY SMTT(30), <1>4, <1>i, ThreadsAssumption
       DEF WriteReturn, Destroy, Goto, PhaseInv, TypeOK, Locations, listVars,
           Threads
  <2>2. QuietStep
    BY SMTT(30), <1>4, <1>i, ThreadsAssumption
       DEF WriteReturn, Destroy, Goto, QuietStep, PhaseInv, OrderInv, TypeOK,
           Threads,
           listVars, ghostVars, seqVars, gateVars
  <2> QED
    BY <1>t, <2>1, <2>2, QuietInv DEF IInv
<1>5. ASSUME NEW t \in Snappers, SnapSleepAgain(t)
     PROVE  IInv'
  <2>1. PhaseInv'
    BY SMTT(30), <1>5, <1>i, ThreadsAssumption
       DEF SnapSleepAgain, Goto, PhaseInv, TypeOK, Locations, listVars,
           Threads
  <2>2. QuietStep
    BY ZenonT(30), <1>5, <1>i, ThreadsAssumption
       DEF SnapSleepAgain, Goto, QuietStep, PhaseInv, OrderInv, TypeOK,
           Threads,
           listVars, ghostVars, seqVars, gateVars
  <2> QED
    BY <1>t, <2>1, <2>2, QuietInv DEF IInv
<1>6. ASSUME NEW t \in Snappers, SnapReturn(t)
     PROVE  IInv'
  <2>1. PhaseInv'
    BY SMTT(30), <1>6, <1>i, ThreadsAssumption
       DEF SnapReturn, Destroy, Goto, PhaseInv, TypeOK, Locations, listVars,
           Threads
  <2>2. QuietStep
    BY SMTT(30), <1>6, <1>i, ThreadsAssumption
       DEF SnapReturn, Destroy, Goto, QuietStep, PhaseInv, OrderInv, TypeOK,
           Threads,
           listVars, ghostVars, seqVars, gateVars
  <2> QED
    BY <1>t, <2>1, <2>2, QuietInv DEF IInv
<1>7. ASSUME NEW t \in Backers, BackupRequest(t)
     PROVE  IInv'
  <2>1. PhaseInv'
    <3>1. /\ linked' = linked /\ t \notin linked
          /\ pc' = [pc EXCEPT ![t] = IF turn THEN "waitTurn" ELSE "turn"]
      BY Zenon, <1>7, <1>i, <1>n DEF BackupRequest, Goto, PhaseInv, listVars
    <3>2. /\ pc'[t] \in {"waitTurn", "turn"} /\ t \in Threads
          /\ \A u \in Threads \ {t} : pc'[u] = pc[u]
      BY Zenon, <1>7, <1>i, <1>n, <3>1 DEF TypeOK
    <3> QED BY ZenonT(30), <1>7, <1>i, <1>n, <3>1, <3>2, ThreadsAssumption
               DEF PhaseInv, Locations
  <2>2. QuietStep
    BY SMTT(30), <1>7, <1>i, ThreadsAssumption
       DEF BackupRequest, Goto, QuietStep, PhaseInv, OrderInv, TypeOK,
           Threads,
           listVars, ghostVars, seqVars, gateVars
  <2> QED
    BY <1>t, <2>1, <2>2, QuietInv DEF IInv
<1>8. ASSUME NEW t \in Backers, BackupTurn(t)
     PROVE  IInv'
  <2>1. PhaseInv'
    BY ZenonT(30), <1>8, <1>i, ThreadsAssumption
       DEF BackupTurn, Goto, PhaseInv, TypeOK, Locations, listVars, Threads
  <2>2. QuietStep
    BY <1>8, <1>i, ThreadsAssumption
       DEF BackupTurn, Goto, QuietStep, PhaseInv, OrderInv, TypeOK, Threads,
           listVars, ghostVars, seqVars, gateVars
  <2> QED
    BY <1>t, <2>1, <2>2, QuietInv DEF IInv
<1>9. ASSUME NEW t \in Backers, NEW ok \in BOOLEAN, NEW sw \in BOOLEAN,
            BackupBegin(t, ok, sw)
     PROVE  IInv'
  <2>1. PhaseInv'
    BY ZenonT(30), <1>9, <1>i, ThreadsAssumption
       DEF BackupBegin, Goto, PhaseInv, TypeOK, Locations, listVars, Threads
  <2>2. QuietStep
    BY ZenonT(30), <1>9, <1>i, ThreadsAssumption
       DEF BackupBegin, Goto, QuietStep, PhaseInv, OrderInv, TypeOK, Threads,
           listVars, ghostVars, seqVars, gateVars
  <2> QED
    BY SMTT(30), <1>t, <2>1, <2>2, QuietInv DEF IInv
<1>10. ASSUME NEW t \in Backers, BackupReleaseAhead(t)
     PROVE  IInv'
  <2>1. PhaseInv'
    BY ZenonT(30), <1>10, <1>i, ThreadsAssumption
       DEF BackupReleaseAhead, Goto, PhaseInv, TypeOK, Locations, listVars,
           Threads
  <2>2. QuietStep
    BY SMTT(30), <1>10, <1>i, ThreadsAssumption
       DEF BackupReleaseAhead, Goto, QuietStep, PhaseInv, OrderInv, TypeOK,
           Threads,
           listVars, ghostVars, seqVars, gateVars
  <2> QED
    BY <1>t, <2>1, <2>2, QuietInv DEF IInv
<1>11. ASSUME NEW t \in Backers, BackupHead(t)
     PROVE  IInv'
  <2>1. PhaseInv'
    BY ZenonT(30), <1>11, <1>i, ThreadsAssumption
       DEF BackupHead, Goto, PhaseInv, TypeOK, Locations, listVars, Threads
  <2>2. QuietStep
    BY ZenonT(30), <1>11, <1>i, ThreadsAssumption
       DEF BackupHead, Goto, QuietStep, PhaseInv, OrderInv, TypeOK, Threads,
           listVars, ghostVars, seqVars, gateVars
  <2> QED
    BY <1>t, <2>1, <2>2, QuietInv DEF IInv
<1>12. ASSUME NEW t \in Backers, BackupStart(t)
     PROVE  IInv'
  <2>1. PhaseInv'
    BY SMTT(30), <1>12, <1>i, ThreadsAssumption
       DEF BackupStart, Max2, Goto, PhaseInv, TypeOK, Locations, listVars,
           Threads
  <2>2. QuietStep
    BY ZenonT(30), <1>12, <1>i, ThreadsAssumption
       DEF BackupStart, Max2, Goto, QuietStep, PhaseInv, OrderInv, TypeOK,
           Threads,
           listVars, ghostVars, seqVars, gateVars
  <2> QED
    BY <1>t, <2>1, <2>2, QuietInv DEF IInv
<1>13. ASSUME NEW t \in Backers, BackupFinish(t)
     PROVE  IInv'
  <2>1. PhaseInv'
    <3>1. /\ linked' = linked
          /\ pc' = [pc EXCEPT ![t] = IF t \in linked THEN "linked" ELSE "idle"]
      BY Zenon, <1>13 DEF BackupFinish, Goto, listVars
    <3>2. /\ (t \in linked /\ pc'[t] = "linked") \/ (t \notin linked /\ pc'[t] = "idle")
          /\ t \in Threads
          /\ \A u \in Threads \ {t} : pc'[u] = pc[u]
      BY Zenon, <1>13, <1>i, <1>n, <3>1 DEF TypeOK
    <3>3. t \notin Writers /\ t \notin Snappers /\ pc'[t] \in Locations \ {"read", "waiting", "held"}
      BY Zenon, <1>13, <3>2, ThreadsAssumption DEF Locations
    <3>4. CASE t \in linked
      BY ZenonT(30), <1>i, <1>n, <3>1, <3>2, <3>3, <3>4 DEF PhaseInv
    <3>5. CASE t \notin linked
      BY ZenonT(30), <1>i, <1>n, <3>1, <3>2, <3>3, <3>5 DEF PhaseInv
    <3> QED BY Zenon, <3>4, <3>5
  <2>2. QuietStep
    BY <1>13, <1>i, ThreadsAssumption
       DEF BackupFinish, Goto, QuietStep, PhaseInv, OrderInv, TypeOK, Threads,
           listVars, ghostVars, seqVars, gateVars
  <2> QED
    BY <1>t, <2>1, <2>2, QuietInv DEF IInv
<1>14. ASSUME NEW t \in Snappers, SnapRead(t)
      PROVE  IInv'
  BY Zenon, <1>14, <1>t, <1>i, SnapReadInv DEF IInv
<1>15. ASSUME NEW t \in Snappers, SnapNoWait(t)
      PROVE  IInv'
  BY Zenon, <1>15, <1>t, <1>i, SnapNoWaitInv DEF IInv
<1>16. ASSUME NEW t \in Snappers, SnapRelease(t)
      PROVE  IInv'
  BY Zenon, <1>16, <1>t, <1>i, SnapReleaseInv DEF IInv
<1>17. ASSUME NEW t \in Writers \cup Backers, NEW d \in Nat, WriteLink(t, d)
      PROVE  IInv'
  BY Zenon, <1>17, <1>t, <1>i, WriteLinkInv DEF IInv
<1>18. ASSUME NEW t \in Snappers, SnapWait(t)
      PROVE  IInv'
  BY Zenon, <1>18, <1>t, <1>i, SnapWaitInv DEF IInv
<1>19. ASSUME NEW t \in Writers \cup Backers, WriteUnlink(t)
      PROVE  IInv'
  BY Zenon, <1>19, <1>t, <1>i, WriteUnlinkInv DEF IInv
<1>20. ASSUME NEW t \in Snappers, SnapLeave(t)
      PROVE  IInv'
  BY Zenon, <1>20, <1>t, <1>i, SnapLeaveInv DEF IInv
<1>21. ASSUME NEW t \in Backers, BackupOccupy(t)
     PROVE  IInv'
  <2>1. PhaseInv'
    BY ZenonT(30), <1>21, <1>i, ThreadsAssumption
       DEF BackupOccupy, Goto, PhaseInv, TypeOK, Locations, listVars, Threads
  <2>2. QuietStep
    BY <1>21, <1>i, ThreadsAssumption
       DEF BackupOccupy, Goto, QuietStep, PhaseInv, OrderInv, TypeOK, Threads,
           listVars, ghostVars, seqVars, gateVars
  <2> QED
    BY <1>t, <2>1, <2>2, QuietInv DEF IInv
<1>22. ASSUME NEW n \in Nat, Restart(n) PROVE IInv'
  <2>1. PhaseInv' /\ PointersSafe' /\ ChainInv' /\ OrderInv' /\ WaitInv'
    BY <1>22 DEF Restart, PhaseInv, PointersSafe, ChainInv, OrderInv, WaitInv,
       Locations, Threads
  <2> QED
    BY ZenonT(30), <1>t, <2>1 DEF IInv
<1>23. CASE UNCHANGED vars
  <2>1. PhaseInv'
    BY ZenonT(30), <1>23, <1>i DEF vars, listVars, PhaseInv
  <2>2. QuietStep
    BY ZenonT(30), <1>23, <1>i DEF vars, listVars, ghostVars, seqVars, gateVars, QuietStep,
       OrderInv
  <2> QED
    BY <1>t, <2>1, <2>2, QuietInv DEF IInv
<1> QED
  BY SMTT(30), <1>1, <1>2, <1>3, <1>4, <1>5, <1>6, <1>7, <1>8, <1>9, <1>10, <1>11,
     <1>12, <1>13, <1>14, <1>15, <1>16, <1>17, <1>18, <1>19, <1>20, <1>21,
     <1>22, <1>23, <1>i, BoundsAssumption, RestartRange
     DEF Next, WriteStep, SnapStep, BackupStep

\* The inductive invariant holds initially.
LEMMA InvInit == Init => IInv
  BY TypeInit, ThreadsAssumption
     DEF Init, IInv, PhaseInv, PointersSafe, ChainInv, OrderInv,
         WaitInv,
         Locations, Threads

\* The facts a reader wants follow from the inductive invariant.
LEMMA InvImplies ==
  IInv => PointersSafe /\ SnapshotMissesOnlyOrphans /\ TicketsOrdered
<1> SUFFICES ASSUME IInv
             PROVE  PointersSafe /\ SnapshotMissesOnlyOrphans /\ TicketsOrdered
  OBVIOUS
<1>1. SnapshotMissesOnlyOrphans
  BY ZenonT(30) DEF IInv, SnapshotMissesOnlyOrphans, InFlight, WaitInv, PhaseInv, Threads
<1>2. TicketsOrdered
  BY DEF IInv, TicketsOrdered, OrderInv, PhaseInv, TypeOK
<1> QED
  BY <1>1, <1>2 DEF IInv

\* No thread ever follows a pointer to a Writer that has left the queue, and
\* the asserts on next_ in SequenceWriteEnd and WaitOutWriters never fire.
THEOREM QueuePointersSafe == Spec => []PointersSafe
  BY InvInit, InvStep, InvImplies, PTL DEF Spec

\* A snapshot handed out by GetSnapshot only misses writers that were cut off
\* the queue by a tail that finished before them.
THEOREM SnapshotTheorem == Spec => []SnapshotMissesOnlyOrphans
  BY InvInit, InvStep, InvImplies, PTL DEF Spec

\* Writers claim disjoint ranges of sequence numbers in queue order.
THEOREM TicketTheorem == Spec => []TicketsOrdered
  BY InvInit, InvStep, InvImplies, PTL DEF Spec

============================================================================
