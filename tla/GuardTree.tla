------------------------------ MODULE GuardTree ------------------------------
(***************************************************************************)
(* What the tables of PebblesDB's levels hold (pebblesdb/src/db): writes   *)
(* go to a memtable, flushes make level-0 tables, compactions merge the    *)
(* tables of a level into the next one.  A level is divided by guards: a   *)
(* table is listed under one guard, or in the sentinel before the first    *)
(* guard, and tables of one guard may overlap.  Version::Get looks for a   *)
(* key level by level, in each level only in the tables listed under the   *)
(* key's guard, newest table first.                                        *)
(*                                                                         *)
(* Some keys become guards when they are put (their hash decides); a guard *)
(* is first a complete guard and starts to divide a level when a           *)
(* compaction of that level or into it is installed.  Flush and compaction *)
(* choose their inputs with the mutex held, work without it, and install   *)
(* their result later.                                                     *)
(***************************************************************************)
EXTENDS Integers, Sequences, FiniteSets, FiniteSetsExt

CONSTANTS
  Keys,       \* user keys, a set of naturals
  GuardFrom,  \* guard keys |-> the first level where they are guards
  LastLevel,  \* kNumLevels - 1
  MaxSeq,     \* bound on writes
  MaxFile     \* bound on tables made

Level == 0..LastLevel
Sentinel == -1

ASSUME TreeAssumption ==
  /\ Keys \subseteq Nat /\ IsFiniteSet(Keys) /\ LastLevel \in Nat \ {0}
  /\ DOMAIN GuardFrom \subseteq Keys /\ \A g \in DOMAIN GuardFrom : GuardFrom[g] \in Level
  /\ MaxSeq \in Nat /\ MaxFile \in Nat

VARIABLES
  hist,      \* ghost: the writes in order; the position is the sequence number
  mem,       \* entries of mem_
  imm,       \* entries of imm_ while it is flushed, else {}
  cut,       \* guards of level 0 when the flush began
  files,     \* files_ of the current version: the tables of each level
  guards,    \* guards_: for each level the sequence number of a guard, 0 for none
  complete,  \* complete_guards_, likewise
  job,       \* the running compaction
  snap,      \* the oldest snapshot, 0 for none
  nextFile,
  spoilt     \* ghost: keys whose lookup one of the known causes has spoilt

vars == <<hist, mem, imm, cut, files, guards, complete, job, snap, nextFile, spoilt>>

Entry == [k : Keys, s : 1..MaxSeq, d : BOOLEAN]
NoGuards == [k \in Keys |-> 0]
NoJob == [on |-> FALSE]

TypeOK ==
  /\ hist \in Seq([k : Keys, d : BOOLEAN]) /\ Len(hist) <= MaxSeq
  /\ mem \subseteq Entry /\ imm \subseteq Entry
  /\ cut \in [Keys -> 0..MaxSeq] /\ nextFile \in 1..(MaxFile + 1)
  /\ DOMAIN files = Level
  /\ \A l \in Level : \A f \in files[l] :
       f.n \in 1..(nextFile - 1) /\ f.e \subseteq Entry /\ f.e # {}
  /\ guards \in [Level -> [Keys -> 0..MaxSeq]]
  /\ complete \in [Level -> [Keys -> 0..MaxSeq]]
  /\ job.on \in BOOLEAN /\ snap \in 0..Len(hist) /\ spoilt \subseteq Keys

Init ==
  /\ hist = <<>> /\ mem = {} /\ imm = {} /\ cut = NoGuards
  /\ files = [l \in Level |-> {}]
  /\ guards = [l \in Level |-> NoGuards] /\ complete = [l \in Level |-> NoGuards]
  /\ job = NoJob /\ snap = 0 /\ nextFile = 1 /\ spoilt = {}

-----------------------------------------------------------------------------
(* Order.  Entries of a key are ordered newest first.                      *)

Before(x, y) == x.k < y.k \/ (x.k = y.k /\ x.s > y.s)

\* A table with number n (FileMetaData).
Table(n, E) ==
  [n |-> n, e |-> E,
   smallest |-> CHOOSE x \in E : \A y \in E : y = x \/ Before(x, y),
   largest  |-> CHOOSE x \in E : \A y \in E : y = x \/ Before(y, x)]

Covers(f, k) == f.smallest.k <= k /\ k <= f.largest.k

GuardsIn(gs) == {k \in Keys : gs[k] # 0}

\* The guard a user key belongs to (FindGuard).
GuardOf(gs, k) == Max({Sentinel} \cup {g \in GuardsIn(gs) : g <= k})

-----------------------------------------------------------------------------
(* Tables and guards (PopulateFilesToGuardsAndSentinels).                  *)

\* The guard whose range the largest entry of a table lies in.  Guard keys
\* carry a sequence number here: a newer entry of the key sorts before it.
Own(gs, f) ==
  Max({Sentinel} \cup {g \in GuardsIn(gs) : ~Before(f.largest, [k |-> g, s |-> gs[g]])})

\* The loop goes through the tables by smallest key and never returns to an
\* earlier guard.
ListedBefore(x, f) ==
  \/ Before(x.smallest, f.smallest)
  \/ x.smallest = f.smallest /\ x.n <= f.n

Home(fs, gs, f) == Max({Own(gs, x) : x \in {y \in fs : ListedBefore(y, f)}})

Listed(fs, gs, g) == {f \in fs : Home(fs, gs, f) = g}

-----------------------------------------------------------------------------
(* Lookups.                                                                *)

\* Versions of a key a reader at sequence number s may see.
Visible(E, k, s) == {x \in E : x.k = k /\ x.s <= s}

Newest(E) == CHOOSE x \in E : \A y \in E : y.s <= x.s

Value(x) == IF x.d THEN 0 ELSE x.s

\* Versions of a key in a level that a search may come to: those in the
\* tables listed under the key's guard.
Candidates(fs, gs, k, s) ==
  {f \in fs : Covers(f, k) /\ Visible(f.e, k, s) # {} /\ Home(fs, gs, f) = GuardOf(gs, k)}

\* The search of a level with the tables in the wrong order.
FirstHitOldest(hit) == CHOOSE f \in hit : \A h \in hit : f.n <= h.n

\* The tables are searched newest first.
FirstHit(hit) == CHOOSE f \in hit : \A h \in hit : h.n <= f.n

\* DBImpl::Get: memtables, then the levels of the version.
Get(k, s) ==
  LET hit == [l \in Level |-> Candidates(files[l], guards[l], k, s)]
      lv  == {l \in Level : hit[l] # {}}
  IN  IF Visible(mem, k, s) # {} THEN Value(Newest(Visible(mem, k, s)))
      ELSE IF Visible(imm, k, s) # {} THEN Value(Newest(Visible(imm, k, s)))
      ELSE IF lv = {} THEN 0
      ELSE Value(Newest(Visible(FirstHit(hit[Min(lv)]).e, k, s)))

-----------------------------------------------------------------------------
(* Writes and snapshots.                                                   *)

\* Bound: no write or new snapshot once no table can be made any more.
Room == Len(hist) < MaxSeq /\ nextFile <= MaxFile

\* A put of a guard key also makes complete guards of it; LogAndApply carries
\* those added meanwhile over to a new version.  The first guard of a key
\* prevails over later ones (SaveTo).
Put(k) ==
  /\ Room
  /\ hist' = Append(hist, [k |-> k, d |-> FALSE])
  /\ mem' = mem \cup {[k |-> k, s |-> Len(hist) + 1, d |-> FALSE]}
  /\ complete' = [l \in Level |->
       IF k \in DOMAIN GuardFrom /\ l >= GuardFrom[k] /\ complete[l][k] = 0
       THEN [complete[l] EXCEPT ![k] = Len(hist) + 1] ELSE complete[l]]
  /\ UNCHANGED <<imm, cut, files, guards, job, snap, nextFile, spoilt>>

Delete(k) ==
  /\ Room
  /\ hist' = Append(hist, [k |-> k, d |-> TRUE])
  /\ mem' = mem \cup {[k |-> k, s |-> Len(hist) + 1, d |-> TRUE]}
  /\ UNCHANGED <<imm, cut, files, guards, complete, job, snap, nextFile, spoilt>>

TakeSnapshot ==
  /\ Room /\ snap = 0 /\ Len(hist) > 0 /\ snap' = Len(hist)
  /\ UNCHANGED <<hist, mem, imm, cut, files, guards, complete, job, nextFile, spoilt>>

ReleaseSnapshot ==
  /\ snap # 0 /\ snap' = 0
  /\ UNCHANGED <<hist, mem, imm, cut, files, guards, complete, job, nextFile, spoilt>>

-----------------------------------------------------------------------------
(* Ghost: keys that a new version spoils.                                  *)

Holds(f, k) == \E x \in f.e : x.k = k

\* A table of the key is listed under another guard than the key's.
Astray(fs, gs, k) == \E f \in fs : Holds(f, k) /\ Home(fs, gs, f) # GuardOf(gs, k)

\* The newer of two tables of a level has the older version.
Inverted(fs, k) ==
  \E f, h \in fs : \E x \in f.e, y \in h.e :
    x.k = k /\ y.k = k /\ x.s > y.s /\ f.n < h.n

Spoils(fs, gs) == {k \in Keys : Astray(fs, gs, k) \/ Inverted(fs, k)}

-----------------------------------------------------------------------------
(* Tables of a set of entries.                                             *)

\* Not divided.
PartsWhole(E, gs) == {E}

\* One table for each guard in gs that has entries.
Parts(E, gs) == {{x \in E : GuardOf(gs, x.k) = g} : g \in {GuardOf(gs, x.k) : x \in E}}

\* One number too far.
NumberedAfter(P, first) ==
  {Table(first + 1 + Cardinality({q \in P \ {p} : \E x \in p, y \in q : Before(y, x)}), p)
   : p \in P}

\* Numbered in the order of their keys.
Numbered(P, first) ==
  {Table(first + Cardinality({q \in P \ {p} : \E x \in p, y \in q : Before(y, x)}), p) : p \in P}

-----------------------------------------------------------------------------
(* The memtable thread.                                                    *)

\* The memtable is full and switched (MakeRoomForWrite); the guards of
\* level 0 are read and the mutex is released.
FlushStart ==
  /\ imm = {} /\ mem # {} /\ nextFile <= MaxFile
  /\ imm' = mem /\ mem' = {} /\ cut' = guards[0]
  /\ UNCHANGED <<hist, files, guards, complete, job, snap, nextFile, spoilt>>

FlushInstall ==
  /\ imm # {}
  /\ LET P  == Parts(imm, cut)
         fs == files[0] \cup Numbered(P, nextFile)
     IN  /\ nextFile + Cardinality(P) <= MaxFile + 1
         /\ nextFile' = nextFile + Cardinality(P)
         /\ files' = [files EXCEPT ![0] = fs]
         /\ spoilt' = spoilt \cup Spoils(fs, guards[0])
  /\ imm' = {} /\ cut' = NoGuards
  /\ UNCHANGED <<hist, mem, guards, complete, job, snap>>

-----------------------------------------------------------------------------
(* Choosing a compaction.                                                  *)

\* A table does not fit between the complete guards around its guard g.
Misfit(f, cs, g) ==
  \/ f.smallest.k < g
  \/ \E h \in GuardsIn(cs) : h > g /\ f.largest.k >= h

\* Groups of a level: the sentinel and the guards.
Groups(l) == {Sentinel} \cup GuardsIn(guards[l])

\* Only the newest table of a group.
GroupNewest(l, g) ==
  LET G == Listed(files[l], guards[l], g) IN {f \in G : \A h \in G : h.n <= f.n}

Group(l, g) == Listed(files[l], guards[l], g)

MisfitGroups(l) == {g \in Groups(l) : \E f \in Group(l, g) : Misfit(f, complete[l], g)}

\* Only some tables of a level take part.
SomeOf(l, G) ==
  {S \in SUBSET files[l] :
     /\ \A f \in S : Home(files[l], guards[l], f) \in G \cup MisfitGroups(l)
     /\ \A g \in MisfitGroups(l) : Group(l, g) \subseteq S
     /\ \A g \in G : Group(l, g) = {} \/ Group(l, g) \cap S # {}}

Merge(gs, more) == [k \in Keys |-> IF gs[k] # 0 THEN gs[k] ELSE more[k]]

SmallestSnapshot == IF snap = 0 THEN Len(hist) ELSE snap

\* Groups whose score is high enough, and all groups with a table that does
\* not fit; of the next level only the latter (PickCompactionForGuards).
PickVertical(l) ==
  /\ ~job.on /\ files[l] # {} /\ l < LastLevel
  /\ \E G \in SUBSET Groups(l) :
       LET in0 == UNION {Group(l, g) : g \in G \cup MisfitGroups(l)}
           in1 == UNION {Group(l + 1, g) : g \in MisfitGroups(l + 1)}
       IN  /\ in0 \cup in1 # {}
           /\ job' = [on |-> TRUE, level |-> l, out |-> l + 1, in0 |-> in0, in1 |-> in1,
                      split |-> complete[l + 1], manual |-> FALSE, small |-> SmallestSnapshot,
                      load |-> [j \in Level |->
                                  IF j \in {l, l + 1} THEN complete[j] ELSE NoGuards],
                      deep |-> UNION {files[j] : j \in (l + 2)..LastLevel}]
  /\ UNCHANGED <<hist, mem, imm, cut, files, guards, complete, snap, nextFile, spoilt>>

\* The last level, or the one before it when it is small, merges tables of
\* its own: small ones of a guard, all of a guard with a misfit.
PickHorizontal(l) ==
  /\ ~job.on /\ l \in {LastLevel - 1, LastLevel}
  /\ \E G \in SUBSET Groups(l) : \E in0 \in SomeOf(l, G) :
       /\ in0 # {}
       /\ job' = [on |-> TRUE, level |-> l, out |-> l, in0 |-> in0, in1 |-> {},
                  split |-> complete[l], manual |-> FALSE, small |-> SmallestSnapshot,
                  load |-> [j \in Level |-> IF j = l THEN complete[j] ELSE NoGuards],
                  deep |-> UNION {files[j] : j \in (l + 2)..LastLevel}]
  /\ UNCHANGED <<hist, mem, imm, cut, files, guards, complete, snap, nextFile, spoilt>>

\* Groups that overlap a range of keys.
Overlapping(l, lo, hi) ==
  {g \in Groups(l) :
     /\ \E f \in Group(l, g) : f.largest.k >= lo /\ (g = Sentinel => f.smallest.k <= hi)
     /\ \E f \in Group(l, g) : f.smallest.k <= hi}

\* A manual compaction (CompactRange): its tables are not divided by guards,
\* and no guards are loaded.  A guard without tables has no bounds to compare;
\* the assertion in user_key() ends the process then.
PickManual(l) ==
  /\ ~job.on /\ l < LastLevel
  /\ \A j \in {l, l + 1} : \A g \in GuardsIn(guards[j]) : Group(j, g) # {}
  /\ \E lo, hi \in Keys :
       LET in0 == UNION {Group(l, g) : g \in Overlapping(l, lo, hi)}
           in1 == UNION {Group(l + 1, g) : g \in Overlapping(l + 1, lo, hi)}
       IN  /\ lo <= hi /\ in0 # {}
           /\ job' = [on |-> TRUE, level |-> l, out |-> l + 1, in0 |-> in0, in1 |-> in1,
                      split |-> NoGuards, manual |-> TRUE, small |-> SmallestSnapshot,
                      load |-> [j \in Level |-> NoGuards],
                      deep |-> UNION {files[j] : j \in (l + 2)..LastLevel}]
  /\ UNCHANGED <<hist, mem, imm, cut, files, guards, complete, snap, nextFile, spoilt>>

-----------------------------------------------------------------------------
(* Compaction work (DoCompactionWorkGuards).                               *)

\* The entries of the inputs.
Inputs == UNION {f.e : f \in job.in0 \cup job.in1}

IsBaseLevelForKey(k) == \A f \in job.deep : ~Covers(f, k)

\* Hidden by a newer entry that every snapshot sees: rule (A).
Hidden(E, x) == \E y \in E : y.k = x.k /\ y.s > x.s /\ y.s <= job.small

\* A deletion marker with nothing below.
Obsolete(x) == x.d /\ x.s <= job.small /\ IsBaseLevelForKey(x.k)

\* Without regard to snapshots.
KeptNewest(E) == {x \in E : ~Obsolete(x) /\ ~\E y \in E : y.k = x.k /\ y.s > x.s}

\* The entries of the inputs that go to the results.
Kept(E) == {x \in E : ~Hidden(E, x) /\ ~Obsolete(x)}

\* Ghost: keys with a marker that is dropped although an older version of the
\* key stays outside the inputs, in the level of the compaction or the next.
Reborn(E, rest) ==
  {k \in Keys : \E x \in E : x.k = k /\ Obsolete(x)
      /\ \E l \in {job.level, job.level + 1} \cap Level :
           \E f \in rest[l] : \E y \in f.e : y.k = k /\ y.s < x.s}

\* A table that is full ends after any entry; head is what has been written
\* by then.
CutAt(P, head) == (UNION {{p \cap head, p \ head} : p \in P}) \ {{}}

\* The results replace the inputs.
Install ==
  /\ job.on
  /\ LET ins  == job.in0 \cup job.in1
         kept == Kept(Inputs)
         rest == [l \in Level |-> files[l] \ ins]
         gs   == [l \in Level |-> Merge(guards[l], job.load[l])]
     IN  \E head \in {kept} \cup {{y \in kept : y = x \/ Before(y, x)} : x \in kept} :
           LET P  == CutAt(Parts(kept, job.split), head)
               fs == [rest EXCEPT ![job.out] = @ \cup Numbered(P, nextFile)]
           IN  /\ nextFile + Cardinality(P) <= MaxFile + 1
               /\ nextFile' = nextFile + Cardinality(P)
               /\ files' = fs /\ guards' = gs
               /\ spoilt' = spoilt \cup Reborn(Inputs, rest)
                              \cup UNION {Spoils(fs[l], gs[l]) : l \in Level}
  /\ job' = NoJob
  /\ UNCHANGED <<hist, mem, imm, cut, complete, snap>>

-----------------------------------------------------------------------------
Next ==
  \/ \E k \in Keys : Put(k) \/ Delete(k)
  \/ TakeSnapshot \/ ReleaseSnapshot
  \/ FlushStart \/ FlushInstall
  \/ \E l \in Level : PickVertical(l) \/ PickHorizontal(l) \/ PickManual(l)
  \/ Install

Spec == Init /\ [][Next]_vars

-----------------------------------------------------------------------------
(* Properties.                                                             *)

\* The value of a key as of sequence number s.
Reference(k, s) ==
  LET w == {i \in 1..s : hist[i].k = k}
  IN  IF w = {} \/ hist[Max({0} \cup w)].d THEN 0 ELSE Max(w)

\* Get returns the newest value of a key, now and at the snapshot, through
\* flushes and compactions and while they run, unless one of the known causes
\* has spoilt the key (Version::Get, db_impl.cc DBImpl::Get).
GetReturnsNewest ==
  \A k \in Keys \ spoilt : \A s \in {Len(hist), snap} : Get(k, s) = Reference(k, s)

\* Version::Get stops at the first level that has the key "since entries never
\* hop across levels": every version of a key in a level is newer than those
\* in the levels below, unless the key is spoilt.
LevelsOrdered ==
  \A k \in Keys \ spoilt : \A i, j \in Level : i < j =>
    \A f \in files[i], h \in files[j] : \A x \in f.e, y \in h.e :
      x.k = k /\ y.k = k => x.s > y.s

\* Whatever flushes and compactions merge, drop or misplace, the newest value
\* of every key and the one the snapshot sees are still in a memtable or in a
\* table of the current version (the drop rules of DoCompactionWorkGuards).
NewestKept ==
  \A k \in Keys : \A s \in {Len(hist), snap} :
    Reference(k, s) # 0 =>
      \E x \in mem \cup imm \cup UNION {f.e : f \in UNION {files[l] : l \in Level}} :
        x.k = k /\ x.s = Reference(k, s)

\* Tables that lie across a guard.
Across(fs, gs) ==
  {f \in fs : \E g \in GuardsIn(gs) : f.smallest.k < g /\ g <= f.largest.k}

\* What can spoil a lookup, and nothing else can: a table that ends with a
\* guard key newer than its guard; in level 0 a table across a guard, behind
\* which later tables are listed under the wrong guard too; a manual
\* compaction, which ignores guards; a horizontal one, which leaves some tables
\* of a guard out; a cut between versions kept for a snapshot; a deletion
\* marker dropped above an older version.  And level 0 gets a table across a
\* guard only from a flush divided by other guards than it has, or when a
\* compaction of level 0 brings new guards and a flush has come between.
SpoiltOnlyBy ==
  [][/\ \A k \in spoilt' \ spoilt :
          \/ k \in DOMAIN GuardFrom
          \/ Across(files'[0], guards'[0]) # {} /\ \E f \in files'[0] : Holds(f, k)
          \/ /\ job.on /\ ~job'.on
             /\ \/ job.manual \/ job.out = job.level
                \/ \E x, y \in Kept(Inputs) : x # y /\ x.k = k /\ y.k = k
                \/ \E x \in Inputs : x.k = k /\ Obsolete(x)
     /\ Across(files[0], guards[0]) = {} /\ Across(files'[0], guards'[0]) # {} =>
          \/ imm # {} /\ imm' = {} /\ cut # guards[0]
          \/ job.on /\ ~job'.on /\ job.level = 0
             /\ Across(files[0] \ job.in0, job.load[0]) # {}]_vars

\* The comment at the drop of a deletion marker (db_impl.cc:1366) says that no
\* older data of the key stays behind: "there is no data in higher levels",
\* and what the compaction reads "will be dropped in the next few iterations".
\* It is not so when a level is compacted into the next one: the next level is
\* not searched, and only some of its tables are read.
MarkersObsolete ==
  job.on /\ job.out = job.level + 1 /\ ~job.manual =>
    \A x \in Inputs : Obsolete(x) =>
      \A l \in Level : \A f \in files[l] \ (job.in0 \cup job.in1) :
        \A y \in f.e : y.k = x.k => y.s > x.s
=============================================================================
