--------------------------- MODULE GuardTreeProofs ---------------------------
(***************************************************************************)
(* Proofs about GuardTree for any keys, guards, levels and numbers of      *)
(* writes: no flush and no compaction drops the newest value of a key, the *)
(* versions of a key get older from level to level and a Get returns the   *)
(* newest one unless the key was spoilt, and the list of what can spoil a  *)
(* key is complete.                                                        *)
(***************************************************************************)
EXTENDS GuardTree, FiniteSetTheorems, WellFoundedInduction, TLAPS

\* The entries of a set of tables, of the levels, and of the database.
EntriesOf(fs) == UNION {f.e : f \in fs}
Stored(fss) == EntriesOf(UNION {fss[l] : l \in Level})
All == mem \cup imm \cup Stored(files)

\* An entry is a write of the history.
WrittenAs(x) ==
  /\ x.s \in 1..Len(hist) /\ x = [k |-> x.k, s |-> x.s, d |-> x.d]
  /\ x.k = hist[x.s].k /\ x.d = hist[x.s].d

\* Write r is the last one of key k up to s.
Last(k, s, r) ==
  /\ r \in 1..s /\ hist[r].k = k
  /\ \A i \in 1..s : hist[i].k = k => i <= r

Shape ==
  /\ hist \in Seq([k : Keys, d : BOOLEAN]) /\ snap \in 0..Len(hist)
  /\ DOMAIN files = Level /\ job.on \in BOOLEAN
  /\ \A x \in All : WrittenAs(x)

\* What a compaction may drop was covered when it was chosen.
JobOK ==
  job.on => /\ job.out \in Level
            /\ job.small \in 0..Len(hist) /\ (snap # 0 => job.small <= snap)
            /\ \A x \in Inputs : WrittenAs(x)

\* A key that was written has a last write.
HasLast ==
  \A k \in Keys : \A s \in 0..Len(hist) :
    (\E i \in 1..s : hist[i].k = k) => \E r \in 1..s : Last(k, s, r)

\* NewestKept, in terms of Last.
LastKept ==
  \A k \in Keys : \A s \in {Len(hist), snap} : \A r \in 1..s :
    Last(k, s, r) /\ ~hist[r].d => \E x \in All : x.k = k /\ x.s = r

TreeInv == Shape /\ JobOK /\ HasLast /\ LastKept

-----------------------------------------------------------------------------
(* Tables keep the entries they are made of.                               *)

LEMMA StoredMember ==
  \A fss, x : x \in Stored(fss) <=> \E l \in Level : \E f \in fss[l] : x \in f.e
BY DEF Stored, EntriesOf

\* Parts divides the entries, and loses none.
LEMMA PartsCover == \A E, gs : UNION Parts(E, gs) = E
BY DEF Parts

\* The tables made of a set of parts hold its entries.
LEMMA NumberedCover == \A P, n : EntriesOf(Numbered(P, n)) = UNION P
<1>1. \A n, p : Table(n, p).e = p
  BY DEF Table
<1> TAKE P, n
<1> DEFINE T(p) == Table(n + Cardinality({q \in P \ {p} : \E x \in p, y \in q : Before(y, x)}), p)
<1>2. \A p \in P : T(p).e = p
  BY <1>1
<1>3. Numbered(P, n) = {T(p) : p \in P}
  BY Zenon DEF Numbered
<1> HIDE DEF T
<1> QED BY <1>2, <1>3 DEF EntriesOf

\* Cutting the parts at a head loses nothing either.
LEMMA CutCover == \A Q, h : UNION CutAt(Q, h) = UNION Q
<1> TAKE Q, h
<1> DEFINE C == UNION {{p \cap h, p \ h} : p \in Q}
<1>1. ASSUME NEW p \in Q, NEW x \in p PROVE \E c \in C \ {{}} : x \in c
  <2>1. CASE x \in h
    <3>1. p \cap h \in C /\ x \in p \cap h
      BY <2>1
    <3> QED BY Zenon, <3>1
  <2>2. CASE x \notin h
    <3>1. p \ h \in C /\ x \in p \ h
      BY <2>2
    <3> QED BY ZenonT(30), <3>1
  <2> QED BY <2>1, <2>2
<1>2. \A c \in C : \E p \in Q : c \subseteq p
  OBVIOUS
<1>3. UNION (C \ {{}}) = UNION Q
  <2> HIDE DEF C
  <2> QED BY <1>1, <1>2
<1> QED BY Zenon, <1>3 DEF CutAt

\* A group holds tables of its level.
LEMMA GroupIn == \A l, g : Group(l, g) \subseteq files[l]
BY DEF Group, Listed

-----------------------------------------------------------------------------
(* Reference is the last write.                                            *)

LEMMA MaxIs ==
  ASSUME NEW S, NEW m \in S, S \subseteq Int, \A y \in S : y <= m
  PROVE  Max(S) = m
<1>1. \A y \in S : m >= y
  OBVIOUS
<1>2. \E x \in S : \A y \in S : x >= y
  BY <1>1
<1>3. Max(S) \in S /\ \A y \in S : Max(S) >= y
  BY Zenon, <1>2 DEF Max
<1>4. Max(S) \in Int /\ m \in Int /\ Max(S) >= m /\ m >= Max(S)
  BY Zenon, <1>1, <1>3
<1> QED BY <1>4

LEMMA ReferenceIsLast ==
  ASSUME Shape, HasLast, NEW k \in Keys, NEW s \in 0..Len(hist), Reference(k, s) # 0
  PROVE  Last(k, s, Reference(k, s)) /\ ~hist[Reference(k, s)].d
<1> DEFINE w == {i \in 1..s : hist[i].k = k}
<1>1. w # {} /\ ~hist[Max({0} \cup w)].d /\ Reference(k, s) = Max(w)
  BY DEF Reference
<1>2. PICK r \in 1..s : Last(k, s, r)
  BY <1>1 DEF HasLast
<1>3. r \in w /\ \A i \in w : i <= r
  BY <1>2 DEF Last
<1>4. w \subseteq Int /\ \A i \in w : i > 0
  OBVIOUS
<1> HIDE DEF w
<1>5. Max(w) = r
  BY Zenon, <1>3, <1>4, MaxIs
<1>6. Max({0} \cup w) = r
  <2>1. r \in {0} \cup w /\ {0} \cup w \subseteq Int /\ \A y \in {0} \cup w : y <= r
    BY <1>3, <1>4
  <2> QED BY ZenonT(30), <2>1, MaxIs
<1> QED BY <1>1, <1>2, <1>5, <1>6

LEMMA InvKept == TreeInv => NewestKept
<1> SUFFICES ASSUME TreeInv, NEW k \in Keys, NEW s \in {Len(hist), snap}, Reference(k, s) # 0
             PROVE  \E x \in All : x.k = k /\ x.s = Reference(k, s)
  BY DEF NewestKept, All, Stored, EntriesOf
<1>1. s \in 0..Len(hist)
  BY DEF TreeInv, Shape
<1>2. Last(k, s, Reference(k, s)) /\ ~hist[Reference(k, s)].d
  BY <1>1, ReferenceIsLast DEF TreeInv
<1> QED BY ZenonT(30), <1>2 DEF TreeInv, LastKept, Last

-----------------------------------------------------------------------------
(* Every step keeps the invariant.                                         *)

LEMMA TreeInit == Init => TreeInv
<1> SUFFICES ASSUME Init PROVE TreeInv
  OBVIOUS
<1>1. All = {}
  BY DEF Init, All, Stored, EntriesOf
<1>2. Len(hist) = 0 /\ hist \in Seq([k : Keys, d : BOOLEAN])
  BY DEF Init
<1>3. Shape
  BY <1>1, <1>2 DEF Init, Shape, NoJob
<1>4. JobOK
  BY DEF Init, JobOK, NoJob
<1>5. HasLast /\ LastKept
  BY <1>2 DEF Init, HasLast, LastKept
<1> QED BY <1>3, <1>4, <1>5 DEF TreeInv

\* A write: it is the last one of its key, and the last of the others stays.
Writes(c, d) ==
  /\ hist' = Append(hist, [k |-> c, d |-> d])
  /\ mem' = mem \cup {[k |-> c, s |-> Len(hist) + 1, d |-> d]}
  /\ UNCHANGED <<imm, files, job, snap>>

LEMMA WriteStep ==
  ASSUME TreeInv, NEW c \in Keys, NEW d \in BOOLEAN, Writes(c, d)
  PROVE  TreeInv'
<1>0. PICK n \in Nat : n = Len(hist)
  BY DEF TreeInv, Shape
<1>1. Len(hist) = n /\ hist \in Seq([k : Keys, d : BOOLEAN]) /\ snap \in 0..n
  BY <1>0 DEF TreeInv, Shape
<1>2. /\ hist' \in Seq([k : Keys, d : BOOLEAN]) /\ Len(hist') = n + 1
      /\ hist'[n + 1].k = c /\ hist'[n + 1].d = d
      /\ \A i \in 1..n : hist'[i] = hist[i]
  BY <1>1 DEF Writes
<1>3. All' = All \cup {[k |-> c, s |-> n + 1, d |-> d]}
  <2>1. files' = files /\ imm' = imm /\ mem' = mem \cup {[k |-> c, s |-> n + 1, d |-> d]}
    BY Zenon, <1>1 DEF Writes
  <2>2. Stored(files') = Stored(files)
    BY Zenon, <2>1
  <2>3. \A S, T, U, W : S = T \cup U => (S \cup W) = (T \cup W) \cup U
    OBVIOUS
  <2>4. mem' \cup (imm \cup Stored(files)) = (mem \cup (imm \cup Stored(files))) \cup {[k |-> c, s |-> n + 1, d |-> d]}
    BY Zenon, <2>1, <2>3
  <2>5. \A A, B, C : A \cup B \cup C = A \cup (B \cup C)
    OBVIOUS
  <2> QED BY Zenon, <2>1, <2>2, <2>4, <2>5 DEF All
<1> DEFINE new == [k |-> c, s |-> n + 1, d |-> d]
<1>4. \A x : WrittenAs(x) => WrittenAs(x)'
  BY <1>1, <1>2 DEF WrittenAs
<1>5. Shape'
  <2>1. WrittenAs(new)'
    BY <1>1, <1>2 DEF WrittenAs
  <2>2. \A x \in All' : WrittenAs(x)'
    BY Zenon, <1>3, <1>4, <2>1 DEF TreeInv, Shape
  <2>3. snap' \in 0..Len(hist')
    BY <1>1, <1>2 DEF Writes
  <2> QED BY Zenon, <1>2, <2>2, <2>3 DEF TreeInv, Shape, Writes
<1>6. JobOK'
  <2>1. Inputs' = Inputs /\ job' = job /\ snap' = snap
    BY Zenon DEF Writes, Inputs
  <2>2. job.on => job.small \in 0..Len(hist')
    BY <1>1, <1>2 DEF TreeInv, JobOK
  <2> QED BY Zenon, <1>4, <2>1, <2>2 DEF TreeInv, JobOK
<1>7. \A k \in Keys, s \in 0..n : \A r \in 1..s : Last(k, s, r) <=> Last(k, s, r)'
  BY <1>1, <1>2 DEF Last
<1>8. \A k \in Keys, r \in 1..n : k # c => (Last(k, n + 1, r)' <=> Last(k, n, r))
  BY <1>1, <1>2 DEF Last
<1>9. Last(c, n + 1, n + 1)' /\ \A r \in 1..(n + 1) : Last(c, n + 1, r)' => r = n + 1
  BY <1>1, <1>2 DEF Last
<1>10. \A k \in Keys, r \in 1..(n + 1) : k # c /\ Last(k, n + 1, r)' => r \in 1..n
  BY <1>1, <1>2 DEF Last
<1>11. HasLast'
  <2> SUFFICES ASSUME NEW k \in Keys, NEW s \in 0..(n + 1), NEW i \in 1..s, hist'[i].k = k
               PROVE  \E r \in 1..s : Last(k, s, r)'
    BY <1>2 DEF HasLast
  <2>1. CASE s \in 0..n
    <3>1. i \in 1..n /\ hist[i].k = k
      BY <1>1, <1>2, <2>1
    <3>2. \E r \in 1..s : Last(k, s, r)
      BY <1>1, <2>1, <3>1 DEF TreeInv, HasLast
    <3> QED BY Zenon, <1>7, <2>1, <3>2
  <2>2. CASE s = n + 1 /\ k = c
    BY <1>1, <1>9, <2>2
  <2>3. CASE s = n + 1 /\ k # c
    <3>1. i \in 1..n /\ hist[i].k = k
      BY <1>1, <1>2, <2>3
    <3>2. PICK r \in 1..n : Last(k, n, r)
      BY <1>1, <3>1 DEF TreeInv, HasLast
    <3>3. r \in 1..s /\ Last(k, s, r)'
      BY <1>1, <1>8, <2>3, <3>2
    <3> QED BY <3>3
  <2> QED BY <1>1, <2>1, <2>2, <2>3
<1>12. LastKept'
  <2> SUFFICES ASSUME NEW k \in Keys, NEW s \in {n + 1, snap}, NEW r \in 1..s,
                      Last(k, s, r)', ~hist'[r].d
               PROVE  \E x \in All' : x.k = k /\ x.s = r
    <3>1. Len(hist') = n + 1 /\ snap' = snap
      BY <1>2 DEF Writes
    <3> QED BY <3>1 DEF LastKept
  <2>1. CASE s = n + 1 /\ k = c
    <3>1. r = n + 1
      BY <1>9, <2>1
    <3>2. new \in All'
      BY Zenon, <1>3
    <3>3. new.k = k /\ new.s = r
      BY <2>1, <3>1
    <3> QED BY Zenon, <3>2, <3>3
  <2>2. CASE s = n + 1 /\ k # c
    <3>1. r \in 1..n /\ Last(k, n, r) /\ ~hist[r].d
      BY <1>2, <1>8, <1>10, <2>2
    <3>2. \E x \in All : x.k = k /\ x.s = r
      BY Zenon, <1>1, <3>1 DEF TreeInv, LastKept
    <3> QED BY Zenon, <1>3, <3>2
  <2>3. CASE s = snap
    <3>1. s \in 0..n /\ r \in 1..n
      BY <1>1, <2>3
    <3>2. Last(k, s, r) /\ ~hist[r].d
      BY ZenonT(30), <1>2, <1>7, <3>1
    <3>3. \E x \in All : x.k = k /\ x.s = r
      BY Zenon, <2>3, <3>2 DEF TreeInv, LastKept
    <3> QED BY Zenon, <1>3, <3>3
  <2> QED BY <2>1, <2>2, <2>3
<1> QED BY <1>5, <1>6, <1>11, <1>12 DEF TreeInv

\* A step that writes nothing and keeps, of every key, the last write.
LEMMA QuietStep ==
  ASSUME TreeInv, UNCHANGED hist, snap' = snap \/ snap' = Len(hist) \/ snap' = 0,
         DOMAIN files' = Level, job'.on \in BOOLEAN, JobOK',
         \A x \in All' : WrittenAs(x),
         \A k \in Keys : \A s \in {Len(hist), snap} : \A r \in 1..s : \A x \in All :
           Last(k, s, r) /\ ~hist[r].d /\ x.k = k /\ x.s = r =>
             \E y \in All' : y.k = k /\ y.s = r
  PROVE  TreeInv'
<1>1. \A x : WrittenAs(x)' <=> WrittenAs(x)
  BY Zenon DEF WrittenAs
<1>2. Shape'
  <2>1. snap' \in 0..Len(hist)
    BY DEF TreeInv, Shape
  <2> QED BY Zenon, <1>1, <2>1 DEF TreeInv, Shape
<1>3. \A k, s, r : Last(k, s, r)' <=> Last(k, s, r)
  BY Zenon DEF Last
<1>4. HasLast'
  BY Zenon, <1>3 DEF TreeInv, HasLast
<1>5. LastKept'
  <2> SUFFICES ASSUME NEW k \in Keys, NEW s \in {Len(hist), snap'}, NEW r \in 1..s,
                      Last(k, s, r), ~hist[r].d
               PROVE  \E x \in All' : x.k = k /\ x.s = r
    BY <1>3 DEF LastKept
  <2>1. s \in {Len(hist), snap}
    BY DEF TreeInv, Shape
  <2>2. PICK x \in All : x.k = k /\ x.s = r
    BY <2>1 DEF TreeInv, LastKept
  <2> QED BY <2>1, <2>2
<1> QED BY <1>2, <1>4, <1>5 DEF TreeInv

\* Snapshots, and steps of the memtable thread.
LEMMA MoveStep ==
  ASSUME TreeInv, UNCHANGED <<hist, job>>, DOMAIN files' = Level, All' = All,
         snap' = snap \/ snap' = Len(hist) \/ snap' = 0
  PROVE  TreeInv'
<1>1. JobOK'
  <2>1. \A x : WrittenAs(x)' <=> WrittenAs(x)
    BY Zenon DEF WrittenAs
  <2>2. Inputs' = Inputs
    BY Zenon DEF Inputs
  <2>3. job.on => job.small \in 0..Len(hist) /\ (snap' # 0 => job.small <= snap')
    BY DEF TreeInv, Shape, JobOK
  <2> QED BY Zenon, <2>1, <2>2, <2>3 DEF TreeInv, JobOK
<1>2. job'.on \in BOOLEAN /\ \A x \in All' : WrittenAs(x)
  BY Zenon DEF TreeInv, Shape
<1> QED BY Zenon, <1>1, <1>2, QuietStep

LEMMA FlushInstallStep ==
  ASSUME TreeInv, FlushInstall
  PROVE  TreeInv'
<1> DEFINE P == Parts(imm, cut)
<1> DEFINE T == Numbered(P, nextFile)
<1>1. /\ files' = [files EXCEPT ![0] = files[0] \cup T] /\ imm' = {}
      /\ UNCHANGED <<hist, mem, job, snap>>
  BY Zenon DEF FlushInstall
<1>2. EntriesOf(T) = imm
  BY Zenon, PartsCover, NumberedCover
<1> HIDE DEF T
<1>3. DOMAIN files = Level /\ 0 \in Level
  BY TreeAssumption DEF TreeInv, Shape, Level
<1>4. \A l \in Level : files'[l] = IF l = 0 THEN files[0] \cup T ELSE files[l]
  BY <1>1, <1>3
<1>5. \A x : x \in Stored(files') <=> x \in Stored(files) \/ x \in imm
  <2> SUFFICES ASSUME NEW x
               PROVE  (\E l \in Level : \E f \in files'[l] : x \in f.e) <=>
                        (\E l \in Level : \E f \in files[l] : x \in f.e) \/ x \in imm
    BY Zenon, StoredMember
  <2>1. x \in imm <=> \E f \in T : x \in f.e
    BY <1>2 DEF EntriesOf
  <2> QED BY <1>3, <1>4, <2>1
<1>6. All' = All
  <2>1. \A x : x \in All' <=> x \in All
    BY Zenon, <1>1, <1>5 DEF All
  <2> QED BY <2>1
<1>7. DOMAIN files' = Level
  BY Zenon, <1>1, <1>3
<1> QED BY Zenon, <1>1, <1>6, <1>7, MoveStep

\* The compaction that is chosen, field by field.
LEMMA VerticalJob ==
  ASSUME NEW l \in Level, PickVertical(l)
  PROVE  /\ l < LastLevel
         /\ job'.on = TRUE /\ job'.level = l /\ job'.out = l + 1 /\ job'.manual = FALSE
         /\ job'.small = SmallestSnapshot
         /\ job'.in0 \subseteq files[l] /\ job'.in1 \subseteq files[l + 1]
         /\ \E G : job'.in0 = UNION {Group(l, g) : g \in G \cup MisfitGroups(l)}
         /\ job'.in1 = UNION {Group(l + 1, g) : g \in MisfitGroups(l + 1)}
         /\ job'.split = complete[l + 1]
         /\ job'.load = [j \in Level |-> IF j \in {l, l + 1} THEN complete[j] ELSE NoGuards]
         /\ job'.deep = UNION {files[j] : j \in (l + 2)..LastLevel}
<1> DEFINE In0(G) == UNION {Group(l, g) : g \in G \cup MisfitGroups(l)}
<1> DEFINE in1 == UNION {Group(l + 1, g) : g \in MisfitGroups(l + 1)}
<1> DEFINE load == [j \in Level |-> IF j \in {l, l + 1} THEN complete[j] ELSE NoGuards]
<1> DEFINE deep == UNION {files[j] : j \in (l + 2)..LastLevel}
<1>1. PICK G : job' = [on |-> TRUE, level |-> l, out |-> l + 1, in0 |-> In0(G), in1 |-> in1,
                       split |-> complete[l + 1], manual |-> FALSE, small |-> SmallestSnapshot,
                       load |-> load, deep |-> deep]
  BY Zenon DEF PickVertical
<1>2. l < LastLevel
  BY Zenon DEF PickVertical
<1>i. in1 \subseteq files[l + 1] /\ In0(G) \subseteq files[l]
  BY Zenon, GroupIn
<1> HIDE DEF In0, in1, load, deep
<1>3. /\ job'.on = TRUE /\ job'.level = l /\ job'.out = l + 1 /\ job'.manual = FALSE
      /\ job'.in0 = In0(G) /\ job'.in1 = in1 /\ job'.split = complete[l + 1]
      /\ job'.small = SmallestSnapshot /\ job'.load = load /\ job'.deep = deep
  BY <1>1
<1> QED BY Zenon, <1>2, <1>3, <1>i DEF In0, in1, load, deep

LEMMA HorizontalJob ==
  ASSUME NEW l \in Level, PickHorizontal(l)
  PROVE  /\ job'.on = TRUE /\ job'.level = l /\ job'.out = l /\ job'.manual = FALSE
         /\ job'.small = SmallestSnapshot
         /\ job'.in0 \subseteq files[l] /\ job'.in1 = {} /\ job'.split = complete[l]
         /\ job'.load = [j \in Level |-> IF j = l THEN complete[j] ELSE NoGuards]
         /\ job'.deep = UNION {files[j] : j \in (l + 2)..LastLevel}
<1> DEFINE load == [j \in Level |-> IF j = l THEN complete[j] ELSE NoGuards]
<1> DEFINE deep == UNION {files[j] : j \in (l + 2)..LastLevel}
<1>1. PICK G : \E in0 \in SomeOf(l, G) :
        job' = [on |-> TRUE, level |-> l, out |-> l, in0 |-> in0, in1 |-> {},
                split |-> complete[l], manual |-> FALSE, small |-> SmallestSnapshot,
                load |-> load, deep |-> deep]
  BY Zenon DEF PickHorizontal
<1>2. PICK in0 \in SomeOf(l, G) :
        job' = [on |-> TRUE, level |-> l, out |-> l, in0 |-> in0, in1 |-> {},
                split |-> complete[l], manual |-> FALSE, small |-> SmallestSnapshot,
                load |-> load, deep |-> deep]
  BY Zenon, <1>1
<1>3. in0 \subseteq files[l]
  BY Zenon DEF SomeOf
<1> HIDE DEF load, deep
<1>4. /\ job'.on = TRUE /\ job'.level = l /\ job'.out = l /\ job'.manual = FALSE
      /\ job'.in0 = in0 /\ job'.in1 = {} /\ job'.split = complete[l]
      /\ job'.small = SmallestSnapshot /\ job'.load = load /\ job'.deep = deep
  BY <1>2
<1> QED BY Zenon, <1>3, <1>4 DEF load, deep

LEMMA ManualJob ==
  ASSUME NEW l \in Level, PickManual(l)
  PROVE  /\ l < LastLevel
         /\ job'.on = TRUE /\ job'.level = l /\ job'.out = l + 1 /\ job'.manual = TRUE
         /\ job'.small = SmallestSnapshot
         /\ job'.in0 \subseteq files[l] /\ job'.in1 \subseteq files[l + 1]
         /\ \E G : job'.in0 = UNION {Group(l, g) : g \in G}
         /\ \E G : job'.in1 = UNION {Group(l + 1, g) : g \in G}
         /\ job'.split = NoGuards /\ job'.load = [j \in Level |-> NoGuards]
         /\ job'.deep = UNION {files[j] : j \in (l + 2)..LastLevel}
<1> DEFINE In(j, G) == UNION {Group(j, g) : g \in G}
<1> DEFINE load == [j \in Level |-> NoGuards]
<1> DEFINE deep == UNION {files[j] : j \in (l + 2)..LastLevel}
<1>1. PICK G, H :
        job' = [on |-> TRUE, level |-> l, out |-> l + 1, in0 |-> In(l, G), in1 |-> In(l + 1, H),
                split |-> NoGuards, manual |-> TRUE, small |-> SmallestSnapshot,
                load |-> load, deep |-> deep]
  BY Zenon DEF PickManual
<1>2. l < LastLevel
  BY Zenon DEF PickManual
<1>i. In(l, G) \subseteq files[l] /\ In(l + 1, H) \subseteq files[l + 1]
  BY Zenon, GroupIn
<1> HIDE DEF In, load, deep
<1>3. /\ job'.on = TRUE /\ job'.level = l /\ job'.out = l + 1 /\ job'.manual = TRUE
      /\ job'.in0 = In(l, G) /\ job'.in1 = In(l + 1, H) /\ job'.split = NoGuards
      /\ job'.small = SmallestSnapshot /\ job'.load = load /\ job'.deep = deep
  BY <1>1
<1> QED BY Zenon, <1>2, <1>3, <1>i DEF In, load, deep

\* A compaction is chosen: its inputs are tables of the version, and the
\* snapshot it looks at is no newer than the oldest one.
LEMMA PickStep ==
  ASSUME TreeInv, NEW l \in Level, PickVertical(l) \/ PickHorizontal(l) \/ PickManual(l)
  PROVE  TreeInv'
<1>1. UNCHANGED <<hist, mem, imm, files, snap>>
  BY Zenon DEF PickVertical, PickHorizontal, PickManual
<1>3. /\ job'.on = TRUE /\ job'.out \in {l, l + 1} /\ job'.out \in Level
      /\ job'.small = SmallestSnapshot
      /\ job'.in0 \subseteq files[l]
      /\ job'.in1 = {} \/ (l + 1 \in Level /\ job'.in1 \subseteq files[l + 1])
  <2>l. l < LastLevel => l + 1 \in Level
    BY TreeAssumption DEF Level
  <2>1. CASE PickVertical(l)
    <3>1. job'.out = l + 1 /\ l + 1 \in Level
      BY Zenon, <2>l, <2>1, VerticalJob
    <3> QED BY Zenon, <2>1, <3>1, VerticalJob
  <2>2. CASE PickHorizontal(l)
    BY Zenon, <2>2, HorizontalJob
  <2>3. CASE PickManual(l)
    <3>1. job'.out = l + 1 /\ l + 1 \in Level
      BY Zenon, <2>l, <2>3, ManualJob
    <3> QED BY Zenon, <2>3, <3>1, ManualJob
  <2> QED BY Zenon, <2>1, <2>2, <2>3
<1>4. All' = All
  BY Zenon, <1>1 DEF All
<1>5. \A x \in Inputs' : x \in Stored(files)
  <2>1. \A f \in job'.in0 \cup job'.in1 : \E j \in Level : f \in files[j]
    BY Zenon, <1>3
  <2> QED BY <2>1, StoredMember DEF Inputs, EntriesOf
<1>6. \A x : WrittenAs(x)' <=> WrittenAs(x)
  BY Zenon, <1>1 DEF WrittenAs
<1>7. SmallestSnapshot \in 0..Len(hist) /\ (snap # 0 => SmallestSnapshot <= snap)
  BY DEF TreeInv, Shape, SmallestSnapshot
<1>8. JobOK'
  <2>1. \A x \in Inputs' : WrittenAs(x)
    BY Zenon, <1>5 DEF TreeInv, Shape, All
  <2> QED BY Zenon, <1>1, <1>3, <1>6, <1>7, <2>1 DEF JobOK
<1>9. DOMAIN files' = Level /\ job'.on \in BOOLEAN /\ \A x \in All' : WrittenAs(x)
  BY Zenon, <1>1, <1>3, <1>4 DEF TreeInv, Shape
<1> QED BY Zenon, <1>1, <1>4, <1>8, <1>9, QuietStep

\* The drop rules spare the last write of a key, unless it is a deletion.
LEMMA LastIsKept ==
  ASSUME TreeInv, job.on, NEW k \in Keys, NEW s \in {Len(hist), snap}, NEW r \in 1..s,
         Last(k, s, r), ~hist[r].d, NEW x \in Inputs, x.k = k, x.s = r
  PROVE  x \in Kept(Inputs)
<1>1. \A y \in Inputs : WrittenAs(y)
  BY DEF TreeInv, JobOK
<1>2. ~x.d
  BY Zenon, <1>1 DEF WrittenAs
<1>3. job.small <= s /\ job.small \in Nat /\ s \in Nat
  BY DEF TreeInv, Shape, JobOK
<1>4. ASSUME NEW y \in Inputs, y.k = k, y.s <= job.small PROVE ~(y.s > r)
  <2>1. y.s \in 1..Len(hist) /\ hist[y.s].k = k
    BY Zenon, <1>1, <1>4 DEF WrittenAs
  <2>2. Len(hist) \in Nat
    BY DEF TreeInv, Shape
  <2>3. y.s \in 1..s
    BY <1>3, <1>4, <2>1, <2>2
  <2> QED BY <1>3, <2>1, <2>3 DEF Last
<1> QED BY Zenon, <1>2, <1>4 DEF Kept, Hidden, Obsolete

LEMMA InstallStep ==
  ASSUME TreeInv, Install
  PROVE  TreeInv'
<1> DEFINE ins  == job.in0 \cup job.in1
<1> DEFINE kept == Kept(Inputs)
<1> DEFINE rest == [l \in Level |-> files[l] \ ins]
<1> DEFINE Q(h) == CutAt(Parts(kept, job.split), h)
<1>1. job.on /\ job' = NoJob /\ UNCHANGED <<hist, mem, imm, snap>>
  BY Zenon DEF Install
<1>2. PICK h : files' = [rest EXCEPT ![job.out] = @ \cup Numbered(Q(h), nextFile)]
  BY Zenon DEF Install
<1> DEFINE T == Numbered(Q(h), nextFile)
<1>3. EntriesOf(T) = kept
  <2>1. EntriesOf(T) = UNION Q(h)
    BY Zenon, NumberedCover
  <2>2. UNION Q(h) = UNION Parts(kept, job.split)
    BY Zenon, CutCover
  <2> QED BY Zenon, <2>1, <2>2, PartsCover
<1>4. files' = [rest EXCEPT ![job.out] = @ \cup T]
  BY Zenon, <1>2
<1> HIDE DEF T
<1>5. DOMAIN files' = Level
  BY Zenon, <1>4
<1>6. /\ \A l \in Level : files[l] \ ins \subseteq files'[l] /\ files'[l] \subseteq files[l] \cup T
      /\ T \subseteq files'[job.out] /\ job.out \in Level
  BY <1>1, <1>4 DEF TreeInv, JobOK
<1>7. \A x \in Stored(files') : x \in Stored(files) \/ x \in Inputs
  <2>1. \A f \in T : \A x \in f.e : x \in Inputs
    BY <1>3 DEF EntriesOf, Kept
  <2> QED BY Zenon, <1>6, <2>1, StoredMember
<1>8. \A x \in Stored(files) : x \in Stored(files') \/ x \in Inputs
  <2>1. \A f \in ins : \A x \in f.e : x \in Inputs
    BY DEF Inputs, EntriesOf
  <2> QED BY Zenon, <1>6, <2>1, StoredMember
<1>9. \A x \in kept : x \in Stored(files')
  <2>1. \A x \in kept : \E f \in T : x \in f.e
    BY <1>3 DEF EntriesOf
  <2> QED BY Zenon, <1>6, <2>1, StoredMember
<1>10. \A x \in All' : WrittenAs(x)
  <2>1. \A x \in All' : x \in All \/ x \in Inputs
    BY Zenon, <1>1, <1>7 DEF All
  <2> QED BY Zenon, <1>1, <2>1 DEF TreeInv, Shape, JobOK
<1>11. ASSUME NEW k \in Keys, NEW s \in {Len(hist), snap}, NEW r \in 1..s, NEW x \in All,
              Last(k, s, r), ~hist[r].d, x.k = k, x.s = r
       PROVE  x \in All'
  <2>1. CASE x \in Inputs
    <3>1. x \in kept
      BY Zenon, <1>1, <1>11, <2>1, LastIsKept
    <3> QED BY Zenon, <1>9, <3>1 DEF All
  <2>2. CASE x \notin Inputs
    BY Zenon, <1>1, <1>8, <1>11, <2>2 DEF All
  <2> QED BY <2>1, <2>2
<1>12. JobOK' /\ job'.on \in BOOLEAN
  BY <1>1 DEF JobOK, NoJob
<1> QED BY <1>1, <1>5, <1>10, <1>11, <1>12, QuietStep

-----------------------------------------------------------------------------
LEMMA TreeStep == TreeInv /\ [Next]_vars => TreeInv'
<1> SUFFICES ASSUME TreeInv, [Next]_vars PROVE TreeInv'
  OBVIOUS
<1>1. ASSUME NEW k \in Keys, Put(k) \/ Delete(k) PROVE TreeInv'
  <2>1. \E d \in BOOLEAN : Writes(k, d)
    BY Zenon, <1>1 DEF Put, Delete, Writes
  <2> QED BY Zenon, <2>1, WriteStep
<1>2. CASE TakeSnapshot \/ ReleaseSnapshot
  <2>1. UNCHANGED <<hist, mem, imm, files, job>> /\ (snap' = Len(hist) \/ snap' = 0)
    BY Zenon, <1>2 DEF TakeSnapshot, ReleaseSnapshot
  <2>2. All' = All /\ DOMAIN files' = Level
    BY Zenon, <2>1 DEF All, TreeInv, Shape
  <2> QED BY Zenon, <2>1, <2>2, MoveStep
<1>3. CASE FlushStart
  <2>1. UNCHANGED <<hist, files, job, snap>> /\ imm = {} /\ imm' = mem /\ mem' = {}
    BY Zenon, <1>3 DEF FlushStart
  <2>2. All' = All /\ DOMAIN files' = Level
    BY <2>1 DEF All, TreeInv, Shape
  <2> QED BY Zenon, <2>1, <2>2, MoveStep
<1>4. CASE UNCHANGED vars
  <2>1. UNCHANGED <<hist, mem, imm, files, job, snap>>
    BY Zenon, <1>4 DEF vars
  <2>2. All' = All /\ DOMAIN files' = Level
    BY Zenon, <2>1 DEF All, TreeInv, Shape
  <2> QED BY Zenon, <2>1, <2>2, MoveStep
<1> QED BY Zenon, <1>1, <1>2, <1>3, <1>4, FlushInstallStep, PickStep, InstallStep DEF Next

\* The newest value of every key, and the one the snapshot sees, stay in a
\* memtable or in a table of the version, whatever the memtable thread and
\* the compaction thread do (DoCompactionWorkGuards, BuildLevel0Tables).
THEOREM NewestStays == Spec => []NewestKept
BY TreeInit, TreeStep, InvKept, PTL DEF Spec

-----------------------------------------------------------------------------
(* Smallest and largest: what the CHOOSEs of the model choose.             *)

LEMMA LeastIn ==
  ASSUME NEW S, S # {}, S \subseteq Nat
  PROVE  \E m \in S : \A y \in S : m <= y
<1>1. PICK m \in S : \A y \in S : ~(<<y, m>> \in OpToRel(<, Nat))
  BY Zenon, NatLessThanWellFounded, WFMin
<1>2. \A a, b \in Nat : a < b => <<a, b>> \in OpToRel(<, Nat)
  BY Zenon DEF OpToRel
<1>3. ASSUME NEW y \in S PROVE m <= y
  <2>1. y \in Nat /\ m \in Nat /\ ~(y < m)
    BY Zenon, <1>1, <1>2
  <2> QED BY <2>1
<1> QED BY <1>3

LEMMA GreatestIn ==
  ASSUME NEW S, S # {}, S \subseteq Int, NEW B \in Int, \A y \in S : y <= B
  PROVE  \E m \in S : \A y \in S : y <= m
<1> DEFINE T == {B - y : y \in S}
<1>a. \A y \in S : B - y \in Nat
  OBVIOUS
<1>1. T # {} /\ T \subseteq Nat
  BY Zenon, <1>a
<1>2. PICK t \in T : \A u \in T : t <= u
  <2> HIDE DEF T
  <2> QED BY ZenonT(30), <1>1, LeastIn
<1>3. PICK m \in S : t = B - m
  OBVIOUS
<1>4. ASSUME NEW y \in S PROVE y <= m
  <2>1. B - y \in T
    OBVIOUS
  <2>2. t <= B - y
    BY <1>2, <2>1
  <2> QED BY <1>3, <2>2
<1> QED BY ZenonT(30), <1>4

LEMMA MaxOf ==
  ASSUME NEW S, S # {}, S \subseteq Int, NEW B \in Int, \A y \in S : y <= B
  PROVE  Max(S) \in S /\ \A y \in S : y <= Max(S)
<1>1. PICK m \in S : \A y \in S : y <= m
  BY ZenonT(30), GreatestIn
<1>2. Max(S) = m
  BY ZenonT(30), <1>1, MaxIs
<1> QED BY <1>1, <1>2

\* The guard of a key is a guard at or before it; it grows with the key.
LEMMA GuardOfIs ==
  ASSUME NEW gs, NEW k \in Nat
  PROVE  /\ GuardOf(gs, k) \in Int /\ GuardOf(gs, k) <= k
         /\ GuardOf(gs, k) = Sentinel \/ GuardOf(gs, k) \in GuardsIn(gs)
         /\ \A g \in GuardsIn(gs) : g <= k => g <= GuardOf(gs, k)
         /\ GuardOf(gs, k) >= Sentinel
<1> DEFINE S == {Sentinel} \cup {g \in GuardsIn(gs) : g <= k}
<1>a. Sentinel \in Int /\ Sentinel <= k /\ k \in Int
  BY DEF Sentinel
<1>b. \A g \in GuardsIn(gs) : g \in Int
  BY TreeAssumption DEF GuardsIn
<1>1. S # {} /\ S \subseteq Int /\ \A y \in S : y <= k
  BY Zenon, <1>a, <1>b
<1>2. GuardOf(gs, k) = Max(S)
  BY Zenon DEF GuardOf
<1>3. Max(S) \in S /\ \A y \in S : y <= Max(S)
  <2> HIDE DEF S
  <2> QED BY Zenon, <1>a, <1>1, MaxOf
<1>4. Sentinel \in S /\ \A g \in GuardsIn(gs) : g <= k => g \in S
  BY Zenon
<1>5. GuardOf(gs, k) \in S /\ \A y \in S : y <= GuardOf(gs, k)
  BY Zenon, <1>2, <1>3
<1>6. GuardOf(gs, k) = Sentinel \/ GuardOf(gs, k) \in GuardsIn(gs)
  BY Zenon, <1>5
<1>7. Sentinel <= GuardOf(gs, k) /\ GuardOf(gs, k) \in Int /\ GuardOf(gs, k) <= k
  BY Zenon, <1>1, <1>4, <1>5
<1> QED BY ZenonT(30), <1>4, <1>5, <1>6, <1>7 DEF Sentinel

LEMMA GuardOfGrows ==
  ASSUME NEW gs, NEW j \in Nat, NEW k \in Nat, j <= k
  PROVE  GuardOf(gs, j) <= GuardOf(gs, k)
<1>1. GuardOf(gs, j) \in Int /\ GuardOf(gs, k) \in Int /\ GuardOf(gs, j) <= j
  BY GuardOfIs
<1>2. CASE GuardOf(gs, j) = Sentinel
  BY <1>1, <1>2, GuardOfIs DEF Sentinel
<1>3. CASE GuardOf(gs, j) \in GuardsIn(gs)
  BY <1>1, <1>3, GuardOfIs
<1> QED BY <1>2, <1>3, GuardOfIs

-----------------------------------------------------------------------------
(* The order of entries.                                                   *)

\* The keys written so far are bounded.
Bounded == \E B \in Nat : \A i \in 1..Len(hist) : hist[i].k <= B

LEMMA EntryFacts ==
  ASSUME Shape, NEW x, WrittenAs(x)
  PROVE  /\ x.k \in Keys /\ x.k \in Nat /\ x.d \in BOOLEAN
         /\ x.s \in Nat /\ x.s <= Len(hist) /\ Len(hist) \in Nat /\ x.s # 0
<1>1. Len(hist) \in Nat /\ x.s \in 1..Len(hist) /\ hist[x.s] \in [k : Keys, d : BOOLEAN]
  <2>1. hist \in Seq([k : Keys, d : BOOLEAN]) /\ x.s \in 1..Len(hist)
    BY Zenon DEF Shape, WrittenAs
  <2>2. Len(hist) \in Nat
    BY <2>1
  <2>3. \A W : hist \in Seq(W) => \A i \in 1..Len(hist) : hist[i] \in W
    OBVIOUS
  <2> QED BY Zenon, <2>1, <2>2, <2>3
<1> QED BY <1>1, TreeAssumption DEF WrittenAs

LEMMA SameEntry ==
  ASSUME NEW x, NEW y, WrittenAs(x), WrittenAs(y), x.s = y.s
  PROVE  x = y
BY DEF WrittenAs

LEMMA BeforeTotal ==
  ASSUME Shape, NEW x, NEW y, WrittenAs(x), WrittenAs(y)
  PROVE  /\ x = y \/ Before(x, y) \/ Before(y, x)
         /\ ~(Before(x, y) /\ Before(y, x)) /\ ~Before(x, x)
<1>1. x.k \in Nat /\ x.s \in Nat /\ y.k \in Nat /\ y.s \in Nat
  BY EntryFacts
<1>2. x.s = y.s => x = y
  BY SameEntry
<1> QED BY <1>1, <1>2 DEF Before

LEMMA BeforeTransitive ==
  ASSUME Shape, NEW x, NEW y, NEW z, WrittenAs(x), WrittenAs(y), WrittenAs(z),
         Before(x, y), Before(y, z)
  PROVE  Before(x, z)
<1>1. x.k \in Nat /\ x.s \in Nat /\ y.k \in Nat /\ y.s \in Nat /\ z.k \in Nat /\ z.s \in Nat
  BY EntryFacts
<1> QED BY <1>1 DEF Before

\* The bounds of a table are bounds.
LEMMA TableEnds ==
  ASSUME Shape, Bounded, NEW n, NEW E, E # {}, \A x \in E : WrittenAs(x)
  PROVE  /\ Table(n, E).n = n /\ Table(n, E).e = E
         /\ Table(n, E).smallest \in E /\ Table(n, E).largest \in E
         /\ \A x \in E : Table(n, E).smallest.k <= x.k /\ x.k <= Table(n, E).largest.k
<1>e. \A x \in E : x.k \in Nat /\ x.s \in Nat
  BY EntryFacts
<1> DEFINE K == {x.k : x \in E}
<1> DEFINE A(c) == {x.s : x \in {y \in E : y.k = c}}
<1>1. \E x \in E : \A y \in E : y = x \/ Before(x, y)
  <2>1. K # {} /\ K \subseteq Nat
    BY Zenon, <1>e
  <2>2. PICK c \in K : \A j \in K : c <= j
    <3> HIDE DEF K
    <3> QED BY Zenon, <2>1, LeastIn
  <2>3. A(c) # {} /\ A(c) \subseteq Int
    BY <1>e
  <2>4. Len(hist) \in Int /\ \A s \in A(c) : s <= Len(hist)
    BY EntryFacts
  <2>5. PICK s \in A(c) : \A t \in A(c) : t <= s
    <3> HIDE DEF A
    <3> QED BY Zenon, <2>3, <2>4, GreatestIn
  <2>6. PICK x \in E : x.k = c /\ x.s = s
    OBVIOUS
  <2>7. ASSUME NEW y \in E PROVE y = x \/ Before(x, y)
    <3>1. x.k <= y.k
      BY Zenon, <2>2, <2>6
    <3>2. y.k = c => y.s <= x.s
      BY Zenon, <2>5, <2>6
    <3>3. y.s = x.s => y = x
      BY SameEntry
    <3> QED BY <1>e, <2>6, <3>1, <3>2, <3>3 DEF Before
  <2> QED BY <2>7
<1>2. \E x \in E : \A y \in E : y = x \/ Before(y, x)
  <2>1. K # {} /\ K \subseteq Int
    BY <1>e
  <2>2. PICK B \in Nat : \A i \in 1..Len(hist) : hist[i].k <= B
    BY Zenon DEF Bounded
  <2>a. B \in Int
    OBVIOUS
  <2>3. B \in Int /\ \A j \in K : j <= B
    <3>1. \A x \in E : x.s \in 1..Len(hist) /\ x.k = hist[x.s].k
      BY Zenon DEF WrittenAs
    <3> QED BY Zenon, <2>2, <2>a, <3>1
  <2>4. PICK c \in K : \A j \in K : j <= c
    <3> HIDE DEF K
    <3> QED BY Zenon, <2>1, <2>3, GreatestIn
  <2>5. A(c) # {} /\ A(c) \subseteq Nat
    BY Zenon, <1>e
  <2>6. PICK s \in A(c) : \A t \in A(c) : s <= t
    <3> HIDE DEF A
    <3> QED BY Zenon, <2>5, LeastIn
  <2>7. PICK x \in E : x.k = c /\ x.s = s
    OBVIOUS
  <2>8. ASSUME NEW y \in E PROVE y = x \/ Before(y, x)
    <3>1. y.k <= x.k
      BY Zenon, <2>4, <2>7
    <3>2. y.k = c => x.s <= y.s
      BY Zenon, <2>6, <2>7
    <3>3. y.s = x.s => y = x
      BY SameEntry
    <3> QED BY <1>e, <2>7, <3>1, <3>2, <3>3 DEF Before
  <2> QED BY <2>8
<1> DEFINE lo == CHOOSE x \in E : \A y \in E : y = x \/ Before(x, y)
<1> DEFINE hi == CHOOSE x \in E : \A y \in E : y = x \/ Before(y, x)
<1>3. lo \in E /\ \A y \in E : y = lo \/ Before(lo, y)
  BY Zenon, <1>1
<1>4. hi \in E /\ \A y \in E : y = hi \/ Before(y, hi)
  BY Zenon, <1>2
<1>5. Table(n, E) = [n |-> n, e |-> E, smallest |-> lo, largest |-> hi]
  BY Zenon DEF Table
<1> HIDE DEF lo, hi
<1>6. \A y \in E : lo.k <= y.k /\ y.k <= hi.k
  BY <1>e, <1>3, <1>4 DEF Before
<1> QED BY <1>3, <1>4, <1>5, <1>6

-----------------------------------------------------------------------------
(* Parts: finitely many, in order, and numbered one by one.                *)

LEMMA FiniteImage ==
  ASSUME NEW S, IsFiniteSet(S), NEW f, f = [x \in S |-> f[x]]
  PROVE  IsFiniteSet({f[x] : x \in S})
<1> DEFINE T == {f[x] : x \in S}
<1>1. f \in [S -> T]
  BY Zenon
<1>2. \A t \in T : \E x \in S : f[x] = t
  BY Zenon
<1> HIDE DEF T
<1>3. f \in Surjection(S, T)
  BY Zenon, <1>1, <1>2 DEF Surjection
<1>4. IsFiniteSet(T)
  BY Zenon, <1>3, FS_Surjection
<1> QED BY <1>4 DEF T

\* Of two parts one lies before the other.
Ordered(P) ==
  \A p, q \in P : p # q =>
    \/ \A x \in p, y \in q : Before(x, y)
    \/ \A x \in p, y \in q : Before(y, x)

LEMMA PartsInOrder ==
  ASSUME Shape, NEW gs, NEW E, \A x \in E : WrittenAs(x)
  PROVE  /\ IsFiniteSet(Parts(E, gs)) /\ Ordered(Parts(E, gs))
         /\ \A p \in Parts(E, gs) : p # {} /\ p \subseteq E
<1> DEFINE K == {x.k : x \in E}
<1> DEFINE g == [c \in K |-> GuardOf(gs, c)]
<1> DEFINE G == {g[c] : c \in K}
<1> DEFINE part == [h \in G |-> {x \in E : GuardOf(gs, x.k) = h}]
<1>e. \A x \in E : x.k \in Keys /\ x.k \in Nat
  BY EntryFacts
<1>1. IsFiniteSet(K)
  <2>1. K \in SUBSET Keys
    BY Zenon, <1>e
  <2> HIDE DEF K
  <2> QED BY Zenon, <2>1, TreeAssumption, FS_Subset
<1>2. IsFiniteSet(G)
  <2>1. g = [c \in K |-> g[c]]
    BY Zenon
  <2> HIDE DEF K, g
  <2> QED BY Zenon, <1>1, <2>1, FiniteImage
<1>3. {part[h] : h \in G} = Parts(E, gs)
  <2>1. G = {GuardOf(gs, x.k) : x \in E}
    <3>1. \A x \in E : x.k \in K /\ g[x.k] = GuardOf(gs, x.k)
      BY Zenon
    <3>2. \A c \in K : \E x \in E : c = x.k
      BY Zenon
    <3>3. \A h : h \in G <=> \E c \in K : h = g[c]
      BY Zenon
    <3> HIDE DEF g, K, G
    <3>4. \A x \in E : GuardOf(gs, x.k) \in G
      BY Zenon, <3>1, <3>3
    <3>5. ASSUME NEW h \in G PROVE \E x \in E : h = GuardOf(gs, x.k)
      <4>1. PICK c \in K : h = g[c]
        BY Zenon, <3>3
      <4>2. PICK x \in E : c = x.k
        BY Zenon, <3>2
      <4> QED BY Zenon, <3>1, <4>1, <4>2
    <3> QED BY Zenon, <3>4, <3>5
  <2>2. {part[h] : h \in G} = {{x \in E : GuardOf(gs, x.k) = h} : h \in G}
    <3> HIDE DEF G
    <3> QED BY Zenon
  <2> QED BY Zenon, <2>1, <2>2 DEF Parts
<1>4. IsFiniteSet(Parts(E, gs))
  <2>1. part = [h \in G |-> part[h]]
    BY Zenon
  <2>2. IsFiniteSet({part[h] : h \in G})
    <3> HIDE DEF G, part
    <3> QED BY Zenon, <1>2, <2>1, FiniteImage
  <2> QED BY Zenon, <1>3, <2>2
<1>5. \A p \in Parts(E, gs) : \E x \in E : p = {y \in E : GuardOf(gs, y.k) = GuardOf(gs, x.k)}
  BY Zenon DEF Parts
<1>6. \A p \in Parts(E, gs) : p # {} /\ p \subseteq E
  BY Zenon, <1>5
<1>7. ASSUME NEW p \in Parts(E, gs), NEW q \in Parts(E, gs), p # q
      PROVE  \/ \A x \in p, y \in q : Before(x, y)
             \/ \A x \in p, y \in q : Before(y, x)
  <2>1. PICK a \in E : p = {y \in E : GuardOf(gs, y.k) = GuardOf(gs, a.k)}
    BY Zenon, <1>5
  <2>2. PICK b \in E : q = {y \in E : GuardOf(gs, y.k) = GuardOf(gs, b.k)}
    BY Zenon, <1>5
  <2>3. GuardOf(gs, a.k) # GuardOf(gs, b.k)
    BY Zenon, <1>7, <2>1, <2>2
  <2>4. GuardOf(gs, a.k) \in Int /\ GuardOf(gs, b.k) \in Int
    BY <1>e, GuardOfIs
  <2>5. ASSUME NEW x \in E, NEW y \in E, GuardOf(gs, x.k) < GuardOf(gs, y.k)
        PROVE  Before(x, y)
    <3>1. GuardOf(gs, x.k) \in Int /\ GuardOf(gs, y.k) \in Int /\ x.k \in Nat /\ y.k \in Nat
      BY <1>e, GuardOfIs
    <3>2. y.k <= x.k => GuardOf(gs, y.k) <= GuardOf(gs, x.k)
      BY Zenon, <3>1, GuardOfGrows
    <3>3. x.k < y.k
      BY <2>5, <3>1, <3>2
    <3> QED BY Zenon, <3>3 DEF Before
  <2>6. CASE GuardOf(gs, a.k) < GuardOf(gs, b.k)
    BY Zenon, <2>1, <2>2, <2>5, <2>6
  <2>7. CASE GuardOf(gs, b.k) < GuardOf(gs, a.k)
    BY Zenon, <2>1, <2>2, <2>5, <2>7
  <2> QED BY <2>3, <2>4, <2>6, <2>7
<1>8. Ordered(Parts(E, gs))
  BY Zenon, <1>7 DEF Ordered
<1> QED BY Zenon, <1>4, <1>6, <1>8

\* A part cut at a head: what is in the head comes first.
LEMMA CutInOrder ==
  ASSUME Shape, NEW E, \A x \in E : WrittenAs(x), NEW P, IsFiniteSet(P), Ordered(P),
         \A p \in P : p \subseteq E,
         NEW head, \A x \in E \cap head, y \in E \ head : Before(x, y)
  PROVE  /\ IsFiniteSet(CutAt(P, head)) /\ Ordered(CutAt(P, head))
         /\ \A c \in CutAt(P, head) : c # {} /\ c \subseteq E
<1> DEFINE pair == [p \in P |-> {p \cap head, p \ head}]
<1> DEFINE C == UNION {pair[p] : p \in P}
<1>1. CutAt(P, head) = C \ {{}}
  <2>1. {pair[p] : p \in P} = {{p \cap head, p \ head} : p \in P}
    BY Zenon
  <2> HIDE DEF pair
  <2> QED BY Zenon, <2>1 DEF CutAt
<1>2. IsFiniteSet(CutAt(P, head))
  <2>1. pair = [p \in P |-> pair[p]]
    BY Zenon
  <2>2. \A p \in P : IsFiniteSet(pair[p])
    <3>1. \A a, b : IsFiniteSet({a, b})
      <4> TAKE a, b
      <4>1. IsFiniteSet({a})
        BY Zenon, FS_Singleton
      <4>2. IsFiniteSet({a} \cup {b})
        BY Zenon, <4>1, FS_AddElement
      <4>3. {a, b} = {a} \cup {b}
        BY Zenon
      <4> QED BY Zenon, <4>2, <4>3
    <3> QED BY Zenon, <3>1
  <2> DEFINE R == {pair[p] : p \in P}
  <2>3. IsFiniteSet(R)
    <3> HIDE DEF pair
    <3> QED BY Zenon, <2>1, FiniteImage
  <2>4. \A r \in R : IsFiniteSet(r)
    BY Zenon, <2>2
  <2>5. IsFiniteSet(C)
    <3> HIDE DEF R
    <3>1. IsFiniteSet(UNION R)
      BY Zenon, <2>3, <2>4, FS_UNION
    <3> QED BY Zenon, <3>1 DEF R
  <2>6. CutAt(P, head) \in SUBSET C
    BY Zenon, <1>1
  <2> HIDE DEF C
  <2> QED BY Zenon, <2>5, <2>6, FS_Subset
<1>3. \A c \in CutAt(P, head) : \E p \in P : c = p \cap head \/ c = p \ head
  BY Zenon DEF CutAt
<1>4. \A c \in CutAt(P, head) : c # {} /\ c \subseteq E
  <2>1. \A c \in CutAt(P, head) : c # {}
    BY Zenon DEF CutAt
  <2>2. ASSUME NEW c \in CutAt(P, head) PROVE c \subseteq E
    <3>1. PICK p \in P : c = p \cap head \/ c = p \ head
      BY Zenon, <1>3
    <3>2. c \subseteq p
      BY <3>1
    <3> QED BY Zenon, <3>2
  <2> QED BY Zenon, <2>1, <2>2
<1>5. ASSUME NEW a \in CutAt(P, head), NEW b \in CutAt(P, head), a # b
      PROVE  \/ \A x \in a, y \in b : Before(x, y)
             \/ \A x \in a, y \in b : Before(y, x)
  <2>1. PICK p \in P : a = p \cap head \/ a = p \ head
    BY Zenon, <1>3
  <2>2. PICK q \in P : b = q \cap head \/ b = q \ head
    BY Zenon, <1>3
  <2>3. CASE p # q
    <3>1. a \subseteq p /\ b \subseteq q
      BY Zenon, <2>1, <2>2
    <3>2. \/ \A x \in p, y \in q : Before(x, y)
          \/ \A x \in p, y \in q : Before(y, x)
      BY Zenon, <2>3 DEF Ordered
    <3> QED BY Zenon, <3>1, <3>2
  <2>4. CASE p = q
    <3>1. CASE a = p \cap head /\ b = p \ head
      BY Zenon, <3>1
    <3>2. CASE a = p \ head /\ b = p \cap head
      BY Zenon, <3>2
    <3> QED BY Zenon, <1>5, <2>1, <2>2, <2>4, <3>1, <3>2
  <2> QED BY <2>3, <2>4
<1>6. Ordered(CutAt(P, head))
  BY Zenon, <1>5 DEF Ordered
<1> QED BY Zenon, <1>2, <1>4, <1>6

\* The tables of new parts get the numbers from first on, each its own.
Fresh(T, first, n) ==
  /\ \A t \in T : /\ t.n \in Nat /\ first <= t.n /\ t.n < first + n
                  /\ t.smallest \in t.e /\ t.largest \in t.e
                  /\ \A x \in t.e : t.smallest.k <= x.k /\ x.k <= t.largest.k
  /\ \A t, u \in T : t.n = u.n \/ t.e = u.e => t = u

LEMMA NumberedFresh ==
  ASSUME Shape, Bounded, NEW P, IsFiniteSet(P), Ordered(P),
         \A p \in P : p # {} /\ \A x \in p : WrittenAs(x), NEW first \in Nat
  PROVE  /\ Cardinality(P) \in Nat /\ Fresh(Numbered(P, first), first, Cardinality(P))
         /\ \A t \in Numbered(P, first) : t.e \in P
<1> DEFINE Prev(p) == {q \in P \ {p} : \E x \in p, y \in q : Before(y, x)}
<1>1. Cardinality(P) \in Nat
  BY FS_CardinalityType
<1>2. ASSUME NEW p \in P
      PROVE  /\ IsFiniteSet(Prev(p)) /\ Cardinality(Prev(p)) \in Nat
             /\ Cardinality(Prev(p)) < Cardinality(P)
  <2> DEFINE D == Prev(p)
  <2>1. D \in SUBSET (P \ {p})
    BY Zenon
  <2> HIDE DEF D
  <2>2. IsFiniteSet(P \ {p}) /\ Cardinality(P \ {p}) = Cardinality(P) - 1
    BY Zenon, FS_RemoveElement
  <2>3. IsFiniteSet(D) /\ Cardinality(D) <= Cardinality(P \ {p})
    BY Zenon, <2>1, <2>2, FS_Subset
  <2>4. Cardinality(D) \in Nat
    BY Zenon, <2>3, FS_CardinalityType
  <2>5. Cardinality(D) < Cardinality(P)
    BY <1>1, <2>2, <2>3, <2>4
  <2> QED BY <2>3, <2>4, <2>5 DEF D
<1>3. ASSUME NEW p \in P, NEW q \in P, p # q, \A x \in p, y \in q : Before(x, y)
      PROVE  Cardinality(Prev(p)) < Cardinality(Prev(q))
  <2>1. p \in Prev(q)
    BY Zenon, <1>3
  <2>2. p \notin Prev(p)
    BY Zenon
  <2>3. ASSUME NEW r \in Prev(p) PROVE r \in Prev(q)
    <3>1. r \in P /\ r # p
      BY Zenon
    <3>2. PICK x \in p, z \in r : Before(z, x)
      BY Zenon
    <3>3. PICK y \in q : TRUE
      BY Zenon
    <3>4. WrittenAs(x) /\ WrittenAs(y) /\ WrittenAs(z) /\ Before(x, y)
      BY Zenon, <1>3, <3>1
    <3>5. Before(z, y)
      BY Zenon, <3>2, <3>4, BeforeTransitive
    <3>6. r # q
      BY Zenon, <1>3, <3>2, <3>4, BeforeTotal
    <3> QED BY Zenon, <3>1, <3>5, <3>6
  <2> DEFINE C == Prev(p)
  <2> DEFINE D == Prev(q)
  <2>4. C \in SUBSET D /\ C # D /\ IsFiniteSet(D)
    BY Zenon, <1>2, <2>1, <2>2, <2>3
  <2>5. Cardinality(C) \in Nat /\ Cardinality(D) \in Nat
    BY Zenon, <1>2
  <2> HIDE DEF C, D
  <2>6. Cardinality(C) <= Cardinality(D) /\ Cardinality(C) # Cardinality(D)
    BY Zenon, <2>4, FS_Subset
  <2>7. Cardinality(C) < Cardinality(D)
    BY <2>5, <2>6
  <2> QED BY Zenon, <2>7 DEF C, D
<1>4. ASSUME NEW p \in P, NEW q \in P, p # q
      PROVE  Cardinality(Prev(p)) # Cardinality(Prev(q))
  <2> HIDE DEF Prev
  <2>0. Cardinality(Prev(p)) \in Nat /\ Cardinality(Prev(q)) \in Nat
    BY Zenon, <1>2
  <2>1. CASE \A x \in p, y \in q : Before(x, y)
    <3>1. Cardinality(Prev(p)) < Cardinality(Prev(q))
      BY Zenon, <1>3, <1>4, <2>1
    <3> QED BY <2>0, <3>1
  <2>2. CASE \A x \in p, y \in q : Before(y, x)
    <3>1. Cardinality(Prev(q)) < Cardinality(Prev(p))
      BY Zenon, <1>3, <1>4, <2>2
    <3> QED BY <2>0, <3>1
  <2> QED BY Zenon, <1>4, <2>1, <2>2 DEF Ordered
<1> DEFINE T(p) == Table(first + Cardinality(Prev(p)), p)
<1>5. Numbered(P, first) = {T(p) : p \in P}
  BY Zenon DEF Numbered
<1>6. ASSUME NEW p \in P
      PROVE  /\ T(p).n = first + Cardinality(Prev(p)) /\ T(p).e = p
             /\ T(p).smallest \in p /\ T(p).largest \in p
             /\ \A x \in p : T(p).smallest.k <= x.k /\ x.k <= T(p).largest.k
  <2> HIDE DEF Prev
  <2> QED BY Zenon, TableEnds
<1> HIDE DEF Prev, T
<1>7. ASSUME NEW p \in P
      PROVE  /\ T(p).n \in Nat /\ first <= T(p).n /\ T(p).n < first + Cardinality(P)
  BY <1>1, <1>2, <1>6
<1>8. ASSUME NEW p \in P, NEW q \in P, T(p).n = T(q).n PROVE p = q
  BY <1>2, <1>4, <1>6, <1>8
<1>9. Fresh({T(p) : p \in P}, first, Cardinality(P))
  <2>1. \A t \in {T(p) : p \in P} :
          /\ t.n \in Nat /\ first <= t.n /\ t.n < first + Cardinality(P)
          /\ t.smallest \in t.e /\ t.largest \in t.e
          /\ \A x \in t.e : t.smallest.k <= x.k /\ x.k <= t.largest.k
    <3> TAKE t \in {T(p) : p \in P}
    <3>1. PICK p \in P : t = T(p)
      BY Zenon
    <3>2. t.e = p /\ t.smallest \in t.e /\ t.largest \in t.e
      BY Zenon, <1>6, <3>1
    <3>3. t.n \in Nat /\ first <= t.n /\ t.n < first + Cardinality(P)
      BY Zenon, <1>7, <3>1
    <3>4. \A x \in t.e : t.smallest.k <= x.k /\ x.k <= t.largest.k
      BY Zenon, <1>6, <3>1, <3>2
    <3> QED BY Zenon, <3>2, <3>3, <3>4
  <2>2. \A t, u \in {T(p) : p \in P} : t.n = u.n => t = u
    BY Zenon, <1>8
  <2>3. \A t, u \in {T(p) : p \in P} : t.e = u.e => t = u
    <3>1. \A p, q \in P : T(p).e = T(q).e => p = q
      BY Zenon, <1>6
    <3> QED BY Zenon, <3>1
  <2> QED BY Zenon, <2>1, <2>2, <2>3 DEF Fresh
<1>10. \A t \in {T(p) : p \in P} : t.e \in P
  BY ZenonT(30), <1>6
<1> QED BY Zenon, <1>1, <1>5, <1>9, <1>10

-----------------------------------------------------------------------------
(* The tables that a flush and a compaction install.                       *)

\* A flush adds tables with the entries of imm_ to level 0.
LEMMA FlushTables ==
  ASSUME TreeInv, Bounded, nextFile \in Nat, FlushInstall
  PROVE  \E T : \E n \in Nat :
           /\ EntriesOf(T) = imm /\ Fresh(T, nextFile, n) /\ \A t \in T : t.e \in Parts(imm, cut)
           /\ nextFile' = nextFile + n /\ nextFile' <= MaxFile + 1
           /\ DOMAIN files' = Level /\ files'[0] = files[0] \cup T
           /\ \A l \in Level : l # 0 => files'[l] = files[l]
           /\ spoilt' = spoilt \cup Spoils(files'[0], guards[0])
<1> DEFINE P == Parts(imm, cut)
<1> DEFINE T == Numbered(P, nextFile)
<1> DEFINE n == Cardinality(P)
<1>1. /\ nextFile' = nextFile + n /\ nextFile + n <= MaxFile + 1
      /\ files' = [files EXCEPT ![0] = files[0] \cup T]
      /\ spoilt' = spoilt \cup Spoils(files[0] \cup T, guards[0])
  BY Zenon DEF FlushInstall
<1>2. Shape /\ \A x \in imm : WrittenAs(x)
  BY Zenon DEF TreeInv, Shape, All
<1>3. IsFiniteSet(P) /\ Ordered(P) /\ \A p \in P : p # {} /\ p \subseteq imm
  BY Zenon, <1>2, PartsInOrder
<1>4. EntriesOf(T) = imm
  BY Zenon, PartsCover, NumberedCover
<1>5. n \in Nat /\ Fresh(T, nextFile, n) /\ \A t \in T : t.e \in P
  <2>1. \A p \in P : p # {} /\ \A x \in p : WrittenAs(x)
    BY Zenon, <1>2, <1>3
  <2> HIDE DEF P
  <2> QED BY Zenon, <1>2, <1>3, <2>1, NumberedFresh
<1> HIDE DEF T, n
<1>6. DOMAIN files = Level /\ 0 \in Level
  BY TreeAssumption DEF TreeInv, Shape, Level
<1>7. DOMAIN files' = Level /\ files'[0] = files[0] \cup T
  BY Zenon, <1>1, <1>6
<1>8. \A l \in Level : l # 0 => files'[l] = files[l]
  BY Zenon, <1>1, <1>6
<1> QED BY Zenon, <1>1, <1>4, <1>5, <1>7, <1>8

\* A cut after any entry divides what is written from what follows.
LEMMA HeadFirst ==
  ASSUME Shape, NEW E, \A x \in E : WrittenAs(x), NEW head,
         head \in {E} \cup {{y \in E : y = x \/ Before(y, x)} : x \in E}
  PROVE  \A x \in E \cap head, y \in E \ head : Before(x, y)
<1>1. CASE head = E
  BY Zenon, <1>1
<1>2. CASE \E z \in E : head = {y \in E : y = z \/ Before(y, z)}
  <2>1. PICK z \in E : head = {y \in E : y = z \/ Before(y, z)}
    BY Zenon, <1>2
  <2>2. ASSUME NEW x \in E, x \in head, NEW y \in E, y \notin head PROVE Before(x, y)
    <3>1. WrittenAs(x) /\ WrittenAs(y) /\ WrittenAs(z)
      BY Zenon
    <3>2. y # z /\ ~Before(y, z)
      BY Zenon, <2>1, <2>2
    <3>3. Before(z, y)
      BY Zenon, <3>1, <3>2, BeforeTotal
    <3>4. CASE x = z
      BY Zenon, <3>3, <3>4
    <3>5. CASE Before(x, z)
      BY Zenon, <3>1, <3>3, <3>5, BeforeTransitive
    <3> QED BY Zenon, <2>1, <2>2, <3>4, <3>5
  <2> QED BY Zenon, <2>2
<1> QED BY Zenon, <1>1, <1>2

\* A compaction replaces its inputs by tables with the entries it keeps.
LEMMA InstallTables ==
  ASSUME TreeInv, Bounded, nextFile \in Nat, Install
  PROVE  \E T : \E n \in Nat :
           /\ EntriesOf(T) = Kept(Inputs) /\ Fresh(T, nextFile, n)
           /\ \A t \in T : \E p \in Parts(Kept(Inputs), job.split) : t.e \subseteq p
           /\ nextFile' = nextFile + n /\ nextFile' <= MaxFile + 1
           /\ DOMAIN files' = Level
           /\ files'[job.out] = (files[job.out] \ (job.in0 \cup job.in1)) \cup T
           /\ \A l \in Level : l # job.out => files'[l] = files[l] \ (job.in0 \cup job.in1)
           /\ guards' = [l \in Level |-> Merge(guards[l], job.load[l])]
           /\ spoilt' = spoilt \cup Reborn(Inputs, [l \in Level |-> files[l] \ (job.in0 \cup job.in1)])
                          \cup UNION {Spoils(files'[l], guards'[l]) : l \in Level}
<1> DEFINE ins  == job.in0 \cup job.in1
<1> DEFINE kept == Kept(Inputs)
<1> DEFINE rest == [l \in Level |-> files[l] \ ins]
<1> DEFINE gs == [l \in Level |-> Merge(guards[l], job.load[l])]
<1> DEFINE P == Parts(kept, job.split)
<1> DEFINE Q(h) == CutAt(P, h)
<1> DEFINE F(h) == [rest EXCEPT ![job.out] = @ \cup Numbered(Q(h), nextFile)]
<1>1. PICK h \in {kept} \cup {{y \in kept : y = x \/ Before(y, x)} : x \in kept} :
        /\ nextFile + Cardinality(Q(h)) <= MaxFile + 1
        /\ nextFile' = nextFile + Cardinality(Q(h))
        /\ files' = F(h) /\ guards' = gs
        /\ spoilt' = spoilt \cup Reborn(Inputs, rest)
                       \cup UNION {Spoils(F(h)[l], gs[l]) : l \in Level}
  BY Zenon DEF Install
<1> DEFINE T == Numbered(Q(h), nextFile)
<1> DEFINE n == Cardinality(Q(h))
<1>2. Shape /\ \A x \in kept : WrittenAs(x)
  <2>1. kept \subseteq Inputs /\ job.on
    BY Zenon DEF Kept, Install
  <2> QED BY Zenon, <2>1 DEF TreeInv, JobOK
<1>3. IsFiniteSet(P) /\ Ordered(P) /\ \A p \in P : p \subseteq kept
  <2> HIDE DEF kept
  <2> QED BY Zenon, <1>2, PartsInOrder
<1>4. IsFiniteSet(Q(h)) /\ Ordered(Q(h)) /\ \A p \in Q(h) : p # {} /\ p \subseteq kept
  <2>1. \A x \in kept \cap h, y \in kept \ h : Before(x, y)
    <3> HIDE DEF kept
    <3> QED BY Zenon, <1>1, <1>2, HeadFirst
  <2> HIDE DEF kept, P
  <2> QED BY Zenon, <1>2, <1>3, <2>1, CutInOrder
<1>5. EntriesOf(T) = kept
  <2>1. EntriesOf(T) = UNION Q(h)
    BY Zenon, NumberedCover
  <2>2. UNION Q(h) = UNION P
    BY Zenon, CutCover
  <2> QED BY Zenon, <2>1, <2>2, PartsCover
<1>6. n \in Nat /\ Fresh(T, nextFile, n) /\ \A t \in T : t.e \in Q(h)
  <2>1. \A p \in Q(h) : p # {} /\ \A x \in p : WrittenAs(x)
    BY Zenon, <1>2, <1>4
  <2> HIDE DEF Q
  <2> QED BY Zenon, <1>2, <1>4, <2>1, NumberedFresh
<1>7. files' = [rest EXCEPT ![job.out] = rest[job.out] \cup T] /\ nextFile' = nextFile + n
  BY Zenon, <1>1
<1>8. job.out \in Level
  BY Zenon DEF TreeInv, JobOK, Install
<1>9. spoilt' = spoilt \cup Reborn(Inputs, rest) \cup UNION {Spoils(files'[l], guards'[l]) : l \in Level}
  BY ZenonT(30), <1>1
<1>10. n + nextFile = nextFile' /\ nextFile' <= MaxFile + 1
  <2>1. nextFile' <= MaxFile + 1
    BY Zenon, <1>1
  <2> HIDE DEF n
  <2> QED BY <1>6, <1>7, <2>1
<1> HIDE DEF T, n
<1>14. \A t \in T : \E p \in P : t.e \subseteq p
  <2>1. \A c \in Q(h) : \E p \in P : c = p \cap h \/ c = p \ h
    BY Zenon DEF CutAt
  <2>2. \A c \in Q(h) : \E p \in P : c \subseteq p
    <3> HIDE DEF Q, P
    <3> QED BY <2>1
  <2> QED BY Zenon, <1>6, <2>2
<1>11. DOMAIN files' = Level /\ files'[job.out] = (files[job.out] \ ins) \cup T
  BY Zenon, <1>7, <1>8
<1>12. \A l \in Level : l # job.out => files'[l] = files[l] \ ins
  BY Zenon, <1>7
<1>13. guards' = gs
  BY Zenon, <1>1
<1> QED BY ZenonT(30), <1>5, <1>6, <1>7, <1>9, <1>10, <1>11, <1>12, <1>13, <1>14

-----------------------------------------------------------------------------
(* Types, and the tables of a level.                                       *)

GuardSet == [Keys -> 0..MaxSeq]

Sizes ==
  /\ Len(hist) <= MaxSeq /\ cut \in GuardSet /\ nextFile \in 1..(MaxFile + 1)
  /\ guards \in [Level -> GuardSet] /\ complete \in [Level -> GuardSet]
  /\ spoilt \subseteq Keys /\ (job.on => job.load \in [Level -> GuardSet])

\* Tables have the bounds of what they hold, and numbers of their own.
FilesOK ==
  \A l \in Level : \A f \in files[l] :
    /\ f.n \in Nat /\ f.n # 0 /\ f.n < nextFile
    /\ f.smallest \in f.e /\ f.largest \in f.e
    /\ \A x \in f.e : f.smallest.k <= x.k /\ x.k <= f.largest.k
    /\ \A j \in Level : \A h \in files[j] : f.n = h.n => l = j /\ f = h

TableInv == Sizes /\ Bounded /\ FilesOK

LEMMA TypesHold == TreeInv /\ TableInv => TypeOK
<1> SUFFICES ASSUME TreeInv, TableInv PROVE TypeOK
  OBVIOUS
<1>1. Len(hist) \in Nat /\ MaxSeq \in Nat /\ Len(hist) <= MaxSeq
  BY TreeAssumption DEF TreeInv, Shape, TableInv, Sizes
<1>2. ASSUME NEW x, WrittenAs(x) PROVE x \in Entry
  <2>1. x.k \in Keys /\ x.d \in BOOLEAN /\ x.s \in 1..MaxSeq
    BY <1>1, <1>2, EntryFacts DEF TreeInv
  <2>2. x = [k |-> x.k, s |-> x.s, d |-> x.d]
    BY Zenon, <1>2 DEF WrittenAs
  <2> QED BY <2>1, <2>2 DEF Entry
<1>3. \A x \in All : x \in Entry
  BY Zenon, <1>2 DEF TreeInv, Shape
<1>4. mem \subseteq Entry /\ imm \subseteq Entry
  BY Zenon, <1>3 DEF All
<1>5. ASSUME NEW l \in Level, NEW f \in files[l]
      PROVE  f.n \in 1..(nextFile - 1) /\ f.e \subseteq Entry /\ f.e # {}
  <2>1. f.n \in Nat /\ f.n # 0 /\ f.n < nextFile /\ f.smallest \in f.e
    BY Zenon DEF TableInv, FilesOK
  <2>2. nextFile \in Nat
    BY TreeAssumption DEF TableInv, Sizes
  <2>3. \A x \in f.e : x \in All
    BY Zenon, StoredMember DEF All
  <2>4. f.n \in 1..(nextFile - 1)
    BY <2>1, <2>2
  <2> QED BY Zenon, <1>3, <2>1, <2>3, <2>4
<1> QED BY Zenon, <1>1, <1>4, <1>5 DEF TypeOK, TreeInv, Shape, TableInv, Sizes, GuardSet

\* New tables come to one level only.
NewOnly(T, o) ==
  \A l \in Level : \A f \in files'[l] : f \in files[l] \/ (l = o /\ f \in T)

\* New tables with numbers of their own.
LEMMA FilesStep ==
  ASSUME TableInv, NEW T, NEW n \in Nat, Fresh(T, nextFile, n), nextFile' = nextFile + n,
         NEW o, NewOnly(T, o)
  PROVE  FilesOK'
<1>0. \A l \in Level : \A f \in files'[l] : f \in files[l] \/ (l = o /\ f \in T)
  BY Zenon DEF NewOnly
<1>1. nextFile \in Nat /\ nextFile # 0
  BY TreeAssumption DEF TableInv, Sizes
<1>2. ASSUME NEW l \in Level, NEW f \in files'[l]
      PROVE  /\ f.n \in Nat /\ f.n # 0 /\ f.n < nextFile'
             /\ f.smallest \in f.e /\ f.largest \in f.e
             /\ \A x \in f.e : f.smallest.k <= x.k /\ x.k <= f.largest.k
  <2>1. CASE f \in files[l]
    <3>1. f.n \in Nat /\ f.n # 0 /\ f.n < nextFile
      BY Zenon, <2>1 DEF TableInv, FilesOK
    <3>2. f.n < nextFile'
      BY <1>1, <3>1
    <3> QED BY Zenon, <2>1, <3>1, <3>2 DEF TableInv, FilesOK
  <2>2. CASE f \in T
    <3>1. f.n \in Nat /\ nextFile <= f.n /\ f.n < nextFile'
      BY Zenon, <2>2 DEF Fresh
    <3>2. f.n # 0
      BY <1>1, <3>1
    <3> QED BY Zenon, <2>2, <3>1, <3>2 DEF Fresh
  <2> QED BY Zenon, <1>0, <2>1, <2>2
<1>3. ASSUME NEW l \in Level, NEW f \in files'[l], NEW j \in Level, NEW h \in files'[j], f.n = h.n
      PROVE  l = j /\ f = h
  <2>1. CASE f \in files[l] /\ h \in files[j]
    BY Zenon, <1>3, <2>1 DEF TableInv, FilesOK
  <2>2. CASE (l = o /\ f \in T) /\ (j = o /\ h \in T)
    BY Zenon, <1>3, <2>2 DEF Fresh
  <2>3. ASSUME NEW i \in Level, NEW a \in files[i], NEW b \in T PROVE a.n # b.n
    <3>1. a.n \in Nat /\ a.n < nextFile /\ b.n \in Nat /\ nextFile <= b.n
      BY Zenon DEF TableInv, FilesOK, Fresh
    <3> QED BY <1>1, <3>1
  <2> QED BY Zenon, <1>0, <1>3, <2>1, <2>2, <2>3
<1> QED BY Zenon, <1>2, <1>3 DEF FilesOK

LEMMA BoundedStays == UNCHANGED hist /\ Bounded => Bounded'
BY Zenon DEF Bounded

LEMMA MergeType ==
  ASSUME NEW a \in GuardSet, NEW b \in GuardSet PROVE Merge(a, b) \in GuardSet
BY DEF Merge, GuardSet

LEMMA NoGuardsType == NoGuards \in GuardSet
BY TreeAssumption DEF NoGuards, GuardSet

LEMMA TableInit == Init => TableInv
<1> SUFFICES ASSUME Init PROVE TableInv
  OBVIOUS
<1>1. Len(hist) = 0
  BY DEF Init
<1>2. Sizes
  BY <1>1, NoGuardsType, TreeAssumption DEF Init, Sizes, NoJob
<1>3. Bounded
  BY <1>1 DEF Bounded
<1>4. FilesOK
  BY DEF Init, FilesOK
<1> QED BY <1>2, <1>3, <1>4 DEF TableInv

LEMMA TableStep == TreeInv /\ TableInv /\ [Next]_vars => TableInv'
<1> SUFFICES ASSUME TreeInv, TableInv, [Next]_vars PROVE TableInv'
  OBVIOUS
<1>h. hist \in Seq([k : Keys, d : BOOLEAN]) /\ Len(hist) \in Nat /\ Len(hist) <= MaxSeq
  BY DEF TreeInv, Shape, TableInv, Sizes
<1>f. nextFile \in Nat /\ nextFile # 0
  BY TreeAssumption DEF TableInv, Sizes
<1>s. UNCHANGED <<files, nextFile>> => FilesOK'
  BY Zenon DEF TableInv, FilesOK
<1>1. ASSUME NEW c \in Keys, Put(c) \/ Delete(c) PROVE TableInv'
  <2>1. PICK d \in BOOLEAN : hist' = Append(hist, [k |-> c, d |-> d])
    BY Zenon, <1>1 DEF Put, Delete
  <2>2. Len(hist) < MaxSeq /\ UNCHANGED <<cut, files, guards, job, nextFile, spoilt>>
    BY Zenon, <1>1 DEF Put, Delete, Room
  <2>3. /\ Len(hist') = Len(hist) + 1 /\ hist'[Len(hist) + 1].k = c
        /\ \A i \in 1..Len(hist) : hist'[i] = hist[i]
    BY <1>h, <2>1
  <2>4. Bounded'
    <3>1. PICK B \in Nat : \A i \in 1..Len(hist) : hist[i].k <= B
      BY Zenon DEF TableInv, Bounded
    <3>2. \A W : hist \in Seq(W) => \A i \in 1..Len(hist) : hist[i] \in W
      OBVIOUS
    <3>5. \A w \in [k : Keys, d : BOOLEAN] : w.k \in Keys
      OBVIOUS
    <3>6. c \in Nat /\ \A i \in 1..Len(hist) : hist[i].k \in Nat
      BY Zenon, <1>h, <3>2, <3>5, TreeAssumption
    <3>3. ASSUME NEW i \in 1..Len(hist') PROVE hist'[i].k <= B + c
      <4>1. CASE i \in 1..Len(hist)
        <5>1. hist'[i].k = hist[i].k /\ hist[i].k <= B /\ hist[i].k \in Nat
          BY Zenon, <2>3, <3>1, <3>6, <4>1
        <5> QED BY <3>6, <5>1
      <4>2. CASE i = Len(hist) + 1
        BY <2>3, <3>6, <4>2
      <4> QED BY <1>h, <2>3, <4>1, <4>2
    <3>4. B + c \in Nat
      BY <3>6
    <3> QED BY Zenon, <3>3, <3>4 DEF Bounded
  <2>5. complete' \in [Level -> GuardSet]
    <3>1. CASE Delete(c)
      BY Zenon, <3>1 DEF Delete, TableInv, Sizes
    <3>2. CASE Put(c)
      <4>1. Len(hist) + 1 \in 0..MaxSeq
        BY <1>h, <2>2, TreeAssumption
      <4>2. \A l \in Level : complete[l] \in GuardSet
        BY Zenon DEF TableInv, Sizes
      <4>3. \A l \in Level : [complete[l] EXCEPT ![c] = Len(hist) + 1] \in GuardSet
        BY Zenon, <4>1, <4>2 DEF GuardSet
      <4>4. complete' = [l \in Level |->
              IF c \in DOMAIN GuardFrom /\ l >= GuardFrom[c] /\ complete[l][c] = 0
              THEN [complete[l] EXCEPT ![c] = Len(hist) + 1] ELSE complete[l]]
        BY Zenon, <3>2 DEF Put
      <4> QED BY Zenon, <4>2, <4>3, <4>4
    <3> QED BY Zenon, <1>1, <3>1, <3>2
  <2>6. Len(hist') <= MaxSeq
    BY <1>h, <2>2, <2>3, TreeAssumption
  <2>7. Sizes'
    BY Zenon, <2>2, <2>5, <2>6 DEF TableInv, Sizes
  <2> QED BY Zenon, <1>s, <2>2, <2>4, <2>7 DEF TableInv
<1>2. CASE TakeSnapshot \/ ReleaseSnapshot \/ UNCHANGED vars
  <2>1. UNCHANGED <<hist, cut, files, guards, complete, job, nextFile, spoilt>>
    BY Zenon, <1>2 DEF TakeSnapshot, ReleaseSnapshot, vars
  <2>2. Sizes'
    BY Zenon, <2>1 DEF TableInv, Sizes
  <2> QED BY Zenon, <1>s, <2>1, <2>2, BoundedStays DEF TableInv
<1>3. CASE FlushStart
  <2>1. /\ UNCHANGED <<hist, files, guards, complete, job, nextFile, spoilt>>
        /\ cut' = guards[0]
    BY Zenon, <1>3 DEF FlushStart
  <2>2. 0 \in Level
    BY TreeAssumption DEF Level
  <2>3. Sizes'
    BY Zenon, <2>1, <2>2 DEF TableInv, Sizes
  <2> QED BY Zenon, <1>s, <2>1, <2>3, BoundedStays DEF TableInv
<1>4. CASE FlushInstall
  <2>1. UNCHANGED <<hist, guards, complete, job>> /\ cut' = NoGuards
    BY Zenon, <1>4 DEF FlushInstall
  <2>2. PICK T : \E n \in Nat :
           /\ Fresh(T, nextFile, n) /\ nextFile' = nextFile + n /\ nextFile' <= MaxFile + 1
           /\ files'[0] = files[0] \cup T /\ \A l \in Level : l # 0 => files'[l] = files[l]
           /\ spoilt' = spoilt \cup Spoils(files'[0], guards[0])
    BY Zenon, <1>4, <1>f, FlushTables DEF TableInv
  <2>3. PICK n \in Nat :
           /\ Fresh(T, nextFile, n) /\ nextFile' = nextFile + n /\ nextFile' <= MaxFile + 1
    BY Zenon, <2>2
  <2>4. FilesOK'
    <3>1. NewOnly(T, 0)
      BY Zenon, <2>2 DEF NewOnly
    <3> QED BY Zenon, <2>3, <3>1, FilesStep
  <2>5. nextFile' \in 1..(MaxFile + 1)
    BY <1>f, <2>3, TreeAssumption
  <2>6. spoilt' \subseteq Keys
    BY Zenon, <2>2 DEF Spoils, TableInv, Sizes
  <2>7. Sizes'
    BY Zenon, <2>1, <2>5, <2>6, NoGuardsType DEF TableInv, Sizes
  <2> QED BY Zenon, <2>1, <2>4, <2>7, BoundedStays DEF TableInv
<1>5. ASSUME NEW l \in Level, PickVertical(l) \/ PickHorizontal(l) \/ PickManual(l) PROVE TableInv'
  <2>1. UNCHANGED <<hist, cut, files, guards, complete, nextFile, spoilt>>
    BY Zenon, <1>5 DEF PickVertical, PickHorizontal, PickManual
  <2>2. job'.load \in [Level -> GuardSet]
    <3>0. NoGuards \in GuardSet /\ \A j \in Level : complete[j] \in GuardSet
      BY Zenon, NoGuardsType DEF TableInv, Sizes
    <3>1. CASE PickVertical(l)
      <4>1. job'.load = [j \in Level |-> IF j \in {l, l + 1} THEN complete[j] ELSE NoGuards]
        BY Zenon, <3>1, VerticalJob
      <4> QED BY Zenon, <3>0, <4>1
    <3>2. CASE PickHorizontal(l)
      <4>1. job'.load = [j \in Level |-> IF j = l THEN complete[j] ELSE NoGuards]
        BY Zenon, <3>2, HorizontalJob
      <4> QED BY Zenon, <3>0, <4>1
    <3>3. CASE PickManual(l)
      <4>1. job'.load = [j \in Level |-> NoGuards]
        BY Zenon, <3>3, ManualJob
      <4> QED BY Zenon, <3>0, <4>1
    <3> QED BY Zenon, <1>5, <3>1, <3>2, <3>3
  <2>4. Sizes'
    BY Zenon, <2>1, <2>2 DEF TableInv, Sizes
  <2> QED BY Zenon, <1>s, <2>1, <2>4, BoundedStays DEF TableInv
<1>6. CASE Install
  <2>1. UNCHANGED <<hist, cut, complete>> /\ job.on /\ ~job'.on
    <3>1. job' = NoJob
      BY Zenon, <1>6 DEF Install
    <3>2. UNCHANGED <<hist, cut, complete>> /\ job.on
      BY Zenon, <1>6 DEF Install
    <3> QED BY <3>1, <3>2 DEF NoJob
  <2>2. PICK T : \E n \in Nat :
           /\ Fresh(T, nextFile, n) /\ nextFile' = nextFile + n /\ nextFile' <= MaxFile + 1
           /\ files'[job.out] = (files[job.out] \ (job.in0 \cup job.in1)) \cup T
           /\ \A l \in Level : l # job.out => files'[l] = files[l] \ (job.in0 \cup job.in1)
           /\ guards' = [l \in Level |-> Merge(guards[l], job.load[l])]
           /\ spoilt' = spoilt \cup Reborn(Inputs, [l \in Level |-> files[l] \ (job.in0 \cup job.in1)])
                          \cup UNION {Spoils(files'[l], guards'[l]) : l \in Level}
    BY Zenon, <1>6, <1>f, InstallTables DEF TableInv
  <2>3. PICK n \in Nat :
           /\ Fresh(T, nextFile, n) /\ nextFile' = nextFile + n /\ nextFile' <= MaxFile + 1
    BY Zenon, <2>2
  <2>4. FilesOK'
    <3>1. NewOnly(T, job.out)
      BY Zenon, <2>2 DEF NewOnly
    <3> QED BY Zenon, <2>3, <3>1, FilesStep
  <2>5. nextFile' \in 1..(MaxFile + 1)
    BY <1>f, <2>3, TreeAssumption
  <2>6. spoilt' \subseteq Keys
    <3>1. \A fs, gs : Spoils(fs, gs) \subseteq Keys
      BY Zenon DEF Spoils
    <3>2. \A E, rest : Reborn(E, rest) \subseteq Keys
      BY Zenon DEF Reborn
    <3> DEFINE U == UNION {Spoils(files'[l], guards'[l]) : l \in Level}
    <3>3. U \subseteq Keys
      BY Zenon, <3>1
    <3>4. spoilt \subseteq Keys
      BY Zenon DEF TableInv, Sizes
    <3>5. \E rest : spoilt' = spoilt \cup Reborn(Inputs, rest) \cup U
      BY Zenon, <2>2
    <3> HIDE DEF U
    <3> QED BY Zenon, <3>2, <3>3, <3>4, <3>5
  <2>7. guards' \in [Level -> GuardSet]
    <3>1. \A l \in Level : guards[l] \in GuardSet /\ job.load[l] \in GuardSet
      BY Zenon, <2>1 DEF TableInv, Sizes
    <3>2. \A l \in Level : Merge(guards[l], job.load[l]) \in GuardSet
      BY Zenon, <3>1, MergeType
    <3> QED BY Zenon, <2>2, <3>2
  <2>8. Sizes'
    BY Zenon, <2>1, <2>5, <2>6, <2>7 DEF TableInv, Sizes
  <2> QED BY Zenon, <2>1, <2>4, <2>8, BoundedStays DEF TableInv
<1> QED BY Zenon, <1>1, <1>2, <1>3, <1>4, <1>5, <1>6 DEF Next

-----------------------------------------------------------------------------
(* The order of versions.                                                  *)

\* An entry is in a table of a level.
At(l, x) == \E f \in files[l] : x \in f.e

\* Memtables are newer than tables.
MemOrder ==
  /\ \A x \in mem : \A y \in imm \cup Stored(files) : y.s < x.s
  /\ \A x \in imm : \A y \in Stored(files) : y.s < x.s

\* The inputs of a compaction stay in their levels while it runs; so does
\* what IsBaseLevelForKey looks at.
JobIn ==
  job.on =>
    /\ job.level \in Level /\ job.out \in Level /\ job.out \in {job.level, job.level + 1}
    /\ job.in0 \subseteq files[job.level]
    /\ job.in1 = {} \/ (job.out = job.level + 1 /\ job.in1 \subseteq files[job.out])
    /\ \A j \in Level : j >= job.level + 2 => files[j] \subseteq job.deep

\* What a compaction into the next level leaves in its level is newer than
\* what it takes: of a key it takes all tables or none, and a flush meanwhile
\* brings newer versions.
Whole ==
  job.on /\ job.out # job.level =>
    \A k \in Keys \ spoilt : \A f \in job.in0, h \in files[job.level] \ job.in0 :
      \A x \in f.e, y \in h.e : x.k = k /\ y.k = k => x.s < y.s

\* A key that is not spoilt is found under its guard, newest table first.
Straight == \A l \in Level : Spoils(files[l], guards[l]) \subseteq spoilt

\* The last write of a key, if it is a deletion, is still there, or no older
\* version is.
MarkersKept ==
  \A k \in Keys \ spoilt : \A s \in {Len(hist), snap} : \A r \in 1..s :
    Last(k, s, r) /\ hist[r].d =>
      \/ \E x \in All : x.k = k /\ x.s = r
      \/ \A x \in All : x.k = k => x.s > s

OrderInv == MemOrder /\ JobIn /\ Whole /\ Straight /\ LevelsOrdered /\ MarkersKept

LEMMA OrderInit == Init => OrderInv
<1> SUFFICES ASSUME Init PROVE OrderInv
  OBVIOUS
<1>1. \A l \in Level : files[l] = {}
  BY Zenon DEF Init
<1>2. MemOrder
  BY Zenon DEF Init, MemOrder
<1>3. JobIn /\ Whole
  BY DEF Init, NoJob, JobIn, Whole
<1>4. Straight
  BY Zenon, <1>1 DEF Straight, Spoils, Astray, Inverted
<1>5. LevelsOrdered
  BY Zenon, <1>1 DEF LevelsOrdered
<1>6. MarkersKept
  <2>1. Len(hist) = 0 /\ snap = 0
    BY DEF Init
  <2>2. \A s \in {Len(hist), snap} : 1..s = {}
    BY <2>1
  <2> QED BY Zenon, <2>2 DEF MarkersKept
<1> QED BY <1>2, <1>3, <1>4, <1>5, <1>6 DEF OrderInv

\* A step that leaves the tables and the set of entries alone.
LEMMA OrderStill ==
  ASSUME TreeInv, OrderInv, UNCHANGED <<hist, files, guards, spoilt>>, All' = All,
         MemOrder', JobIn', Whole', snap' = snap \/ snap' = Len(hist) \/ snap' = 0
  PROVE  OrderInv'
<1>1. Straight'
  BY Zenon DEF OrderInv, Straight, Spoils, Astray, Inverted
<1>2. LevelsOrdered'
  BY ZenonT(30) DEF OrderInv, LevelsOrdered
<1>3. MarkersKept'
  <2>1. \A k, s, r : Last(k, s, r)' <=> Last(k, s, r)
    BY Zenon DEF Last
  <2>2. 1..0 = {}
    OBVIOUS
  <2>3. ASSUME NEW s \in {Len(hist), snap'}, NEW r \in 1..s PROVE s \in {Len(hist), snap}
    BY Zenon, <2>2
  <2> SUFFICES ASSUME NEW k \in Keys \ spoilt, NEW s \in {Len(hist), snap'}, NEW r \in 1..s,
                      Last(k, s, r), hist[r].d
               PROVE  \/ \E x \in All : x.k = k /\ x.s = r
                      \/ \A x \in All : x.k = k => x.s > s
    BY <2>1 DEF MarkersKept
  <2> QED BY Zenon, <2>3 DEF OrderInv, MarkersKept
<1> QED BY Zenon, <1>1, <1>2, <1>3 DEF OrderInv

\* Snapshots, and the switch of the memtable.
LEMMA OrderMoves ==
  ASSUME TreeInv, OrderInv, TakeSnapshot \/ ReleaseSnapshot \/ FlushStart \/ UNCHANGED vars
  PROVE  OrderInv'
<1>1. /\ UNCHANGED <<hist, files, guards, spoilt, job>>
      /\ snap' = snap \/ snap' = Len(hist) \/ snap' = 0
  BY Zenon DEF TakeSnapshot, ReleaseSnapshot, FlushStart, vars
<1>2. UNCHANGED <<mem, imm>> \/ (imm = {} /\ imm' = mem /\ mem' = {})
  BY Zenon DEF TakeSnapshot, ReleaseSnapshot, FlushStart, vars
<1>3. All' = All
  BY <1>1, <1>2 DEF All
<1>4. MemOrder'
  <2>1. CASE UNCHANGED <<mem, imm>>
    BY Zenon, <1>1, <2>1 DEF OrderInv, MemOrder
  <2>2. CASE imm = {} /\ imm' = mem /\ mem' = {}
    <3>1. \A x \in mem : \A y \in Stored(files) : y.s < x.s
      BY Zenon DEF OrderInv, MemOrder
    <3> QED BY Zenon, <1>1, <2>2, <3>1 DEF MemOrder
  <2> QED BY Zenon, <1>2, <2>1, <2>2
<1>5. JobIn' /\ Whole'
  <2>1. JobIn'
    BY ZenonT(30), <1>1 DEF OrderInv, JobIn
  <2>2. Whole'
    BY <1>1 DEF OrderInv, Whole
  <2> QED BY <2>1, <2>2
<1> QED BY Zenon, <1>1, <1>3, <1>4, <1>5, OrderStill

\* A write is newer than everything.
LEMMA OrderWrite ==
  ASSUME TreeInv, OrderInv, NEW c \in Keys, NEW d \in BOOLEAN, Writes(c, d),
         UNCHANGED <<guards, spoilt>>
  PROVE  OrderInv'
<1> DEFINE n == Len(hist)
<1> DEFINE new == [k |-> c, s |-> n + 1, d |-> d]
<1>1. hist \in Seq([k : Keys, d : BOOLEAN]) /\ n \in Nat /\ snap \in 0..n
  BY DEF TreeInv, Shape
<1>2. /\ Len(hist') = n + 1 /\ hist'[n + 1].k = c /\ \A i \in 1..n : hist'[i] = hist[i]
  BY <1>1 DEF Writes
<1>3. UNCHANGED <<imm, files, job, snap>> /\ mem' = mem \cup {new} /\ All' = All \cup {new}
  BY Zenon DEF Writes, All
<1>4. \A x \in All : x.s \in Nat /\ x.s < n + 1 /\ x.s <= n
  <2>1. \A x \in All : x.s \in 1..n
    BY Zenon DEF TreeInv, Shape, WrittenAs
  <2> QED BY <1>1, <2>1
<1> HIDE DEF n
<1>5. MemOrder'
  <2>1. new.s = n + 1
    OBVIOUS
  <2> HIDE DEF new
  <2>2. \A y \in imm \cup Stored(files) : y.s < new.s
    BY Zenon, <1>4, <2>1 DEF All
  <2> QED BY Zenon, <1>3, <2>2 DEF OrderInv, MemOrder
<1>6. JobIn' /\ Whole'
  <2>1. JobIn'
    BY ZenonT(30), <1>3 DEF OrderInv, JobIn
  <2>2. Whole'
    BY <1>3 DEF OrderInv, Whole
  <2> QED BY <2>1, <2>2
<1>7. Straight' /\ LevelsOrdered'
  BY ZenonT(30), <1>3 DEF OrderInv, Straight, Spoils, Astray, Inverted, LevelsOrdered
<1>8. MarkersKept'
  <2> SUFFICES ASSUME NEW k \in Keys \ spoilt, NEW s \in {n + 1, snap}, NEW r \in 1..s,
                      Last(k, s, r)', hist'[r].d
               PROVE  \/ \E x \in All' : x.k = k /\ x.s = r
                      \/ \A x \in All' : x.k = k => x.s > s
    <3>1. Len(hist') = n + 1 /\ snap' = snap /\ spoilt' = spoilt
      BY Zenon, <1>2, <1>3
    <3> QED BY <3>1 DEF MarkersKept
  <2>0. new.k = c /\ new.s = n + 1 /\ new \in All'
    BY <1>3
  <2> HIDE DEF new
  <2>1. CASE s = n + 1 /\ k = c
    <3>1. r = n + 1
      BY <1>1, <1>2, <2>1 DEF Last
    <3> QED BY Zenon, <2>0, <2>1, <3>1
  <2>2. CASE s = n + 1 /\ k # c
    <3>1. r \in 1..n /\ Last(k, n, r) /\ hist[r].d
      BY <1>1, <1>2, <2>2 DEF Last
    <3>2. \/ \E x \in All : x.k = k /\ x.s = r
          \/ \A x \in All : x.k = k => x.s > n
      BY Zenon, <3>1 DEF OrderInv, MarkersKept, n
    <3>3. CASE \E x \in All : x.k = k /\ x.s = r
      BY Zenon, <1>3, <3>3
    <3>4. CASE \A x \in All : x.k = k => x.s > n
      <4>1. \A x \in All : x.k # k
        BY <1>1, <1>4, <3>4
      <4> QED BY Zenon, <1>3, <2>0, <2>2, <4>1
    <3> QED BY Zenon, <3>2, <3>3, <3>4
  <2>3. CASE s = snap
    <3>1. s \in 0..n /\ r \in 1..n
      BY <1>1, <2>3
    <3>2. Last(k, s, r) /\ hist[r].d
      BY <1>1, <1>2, <3>1 DEF Last
    <3>3. \/ \E x \in All : x.k = k /\ x.s = r
          \/ \A x \in All : x.k = k => x.s > s
      BY Zenon, <2>3, <3>2 DEF OrderInv, MarkersKept
    <3>4. new.s > s
      BY <1>1, <2>0, <3>1
    <3>5. \A x \in All' : x \in All \/ x = new
      BY Zenon, <1>3
    <3>6. CASE \E x \in All : x.k = k /\ x.s = r
      BY Zenon, <1>3, <3>6
    <3>7. CASE \A x \in All : x.k = k => x.s > s
      BY Zenon, <3>4, <3>5, <3>7
    <3> QED BY Zenon, <3>3, <3>6, <3>7
  <2> QED BY Zenon, <2>1, <2>2, <2>3
<1> QED BY Zenon, <1>5, <1>6, <1>7, <1>8 DEF OrderInv

\* A group of tables has all tables of a key that is not spoilt, or none.
LEMMA GroupsWhole ==
  ASSUME OrderInv, NEW l \in Level, NEW G, NEW k \in Keys \ spoilt,
         NEW f \in UNION {Group(l, g) : g \in G},
         NEW h \in files[l] \ UNION {Group(l, g) : g \in G}
  PROVE  ~(Holds(f, k) /\ Holds(h, k))
<1>1. PICK g \in G : f \in Group(l, g)
  BY Zenon
<1>2. f \in files[l] /\ Home(files[l], guards[l], f) = g
  BY Zenon, <1>1 DEF Group, Listed
<1>3. Home(files[l], guards[l], h) # g
  <2>1. h \in files[l] /\ h \notin Group(l, g)
    BY <1>1
  <2> QED BY Zenon, <2>1 DEF Group, Listed
<1>4. ~Astray(files[l], guards[l], k)
  BY Zenon DEF OrderInv, Straight, Spoils
<1> QED BY Zenon, <1>2, <1>3, <1>4 DEF Astray

LEMMA OrderPick ==
  ASSUME TreeInv, OrderInv, NEW l \in Level, PickVertical(l) \/ PickHorizontal(l) \/ PickManual(l)
  PROVE  OrderInv'
<1>1. UNCHANGED <<hist, mem, imm, files, guards, snap, spoilt>>
  BY Zenon DEF PickVertical, PickHorizontal, PickManual
<1>l. l \in Int /\ LastLevel \in Int
  BY TreeAssumption DEF Level
<1>3. /\ job'.on = TRUE /\ job'.level = l /\ job'.out \in Level /\ job'.out \in {l, l + 1}
      /\ job'.in0 \subseteq files[l]
      /\ job'.in1 = {} \/ (job'.out = l + 1 /\ job'.in1 \subseteq files[l + 1])
      /\ job'.deep = UNION {files[j] : j \in (l + 2)..LastLevel}
  <2>l. l < LastLevel => l + 1 \in Level
    BY TreeAssumption DEF Level
  <2>1. CASE PickVertical(l)
    <3>1. job'.out = l + 1 /\ l + 1 \in Level
      BY Zenon, <2>l, <2>1, VerticalJob
    <3> QED BY Zenon, <2>1, <3>1, VerticalJob
  <2>2. CASE PickHorizontal(l)
    BY Zenon, <2>2, HorizontalJob
  <2>3. CASE PickManual(l)
    <3>1. job'.out = l + 1 /\ l + 1 \in Level
      BY Zenon, <2>l, <2>3, ManualJob
    <3> QED BY Zenon, <2>3, <3>1, ManualJob
  <2> QED BY Zenon, <2>1, <2>2, <2>3
<1>4. job'.out = l \/ \E G : job'.in0 = UNION {Group(l, g) : g \in G}
  <2>1. CASE PickVertical(l)
    BY Zenon, <2>1, VerticalJob
  <2>2. CASE PickHorizontal(l)
    BY Zenon, <2>2, HorizontalJob
  <2>3. CASE PickManual(l)
    BY Zenon, <2>3, ManualJob
  <2> QED BY Zenon, <2>1, <2>2, <2>3
<1>5. All' = All
  BY Zenon, <1>1 DEF All
<1>6. MemOrder'
  BY Zenon, <1>1 DEF OrderInv, MemOrder
<1>7. JobIn'
  <2>1. ASSUME NEW j \in Level, j >= l + 2 PROVE files[j] \subseteq job'.deep
    <3>1. j \in (l + 2)..LastLevel
      BY <1>l, <2>1 DEF Level
    <3> QED BY Zenon, <1>3, <3>1
  <2>2. job'.in1 = {} \/ (job'.out = l + 1 /\ job'.in1 \subseteq files[job'.out])
    BY Zenon, <1>3
  <2> QED BY Zenon, <1>1, <1>3, <2>1, <2>2 DEF JobIn
<1>8. Whole'
  <2>1. ASSUME job'.out # l, NEW k \in Keys \ spoilt, NEW f \in job'.in0, NEW h \in files[l] \ job'.in0
        PROVE  ~(Holds(f, k) /\ Holds(h, k))
    <3>1. PICK G : job'.in0 = UNION {Group(l, g) : g \in G}
      BY Zenon, <1>4, <2>1
    <3>2. /\ f \in UNION {Group(l, g) : g \in G} /\ h \in files[l] \ UNION {Group(l, g) : g \in G}
      BY Zenon, <3>1
    <3> QED BY Zenon, <3>2, GroupsWhole
  <2>2. \A f, k : \A x \in f.e : x.k = k => Holds(f, k)
    BY Zenon DEF Holds
  <2>3. job'.level = l /\ files' = files /\ spoilt' = spoilt
    BY Zenon, <1>1, <1>3
  <2> QED BY <2>1, <2>2, <2>3 DEF Whole
<1> QED BY Zenon, <1>1, <1>5, <1>6, <1>7, <1>8, OrderStill

LEMMA OrderFlush ==
  ASSUME TreeInv, TableInv, OrderInv, FlushInstall
  PROVE  OrderInv'
<1>0. nextFile \in Nat /\ Bounded
  BY TreeAssumption DEF TableInv, Sizes
<1>1. PICK T :
        /\ EntriesOf(T) = imm /\ files'[0] = files[0] \cup T
        /\ \A l \in Level : l # 0 => files'[l] = files[l]
        /\ spoilt' = spoilt \cup Spoils(files'[0], guards[0])
  BY Zenon, <1>0, FlushTables
<1>2. UNCHANGED <<hist, mem, guards, job, snap>> /\ imm' = {}
  BY Zenon DEF FlushInstall
<1>3. 0 \in Level /\ Level \subseteq Nat
  BY TreeAssumption DEF Level
<1>4. \A l \in Level : \A f \in files'[l] : f \in files[l] \/ (l = 0 /\ f \in T)
  BY Zenon, <1>1
<1>5. \A f \in T : \A x \in f.e : x \in imm
  BY Zenon, <1>1 DEF EntriesOf
<1>6. \A l \in Level : \A f \in files[l] : \A x \in f.e : x \in Stored(files)
  BY Zenon, StoredMember
<1>7. \A x \in Stored(files') : x \in Stored(files) \/ x \in imm
  BY Zenon, <1>4, <1>5, <1>6, StoredMember
<1>8. \A x \in imm : \A y \in Stored(files) : y.s < x.s
  BY Zenon DEF OrderInv, MemOrder
<1>9. MemOrder'
  BY Zenon, <1>2, <1>7 DEF OrderInv, MemOrder
<1>10. \A l \in Level : files[l] \subseteq files'[l]
  BY Zenon, <1>1
<1>11. JobIn'
  <2>1. ASSUME job.on, NEW j \in Level, j >= job.level + 2 PROVE files'[j] = files[j]
    <3>1. job.level \in Nat
      BY Zenon, <1>3, <2>1 DEF OrderInv, JobIn
    <3>2. j # 0
      BY <2>1, <3>1
    <3> QED BY Zenon, <1>1, <3>2
  <2>2. job.on => /\ job.level \in Level /\ job.out \in Level /\ job.in0 \subseteq files[job.level]
                  /\ job.in1 = {} \/ (job.out = job.level + 1 /\ job.in1 \subseteq files[job.out])
    BY Zenon DEF OrderInv, JobIn
  <2>3. job.on => /\ job.in0 \subseteq files'[job.level]
                  /\ job.in1 = {} \/ (job.out = job.level + 1 /\ job.in1 \subseteq files'[job.out])
    BY Zenon, <1>10, <2>2
  <2> QED BY Zenon, <1>2, <2>1, <2>2, <2>3 DEF OrderInv, JobIn
<1>12. Whole'
  <2> SUFFICES ASSUME job.on, job.out # job.level, NEW k \in Keys \ spoilt', NEW f \in job.in0,
                      NEW h \in files'[job.level] \ job.in0, NEW x \in f.e, NEW y \in h.e,
                      x.k = k, y.k = k
               PROVE  x.s < y.s
    BY <1>2 DEF Whole
  <2>1. k \in Keys \ spoilt /\ job.level \in Level /\ f \in files[job.level]
    BY Zenon, <1>1 DEF OrderInv, JobIn
  <2>2. CASE h \in files[job.level]
    BY Zenon, <2>1, <2>2 DEF OrderInv, Whole
  <2>3. CASE h \in T
    BY Zenon, <1>5, <1>6, <1>8, <2>1, <2>3
  <2> QED BY ZenonT(30), <1>4, <2>1, <2>2, <2>3
<1>13. Straight'
  <2>1. ASSUME NEW l \in Level PROVE Spoils(files'[l], guards[l]) \subseteq spoilt'
    <3>1. CASE l = 0
      BY Zenon, <1>1, <3>1
    <3>2. CASE l # 0
      BY Zenon, <1>1, <3>2 DEF OrderInv, Straight
    <3> QED BY <3>1, <3>2
  <2> QED BY Zenon, <1>2, <2>1 DEF Straight
<1>14. LevelsOrdered'
  <2> SUFFICES ASSUME NEW k \in Keys \ spoilt', NEW i \in Level, NEW j \in Level, i < j,
                      NEW f \in files'[i], NEW h \in files'[j], NEW x \in f.e, NEW y \in h.e,
                      x.k = k, y.k = k
               PROVE  x.s > y.s
    BY Zenon DEF LevelsOrdered
  <2>1. k \in Keys \ spoilt
    BY Zenon, <1>1
  <2>2. j # 0
    BY <1>3
  <2>3. h \in files[j] /\ y \in Stored(files)
    BY Zenon, <1>4, <1>6, <2>2
  <2>4. CASE f \in files[i]
    BY ZenonT(30), <2>1, <2>3, <2>4 DEF OrderInv, LevelsOrdered
  <2>5. CASE f \in T
    <3>1. y.s < x.s
      BY Zenon, <1>5, <1>8, <2>3, <2>5
    <3>2. WrittenAs(x) /\ WrittenAs(y)
      BY ZenonT(30), <1>5, <2>3, <2>5 DEF TreeInv, Shape, All
    <3>3. x.s \in Nat /\ y.s \in Nat
      BY <3>2, EntryFacts DEF TreeInv
    <3> QED BY <3>1, <3>3
  <2> QED BY Zenon, <1>4, <2>4, <2>5
<1>15. MarkersKept'
  <2>1. All' = All
    <3>1. \A x \in imm : \E f \in T : x \in f.e
      BY Zenon, <1>1 DEF EntriesOf
    <3>2. \A x \in imm : x \in Stored(files')
      BY Zenon, <1>1, <1>3, <3>1, StoredMember
    <3>3. \A x \in Stored(files) : x \in Stored(files')
      BY Zenon, <1>10, StoredMember
    <3>4. \A x : x \in All' <=> x \in All
      BY Zenon, <1>2, <1>7, <3>2, <3>3 DEF All
    <3> QED BY <3>4
  <2>2. \A k, s, r : Last(k, s, r)' <=> Last(k, s, r)
    BY Zenon, <1>2 DEF Last
  <2>3. Keys \ spoilt' \subseteq Keys \ spoilt
    BY Zenon, <1>1
  <2>4. hist' = hist /\ snap' = snap
    BY Zenon, <1>2
  <2> QED BY <2>1, <2>2, <2>3, <2>4 DEF OrderInv, MarkersKept
<1> QED BY ZenonT(30), <1>9, <1>11, <1>12, <1>13, <1>14, <1>15 DEF OrderInv

LEMMA OrderInstall ==
  ASSUME TreeInv, TableInv, OrderInv, Install
  PROVE  OrderInv'
<1> DEFINE ins == job.in0 \cup job.in1
<1> DEFINE rest == [l \in Level |-> files[l] \ ins]
<1>0. nextFile \in Nat /\ Bounded
  BY TreeAssumption DEF TableInv, Sizes
<1>1. PICK T :
        /\ EntriesOf(T) = Kept(Inputs) /\ DOMAIN files' = Level
        /\ files'[job.out] = (files[job.out] \ ins) \cup T
        /\ \A l \in Level : l # job.out => files'[l] = files[l] \ ins
        /\ spoilt' = spoilt \cup Reborn(Inputs, rest)
                       \cup UNION {Spoils(files'[l], guards'[l]) : l \in Level}
  BY Zenon, <1>0, InstallTables
<1>2. UNCHANGED <<hist, mem, imm, snap>> /\ job' = NoJob /\ job.on
  BY Zenon DEF Install
<1>3. Level \subseteq Nat
  BY DEF Level
<1>4. /\ job.level \in Level /\ job.out \in Level /\ job.out \in {job.level, job.level + 1}
      /\ job.in0 \subseteq files[job.level]
      /\ job.in1 = {} \/ (job.out = job.level + 1 /\ job.in1 \subseteq files[job.out])
  BY Zenon, <1>2 DEF OrderInv, JobIn
<1>5. \A l \in Level : \A f \in files'[l] : f \in files[l] \ ins \/ (l = job.out /\ f \in T)
  BY Zenon, <1>1
<1>6. \A f \in T : \A x \in f.e : x \in Kept(Inputs)
  BY Zenon, <1>1 DEF EntriesOf
<1>6k. \A x \in Kept(Inputs) : \E f \in T : x \in f.e
  <2>1. \A x \in EntriesOf(T) : \E f \in T : x \in f.e
    BY Zenon DEF EntriesOf
  <2> QED BY <1>1, <2>1
<1>7. Kept(Inputs) \subseteq Inputs
  BY Zenon DEF Kept
<1>8. \A x \in Inputs : \/ \E f \in job.in0 : x \in f.e
                        \/ \E f \in job.in1 : x \in f.e
  BY Zenon DEF Inputs
<1>9. \A x \in Inputs : At(job.level, x) \/ (job.out = job.level + 1 /\ At(job.out, x))
  BY Zenon, <1>4, <1>8 DEF At
<1>10. \A x : \A l \in Level : At(l, x) => x \in Stored(files)
  BY Zenon, StoredMember DEF At
<1>11. \A x \in Inputs : x \in Stored(files)
  BY Zenon, <1>4, <1>9, <1>10
<1>12. \A x \in Stored(files') : x \in Stored(files)
  <2>1. \A l \in Level : \A f \in files'[l] : \A x \in f.e : x \in Stored(files)
    <3> SUFFICES ASSUME NEW l \in Level, NEW f \in files'[l], NEW x \in f.e
                 PROVE  x \in Stored(files)
      BY Zenon
    <3>1. CASE f \in files[l]
      BY Zenon, <3>1, StoredMember
    <3>2. CASE f \in T
      BY Zenon, <1>6, <1>7, <1>11, <3>2
    <3> QED BY Zenon, <1>5, <3>1, <3>2
  <2> QED BY Zenon, <2>1, StoredMember
<1>13. \A x \in All' : x \in All
  BY Zenon, <1>2, <1>12 DEF All
<1>14. \A x \in All : WrittenAs(x) /\ x.s \in Nat
  BY EntryFacts DEF TreeInv, Shape
<1>15. Keys \ spoilt' \subseteq Keys \ spoilt
  BY Zenon, <1>1
<1>16. \A i, j \in Level : \A x, y : \A k \in Keys \ spoilt :
         i < j /\ At(i, x) /\ At(j, y) /\ x.k = k /\ y.k = k => x.s > y.s
  BY Zenon DEF OrderInv, LevelsOrdered, At
<1>17. MemOrder'
  BY Zenon, <1>2, <1>12 DEF OrderInv, MemOrder
<1>18. JobIn' /\ Whole'
  <2>1. ~job'.on
    BY <1>2 DEF NoJob
  <2> QED BY Zenon, <2>1 DEF JobIn, Whole
<1>19. Straight'
  BY ZenonT(30), <1>1 DEF Straight
<1>20. LevelsOrdered'
  <2> SUFFICES ASSUME NEW k \in Keys \ spoilt', NEW i \in Level, NEW j \in Level, i < j,
                      NEW f \in files'[i], NEW h \in files'[j], NEW x \in f.e, NEW y \in h.e,
                      x.k = k, y.k = k
               PROVE  x.s > y.s
    BY Zenon DEF LevelsOrdered
  <2>0. k \in Keys \ spoilt /\ i \in Nat /\ j \in Nat /\ job.level \in Nat
    BY Zenon, <1>3, <1>4, <1>15
  <2>1. f \in files[i] \/ (i = job.out /\ f \in T)
    BY Zenon, <1>5
  <2>2. h \in files[j] \/ (j = job.out /\ h \in T)
    BY Zenon, <1>5
  <2>3. CASE f \in files[i] /\ h \in files[j]
    BY Zenon, <1>16, <2>0, <2>3 DEF At
  <2>4. CASE i = job.out /\ f \in T /\ h \in files[j]
    <3>1. At(job.level, x) \/ At(job.out, x)
      BY Zenon, <1>6, <1>7, <1>9, <2>4
    <3>2. At(j, y)
      BY Zenon, <2>4 DEF At
    <3>3. job.level < j /\ job.out < j
      BY <1>4, <2>0, <2>4
    <3> QED BY ZenonT(30), <1>4, <1>16, <2>0, <3>1, <3>2, <3>3
  <2>5. CASE j = job.out /\ h \in T /\ f \in files[i]
    <3>0. At(i, x)
      BY Zenon, <2>5 DEF At
    <3>1. y \in Inputs
      BY Zenon, <1>6, <1>7, <2>5
    <3>2. CASE \E g \in job.in1 : y \in g.e
      <4>1. At(job.out, y)
        BY Zenon, <1>4, <3>2 DEF At
      <4> QED BY ZenonT(30), <1>4, <1>16, <2>0, <2>5, <3>0, <4>1
    <3>3. CASE (\E g \in job.in0 : y \in g.e) /\ i # job.level
      <4>1. At(job.level, y)
        BY ZenonT(30), <1>4, <3>3 DEF At
      <4>2. i < job.level
        BY <1>4, <2>0, <2>5, <3>3
      <4> QED BY ZenonT(30), <1>4, <1>16, <2>0, <3>0, <4>1, <4>2
    <3>4. CASE (\E g \in job.in0 : y \in g.e) /\ i = job.level
      <4>1. PICK g \in job.in0 : y \in g.e
        BY Zenon, <3>4
      <4>2. job.out # job.level
        BY <2>0, <2>5, <3>4
      <4>3. f \in files[job.level] \ job.in0
        BY ZenonT(30), <1>5, <2>5, <3>4, <4>2
      <4>4. y.s < x.s
        BY ZenonT(30), <1>2, <2>0, <4>1, <4>2, <4>3 DEF OrderInv, Whole
      <4>5. x \in All /\ y \in All
        BY ZenonT(30), <1>10, <1>11, <3>0, <3>1 DEF All
      <4>6. x.s \in Nat /\ y.s \in Nat
        BY Zenon, <1>14, <4>5
      <4> QED BY <4>4, <4>6
    <3> QED BY ZenonT(30), <1>8, <3>1, <3>2, <3>3, <3>4
  <2>6. ~(i = job.out /\ j = job.out)
    BY <2>0
  <2> QED BY Zenon, <2>1, <2>2, <2>3, <2>4, <2>5, <2>6
<1>21. MarkersKept'
  <2>0. \A k, s, r : Last(k, s, r)' <=> Last(k, s, r)
    BY ZenonT(30), <1>2 DEF Last
  <2> SUFFICES ASSUME NEW k \in Keys \ spoilt', NEW s \in {Len(hist), snap}, NEW r \in 1..s,
                      Last(k, s, r), hist[r].d
               PROVE  \/ \E x \in All' : x.k = k /\ x.s = r
                      \/ \A x \in All' : x.k = k => x.s > s
    <3>1. hist' = hist /\ snap' = snap
      BY Zenon, <1>2
    <3> QED BY <2>0, <3>1 DEF MarkersKept
  <2>1. k \in Keys \ spoilt
    BY Zenon, <1>15
  <2>2. CASE \A x \in All : x.k = k => x.s > s
    BY Zenon, <1>13, <2>2
  <2>3. ASSUME NEW x \in All, x.k = k, x.s = r, x \notin All', NEW y \in All', y.k = k
        PROVE  y.s > s
    <3> SUFFICES ASSUME ~(y.s > s) PROVE FALSE
      OBVIOUS
    <3>1. WrittenAs(x) /\ WrittenAs(y) /\ x.s \in Nat /\ y.s \in Nat /\ y \in All
      BY Zenon, <1>13, <1>14, <2>3
    <3>2. s \in Nat /\ s # 0 /\ job.small \in Nat /\ job.small <= s
      <4>1. Len(hist) \in Nat /\ snap \in 0..Len(hist)
        BY DEF TreeInv, Shape
      <4>2. job.small \in 0..Len(hist) /\ (snap # 0 => job.small <= snap)
        BY ZenonT(30), <1>2 DEF TreeInv, JobOK
      <4> QED BY <4>1, <4>2
    <3>3. y.s < x.s
      <4>1. y.s \in 1..s /\ hist[y.s].k = k
        BY <2>3, <3>1, <3>2 DEF WrittenAs
      <4>2. y.s <= r
        BY Zenon, <4>1 DEF Last
      <4>3. y.s # x.s
        BY ZenonT(30), <2>3, <3>1, SameEntry
      <4> QED BY SMTT(30), <2>3, <3>1, <4>2, <4>3
    <3>4. x \in Inputs /\ x \notin Kept(Inputs)
      <4>1. x \notin mem /\ x \notin imm /\ x \notin Stored(files')
        BY Zenon, <1>2, <2>3 DEF All
      <4>2. PICK l \in Level : At(l, x)
        BY Zenon, <4>1, StoredMember DEF All, At
      <4>3. PICK f \in files[l] : x \in f.e
        BY Zenon, <4>2 DEF At
      <4>4. f \notin files'[l]
        BY Zenon, <4>1, <4>3, StoredMember
      <4>5. f \in ins
        <5>1. l = job.out => files[l] \ ins \subseteq files'[l]
          BY Zenon, <1>1
        <5>2. l # job.out => files[l] \ ins \subseteq files'[l]
          BY Zenon, <1>1
        <5> QED BY ZenonT(30), <4>3, <4>4, <5>1, <5>2
      <4>6. x \in Inputs
        BY Zenon, <4>3, <4>5 DEF Inputs
      <4>7. ASSUME x \in Kept(Inputs) PROVE FALSE
        <5>1. PICK g \in T : x \in g.e
          BY Zenon, <1>6k, <4>7
        <5>2. g \in files'[job.out]
          BY Zenon, <1>1
        <5> QED BY ZenonT(30), <1>4, <4>1, <5>1, <5>2, StoredMember
      <4> QED BY Zenon, <4>6, <4>7
    <3>5. ~Hidden(Inputs, x)
      <4> SUFFICES ASSUME NEW z \in Inputs, z.k = x.k, z.s > x.s, z.s <= job.small PROVE FALSE
        BY Zenon DEF Hidden
      <4>1. WrittenAs(z) /\ z.s \in Nat
        BY Zenon, <1>11, <1>14 DEF All
      <4>2. z.s \in 1..s /\ hist[z.s].k = k
        BY <2>3, <3>2, <4>1 DEF WrittenAs
      <4>3. z.s <= r
        BY Zenon, <4>2 DEF Last
      <4> QED BY <2>3, <3>1, <4>1, <4>3
    <3>6. Obsolete(x)
      BY Zenon, <3>4, <3>5 DEF Kept
    <3>7. y \in Stored(files')
      <4>1. x \in Stored(files)
        BY Zenon, <1>11, <3>4
      <4>2. y \notin mem /\ y \notin imm
        <5>1. y \in mem \cup imm => x.s < y.s
          BY Zenon, <4>1 DEF OrderInv, MemOrder
        <5>2. ~(x.s < y.s)
          BY <3>1, <3>3
        <5> QED BY Zenon, <5>1, <5>2
      <4> QED BY Zenon, <1>2, <4>2 DEF All
    <3>7a. PICK l \in Level : \E f \in files'[l] : y \in f.e
      BY Zenon, <3>7, StoredMember
    <3>8. PICK f \in files'[l] : y \in f.e
      BY Zenon, <3>7a
    <3>9. CASE f \in T
      <4>1. y \in Kept(Inputs)
        BY ZenonT(30), <1>6, <3>8, <3>9
      <4>2. x.s > y.s
        BY <3>1, <3>3
      <4>3. Hidden(Inputs, y)
        BY ZenonT(30), <2>3, <3>4, <3>6, <4>2 DEF Hidden, Obsolete
      <4> QED BY Zenon, <4>1, <4>3 DEF Kept
    <3>10. CASE f \in files[l] \ ins
      <4>0. At(l, y) /\ l \in Nat /\ job.level \in Nat
        BY ZenonT(30), <1>3, <1>4, <3>8, <3>10 DEF At
      <4>1. CASE l < job.level
        <5>1. At(job.level, x) \/ (job.out = job.level + 1 /\ At(job.out, x))
          BY ZenonT(30), <1>9, <3>4
        <5>2. l < job.level + 1 /\ y.k = x.k
          BY <2>3, <4>0, <4>1
        <5>3. \A j \in Level : l < j /\ At(j, x) => y.s > x.s
          BY ZenonT(30), <1>16, <2>1, <2>3, <4>0
        <5>4. y.s > x.s
          BY ZenonT(30), <1>4, <4>1, <5>1, <5>2, <5>3
        <5> QED BY <3>1, <3>3, <5>4
      <4>2. CASE l \in {job.level, job.level + 1}
        <5>1. rest[l] = files[l] \ ins
          BY Zenon
        <5> HIDE DEF rest
        <5>2. k \in Reborn(Inputs, rest)
          BY ZenonT(30), <2>1, <2>3, <3>3, <3>4, <3>6, <3>8, <3>10, <4>2, <5>1 DEF Reborn
        <5> QED BY ZenonT(30), <1>1, <5>2
      <4>3. CASE l >= job.level + 2
        <5>1. f \in job.deep
          BY ZenonT(30), <1>2, <3>10, <4>3 DEF OrderInv, JobIn
        <5>2. Covers(f, k)
          <6>1. f \in files[l] /\ y \in f.e
            BY Zenon, <3>8, <3>10
          <6>2. f.smallest.k <= y.k /\ y.k <= f.largest.k
            BY Zenon, <6>1 DEF TableInv, FilesOK
          <6> QED BY ZenonT(30), <2>3, <6>2 DEF Covers
        <5> QED BY ZenonT(30), <2>3, <3>6, <5>1, <5>2 DEF Obsolete, IsBaseLevelForKey
      <4> QED BY <4>0, <4>1, <4>2, <4>3
    <3> QED BY ZenonT(30), <1>5, <3>8, <3>9, <3>10
  <2>4. CASE \E x \in All : x.k = k /\ x.s = r
    BY Zenon, <2>3, <2>4
  <2> QED BY Zenon, <2>1, <2>2, <2>4 DEF OrderInv, MarkersKept
<1> QED BY ZenonT(30), <1>17, <1>18, <1>19, <1>20, <1>21 DEF OrderInv

LEMMA OrderStep == TreeInv /\ TableInv /\ OrderInv /\ [Next]_vars => OrderInv'
<1> SUFFICES ASSUME TreeInv, TableInv, OrderInv, [Next]_vars PROVE OrderInv'
  OBVIOUS
<1>1. ASSUME NEW k \in Keys, Put(k) \/ Delete(k) PROVE OrderInv'
  <2>1. UNCHANGED <<guards, spoilt>> /\ \E d \in BOOLEAN : Writes(k, d)
    BY Zenon, <1>1 DEF Put, Delete, Writes
  <2> QED BY Zenon, <2>1, OrderWrite
<1> QED BY ZenonT(30), <1>1, OrderMoves, OrderPick, OrderFlush, OrderInstall DEF Next

LEMMA OrderInvariant == Spec => [](TreeInv /\ TableInv /\ OrderInv)
BY TreeInit, TableInit, OrderInit, TreeStep, TableStep, OrderStep, PTL DEF Spec

-----------------------------------------------------------------------------
(* Lookups.                                                                *)

\* The versions of a key that a reader at s may see.
Seen(k, s) == Visible(All, k, s)

\* The newest of a set of versions.
IsNewest(V, m) == m \in V /\ \A y \in V : y.s <= m.s

LEMMA NewestOf ==
  ASSUME TreeInv, NEW V, V # {}, V \subseteq All
  PROVE  IsNewest(V, Newest(V))
<1> DEFINE S == {x.s : x \in V}
<1>1. \A x \in V : x.s \in Nat /\ x.s <= Len(hist) /\ Len(hist) \in Nat
  BY EntryFacts DEF TreeInv, Shape
<1>2. S # {} /\ S \subseteq Int /\ Len(hist) \in Int /\ \A y \in S : y <= Len(hist)
  BY <1>1
<1>3. PICK t \in S : \A y \in S : y <= t
  <2> HIDE DEF S
  <2> QED BY Zenon, <1>2, GreatestIn
<1>4. PICK x \in V : x.s = t
  BY Zenon
<1>5. \A y \in V : y.s <= x.s
  BY Zenon, <1>3, <1>4
<1> QED BY Zenon, <1>5 DEF Newest, IsNewest

\* The reference is what the newest version says.
LEMMA ReferenceIsNewest ==
  ASSUME TreeInv, OrderInv, NEW k \in Keys \ spoilt, NEW s \in {Len(hist), snap}
  PROVE  /\ Seen(k, s) = {} => Reference(k, s) = 0
         /\ \A m : IsNewest(Seen(k, s), m) => Reference(k, s) = Value(m)
<1> DEFINE w == {i \in 1..s : hist[i].k = k}
<1> DEFINE V == Seen(k, s)
<1>0. s \in Nat /\ s \in 0..Len(hist)
  BY DEF TreeInv, Shape
<1>1. \A x \in V : /\ x \in All /\ x.k = k /\ x.s <= s /\ x.s \in 1..s /\ hist[x.s].k = k
                   /\ x.d = hist[x.s].d /\ x.s \in Nat
  <2> SUFFICES ASSUME NEW x \in V
               PROVE  /\ x \in All /\ x.k = k /\ x.s <= s /\ x.s \in 1..s /\ hist[x.s].k = k
                      /\ x.d = hist[x.s].d /\ x.s \in Nat
    BY Zenon
  <2>1. x \in All /\ x.k = k /\ x.s <= s
    BY Zenon DEF Seen, Visible
  <2>2. WrittenAs(x)
    BY Zenon, <2>1 DEF TreeInv, Shape
  <2>3. x.s \in Nat /\ x.s # 0
    BY Zenon, <2>2, EntryFacts DEF TreeInv
  <2>4. x.s \in 1..s
    BY <1>0, <2>1, <2>3
  <2> QED BY Zenon, <2>1, <2>2, <2>3, <2>4 DEF WrittenAs
<1>2. CASE w = {}
  <2>1. Reference(k, s) = 0
    BY Zenon, <1>2 DEF Reference
  <2>2. V = {}
    BY Zenon, <1>1, <1>2
  <2> QED BY Zenon, <2>1, <2>2 DEF IsNewest
<1>3. CASE w # {}
  <2>1. PICK r \in 1..s : Last(k, s, r)
    BY Zenon, <1>0, <1>3 DEF TreeInv, HasLast
  <2>2. r \in w /\ w \subseteq Int /\ \A i \in w : i > 0 /\ i <= r
    BY <2>1 DEF Last
  <2>3. Max({0} \cup w) = r /\ Max(w) = r
    <3>1. r \in {0} \cup w /\ {0} \cup w \subseteq Int /\ \A y \in {0} \cup w : y <= r
      BY <2>2
    <3> HIDE DEF w
    <3> QED BY Zenon, <2>2, <3>1, MaxIs
  <2>4. Reference(k, s) = IF hist[r].d THEN 0 ELSE r
    BY Zenon, <1>3, <2>3 DEF Reference
  <2>5. \A x \in All : x.k = k /\ x.s = r => x \in V
    BY <1>0 DEF Seen, Visible
  <2>6. \A x \in V : x.s <= r
    BY Zenon, <1>1, <2>2
  <2>7. ASSUME NEW m, IsNewest(V, m), NEW x \in All, x.k = k, x.s = r
        PROVE  m.s = r /\ m.d = hist[r].d
    <3>1. m \in V /\ x \in V /\ x.s <= m.s /\ m.s <= r
      BY Zenon, <2>5, <2>6, <2>7 DEF IsNewest
    <3>2. m.s \in Nat
      BY Zenon, <1>1, <3>1
    <3>3. m.s = r
      BY <2>7, <3>1, <3>2
    <3> QED BY Zenon, <1>1, <3>1, <3>3
  <2>8. CASE ~hist[r].d
    <3>1. PICK x \in All : x.k = k /\ x.s = r
      <4>1. k \in Keys
        OBVIOUS
      <4>2. LastKept
        BY Zenon DEF TreeInv
      <4> QED BY <2>1, <2>8, <4>1, <4>2 DEF LastKept
    <3>2. V # {}
      BY Zenon, <2>5, <3>1
    <3>3. \A m : IsNewest(V, m) => m.s = r /\ m.d = hist[r].d
      BY Zenon, <2>7, <3>1
    <3>4. \A m : IsNewest(V, m) => Value(m) = r
      BY Zenon, <2>8, <3>3 DEF Value
    <3>5. Reference(k, s) = r
      BY Zenon, <2>4, <2>8
    <3> QED BY Zenon, <3>2, <3>4, <3>5
  <2>9. CASE hist[r].d
    <3>1. Reference(k, s) = 0
      BY Zenon, <2>4, <2>9
    <3>2. CASE \E x \in All : x.k = k /\ x.s = r
      <4>1. \A m : IsNewest(V, m) => m.d
        BY Zenon, <2>7, <2>9, <3>2
      <4> QED BY Zenon, <3>1, <4>1 DEF Value
    <3>3. CASE \A x \in All : x.k = k => x.s > s
      <4>1. V = {}
        <5>1. \A x \in V : x.s > s /\ x.s <= s /\ x.s \in Nat
          BY Zenon, <1>1, <3>3
        <5> QED BY <1>0, <5>1
      <4> QED BY Zenon, <3>1, <4>1 DEF IsNewest
    <3> QED BY Zenon, <2>1, <2>9, <3>2, <3>3 DEF OrderInv, MarkersKept
  <2> QED BY <2>8, <2>9
<1> QED BY <1>2, <1>3

\* A lookup ends at the newest version: the memtables hold the newest ones,
\* then every level is newer than the next, and in a level the table with the
\* highest number.
LEMMA GetIsNewest ==
  ASSUME TreeInv, TableInv, OrderInv, NEW k \in Keys \ spoilt, NEW s \in {Len(hist), snap}
  PROVE  \/ Seen(k, s) = {} /\ Get(k, s) = 0
         \/ \E m : IsNewest(Seen(k, s), m) /\ Get(k, s) = Value(m)
<1> DEFINE V == Seen(k, s)
<1> DEFINE hit == [l \in Level |-> Candidates(files[l], guards[l], k, s)]
<1> DEFINE lv == {l \in Level : hit[l] # {}}
<1>0. \A x \in All : x.s \in Nat
  BY EntryFacts DEF TreeInv, Shape
<1>1. \A x : x \in V <=> x \in All /\ x.k = k /\ x.s <= s
  BY Zenon DEF Seen, Visible
<1>2. \A E : \A x : x \in Visible(E, k, s) <=> x \in E /\ x.k = k /\ x.s <= s
  BY Zenon DEF Visible
<1>3. ASSUME NEW E, E \subseteq All, Visible(E, k, s) # {},
             \A y \in All \ E : \A x \in E : x.k = k /\ y.k = k /\ x.s <= s /\ y.s <= s => y.s <= x.s
      PROVE  IsNewest(V, Newest(Visible(E, k, s)))
  <2>1. Visible(E, k, s) \subseteq All
    BY Zenon, <1>2, <1>3
  <2>2. IsNewest(Visible(E, k, s), Newest(Visible(E, k, s)))
    BY Zenon, <1>3, <2>1, NewestOf
  <2> DEFINE m == Newest(Visible(E, k, s))
  <2>3. m \in E /\ m.k = k /\ m.s <= s /\ \A y \in Visible(E, k, s) : y.s <= m.s
    BY Zenon, <1>2, <2>2 DEF IsNewest
  <2> HIDE DEF m
  <2>4. m \in V
    BY Zenon, <1>1, <1>3, <2>3
  <2>5. ASSUME NEW y \in V PROVE y.s <= m.s
    <3>1. CASE y \in E
      BY Zenon, <1>1, <1>2, <2>3, <3>1
    <3>2. CASE y \notin E
      BY Zenon, <1>1, <1>3, <2>3, <3>2
    <3> QED BY <3>1, <3>2
  <2> QED BY Zenon, <2>4, <2>5 DEF IsNewest, m
<1>o. \A a, b \in All : a.s < b.s => a.s <= b.s /\ ~(b.s < a.s)
  BY <1>0
<1>4. CASE Visible(mem, k, s) # {}
  <2>1. Get(k, s) = Value(Newest(Visible(mem, k, s)))
    BY Zenon, <1>4 DEF Get
  <2>2. \A y \in All \ mem : \A x \in mem : y.s <= x.s
    BY Zenon, <1>o DEF OrderInv, MemOrder, All
  <2>3. mem \subseteq All
    BY Zenon DEF All
  <2>4. IsNewest(V, Newest(Visible(mem, k, s)))
    BY ZenonT(30), <1>3, <1>4, <2>2, <2>3
  <2> QED BY Zenon, <2>1, <2>4
<1>5. CASE Visible(mem, k, s) = {} /\ Visible(imm, k, s) # {}
  <2>1. Get(k, s) = Value(Newest(Visible(imm, k, s)))
    BY Zenon, <1>5 DEF Get
  <2>2. ASSUME NEW y \in All \ imm, NEW x \in imm, y.k = k, y.s <= s PROVE y.s <= x.s
    <3>1. y \notin mem
      BY Zenon, <1>2, <1>5, <2>2
    <3>2. y \in Stored(files) /\ x \in All
      BY Zenon, <3>1 DEF All
    <3> QED BY Zenon, <1>o, <3>2 DEF OrderInv, MemOrder
  <2>3. imm \subseteq All
    BY Zenon DEF All
  <2>4. IsNewest(V, Newest(Visible(imm, k, s)))
    BY Zenon, <1>3, <1>5, <2>2, <2>3
  <2> QED BY Zenon, <2>1, <2>4
<1>6. CASE Visible(mem, k, s) = {} /\ Visible(imm, k, s) = {}
  <2>1. \A x \in V : x \in Stored(files)
    BY Zenon, <1>1, <1>2, <1>6 DEF All
  <2>2. ASSUME NEW l \in Level, NEW f \in files[l], NEW x \in f.e, x.k = k, x.s <= s
        PROVE  f \in hit[l]
    <3>1. Covers(f, k)
      <4>1. f.smallest.k <= x.k /\ x.k <= f.largest.k
        BY Zenon DEF TableInv, FilesOK
      <4> QED BY Zenon, <2>2, <4>1 DEF Covers
    <3>2. Home(files[l], guards[l], f) = GuardOf(guards[l], k)
      <4>1. ~Astray(files[l], guards[l], k)
        BY Zenon DEF OrderInv, Straight, Spoils
      <4> QED BY Zenon, <2>2, <4>1 DEF Astray, Holds
    <3>3. Visible(f.e, k, s) # {}
      BY Zenon, <1>2, <2>2
    <3> QED BY Zenon, <3>1, <3>2, <3>3 DEF Candidates
  <2>3. \A l \in Level : \A f \in hit[l] : f \in files[l] /\ Visible(f.e, k, s) # {}
    BY Zenon DEF Candidates
  <2>4. ASSUME NEW y \in V PROVE \E j \in lv : \E h \in hit[j] : y \in h.e
    <3>1. PICK j \in Level : \E h \in files[j] : y \in h.e
      BY Zenon, <2>1, StoredMember
    <3>2. PICK h \in files[j] : y \in h.e
      BY Zenon, <3>1
    <3>3. h \in hit[j]
      BY Zenon, <1>1, <2>2, <3>2
    <3> QED BY Zenon, <3>2, <3>3
  <2>5. CASE lv = {}
    <3>1. Get(k, s) = 0
      BY Zenon, <1>6, <2>5 DEF Get
    <3> QED BY Zenon, <2>4, <2>5, <3>1
  <2>6. CASE lv # {}
    <3> DEFINE l == Min(lv)
    <3> DEFINE f == FirstHit(hit[l])
    <3> DEFINE m == Newest(Visible(f.e, k, s))
    <3>1. Get(k, s) = Value(m)
      BY Zenon, <1>6, <2>6 DEF Get
    <3>2. l \in lv /\ \A j \in lv : l <= j
      <4>1. lv \subseteq Nat
        BY DEF Level
      <4>2. \E i \in lv : \A j \in lv : i <= j
        <5> HIDE DEF lv
        <5> QED BY Zenon, <2>6, <4>1, LeastIn
      <4> HIDE DEF lv
      <4> QED BY Zenon, <4>2 DEF Min
    <3>3. l \in Level /\ hit[l] # {}
      BY Zenon, <3>2
    <3> HIDE DEF l
    <3>4. f \in hit[l] /\ \A h \in hit[l] : h.n <= f.n
      <4> DEFINE N == {h.n : h \in hit[l]}
      <4>1. \A h \in hit[l] : h.n \in Nat /\ h.n < nextFile
        BY Zenon, <2>3, <3>3 DEF TableInv, FilesOK
      <4>2. nextFile \in Int
        BY TreeAssumption DEF TableInv, Sizes
      <4>3. N # {} /\ N \subseteq Int /\ \A n \in N : n <= nextFile
        <5> HIDE DEF hit
        <5> QED BY <3>3, <4>1, <4>2
      <4>4. PICK n \in N : \A i \in N : i <= n
        <5> HIDE DEF N
        <5> QED BY Zenon, <4>2, <4>3, GreatestIn
      <4>5. \E h \in hit[l] : \A g \in hit[l] : g.n <= h.n
        <5> HIDE DEF hit
        <5> QED BY Zenon, <4>4
      <4> HIDE DEF hit
      <4> QED BY Zenon, <4>5 DEF FirstHit
    <3>5. f \in files[l] /\ Visible(f.e, k, s) # {} /\ f.e \subseteq All
      BY ZenonT(30), <2>3, <3>3, <3>4, StoredMember DEF All
    <3> HIDE DEF f
    <3>6. ASSUME NEW y \in All \ f.e, NEW x \in f.e, x.k = k, y.k = k, x.s <= s, y.s <= s
          PROVE  y.s <= x.s
      <4>0. x \in All /\ y \in V
        BY Zenon, <1>1, <3>5, <3>6
      <4>1. PICK j \in lv : \E h \in hit[j] : y \in h.e
        BY Zenon, <2>4, <4>0
      <4>2. PICK h \in hit[j] : y \in h.e
        BY Zenon, <4>1
      <4>3. j \in Level /\ h \in files[j] /\ l <= j
        BY Zenon, <2>3, <3>2, <4>1, <4>2
      <4>4. CASE l < j
        <5>1. x.s > y.s
          BY ZenonT(30), <3>3, <3>5, <3>6, <4>2, <4>3, <4>4 DEF OrderInv, LevelsOrdered
        <5> QED BY <1>0, <4>0, <5>1
      <4>5. CASE l = j
        <5>1. h.n <= f.n /\ h # f
          BY Zenon, <3>4, <3>6, <4>2, <4>5
        <5>2. h.n # f.n /\ h.n \in Nat /\ f.n \in Nat
          BY ZenonT(30), <3>3, <3>5, <4>3, <4>5, <5>1 DEF TableInv, FilesOK
        <5>3. h.n < f.n
          BY <5>1, <5>2
        <5>4. ~Inverted(files[l], k)
          BY Zenon, <3>3 DEF OrderInv, Straight, Spoils
        <5>5. ~(y.s > x.s)
          BY ZenonT(30), <3>5, <3>6, <4>2, <4>3, <4>5, <5>3, <5>4 DEF Inverted
        <5> QED BY <1>0, <4>0, <5>5
      <4>6. l \in Int /\ j \in Int
        BY <3>3, <4>3 DEF Level
      <4> QED BY <4>3, <4>4, <4>5, <4>6
    <3>7. IsNewest(V, m)
      BY ZenonT(30), <1>3, <3>5, <3>6
    <3> QED BY Zenon, <3>1, <3>7
  <2> HIDE DEF lv
  <2> QED BY Zenon, <2>5, <2>6
<1> QED BY Zenon, <1>4, <1>5, <1>6

-----------------------------------------------------------------------------
\* Types, for any number of levels, keys, guards, writes and tables.
THEOREM TypesCorrect == Spec => []TypeOK
BY OrderInvariant, TypesHold, PTL

\* Every version of a key in a level is newer than those in the levels below
\* it, unless one of the known causes has spoilt the key: Version::Get may stop
\* at the first level that has the key.
THEOREM LevelsInOrder == Spec => []LevelsOrdered
<1>1. OrderInv => LevelsOrdered
  BY DEF OrderInv
<1> QED BY <1>1, OrderInvariant, PTL

\* Get returns the newest value of a key, now and at the snapshot, unless one
\* of the known causes has spoilt the key (DBImpl::Get, Version::Get).
THEOREM LookupsNewest == Spec => []GetReturnsNewest
<1>1. TreeInv /\ TableInv /\ OrderInv => GetReturnsNewest
  <2> SUFFICES ASSUME TreeInv, TableInv, OrderInv,
                      NEW k \in Keys \ spoilt, NEW s \in {Len(hist), snap}
               PROVE  Get(k, s) = Reference(k, s)
    BY Zenon DEF GetReturnsNewest
  <2>1. /\ Seen(k, s) = {} => Reference(k, s) = 0
        /\ \A m : IsNewest(Seen(k, s), m) => Reference(k, s) = Value(m)
    BY Zenon, ReferenceIsNewest
  <2> QED BY Zenon, <2>1, GetIsNewest
<1> QED BY <1>1, OrderInvariant, PTL

-----------------------------------------------------------------------------
(* Where tables are listed.                                                *)

LEMMA PartsSame ==
  ASSUME NEW E, NEW gs, NEW p \in Parts(E, gs)
  PROVE  /\ \A x \in p : x \in E
         /\ \A x, y \in p : GuardOf(gs, x.k) = GuardOf(gs, y.k)
BY Zenon DEF Parts

LEMMA PartsApart ==
  \A E, gs : \A p, q \in Parts(E, gs) : \A x \in p, y \in q : x.k = y.k => p = q
BY ZenonT(30) DEF Parts

\* A table between two guards.
Between(f, gs) == ~\E g \in GuardsIn(gs) : f.smallest.k < g /\ g <= f.largest.k

LEMMA AcrossBetween == \A fs, gs : Across(fs, gs) = {} <=> \A f \in fs : Between(f, gs)
BY Zenon DEF Across, Between

LEMMA PartBetween ==
  ASSUME NEW E, NEW gs, NEW p \in Parts(E, gs), NEW f, f.smallest \in p, f.largest \in p,
         f.smallest.k \in Nat, f.largest.k \in Nat
  PROVE  Between(f, gs)
<1> SUFFICES ASSUME NEW g \in GuardsIn(gs), f.smallest.k < g, g <= f.largest.k PROVE FALSE
  BY Zenon DEF Between
<1>1. GuardOf(gs, f.smallest.k) = GuardOf(gs, f.largest.k)
  <2>1. \A x, y \in p : GuardOf(gs, x.k) = GuardOf(gs, y.k)
    BY ZenonT(30), PartsSame
  <2> QED BY Zenon, <2>1
<1>2. g <= GuardOf(gs, f.largest.k)
  BY Zenon, GuardOfIs
<1>3. GuardOf(gs, f.smallest.k) \in Int /\ GuardOf(gs, f.smallest.k) <= f.smallest.k
  BY Zenon, GuardOfIs
<1>4. g \in Int
  BY TreeAssumption DEF GuardsIn
<1> QED BY <1>1, <1>2, <1>3, <1>4

\* The guard of a table is at or before its largest key.
LEMMA OwnIs ==
  ASSUME NEW gs, NEW f, f.largest.k \in Nat
  PROVE  /\ Own(gs, f) \in Int /\ Own(gs, f) <= f.largest.k
         /\ Own(gs, f) = Sentinel \/ Own(gs, f) \in GuardsIn(gs)
         /\ Sentinel <= Own(gs, f)
         /\ \A g \in GuardsIn(gs) : g < f.largest.k => g <= Own(gs, f)
<1> DEFINE S == {Sentinel} \cup {g \in GuardsIn(gs) : ~Before(f.largest, [k |-> g, s |-> gs[g]])}
<1>1. \A g \in GuardsIn(gs) : g \in Int
  BY TreeAssumption DEF GuardsIn
<1>2. \A g \in GuardsIn(gs) : f.largest.k < g => Before(f.largest, [k |-> g, s |-> gs[g]])
  BY DEF Before
<1>3. \A g \in GuardsIn(gs) : g < f.largest.k => ~Before(f.largest, [k |-> g, s |-> gs[g]])
  BY <1>1 DEF Before
<1>4. Sentinel \in Int /\ Sentinel <= f.largest.k
  BY DEF Sentinel
<1>5. \A y \in S : y \in Int /\ y <= f.largest.k
  <2>1. \A g \in GuardsIn(gs) : ~(f.largest.k < g) => g <= f.largest.k
    BY <1>1
  <2> QED BY ZenonT(30), <1>1, <1>2, <1>4, <2>1
<1>6. Sentinel \in S /\ S # {} /\ S \subseteq Int
  BY Zenon, <1>5
<1>7. \A g \in GuardsIn(gs) : g < f.largest.k => g \in S
  BY Zenon, <1>3
<1>8. \A y \in S : y = Sentinel \/ y \in GuardsIn(gs)
  BY Zenon
<1>9. Own(gs, f) = Max(S)
  BY Zenon DEF Own
<1> HIDE DEF S
<1>i. f.largest.k \in Int
  OBVIOUS
<1>10. Max(S) \in S /\ \A y \in S : y <= Max(S)
  BY ZenonT(30), <1>i, <1>5, <1>6, MaxOf
<1> QED BY ZenonT(30), <1>5, <1>6, <1>7, <1>8, <1>9, <1>10

\* Tables with bounds, as in a level.
Bounds(fs) ==
  \A f \in fs : /\ f.n \in Nat /\ f.smallest.k \in Nat /\ f.largest.k \in Nat
                /\ \A x \in f.e : f.smallest.k <= x.k /\ x.k <= f.largest.k

\* When no table lies across a guard, the tables of a key that is no guard are
\* listed under the key's guard.
LEMMA HomeIs ==
  ASSUME NEW fs, Bounds(fs), NEW gs, \A f \in fs : Between(f, gs),
         NEW k \in Keys, k \notin GuardsIn(gs)
  PROVE  ~Astray(fs, gs, k)
<1> SUFFICES ASSUME NEW f \in fs, NEW x \in f.e, x.k = k
             PROVE  Home(fs, gs, f) = GuardOf(gs, k)
  BY Zenon DEF Astray, Holds
<1>k. k \in Nat
  BY TreeAssumption
<1>1. \A g \in GuardsIn(gs) : g \in Int
  BY TreeAssumption DEF GuardsIn
<1>2. f.smallest.k \in Nat /\ f.largest.k \in Nat /\ f.smallest.k <= k /\ k <= f.largest.k
  BY Zenon DEF Bounds
<1>3. GuardOf(gs, k) \in Int /\ GuardOf(gs, k) <= k /\ Sentinel <= GuardOf(gs, k)
  BY <1>k, GuardOfIs DEF Sentinel
<1>4. ASSUME NEW h \in fs, ListedBefore(h, f) PROVE Own(gs, h) \in Int /\ Own(gs, h) <= GuardOf(gs, k)
  <2>1. h.smallest.k \in Nat /\ h.largest.k \in Nat
    BY Zenon DEF Bounds
  <2>2. h.smallest.k <= f.smallest.k
    BY <1>2, <1>4, <2>1 DEF ListedBefore, Before
  <2>3. /\ Own(gs, h) \in Int /\ Own(gs, h) <= h.largest.k
        /\ Own(gs, h) = Sentinel \/ Own(gs, h) \in GuardsIn(gs)
    BY Zenon, <2>1, OwnIs
  <2>4. CASE Own(gs, h) = Sentinel
    BY <1>3, <2>3, <2>4
  <2>5. CASE Own(gs, h) \in GuardsIn(gs)
    <3>1. ~(h.smallest.k < Own(gs, h))
      BY Zenon, <2>3, <2>5 DEF Between
    <3>2. Own(gs, h) <= k
      BY <1>2, <1>k, <2>1, <2>2, <2>3, <3>1
    <3> QED BY Zenon, <1>k, <2>3, <2>5, <3>2, GuardOfIs
  <2> QED BY Zenon, <2>3, <2>4, <2>5
<1>5. ListedBefore(f, f)
  <2>1. f.n \in Nat
    BY Zenon DEF Bounds
  <2>2. f.n <= f.n
    BY <2>1
  <2> QED BY Zenon, <2>2 DEF ListedBefore
<1>6. Own(gs, f) = GuardOf(gs, k)
  <2>1. Own(gs, f) \in Int /\ Own(gs, f) <= GuardOf(gs, k)
    BY Zenon, <1>4, <1>5
  <2>2. CASE GuardOf(gs, k) = Sentinel
    <3>1. Sentinel <= Own(gs, f)
      BY Zenon, <1>2, OwnIs
    <3> QED BY <1>3, <2>1, <2>2, <3>1
  <2>3. CASE GuardOf(gs, k) \in GuardsIn(gs)
    <3>1. GuardOf(gs, k) # k
      BY Zenon, <2>3
    <3>2. GuardOf(gs, k) < f.largest.k
      BY <1>2, <1>3, <1>k, <3>1
    <3>3. GuardOf(gs, k) <= Own(gs, f)
      BY Zenon, <1>2, <2>3, <3>2, OwnIs
    <3> QED BY <1>3, <2>1, <3>3
  <2> QED BY Zenon, <1>k, <2>2, <2>3, GuardOfIs
<1> DEFINE S == {Own(gs, h) : h \in {y \in fs : ListedBefore(y, f)}}
<1>7. /\ Own(gs, f) \in S /\ S \subseteq Int /\ \A y \in S : y <= Own(gs, f)
  BY Zenon, <1>4, <1>5, <1>6
<1>8. Home(fs, gs, f) = Max(S)
  BY Zenon DEF Home
<1> HIDE DEF S
<1> QED BY ZenonT(30), <1>6, <1>7, <1>8, MaxIs

-----------------------------------------------------------------------------
(* Guards of a compaction.                                                 *)

LEMMA GuardsMerge ==
  /\ GuardsIn(NoGuards) = {}
  /\ \A a, b : GuardsIn(Merge(a, b)) = GuardsIn(a) \cup GuardsIn(b)
  /\ \A a \in GuardSet : Merge(a, NoGuards) = a
<1>1. GuardsIn(NoGuards) = {}
  BY DEF GuardsIn, NoGuards
<1>2. ASSUME NEW a, NEW b PROVE GuardsIn(Merge(a, b)) = GuardsIn(a) \cup GuardsIn(b)
  BY DEF GuardsIn, Merge
<1>3. ASSUME NEW a \in GuardSet PROVE Merge(a, NoGuards) = a
  BY DEF GuardSet, Merge, NoGuards
<1> QED BY Zenon, <1>1, <1>2, <1>3

LEMMA BetweenFewer ==
  \A f, a, b : Between(f, a) /\ GuardsIn(b) \subseteq GuardsIn(a) => Between(f, b)
BY Zenon DEF Between

\* The guards of a level are complete guards, and those are guard keys.
GuardInv ==
  /\ \A l \in Level : GuardsIn(guards[l]) \subseteq GuardsIn(complete[l])
  /\ \A l \in Level : GuardsIn(complete[l]) \subseteq DOMAIN GuardFrom
  /\ job.on => \A l \in Level : GuardsIn(job.load[l]) \subseteq GuardsIn(complete[l])

\* A compaction that is not manual divides its results by the guards that its
\* installation loads.
JobGuards ==
  job.on =>
    /\ \A l \in Level : l \notin {job.level, job.out} => job.load[l] = NoGuards
    /\ job.manual => job.out # job.level
    /\ ~job.manual =>
         /\ job.split = job.load[job.out]
         /\ \A l \in {job.level, job.out} : GuardsIn(guards[l]) \subseteq GuardsIn(job.load[l])

\* What a compaction into the next level leaves lies between those guards, and
\* of a key it takes all tables of the next level or none.
Fitting ==
  job.on /\ ~job.manual /\ job.out # job.level =>
    /\ \A l \in {job.level, job.out} : l # 0 =>
         \A f \in files[l] \ (job.in0 \cup job.in1) : Between(f, job.load[l])
    /\ \A k \in Keys \ spoilt : \A f \in job.in1, h \in files[job.out] \ job.in1 :
         ~(Holds(f, k) /\ Holds(h, k))

FitInv == GuardInv /\ JobGuards /\ Fitting

LEMMA FitInit == Init => FitInv
<1> SUFFICES ASSUME Init PROVE FitInv
  OBVIOUS
<1>1. \A l \in Level : guards[l] = NoGuards /\ complete[l] = NoGuards
  BY Zenon DEF Init
<1>2. ~job.on
  BY DEF Init, NoJob
<1>3. GuardInv
  BY Zenon, <1>1, <1>2, GuardsMerge DEF GuardInv
<1> QED BY Zenon, <1>2, <1>3 DEF FitInv, JobGuards, Fitting

\* The tables of a level have bounds.
LEMMA LevelBounds ==
  ASSUME TreeInv, TableInv, NEW l \in Level
  PROVE  Bounds(files[l]) /\ \E B \in Nat : \A f \in files[l] : f.largest.k <= B
<1>1. PICK B \in Nat : \A i \in 1..Len(hist) : hist[i].k <= B
  BY Zenon DEF TableInv, Bounded
<1>2. ASSUME NEW f \in files[l]
      PROVE  /\ f.n \in Nat /\ f.smallest.k \in Nat /\ f.largest.k \in Nat
             /\ \A x \in f.e : f.smallest.k <= x.k /\ x.k <= f.largest.k
             /\ f.largest.k <= B
  <2>1. /\ f.n \in Nat /\ f.smallest \in f.e /\ f.largest \in f.e
        /\ \A x \in f.e : f.smallest.k <= x.k /\ x.k <= f.largest.k
    BY Zenon DEF TableInv, FilesOK
  <2>2. \A x \in f.e : WrittenAs(x)
    BY Zenon, StoredMember DEF TreeInv, Shape, All
  <2>3. f.smallest.k \in Nat /\ f.largest.k \in Nat
    BY Zenon, <2>1, <2>2, EntryFacts DEF TreeInv
  <2>4. f.largest.k <= B
    BY Zenon, <1>1, <2>1, <2>2 DEF WrittenAs
  <2> QED BY Zenon, <2>1, <2>3, <2>4
<1> QED BY Zenon, <1>2 DEF Bounds

\* A table is listed in the sentinel or under a guard of its level.
LEMMA HomeIn ==
  ASSUME NEW fs, Bounds(fs), NEW gs, NEW f \in fs, NEW B \in Nat,
         \A h \in fs : h.largest.k <= B
  PROVE  Home(fs, gs, f) = Sentinel \/ Home(fs, gs, f) \in GuardsIn(gs)
<1> DEFINE S == {Own(gs, h) : h \in {y \in fs : ListedBefore(y, f)}}
<1>1. ASSUME NEW h \in fs
      PROVE  /\ Own(gs, h) \in Int /\ Own(gs, h) <= B
             /\ Own(gs, h) = Sentinel \/ Own(gs, h) \in GuardsIn(gs)
  <2>1. h.largest.k \in Nat /\ h.largest.k <= B
    BY Zenon DEF Bounds
  <2>2. /\ Own(gs, h) \in Int /\ Own(gs, h) <= h.largest.k
        /\ Own(gs, h) = Sentinel \/ Own(gs, h) \in GuardsIn(gs)
    BY Zenon, <2>1, OwnIs
  <2>3. Own(gs, h) <= B
    BY <2>1, <2>2
  <2> QED BY Zenon, <2>2, <2>3
<1>2. ListedBefore(f, f)
  <2>1. f.n \in Nat
    BY Zenon DEF Bounds
  <2>2. f.n <= f.n
    BY <2>1
  <2> QED BY Zenon, <2>2 DEF ListedBefore
<1>3. S # {} /\ S \subseteq Int /\ \A y \in S : y <= B
  BY Zenon, <1>1, <1>2
<1>4. \A y \in S : y = Sentinel \/ y \in GuardsIn(gs)
  BY Zenon, <1>1
<1>5. Home(fs, gs, f) = Max(S)
  BY Zenon DEF Home
<1>6. B \in Int
  OBVIOUS
<1> HIDE DEF S
<1>7. Max(S) \in S
  BY Zenon, <1>3, <1>6, MaxOf
<1> QED BY Zenon, <1>4, <1>5, <1>7

\* A table of no misfit group lies between the complete guards of its level.
LEMMA FitsBetween ==
  ASSUME TreeInv, TableInv, NEW l \in Level, NEW f \in files[l],
         f \notin UNION {Group(l, g) : g \in MisfitGroups(l)}
  PROVE  Between(f, complete[l])
<1> DEFINE g == Home(files[l], guards[l], f)
<1>1. Bounds(files[l]) /\ \E B \in Nat : \A h \in files[l] : h.largest.k <= B
  BY Zenon, LevelBounds
<1>2. g = Sentinel \/ g \in GuardsIn(guards[l])
  BY Zenon, <1>1, HomeIn
<1>3. f \in Group(l, g)
  BY Zenon DEF Group, Listed
<1>4. g \in Groups(l)
  BY Zenon, <1>2 DEF Groups
<1>5. g \notin MisfitGroups(l)
  BY Zenon, <1>3
<1>6. ~Misfit(f, complete[l], g)
  BY Zenon, <1>3, <1>4, <1>5 DEF MisfitGroups
<1>7. g \in Int /\ f.smallest.k \in Nat /\ f.largest.k \in Nat
  <2>1. \A gs : \A v \in GuardsIn(gs) : v \in Int
    BY TreeAssumption DEF GuardsIn
  <2>2. Sentinel \in Int
    BY DEF Sentinel
  <2> QED BY ZenonT(30), <1>1, <1>2, <2>1, <2>2 DEF Bounds
<1> HIDE DEF g
<1> SUFFICES ASSUME NEW h \in GuardsIn(complete[l]), f.smallest.k < h, h <= f.largest.k PROVE FALSE
  BY Zenon DEF Between
<1>8. h \in Int
  BY TreeAssumption DEF GuardsIn
<1>9. ~(f.smallest.k < g) /\ ~(h > g /\ f.largest.k >= h)
  BY Zenon, <1>6 DEF Misfit
<1> QED BY <1>7, <1>8, <1>9

\* Guards are only added: a put makes complete guards of a guard key.
LEMMA CompleteGrows ==
  ASSUME TableInv, [Next]_vars, NEW l \in Level
  PROVE  /\ GuardsIn(complete[l]) \subseteq GuardsIn(complete'[l])
         /\ GuardsIn(complete'[l]) \subseteq GuardsIn(complete[l]) \cup DOMAIN GuardFrom
<1>1. CASE UNCHANGED complete
  BY Zenon, <1>1
<1>2. ASSUME NEW k \in Keys, Put(k)
      PROVE  /\ GuardsIn(complete[l]) \subseteq GuardsIn(complete'[l])
             /\ GuardsIn(complete'[l]) \subseteq GuardsIn(complete[l]) \cup DOMAIN GuardFrom
  <2>1. complete[l] \in GuardSet
    BY Zenon DEF TableInv, Sizes
  <2>2. CASE complete'[l] = complete[l]
    BY Zenon, <2>2
  <2>3. CASE /\ complete'[l] = [complete[l] EXCEPT ![k] = Len(hist) + 1]
             /\ k \in DOMAIN GuardFrom /\ complete[l][k] = 0
    BY <2>1, <2>3 DEF GuardSet, GuardsIn
  <2> QED BY Zenon, <1>2, <2>2, <2>3 DEF Put
<1>3. UNCHANGED complete \/ \E k \in Keys : Put(k)
  BY Zenon DEF Next, Delete, TakeSnapshot, ReleaseSnapshot, FlushStart, FlushInstall,
           PickVertical, PickHorizontal, PickManual, Install, vars
<1> QED BY Zenon, <1>1, <1>2, <1>3

\* A step that leaves the compaction alone.
LEMMA FitStill ==
  ASSUME TableInv, FitInv, [Next]_vars, UNCHANGED <<guards, job>>, spoilt \subseteq spoilt',
         \A l \in Level : l # 0 => files'[l] = files[l], JobIn
  PROVE  FitInv'
<1>1. GuardInv'
  <2>1. \A l \in Level : GuardsIn(complete[l]) \subseteq GuardsIn(complete'[l])
    BY Zenon, CompleteGrows
  <2>2. \A l \in Level : GuardsIn(complete'[l]) \subseteq DOMAIN GuardFrom
    BY Zenon, CompleteGrows DEF FitInv, GuardInv
  <2> QED BY Zenon, <2>1, <2>2 DEF FitInv, GuardInv
<1>2. JobGuards'
  BY Zenon DEF FitInv, JobGuards
<1>3. Fitting'
  <2> SUFFICES ASSUME job.on, ~job.manual, job.out # job.level PROVE Fitting'
    BY Zenon DEF Fitting
  <2>0. job.level \in Level /\ job.out \in Level /\ job.out = job.level + 1
    BY Zenon DEF JobIn
  <2>1. job.out # 0
    BY <2>0 DEF Level
  <2>2. \A l \in {job.level, job.out} : l # 0 => files'[l] = files[l]
    BY Zenon, <2>0
  <2>3. files'[job.out] = files[job.out]
    BY Zenon, <2>0, <2>1
  <2> QED BY Zenon, <2>2, <2>3 DEF FitInv, Fitting
<1> QED BY Zenon, <1>1, <1>2, <1>3 DEF FitInv

LEMMA FitPick ==
  ASSUME TreeInv, TableInv, OrderInv, FitInv, NEW l \in Level,
         PickVertical(l) \/ PickHorizontal(l) \/ PickManual(l)
  PROVE  FitInv'
<1>1. UNCHANGED <<files, guards, complete, spoilt>>
  BY Zenon DEF PickVertical, PickHorizontal, PickManual
<1>l. l \in Int /\ l # l + 1 /\ l + 1 # 0
  BY DEF Level
<1>2. \A j \in Level : \/ job'.load[j] = complete[j]
                       \/ job'.load[j] = NoGuards
  <2>1. CASE PickVertical(l)
    BY Zenon, <2>1, VerticalJob
  <2>2. CASE PickHorizontal(l)
    <3>1. job'.load = [j \in Level |-> IF j = l THEN complete[j] ELSE NoGuards]
      BY Zenon, <2>2, HorizontalJob
    <3> QED BY <3>1
  <2>3. CASE PickManual(l)
    BY Zenon, <2>3, ManualJob
  <2> QED BY Zenon, <2>1, <2>2, <2>3
<1>3. GuardInv'
  BY Zenon, <1>1, <1>2, GuardsMerge DEF FitInv, GuardInv
<1>4. \A j \in Level : GuardsIn(guards[j]) \subseteq GuardsIn(complete[j])
  BY Zenon DEF FitInv, GuardInv
<1>5. CASE PickVertical(l)
  <2>0. /\ job'.on = TRUE /\ job'.level = l /\ job'.out = l + 1 /\ job'.manual = FALSE
        /\ job'.in1 = UNION {Group(l + 1, g) : g \in MisfitGroups(l + 1)}
        /\ job'.split = complete[l + 1]
        /\ job'.load = [j \in Level |-> IF j \in {l, l + 1} THEN complete[j] ELSE NoGuards]
    BY Zenon, <1>5, VerticalJob
  <2>1. l + 1 \in Level
    <3>1. l < LastLevel
      BY Zenon, <1>5, VerticalJob
    <3> QED BY <3>1, TreeAssumption DEF Level
  <2>2. \A j \in {l, l + 1} : j \in Level /\ job'.load[j] = complete[j]
    BY ZenonT(30), <2>0, <2>1
  <2>3. \A j \in Level : j \notin {l, l + 1} => job'.load[j] = NoGuards
    BY ZenonT(30), <2>0
  <2>4. JobGuards'
    <3>1. job'.split = job'.load[job'.out]
      BY Zenon, <2>0, <2>2
    <3>2. \A j \in {job'.level, job'.out} : GuardsIn(guards[j]) \subseteq GuardsIn(job'.load[j])
      <4>1. \A j \in {l, l + 1} : GuardsIn(guards[j]) \subseteq GuardsIn(complete[j])
        BY Zenon, <1>4, <2>2
      <4>2. \A j \in {l, l + 1} : GuardsIn(guards[j]) \subseteq GuardsIn(job'.load[j])
        BY <2>2, <4>1
      <4> QED BY Zenon, <2>0, <4>2
    <3>3. /\ \A j \in Level : j \notin {job'.level, job'.out} => job'.load[j] = NoGuards
          /\ ~job'.manual
      BY Zenon, <2>0, <2>3
    <3> QED BY Zenon, <1>1, <3>1, <3>2, <3>3 DEF JobGuards
  <2>5. ASSUME NEW f \in files[l], f \notin job'.in0 PROVE Between(f, complete[l])
    <3>1. PICK G : job'.in0 = UNION {Group(l, g) : g \in G \cup MisfitGroups(l)}
      BY Zenon, <1>5, VerticalJob
    <3>2. f \notin UNION {Group(l, g) : g \in MisfitGroups(l)}
      BY Zenon, <2>5, <3>1
    <3> QED BY Zenon, <3>2, FitsBetween
  <2>6. ASSUME NEW f \in files[l + 1], f \notin job'.in1 PROVE Between(f, complete[l + 1])
    BY Zenon, <2>0, <2>1, <2>6, FitsBetween
  <2>7. \A j \in {l, l + 1} : \A f \in files[j] \ (job'.in0 \cup job'.in1) : Between(f, job'.load[j])
    BY Zenon, <2>2, <2>5, <2>6
  <2>8. ASSUME NEW k \in Keys \ spoilt, NEW f \in job'.in1, NEW h \in files[l + 1] \ job'.in1
        PROVE  ~(Holds(f, k) /\ Holds(h, k))
    BY Zenon, <2>0, <2>1, GroupsWhole
  <2>9. Fitting'
    BY ZenonT(30), <1>1, <2>0, <2>7, <2>8 DEF Fitting
  <2> QED BY Zenon, <1>3, <2>4, <2>9 DEF FitInv
<1>6. CASE PickHorizontal(l)
  <2>0. /\ job'.on = TRUE /\ job'.level = l /\ job'.out = l /\ job'.manual = FALSE
        /\ job'.split = complete[l]
        /\ job'.load = [j \in Level |-> IF j = l THEN complete[j] ELSE NoGuards]
    BY Zenon, <1>6, HorizontalJob
  <2>1. job'.load[l] = complete[l] /\ \A j \in Level : j # l => job'.load[j] = NoGuards
    BY Zenon, <2>0
  <2>2. JobGuards' /\ Fitting'
    BY ZenonT(30), <1>1, <1>4, <2>0, <2>1 DEF JobGuards, Fitting
  <2> QED BY Zenon, <1>3, <2>2 DEF FitInv
<1>7. CASE PickManual(l)
  <2>0. /\ job'.on = TRUE /\ job'.level = l /\ job'.out = l + 1 /\ job'.manual = TRUE
        /\ job'.load = [j \in Level |-> NoGuards]
    BY Zenon, <1>7, ManualJob
  <2>1. JobGuards' /\ Fitting'
    BY Zenon, <1>l, <2>0 DEF JobGuards, Fitting
  <2> QED BY Zenon, <1>3, <2>1 DEF FitInv
<1> QED BY Zenon, <1>5, <1>6, <1>7

LEMMA FitStep == TreeInv /\ TableInv /\ OrderInv /\ FitInv /\ [Next]_vars => FitInv'
<1> SUFFICES ASSUME TreeInv, TableInv, OrderInv, FitInv, [Next]_vars PROVE FitInv'
  OBVIOUS
<1>0. nextFile \in Nat /\ Bounded
  BY TreeAssumption DEF TableInv, Sizes
<1>j. JobIn
  BY Zenon DEF OrderInv
<1>1. CASE (\E k \in Keys : Put(k) \/ Delete(k)) \/ TakeSnapshot \/ ReleaseSnapshot
           \/ FlushStart \/ UNCHANGED vars
  <2>1. UNCHANGED <<guards, job, spoilt, files>>
    BY Zenon, <1>1 DEF Put, Delete, TakeSnapshot, ReleaseSnapshot, FlushStart, vars
  <2> QED BY Zenon, <1>j, <2>1, FitStill
<1>2. CASE FlushInstall
  <2>1. UNCHANGED <<guards, job>>
    BY Zenon, <1>2 DEF FlushInstall
  <2>2. spoilt \subseteq spoilt' /\ \A l \in Level : l # 0 => files'[l] = files[l]
    BY Zenon, <1>0, <1>2, FlushTables
  <2> QED BY ZenonT(30), <1>j, <2>1, <2>2, FitStill
<1>3. ASSUME NEW l \in Level, PickVertical(l) \/ PickHorizontal(l) \/ PickManual(l) PROVE FitInv'
  BY Zenon, <1>3, FitPick
<1>4. CASE Install
  <2>1. UNCHANGED complete /\ job.on /\ job' = NoJob
        /\ guards' = [l \in Level |-> Merge(guards[l], job.load[l])]
    BY ZenonT(30), <1>4 DEF Install
  <2>2. ~job'.on
    BY <2>1 DEF NoJob
  <2>3. \A l \in Level : GuardsIn(guards'[l]) = GuardsIn(guards[l]) \cup GuardsIn(job.load[l])
    BY Zenon, <2>1, GuardsMerge
  <2>4. GuardInv'
    BY Zenon, <2>1, <2>2, <2>3 DEF FitInv, GuardInv
  <2> QED BY Zenon, <2>2, <2>4 DEF FitInv, JobGuards, Fitting
<1> QED BY Zenon, <1>1, <1>2, <1>3, <1>4 DEF Next

-----------------------------------------------------------------------------
(* What spoils a lookup.                                                   *)

\* What a table of a new version owes to the entries it holds.
LEMMA SoundTables ==
  ASSUME Shape, NEW fs,
         \A f \in fs : /\ f.n \in Nat /\ f.smallest \in f.e /\ f.largest \in f.e
                       /\ \A x \in f.e : f.smallest.k <= x.k /\ x.k <= f.largest.k,
         \A f \in fs : \A x \in f.e : WrittenAs(x)
  PROVE  Bounds(fs)
BY Zenon, EntryFacts DEF Bounds

\* A flush spoils a key only if it is a guard or a table lies across a guard,
\* and puts a table across a guard only if it was divided by other guards.
LEMMA FlushSpoils ==
  ASSUME TreeInv, TableInv, OrderInv, FitInv, FlushInstall
  PROVE  /\ \A k \in spoilt' \ spoilt : k \notin DOMAIN GuardFrom =>
              Across(files'[0], guards'[0]) # {} /\ \E f \in files'[0] : Holds(f, k)
         /\ Across(files[0], guards[0]) = {} /\ cut = guards[0] =>
              Across(files'[0], guards'[0]) = {}
<1>0. nextFile \in Nat /\ Bounded /\ Shape
  BY TreeAssumption DEF TableInv, Sizes, TreeInv
<1>1. PICK T : \E n \in Nat :
        /\ EntriesOf(T) = imm /\ Fresh(T, nextFile, n) /\ \A t \in T : t.e \in Parts(imm, cut)
        /\ files'[0] = files[0] \cup T
        /\ spoilt' = spoilt \cup Spoils(files'[0], guards[0])
  BY Zenon, <1>0, FlushTables
<1>2. PICK n \in Nat : Fresh(T, nextFile, n)
  BY Zenon, <1>1
<1>3. guards' = guards /\ 0 \in Level
  <2>1. guards' = guards
    BY Zenon DEF FlushInstall
  <2> QED BY <2>1, TreeAssumption DEF Level
<1>4. \A f \in T : \A x \in f.e : x \in imm /\ WrittenAs(x)
  <2>1. \A f \in T : \A x \in f.e : x \in imm
    BY Zenon, <1>1 DEF EntriesOf
  <2> QED BY Zenon, <1>0, <2>1 DEF Shape, All
<1>5. \A f \in files[0] : \A x \in f.e : x \in Stored(files) /\ WrittenAs(x)
  <2>1. \A f \in files[0] : \A x \in f.e : x \in Stored(files)
    BY Zenon, <1>3, StoredMember
  <2> QED BY Zenon, <1>0, <2>1 DEF Shape, All
<1>6. \A f \in files[0] : /\ f.n \in Nat /\ f.n < nextFile /\ f.smallest \in f.e /\ f.largest \in f.e
                          /\ \A x \in f.e : f.smallest.k <= x.k /\ x.k <= f.largest.k
  BY Zenon, <1>3 DEF TableInv, FilesOK
<1>7. \A f \in T : /\ f.n \in Nat /\ nextFile <= f.n /\ f.smallest \in f.e /\ f.largest \in f.e
                   /\ \A x \in f.e : f.smallest.k <= x.k /\ x.k <= f.largest.k
  BY Zenon, <1>2 DEF Fresh
<1>8. Bounds(files'[0])
  <2>1. \A f \in files'[0] : /\ f.n \in Nat /\ f.smallest \in f.e /\ f.largest \in f.e
                             /\ \A x \in f.e : f.smallest.k <= x.k /\ x.k <= f.largest.k
    BY Zenon, <1>1, <1>6, <1>7
  <2>2. \A f \in files'[0] : \A x \in f.e : WrittenAs(x)
    BY Zenon, <1>1, <1>4, <1>5
  <2> QED BY ZenonT(30), <1>0, <2>1, <2>2, SoundTables
<1>9. ASSUME NEW k \in Keys \ spoilt PROVE ~Inverted(files'[0], k)
  <2> SUFFICES ASSUME NEW f \in files'[0], NEW h \in files'[0], NEW x \in f.e, NEW y \in h.e,
                      x.k = k, y.k = k, x.s > y.s, f.n < h.n
               PROVE  FALSE
    BY Zenon DEF Inverted
  <2>0. f.n \in Nat /\ h.n \in Nat
    BY Zenon, <1>8 DEF Bounds
  <2>1. WrittenAs(x) /\ WrittenAs(y)
    BY ZenonT(30), <1>1, <1>4, <1>5
  <2>2. x.s \in Nat /\ y.s \in Nat
    BY Zenon, <1>0, <2>1, EntryFacts
  <2>3. CASE f \in files[0] /\ h \in files[0]
    <3>1. k \notin Spoils(files[0], guards[0])
      BY Zenon, <1>3 DEF OrderInv, Straight
    <3> QED BY Zenon, <2>3, <3>1 DEF Spoils, Inverted
  <2>4. CASE f \in files[0] /\ h \in T
    <3>1. x.s < y.s
      BY ZenonT(30), <1>4, <1>5, <2>4 DEF OrderInv, MemOrder
    <3> QED BY <2>2, <3>1
  <2>5. CASE f \in T /\ h \in files[0]
    <3>1. h.n < nextFile /\ nextFile <= f.n
      BY ZenonT(30), <1>6, <1>7, <2>5
    <3> QED BY <1>0, <2>0, <3>1
  <2>6. CASE f \in T /\ h \in T
    <3>1. f.e \in Parts(imm, cut) /\ h.e \in Parts(imm, cut)
      BY Zenon, <1>1, <2>6
    <3>2. f.e = h.e
      <4>1. x.k = y.k
        BY Zenon
      <4> QED BY <3>1, <4>1, PartsApart
    <3>3. f = h
      BY Zenon, <1>2, <2>6, <3>2 DEF Fresh
    <3> QED BY <2>0, <3>3
  <2> QED BY ZenonT(30), <1>1, <2>3, <2>4, <2>5, <2>6
<1>10. ASSUME NEW k \in spoilt' \ spoilt, k \notin DOMAIN GuardFrom
       PROVE  Across(files'[0], guards'[0]) # {} /\ \E f \in files'[0] : Holds(f, k)
  <2>1. k \in Keys /\ (Astray(files'[0], guards[0], k) \/ Inverted(files'[0], k))
    BY Zenon, <1>1 DEF Spoils
  <2>2. Astray(files'[0], guards[0], k)
    BY Zenon, <1>9, <2>1
  <2>3. k \notin GuardsIn(guards[0])
    BY Zenon, <1>3, <1>10 DEF FitInv, GuardInv
  <2>4. ~\A f \in files'[0] : Between(f, guards[0])
    BY ZenonT(30), <1>8, <2>1, <2>2, <2>3, HomeIs
  <2>5. Across(files'[0], guards[0]) # {}
    BY Zenon, <2>4, AcrossBetween
  <2>6. \E f \in files'[0] : Holds(f, k)
    BY Zenon, <2>2 DEF Astray
  <2> QED BY Zenon, <1>3, <2>5, <2>6
<1>11. ASSUME Across(files[0], guards[0]) = {}, cut = guards[0]
       PROVE  Across(files'[0], guards'[0]) = {}
  <2>1. \A f \in files[0] : Between(f, guards[0])
    BY Zenon, <1>11, AcrossBetween
  <2>2. ASSUME NEW f \in T PROVE Between(f, guards[0])
    <3>1. f.smallest.k \in Nat /\ f.largest.k \in Nat
      BY Zenon, <1>1, <1>8 DEF Bounds
    <3>2. f.e \in Parts(imm, guards[0]) /\ f.smallest \in f.e /\ f.largest \in f.e
      BY ZenonT(30), <1>1, <1>7, <1>11
    <3> QED BY Zenon, <3>1, <3>2, PartBetween
  <2>3. \A f \in files'[0] : Between(f, guards[0])
    BY Zenon, <1>1, <2>1, <2>2
  <2> QED BY Zenon, <1>3, <2>3, AcrossBetween
<1> QED BY Zenon, <1>10, <1>11

\* A compaction spoils a key only for one of the causes that SpoiltOnlyBy
\* names, and puts a table across a guard of level 0 only if it compacts that
\* level and some other table there lies across a guard it loads.
LEMMA InstallSpoils ==
  ASSUME TreeInv, TableInv, OrderInv, FitInv, Install
  PROVE  /\ \A k \in spoilt' \ spoilt :
              \/ k \in DOMAIN GuardFrom
              \/ Across(files'[0], guards'[0]) # {} /\ \E f \in files'[0] : Holds(f, k)
              \/ job.manual \/ job.out = job.level
              \/ \E x, y \in Kept(Inputs) : x # y /\ x.k = k /\ y.k = k
              \/ \E x \in Inputs : x.k = k /\ Obsolete(x)
         /\ Across(files[0], guards[0]) = {} /\ Across(files'[0], guards'[0]) # {} =>
              job.level = 0 /\ Across(files[0] \ job.in0, job.load[0]) # {}
<1> DEFINE ins == job.in0 \cup job.in1
<1> DEFINE rest == [l \in Level |-> files[l] \ ins]
<1>0. nextFile \in Nat /\ Bounded /\ Shape
  BY TreeAssumption DEF TableInv, Sizes, TreeInv
<1>1. PICK T : \E n \in Nat :
        /\ EntriesOf(T) = Kept(Inputs) /\ Fresh(T, nextFile, n)
        /\ \A t \in T : \E p \in Parts(Kept(Inputs), job.split) : t.e \subseteq p
        /\ files'[job.out] = (files[job.out] \ ins) \cup T
        /\ \A l \in Level : l # job.out => files'[l] = files[l] \ ins
        /\ guards' = [l \in Level |-> Merge(guards[l], job.load[l])]
        /\ spoilt' = spoilt \cup Reborn(Inputs, rest)
                       \cup UNION {Spoils(files'[l], guards'[l]) : l \in Level}
  BY Zenon, <1>0, InstallTables
<1>2. PICK n \in Nat : Fresh(T, nextFile, n)
  BY Zenon, <1>1
<1>3. job.on /\ 0 \in Level /\ Level \subseteq Nat
  <2>1. job.on
    BY Zenon DEF Install
  <2> QED BY <2>1, TreeAssumption DEF Level
<1>4. /\ job.level \in Level /\ job.out \in Level /\ job.out \in {job.level, job.level + 1}
      /\ job.in0 \subseteq files[job.level]
      /\ job.in1 = {} \/ (job.out = job.level + 1 /\ job.in1 \subseteq files[job.out])
  BY Zenon, <1>3 DEF OrderInv, JobIn
<1>n. job.level \in Nat /\ job.out \in Nat /\ (job.out = job.level \/ job.out = job.level + 1)
  BY Zenon, <1>3, <1>4
<1>5. \A l \in Level : \A f \in files'[l] : f \in files[l] \ ins \/ (l = job.out /\ f \in T)
  BY Zenon, <1>1
<1>6. \A f \in T : \A x \in f.e : x \in Kept(Inputs) /\ x \in Inputs /\ WrittenAs(x)
  <2>1. \A f \in T : \A x \in f.e : x \in Kept(Inputs)
    BY Zenon, <1>1 DEF EntriesOf
  <2>2. Kept(Inputs) \subseteq Inputs
    BY Zenon DEF Kept
  <2> QED BY Zenon, <1>3, <2>1, <2>2 DEF TreeInv, JobOK
<1>7. \A l \in Level : \A f \in files[l] : \A x \in f.e : WrittenAs(x)
  BY Zenon, StoredMember DEF TreeInv, Shape, All
<1>8. \A l \in Level : \A f \in files[l] :
        /\ f.n \in Nat /\ f.n < nextFile /\ f.smallest \in f.e /\ f.largest \in f.e
        /\ \A x \in f.e : f.smallest.k <= x.k /\ x.k <= f.largest.k
  BY Zenon DEF TableInv, FilesOK
<1>9. \A f \in T : /\ f.n \in Nat /\ nextFile <= f.n /\ f.smallest \in f.e /\ f.largest \in f.e
                   /\ \A x \in f.e : f.smallest.k <= x.k /\ x.k <= f.largest.k
  BY Zenon, <1>2 DEF Fresh
<1>10. ASSUME NEW l \in Level PROVE Bounds(files'[l])
  <2>1. \A f \in files'[l] : /\ f.n \in Nat /\ f.smallest \in f.e /\ f.largest \in f.e
                             /\ \A x \in f.e : f.smallest.k <= x.k /\ x.k <= f.largest.k
    BY Zenon, <1>5, <1>8, <1>9
  <2>2. \A f \in files'[l] : \A x \in f.e : WrittenAs(x)
    BY Zenon, <1>5, <1>6, <1>7
  <2> QED BY ZenonT(30), <1>0, <2>1, <2>2, SoundTables
<1>11. \A l \in Level : /\ guards'[l] = Merge(guards[l], job.load[l])
                        /\ GuardsIn(guards'[l]) = GuardsIn(guards[l]) \cup GuardsIn(job.load[l])
  BY ZenonT(30), <1>1, GuardsMerge
<1>12. ASSUME ~job.manual, NEW f \in T PROVE Between(f, job.load[job.out])
  <2>1. f.smallest.k \in Nat /\ f.largest.k \in Nat
    BY ZenonT(30), <1>0, <1>6, <1>9, EntryFacts
  <2>2. PICK p \in Parts(Kept(Inputs), job.split) : f.e \subseteq p
    BY Zenon, <1>1
  <2>3. f.smallest \in p /\ f.largest \in p
    BY Zenon, <1>9, <2>2
  <2>4. Between(f, job.split)
    BY Zenon, <2>1, <2>3, PartBetween
  <2> QED BY Zenon, <1>3, <1>12, <2>4 DEF FitInv, JobGuards
<1>13. ASSUME ~job.manual, NEW l \in {job.level, job.out}
       PROVE  GuardsIn(guards'[l]) \subseteq GuardsIn(job.load[l])
  <2>1. GuardsIn(guards[l]) \subseteq GuardsIn(job.load[l])
    BY Zenon, <1>3, <1>13 DEF FitInv, JobGuards
  <2> QED BY Zenon, <1>4, <1>11, <2>1
<1>14. ASSUME NEW l \in Level, l \notin {job.level, job.out}
       PROVE  files'[l] = files[l] /\ guards'[l] = guards[l]
  <2>1. ASSUME NEW f \in files[l], f \in ins PROVE FALSE
    <3>1. f \in files[job.level] \/ f \in files[job.out]
      BY Zenon, <1>4, <2>1
    <3> QED BY Zenon, <1>4, <1>14, <3>1 DEF TableInv, FilesOK
  <2>2. files'[l] = files[l] \ ins
    BY Zenon, <1>1, <1>14
  <2>3. files'[l] = files[l]
    BY <2>1, <2>2
  <2>4. job.load[l] = NoGuards /\ guards[l] \in GuardSet
    BY Zenon, <1>3, <1>14 DEF FitInv, JobGuards, TableInv, Sizes
  <2>5. guards'[l] = guards[l]
    BY Zenon, <1>11, <2>4, GuardsMerge
  <2> QED BY Zenon, <2>3, <2>5
<1>15. ASSUME NEW k \in Keys \ spoilt, NEW l \in Level,
              ~job.manual, job.out # job.level,
              ~\E x, y \in Kept(Inputs) : x # y /\ x.k = k /\ y.k = k
       PROVE  ~Inverted(files'[l], k)
  <2>0. \A j \in Level : ~Inverted(files[j], k)
    BY Zenon DEF OrderInv, Straight, Spoils
  <2> SUFFICES ASSUME NEW f \in files'[l], NEW h \in files'[l], NEW x \in f.e, NEW y \in h.e,
                      x.k = k, y.k = k, x.s > y.s, f.n < h.n
               PROVE  FALSE
    BY Zenon DEF Inverted
  <2>1. f.n \in Nat /\ h.n \in Nat
    BY Zenon, <1>10 DEF Bounds
  <2>2. WrittenAs(x) /\ WrittenAs(y)
    BY ZenonT(30), <1>5, <1>6, <1>7
  <2>3. x.s \in Nat /\ y.s \in Nat
    BY ZenonT(30), <1>0, <2>2, EntryFacts
  <2>4. CASE f \in files[l] /\ h \in files[l]
    BY ZenonT(30), <2>0, <2>4 DEF Inverted
  <2>5. CASE f \in T /\ h \in files[l]
    <3>1. h.n < nextFile /\ nextFile <= f.n
      BY Zenon, <1>8, <1>9, <2>5
    <3> QED BY <1>0, <2>1, <3>1
  <2>6. CASE f \in T /\ h \in T
    <3>1. x # y
      BY <2>3
    <3> QED BY ZenonT(30), <1>6, <1>15, <2>6, <3>1
  <2>7. CASE l = job.out /\ f \in files[l] \ ins /\ h \in T
    <3>1. y \in Inputs
      BY ZenonT(30), <1>6, <2>7
    <3>2. CASE \E g \in job.in0 : y \in g.e
      <4>1. PICK g \in files[job.level] : y \in g.e
        BY ZenonT(30), <1>4, <3>2
      <4>2. job.level < job.out
        BY <1>15, <1>n
      <4>3. y.s > x.s
        BY ZenonT(30), <1>4, <2>7, <4>1, <4>2 DEF OrderInv, LevelsOrdered
      <4> QED BY <2>3, <4>3
    <3>3. CASE \E g \in job.in1 : y \in g.e
      <4>1. PICK g \in job.in1 : y \in g.e
        BY Zenon, <3>3
      <4>2. Holds(g, k) /\ Holds(f, k)
        BY Zenon, <4>1 DEF Holds
      <4>3. f \in files[job.out] \ job.in1
        BY Zenon, <2>7
      <4> QED BY ZenonT(30), <1>3, <1>15, <4>2, <4>3 DEF FitInv, Fitting
    <3> QED BY ZenonT(30), <3>1, <3>2, <3>3 DEF Inputs
  <2> QED BY ZenonT(30), <1>5, <2>4, <2>5, <2>6, <2>7
<1>16. ASSUME NEW l \in Level, l # 0, l \in {job.level, job.out}, ~job.manual, job.out # job.level
       PROVE  \A f \in files'[l] : Between(f, guards'[l])
  <2> SUFFICES ASSUME NEW f \in files'[l] PROVE Between(f, job.load[l])
    BY ZenonT(30), <1>13, <1>16, BetweenFewer
  <2>1. CASE f \in files[l] \ ins
    BY ZenonT(30), <1>3, <1>16, <2>1 DEF FitInv, Fitting
  <2>2. CASE l = job.out /\ f \in T
    BY ZenonT(30), <1>12, <1>16, <2>2
  <2> QED BY ZenonT(30), <1>5, <2>1, <2>2
<1>17. ASSUME NEW k \in spoilt' \ spoilt, k \notin DOMAIN GuardFrom,
              ~(Across(files'[0], guards'[0]) # {} /\ \E f \in files'[0] : Holds(f, k)),
              ~job.manual, job.out # job.level,
              ~\E x, y \in Kept(Inputs) : x # y /\ x.k = k /\ y.k = k,
              ~\E x \in Inputs : x.k = k /\ Obsolete(x)
       PROVE  FALSE
  <2>1. k \notin Reborn(Inputs, rest)
    BY Zenon, <1>17 DEF Reborn
  <2>2. PICK l \in Level : k \in Spoils(files'[l], guards'[l])
    <3>1. spoilt' = spoilt \cup Reborn(Inputs, rest)
                      \cup UNION {Spoils(files'[l], guards'[l]) : l \in Level}
      BY Zenon, <1>1
    <3> HIDE DEF rest
    <3>2. k \in UNION {Spoils(files'[l], guards'[l]) : l \in Level}
      BY Zenon, <2>1, <3>1
    <3> QED BY Zenon, <3>2
  <2>3. k \in Keys /\ (Astray(files'[l], guards'[l], k) \/ Inverted(files'[l], k))
    BY Zenon, <2>2 DEF Spoils
  <2>4. Astray(files'[l], guards'[l], k)
    BY ZenonT(30), <1>15, <1>17, <2>3
  <2>5. k \notin GuardsIn(guards'[l])
    <3>1. \/ k \notin GuardsIn(guards[l]) /\ k \notin GuardsIn(job.load[l])
          \/ k \in DOMAIN GuardFrom
      BY Zenon, <1>3 DEF FitInv, GuardInv
    <3> QED BY Zenon, <1>11, <1>17, <3>1
  <2>6. ~\A f \in files'[l] : Between(f, guards'[l])
    BY ZenonT(30), <1>10, <2>3, <2>4, <2>5, HomeIs
  <2>7. CASE l = 0
    <3>1. Across(files'[0], guards'[0]) # {}
      BY ZenonT(30), <2>6, <2>7, AcrossBetween
    <3>2. \E f \in files'[0] : Holds(f, k)
      BY Zenon, <2>4, <2>7 DEF Astray
    <3> QED BY ZenonT(30), <1>17, <3>1, <3>2
  <2>8. CASE l # 0 /\ l \in {job.level, job.out}
    BY ZenonT(30), <1>16, <1>17, <2>6, <2>8
  <2>9. CASE l \notin {job.level, job.out}
    <3>1. Spoils(files'[l], guards'[l]) = Spoils(files[l], guards[l])
      BY Zenon, <1>14, <2>9
    <3>2. Spoils(files[l], guards[l]) \subseteq spoilt
      BY Zenon DEF OrderInv, Straight
    <3> QED BY ZenonT(30), <1>17, <2>2, <3>1, <3>2
  <2> QED BY ZenonT(30), <2>7, <2>8, <2>9
<1>18. ASSUME Across(files[0], guards[0]) = {}, Across(files'[0], guards'[0]) # {}
       PROVE  job.level = 0 /\ Across(files[0] \ job.in0, job.load[0]) # {}
  <2>1. \A f \in files[0] : Between(f, guards[0])
    BY Zenon, <1>18, AcrossBetween
  <2>2. PICK f \in files'[0] : ~Between(f, guards'[0])
    BY Zenon, <1>18, AcrossBetween
  <2>3. job.level = 0
    <3> SUFFICES ASSUME job.level # 0 PROVE FALSE
      OBVIOUS
    <3>1. 0 \notin {job.level, job.out}
      BY <1>n
    <3>2. files'[0] = files[0] /\ guards'[0] = guards[0]
      BY ZenonT(30), <1>3, <1>14, <3>1
    <3> QED BY ZenonT(30), <2>1, <2>2, <3>2
  <2>4. CASE f \in T /\ job.out = 0
    <3>1. ~job.manual
      BY ZenonT(30), <1>3, <2>3, <2>4 DEF FitInv, JobGuards
    <3>2. Between(f, job.load[0]) /\ GuardsIn(guards'[0]) \subseteq GuardsIn(job.load[0])
      BY ZenonT(30), <1>12, <1>13, <2>4, <3>1
    <3> QED BY ZenonT(30), <2>2, <3>2, BetweenFewer
  <2>5. CASE f \in files[0] \ ins
    <3>1. PICK g \in GuardsIn(guards'[0]) : f.smallest.k < g /\ g <= f.largest.k
      BY Zenon, <2>2 DEF Between
    <3>2. g \notin GuardsIn(guards[0])
      BY ZenonT(30), <2>1, <2>5, <3>1 DEF Between
    <3>3. g \in GuardsIn(job.load[0])
      BY ZenonT(30), <1>3, <1>11, <3>1, <3>2
    <3>4. f \in Across(files[0] \ job.in0, job.load[0])
      BY ZenonT(30), <2>5, <3>1, <3>3 DEF Across
    <3> QED BY Zenon, <2>3, <3>4
  <2> QED BY ZenonT(30), <1>3, <1>5, <2>4, <2>5
<1> HIDE DEF ins, rest
<1> QED BY Zenon, <1>17, <1>18

\* What SpoiltOnlyBy says of a step.
Causes ==
  /\ \A k \in spoilt' \ spoilt :
       \/ k \in DOMAIN GuardFrom
       \/ Across(files'[0], guards'[0]) # {} /\ \E f \in files'[0] : Holds(f, k)
       \/ /\ job.on /\ ~job'.on
          /\ \/ job.manual \/ job.out = job.level
             \/ \E x, y \in Kept(Inputs) : x # y /\ x.k = k /\ y.k = k
             \/ \E x \in Inputs : x.k = k /\ Obsolete(x)
  /\ Across(files[0], guards[0]) = {} /\ Across(files'[0], guards'[0]) # {} =>
       \/ imm # {} /\ imm' = {} /\ cut # guards[0]
       \/ job.on /\ ~job'.on /\ job.level = 0
          /\ Across(files[0] \ job.in0, job.load[0]) # {}

LEMMA CausesStep == TreeInv /\ TableInv /\ OrderInv /\ FitInv /\ Next => Causes
<1> SUFFICES ASSUME TreeInv, TableInv, OrderInv, FitInv, Next PROVE Causes
  OBVIOUS
<1>1. CASE UNCHANGED <<files, guards, spoilt>>
  BY Zenon, <1>1 DEF Causes
<1>2. CASE FlushInstall
  <2>1. imm # {} /\ imm' = {}
    BY Zenon, <1>2 DEF FlushInstall
  <2> QED BY ZenonT(30), <1>2, <2>1, FlushSpoils DEF Causes
<1>3. CASE Install
  <2>1. job.on /\ job' = NoJob
    BY ZenonT(30), <1>3 DEF Install
  <2>2. ~job'.on
    BY <2>1 DEF NoJob
  <2> QED BY ZenonT(30), <1>3, <2>1, <2>2, InstallSpoils DEF Causes
<1>4. UNCHANGED <<files, guards, spoilt>> \/ FlushInstall \/ Install
  BY Zenon DEF Next, Put, Delete, TakeSnapshot, ReleaseSnapshot, FlushStart,
               PickVertical, PickHorizontal, PickManual
<1> QED BY ZenonT(30), <1>1, <1>2, <1>3, <1>4

\* Only the causes that SpoiltOnlyBy names make a lookup go wrong, for any
\* keys, guards, levels and numbers of writes: a table that ends with its
\* guard's key, a table across a guard in level 0, a manual or a horizontal
\* compaction, versions of a key kept for a snapshot that a cut separates, and
\* a marker dropped above an older version (FlushInstall, Install; the tables
\* are listed by PopulateFilesToGuardsAndSentinels).
THEOREM CausesComplete == Spec => SpoiltOnlyBy
<1>1. Init => FitInv
  BY FitInit
<1>2. TreeInv /\ TableInv /\ OrderInv /\ FitInv /\ [Next]_vars => FitInv'
  BY FitStep
<1>3. TreeInv /\ TableInv /\ OrderInv /\ FitInv /\ [Next]_vars => [Causes]_vars
  BY Zenon, CausesStep DEF vars
<1>4. Spec => [][Causes]_vars
  BY <1>1, <1>2, <1>3, OrderInvariant, PTL DEF Spec
<1> QED BY <1>4 DEF Causes, SpoiltOnlyBy
=============================================================================
