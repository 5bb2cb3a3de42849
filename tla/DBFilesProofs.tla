---------------------------- MODULE DBFilesProofs ---------------------------
(***************************************************************************)
(* Theorems about what is on disk: a later Open finds the files that it    *)
(* needs, and what Sync was promised to survive does, whatever crashes     *)
(* come.                                                                   *)
(*                                                                         *)
(* Disk relates the manifests to memory and to the tables, for every point *)
(* at which a crash may cut the manifest (Views). Promise adds where a     *)
(* synced write is to be found, now and after any such cut. Both are       *)
(* invariants together with SnapInv only.                                  *)
(***************************************************************************)
EXTENDS DBOpenProofs

-----------------------------------------------------------------------------
(* With reuse_logs an Open goes on writing a manifest that it has not      *)
(* synced. If a manifest write has failed before, the old manifest may     *)
(* have unsynced edits in the file, which that Open takes for written:     *)
(* what it then deletes is lost when a crash cuts them off. The theorems   *)
(* leave out this combination of an experimental option and a failure.     *)
NoBlindReuse == plan.reuse => "manifest" \notin plan.faults

(* How many records of a log or manifest a reader may find after a crash,  *)
(* and the version that the first k edits make.                            *)
Views(f) == IF f.tear = 2 THEN {} ELSE {k \in 1..Len(f.recs) : f.synced <= k}
PrefixVer(recs, k) == UNION {recs[i].add \ UNION {recs[j].del : j \in (i + 1)..k} : i \in 1..k}

(* The manifests that an Open may read after the next crash.               *)
Roots == DOMAIN manis \cap ({current} \cup (IF rc.stage = "current" THEN {vs.mani} ELSE {})
                              \cup (IF rc.stage = "point" THEN {1} ELSE {}))

(* A table is complete, or the garbage of an unfinished one.               *)
TablesOK == \A n \in DOMAIN tables : tables[n] # {} /\ (tables[n] = Garbage \/ tables[n] \subseteq Entry)

(* Every view of a manifest that an Open may read names readable tables.   *)
FilesInv ==
  /\ \A m \in Roots : \A k \in Views(manis[m]) : FilesOf(PrefixVer(manis[m].recs, k)) \subseteq ReadableTables
  /\ Based => FilesOf(vs.ver \cup rc.add) \subseteq ReadableTables

(* A file with a bad record in the middle means damage.                    *)
TearInv ==
  /\ \A m \in DOMAIN manis : manis[m].tear = 2 => hist.damaged
  /\ \A n \in DOMAIN logs : logs[n].tear = 2 => hist.damaged

(* There is a current manifest with something synced, unless DestroyDB or  *)
(* a repair has removed it, and its number is below the next one.          *)
RootInv ==
  /\ 0 \notin DOMAIN manis
  /\ current = 0 => hist.promised = {} /\ hist.rootless
  /\ ~hist.rootless => current \in DOMAIN manis /\ manis[current].synced > 0
  /\ current \in DOMAIN manis => \A k \in Views(manis[current]) :
       /\ current <= manis[current].recs[k].next
       /\ current < manis[current].recs[k].next \/ hist.rootless
  /\ rc.stage = "point" => hist.rootless /\ DOMAIN manis = {1}

(* With reuse_logs, and no failed manifest write, no manifest has unsynced *)
(* edits after its first.                                                  *)
ReuseInv ==
  plan.reuse => \A m \in DOMAIN manis : manis[m].synced = Len(manis[m].recs) \/ Len(manis[m].recs) <= 1

(* The manifest in use in each stage.                                      *)
StageInv ==
  /\ Live \/ rc.stage = "clean" => vs.mani = current
  /\ Live \/ rc.stage \in {"current", "clean"} => manis[vs.mani].recs # <<>>
  /\ rc.stage \in {"logs", "apply"} =>
       /\ current \in DOMAIN manis /\ manis[current].recs # <<>> /\ manis[current].tear # 2
       /\ \A i \in 1..Len(manis[current].recs) : manis[current].recs[i].next < vs.next
       /\ vs.mani # 0 /\ vs.mani < vs.next
       /\ IF rc.reuse THEN vs.mani = current ELSE vs.mani # current \/ hist.rootless
  /\ rc.stage = "current" => /\ manis[vs.mani].synced > 0
                             /\ \A k \in Views(manis[vs.mani]) : vs.mani < manis[vs.mani].recs[k].next

(* Whatever a crash leaves of the manifest, it makes this version.         *)
Exact(f, ver, log) == \A k \in Views(f) : PrefixVer(f.recs, k) = ver /\ f.recs[k].log = log

Mani == manis[vs.mani]
NewVer == (vs.ver \ bg.edit.del) \cup bg.edit.add

(* While a database runs, every view of the manifest makes the version in  *)
(* memory, or the one about to be installed; after a background error it   *)
(* makes one that has at least its files.                                  *)
ExactInv ==
  Live =>
    /\ ~err /\ bg.pc \notin {"install", "refused"} => Exact(Mani, vs.ver, vs.log)
    /\ ~err /\ bg.pc = "install" => Exact(Mani, NewVer, bg.edit.log)
    /\ bg.pc \in {"build", "compact", "manifest"} \/ (bg.pc = "refused" /\ bg.kind = "flush")
         => \A k \in Views(Mani) : vs.ver \subseteq PrefixVer(Mani.recs, k)
    /\ bg.pc = "install" => \A k \in Views(Mani) : /\ NewVer \subseteq PrefixVer(Mani.recs, k)
                                                   /\ bg.edit.log <= Mani.recs[k].log
    /\ \A k \in Views(Mani) : vs.log <= Mani.recs[k].log /\ Mani.recs[k].log <= mem
    /\ bg.comp.out # 0 /\ (bg.pc \in {"build", "compact"} \/ bg.kind = "flush")
         => \A i \in 1..Len(Mani.recs) : bg.comp.out \notin FilesOf(Mani.recs[i].add)
    /\ bg.pc = "build" => \A i \in 1..Len(Mani.recs) : bg.num \notin FilesOf(Mani.recs[i].add)

(* The same during an Open.                                                *)
OpenExactInv ==
  /\ rc.stage \in {"logs", "apply"} /\ rc.reuse => Exact(Mani, vs.ver, vs.log)
  /\ rc.stage = "logs" /\ ~rc.save => rc.add = {}
  /\ rc.stage = "current" => Exact(Mani, vs.ver \cup rc.add, mem)
  /\ rc.stage = "clean" => Exact(Mani, vs.ver, vs.log) /\ rc.add \subseteq vs.ver

(* The invariant of the files.                                             *)
Disk == TablesOK /\ FilesInv /\ TearInv /\ RootInv /\ ReuseInv /\ StageInv /\ ExactInv /\ OpenExactInv
DiskInv == NoBlindReuse => Disk

-----------------------------------------------------------------------------
(* Write x is in a table of a version, in what is synced of log n or of a  *)
(* log from number l on, in memtable n.                                    *)
InTables(tb, v, x) == \E n \in FilesOf(v) \cap DOMAIN tb : \E e \in tb[n] : e[2] = x
InLog(lg, n, x) == n \in DOMAIN lg /\ \E i \in 1..lg[n].synced : \E e \in lg[n].recs[i] : e[2] = x
InLogs(lg, l, x) == \E n \in DOMAIN lg : n >= l /\ InLog(lg, n, x)
InMem(ms, n, x) == n \in DOMAIN ms /\ \E e \in ms[n] : e[2] = x

(* Its caller was told that it is synced, or is about to be told.          *)
Owed(c, x) ==
  /\ cl[c].sync /\ cl[c].st = "ok"
  /\ \/ cl[c].pc = "return" /\ x = cl[c].id
     \/ cl[c].pc = "finish" /\ x \in GroupIds(cl[c].n)
Sure(x) == x \in hist.promised \/ \E c \in Writers : Owed(c, x)

(* A running database has it, and would after the loss of its memtable.    *)
InMemory(x) ==
  Live => \/ InTables(tables, vs.ver, x) \/ (imm # 0 /\ InMem(mems, imm, x))
          \/ InMem(mems, mem, x) /\ InLog(logs, mem, x)

(* Whatever a crash leaves of the manifest, its tables and the logs that   *)
(* are replayed then have it.                                              *)
Covered(x) ==
  rc.stage # "convert" => \A m \in Roots : \A k \in Views(manis[m]) :
     InTables(tables, PrefixVer(manis[m].recs, k), x) \/ InLogs(logs, manis[m].recs[k].log, x)

(* A file has it, as a repair needs.                                       *)
InFiles(x) == (\E n \in ReadableTables : \E e \in tables[n] : e[2] = x) \/ InLogs(logs, 0, x)

(* An Open has found it or will find it in a log that is still to be read. *)
Opening(x) ==
  up = "opening" /\ rc.stage # "read" =>
    \/ InTables(tables, vs.ver \cup rc.add, x) \/ InLog(logs, mem, x)
    \/ \E n \in rc.todo : InLog(logs, n, x)

Safe(x) == InMemory(x) /\ Covered(x) /\ InFiles(x) /\ Opening(x)

(* What the group at the log has written, and what Open read of the log it *)
(* keeps in use.                                                           *)
Syncing ==
  \A c \in Writers :
    /\ cl[c].pc = "sync" => \A x \in GroupIds(cl[c].n) :
         \E i \in 1..Len(logs[mem].recs) : \E e \in logs[mem].recs[i] : e[2] = x
    /\ cl[c].pc = "insert" /\ cl[c].sync => \A x \in GroupIds(cl[c].n) : InLog(logs, mem, x)
KeptLog ==
  up = "opening" /\ mem # 0 => /\ rc.todo = {}
                               /\ \A i \in 1..logs[mem].synced : logs[mem].recs[i] \subseteq mems[mem]

Promise == (\A x \in Nat : Sure(x) => Safe(x)) /\ Syncing /\ KeptLog
PromiseInv == NoBlindReuse /\ ~hist.damaged => Promise
-----------------------------------------------------------------------------
(* The version a prefix of the edits makes depends on those edits only.    *)
LEMMA PrefixSame ==
  ASSUME NEW p, NEW q, NEW k \in Nat, \A i \in 1..k : p[i] = q[i]
  PROVE  PrefixVer(p, k) = PrefixVer(q, k)
<1>1. \A i \in 1..k : \A j \in (i + 1)..k : j \in 1..k
  OBVIOUS
<1>2. \A i \in 1..k : {p[j].del : j \in (i + 1)..k} = {q[j].del : j \in (i + 1)..k}
  BY <1>1
<1> QED  BY <1>2 DEF PrefixVer

(* One more edit removes the files it deletes and adds its own.            *)
LEMMA PrefixAppend ==
  ASSUME NEW recs \in Seq(EditType), NEW e \in EditType
  PROVE  /\ \A k \in 1..Len(recs) : PrefixVer(Append(recs, e), k) = PrefixVer(recs, k)
         /\ PrefixVer(Append(recs, e), Len(recs) + 1) = (PrefixVer(recs, Len(recs)) \ e.del) \cup e.add
<1> DEFINE s == Append(recs, e)
           n == Len(recs)
<1>1. n \in Nat /\ \A i \in 1..n : s[i] = recs[i]
  OBVIOUS
<1>2. s[n + 1] = e
  OBVIOUS
<1> HIDE DEF s, n
<1>3. \A k \in 1..n : PrefixVer(s, k) = PrefixVer(recs, k)
  <2> SUFFICES ASSUME NEW k \in 1..n PROVE PrefixVer(s, k) = PrefixVer(recs, k)
    OBVIOUS
  <2>1. k \in Nat /\ \A i \in 1..k : s[i] = recs[i]
    BY <1>1
  <2> QED  BY <2>1, PrefixSame
<1>4. \A i \in 1..n : UNION {s[j].del : j \in (i + 1)..(n + 1)} = (UNION {recs[j].del : j \in (i + 1)..n}) \cup e.del
  <2> SUFFICES ASSUME NEW i \in 1..n
               PROVE  UNION {s[j].del : j \in (i + 1)..(n + 1)} = (UNION {recs[j].del : j \in (i + 1)..n}) \cup e.del
    OBVIOUS
  <2>1. \A j \in (i + 1)..(n + 1) : (j \in (i + 1)..n /\ s[j] = recs[j]) \/ (j = n + 1 /\ s[j] = e)
    BY <1>1, <1>2
  <2>2. \A j \in (i + 1)..n : j \in (i + 1)..(n + 1) /\ s[j] = recs[j]
    BY <1>1
  <2>3. n + 1 \in (i + 1)..(n + 1)
    BY <1>1
  <2> QED  BY <1>2, <2>1, <2>2, <2>3
<1>5. UNION {s[j].del : j \in ((n + 1) + 1)..(n + 1)} = {}
  BY <1>1
<1>6. \A i \in 1..(n + 1) : (i \in 1..n /\ s[i] = recs[i]) \/ i = n + 1
  BY <1>1
<1>7. n + 1 \in 1..(n + 1) /\ \A i \in 1..n : i \in 1..(n + 1)
  BY <1>1
<1>8. ASSUME NEW x
      PROVE  x \in PrefixVer(s, n + 1) <=> x \in (PrefixVer(recs, n) \ e.del) \cup e.add
  <2>1. x \in PrefixVer(s, n + 1) <=>
          \E i \in 1..(n + 1) : x \in s[i].add /\ x \notin UNION {s[j].del : j \in (i + 1)..(n + 1)}
    BY DEF PrefixVer
  <2>2. x \in PrefixVer(recs, n) <=>
          \E i \in 1..n : x \in recs[i].add /\ x \notin UNION {recs[j].del : j \in (i + 1)..n}
    BY DEF PrefixVer
  <2>3. \A i \in 1..n : (x \in s[i].add /\ x \notin UNION {s[j].del : j \in (i + 1)..(n + 1)})
                         <=> (x \in recs[i].add /\ x \notin UNION {recs[j].del : j \in (i + 1)..n} /\ x \notin e.del)
    BY <1>1, <1>4
  <2>4. (x \in s[n + 1].add /\ x \notin UNION {s[j].del : j \in ((n + 1) + 1)..(n + 1)}) <=> x \in e.add
    BY <1>2, <1>5
  <2>5. x \in PrefixVer(s, n + 1) => x \in (PrefixVer(recs, n) \ e.del) \cup e.add
    BY <1>6, <2>1, <2>2, <2>3, <2>4
  <2>6. x \in (PrefixVer(recs, n) \ e.del) => x \in PrefixVer(s, n + 1)
    BY <1>7, <2>1, <2>2, <2>3
  <2>7. x \in e.add => x \in PrefixVer(s, n + 1)
    BY <1>7, <2>1, <2>4
  <2> QED  BY <2>5, <2>6, <2>7
<1>9. PrefixVer(s, n + 1) = (PrefixVer(recs, n) \ e.del) \cup e.add
  BY <1>8
<1> QED  BY <1>3, <1>9 DEF s, n

(* Recovering a manifest yields what all of its edits make.                *)
LEMMA ReplayIsPrefix ==
  ASSUME NEW recs \in Seq(EditType)
  PROVE  Replay(recs).ver = PrefixVer(recs, Len(recs))
<1>1. DOMAIN recs = 1..Len(recs)
  OBVIOUS
<1> QED  BY <1>1 DEF Replay, PrefixVer

(* Only files that an edit adds are in a version.                          *)
LEMMA PrefixFrom ==
  ASSUME NEW recs, NEW k \in Nat, NEW x \in PrefixVer(recs, k)
  PROVE  \E i \in 1..k : x \in recs[i].add
BY DEF PrefixVer

(* The views of a file that was synced, appended to or cut.                *)
LEMMA ViewTypes ==
  ASSUME NEW R, NEW f, FileOK(f, R), NEW k \in Views(f)
  PROVE  k \in Nat /\ k \in 1..Len(f.recs) /\ f.synced <= k /\ f.tear # 2 /\ Len(f.recs) \in Nat
BY DEF Views, FileOK, FileType

(* The whole of a readable file is one of its views.                       *)
LEMMA LastView ==
  ASSUME NEW R, NEW f, FileOK(f, R), f.recs # <<>>, f.tear # 2
  PROVE  Len(f.recs) \in Views(f) /\ Len(f.recs) \in Nat \ {0}
<1>1. f.recs \in Seq(R) /\ Len(f.recs) \in Nat /\ Len(f.recs) # 0 /\ f.synced <= Len(f.recs) /\ f.synced \in Nat
  BY DEF FileOK, FileType
<1> QED  BY <1>1 DEF Views

(* A file with no unsynced records has one view.                           *)
LEMMA SyncedViews ==
  ASSUME NEW R, NEW f, FileOK(f, R), f.synced = Len(f.recs) \/ Len(f.recs) <= 1
  PROVE  \A k \in Views(f) : k = Len(f.recs)
BY DEF Views, FileOK, FileType

(* The views of what a crash leaves of a file are views of the file.       *)
LEMMA CutViews ==
  ASSUME NEW R, NEW f, FileOK(f, R), NEW g, FileOK(g, R), g.synced = f.synced, Len(g.recs) <= Len(f.recs),
         \A i \in 1..Len(g.recs) : g.recs[i] = f.recs[i], f.tear = 2 => g.tear = 2
  PROVE  \A k \in Views(g) : k \in Views(f) /\ g.recs[k] = f.recs[k] /\ PrefixVer(g.recs, k) = PrefixVer(f.recs, k)
<1> SUFFICES ASSUME NEW k \in Views(g)
             PROVE  k \in Views(f) /\ g.recs[k] = f.recs[k] /\ PrefixVer(g.recs, k) = PrefixVer(f.recs, k)
  OBVIOUS
<1>1. k \in Nat /\ k \in 1..Len(g.recs) /\ g.synced <= k /\ g.tear # 2 /\ Len(g.recs) \in Nat /\ Len(f.recs) \in Nat
  BY ViewTypes DEF FileOK, FileType
<1>2. k \in Views(f)
  BY <1>1 DEF Views
<1>3. PrefixVer(g.recs, k) = PrefixVer(f.recs, k)
  <2> DEFINE p == g.recs
             q == f.recs
  <2>1. \A i \in 1..k : p[i] = q[i]
    BY <1>1
  <2> HIDE DEF p, q
  <2>2. PrefixVer(p, k) = PrefixVer(q, k)
    BY <1>1, <2>1, PrefixSame
  <2> QED  BY <2>2 DEF p, q
<1> QED  BY <1>1, <1>2, <1>3

(* The views of a manifest behind which edit e was appended, and of one    *)
(* that was synced then.                                                   *)
LEMMA AppendedViews ==
  ASSUME NEW f, FileOK(f, EditType), NEW e \in EditType, NEW g \in Appended(f, e), NEW k,
         k \in Views(g) \/ k \in Views(SyncedFile(g))
  PROVE  /\ f.tear = 0 /\ g.recs = Append(f.recs, e) /\ g.tear = 0
         /\ \/ /\ k \in Views(f) /\ k \in Views(g) /\ k \in 1..Len(f.recs)
               /\ g.recs[k] = f.recs[k] /\ PrefixVer(g.recs, k) = PrefixVer(f.recs, k)
            \/ /\ k = Len(f.recs) + 1 /\ k = Len(g.recs) /\ g.recs[k] = e
               /\ PrefixVer(g.recs, k) = (PrefixVer(f.recs, Len(f.recs)) \ e.del) \cup e.add
         /\ k \in Views(SyncedFile(g)) => k = Len(g.recs) /\ g.recs[k] = e
<1>1. /\ FileOK(g, EditType) /\ g.synced = f.synced
      /\ f.tear = 0 => g.tear = 0 /\ g.recs = Append(f.recs, e)
      /\ f.tear # 0 => g.tear = 2
  BY AppendedFacts
<1>2. /\ FileOK(SyncedFile(g), EditType) /\ SyncedFile(g).synced = Len(g.recs)
      /\ SyncedFile(g).recs = g.recs /\ SyncedFile(g).tear = g.tear
  BY <1>1, SyncedFacts
<1>3. f.recs \in Seq(EditType) /\ Len(f.recs) \in Nat /\ f.synced \in Nat /\ f.synced <= Len(f.recs)
  BY DEF FileOK, FileType
<1>4. g.tear # 2
  BY <1>2 DEF Views
<1>5. f.tear = 0 /\ g.recs = Append(f.recs, e) /\ Len(g.recs) = Len(f.recs) + 1
  BY <1>1, <1>3, <1>4
<1>6. k \in 1..(Len(f.recs) + 1) /\ f.synced <= k /\ (k \in Views(SyncedFile(g)) => k = Len(f.recs) + 1)
  <2>1. CASE k \in Views(g)
    <3>1. k \in 1..(Len(f.recs) + 1) /\ f.synced <= k
      BY <1>1, <1>5, <2>1 DEF Views
    <3>2. k \in Views(SyncedFile(g)) => k = Len(f.recs) + 1
      BY <1>2, <1>3, <1>5 DEF Views
    <3> QED  BY <3>1, <3>2
  <2>2. CASE k \in Views(SyncedFile(g))
    <3>1. k = Len(f.recs) + 1
      BY <1>2, <1>3, <1>5, <2>2 DEF Views
    <3> QED  BY <1>3, <3>1
  <2> QED  BY <2>1, <2>2
<1>7. CASE k \in 1..Len(f.recs)
  <2>1. k \in Views(f) /\ k \in Views(g)
    BY <1>1, <1>3, <1>5, <1>6, <1>7 DEF Views
  <2>2. g.recs[k] = f.recs[k] /\ PrefixVer(g.recs, k) = PrefixVer(f.recs, k)
    BY <1>3, <1>5, <1>7, PrefixAppend
  <2>3. k # Len(f.recs) + 1
    BY <1>3, <1>7
  <2> QED  BY <1>5, <1>6, <1>7, <2>1, <2>2, <2>3, <1>1
<1>8. CASE k = Len(f.recs) + 1
  <2>1. g.recs[k] = e
    BY <1>3, <1>5, <1>8
  <2>2. PrefixVer(g.recs, k) = (PrefixVer(f.recs, Len(f.recs)) \ e.del) \cup e.add
    BY <1>3, <1>5, <1>8, PrefixAppend
  <2> QED  BY <1>1, <1>5, <1>8, <2>1, <2>2
<1> QED  BY <1>3, <1>6, <1>7, <1>8

-----------------------------------------------------------------------------
(* The manifest of a running database.                                     *)
LEMMA LiveMani ==
  ASSUME Control, Data, Disk, Live
  PROVE  /\ vs.mani \in DOMAIN manis /\ vs.mani = current /\ current # 0 /\ FileOK(Mani, EditType) /\ Mani.recs # <<>>
         /\ Roots = {vs.mani} /\ rc = IdleRc /\ rc.stage = "none" /\ rc.add = {} /\ mem # 0 /\ Based
<1>1. rc = IdleRc /\ rc.stage = "none" /\ rc.add = {}
  BY IdleTypes DEF Control, Stages, Live
<1>2. vs.mani \in DOMAIN manis /\ vs.mani = current /\ Mani.recs # <<>> /\ current # 0
  BY DEF Disk, StageInv, RootInv, Data, ManiInv, Mani
<1> QED  BY <1>1, <1>2 DEF Control, Typed, TypeManis, Roots, Mani, Data, BgInv, Based

(* A step of a running database that writes no manifest.                   *)
LEMMA LiveDisk ==
  ASSUME Control, Data, Disk, Live, Live', UNCHANGED <<current, rc, plan>>, vs'.mani = vs.mani,
         \A m \in DOMAIN manis' : m \in DOMAIN manis /\ manis'[m] = manis[m],
         vs.mani \in DOMAIN manis', TablesOK',
         \A k \in Views(Mani) : FilesOf(PrefixVer(Mani.recs, k)) \subseteq ReadableTables',
         FilesOf(vs'.ver) \subseteq ReadableTables',
         \A n \in DOMAIN logs' : logs'[n].tear = 2 => hist'.damaged,
         hist.damaged => hist'.damaged, hist'.rootless = hist.rootless,
         ExactInv'
  PROVE  Disk'
<1>1. /\ vs.mani \in DOMAIN manis /\ vs.mani = current /\ current # 0 /\ Mani.recs # <<>>
      /\ rc = IdleRc /\ rc.stage = "none" /\ rc.add = {}
  BY LiveMani
<1>2. manis'[vs.mani] = Mani
  BY <1>1 DEF Mani
<1>3. Roots' = {vs.mani}
  BY <1>1 DEF Roots
<1>4. FilesInv'
  BY <1>1, <1>2, <1>3 DEF FilesInv, Mani
<1>5. TearInv'
  BY DEF Disk, TearInv
<1>6. RootInv'
  BY <1>1, <1>2 DEF Disk, RootInv, Mani
<1>7. ReuseInv'
  BY DEF Disk, ReuseInv
<1>8. StageInv'
  BY <1>1, <1>2 DEF StageInv
<1>9. OpenExactInv'
  BY <1>1 DEF OpenExactInv
<1> QED  BY <1>4, <1>5, <1>6, <1>7, <1>8, <1>9 DEF Disk

(* What the threads that call the database leave alone.                    *)
CallFrame ==
  /\ UNCHANGED <<tables, manis, current, up, rc, plan, bg>>
  /\ vs'.ver = vs.ver /\ vs'.log = vs.log /\ vs'.mani = vs.mani /\ (err => err') /\ mem' >= mem
  /\ \A n \in DOMAIN logs' : logs'[n].tear = 2 => hist'.damaged
  /\ (hist.damaged => hist'.damaged) /\ hist'.rootless = hist.rootless

(* The steps of clients, Gets and background calls that write no manifest  *)
(* and delete no table keep Disk.                                          *)
LEMMA CallDisk ==
  ASSUME Control, Data, Disk, Control', Live, CallFrame
  PROVE  Disk'
<1>1. Live' /\ vs.mani \in DOMAIN manis /\ FileOK(Mani, EditType) /\ rc.add = {} /\ Based /\ Roots = {vs.mani}
  BY LiveMani DEF CallFrame, Live
<1>2. Mani' = Mani /\ NewVer' = NewVer
  BY DEF CallFrame, Mani, NewVer
<1>3. \A k \in Views(Mani) : Mani.recs[k].log \in Nat
  BY <1>1, ViewTypes, RecordTypes DEF Control, Typed, Mani
<1>4. mem \in Nat /\ mem' \in Nat
  BY DEF Control, Typed, TypeMems
<1>5. \A k \in Views(Mani) : vs.log <= Mani.recs[k].log /\ Mani.recs[k].log <= mem'
  BY <1>1, <1>3, <1>4 DEF Disk, ExactInv, CallFrame
<1>6. ExactInv'
  BY <1>1, <1>2, <1>5 DEF Disk, ExactInv, CallFrame
<1>7. TablesOK' /\ ReadableTables' = ReadableTables
  BY DEF Disk, TablesOK, ReadableTables, CallFrame
<1>8. /\ \A k \in Views(Mani) : FilesOf(PrefixVer(Mani.recs, k)) \subseteq ReadableTables
      /\ FilesOf(vs.ver) \subseteq ReadableTables
  BY <1>1 DEF Disk, FilesInv, Mani
<1> QED  BY <1>1, <1>6, <1>7, <1>8, LiveDisk DEF CallFrame

(* A writer and a reader change nothing of that.                           *)
LEMMA WriterCalls ==
  ASSUME Control, Data, Disk, NEW c \in Writers, Write(c) \/ CompactRange(c) \/ WriterStep(c), Running
  PROVE  CallFrame /\ Live
<1>0. hist \in HistType /\ vs \in VsType /\ mem \in Nat /\ TypeLogs /\ TypeCl
  BY DEF Control, Typed, TypeHist, TypeVs, TypeMems
<1>1. \A n \in DOMAIN logs : logs[n].tear = 2 => hist.damaged
  BY DEF Disk, TearInv
<1>2. ASSUME hist' = hist \/ (\E x : hist' = [hist EXCEPT !.next = x]) \/ (\E x : hist' = [hist EXCEPT !.compacts = x])
              \/ (\E x : hist' = [hist EXCEPT !.promised = x])
      PROVE  hist'.damaged = hist.damaged /\ hist'.rootless = hist.rootless
  BY <1>0, <1>2 DEF HistType
<1>3. UNCHANGED <<rc, plan>>
  BY DEF Running
<1>4. CASE Write(c) \/ CompactRange(c)
  <2>1. UNCHANGED <<logs, tables, manis, current, up, mem, vs, err, bg>> /\ up = "open"
    BY <1>4 DEF Write, CompactRange, Enqueue, disk, memtables, flags
  <2>2. hist'.damaged = hist.damaged /\ hist'.rootless = hist.rootless
    BY <1>2, <1>4 DEF Write, CompactRange, Enqueue
  <2> QED  BY <1>0, <1>1, <1>3, <2>1, <2>2 DEF CallFrame, Live
<1>5. ASSUME WriterStep(c)
      PROVE  cl[c].pc # "idle" /\ Live
  <2>1. cl[c].pc # "idle"
    BY <1>5 DEF WriterStep, MakeRoomForWrite, RoomError, RoomDelay, RoomReady, RoomWait, RoomSwitch, RoomNoLog, AtHead,
         WriteLog, WriteSync, WriteInsert, WriteFinish, WriteReturn, AwaitFlush, ManualTurn
  <2> QED  BY <2>1, BusyWriter DEF Live
<1>6. CASE RoomError(c) \/ RoomDelay(c) \/ RoomReady(c) \/ RoomWait(c) \/ RoomNoLog(c) \/ AwaitFlush(c)
  <2>1. UNCHANGED <<logs, tables, manis, current, up, mem, vs, err, bg, hist>>
    BY <1>6 DEF RoomError, RoomDelay, RoomReady, RoomWait, RoomNoLog, AwaitFlush, disk, memtables, flags
  <2>2. WriterStep(c)
    BY <1>6 DEF WriterStep, MakeRoomForWrite
  <2> QED  BY <1>0, <1>1, <1>3, <1>5, <2>1, <2>2 DEF CallFrame
<1>7. CASE RoomSwitch(c)
  <2>1. /\ UNCHANGED <<tables, manis, current, up, err, bg, hist>> /\ mem' = vs.next /\ logs' = With(logs, vs.next, EmptyFile)
        /\ vs' = [vs EXCEPT !.next = @ + 1] /\ WriterStep(c)
    BY <1>7 DEF RoomSwitch, WriterStep, MakeRoomForWrite
  <2>2. vs'.ver = vs.ver /\ vs'.log = vs.log /\ vs'.mani = vs.mani
    BY <2>1, NextVs
  <2>3. Live /\ mem < vs.next /\ vs.next \in Nat
    BY <1>0, <1>5, <2>1 DEF Data, FreshInv, BgInv, Based, VsType
  <2>4. \A n \in DOMAIN logs' : logs'[n].tear = 2 => hist'.damaged
    BY <1>1, <2>1, EmptyFacts DEF With
  <2> QED  BY <1>0, <1>3, <2>1, <2>2, <2>3, <2>4 DEF CallFrame
<1>8. CASE WriteLog(c)
  <2>1. UNCHANGED <<tables, manis, current, up, err, bg, vs, mem>> /\ WriterStep(c)
    BY <1>8 DEF WriteLog, WriterStep, memtables, flags
  <2>2. Live /\ mem \in DOMAIN logs /\ FileOK(logs[mem], SUBSET Entry)
    BY <1>0, <1>5, <2>1 DEF Data, BgInv, LogInv, Based, TypeLogs
  <2>3. CASE \E f \in Appended(logs[mem], Entries(cl[c].n)) :
                /\ logs' = [logs EXCEPT ![mem] = f]
                /\ hist' = [hist EXCEPT !.logged = @ \cup {Group(c)}, !.damaged = @ \/ f.tear = 2]
    <3>1. PICK f : /\ logs' = [logs EXCEPT ![mem] = f]
                   /\ \E x : hist' = [hist EXCEPT !.logged = x, !.damaged = @ \/ f.tear = 2]
      BY <2>3
    <3>2. PICK x : hist' = [hist EXCEPT !.logged = x, !.damaged = @ \/ f.tear = 2]
      BY <3>1
    <3> DEFINE d == hist.damaged \/ f.tear = 2
    <3>3. hist' = [hist EXCEPT !.logged = x, !.damaged = d]
      BY <3>2
    <3> HIDE DEF d
    <3>4. hist'.damaged = d /\ hist'.rootless = hist.rootless
      BY <1>0, <3>3 DEF HistType
    <3>5. (hist.damaged => hist'.damaged) /\ (f.tear = 2 => hist'.damaged) /\ hist'.rootless = hist.rootless
      BY <3>4 DEF d
    <3>6. \A n \in DOMAIN logs' : n \in DOMAIN logs /\ (logs'[n] = logs[n] \/ logs'[n] = f)
      BY <3>1
    <3> QED  BY <1>0, <1>1, <1>3, <2>1, <2>2, <3>5, <3>6 DEF CallFrame
  <2>4. CASE \E f \in AppendFailed(logs[mem]) : logs' = [logs EXCEPT ![mem] = f] /\ UNCHANGED hist
    <3>1. PICK f \in AppendFailed(logs[mem]) : logs' = [logs EXCEPT ![mem] = f] /\ UNCHANGED hist
      BY <2>4
    <3>2. f.tear = 2 => logs[mem].tear = 2
      BY <2>2, <3>1, AppendFailedFacts
    <3>3. \A n \in DOMAIN logs' : n \in DOMAIN logs /\ (logs'[n] = logs[n] \/ logs'[n] = f)
      BY <3>1
    <3> QED  BY <1>0, <1>1, <1>3, <2>1, <2>2, <3>1, <3>2, <3>3 DEF CallFrame
  <2> QED  BY <1>8, <2>3, <2>4 DEF WriteLog
<1>9. CASE WriteSync(c)
  <2>1. UNCHANGED <<tables, manis, current, up, err, bg, vs, mem, hist>> /\ WriterStep(c)
        /\ (logs' = logs \/ logs' = [logs EXCEPT ![mem] = SyncedFile(@)])
    BY <1>9 DEF WriteSync, WriterStep, memtables, flags
  <2>2. Live /\ mem \in DOMAIN logs /\ FileOK(logs[mem], SUBSET Entry)
    BY <1>0, <1>5, <2>1 DEF Data, BgInv, LogInv, Based, TypeLogs
  <2>3. SyncedFile(logs[mem]).tear = logs[mem].tear
    BY <2>2, SyncedFacts
  <2>4. \A n \in DOMAIN logs' : n \in DOMAIN logs /\ logs'[n].tear = logs[n].tear
    BY <2>1, <2>2, <2>3
  <2> QED  BY <1>0, <1>1, <1>3, <2>1, <2>2, <2>4 DEF CallFrame
<1>10. CASE WriteInsert(c)
  <2>1. UNCHANGED <<logs, tables, manis, current, up, err, bg, vs, mem>> /\ WriterStep(c)
        /\ hist' = [hist EXCEPT !.applied = @ \cup Entries(cl[c].n)]
    BY <1>10 DEF WriteInsert, WriterStep, disk, flags
  <2>2. hist'.damaged = hist.damaged /\ hist'.rootless = hist.rootless
    BY <1>0, <2>1 DEF HistType
  <2> QED  BY <1>0, <1>1, <1>3, <1>5, <2>1, <2>2 DEF CallFrame
<1>11. CASE WriteFinish(c)
  <2>1. UNCHANGED <<logs, tables, manis, current, up, bg, mem, hist>> /\ WriterStep(c) /\ (err => err')
        /\ vs' = [vs EXCEPT !.seq = @ + Cardinality(Batches(cl[c].n))]
    BY <1>11 DEF WriteFinish, WriterStep, disk, memtables
  <2>2. vs'.ver = vs.ver /\ vs'.log = vs.log /\ vs'.mani = vs.mani
    BY <1>0, <2>1 DEF VsType
  <2> QED  BY <1>0, <1>1, <1>3, <1>5, <2>1, <2>2 DEF CallFrame
<1>12. CASE WriteReturn(c) \/ ManualTurn(c)
  <2>1. UNCHANGED <<logs, tables, manis, current, up, bg, mem, vs, err>> /\ WriterStep(c)
    BY <1>12 DEF WriteReturn, ManualTurn, WriterStep, disk, memtables, flags
  <2>2. hist'.damaged = hist.damaged /\ hist'.rootless = hist.rootless
    BY <1>2, <1>12 DEF WriteReturn, ManualTurn
  <2> QED  BY <1>0, <1>1, <1>3, <1>5, <2>1, <2>2 DEF CallFrame
<1> QED  BY <1>4, <1>6, <1>7, <1>8, <1>9, <1>10, <1>11, <1>12 DEF WriterStep, MakeRoomForWrite

(* A Get leaves the files alone.                                           *)
LEMMA ReaderCalls ==
  ASSUME Control, Data, Disk, NEW r \in Readers, GetBegin(r) \/ ReaderStep(r), Running
  PROVE  CallFrame /\ Live
<1>0. hist \in HistType /\ vs \in VsType /\ mem \in Nat
  BY DEF Control, Typed, TypeHist, TypeVs, TypeMems
<1>1. \A n \in DOMAIN logs : logs[n].tear = 2 => hist.damaged
  BY DEF Disk, TearInv
<1>2. UNCHANGED <<logs, tables, manis, current, up, bg, mem, err, rc, plan>>
  BY DEF GetBegin, ReaderStep, GetMem, GetTables, GetEnd, disk, memtables, flags, Running
<1>3. vs'.ver = vs.ver /\ vs'.log = vs.log /\ vs'.mani = vs.mani
  <2>1. vs' = vs \/ \E b \in BOOLEAN : vs' = [vs EXCEPT !.seek = @ \/ (b /\ rd[r].ver = vs.ver /\ NumLevelFiles(0) > 0)]
    BY DEF GetBegin, ReaderStep, GetMem, GetTables, GetEnd
  <2> QED  BY <1>0, <2>1 DEF VsType
<1>4. hist'.damaged = hist.damaged /\ hist'.rootless = hist.rootless
  <2>1. hist' = hist \/ hist' = [hist EXCEPT !.reads = @ + 1]
    BY DEF GetBegin, ReaderStep, GetMem, GetTables, GetEnd
  <2> QED  BY <1>0, <2>1 DEF HistType
<1>5. Live
  <2>1. up = "open" \/ rd[r].pc # "idle"
    BY DEF GetBegin, ReaderStep, GetMem, GetTables, GetEnd
  <2> QED  BY <2>1, BusyReader DEF Live
<1> QED  BY <1>0, <1>1, <1>2, <1>3, <1>4, <1>5 DEF CallFrame

-----------------------------------------------------------------------------
(* What the steps of the background thread do that neither write to the    *)
(* manifest nor install an edit: the files they write, and the phase that  *)
(* follows on another.                                                     *)
TablesWritten ==
  \/ tables' = tables
  \/ bg.pc = "build" /\ mems[imm] # {} /\ tables' = With(tables, bg.num, mems[imm])
  \/ /\ bg.pc = "compact" /\ bg.comp.out # 0
     /\ tables' = With(tables, bg.comp.out, TableEntries(bg.comp.inputs)) \/ tables' = With(tables, bg.comp.out, Garbage)

FlushFails == bg.pc = "build" \/ (bg.pc = "refused" /\ bg.kind = "flush")

PhaseChange ==
  \/ bg' \in {IdleBg, FallenBg} /\ (err' \/ bg.pc = "none")
  \/ /\ bg'.pc = "compact" /\ bg'.kind = "none"
     /\ \/ bg'.comp.out = 0 /\ bg.pc = "none" /\ ~err
        \/ bg'.comp = bg.comp /\ FlushFails /\ err'
        \/ bg'.comp.out = vs.next /\ bg.pc = "compact"
  \/ /\ bg'.pc = "build" /\ bg'.num = vs.next /\ bg'.kind = "none"
     /\ (bg'.comp.out = 0 /\ bg.pc = "none" /\ ~err) \/ (bg'.comp = bg.comp /\ bg.pc = "compact")
  \/ /\ bg'.pc = "manifest"
     /\ \/ bg'.kind = "move" /\ bg'.comp.out = 0 /\ bg.pc = "none" /\ ~err
        \/ bg'.kind = "flush" /\ bg'.comp = bg.comp /\ bg.pc = "build"
        \/ bg'.kind = "compact" /\ bg.pc = "compact"

WorkFrame ==
  /\ UNCHANGED <<logs, manis, current, up, queue, rd, mem, imm, mems, rc, plan, hist>>
  /\ vs'.ver = vs.ver /\ vs'.log = vs.log /\ vs'.mani = vs.mani
  /\ (err => err') /\ (bg.pc = "refused" => err')
  /\ Served /\ TablesWritten /\ PhaseChange

Working == BackgroundStep /\ ~WriteManifest /\ bg.pc # "install"

(* A flush that fails ends with a background error.                        *)
LEMMA FlushFailedPhase ==
  ASSUME Control, FlushFailed, FlushFails
  PROVE  PhaseChange /\ err' /\ Served
<1>0. bg \in BgType /\ bg.comp \in CompType
  BY DEF Control, Typed, TypeBg, BgType
<1>1. err' /\ Served
  BY DEF FlushFailed, BgEnd, Served
<1>2. CASE bg.comp = NoComp
  BY <1>1, <1>2 DEF FlushFailed, BgEnd, PhaseChange
<1>3. CASE bg.comp # NoComp
  <2>1. bg' = [IdleBg EXCEPT !.pc = "compact", !.comp = bg.comp]
    BY <1>3 DEF FlushFailed
  <2>2. bg'.pc = "compact" /\ bg'.kind = "none" /\ bg'.comp = bg.comp
    BY <1>0, <2>1, IdleFacts DEF BgType
  <2> QED  BY <1>1, <2>2 DEF PhaseChange
<1> QED  BY <1>1, <1>2, <1>3

(* A compaction that fails ends with a background error.                   *)
LEMMA CompactFailedPhase ==
  ASSUME Control, NEW tb, CompactFailed(tb)
  PROVE  PhaseChange /\ err' /\ Served /\ tables' = tb /\ UNCHANGED <<logs, manis>>
<1>1. CompactEnd(vs, TRUE, TRUE) /\ sched \in BOOLEAN
  BY DEF CompactFailed, Control, Typed, TypeFlags
<1>2. bg' \in {IdleBg, FallenBg} /\ Served
  BY <1>1, CompactEnded
<1> QED  BY <1>2 DEF CompactFailed, PhaseChange, DeleteObsoleteFiles

(* What the background thread may change before its manifest write.        *)
LEMMA WorkingFacts ==
  ASSUME Control, Data, Running, Working
  PROVE  WorkFrame /\ Live
<1>0. /\ bg \in BgType /\ bg.comp \in CompType /\ vs \in VsType /\ bg.edit \in EditType /\ err \in BOOLEAN
      /\ UNCHANGED <<rc, plan>> /\ bg.pc # "install"
  BY DEF Control, Typed, TypeBg, BgType, TypeVs, TypeFlags, Running, Working
<1>1. CASE BackgroundStop \/ (BackgroundManual /\ ~(NumLevelFiles(0) > 0)) \/ (BackgroundPick /\ ~NeedsCompaction(vs))
            \/ MoveDone
  <2>1. /\ UNCHANGED <<logs, tables, manis, current, up, queue, rd, mem, imm, mems, vs, hist>> /\ bg' = IdleBg /\ Served
        /\ (err => err') /\ (bg.pc = "refused" => err') /\ (err' \/ bg.pc = "none")
    <3>1. CASE BackgroundStop
      BY <3>1 DEF BackgroundStop, BgEnd, Served, disk, memtables
    <3>2. CASE BackgroundManual /\ ~(NumLevelFiles(0) > 0)
      BY <3>2 DEF BackgroundManual, BgEnd, Served, disk, memtables
    <3>3. CASE BackgroundPick /\ ~NeedsCompaction(vs)
      BY <3>3 DEF BackgroundPick, BgEnd, Served, disk, memtables
    <3>4. CASE MoveDone
      BY <1>0, <3>4 DEF MoveDone, BgEnd, Served, disk, memtables
    <3> QED  BY <1>1, <3>1, <3>2, <3>3, <3>4
  <2>2. Live
    BY <1>1, BusyBg DEF BackgroundStop, BackgroundManual, BackgroundPick, MoveDone
  <2> QED  BY <1>0, <2>1, <2>2 DEF WorkFrame, TablesWritten, PhaseChange
<1>2. CASE BackgroundFlush \/ CompactImm
  <2>1. PICK comp \in {NoComp, bg.comp} :
          BeginFlush(comp) /\ ((comp = NoComp /\ bg.pc = "none" /\ ~err) \/ (comp = bg.comp /\ bg.pc = "compact"))
    BY <1>2 DEF BackgroundFlush, CompactImm
  <2>2. UNCHANGED <<logs, tables, manis, current, up, queue, cl, rd, mem, imm, mems, err, hist>> /\ bg.pc # "refused"
    BY <1>2 DEF BackgroundFlush, CompactImm, disk, memtables, flags
  <2>3. vs'.ver = vs.ver /\ vs'.log = vs.log /\ vs'.mani = vs.mani /\ vs.next \in Nat
    BY <2>1, NextVs DEF BeginFlush
  <2> DEFINE k == vs.next
  <2>4. k \in Nat /\ bg' = [IdleBg EXCEPT !.pc = "build", !.num = k, !.comp = comp] /\ comp \in CompType
    BY <1>0, <2>1, <2>3, IdleFacts DEF BeginFlush
  <2> HIDE DEF k
  <2>5. bg'.pc = "build" /\ bg'.num = k /\ bg'.kind = "none" /\ bg'.comp = comp
    BY <2>4, IdleFacts DEF BgType
  <2>6. PhaseChange
    BY <2>1, <2>5, IdleFacts DEF PhaseChange, k
  <2>7. Live
    BY <1>2, BusyBg DEF BackgroundFlush, CompactImm
  <2> QED  BY <1>0, <2>2, <2>3, <2>6, <2>7 DEF WorkFrame, TablesWritten, Served
<1>3. CASE (BackgroundManual /\ NumLevelFiles(0) > 0) \/ (BackgroundPick /\ NeedsCompaction(vs))
  <2>1. /\ UNCHANGED <<logs, tables, manis, current, up, queue, cl, rd, mem, imm, mems, vs, err, hist>>
        /\ bg.pc = "none" /\ ~err /\ Live
    BY <1>3, BusyBg DEF BackgroundManual, BackgroundPick, Compacting, disk, memtables, flags
  <2>2. (\E inputs, man : Compacting(inputs, man))
          \/ \E ed : bg' = [IdleBg EXCEPT !.pc = "manifest", !.kind = "move", !.edit = ed]
    BY <1>3 DEF BackgroundManual, BackgroundPick
  <2>3. CASE \E inputs, man : Compacting(inputs, man)
    <3>1. PICK inputs, man : bg' = [IdleBg EXCEPT !.pc = "compact", !.comp = [inputs |-> inputs, out |-> 0, man |-> man]]
      BY <2>3 DEF Compacting
    <3>2. bg'.pc = "compact" /\ bg'.kind = "none" /\ bg'.comp.out = 0
      BY <3>1, IdleFacts DEF BgType
    <3>3. PhaseChange
      BY <2>1, <3>2 DEF PhaseChange
    <3> QED  BY <1>0, <2>1, <3>3 DEF WorkFrame, TablesWritten, Served
  <2>4. CASE \E ed : bg' = [IdleBg EXCEPT !.pc = "manifest", !.kind = "move", !.edit = ed]
    <3>1. bg'.pc = "manifest" /\ bg'.kind = "move" /\ bg'.comp = NoComp
      BY <2>4, IdleFacts DEF BgType
    <3>2. PhaseChange
      BY <2>1, <3>1, IdleFacts DEF PhaseChange
    <3> QED  BY <1>0, <2>1, <3>2 DEF WorkFrame, TablesWritten, Served
  <2> QED  BY <2>2, <2>3, <2>4
<1>4. CASE WriteLevel0Table
  <2>1. UNCHANGED <<logs, manis, current, up, queue, rd, mem, imm, mems, vs, hist>> /\ bg.pc = "build" /\ Live
    BY <1>4, BusyBg DEF WriteLevel0Table, memtables
  <2>2. TablesWritten
    BY <1>4, <2>1 DEF WriteLevel0Table, BuildTable, TablesWritten
  <2>3. (err => err') /\ Served /\ PhaseChange
    <3>1. CASE FlushFailed
      BY <2>1, <3>1, FlushFailedPhase DEF FlushFails
    <3>2. CASE ~FlushFailed
      <4>1. (\E ed : bg' = [bg EXCEPT !.pc = "manifest", !.kind = "flush", !.edit = ed]) /\ cl' = cl /\ err' = err
        BY <1>4, <3>2 DEF WriteLevel0Table, FlushEdit
      <4>2. bg'.pc = "manifest" /\ bg'.kind = "flush" /\ bg'.comp = bg.comp
        BY <1>0, <4>1 DEF BgType
      <4> QED  BY <2>1, <4>1, <4>2 DEF PhaseChange, Served
    <3> QED  BY <3>1, <3>2
  <2> QED  BY <1>0, <2>1, <2>2, <2>3 DEF WorkFrame
<1>5. CASE FlushDone
  <2>1. /\ UNCHANGED <<logs, tables, manis, current, up, queue, rd, mem, imm, mems, vs, hist>> /\ bg.pc = "refused"
        /\ bg.kind = "flush" /\ FlushFailed /\ Live
    BY <1>0, <1>5, BusyBg DEF FlushDone
  <2>2. PhaseChange /\ err' /\ Served
    BY <2>1, FlushFailedPhase DEF FlushFails
  <2> QED  BY <1>0, <2>1, <2>2 DEF WorkFrame, TablesWritten
<1>6. CASE OpenCompactionOutputFile
  <2>1. UNCHANGED <<logs, tables, manis, current, up, queue, cl, rd, mem, imm, mems, err, hist>> /\ bg.pc = "compact" /\ Live
    BY <1>6, BusyBg DEF OpenCompactionOutputFile, disk, memtables, flags
  <2>2. vs'.ver = vs.ver /\ vs'.log = vs.log /\ vs'.mani = vs.mani /\ vs.next \in Nat
    BY <1>6, NextVs DEF OpenCompactionOutputFile
  <2> DEFINE k == vs.next
  <2>3. k \in Nat /\ bg' = [bg EXCEPT !.comp.out = k]
    BY <1>6, <2>2 DEF OpenCompactionOutputFile
  <2> HIDE DEF k
  <2>4. bg'.pc = "compact" /\ bg'.kind = bg.kind /\ bg'.comp.out = k
    BY <1>0, <2>1, <2>3 DEF BgType, CompType
  <2>5. bg.kind = "none"
    BY <2>1 DEF Data, BgInv
  <2>6. PhaseChange
    BY <2>1, <2>4, <2>5 DEF PhaseChange, k
  <2> QED  BY <1>0, <2>1, <2>2, <2>6 DEF WorkFrame, TablesWritten, Served
<1>7. CASE FinishCompactionOutputFile
  <2>1. UNCHANGED <<current, up, queue, rd, mem, imm, mems, vs, hist>> /\ bg.pc = "compact" /\ bg.comp.out # 0 /\ Live
    BY <1>7, BusyBg DEF FinishCompactionOutputFile, memtables
  <2>2. CASE CompactFailed(With(tables, bg.comp.out, Garbage))
    <3>1. PhaseChange /\ err' /\ Served /\ tables' = With(tables, bg.comp.out, Garbage) /\ UNCHANGED <<logs, manis>>
      <4> DEFINE tb == With(tables, bg.comp.out, Garbage)
      <4>1. CompactFailed(tb)
        BY <2>2
      <4> HIDE DEF tb
      <4>2. PhaseChange /\ err' /\ Served /\ tables' = tb /\ UNCHANGED <<logs, manis>>
        BY <4>1, CompactFailedPhase
      <4> QED  BY <4>2 DEF tb
    <3> QED  BY <1>0, <2>1, <3>1 DEF WorkFrame, TablesWritten
  <2>3. CASE ~CompactFailed(With(tables, bg.comp.out, Garbage))
    <3>1. /\ tables' = With(tables, bg.comp.out, TableEntries(bg.comp.inputs))
          /\ \E ed : bg' = [bg EXCEPT !.pc = "manifest", !.kind = "compact", !.edit = ed]
          /\ UNCHANGED <<logs, manis, cl, err>>
      BY <1>7, <2>3 DEF FinishCompactionOutputFile
    <3>2. bg'.pc = "manifest" /\ bg'.kind = "compact"
      BY <1>0, <3>1 DEF BgType
    <3>3. PhaseChange
      BY <2>1, <3>2 DEF PhaseChange
    <3> QED  BY <1>0, <2>1, <3>1, <3>3 DEF WorkFrame, TablesWritten, Served
  <2> QED  BY <2>2, <2>3
<1>8. CASE CompactShutDown \/ CompactDone
  <2>1. UNCHANGED <<current, up, queue, rd, mem, imm, mems, vs, hist>> /\ CompactFailed(tables) /\ Live
    BY <1>0, <1>8, BusyBg DEF CompactShutDown, CompactDone, memtables
  <2>2. PhaseChange /\ err' /\ Served /\ tables' = tables /\ UNCHANGED <<logs, manis>>
    BY <2>1, CompactFailedPhase
  <2> QED  BY <1>0, <2>1, <2>2 DEF WorkFrame, TablesWritten
<1> QED  BY <1>1, <1>2, <1>3, <1>4, <1>5, <1>6, <1>7, <1>8 DEF Working, BackgroundStep

(* No edit in the manifest adds a file of a number that was not given yet. *)
LEMMA FreshNumber ==
  ASSUME Control, Data, Disk, Live
  PROVE  \A i \in 1..Len(Mani.recs) : vs.next \notin FilesOf(Mani.recs[i].add)
<1> SUFFICES ASSUME NEW i \in 1..Len(Mani.recs), NEW f \in Mani.recs[i].add, f[1] = vs.next
             PROVE  FALSE
  BY DEF FilesOf
<1>1. vs.mani \in DOMAIN manis /\ Mani = manis[vs.mani] /\ vs.next \in Nat
  BY LiveMani DEF Mani, Control, Typed, TypeVs, VsType
<1>2. f[1] < Mani.recs[i].next
  BY <1>1 DEF Data, ManiInv, ManifestOK
<1>3. Mani.recs[i].next <= vs.next /\ Mani.recs[i].next \in Nat
  BY <1>1, RecordTypes DEF Data, ManiInv, Control, Typed
<1> QED  BY <1>1, <1>2, <1>3

(* The tables of the current version can be read, and so can what a        *)
(* compaction makes of them.                                               *)
LEMMA InputsReadable ==
  ASSUME Control, Data, Disk, Live, NEW d \in SUBSET vs.ver
  PROVE  /\ TableEntries(d) \subseteq Entry
         /\ d # {} => TableEntries(d) # {}
<1>1. FilesOf(d) \subseteq ReadableTables
  BY LiveMani DEF Disk, FilesInv, FilesOf
<1>2. \A n \in ReadableTables : n \in DOMAIN tables /\ tables[n] # {} /\ tables[n] \subseteq Entry
  BY DEF ReadableTables, Disk, TablesOK
<1>3. TableEntries(d) \subseteq Entry
  BY <1>1, <1>2 DEF TableEntries
<1>4. ASSUME d # {} PROVE TableEntries(d) # {}
  <2>1. PICK f \in d : f[1] \in FilesOf(d)
    BY <1>4 DEF FilesOf
  <2> QED  BY <1>1, <1>2, <2>1 DEF TableEntries
<1> QED  BY <1>3, <1>4

(* A table of real entries is not the garbage of an unfinished one.        *)
LEMMA ReadableEntries ==
  ASSUME NEW es, es \subseteq Entry
  PROVE  es # Garbage
<1>1. <<0, 0>> \in Garbage /\ <<0, 0>> \notin Entry
  BY DEF Garbage, Entry
<1> QED  BY <1>1

(* A table that is written takes no readable one away from the versions.   *)
LEMMA WrittenTables ==
  ASSUME Control, Data, Disk, Live, TablesWritten
  PROVE  /\ TablesOK'
         /\ \A k \in Views(Mani) : FilesOf(PrefixVer(Mani.recs, k)) \subseteq ReadableTables'
         /\ FilesOf(vs.ver) \subseteq ReadableTables'
         /\ \A k \in Views(Mani) : \A n \in FilesOf(PrefixVer(Mani.recs, k)) : SameTable(n)
         /\ \A n \in FilesOf(vs.ver) : SameTable(n)
<1>0. /\ \A k \in Views(Mani) : FilesOf(PrefixVer(Mani.recs, k)) \subseteq ReadableTables
      /\ FilesOf(vs.ver) \subseteq ReadableTables /\ TablesOK /\ Roots = {vs.mani} /\ FileOK(Mani, EditType)
  BY LiveMani DEF Disk, FilesInv, Mani
<1>1. CASE tables' = tables
  BY <1>0, <1>1 DEF TablesOK, ReadableTables, SameTable
<1>2. ASSUME NEW n, NEW es, tables' = With(tables, n, es), es # {}, es = Garbage \/ es \subseteq Entry,
             n \notin FilesOf(vs.ver), \A i \in 1..Len(Mani.recs) : n \notin FilesOf(Mani.recs[i].add)
      PROVE  /\ TablesOK'
             /\ \A k \in Views(Mani) : FilesOf(PrefixVer(Mani.recs, k)) \subseteq ReadableTables'
             /\ FilesOf(vs.ver) \subseteq ReadableTables'
             /\ \A k \in Views(Mani) : \A m \in FilesOf(PrefixVer(Mani.recs, k)) : SameTable(m)
             /\ \A m \in FilesOf(vs.ver) : SameTable(m)
  <2>1. \A m : m # n => SameTable(m)
    BY <1>2 DEF With, SameTable
  <2>2. \A m : m \in ReadableTables /\ m # n => m \in ReadableTables'
    BY <1>2 DEF With, ReadableTables
  <2>3. \A k \in Views(Mani) : n \notin FilesOf(PrefixVer(Mani.recs, k))
    <3> SUFFICES ASSUME NEW k \in Views(Mani), NEW f \in PrefixVer(Mani.recs, k), f[1] = n  PROVE FALSE
      BY DEF FilesOf
    <3>1. k \in Nat /\ k \in 1..Len(Mani.recs) /\ Len(Mani.recs) \in Nat
      BY <1>0, ViewTypes
    <3>2. PICK i \in 1..k : f \in Mani.recs[i].add
      BY <3>1, PrefixFrom
    <3>3. i \in 1..Len(Mani.recs)
      BY <3>1
    <3> QED  BY <1>2, <3>2, <3>3 DEF FilesOf
  <2>4. TablesOK'
    BY <1>0, <1>2 DEF With, TablesOK
  <2> QED  BY <1>0, <1>2, <2>1, <2>2, <2>3, <2>4
<1>3. CASE bg.pc = "build" /\ mems[imm] # {} /\ tables' = With(tables, bg.num, mems[imm])
  <2>1. Unused(bg.num) /\ imm # 0 /\ imm \in DOMAIN mems
    BY <1>3 DEF Data, BgInv
  <2>2. mems[imm] \subseteq Entry
    BY <2>1 DEF Control, Typed, TypeMems
  <2>3. bg.num \notin FilesOf(vs.ver) /\ \A i \in 1..Len(Mani.recs) : bg.num \notin FilesOf(Mani.recs[i].add)
    BY <1>3, <2>1 DEF Unused, Disk, ExactInv
  <2> QED  BY <1>2, <1>3, <2>2, <2>3
<1>4. CASE /\ bg.pc = "compact" /\ bg.comp.out # 0
           /\ \/ tables' = With(tables, bg.comp.out, TableEntries(bg.comp.inputs))
              \/ tables' = With(tables, bg.comp.out, Garbage)
  <2>1. Unused(bg.comp.out) /\ bg.comp.inputs \subseteq vs.ver /\ bg.comp.inputs # {}
    BY <1>4 DEF Data, BgInv
  <2>2. TableEntries(bg.comp.inputs) \subseteq Entry /\ TableEntries(bg.comp.inputs) # {}
    BY <2>1, InputsReadable
  <2>3. bg.comp.out \notin FilesOf(vs.ver) /\ \A i \in 1..Len(Mani.recs) : bg.comp.out \notin FilesOf(Mani.recs[i].add)
    BY <1>4, <2>1 DEF Unused, Disk, ExactInv
  <2>4. Garbage # {}
    BY DEF Garbage
  <2> DEFINE n == bg.comp.out
             es == TableEntries(bg.comp.inputs)
  <2>5. n \notin FilesOf(vs.ver) /\ (\A i \in 1..Len(Mani.recs) : n \notin FilesOf(Mani.recs[i].add))
        /\ es # {} /\ es \subseteq Entry /\ (tables' = With(tables, n, es) \/ tables' = With(tables, n, Garbage))
    BY <1>4, <2>2, <2>3
  <2> HIDE DEF n, es
  <2> QED  BY <1>2, <2>4, <2>5
<1> QED  BY <1>1, <1>3, <1>4 DEF TablesWritten

(* What the invariant says of the manifest is kept from phase to phase.    *)
LEMMA WorkExact ==
  ASSUME Control, Data, Disk, Live, WorkFrame, bg.pc \notin {"install", "manifest"}
  PROVE  ExactInv'
<1>0. /\ Mani' = Mani /\ vs.mani \in DOMAIN manis /\ err \in BOOLEAN /\ err' \in {TRUE, err'}
      /\ \A i \in 1..Len(Mani.recs) : vs.next \notin FilesOf(Mani.recs[i].add)
  BY LiveMani, FreshNumber DEF WorkFrame, Mani, Control, Typed, TypeFlags
<1>1. ~err' => Exact(Mani, vs.ver, vs.log)
  BY DEF WorkFrame, Disk, ExactInv
<1>2. bg.pc = "compact" => bg.kind = "none"
  BY DEF Data, BgInv
<1>3. bg'.pc \notin {"install", "refused"}
  BY IdleFacts, FallenFacts DEF WorkFrame, PhaseChange
<1>4. ~err => Exact(Mani, vs.ver, vs.log) \/ bg.pc # "none"
  BY DEF Disk, ExactInv
<1>5. bg'.pc \in {"build", "compact", "manifest"} => \A k \in Views(Mani) : vs.ver \subseteq PrefixVer(Mani.recs, k)
  <2>1. CASE bg.pc = "none" /\ ~err
    BY <1>4, <2>1 DEF Exact
  <2>2. CASE bg.pc \in {"build", "compact"} \/ FlushFails
    BY <2>2 DEF Disk, ExactInv, FlushFails
  <2>3. bg'.pc \in {"build", "compact", "manifest"} => (bg.pc = "none" /\ ~err) \/ bg.pc \in {"build", "compact"} \/ FlushFails
    BY IdleFacts, FallenFacts DEF WorkFrame, PhaseChange
  <2> QED  BY <2>1, <2>2, <2>3
<1>6. \A k \in Views(Mani) : vs.log <= Mani.recs[k].log /\ Mani.recs[k].log <= mem
  BY DEF Disk, ExactInv
<1>7. bg'.comp.out # 0 /\ (bg'.pc \in {"build", "compact"} \/ bg'.kind = "flush")
         => \A i \in 1..Len(Mani.recs) : bg'.comp.out \notin FilesOf(Mani.recs[i].add)
  <2>1. bg.comp.out # 0 /\ (bg.pc \in {"build", "compact"} \/ FlushFails)
          => \A i \in 1..Len(Mani.recs) : bg.comp.out \notin FilesOf(Mani.recs[i].add)
    BY DEF Disk, ExactInv, FlushFails
  <2>2. bg'.comp.out # 0 /\ (bg'.pc \in {"build", "compact"} \/ bg'.kind = "flush")
          => bg'.comp.out = vs.next \/ (bg'.comp = bg.comp /\ (bg.pc \in {"build", "compact"} \/ FlushFails))
    BY IdleFacts, FallenFacts DEF WorkFrame, PhaseChange
  <2> QED  BY <1>0, <2>1, <2>2
<1>8. bg'.pc = "build" => bg'.num = vs.next
  BY IdleFacts, FallenFacts DEF WorkFrame, PhaseChange
<1>9. UNCHANGED <<mem, vs.ver, vs.log>>
  BY DEF WorkFrame
<1> QED  BY <1>0, <1>1, <1>3, <1>5, <1>6, <1>7, <1>8, <1>9 DEF ExactInv

(* Building tables keeps Disk.                                             *)
LEMMA WorkDisk ==
  ASSUME Control, Data, Disk, Running, Working
  PROVE  Disk'
<1>1. WorkFrame /\ Live /\ bg.pc # "install"
  BY WorkingFacts DEF Working
<1>2. bg.pc # "manifest"
  <2>1. CASE bg.pc = "manifest"
    BY <2>1 DEF Working, BackgroundStep, BackgroundStop, BackgroundFlush, BackgroundManual, BackgroundPick, WriteLevel0Table,
         FlushDone, MoveDone, CompactImm, OpenCompactionOutputFile, FinishCompactionOutputFile, CompactShutDown, CompactDone
  <2> QED  BY <2>1
<1>3. ExactInv'
  BY <1>1, <1>2, WorkExact
<1>4. /\ TablesOK'
      /\ \A k \in Views(Mani) : FilesOf(PrefixVer(Mani.recs, k)) \subseteq ReadableTables'
      /\ FilesOf(vs.ver) \subseteq ReadableTables'
  BY <1>1, WrittenTables DEF WorkFrame
<1>5. vs.mani \in DOMAIN manis
  BY <1>1, LiveMani
<1>6. \A n \in DOMAIN logs : logs[n].tear = 2 => hist.damaged
  BY DEF Disk, TearInv
<1>7. Live'
  BY <1>1 DEF WorkFrame, Live
<1> QED  BY <1>1, <1>3, <1>4, <1>5, <1>6, <1>7, LiveDisk DEF WorkFrame

-----------------------------------------------------------------------------
(* The manifest after LogAndApply wrote to it, well or not: what a crash   *)
(* may leave of it is what it might have left before, or all of it with    *)
(* the edit at its end.                                                    *)
NewView(f, k) ==
  /\ k = Len(Mani.recs) + 1 /\ f.recs[k] = bg.edit
  /\ Len(Mani.recs) \in Views(Mani)
  /\ PrefixVer(f.recs, k) = (PrefixVer(Mani.recs, Len(Mani.recs)) \ bg.edit.del) \cup bg.edit.add
OldView(f, k) ==
  k \in Views(Mani) /\ f.recs[k] = Mani.recs[k] /\ PrefixVer(f.recs, k) = PrefixVer(Mani.recs, k)

ManifestGrown(f) ==
  /\ FileOK(f, EditType) /\ f.recs # <<>> /\ f.synced >= Mani.synced
  /\ manis' = [manis EXCEPT ![vs.mani] = f]
  /\ \A k \in Views(f) : OldView(f, k) \/ NewView(f, k)
  /\ \A i \in 1..Len(f.recs) : (i \in 1..Len(Mani.recs) /\ f.recs[i] = Mani.recs[i]) \/ f.recs[i] = bg.edit
  /\ f.tear = 2 => hist'.damaged
  /\ (hist.damaged => hist'.damaged) /\ hist'.rootless = hist.rootless /\ hist'.promised = hist.promised
  /\ bg' \in BgType /\ bg'.pc \in {"install", "refused"}
  /\ bg'.kind = bg.kind /\ bg'.edit = bg.edit /\ bg'.num = bg.num /\ bg'.comp = bg.comp
  /\ bg'.pc = "install" => f.synced = Len(f.recs) /\ \A k \in Views(f) : NewView(f, k)
  /\ bg'.pc = "refused" => "manifest" \in plan.faults

(* What the manifest write of an edit makes of the manifest.               *)
LEMMA ManifestWritten ==
  ASSUME Control, Data, Disk, WriteManifest
  PROVE  \E f : ManifestGrown(f)
<1>0. /\ bg.edit \in EditType /\ bg \in BgType /\ bg.pc = "manifest" /\ hist \in HistType
  BY DEF Control, Typed, TypeBg, BgType, TypeHist, WriteManifest
<1>1. Live /\ vs.mani \in DOMAIN manis /\ FileOK(Mani, EditType) /\ Mani.recs # <<>> /\ Mani = manis[vs.mani]
  BY <1>0, BusyBg, LiveMani DEF Mani
<1>2. Mani.recs \in Seq(EditType) /\ Mani.synced \in Nat /\ Mani.synced <= Len(Mani.recs) /\ Len(Mani.recs) \in Nat
      /\ Mani.tear \in 0..2
  BY <1>1 DEF FileOK, FileType
<1>3. Mani.tear = 2 => hist.damaged
  BY <1>1 DEF Disk, TearInv
<1>4. Mani.tear = 0 => Len(Mani.recs) \in Views(Mani)
  BY <1>1, LastView
<1>5. ASSUME NEW f \in Appended(Mani, bg.edit)
      PROVE  /\ FileOK(f, EditType) /\ f.recs # <<>> /\ f.synced = Mani.synced
             /\ \A i \in 1..Len(f.recs) : (i \in 1..Len(Mani.recs) /\ f.recs[i] = Mani.recs[i]) \/ f.recs[i] = bg.edit
             /\ \A k \in Views(f) : OldView(f, k) \/ NewView(f, k)
             /\ \A k \in Views(SyncedFile(f)) : NewView(f, k)
             /\ FileOK(SyncedFile(f), EditType) /\ SyncedFile(f).recs = f.recs /\ SyncedFile(f).synced = Len(f.recs)
             /\ SyncedFile(f).synced >= Mani.synced /\ SyncedFile(f).tear = f.tear
  <2>1. FileOK(f, EditType) /\ f.synced = Mani.synced /\ f.recs \in {Mani.recs, Append(Mani.recs, bg.edit)}
    BY <1>0, <1>1, <1>2, AppendedFacts
  <2>2. \A i \in 1..Len(f.recs) : (i \in 1..Len(Mani.recs) /\ f.recs[i] = Mani.recs[i]) \/ f.recs[i] = bg.edit
    BY <1>0, <1>2, <2>1
  <2>3. f.recs # <<>> /\ Len(f.recs) >= Len(Mani.recs)
    BY <1>0, <1>1, <1>2, <2>1
  <2>4. FileOK(SyncedFile(f), EditType) /\ SyncedFile(f).recs = f.recs /\ SyncedFile(f).synced = Len(f.recs)
        /\ SyncedFile(f).tear = f.tear
    BY <2>1, SyncedFacts
  <2>5. ASSUME NEW k, k \in Views(f) \/ k \in Views(SyncedFile(f))
        PROVE  /\ OldView(f, k) \/ NewView(f, k)
               /\ k \in Views(SyncedFile(f)) => NewView(f, k)
    <3>1. /\ Mani.tear = 0 /\ f.recs = Append(Mani.recs, bg.edit)
          /\ \/ /\ k \in Views(Mani) /\ k \in 1..Len(Mani.recs)
                /\ f.recs[k] = Mani.recs[k] /\ PrefixVer(f.recs, k) = PrefixVer(Mani.recs, k)
             \/ /\ k = Len(Mani.recs) + 1 /\ f.recs[k] = bg.edit
                /\ PrefixVer(f.recs, k) = (PrefixVer(Mani.recs, Len(Mani.recs)) \ bg.edit.del) \cup bg.edit.add
          /\ k \in Views(SyncedFile(f)) => k = Len(f.recs) /\ f.recs[k] = bg.edit
      BY <1>0, <1>1, <2>5, AppendedViews
    <3>2. Len(f.recs) = Len(Mani.recs) + 1
      BY <1>0, <1>2, <3>1
    <3> QED  BY <1>2, <1>4, <3>1, <3>2 DEF OldView, NewView
  <2> QED  BY <1>2, <2>1, <2>2, <2>3, <2>4, <2>5
<1>6. ASSUME NEW p \in {"install", "refused"}, bg' = [bg EXCEPT !.pc = p]
      PROVE  /\ bg' \in BgType /\ bg'.pc = p
             /\ bg'.kind = bg.kind /\ bg'.edit = bg.edit /\ bg'.num = bg.num /\ bg'.comp = bg.comp
  BY <1>0, <1>6 DEF BgType
<1>7. CASE \E f \in Appended(Mani, bg.edit) :
             /\ manis' = [manis EXCEPT ![vs.mani] = SyncedFile(f)]
             /\ bg' = [bg EXCEPT !.pc = "install"]
             /\ hist' = [hist EXCEPT !.damaged = @ \/ f.tear = 2]
  <2>1. PICK f \in Appended(Mani, bg.edit) :
             /\ manis' = [manis EXCEPT ![vs.mani] = SyncedFile(f)]
             /\ bg' = [bg EXCEPT !.pc = "install"]
             /\ hist' = [hist EXCEPT !.damaged = @ \/ f.tear = 2]
    BY <1>7
  <2> DEFINE d == hist.damaged \/ f.tear = 2
             g == SyncedFile(f)
  <2>2. hist' = [hist EXCEPT !.damaged = d] /\ manis' = [manis EXCEPT ![vs.mani] = g]
    BY <2>1
  <2>3. /\ FileOK(g, EditType) /\ g.recs = f.recs /\ g.synced = Len(f.recs) /\ g.synced >= Mani.synced
        /\ \A k \in Views(g) : NewView(f, k)
        /\ f.recs # <<>>
        /\ \A i \in 1..Len(f.recs) : (i \in 1..Len(Mani.recs) /\ f.recs[i] = Mani.recs[i]) \/ f.recs[i] = bg.edit
        /\ g.tear = f.tear
    BY <1>5
  <2> HIDE DEF d, g
  <2>4. hist'.damaged = d /\ hist'.rootless = hist.rootless /\ hist'.promised = hist.promised
    BY <1>0, <2>2 DEF HistType
  <2>5. (g.tear = 2 => hist'.damaged) /\ (hist.damaged => hist'.damaged)
    BY <2>3, <2>4 DEF d
  <2>6. \A k \in Views(g) : NewView(g, k)
    BY <2>3 DEF NewView
  <2>7. /\ bg' \in BgType /\ bg'.pc = "install"
        /\ bg'.kind = bg.kind /\ bg'.edit = bg.edit /\ bg'.num = bg.num /\ bg'.comp = bg.comp
    BY <1>6, <2>1
  <2>8. ManifestGrown(g)
    BY <2>2, <2>3, <2>4, <2>5, <2>6, <2>7 DEF ManifestGrown
  <2> QED  BY <2>8
<1>8. CASE /\ "manifest" \in plan.faults
           /\ \E f \in AppendFailed(Mani) \cup Appended(Mani, bg.edit) :
                /\ manis' = [manis EXCEPT ![vs.mani] = f]
                /\ hist' = [hist EXCEPT !.damaged = @ \/ f.tear = 2]
           /\ bg' = [bg EXCEPT !.pc = "refused"]
  <2>1. PICK f \in AppendFailed(Mani) \cup Appended(Mani, bg.edit) :
                /\ manis' = [manis EXCEPT ![vs.mani] = f]
                /\ hist' = [hist EXCEPT !.damaged = @ \/ f.tear = 2]
    BY <1>8
  <2> DEFINE d == hist.damaged \/ f.tear = 2
  <2>2. hist' = [hist EXCEPT !.damaged = d]
    BY <2>1
  <2> HIDE DEF d
  <2>3. hist'.damaged = d /\ hist'.rootless = hist.rootless /\ hist'.promised = hist.promised
    BY <1>0, <2>2 DEF HistType
  <2>4. (f.tear = 2 => hist'.damaged) /\ (hist.damaged => hist'.damaged)
    BY <2>3 DEF d
  <2>5. /\ FileOK(f, EditType) /\ f.recs # <<>> /\ f.synced = Mani.synced
        /\ \A i \in 1..Len(f.recs) : (i \in 1..Len(Mani.recs) /\ f.recs[i] = Mani.recs[i]) \/ f.recs[i] = bg.edit
        /\ \A k \in Views(f) : OldView(f, k) \/ NewView(f, k)
    <3>1. CASE f \in AppendFailed(Mani)
      <4>1. /\ FileOK(f, EditType) /\ f.synced = Mani.synced /\ f.recs = Mani.recs /\ (f.tear = 2 => Mani.tear = 2)
            /\ f \in {Mani, [Mani EXCEPT !.tear = Max({@, 1})]}
        BY <1>1, <3>1, AppendFailedFacts DEF AppendFailed
      <4>2. Mani.tear = 2 => f.tear = 2
        <5> DEFINE t == Max({Mani.tear, 1})
        <5>1. Mani.tear = 2 => t = 2
          BY <1>2, MaxOfTwo
        <5>2. f \in {Mani, [Mani EXCEPT !.tear = t]}
          BY <4>1
        <5> HIDE DEF t
        <5> QED  BY <1>1, <5>1, <5>2 DEF FileOK, FileType
      <4>3. \A k \in Views(f) : OldView(f, k)
        BY <4>1, <4>2 DEF Views, OldView
      <4> QED  BY <1>1, <4>1, <4>3
    <3>2. CASE f \in Appended(Mani, bg.edit)
      BY <1>5, <3>2
    <3> QED  BY <2>1, <3>1, <3>2
  <2>6. /\ bg' \in BgType /\ bg'.pc = "refused"
        /\ bg'.kind = bg.kind /\ bg'.edit = bg.edit /\ bg'.num = bg.num /\ bg'.comp = bg.comp
    BY <1>6, <1>8
  <2>7. manis' = [manis EXCEPT ![vs.mani] = f] /\ "manifest" \in plan.faults
    BY <1>8, <2>1
  <2>8. ManifestGrown(f)
    BY <1>2, <2>3, <2>4, <2>5, <2>6, <2>7 DEF ManifestGrown
  <2> QED  BY <2>8
<1> QED  BY <1>1, <1>7, <1>8 DEF WriteManifest

(* The tables of the version that an edit makes.                           *)
LEMMA EditReadable ==
  ASSUME Control, Data, Disk, Live, bg.pc \in {"manifest", "install", "refused"}
  PROVE  /\ FilesOf(bg.edit.add) \subseteq ReadableTables
         /\ bg.edit.log \in {mem, vs.log} /\ bg.edit.add \subseteq File
         /\ bg.kind = "flush" => bg.edit.del = {} /\ bg.edit.log = mem
         /\ bg.kind = "flush" /\ bg.comp.out # 0 => bg.comp.out \notin FilesOf(bg.edit.add)
<1>0. TypeMems /\ TypeTables /\ TablesOK /\ bg \in BgType /\ bg.edit.add \subseteq File
  BY DEF Control, Typed, Disk, TypeBg, BgType, EditType
<1>1. FilesOf(vs.ver) \subseteq ReadableTables
  BY LiveMani DEF Disk, FilesInv, FilesOf
<1>2. CASE bg.kind = "flush" /\ FlushEditOK
  <2>1. imm \in DOMAIN mems /\ imm # 0
    BY <1>2 DEF Data, BgInv, FlushEditOK
  <2>2. mems[imm] \subseteq Entry
    BY <1>0, <2>1 DEF TypeMems
  <2>3. CASE bg.edit.add = {}
    BY <1>0, <1>2, <2>3 DEF FlushEditOK, FilesOf
  <2>4. CASE bg.edit.add # {}
    <3>1. FilesOf(bg.edit.add) = {bg.num} /\ bg.num \in DOMAIN tables /\ tables[bg.num] = mems[imm]
      BY <1>2, <2>4, FileOfOne, ZenonT(30) DEF FlushEditOK
    <3>2. bg.num \in ReadableTables
      BY <2>2, <3>1, ReadableEntries DEF ReadableTables
    <3>3. bg.comp.out # 0 => bg.comp.out # bg.num
      BY DEF Data, BgInv
    <3> QED  BY <1>0, <1>2, <3>1, <3>2, <3>3 DEF FlushEditOK
  <2> QED  BY <2>3, <2>4
<1>3. CASE bg.kind = "move" /\ MoveEditOK
  <2>1. FilesOf(bg.edit.add) = FilesOf(bg.edit.del)
    BY <1>3, FilesMoved DEF MoveEditOK
  <2>2. bg.edit.log = vs.log /\ bg.edit.del \subseteq vs.ver
    BY <1>3 DEF MoveEditOK
  <2>3. FilesOf(bg.edit.del) \subseteq FilesOf(vs.ver)
    BY <2>2 DEF FilesOf
  <2> QED  BY <1>0, <1>1, <1>3, <2>1, <2>2, <2>3
<1>4. CASE bg.kind = "compact" /\ CompactEditOK /\ bg.comp.inputs # {}
  <2>0. bg.edit.add = {<<bg.comp.out, 1>>} /\ bg.comp.out \in DOMAIN tables
        /\ tables[bg.comp.out] = TableEntries(bg.comp.inputs)
    BY <1>4 DEF CompactEditOK
  <2>1. FilesOf(bg.edit.add) = {bg.comp.out} /\ bg.comp.inputs \subseteq vs.ver
    <3>1. FilesOf(bg.edit.add) = {bg.comp.out}
      BY <2>0, FileOfOne
    <3>2. bg.comp.inputs \subseteq vs.ver
      BY DEF Data, BgInv
    <3> QED  BY <3>1, <3>2
  <2>2. TableEntries(bg.comp.inputs) \subseteq Entry
    BY <2>1, InputsReadable
  <2>3. bg.comp.out \in ReadableTables
    BY <2>0, <2>1, <2>2, ReadableEntries DEF ReadableTables
  <2> QED  BY <1>0, <1>4, <2>1, <2>3 DEF CompactEditOK
<1> QED  BY <1>2, <1>3, <1>4 DEF Data, BgInv

(* LogAndApply of the background thread: the edit is behind the others, or *)
(* perhaps it is.                                                          *)
LEMMA WriteManifestDisk ==
  ASSUME Control, Data, NoBlindReuse, Disk, Running, WriteManifest
  PROVE  Disk'
<1>1. PICK g : ManifestGrown(g)
  BY ManifestWritten
<1>2. UNCHANGED <<logs, tables, current, up, mem, imm, mems, vs, err, rc, plan>> /\ bg.pc = "manifest"
  BY DEF WriteManifest, memtables, flags, Running
<1>3. Live /\ Live'
  BY <1>2, BusyBg DEF Live
<1>4. /\ vs.mani \in DOMAIN manis /\ vs.mani = current /\ current # 0 /\ FileOK(Mani, EditType) /\ Mani = manis[vs.mani]
      /\ Mani.recs # <<>> /\ Roots = {vs.mani} /\ rc.stage = "none" /\ rc.add = {} /\ Based
  BY <1>3, LiveMani DEF Mani
<1>5. /\ DOMAIN manis' = DOMAIN manis /\ manis'[vs.mani] = g /\ Mani' = g
      /\ \A m \in DOMAIN manis : m # vs.mani => manis'[m] = manis[m]
  BY <1>1, <1>2, <1>4 DEF ManifestGrown, Mani
<1>6. /\ Roots' = {vs.mani} /\ ReadableTables' = ReadableTables /\ NewVer' = NewVer
  BY <1>1, <1>2, <1>4, <1>5 DEF Roots, ReadableTables, NewVer, ManifestGrown
<1>7. /\ FilesOf(bg.edit.add) \subseteq ReadableTables /\ bg.edit.log \in {mem, vs.log}
      /\ bg.kind = "flush" => bg.edit.del = {} /\ bg.edit.log = mem
      /\ bg.kind = "flush" /\ bg.comp.out # 0 => bg.comp.out \notin FilesOf(bg.edit.add)
  BY <1>2, <1>3, EditReadable
<1>8. ASSUME NEW k \in Views(g)
      PROVE  OldView(g, k) \/ NewView(g, k)
  BY <1>1 DEF ManifestGrown
<1>9. TablesOK'
  BY <1>2 DEF Disk, TablesOK
<1>10. FilesInv'
  <2>1. ASSUME NEW k \in Views(g)
        PROVE  FilesOf(PrefixVer(g.recs, k)) \subseteq ReadableTables
    <3>1. \A j \in Views(Mani) : FilesOf(PrefixVer(Mani.recs, j)) \subseteq ReadableTables
      BY <1>4 DEF Disk, FilesInv
    <3> QED  BY <1>7, <1>8, <3>1 DEF OldView, NewView, FilesOf
  <2>2. FilesOf(vs.ver \cup rc.add) \subseteq ReadableTables
    BY <1>4 DEF Disk, FilesInv
  <2> QED  BY <1>2, <1>5, <1>6, <2>1, <2>2 DEF FilesInv
<1>11. TearInv'
  BY <1>1, <1>2, <1>5 DEF Disk, TearInv, ManifestGrown
<1>12. RootInv'
  <2>1. \A i \in 1..Len(Mani.recs) : Mani.recs[i].next <= bg.edit.next /\ Mani.recs[i].next \in Nat
    BY <1>2, <1>3, <1>4, RecordTypes DEF Data, ManiInv, Control, Typed
  <2>2. \A j \in Views(Mani) : /\ current <= Mani.recs[j].next
                               /\ current < Mani.recs[j].next \/ hist.rootless
    BY <1>4 DEF Disk, RootInv
  <2>3. ASSUME NEW k \in Views(g)
        PROVE  current <= g.recs[k].next /\ (current < g.recs[k].next \/ hist.rootless)
    <3>1. CASE OldView(g, k)
      BY <2>2, <3>1 DEF OldView
    <3>2. CASE NewView(g, k)
      <4>1. Len(Mani.recs) \in Views(Mani) /\ Len(Mani.recs) \in 1..Len(Mani.recs)
        BY <1>4, <3>2, ViewTypes DEF NewView
      <4>2. current \in Nat /\ bg.edit.next \in Nat
        BY DEF Control, Typed, TypeManis, TypeBg, BgType, EditType
      <4> QED  BY <2>1, <2>2, <3>2, <4>1, <4>2 DEF NewView
    <3> QED  BY <1>8, <3>1, <3>2
  <2>4. g.synced >= Mani.synced /\ hist'.rootless = hist.rootless /\ g.synced \in Nat /\ Mani.synced \in Nat
    BY <1>1, <1>4 DEF ManifestGrown, FileOK, FileType
  <2>5. ~hist.rootless => Mani.synced > 0
    BY <1>4 DEF Disk, RootInv
  <2>6. 0 \notin DOMAIN manis
    BY DEF Disk, RootInv
  <2> QED  BY <1>2, <1>4, <1>5, <2>3, <2>4, <2>5, <2>6 DEF RootInv
<1>13. ReuseInv'
  <2>1. plan.reuse => g.synced = Len(g.recs)
    BY <1>1 DEF ManifestGrown, NoBlindReuse
  <2> QED  BY <1>2, <1>5, <2>1 DEF Disk, ReuseInv
<1>14. StageInv'
  BY <1>1, <1>2, <1>4, <1>5 DEF StageInv, ManifestGrown
<1>15. OpenExactInv'
  BY <1>2, <1>4 DEF OpenExactInv
<1>16. ExactInv'
  <2>1. ~err => Exact(Mani, vs.ver, vs.log)
    BY <1>2, <1>3 DEF Disk, ExactInv
  <2>2. \A k \in Views(Mani) : vs.ver \subseteq PrefixVer(Mani.recs, k)
    BY <1>2, <1>3 DEF Disk, ExactInv
  <2>3. /\ bg' \in BgType /\ bg'.pc \in {"install", "refused"}
        /\ bg'.kind = bg.kind /\ bg'.edit = bg.edit /\ bg'.num = bg.num /\ bg'.comp = bg.comp
        /\ bg'.pc = "install" => \A k \in Views(g) : NewView(g, k)
    BY <1>1 DEF ManifestGrown
  <2>4. ~err /\ bg'.pc = "install" => Exact(g, NewVer, bg.edit.log)
    BY <2>1, <2>3 DEF NewView, Exact, NewVer
  <2>5. bg.kind = "flush" => \A k \in Views(g) : vs.ver \subseteq PrefixVer(g.recs, k)
    BY <1>7, <1>8, <2>2 DEF OldView, NewView
  <2>6. bg'.pc = "install" => \A k \in Views(g) : NewVer \subseteq PrefixVer(g.recs, k) /\ bg.edit.log <= g.recs[k].log
    <3>1. bg.edit.log \in Nat
      BY DEF Control, Typed, TypeBg, BgType, EditType
    <3> QED  BY <2>2, <2>3, <3>1 DEF NewView, NewVer
  <2>7. \A k \in Views(g) : vs.log <= g.recs[k].log /\ g.recs[k].log <= mem
    <3>1. vs.log <= mem /\ vs.log \in Nat /\ mem \in Nat
      BY <1>4, LiveMani, <1>3 DEF Data, LogInv, Control, Typed, TypeVs, VsType, TypeMems
    <3>2. \A k \in Views(Mani) : vs.log <= Mani.recs[k].log /\ Mani.recs[k].log <= mem
      BY <1>3 DEF Disk, ExactInv
    <3> QED  BY <1>7, <1>8, <3>1, <3>2 DEF OldView, NewView
  <2>8. bg.comp.out # 0 /\ bg.kind = "flush" => \A i \in 1..Len(g.recs) : bg.comp.out \notin FilesOf(g.recs[i].add)
    <3>1. bg.comp.out # 0 /\ bg.kind = "flush" => \A i \in 1..Len(Mani.recs) : bg.comp.out \notin FilesOf(Mani.recs[i].add)
      BY <1>3 DEF Disk, ExactInv
    <3>2. \A i \in 1..Len(g.recs) : (i \in 1..Len(Mani.recs) /\ g.recs[i] = Mani.recs[i]) \/ g.recs[i] = bg.edit
      BY <1>1 DEF ManifestGrown
    <3> QED  BY <1>7, <3>1, <3>2
  <2> QED  BY <1>2, <1>5, <1>6, <2>3, <2>4, <2>5, <2>6, <2>7, <2>8 DEF ExactInv
<1> QED  BY <1>9, <1>10, <1>11, <1>12, <1>13, <1>14, <1>15, <1>16 DEF Disk

-----------------------------------------------------------------------------
(* The new version is installed; files are deleted only when the manifest  *)
(* says nothing else whatever a crash leaves of it.                        *)
LEMMA InstallDisk ==
  ASSUME Control, Data, Disk, Live, bg.pc = "install", UNCHANGED <<current, up, rc, plan, hist, err, mem>>,
         vs' = Installed, bg'.kind # "flush",
         \A n \in DOMAIN logs' : n \in DOMAIN logs /\ logs'[n] = logs[n],
         \A m \in DOMAIN manis' : m \in DOMAIN manis /\ manis'[m] = manis[m], vs.mani \in DOMAIN manis',
         \A n \in DOMAIN tables' : n \in DOMAIN tables /\ tables'[n] = tables[n],
         \A n \in FilesOf(NewVer) : SameTable(n), err => \A n : SameTable(n),
         (bg'.pc \in {"none", "segfault"} /\ bg'.comp.out = 0) \/ (bg'.pc = "compact" /\ bg'.comp = bg.comp /\ bg.kind = "flush")
  PROVE  Disk'
<1>1. /\ vs.mani \in DOMAIN manis /\ vs.mani = current /\ FileOK(Mani, EditType) /\ Roots = {vs.mani} /\ rc.add = {} /\ Based
      /\ Mani = manis[vs.mani]
  BY LiveMani DEF Mani
<1>2. vs'.ver = NewVer /\ vs'.log = bg.edit.log /\ vs'.mani = vs.mani
  BY InstalledFacts DEF NewVer
<1>3. Mani' = Mani /\ Live'
  BY <1>2 DEF Mani, Live
<1>4. FilesOf(NewVer) \subseteq ReadableTables
  <2>1. FilesOf(bg.edit.add) \subseteq ReadableTables
    BY EditReadable
  <2>2. FilesOf(vs.ver) \subseteq ReadableTables
    BY <1>1 DEF Disk, FilesInv, FilesOf
  <2> QED  BY <2>1, <2>2 DEF NewVer, FilesOf
<1>5. \A n \in ReadableTables : SameTable(n) => n \in ReadableTables'
  BY DEF ReadableTables, SameTable
<1>6. FilesOf(vs'.ver) \subseteq ReadableTables'
  BY <1>2, <1>4, <1>5
<1>7. \A k \in Views(Mani) : FilesOf(PrefixVer(Mani.recs, k)) \subseteq ReadableTables'
  <2>1. CASE err
    <3>1. \A k \in Views(Mani) : FilesOf(PrefixVer(Mani.recs, k)) \subseteq ReadableTables
      BY <1>1 DEF Disk, FilesInv
    <3> QED  BY <1>5, <2>1, <3>1
  <2>2. CASE ~err
    <3>1. Exact(Mani, NewVer, bg.edit.log)
      BY <2>2 DEF Disk, ExactInv
    <3> QED  BY <1>2, <1>6, <3>1 DEF Exact
  <2> QED  BY <2>1, <2>2
<1>8. TablesOK'
  BY DEF Disk, TablesOK
<1>9. ExactInv'
  <2>1. ~err => Exact(Mani, NewVer, bg.edit.log)
    BY DEF Disk, ExactInv
  <2>2. \A k \in Views(Mani) : /\ NewVer \subseteq PrefixVer(Mani.recs, k)
                               /\ bg.edit.log <= Mani.recs[k].log
                               /\ Mani.recs[k].log <= mem
    BY DEF Disk, ExactInv
  <2>3. bg.kind = "flush" /\ bg.comp.out # 0 => \A i \in 1..Len(Mani.recs) : bg.comp.out \notin FilesOf(Mani.recs[i].add)
    BY DEF Disk, ExactInv
  <2> QED  BY <1>2, <1>3, <2>1, <2>2, <2>3 DEF ExactInv
<1>10. /\ \A n \in DOMAIN logs' : logs'[n].tear = 2 => hist'.damaged
       /\ hist.damaged => hist'.damaged
       /\ hist'.rootless = hist.rootless
  BY DEF Disk, TearInv
<1> QED  BY <1>2, <1>3, <1>6, <1>7, <1>8, <1>9, <1>10, LiveDisk

(* Installing the version that the manifest has, and deleting what it does *)
(* not need, keeps Disk.                                                   *)
LEMMA InstallsDisk ==
  ASSUME Control, Data, Disk, Running, FlushDone \/ MoveDone \/ CompactDone, bg.pc = "install"
  PROVE  Disk'
<1>0. /\ Live /\ UNCHANGED <<current, up, rc, plan, hist, err, mem>> /\ vs' = Installed /\ err \in BOOLEAN
      /\ bg \in BgType /\ bg.comp \in CompType
  BY BusyBg DEF FlushDone, MoveDone, CompactDone, disk, memtables, Running, Control, Typed, TypeFlags, TypeBg, BgType
<1>1. Installed.ver = NewVer /\ Installed.mani = vs.mani /\ vs.mani \in DOMAIN manis /\ vs.mani \in Nat
  BY <1>0, InstalledFacts, LiveMani DEF NewVer, Control, Typed, TypeManis
<1>2. CASE MoveDone
  <2>1. UNCHANGED <<logs, tables, manis>> /\ bg' = IdleBg
    BY <1>2 DEF MoveDone, disk, BgEnd
  <2> QED  BY <1>0, <1>1, <2>1, IdleFacts, InstallDisk DEF SameTable
<1>3. ASSUME NEW pend, NEW inputs, DeleteObsoleteFiles(tables, Installed, pend, inputs, err)
      PROVE  /\ \A n \in DOMAIN logs' : n \in DOMAIN logs /\ logs'[n] = logs[n]
             /\ \A m \in DOMAIN manis' : m \in DOMAIN manis /\ manis'[m] = manis[m]
             /\ vs.mani \in DOMAIN manis'
             /\ \A n \in DOMAIN tables' : n \in DOMAIN tables /\ tables'[n] = tables[n]
             /\ \A n \in FilesOf(NewVer) : SameTable(n)
             /\ err => \A n : SameTable(n)
  <2> DEFINE v == Installed
  <2>1. v.ver = NewVer /\ v.mani = vs.mani /\ DeleteObsoleteFiles(tables, v, pend, inputs, err)
    BY <1>1, <1>3
  <2> HIDE DEF v
  <2>2. FilesOf(NewVer) \subseteq LiveFiles(v, pend, inputs)
    BY <2>1 DEF LiveFiles
  <2>3. err => tables' = tables
    BY <2>1 DEF DeleteObsoleteFiles
  <2> QED  BY <1>0, <1>1, <2>1, <2>2, <2>3, DeleteFacts DEF SameTable
<1>4. CASE FlushDone
  <2>1. /\ bg.kind = "flush" /\ DeleteObsoleteFiles(tables, Installed, pending, FilesOf(bg.comp.inputs), err)
        /\ bg' = IdleBg \/ bg' = [IdleBg EXCEPT !.pc = "compact", !.comp = bg.comp]
    BY <1>4 DEF FlushDone, BgEnd
  <2>2. CASE bg' = IdleBg
    BY <1>0, <1>3, <2>1, <2>2, IdleFacts, InstallDisk
  <2>3. CASE bg' = [IdleBg EXCEPT !.pc = "compact", !.comp = bg.comp]
    <3>1. bg'.pc = "compact" /\ bg'.comp = bg.comp /\ bg'.kind = "none"
      BY <1>0, <2>3, IdleFacts DEF BgType
    <3> QED  BY <1>0, <1>3, <2>1, <3>1, InstallDisk
  <2> QED  BY <2>1, <2>2, <2>3
<1>5. CASE CompactDone
  <2>1. DeleteObsoleteFiles(tables, Installed, pending', {}, err) /\ CompactEnd(Installed, err, FALSE) /\ sched \in BOOLEAN
    BY <1>5 DEF CompactDone, Control, Typed, TypeFlags
  <2>2. bg' \in {IdleBg, FallenBg}
    BY <2>1, CompactEnded
  <2>3. bg'.pc \in {"none", "segfault"} /\ bg'.comp.out = 0 /\ bg'.kind # "flush"
    BY <2>2, IdleFacts, FallenFacts DEF NoComp
  <2> QED  BY <1>0, <1>3, <2>1, <2>3, InstallDisk
<1> QED  BY <1>2, <1>4, <1>5

(* Every step of the background thread.                                    *)
LEMMA BackgroundDisk ==
  ASSUME Control, Data, NoBlindReuse, Disk, BackgroundStep, Running
  PROVE  Disk'
<1>1. CASE WriteManifest
  BY <1>1, WriteManifestDisk
<1>2. CASE bg.pc = "install" /\ ~WriteManifest
  <2>1. FlushDone \/ MoveDone \/ CompactDone
    <3>1. BackgroundStep => bg.pc \in {"none", "build", "compact"} \/ FlushDone \/ MoveDone \/ CompactDone
      BY <1>2 DEF BackgroundStep, BackgroundStop, BackgroundFlush, BackgroundManual, BackgroundPick, WriteLevel0Table, CompactImm,
         OpenCompactionOutputFile, FinishCompactionOutputFile, CompactShutDown
    <3> QED  BY <1>2, <3>1
  <2> QED  BY <1>2, <2>1, InstallsDisk
<1>3. CASE bg.pc # "install" /\ ~WriteManifest
  BY <1>3, WorkDisk DEF Working
<1> QED  BY <1>1, <1>2, <1>3

-----------------------------------------------------------------------------
(* The destructor begins: nothing on disk changes.                         *)
LEMMA CloseDisk ==
  ASSUME Control, Data, Disk, Close, rc' = rc, plan' = plan
  PROVE  Disk'
<1>1. UNCHANGED <<logs, tables, manis, current, mem, vs, err, bg, hist>> /\ Live /\ Live'
  BY DEF Close, disk, memtables, Live
<1>2. /\ vs.mani \in DOMAIN manis /\ Roots = {vs.mani} /\ Based /\ rc.add = {}
  BY <1>1, LiveMani
<1>3. ExactInv' /\ TablesOK' /\ ReadableTables' = ReadableTables
  BY <1>1 DEF Disk, ExactInv, Mani, NewVer, TablesOK, ReadableTables
<1>4. /\ \A k \in Views(Mani) : FilesOf(PrefixVer(Mani.recs, k)) \subseteq ReadableTables
      /\ FilesOf(vs.ver) \subseteq ReadableTables
  BY <1>2 DEF Disk, FilesInv, Mani
<1>5. \A n \in DOMAIN logs' : logs'[n].tear = 2 => hist'.damaged
  BY <1>1 DEF Disk, TearInv
<1> QED  BY <1>1, <1>2, <1>3, <1>4, <1>5, LiveDisk

(* A database that is closed: only its files count.                        *)
LEMMA ClosedDisk ==
  ASSUME up' = "closed", rc' = IdleRc, TablesOK', TearInv', RootInv', ReuseInv',
         current' \in DOMAIN manis' =>
           \A k \in Views(manis'[current']) : FilesOf(PrefixVer(manis'[current'].recs, k)) \subseteq ReadableTables'
  PROVE  Disk'
<1>1. rc'.stage = "none" /\ ~Live' /\ ~Based'
  BY IdleTypes DEF Live, Based
<1>2. Roots' \subseteq {current'} /\ Roots' \subseteq DOMAIN manis'
  BY <1>1 DEF Roots
<1>3. FilesInv'
  BY <1>1, <1>2 DEF FilesInv
<1> QED  BY <1>1, <1>3 DEF Disk, StageInv, ExactInv, OpenExactInv

(* What a closed database needs, when no file changes.                     *)
LEMMA SameFilesDisk ==
  ASSUME Control, Data, Disk, UNCHANGED <<logs, tables, manis, current, hist, plan>>, up' = "closed", rc' = IdleRc
  PROVE  Disk'
<1>1. rc'.stage = "none"
  BY IdleTypes
<1>2. TablesOK' /\ TearInv' /\ ReuseInv'
  BY DEF Disk, TablesOK, TearInv, ReuseInv
<1>3. RootInv'
  BY <1>1 DEF Disk, RootInv
<1>4. current \in DOMAIN manis => \A k \in Views(manis[current]) : FilesOf(PrefixVer(manis[current].recs, k)) \subseteq ReadableTables
  BY DEF Disk, FilesInv, Roots
<1>5. ReadableTables' = ReadableTables
  BY DEF ReadableTables
<1> QED  BY <1>2, <1>3, <1>4, <1>5, ClosedDisk

(* The end of ~DBImpl keeps Disk: whatever it had of the manifest is exact *)
(* or longer.                                                              *)
LEMMA CloseDoneDisk ==
  ASSUME Control, Data, Disk, CloseDone, plan' = plan
  PROVE  Disk'
BY SameFilesDisk DEF CloseDone, disk, ResetMemory

(* A process that dies of a null pointer leaves its files.                 *)
LEMMA SegfaultDisk ==
  ASSUME Control, Data, Disk, Segfault, plan' = plan
  PROVE  Disk'
<1>1. /\ UNCHANGED <<tables, manis, current, hist>> /\ up' = "closed" /\ rc' = IdleRc
      /\ DOMAIN logs' = DOMAIN logs /\ \A n \in DOMAIN logs : logs'[n].tear = 2 => logs[n].tear = 2
  BY SegfaultFacts DEF ResetMemory, Control, Typed
<1>2. rc'.stage = "none"
  BY <1>1, IdleTypes
<1>3. TablesOK' /\ ReuseInv' /\ ReadableTables' = ReadableTables
  BY <1>1 DEF Disk, TablesOK, ReuseInv, ReadableTables
<1>4. TearInv'
  BY <1>1 DEF Disk, TearInv
<1>5. RootInv'
  BY <1>1, <1>2 DEF Disk, RootInv
<1>6. current \in DOMAIN manis => \A k \in Views(manis[current]) : FilesOf(PrefixVer(manis[current].recs, k)) \subseteq ReadableTables
  BY DEF Disk, FilesInv, Roots
<1> QED  BY <1>1, <1>3, <1>4, <1>5, <1>6, ClosedDisk

(* DestroyDB leaves nothing.                                               *)
LEMMA DestroyDisk ==
  ASSUME Control, Data, Disk, DestroyDB, plan' = plan
  PROVE  Disk'
<1>1. /\ DOMAIN logs' = {} /\ DOMAIN tables' = {} /\ DOMAIN manis' = {} /\ current' = 0 /\ up' = "closed"
      /\ rc' = rc /\ up = "closed"
  BY DEF DestroyDB, NoFiles
<1>2. rc' = IdleRc /\ rc'.stage = "none"
  BY <1>1, IdleTypes DEF Control, Stages
<1>3. hist'.promised = {} /\ hist'.rootless
  BY DEF DestroyDB, Control, Typed, TypeHist, HistType
<1>4. TablesOK' /\ TearInv' /\ ReuseInv' /\ RootInv'
  BY <1>1, <1>2, <1>3 DEF TablesOK, TearInv, ReuseInv, RootInv
<1> QED  BY <1>1, <1>2, <1>4, ClosedDisk

(* What survives the crash of the machine is among what might have.        *)
LEMMA CrashDisk ==
  ASSUME Control, Data, Disk, Control', Crash, plan' = plan
  PROVE  Disk'
<1>0. up' = "closed" /\ rc' = IdleRc /\ current' = current /\ hist \in HistType
  BY DEF Crash, ResetMemory, Control, Typed, TypeHist
<1>1. /\ DOMAIN logs' = DOMAIN logs /\ DOMAIN manis' = DOMAIN manis
      /\ \A n \in DOMAIN logs : logs'[n].tear = 2 <=> logs[n].tear = 2
      /\ \A m \in DOMAIN manis :
           /\ FileOK(manis'[m], EditType) /\ manis'[m].synced = manis[m].synced
           /\ Len(manis'[m].recs) <= Len(manis[m].recs)
           /\ \A i \in 1..Len(manis'[m].recs) : manis'[m].recs[i] = manis[m].recs[i]
           /\ manis'[m].tear = 2 <=> manis[m].tear = 2
      /\ \A n \in DOMAIN tables : n \in DOMAIN tables' /\ tables'[n] = tables[n]
      /\ \A n \in DOMAIN tables' : n \notin DOMAIN tables => tables'[n] = Garbage
  BY CrashFacts
<1>2. \A m \in DOMAIN manis : FileOK(manis[m], EditType) /\ Len(manis[m].recs) \in Nat /\ manis[m].synced \in Nat
                              /\ Len(manis'[m].recs) \in Nat /\ manis'[m].synced <= Len(manis'[m].recs)
  BY <1>1 DEF Control, Typed, TypeManis, FileOK, FileType
<1>3. hist'.rootless = hist.rootless /\ hist'.promised = hist.promised /\ (hist.damaged => hist'.damaged)
  <2> DEFINE d == hist.damaged \/ up = "repairing"
  <2>1. hist' = [hist EXCEPT !.damaged = d]
    BY DEF Crash
  <2>2. hist.damaged => d
    OBVIOUS
  <2> HIDE DEF d
  <2> QED  BY <1>0, <2>1, <2>2 DEF HistType
<1>4. rc'.stage = "none"
  BY <1>0, IdleTypes
<1>5. TablesOK'
  <2>1. Garbage # {}
    BY DEF Garbage
  <2> QED  BY <1>1, <2>1 DEF Disk, TablesOK
<1>6. TearInv'
  BY <1>1, <1>3 DEF Disk, TearInv
<1>7. ASSUME NEW m \in DOMAIN manis, NEW k \in Views(manis'[m])
      PROVE  /\ k \in Views(manis[m]) /\ manis'[m].recs[k] = manis[m].recs[k]
             /\ PrefixVer(manis'[m].recs, k) = PrefixVer(manis[m].recs, k)
  BY <1>1, <1>2, CutViews
<1>8. RootInv'
  BY <1>0, <1>1, <1>3, <1>4, <1>7 DEF Disk, RootInv
<1>9. ReuseInv'
  <2>1. ASSUME plan.reuse, NEW m \in DOMAIN manis
        PROVE  manis'[m].synced = Len(manis'[m].recs) \/ Len(manis'[m].recs) <= 1
    <3>1. manis[m].synced = Len(manis[m].recs) \/ Len(manis[m].recs) <= 1
      BY <2>1 DEF Disk, ReuseInv
    <3> QED  BY <1>1, <1>2, <3>1
  <2> QED  BY <1>1, <2>1 DEF ReuseInv
<1>10. ReadableTables \subseteq ReadableTables'
  BY <1>1 DEF ReadableTables
<1>11. current \in DOMAIN manis => \A k \in Views(manis[current]) : FilesOf(PrefixVer(manis[current].recs, k)) \subseteq ReadableTables
  BY DEF Disk, FilesInv, Roots
<1>12. current' \in DOMAIN manis' =>
           \A k \in Views(manis'[current']) : FilesOf(PrefixVer(manis'[current'].recs, k)) \subseteq ReadableTables'
  BY <1>0, <1>1, <1>7, <1>10, <1>11
<1> QED  BY <1>0, <1>5, <1>6, <1>8, <1>9, <1>12, ClosedDisk

-----------------------------------------------------------------------------
(* A database without a version set: only its files count, too.            *)
LEMMA UnbasedDisk ==
  ASSUME ~Based', rc'.stage \notin {"logs", "apply", "current", "clean"}, TablesOK', TearInv', RootInv', ReuseInv',
         \A m \in Roots' : \A k \in Views(manis'[m]) : FilesOf(PrefixVer(manis'[m].recs, k)) \subseteq ReadableTables'
  PROVE  Disk'
BY DEF Disk, FilesInv, StageInv, ExactInv, OpenExactInv, Based, Live

(* The version of a single edit.                                           *)
LEMMA OneRecordVer ==
  ASSUME NEW e \in EditType
  PROVE  PrefixVer(<<e>>, 1) = e.add
<1> DEFINE s == <<e>>
<1>1. s[1] = e
  OBVIOUS
<1> HIDE DEF s
<1>2. PrefixVer(s, 1) = e.add
  BY <1>1 DEF PrefixVer
<1> QED  BY <1>2 DEF s

(* Open begins, with a first manifest if there was none.                   *)
LEMMA OpenBeginDisk ==
  ASSUME Control, Data, Disk, Control', OpenBegin, plan' = plan
  PROVE  Disk'
<1>0. /\ up = "closed" /\ up' = "opening" /\ UNCHANGED <<logs, tables>> /\ NewDB /\ rc = IdleRc
      /\ hist \in HistType
  BY DEF OpenBegin, Control, Stages, Typed, TypeHist
<1>1. rc'.stage = "read" /\ rc.stage = "none" /\ ~Based'
  <2>1. rc' = [IdleRc EXCEPT !.stage = "read", !.reuse = plan.reuse]
    BY DEF OpenBegin
  <2> QED  BY <1>0, <2>1, IdleTypes DEF RcType, Based, Live
<1>2. TablesOK' /\ ReadableTables' = ReadableTables
  BY <1>0 DEF Disk, TablesOK, ReadableTables
<1>3. current \in DOMAIN manis => \A k \in Views(manis[current]) : FilesOf(PrefixVer(manis[current].recs, k)) \subseteq ReadableTables
  BY DEF Disk, FilesInv, Roots
<1>4. CASE current # 0
  <2>1. UNCHANGED <<manis, current, hist>>
    BY <1>0, <1>4 DEF NewDB
  <2>2. TearInv' /\ ReuseInv'
    BY <1>0, <2>1 DEF Disk, TearInv, ReuseInv
  <2>3. RootInv'
    BY <1>0, <1>1, <2>1 DEF Disk, RootInv
  <2>4. Roots' \subseteq {current} /\ Roots' \subseteq DOMAIN manis
    BY <1>1, <2>1 DEF Roots
  <2> QED  BY <1>1, <1>2, <1>3, <2>1, <2>2, <2>3, <2>4, UnbasedDisk
<1>5. CASE current = 0
  <2> DEFINE e == [add |-> {}, del |-> {}, log |-> 0, next |-> 2, seq |-> 0]
             g == [EmptyFile EXCEPT !.recs = <<e>>]
  <2>1. manis' = With(manis, 1, g) /\ current' = 1 /\ hist' = [hist EXCEPT !.rootless = TRUE]
    BY <1>0, <1>5 DEF NewDB
  <2>2. e \in EditType /\ e.log < e.next /\ (\A f \in e.add : f[1] < e.next) /\ e.add = {} /\ e.next = 2
    BY DEF EditType, File
  <2>3. g.recs = <<e>> /\ g.synced = 0 /\ g.tear = 0 /\ Len(g.recs) = 1 /\ PrefixVer(g.recs, 1) = {}
    <3> HIDE DEF e
    <3>1. Len(<<e>>) = 1
      OBVIOUS
    <3> QED  BY <2>2, <3>1, OneRecord, OneRecordVer
  <2>4. <<e>>[1].next = 2
    BY <2>2
  <2> HIDE DEF e, g
  <2>5. Views(g) = {1} /\ g.recs[1].next = 2
    BY <2>3, <2>4 DEF Views
  <2>6. DOMAIN manis' = DOMAIN manis \cup {1} /\ manis'[1] = g /\ \A m \in DOMAIN manis : m # 1 => manis'[m] = manis[m]
    BY <2>1 DEF With
  <2>7. hist'.rootless /\ hist'.promised = hist.promised /\ hist'.damaged = hist.damaged
    BY <1>0, <2>1 DEF HistType
  <2>8. TearInv'
    BY <1>0, <2>3, <2>6, <2>7 DEF Disk, TearInv
  <2>9. ReuseInv'
    <3>1. Len(g.recs) <= 1
      BY <2>3
    <3>2. plan' = plan
      OBVIOUS
    <3>3. ReuseInv
      BY DEF Disk
    <3> QED  BY <2>6, <3>1, <3>2, <3>3 DEF ReuseInv
  <2>10. RootInv'
    BY <1>0, <1>1, <2>1, <2>5, <2>6, <2>7 DEF Disk, RootInv
  <2>11. Roots' = {1}
    BY <1>1, <2>1, <2>6 DEF Roots
  <2>12. FilesOf(PrefixVer(g.recs, 1)) = {}
    BY <2>3 DEF FilesOf
  <2> QED  BY <1>1, <1>2, <2>5, <2>6, <2>8, <2>9, <2>10, <2>11, <2>12, UnbasedDisk
<1> QED  BY <1>4, <1>5

(* The manifest is read: what it says is the version of the database.      *)
LEMMA OpenReadDisk ==
  ASSUME Control, Data, Disk, Control', OpenRead, plan' = plan
  PROVE  Disk'
<1>0. /\ UNCHANGED <<logs, tables, manis, current, hist>> /\ rc.stage = "read" /\ up = "opening" /\ ~Live
      /\ rc \in RcType /\ rc.add = {} /\ rc.reuse = plan.reuse /\ current \in Nat
  BY DEF OpenRead, disk, Live, Control, Typed, TypeRc, Stages, TypeManis
<1>1. CASE OpenFail
  BY <1>0, <1>1, SameFilesDisk DEF OpenFail, ResetMemory
<1>2. CASE ~OpenFail
  <2> DEFINE g == manis[current]
             d == Replay(g.recs)
  <2>1. /\ ManifestReadable
        /\ vs' = [ver |-> d.ver, log |-> d.log, next |-> d.next + 1,
                  mani |-> ReuseManifest(d), seq |-> d.seq, seek |-> FALSE]
        /\ rc' = [rc EXCEPT !.stage = "logs", !.save = ~rc.reuse, !.todo = {n \in DOMAIN logs : n >= d.log}]
        /\ UNCHANGED <<up, bg>>
    BY <1>2 DEF OpenRead
  <2>2. /\ current \in DOMAIN manis /\ g.recs # <<>> /\ g.tear # 2 /\ FileOK(g, EditType) /\ g.recs \in Seq(EditType)
        /\ ManifestOK(g.recs)
    BY <2>1 DEF ManifestReadable, Control, Typed, TypeManis, FileOK, FileType, Data, ManiInv
  <2>3. Len(g.recs) \in Views(g) /\ Len(g.recs) \in 1..Len(g.recs)
    BY <2>2, LastView
  <2> HIDE DEF g
  <2>4. /\ d.ver = PrefixVer(g.recs, Len(g.recs)) /\ d.log = g.recs[Len(g.recs)].log /\ d.next = g.recs[Len(g.recs)].next
        /\ d.next \in Nat /\ \A i \in 1..Len(g.recs) : g.recs[i].next <= d.next /\ g.recs[i].next \in Nat
    <3>1. \A i \in 1..Len(g.recs) : g.recs[i].next \in Nat
      <4>1. \A i \in 1..Len(g.recs) : g.recs[i] \in EditType
        BY <2>2
      <4> QED  BY <4>1 DEF EditType
    <3> QED  BY <2>2, <3>1, ReplayFacts, ReplayIsPrefix
  <2> HIDE DEF d
  <2>5. /\ vs'.ver = d.ver /\ vs'.log = d.log /\ vs'.next = d.next + 1 /\ vs'.mani = IF rc.reuse THEN current ELSE d.next
    BY <2>1 DEF ReuseManifest
  <2>6. /\ rc'.stage = "logs" /\ rc'.reuse = rc.reuse /\ rc'.add = {}
    <3> DEFINE t == {n \in DOMAIN logs : n >= d.log}
    <3>1. rc' = [rc EXCEPT !.stage = "logs", !.save = ~rc.reuse, !.todo = t]
      BY <2>1
    <3> HIDE DEF t
    <3> QED  BY <1>0, <3>1 DEF RcType
  <2>7. /\ 0 \notin DOMAIN manis
        /\ \A k \in Views(g) : /\ current <= g.recs[k].next
                               /\ current < g.recs[k].next \/ hist.rootless
        /\ \A k \in Views(g) : FilesOf(PrefixVer(g.recs, k)) \subseteq ReadableTables
    BY <2>2 DEF Disk, RootInv, FilesInv, Roots, g
  <2>8. TablesOK' /\ TearInv' /\ ReuseInv' /\ RootInv' /\ ReadableTables' = ReadableTables
    BY <1>0, <2>6 DEF Disk, TablesOK, TearInv, ReuseInv, RootInv, ReadableTables
  <2>9. FilesInv'
    <3>1. Roots' = {current}
      BY <1>0, <2>2, <2>6 DEF Roots
    <3>2. vs'.ver \cup rc'.add = PrefixVer(g.recs, Len(g.recs))
      BY <2>4, <2>5, <2>6
    <3>3. \A k \in Views(manis'[current]) : FilesOf(PrefixVer(manis'[current].recs, k)) \subseteq ReadableTables'
      BY <1>0, <2>7, <2>8 DEF g
    <3>4. FilesOf(vs'.ver \cup rc'.add) \subseteq ReadableTables'
      BY <2>3, <2>7, <2>8, <3>2
    <3> QED  BY <3>1, <3>3, <3>4 DEF FilesInv
  <2>10. ~Live'
    BY <1>0, <2>1 DEF Live
  <2>11. StageInv'
    <3>1. current # 0 /\ d.next # 0
      BY <1>0, <2>2, <2>3, <2>4, <2>7
    <3>2. vs'.mani # 0 /\ vs'.mani < vs'.next
      BY <1>0, <2>3, <2>4, <2>5, <2>7, <3>1
    <3>3. IF rc'.reuse THEN vs'.mani = current ELSE vs'.mani # current \/ hist.rootless
      BY <1>0, <2>3, <2>4, <2>5, <2>6, <2>7
    <3>4. \A i \in 1..Len(g.recs) : g.recs[i].next < vs'.next
      BY <2>4, <2>5
    <3> QED  BY <1>0, <2>2, <2>6, <2>10, <3>2, <3>3, <3>4 DEF StageInv, g
  <2>12. OpenExactInv'
    <3>1. rc.reuse => Exact(g, d.ver, d.log)
      <4>1. ASSUME rc.reuse PROVE \A k \in Views(g) : k = Len(g.recs)
        <5>1. g.synced = Len(g.recs) \/ Len(g.recs) <= 1
          BY <1>0, <2>2, <4>1 DEF Disk, ReuseInv, g
        <5> QED  BY <2>2, <5>1, SyncedViews
      <4> QED  BY <2>4, <4>1 DEF Exact
    <3> QED  BY <1>0, <2>5, <2>6, <3>1 DEF OpenExactInv, Mani, g
  <2>13. ExactInv'
    BY <2>10 DEF ExactInv
  <2> QED  BY <2>8, <2>9, <2>11, <2>12, <2>13 DEF Disk
<1> QED  BY <1>1, <1>2

-----------------------------------------------------------------------------
(* What becomes of a log that is replayed: it is kept in use, it holds     *)
(* nothing, or its records are a table now.                                *)
RecoveredLog(n) ==
  /\ UNCHANGED <<logs, manis, current, hist, up, bg>>
  /\ n \in rc.todo /\ n \in DOMAIN logs /\ n # 0 /\ RecordsOf(n) \subseteq Entry
  /\ vs'.ver = vs.ver /\ vs'.log = vs.log /\ vs'.mani = vs.mani /\ vs'.next \in Nat /\ vs'.next >= vs.next
  /\ rc'.stage = "logs" /\ rc'.reuse = rc.reuse /\ rc'.todo = rc.todo \ {n}
  /\ \/ /\ rc.reuse /\ rc.todo = {n} /\ tables' = tables /\ rc'.add = rc.add /\ rc'.save = rc.save
        /\ mem' = n /\ mems' = With(mems, n, RecordsOf(n))
     \/ /\ RecordsOf(n) = {} /\ tables' = tables /\ rc'.add = rc.add /\ rc'.save = rc.save
        /\ mem' = mem /\ mems' = mems
     \/ /\ RecordsOf(n) # {} /\ tables' = With(tables, vs.next, RecordsOf(n))
        /\ rc'.add = rc.add \cup {<<vs.next, 0>>} /\ rc'.save
        /\ mem' = mem /\ mems' = mems

(* What the replay of a log changes.                                       *)
LEMMA RecoverLogFacts ==
  ASSUME Control, Data, RecoverLogFile
  PROVE  (OpenFail /\ UNCHANGED <<logs, tables, manis, current, hist>>) \/ \E n : RecoveredLog(n)
<1>0. /\ rc.stage = "logs" /\ up = "opening" /\ rc \in RcType /\ vs \in VsType
      /\ rc.todo # {} /\ rc.todo \subseteq Nat
      /\ UNCHANGED <<logs, manis, current, hist>>
  BY DEF RecoverLogFile, Control, Typed, TypeRc, RcType, TypeVs, Stages
<1> DEFINE n == Min(rc.todo)
           es == RecordsOf(n)
           kept == rc.reuse /\ rc.todo = {n}
           made == ~kept /\ es # {}
           base == vs.next + (IF made THEN 1 ELSE 0)
           used == NextBehind(base, n)
<1>1. n \in rc.todo /\ n \in Nat
  BY <1>0, MinFacts
<1>2. n \in DOMAIN logs /\ n # 0
  BY <1>0, <1>1 DEF Data, RecoverInv, Control, Typed, TypeLogs
<1>3. es \in SUBSET Entry /\ \A e \in es : e \in AllEntries /\ e[1] \in Nat
  BY <1>2, RecordEntries DEF Control, Typed
<1>4. CASE OpenFail /\ UNCHANGED tables
  BY <1>0, <1>4
<1>5. CASE ~(OpenFail /\ UNCHANGED tables)
  <2>1. /\ vs' = [vs EXCEPT !.next = used, !.seq = MaxSeq(es, @)]
        /\ rc' = [rc EXCEPT !.todo = @ \ {n}, !.save = @ \/ made,
                    !.add = IF made THEN @ \cup {<<vs.next, 0>>} ELSE @]
        /\ tables' = IF made THEN With(tables, vs.next, es) ELSE tables
        /\ mem' = IF kept THEN n ELSE mem
        /\ mems' = IF kept THEN With(mems, n, es) ELSE mems
        /\ UNCHANGED <<up, bg>>
    BY <1>5 DEF RecoverLogFile, flags
  <2>2. vs.next \in Nat /\ vs.seq \in Nat /\ base \in Nat /\ base >= vs.next
    BY <1>0 DEF VsType
  <2>3. made \in BOOLEAN /\ kept \in BOOLEAN
    OBVIOUS
  <2> HIDE DEF base
  <2>4. used \in Nat /\ used >= vs.next
    BY <1>1, <2>2, MaxOfTwo DEF NextBehind
  <2>5. MaxSeq(es, vs.seq) \in Nat
    BY <1>3, <2>2, MaxSeqFacts DEF Data
  <2>6. (made => ~kept /\ es # {}) /\ (kept => rc.reuse /\ rc.todo = {n}) /\ (~kept /\ ~made => es = {})
    OBVIOUS
  <2> HIDE DEF kept, made, used
  <2>7. /\ vs'.next = used /\ vs'.ver = vs.ver /\ vs'.log = vs.log /\ vs'.mani = vs.mani
    <3> DEFINE s == MaxSeq(es, vs.seq)
    <3>1. vs' = [vs EXCEPT !.next = used, !.seq = s] /\ s \in Nat
      BY <2>1, <2>5
    <3> HIDE DEF s
    <3> QED  BY <1>0, <2>4, <3>1 DEF VsType
  <2>8. /\ rc'.stage = "logs" /\ rc'.reuse = rc.reuse /\ rc'.todo = rc.todo \ {n}
        /\ rc'.save = (rc.save \/ made) /\ rc'.add = IF made THEN rc.add \cup {<<vs.next, 0>>} ELSE rc.add
    <3> DEFINE a == IF made THEN rc.add \cup {<<vs.next, 0>>} ELSE rc.add
               t == rc.todo \ {n}
               sv == rc.save \/ made
    <3>1. a \in SUBSET File /\ t \in SUBSET Nat /\ sv \in BOOLEAN
      BY <1>0, <2>2, <2>3 DEF RcType, File
    <3>2. rc' = [rc EXCEPT !.todo = t, !.save = sv, !.add = a]
      BY <2>1
    <3> HIDE DEF a, t, sv
    <3>3. rc'.stage = "logs" /\ rc'.reuse = rc.reuse /\ rc'.todo = t /\ rc'.save = sv /\ rc'.add = a
      BY <1>0, <3>1, <3>2 DEF RcType
    <3> QED  BY <3>3 DEF a, t, sv
  <2>9. rc.save \in BOOLEAN /\ ~(made /\ kept)
    BY <1>0, <2>6 DEF RcType
  <2>10. UNCHANGED <<up, bg>> /\ tables' = (IF made THEN With(tables, vs.next, es) ELSE tables)
         /\ mem' = (IF kept THEN n ELSE mem) /\ mems' = (IF kept THEN With(mems, n, es) ELSE mems)
    BY <2>1
  <2> HIDE DEF n
  <2>11. RecoveredLog(n)
    BY <1>0, <1>1, <1>2, <1>3, <2>3, <2>4, <2>6, <2>7, <2>8, <2>9, <2>10 DEF RecoveredLog
  <2> QED  BY <2>11
<1> QED  BY <1>4, <1>5

(* The replay of a log keeps Disk.                                         *)
LEMMA RecoverLogDisk ==
  ASSUME Control, Data, Disk, Control', RecoverLogFile, plan' = plan
  PROVE  Disk'
<1>1. CASE OpenFail /\ UNCHANGED <<logs, tables, manis, current, hist>>
  BY <1>1, SameFilesDisk DEF OpenFail, ResetMemory
<1>2. ASSUME NEW n, RecoveredLog(n)
      PROVE  Disk'
  <2>0. rc.stage = "logs" /\ up = "opening" /\ ~Live /\ ~Live' /\ Based /\ Based' /\ current \in DOMAIN manis
        /\ rc'.stage = "logs" /\ Roots' = Roots /\ vs.next \in Nat /\ current \in Roots
    BY <1>2 DEF RecoverLogFile, RecoveredLog, Control, Stages, Live, Based, Disk, StageInv, Roots, Typed, TypeVs, VsType
  <2>1. TablesOK' /\ \A m : m # vs.next => SameTable(m)
    BY <1>2 DEF RecoveredLog, With, Disk, TablesOK, SameTable
  <2>2. (vs.next \in DOMAIN tables' /\ tables'[vs.next] # Garbage) \/ rc'.add = rc.add
    <3>1. RecordsOf(n) # Garbage
      BY <1>2, ReadableEntries DEF RecoveredLog
    <3>2. CASE tables' = With(tables, vs.next, RecordsOf(n))
      BY <3>1, <3>2 DEF With
    <3> QED  BY <1>2, <3>2 DEF RecoveredLog
  <2>3. \A m \in ReadableTables : m # vs.next => m \in ReadableTables'
    BY <2>1 DEF ReadableTables, SameTable
  <2>4. ASSUME NEW k \in Views(manis[current])
        PROVE  vs.next \notin FilesOf(PrefixVer(manis[current].recs, k))
    <3> SUFFICES ASSUME NEW f \in PrefixVer(manis[current].recs, k), f[1] = vs.next  PROVE FALSE
      BY DEF FilesOf
    <3>1. FileOK(manis[current], EditType)
      BY <2>0 DEF Control, Typed, TypeManis
    <3>2. k \in Nat /\ k \in 1..Len(manis[current].recs) /\ Len(manis[current].recs) \in Nat
      BY <3>1, ViewTypes
    <3>3. PICK i \in 1..k : f \in manis[current].recs[i].add
      BY <3>2, PrefixFrom
    <3>4. i \in 1..Len(manis[current].recs)
      BY <3>2
    <3>5. f[1] < manis[current].recs[i].next /\ manis[current].recs[i].next < vs.next
          /\ manis[current].recs[i].next \in Nat
      BY <2>0, <3>3, <3>4, RecordTypes DEF Data, ManiInv, ManifestOK, Disk, StageInv, Control, Typed
    <3> QED  BY <2>0, <3>5
  <2>5. vs.next \notin FilesOf(vs.ver \cup rc.add)
    <3>1. \A f \in vs.ver \cup rc.add : f[1] < vs.next
      BY <2>0 DEF Data, FreshInv
    <3> QED  BY <2>0, <3>1 DEF FilesOf
  <2>6. FilesInv'
    <3>1. Roots = {current}
      BY <2>0 DEF Roots
    <3>2. /\ \A k \in Views(manis[current]) : FilesOf(PrefixVer(manis[current].recs, k)) \subseteq ReadableTables
          /\ FilesOf(vs.ver \cup rc.add) \subseteq ReadableTables
      BY <2>0, <3>1 DEF Disk, FilesInv
    <3>3. \A k \in Views(manis[current]) : FilesOf(PrefixVer(manis[current].recs, k)) \subseteq ReadableTables'
      BY <2>3, <2>4, <3>2
    <3>4. FilesOf(vs.ver \cup rc.add) \subseteq ReadableTables'
      BY <2>3, <2>5, <3>2
    <3>5. FilesOf(vs'.ver \cup rc'.add) \subseteq ReadableTables'
      <4>1. CASE rc'.add = rc.add
        BY <1>2, <3>4, <4>1 DEF RecoveredLog
      <4>2. CASE rc'.add # rc.add
        <5>1. vs'.ver \cup rc'.add = (vs.ver \cup rc.add) \cup {<<vs.next, 0>>}
          BY <1>2, <4>2 DEF RecoveredLog
        <5>2. FilesOf(vs'.ver \cup rc'.add) \subseteq FilesOf(vs.ver \cup rc.add) \cup {vs.next}
          BY <5>1 DEF FilesOf
        <5>3. vs.next \in ReadableTables'
          BY <2>2, <4>2 DEF ReadableTables
        <5> QED  BY <3>4, <5>2, <5>3
      <4> QED  BY <4>1, <4>2
    <3>6. manis' = manis
      BY <1>2 DEF RecoveredLog
    <3> QED  BY <2>0, <3>1, <3>3, <3>5, <3>6 DEF FilesInv
  <2>7. TearInv' /\ ReuseInv'
    BY <1>2 DEF RecoveredLog, Disk, TearInv, ReuseInv
  <2>8. RootInv'
    BY <1>2, <2>0 DEF RecoveredLog, Disk, RootInv
  <2>9. StageInv'
    <3>1. \A i \in 1..Len(manis[current].recs) : manis[current].recs[i].next \in Nat
      BY <2>0, RecordTypes DEF Control, Typed
    <3>2. vs.mani \in Nat
      BY DEF Control, Typed, TypeVs, VsType
    <3> QED  BY <1>2, <2>0, <3>1, <3>2 DEF RecoveredLog, Disk, StageInv
  <2>10. OpenExactInv'
    <3>1. Mani' = Mani
      BY <1>2 DEF RecoveredLog, Mani
    <3>2. rc.save \in BOOLEAN
      BY DEF Control, Typed, TypeRc, RcType
    <3>3. (rc.reuse => Exact(Mani, vs.ver, vs.log)) /\ (~rc.save => rc.add = {})
      BY <2>0 DEF Disk, OpenExactInv
    <3>4. vs'.ver = vs.ver /\ vs'.log = vs.log /\ rc'.reuse = rc.reuse /\ (~rc'.save => rc'.add = rc.add /\ ~rc.save)
      BY <1>2, <3>2 DEF RecoveredLog
    <3> QED  BY <2>0, <3>1, <3>3, <3>4 DEF OpenExactInv
  <2>11. ExactInv'
    BY <2>0 DEF ExactInv
  <2> QED  BY <2>1, <2>6, <2>7, <2>8, <2>9, <2>10, <2>11 DEF Disk
<1> QED  BY <1>1, <1>2, RecoverLogFacts

-----------------------------------------------------------------------------
(* The log that a database starts to write to when it is opened.           *)
OpenedLog ==
  /\ UNCHANGED <<tables, manis, current, up, hist, bg, err>>
  /\ rc'.stage = (IF rc.save THEN "apply" ELSE "clean") /\ rc.stage = "logs"
  /\ rc'.reuse = rc.reuse /\ rc'.add = rc.add /\ rc'.todo = {} /\ rc.todo = {}
  /\ vs'.ver = vs.ver /\ vs'.log = vs.log /\ vs'.mani = vs.mani /\ vs.next \in Nat /\ vs'.next \in Nat /\ vs'.next >= vs.next
  /\ IF mem # 0 THEN UNCHANGED <<logs, mem, mems>>
     ELSE /\ logs' = With(logs, vs.next, EmptyFile) /\ mems' = With(mems, vs.next, {}) /\ mem' = vs.next
          /\ \A n \in DOMAIN logs : n < vs.next

(* What the new log of an Open changes.                                    *)
LEMMA OpenLogFacts ==
  ASSUME Control, Data, OpenLog
  PROVE  OpenedLog
<1>0. /\ rc.stage = "logs" /\ rc.todo = {} /\ rc \in RcType /\ vs \in VsType /\ vs.next \in Nat /\ Based
      /\ UNCHANGED <<tables, manis, current, up, hist, bg, err>>
  BY DEF OpenLog, Control, Typed, TypeRc, TypeVs, VsType, Stages, Based, flags
<1>1. /\ rc'.stage = (IF rc.save THEN "apply" ELSE "clean")
      /\ rc'.reuse = rc.reuse /\ rc'.add = rc.add /\ rc'.todo = rc.todo
  <2>1. rc' = [rc EXCEPT !.stage = IF rc.save THEN "apply" ELSE "clean"]
    BY DEF OpenLog
  <2> QED  BY <1>0, <2>1 DEF RcType
<1>2. \A n \in DOMAIN logs : n < vs.next
  BY <1>0 DEF Data, FreshInv
<1>3. CASE mem # 0
  BY <1>0, <1>1, <1>3 DEF OpenLog, OpenedLog
<1>4. CASE mem = 0
  <2>1. /\ vs' = [vs EXCEPT !.next = @ + 1] /\ logs' = With(logs, vs.next, EmptyFile)
        /\ mems' = With(mems, vs.next, {}) /\ mem' = vs.next
    BY <1>4 DEF OpenLog
  <2>2. vs'.ver = vs.ver /\ vs'.log = vs.log /\ vs'.mani = vs.mani /\ vs'.next \in Nat /\ vs'.next >= vs.next
    <3>1. vs' = [vs EXCEPT !.next = @ + 1]
      BY <2>1
    <3> QED  BY <1>0, <3>1, NextVs
  <2>3. logs' = With(logs, vs.next, EmptyFile) /\ mems' = With(mems, vs.next, {}) /\ mem' = vs.next
    BY <2>1
  <2> QED  BY <1>0, <1>1, <1>2, <1>4, <2>2, <2>3 DEF OpenedLog
<1> QED  BY <1>3, <1>4

(* The new log of an Open keeps Disk.                                      *)
LEMMA OpenLogDisk ==
  ASSUME Control, Data, Disk, OpenLog, plan' = plan
  PROVE  Disk'
<1>0. OpenedLog
  BY OpenLogFacts
<1>1. /\ UNCHANGED <<tables, manis, current, up, hist, bg, err>> /\ rc'.stage \in {"apply", "clean"} /\ rc.stage = "logs"
      /\ rc'.reuse = rc.reuse /\ rc'.add = rc.add
      /\ vs'.ver = vs.ver /\ vs'.log = vs.log /\ vs'.mani = vs.mani /\ vs.next \in Nat /\ vs'.next \in Nat /\ vs'.next >= vs.next
  BY <1>0 DEF OpenedLog
<1>2. /\ up = "opening" /\ ~Live /\ ~Live' /\ Based /\ Roots' = Roots /\ current \in DOMAIN manis
      /\ rc'.stage = "clean" => ~rc.save /\ rc.reuse
  BY <1>0, <1>1 DEF OpenedLog, Control, Stages, Live, Based, Disk, StageInv, Roots
<1>3. TablesOK' /\ ReadableTables' = ReadableTables
  BY <1>1 DEF Disk, TablesOK, ReadableTables
<1>4. FilesInv'
  BY <1>1, <1>2, <1>3 DEF Disk, FilesInv, Based
<1>5. TearInv'
  <2>1. \A n \in DOMAIN logs' : (n \in DOMAIN logs /\ logs'[n] = logs[n]) \/ logs'[n] = EmptyFile
    BY <1>0 DEF OpenedLog, With
  <2> QED  BY <1>1, <2>1, EmptyFacts DEF Disk, TearInv
<1>6. RootInv' /\ ReuseInv'
  BY <1>1 DEF Disk, RootInv, ReuseInv
<1>7. StageInv'
  <2>1. \A i \in 1..Len(manis[current].recs) : manis[current].recs[i].next \in Nat
    BY <1>2, RecordTypes DEF Control, Typed
  <2>2. vs.mani \in Nat
    BY DEF Control, Typed, TypeVs, VsType
  <2>3. StageInv
    BY DEF Disk
  <2> QED  BY <1>1, <1>2, <2>1, <2>2, <2>3 DEF StageInv
<1>8. OpenExactInv' /\ ExactInv'
  <2>1. Mani' = Mani
    BY <1>1 DEF Mani
  <2>2. (rc.reuse => Exact(Mani, vs.ver, vs.log)) /\ (~rc.save => rc.add = {})
    BY <1>1 DEF Disk, OpenExactInv
  <2> QED  BY <1>1, <1>2, <2>1, <2>2 DEF OpenExactInv, ExactInv
<1> QED  BY <1>3, <1>4, <1>5, <1>6, <1>7, <1>8 DEF Disk

(* The manifest behind the first edit of an Open: it makes the version     *)
(* that was recovered, whatever a crash leaves of it.                      *)
AppliedTo(g) ==
  /\ UNCHANGED <<logs, tables, current, up, mem, imm, mems, vs, bg, err>>
  /\ rc'.stage = "current" /\ rc'.reuse = rc.reuse /\ rc'.add = rc.add /\ rc'.todo = {}
  /\ manis' = With(manis, vs.mani, g) /\ FileOK(g, EditType) /\ g.recs # <<>> /\ g.synced = Len(g.recs)
  /\ g.tear = 2 => hist'.damaged
  /\ (hist.damaged => hist'.damaged) /\ hist'.rootless = hist.rootless /\ hist'.promised = hist.promised
  /\ \A k \in Views(g) : /\ g.recs[k].next = vs.next /\ g.recs[k].log = mem
                         /\ PrefixVer(g.recs, k) = vs.ver \cup rc.add

(* What the edit of an Open makes of the manifest.                         *)
LEMMA AppliedFacts ==
  ASSUME Control, Data, Disk, OpenApply, ~OpenFail
  PROVE  \E g : AppliedTo(g)
<1>0. /\ rc.stage = "apply" /\ up = "opening" /\ Based /\ rc \in RcType /\ vs.ver \in SUBSET File
      /\ hist \in HistType /\ UNCHANGED <<logs, tables, current>> /\ mem # 0 /\ rc.todo = {}
  BY DEF OpenApply, Control, Typed, TypeRc, TypeVs, VsType, TypeHist, Stages, Based, Data, RecoverInv
<1>1. PICK f \in IF rc.reuse THEN Appended(manis[vs.mani], OpenEdit({})) ELSE Appended(EmptyFile, OpenEdit(vs.ver)) :
             /\ manis' = With(manis, vs.mani, SyncedFile(f))
             /\ hist' = [hist EXCEPT !.damaged = @ \/ f.tear = 2]
  BY DEF OpenApply
<1>2. /\ rc' = [rc EXCEPT !.stage = "current"] /\ UNCHANGED <<up, mem, imm, mems, vs, bg, err>>
  BY DEF OpenApply, memory, memtables, flags
<1>3. rc'.stage = "current" /\ rc'.reuse = rc.reuse /\ rc'.add = rc.add /\ rc'.todo = {}
  BY <1>0, <1>2 DEF RcType
<1>4. /\ (hist.damaged => hist'.damaged) /\ hist'.rootless = hist.rootless /\ hist'.promised = hist.promised
      /\ f.tear = 2 => hist'.damaged
  <2> DEFINE d == hist.damaged \/ f.tear = 2
  <2>1. hist' = [hist EXCEPT !.damaged = d]
    BY <1>1
  <2>2. (hist.damaged => d) /\ (f.tear = 2 => d)
    OBVIOUS
  <2> HIDE DEF d
  <2> QED  BY <1>0, <2>1, <2>2 DEF HistType
<1> DEFINE g == SyncedFile(f)
<1>5. /\ FileOK(g, EditType) /\ g.recs = f.recs
  BY <1>0, <1>1, OpenApplyFacts
<1>6. /\ g.synced = Len(g.recs) /\ g.tear = f.tear /\ g.recs # <<>>
      /\ \A k \in Views(g) : /\ g.recs[k].next = vs.next /\ g.recs[k].log = mem
                             /\ PrefixVer(g.recs, k) = vs.ver \cup rc.add
  <2>1. CASE rc.reuse
    <3> DEFINE h == manis[vs.mani]
               e == OpenEdit({})
    <3>1. e \in EditType /\ e.log = mem /\ e.next = vs.next /\ e.add = rc.add /\ e.del = {}
      <4>1. {} \in SUBSET File /\ {} \subseteq vs.ver
        OBVIOUS
      <4>2. /\ OpenEdit({}) \in EditType /\ OpenEdit({}).log = mem /\ OpenEdit({}).next = vs.next
            /\ OpenEdit({}).add = {} \cup rc.add /\ OpenEdit({}).del = {}
        BY <1>0, <4>1, OpenEditFacts
      <4> QED  BY <4>2
    <3>2. vs.mani \in DOMAIN manis /\ FileOK(h, EditType) /\ h.recs # <<>> /\ h.tear # 2 /\ Exact(h, vs.ver, vs.log)
      BY <1>0, <2>1 DEF Disk, StageInv, OpenExactInv, Mani, Control, Typed, TypeManis
    <3>3. f \in Appended(h, e)
      BY <1>1, <2>1
    <3> HIDE DEF h, e
    <3>4. FileOK(f, EditType) /\ (f.recs = h.recs \/ f.recs = Append(h.recs, e)) /\ h.recs \in Seq(EditType)
      BY <3>1, <3>2, <3>3, AppendedFacts DEF FileOK, FileType
    <3>5. f.recs # <<>>
      BY <3>1, <3>2, <3>4
    <3>6. g.synced = Len(g.recs) /\ g.tear = f.tear /\ g.recs = f.recs
      BY <3>4, SyncedFacts
    <3> HIDE DEF g
    <3>7. ASSUME NEW k \in Views(g)
          PROVE  g.recs[k] = e /\ PrefixVer(g.recs, k) = vs.ver \cup rc.add
      <4>1. /\ h.tear = 0 /\ f.recs = Append(h.recs, e)
            /\ \/ k \in Views(h) /\ k \in 1..Len(h.recs)
               \/ /\ k = Len(h.recs) + 1
                  /\ PrefixVer(f.recs, k) = (PrefixVer(h.recs, Len(h.recs)) \ e.del) \cup e.add
            /\ k = Len(f.recs) /\ f.recs[k] = e
        <5>1. k \in Views(SyncedFile(f))
          BY <3>7 DEF g
        <5> QED  BY <3>1, <3>2, <3>3, <5>1, AppendedViews, SMTT(30)
      <4>2. Len(h.recs) \in Views(h) /\ Len(h.recs) \in Nat /\ Len(f.recs) = Len(h.recs) + 1
        BY <3>1, <3>2, <3>4, <4>1, LastView
      <4>3. PrefixVer(f.recs, k) = (PrefixVer(h.recs, Len(h.recs)) \ e.del) \cup e.add
        BY <4>1, <4>2
      <4>4. PrefixVer(h.recs, Len(h.recs)) = vs.ver
        BY <3>2, <4>2 DEF Exact
      <4> QED  BY <3>1, <3>6, <4>1, <4>3, <4>4
    <3> QED  BY <3>1, <3>5, <3>6, <3>7
  <2>2. CASE ~rc.reuse
    <3> DEFINE e == OpenEdit(vs.ver)
    <3>1. e \in EditType /\ e.log = mem /\ e.next = vs.next /\ e.add = vs.ver \cup rc.add /\ e.del = {}
      BY <1>0, OpenEditFacts
    <3>2. FileOK(EmptyFile, EditType) /\ EmptyFile.recs = <<>> /\ EmptyFile.tear = 0
      BY EmptyFacts
    <3>3. f \in Appended(EmptyFile, e)
      BY <1>1, <2>2
    <3> HIDE DEF e
    <3>4. FileOK(f, EditType) /\ f.recs = Append(<<>>, e)
      BY <3>1, <3>2, <3>3, AppendedFacts
    <3>5. f.recs = <<e>> /\ f.recs # <<>> /\ Len(f.recs) = 1
      BY <3>4
    <3>6. g.synced = Len(g.recs) /\ g.tear = f.tear /\ g.recs = f.recs
      BY <3>4, SyncedFacts
    <3> HIDE DEF g
    <3>7. ASSUME NEW k \in Views(g)
          PROVE  g.recs[k] = e /\ PrefixVer(g.recs, k) = vs.ver \cup rc.add
      <4>1. k = 1
        <5>1. k \in 1..Len(g.recs)
          BY <1>5, <3>7, ViewTypes
        <5>2. Len(g.recs) = 1
          BY <3>5, <3>6
        <5> QED  BY <5>1, <5>2
      <4>2. PrefixVer(<<e>>, 1) = e.add /\ <<e>>[1] = e
        BY <3>1, OneRecordVer
      <4> QED  BY <3>1, <3>5, <3>6, <4>1, <4>2
    <3> QED  BY <3>1, <3>5, <3>6, <3>7
  <2> QED  BY <2>1, <2>2
<1>7. manis' = With(manis, vs.mani, g)
  BY <1>1
<1> HIDE DEF g
<1>8. AppliedTo(g)
  BY <1>0, <1>2, <1>3, <1>4, <1>5, <1>6, <1>7 DEF AppliedTo
<1> QED  BY <1>8

(* The edit of an Open keeps Disk. An old manifest that is reused has no   *)
(* unsynced end: this is where NoBlindReuse is needed.                     *)
LEMMA OpenApplyDisk ==
  ASSUME Control, Data, NoBlindReuse, Disk, Control', OpenApply, plan' = plan
  PROVE  Disk'
<1>0. /\ rc.stage = "apply" /\ up = "opening" /\ Based /\ rc.reuse = plan.reuse /\ UNCHANGED <<logs, tables, current>>
      /\ current \in DOMAIN manis /\ manis[current].recs # <<>> /\ current \in Roots /\ current # 0 /\ current \in Nat
      /\ vs.mani # 0 /\ vs.mani < vs.next /\ (IF rc.reuse THEN vs.mani = current ELSE vs.mani # current \/ hist.rootless)
      /\ vs.mani \in Nat /\ vs.next \in Nat
  BY DEF OpenApply, Control, Typed, TypeVs, VsType, TypeManis, Stages, Based, Disk, StageInv, Roots, RootInv
<1>1. CASE OpenFail
  <2>1. up' = "closed" /\ rc' = IdleRc
    BY <1>1 DEF OpenFail, ResetMemory
  <2>2. "manifest" \in plan.faults /\ ~rc.reuse /\ manis' = Kept(manis, DOMAIN manis \ {vs.mani}) /\ UNCHANGED hist
    <3>1. up' # "opening"
      BY <2>1
    <3> QED  BY <1>0, <3>1 DEF OpenApply, NoBlindReuse
  <2>3. /\ \A m \in DOMAIN manis' : m \in DOMAIN manis /\ manis'[m] = manis[m]
        /\ vs.mani # current => current \in DOMAIN manis'
    BY <1>0, <2>2 DEF Kept
  <2>4. TablesOK' /\ ReadableTables' = ReadableTables
    BY <1>0 DEF Disk, TablesOK, ReadableTables
  <2>5. TearInv' /\ ReuseInv'
    BY <1>0, <2>2, <2>3 DEF Disk, TearInv, ReuseInv
  <2>6. RootInv'
    <3>1. RootInv
      BY DEF Disk
    <3>2. rc'.stage # "point"
      BY <2>1, IdleTypes
    <3> QED  BY <1>0, <2>2, <2>3, <3>1, <3>2 DEF RootInv
  <2>7. current' \in DOMAIN manis' =>
           \A k \in Views(manis'[current']) : FilesOf(PrefixVer(manis'[current'].recs, k)) \subseteq ReadableTables'
    <3>1. FilesInv
      BY DEF Disk
    <3> QED  BY <1>0, <2>3, <2>4, <3>1 DEF FilesInv
  <2> QED  BY <2>1, <2>4, <2>5, <2>6, <2>7, ClosedDisk
<1>2. CASE ~OpenFail
  <2>1. PICK g : AppliedTo(g)
    BY <1>2, AppliedFacts
  <2>2. /\ UNCHANGED <<logs, tables, current, up, mem, imm, mems, vs, bg, err>>
        /\ rc'.stage = "current" /\ rc'.reuse = rc.reuse /\ rc'.add = rc.add
        /\ manis' = With(manis, vs.mani, g) /\ g.recs # <<>> /\ g.synced = Len(g.recs) /\ FileOK(g, EditType)
        /\ hist'.rootless = hist.rootless /\ hist'.promised = hist.promised
    BY <2>1 DEF AppliedTo
  <2>3. /\ DOMAIN manis' = DOMAIN manis \cup {vs.mani} /\ manis'[vs.mani] = g
        /\ \A m \in DOMAIN manis : m # vs.mani => manis'[m] = manis[m]
    <3>1. manis' = With(manis, vs.mani, g)
      BY <2>2
    <3> QED  BY <3>1 DEF With
  <2>4. \A k \in Views(g) : /\ g.recs[k].next = vs.next /\ g.recs[k].log = mem
                            /\ PrefixVer(g.recs, k) = vs.ver \cup rc.add
    BY <2>1 DEF AppliedTo
  <2>5. g.synced > 0
    BY <2>2 DEF FileOK, FileType
  <2>6. up' = "opening" /\ Based' /\ ~Live' /\ Roots' = {current, vs.mani}
    BY <1>0, <2>2, <2>3 DEF Based, Live, Roots
  <2>7. TablesOK' /\ ReadableTables' = ReadableTables
    BY <1>0 DEF Disk, TablesOK, ReadableTables
  <2>8. FilesInv'
    <3>1. FilesInv
      BY DEF Disk
    <3>2. FilesOf(vs.ver \cup rc.add) \subseteq ReadableTables
      BY <1>0, <3>1 DEF FilesInv
    <3>3. FilesOf(vs'.ver \cup rc'.add) \subseteq ReadableTables'
      BY <2>2, <2>7, <3>2
    <3>4. ASSUME NEW m \in Roots', NEW k \in Views(manis'[m])
          PROVE  FilesOf(PrefixVer(manis'[m].recs, k)) \subseteq ReadableTables'
      <4>1. CASE m = vs.mani
        BY <2>3, <2>4, <2>7, <3>2, <3>4, <4>1
      <4>2. CASE m # vs.mani
        <5>1. m = current /\ manis'[m] = manis[m]
          BY <1>0, <2>3, <2>6, <3>4, <4>2
        <5> QED  BY <1>0, <2>7, <3>1, <3>4, <5>1 DEF FilesInv
      <4> QED  BY <4>1, <4>2
    <3> QED  BY <3>3, <3>4 DEF FilesInv
  <2>9. TearInv'
    <3>1. g.tear = 2 => hist'.damaged
      BY <2>1 DEF AppliedTo
    <3>2. hist.damaged => hist'.damaged
      BY <2>1 DEF AppliedTo
    <3>3. TearInv
      BY DEF Disk
    <3> QED  BY <1>0, <2>3, <3>1, <3>2, <3>3 DEF TearInv
  <2>10. RootInv'
    <3>1. RootInv
      BY DEF Disk
    <3>2. \A k \in Views(g) : g.recs[k].next = vs.next
      BY <2>4
    <3>3. CASE vs.mani = current
      BY <1>0, <2>2, <2>3, <2>5, <3>1, <3>2, <3>3 DEF RootInv
    <3>4. CASE vs.mani # current
      BY <1>0, <2>2, <2>3, <3>1, <3>4 DEF RootInv
    <3> QED  BY <3>3, <3>4
  <2>11. ReuseInv'
    BY <2>2, <2>3 DEF Disk, ReuseInv
  <2>12. StageInv'
    BY <1>0, <2>2, <2>3, <2>4, <2>5, <2>6 DEF StageInv
  <2>13. ExactInv' /\ OpenExactInv'
    <3>1. Mani' = g
      BY <2>2, <2>3 DEF Mani
    <3>2. Exact(g, vs.ver \cup rc.add, mem)
      BY <2>4 DEF Exact
    <3> QED  BY <2>2, <2>6, <3>1, <3>2 DEF ExactInv, OpenExactInv
  <2> QED  BY <2>7, <2>8, <2>9, <2>10, <2>11, <2>12, <2>13 DEF Disk
<1> QED  BY <1>1, <1>2

(* Pointing CURRENT at the new manifest keeps Disk: it was synced.         *)
LEMMA OpenCurrentDisk ==
  ASSUME Control, Data, Disk, OpenCurrent, plan' = plan
  PROVE  Disk'
<1>0. /\ rc.stage = "current" /\ up = "opening" /\ Based /\ vs \in VsType /\ rc \in RcType /\ hist \in HistType
      /\ UNCHANGED <<logs, tables, manis, up, mem, bg>> /\ current' = vs.mani
      /\ vs.mani \in DOMAIN manis /\ vs.mani \in Roots /\ vs.mani # 0 /\ vs.mani \in Nat
  BY DEF OpenCurrent, memtables, Control, Typed, TypeVs, VsType, TypeRc, TypeHist, Stages, Based, Disk, Roots, RootInv, Data, ManiInv
<1>1. vs'.ver = vs.ver \cup rc.add /\ vs'.log = mem /\ vs'.mani = vs.mani
  <2> DEFINE v == vs.ver \cup rc.add
  <2>1. vs' = [vs EXCEPT !.ver = v, !.log = mem]
    BY DEF OpenCurrent
  <2> HIDE DEF v
  <2>2. vs'.ver = v /\ vs'.log = mem /\ vs'.mani = vs.mani
    BY <1>0, <2>1 DEF VsType
  <2> QED  BY <2>2 DEF v
<1>2. rc'.stage = "clean" /\ rc'.add = rc.add /\ rc'.reuse = rc.reuse
  BY <1>0 DEF OpenCurrent, RcType
<1>3. ~hist'.rootless /\ hist'.damaged = hist.damaged
  BY <1>0 DEF OpenCurrent, HistType
<1>4. Based' /\ ~Live' /\ Roots' = {vs.mani}
  BY <1>0, <1>2 DEF Based, Live, Roots
<1>5. TablesOK' /\ ReadableTables' = ReadableTables
  BY <1>0 DEF Disk, TablesOK, ReadableTables
<1>6. FilesInv'
  <2>1. FilesInv
    BY DEF Disk
  <2>2. vs'.ver \cup rc'.add = vs.ver \cup rc.add
    BY <1>1, <1>2
  <2> QED  BY <1>0, <1>4, <1>5, <2>1, <2>2 DEF FilesInv
<1>7. TearInv' /\ ReuseInv'
  BY <1>0, <1>3 DEF Disk, TearInv, ReuseInv
<1>8. StageInv
  BY DEF Disk
<1>9. RootInv' /\ StageInv'
  <2>1. 0 \notin DOMAIN manis
    BY DEF Disk, RootInv
  <2>2. \A k \in Views(manis[vs.mani]) : vs.mani < manis[vs.mani].recs[k].next /\ manis[vs.mani].recs[k].next \in Nat
    <3>1. FileOK(manis[vs.mani], EditType)
      BY <1>0 DEF Control, Typed, TypeManis
    <3> QED  BY <1>0, <1>8, <3>1, ViewTypes, RecordTypes DEF StageInv, Control, Typed
  <2>3. RootInv'
    BY <1>0, <1>2, <1>3, <1>8, <2>1, <2>2 DEF RootInv, StageInv
  <2> QED  BY <1>0, <1>1, <1>2, <1>4, <1>8, <2>3 DEF StageInv
<1>10. ExactInv' /\ OpenExactInv'
  <2>1. Mani' = Mani
    BY <1>0, <1>1 DEF Mani
  <2>2. Exact(Mani, vs.ver \cup rc.add, mem)
    BY <1>0 DEF Disk, OpenExactInv
  <2>3. Exact(Mani', vs'.ver, vs'.log) /\ rc'.add \subseteq vs'.ver
    BY <1>1, <1>2, <2>1, <2>2
  <2> QED  BY <1>2, <1>4, <2>3 DEF ExactInv, OpenExactInv
<1> QED  BY <1>5, <1>6, <1>7, <1>9, <1>10 DEF Disk

(* RemoveObsoleteFiles at the end of an Open deletes no table that a view  *)
(* of the manifest needs.                                                  *)
LEMMA OpenDoneDisk ==
  ASSUME Control, Data, Disk, OpenDone, plan' = plan
  PROVE  Disk'
<1>0. /\ rc.stage = "clean" /\ up = "opening" /\ up' = "open" /\ Based /\ ~Live /\ rc' = IdleRc /\ hist \in HistType
      /\ UNCHANGED <<current, vs, mem, bg, err>> /\ vs.mani = current /\ bg = IdleBg /\ ~err
      /\ vs.mani \in DOMAIN manis /\ manis[vs.mani].recs # <<>> /\ Exact(Mani, vs.ver, vs.log) /\ vs.log <= mem
  BY DEF OpenDone, memtables, Control, Typed, TypeHist, Stages, Based, Live, QuietInv, Disk, StageInv, OpenExactInv,
         Data, ManiInv, LogInv, RecoverInv
<1>1. hist'.rootless = hist.rootless /\ hist'.damaged = hist.damaged /\ hist'.promised = hist.promised
  <2>1. hist' = [hist EXCEPT !.applied = Recovered, !.life = @ + 1, !.logged = Remembered]
    BY DEF OpenDone
  <2> QED  BY <1>0, <2>1 DEF HistType
<1>2. /\ \A n \in DOMAIN logs' : n \in DOMAIN logs /\ logs'[n] = logs[n]
      /\ \A m \in DOMAIN manis' : m \in DOMAIN manis /\ manis'[m] = manis[m]
      /\ \A m \in DOMAIN manis : m >= vs.mani => m \in DOMAIN manis'
      /\ \A n \in DOMAIN tables' : n \in DOMAIN tables /\ tables'[n] = tables[n]
      /\ \A n \in LiveFiles(vs, pending, {}) : SameTable(n)
  <2>1. DeleteObsoleteFiles(tables, vs, pending, {}, err) /\ err \in BOOLEAN
    BY DEF OpenDone, Control, Typed, TypeFlags
  <2> QED  BY <2>1, DeleteFacts
<1>3. vs.mani \in DOMAIN manis' /\ Mani' = Mani /\ vs.mani \in Nat
  <2>1. vs.mani \in Nat
    BY DEF Control, Typed, TypeVs, VsType
  <2> QED  BY <1>0, <1>2, <2>1 DEF Mani
<1>4. FilesOf(vs.ver) \subseteq ReadableTables'
  <2>1. FilesInv
    BY DEF Disk
  <2>2. FilesOf(vs.ver) \subseteq ReadableTables
    BY <1>0, <2>1 DEF FilesInv, FilesOf
  <2>3. \A n \in FilesOf(vs.ver) : SameTable(n)
    BY <1>2 DEF LiveFiles
  <2> QED  BY <2>2, <2>3 DEF ReadableTables, SameTable
<1>5. TablesOK' /\ TearInv' /\ ReuseInv'
  BY <1>1, <1>2 DEF Disk, TablesOK, TearInv, ReuseInv
<1>6. Live' /\ Based' /\ Roots' = {vs.mani} /\ rc'.stage = "none" /\ rc'.add = {} /\ current' = current /\ vs' = vs
  BY <1>0, <1>3, IdleTypes DEF Live, Based, Roots
<1>7. FilesInv'
  <2>1. \A k \in Views(Mani) : PrefixVer(Mani.recs, k) = vs.ver
    BY <1>0 DEF Exact
  <2>2. \A k \in Views(manis'[vs.mani]) : FilesOf(PrefixVer(manis'[vs.mani].recs, k)) \subseteq ReadableTables'
    BY <1>0, <1>2, <1>3, <1>4, <2>1 DEF Mani
  <2>3. vs'.ver \cup rc'.add = vs.ver
    BY <1>6
  <2> QED  BY <1>4, <1>6, <2>2, <2>3 DEF FilesInv
<1>8. RootInv'
  <2>1. RootInv
    BY DEF Disk
  <2>2. current \in DOMAIN manis' /\ manis'[current] = manis[current] /\ current # 0 /\ current \in DOMAIN manis
    BY <1>0, <1>2, <1>3, <2>1 DEF RootInv
  <2> QED  BY <1>1, <1>2, <1>6, <2>1, <2>2 DEF RootInv
<1>9. StageInv'
  BY <1>0, <1>2, <1>3, <1>6 DEF StageInv
<1>10. ExactInv'
  <2>1. Exact(Mani', vs'.ver, vs'.log) /\ err' = err /\ bg' = IdleBg /\ mem' = mem
    BY <1>0, <1>3, <1>6
  <2>2. \A k \in Views(Mani) : vs.log <= Mani.recs[k].log /\ Mani.recs[k].log <= mem
    <3>1. vs.log \in Nat
      BY DEF Control, Typed, TypeVs, VsType
    <3> QED  BY <1>0, <3>1 DEF Exact
  <2> QED  BY <1>3, <1>6, <2>1, <2>2, IdleFacts DEF ExactInv
<1>11. OpenExactInv'
  BY <1>6 DEF OpenExactInv
<1> QED  BY <1>5, <1>7, <1>8, <1>9, <1>10, <1>11 DEF Disk

-----------------------------------------------------------------------------
(* RepairDB begins: no file changes.                                       *)
LEMMA RepairBeginDisk ==
  ASSUME Control, Data, Disk, RepairBegin, plan' = plan
  PROVE  Disk'
<1>0. /\ up = "closed" /\ up' = "repairing" /\ UNCHANGED <<logs, tables, manis, current, hist>> /\ rc = IdleRc
  BY DEF RepairBegin, disk, Control, Stages
<1>1. rc'.stage = "convert" /\ rc.stage = "none" /\ ~Based'
  <2> DEFINE t == DOMAIN logs
             n == Max({1} \cup {k + 1 : k \in DOMAIN logs \cup DOMAIN tables})
  <2>1. rc' = [IdleRc EXCEPT !.stage = "convert", !.todo = t, !.next = n]
    BY DEF RepairBegin
  <2> HIDE DEF t, n
  <2> QED  BY <1>0, <2>1, IdleTypes DEF RcType, Based, Live
<1>2. TablesOK' /\ ReadableTables' = ReadableTables
  BY <1>0 DEF Disk, TablesOK, ReadableTables
<1>3. TearInv' /\ ReuseInv'
  BY <1>0 DEF Disk, TearInv, ReuseInv
<1>4. RootInv'
  BY <1>0, <1>1 DEF Disk, RootInv
<1>5. \A m \in Roots' : \A k \in Views(manis'[m]) : FilesOf(PrefixVer(manis'[m].recs, k)) \subseteq ReadableTables'
  <2>1. Roots' = Roots
    BY <1>0, <1>1 DEF Roots
  <2> QED  BY <1>0, <1>2, <2>1 DEF Disk, FilesInv
<1> QED  BY <1>1, <1>2, <1>3, <1>4, <1>5, UnbasedDisk

(* RepairDB makes a readable table of a log, or loses it.                  *)
LEMMA ConvertDisk ==
  ASSUME Control, Data, Disk, ConvertLogToTable, plan' = plan
  PROVE  Disk'
<1>0. /\ rc.stage = "convert" /\ up = "repairing" /\ UNCHANGED <<manis, current, up>>
      /\ rc \in RcType /\ hist \in HistType
  BY DEF ConvertLogToTable, Control, Typed, TypeRc, TypeHist, Stages
<1>1. PICK n \in rc.todo :
        /\ \/ /\ tables' = IF RecordsOf(n) = {} THEN tables ELSE With(tables, rc.next, RecordsOf(n))
              /\ UNCHANGED hist
           \/ hist' = [hist EXCEPT !.damaged = TRUE] /\ UNCHANGED tables
        /\ logs' = Archived(logs, n)
        /\ rc' = [rc EXCEPT !.todo = @ \ {n}, !.next = @ + 1]
  BY DEF ConvertLogToTable
<1>2. n \in DOMAIN logs /\ RecordsOf(n) \subseteq Entry /\ \A m \in DOMAIN tables : m < rc.next
  BY <1>0, <1>1, RecordEntries DEF Data, RecoverInv, Control, Typed
<1>3. \A m \in DOMAIN logs' : m \in DOMAIN logs /\ logs'[m] = logs[m]
  BY <1>1 DEF Archived, Kept
<1>4. rc.next \notin DOMAIN tables
  <2>1. rc.next \in Nat
    BY <1>0 DEF RcType
  <2> QED  BY <1>2, <2>1
<1>5. \/ UNCHANGED tables
      \/ RecordsOf(n) # {} /\ tables' = With(tables, rc.next, RecordsOf(n))
  BY <1>1
<1>6. /\ \A m \in DOMAIN tables : m \in DOMAIN tables' /\ tables'[m] = tables[m]
      /\ \A m \in DOMAIN tables' : \/ m \in DOMAIN tables /\ tables'[m] = tables[m]
                                   \/ tables'[m] = RecordsOf(n) /\ RecordsOf(n) # {}
  BY <1>4, <1>5 DEF With
<1>7. rc'.stage = "convert" /\ ~Based'
  <2> DEFINE d == rc.todo \ {n}
             k == rc.next + 1
  <2>1. rc' = [rc EXCEPT !.todo = d, !.next = k]
    BY <1>1
  <2> HIDE DEF d, k
  <2> QED  BY <1>0, <2>1 DEF RcType, Based, Live
<1>8. (hist.damaged => hist'.damaged) /\ hist'.rootless = hist.rootless /\ hist'.promised = hist.promised
  BY <1>0, <1>1 DEF HistType
<1>9. TablesOK' /\ ReadableTables \subseteq ReadableTables'
  BY <1>2, <1>6 DEF Disk, TablesOK, ReadableTables
<1>10. TearInv' /\ ReuseInv'
  BY <1>0, <1>3, <1>8 DEF Disk, TearInv, ReuseInv
<1>11. RootInv'
  BY <1>0, <1>7, <1>8 DEF Disk, RootInv
<1>12. \A m \in Roots' : \A k \in Views(manis'[m]) : FilesOf(PrefixVer(manis'[m].recs, k)) \subseteq ReadableTables'
  <2>1. Roots' = Roots
    BY <1>0, <1>7 DEF Roots
  <2> QED  BY <1>0, <1>9, <2>1 DEF Disk, FilesInv
<1> QED  BY <1>7, <1>9, <1>10, <1>11, <1>12, UnbasedDisk

(* The manifest that RepairDB makes names the readable tables.             *)
DescriptorWritten ==
  /\ UNCHANGED <<logs, current, up>> /\ rc.stage = "convert" /\ rc'.stage = "point" /\ up = "repairing"
  /\ hist'.rootless /\ hist'.promised = hist.promised /\ hist'.damaged = hist.damaged
  /\ DOMAIN tables' = ReadableTables /\ \A n \in ReadableTables : tables'[n] = tables[n]
  /\ DOMAIN manis' = {1} /\ FileOK(manis'[1], EditType) /\ Len(manis'[1].recs) = 1 /\ Views(manis'[1]) = {1}
  /\ manis'[1].tear = 0 /\ manis'[1].recs[1].next \in Nat \ {0} /\ manis'[1].recs[1].log = 0
  /\ FilesOf(PrefixVer(manis'[1].recs, 1)) = ReadableTables

(* What the manifest of a repair holds.                                    *)
LEMMA DescriptorIsWritten ==
  ASSUME Control, Data, WriteDescriptor
  PROVE  DescriptorWritten
<1>0. /\ rc.stage = "convert" /\ up = "repairing" /\ UNCHANGED <<logs, current, up>>
      /\ rc \in RcType /\ hist \in HistType
      /\ rc' = [rc EXCEPT !.stage = "point"] /\ hist' = [hist EXCEPT !.rootless = TRUE]
      /\ tables' = Kept(tables, ReadableTables)
      /\ manis' = With(NoFiles, 1, [EmptyFile EXCEPT !.recs = <<Descriptor>>])
  BY DEF WriteDescriptor, Control, Typed, TypeRc, TypeHist, Stages, memory, Descriptor
<1> DEFINE g == [EmptyFile EXCEPT !.recs = <<Descriptor>>]
<1>1. Descriptor \in EditType /\ Descriptor.log < Descriptor.next /\ (\A f \in Descriptor.add : f[1] < Descriptor.next)
      /\ Descriptor.add = {<<n, 0>> : n \in ReadableTables} /\ Descriptor.log = 0 /\ Descriptor.next \in Nat \ {0}
  <2>1. Descriptor \in EditType /\ Descriptor.log = 0 /\ Descriptor.next = rc.next /\ rc.next > 0
        /\ Descriptor.add = {<<n, 0>> : n \in ReadableTables} /\ \A f \in Descriptor.add : f[1] < rc.next
    BY <1>0, DescriptorFacts
  <2>2. rc.next \in Nat
    BY <1>0 DEF RcType
  <2> QED  BY <2>1, <2>2
<1>2. FileOK(g, EditType) /\ g.recs = <<Descriptor>> /\ g.synced = 0 /\ g.tear = 0
  BY <1>1, OneRecord
<1>3. Len(<<Descriptor>>) = 1 /\ <<Descriptor>>[1] = Descriptor /\ PrefixVer(<<Descriptor>>, 1) = Descriptor.add
  BY <1>1, OneRecordVer
<1> HIDE DEF g
<1>4. Len(g.recs) = 1 /\ g.recs[1] = Descriptor /\ PrefixVer(g.recs, 1) = Descriptor.add
  BY <1>2, <1>3
<1>5. Views(g) = {1}
  BY <1>2, <1>4 DEF Views
<1>6. DOMAIN manis' = {1} /\ manis'[1] = g
  BY <1>0 DEF With, NoFiles, g
<1>7. DOMAIN tables' = ReadableTables /\ \A n \in ReadableTables : tables'[n] = tables[n]
  BY <1>0 DEF Kept, ReadableTables
<1>8. FilesOf(Descriptor.add) = ReadableTables
  <2>1. \A n \in ReadableTables : <<n, 0>> \in Descriptor.add /\ <<n, 0>>[1] = n
    BY <1>1
  <2>2. \A f \in Descriptor.add : f[1] \in ReadableTables
    BY <1>1
  <2> QED  BY <2>1, <2>2 DEF FilesOf
<1>9. hist'.rootless /\ hist'.promised = hist.promised /\ hist'.damaged = hist.damaged /\ rc'.stage = "point"
  BY <1>0 DEF HistType, RcType
<1> QED  BY <1>0, <1>1, <1>2, <1>4, <1>5, <1>6, <1>7, <1>8, <1>9 DEF DescriptorWritten

(* The manifest of a repair keeps Disk.                                    *)
LEMMA DescriptorDisk ==
  ASSUME Control, Data, Disk, WriteDescriptor, plan' = plan
  PROVE  Disk'
<1>0. DescriptorWritten
  BY DescriptorIsWritten
<1>1. TablesOK' /\ ReadableTables' = ReadableTables
  BY <1>0 DEF DescriptorWritten, Disk, TablesOK, ReadableTables
<1>2. ~Based'
  <2>1. up' = "repairing"
    BY <1>0 DEF DescriptorWritten
  <2> QED  BY <2>1 DEF Based, Live
<1>3. TearInv' /\ ReuseInv'
  <2>1. UNCHANGED logs /\ DOMAIN manis' = {1} /\ manis'[1].tear = 0 /\ Len(manis'[1].recs) = 1 /\ hist'.damaged = hist.damaged
    BY <1>0 DEF DescriptorWritten
  <2>2. TearInv'
    BY <2>1 DEF Disk, TearInv
  <2>3. ReuseInv'
    <3>1. Len(manis'[1].recs) <= 1 /\ \A m \in DOMAIN manis' : m = 1
      BY <2>1
    <3> QED  BY <3>1 DEF ReuseInv
  <2> QED  BY <2>2, <2>3
<1>4. RootInv'
  BY <1>0 DEF DescriptorWritten, Disk, RootInv
<1>5. \A m \in Roots' : \A k \in Views(manis'[m]) : FilesOf(PrefixVer(manis'[m].recs, k)) \subseteq ReadableTables'
  <2>1. Roots' \subseteq {1}
    BY <1>0 DEF DescriptorWritten, Roots
  <2> QED  BY <1>0, <1>1, <2>1 DEF DescriptorWritten
<1> QED  BY <1>0, <1>1, <1>2, <1>3, <1>4, <1>5, UnbasedDisk DEF DescriptorWritten

(* CURRENT names that manifest.                                            *)
LEMMA RepairDoneDisk ==
  ASSUME Control, Data, Disk, RepairDone, plan' = plan
  PROVE  Disk'
<1>0. /\ rc.stage = "point" /\ UNCHANGED <<logs, tables, manis, hist>> /\ current' = 1 /\ up' = "closed" /\ rc' = IdleRc
      /\ hist.rootless /\ DOMAIN manis = {1} /\ 1 \in Roots
  BY DEF RepairDone, Disk, RootInv, Roots
<1>1. TablesOK' /\ ReadableTables' = ReadableTables
  BY <1>0 DEF Disk, TablesOK, ReadableTables
<1>2. TearInv' /\ ReuseInv'
  BY <1>0 DEF Disk, TearInv, ReuseInv
<1>3. \A k \in Views(manis[1]) : FilesOf(PrefixVer(manis[1].recs, k)) \subseteq ReadableTables /\ 1 <= manis[1].recs[k].next
  <2> TAKE k \in Views(manis[1])
  <2>1. k \in 1..Len(manis[1].recs)
    BY <1>0, ViewTypes DEF Control, Typed, TypeManis
  <2>2. manis[1].recs[k].log < manis[1].recs[k].next /\ manis[1].recs[k].log \in Nat /\ manis[1].recs[k].next \in Nat
    <3>1. manis[1].recs[k].log \in Nat /\ manis[1].recs[k].next \in Nat
      BY <1>0, <2>1, RecordTypes DEF Control, Typed
    <3> QED  BY <1>0, <2>1, <3>1 DEF Data, ManiInv, ManifestOK
  <2>3. FilesInv
    BY DEF Disk
  <2> QED  BY <1>0, <2>2, <2>3 DEF FilesInv
<1>4. RootInv'
  BY <1>0, <1>3, IdleTypes DEF RootInv
<1>5. current' \in DOMAIN manis' =>
         \A k \in Views(manis'[current']) : FilesOf(PrefixVer(manis'[current'].recs, k)) \subseteq ReadableTables'
  BY <1>0, <1>1, <1>3
<1> QED  BY <1>0, <1>1, <1>2, <1>4, <1>5, ClosedDisk

-----------------------------------------------------------------------------
(* A database that was never opened has no file.                           *)
LEMMA DiskInit ==
  ASSUME Init
  PROVE  Disk
<1>1. /\ DOMAIN logs = {} /\ DOMAIN tables = {} /\ DOMAIN manis = {} /\ current = 0 /\ up = "closed" /\ rc = IdleRc
      /\ hist.rootless /\ hist.promised = {}
  BY DEF Init, NoFiles
<1>2. ~Live /\ ~Based /\ Roots = {}
  BY <1>1 DEF Live, Based, Roots
<1>3. TablesOK /\ FilesInv /\ TearInv /\ RootInv /\ ReuseInv
  BY <1>1, <1>2, IdleTypes DEF TablesOK, FilesInv, TearInv, RootInv, ReuseInv
<1>4. StageInv /\ ExactInv /\ OpenExactInv
  BY <1>1, <1>2, IdleTypes DEF StageInv, ExactInv, OpenExactInv
<1> QED  BY <1>3, <1>4 DEF Disk

(* Every step, and the stuttering one, keeps the invariant of the files.   *)
LEMMA FilesStep ==
  ASSUME SnapInv, DiskInv, [Next]_openVars
  PROVE  DiskInv'
<1>0. Control /\ Data
  BY DEF SnapInv
<1>1. Control' /\ Data'
  BY SnapStep DEF SnapInv
<1>2. plan' = plan
  BY DEF Next, openVars, vars
<1> SUFFICES ASSUME NoBlindReuse PROVE Disk'
  BY <1>2 DEF DiskInv, NoBlindReuse
<1>3. Disk
  BY DEF DiskInv
<1>4. CASE UNCHANGED openVars
  <2>1. UNCHANGED <<logs, tables, manis, current, up, mem, vs, err, bg, hist, rc>>
    BY <1>4 DEF openVars, vars, disk, memtables, flags
  <2>2. Live' = Live /\ Based' = Based /\ Roots' = Roots /\ ReadableTables' = ReadableTables /\ Mani' = Mani /\ NewVer' = NewVer
    BY <2>1 DEF Live, Based, Roots, ReadableTables, Mani, NewVer
  <2>3. TablesOK' /\ FilesInv' /\ TearInv' /\ RootInv' /\ ReuseInv'
    BY <1>2, <1>3, <2>1, <2>2 DEF Disk, TablesOK, FilesInv, TearInv, RootInv, ReuseInv
  <2>4. StageInv'
    BY <1>3, <2>1, <2>2 DEF Disk, StageInv
  <2>5. ExactInv' /\ OpenExactInv'
    BY <1>3, <2>1, <2>2 DEF Disk, ExactInv, OpenExactInv
  <2> QED  BY <2>3, <2>4, <2>5 DEF Disk
<1>5. CASE Next
  <2>1. ASSUME NEW c \in Writers, Write(c) \/ CompactRange(c) \/ WriterStep(c), Running
        PROVE  Disk'
    BY <1>0, <1>1, <1>3, <2>1, WriterCalls, CallDisk
  <2>2. ASSUME NEW r \in Readers, GetBegin(r) \/ ReaderStep(r), Running
        PROVE  Disk'
    BY <1>0, <1>1, <1>3, <2>2, ReaderCalls, CallDisk
  <2>3. CASE BackgroundStep /\ Running
    BY <1>0, <1>3, <2>3, BackgroundDisk
  <2>4. CASE Close /\ rc' = rc
    BY <1>0, <1>2, <1>3, <2>4, CloseDisk
  <2>5. CASE CloseDone \/ OpenBegin
    BY <1>0, <1>1, <1>2, <1>3, <2>5, CloseDoneDisk, OpenBeginDisk
  <2>6. CASE OpenStep
    <3>1. CASE OpenRead \/ RecoverLogFile
      BY <1>0, <1>1, <1>2, <1>3, <3>1, OpenReadDisk, RecoverLogDisk
    <3>2. CASE OpenLog \/ OpenApply
      BY <1>0, <1>1, <1>2, <1>3, <3>2, OpenLogDisk, OpenApplyDisk
    <3>3. CASE OpenCurrent \/ OpenDone
      BY <1>0, <1>2, <1>3, <3>3, OpenCurrentDisk, OpenDoneDisk
    <3> QED  BY <2>6, <3>1, <3>2, <3>3 DEF OpenStep
  <2>7. CASE RepairBegin \/ ConvertLogToTable \/ WriteDescriptor \/ RepairDone \/ DestroyDB
    BY <1>0, <1>2, <1>3, <2>7, RepairBeginDisk, ConvertDisk, DescriptorDisk, RepairDoneDisk, DestroyDisk
  <2>8. CASE Crash \/ Segfault
    BY <1>0, <1>1, <1>2, <1>3, <2>8, CrashDisk, SegfaultDisk
  <2> QED  BY <1>5, <2>1, <2>2, <2>3, <2>4, <2>5, <2>6, <2>7, <2>8 DEF Next, Step
<1> QED  BY <1>4, <1>5

(* What the invariant says of the files is what a run checks of them.      *)
LEMMA FilesAreOK ==
  ASSUME SnapInv, Disk
  PROVE  FilesOK
<1>0. Control /\ Data
  BY DEF SnapInv
<1>1. TypeOK
  <2>1. \A n \in DOMAIN logs : n \in Nat /\ logs[n].tear \in 0..2 /\ logs[n].synced \in 0..Len(logs[n].recs)
    BY <1>0 DEF Control, Typed, TypeLogs, FileOK, FileType
  <2>2. \A n \in DOMAIN tables : n \in Nat /\ tables[n] # {}
    BY <1>0 DEF Control, Typed, TypeTables, Disk, TablesOK
  <2>3. current \in Nat /\ \A n \in DOMAIN manis : n \in Nat /\ manis[n].synced \in 0..Len(manis[n].recs)
    BY <1>0 DEF Control, Typed, TypeManis, FileOK, FileType
  <2>4. Range(queue) \subseteq Writers /\ IsInjective(queue)
    BY <1>0 DEF Control, QueueInv, Range, IsInjective
  <2>5. {mem, imm} \subseteq {0} \cup DOMAIN mems
    BY <1>0 DEF Control, QuietInv, Data, FreshInv, BgInv, Based, Live
  <2>6. vs.ver \subseteq Nat \X {0, 1} /\ pending \subseteq Nat
    BY <1>0 DEF Control, Typed, TypeVs, VsType, File, TypeBg
  <2>7. {err, sched, shut} \subseteq BOOLEAN /\ manual \in Writers \cup {NoClient}
    BY <1>0 DEF Control, Typed, TypeFlags
  <2>8. up \in {"closed", "opening", "repairing", "open", "closing"}
    BY <1>0 DEF Control, Typed, TypeRc
  <2> QED  BY <2>1, <2>2, <2>3, <2>4, <2>5, <2>6, <2>7, <2>8 DEF TypeOK
<1>2. OpenFindsFiles
  <2> SUFFICES ASSUME rc.stage = "read", ~hist.damaged, ~hist.rootless
               PROVE  ManifestReadable /\ FilesOf(Replay(manis[current].recs).ver) \subseteq ReadableTables
    BY DEF OpenFindsFiles
  <2> DEFINE f == manis[current]
  <2>1. current \in DOMAIN manis /\ f.synced > 0 /\ f.tear # 2
    BY DEF Disk, RootInv, TearInv
  <2>2. FileOK(f, EditType)
    BY <1>0, <2>1 DEF Control, Typed, TypeManis
  <2>3. f.recs # <<>> /\ f.recs \in Seq(EditType)
    BY <2>1, <2>2 DEF FileOK, FileType
  <2>4. FilesInv /\ current \in Roots
    BY <2>1 DEF Disk, Roots
  <2>5. \A k \in Views(f) : FilesOf(PrefixVer(f.recs, k)) \subseteq ReadableTables
    BY <2>4 DEF FilesInv
  <2> HIDE DEF f
  <2>6. Len(f.recs) \in Views(f) /\ Replay(f.recs).ver = PrefixVer(f.recs, Len(f.recs))
    BY <2>1, <2>2, <2>3, LastView, ReplayIsPrefix
  <2>7. FilesOf(Replay(f.recs).ver) \subseteq ReadableTables
    BY <2>5, <2>6
  <2> QED  BY <2>1, <2>3, <2>7 DEF ManifestReadable, f
<1> QED  BY <1>1, <1>2 DEF FilesOK

(* Open finds a manifest that can be read and every table it names         *)
(* (version_set.cc, VersionSet::Recover; db_impl.cc, DBImpl::Recover),     *)
(* wherever a crash interrupted the writes, the flushes, the compactions,  *)
(* an Open or a repair and whatever DeleteObsoleteFiles removed: it removes*)
(* nothing that any part of the manifest a crash may leave still needs.    *)
(* The exception is the experimental options.reuse_logs together with a    *)
(* write to the manifest that fails, after which the old manifest is in    *)
(* use again without a sync.                                               *)
THEOREM OpenFindsWhatItNeeds ==
  Spec => [](NoBlindReuse => FilesOK)
<1>1. Init => SnapInv /\ DiskInv
  BY SnapInit, DiskInit DEF DiskInv
<1>2. (SnapInv /\ DiskInv) /\ [Next]_openVars => (SnapInv /\ DiskInv)'
  BY SnapStep, FilesStep
<1>3. SnapInv /\ DiskInv => (NoBlindReuse => FilesOK)
  BY FilesAreOK DEF DiskInv
<1> QED  BY <1>1, <1>2, <1>3, PTL DEF Spec

-----------------------------------------------------------------------------
(* A table or the synced part of a log that the step leaves as it was.     *)
TableStays(n) == n \in DOMAIN tables => n \in DOMAIN tables' /\ tables'[n] = tables[n]
LogStays(n) ==
  /\ n \in DOMAIN logs' /\ logs'[n].synced >= logs[n].synced
  /\ \A i \in 1..logs[n].synced : logs'[n].recs[i] = logs[n].recs[i]

(* What is in the tables of a version, or in a log, is still there.        *)
LEMMA TablesStill ==
  ASSUME NEW v, NEW x, InTables(tables, v, x), \A n \in FilesOf(v) : TableStays(n)
  PROVE  InTables(tables', v, x)
BY DEF InTables, TableStays

(* A write that is in a version is in every larger one.                    *)
LEMMA VersionGrows ==
  ASSUME NEW tb, NEW v, NEW w, NEW x, InTables(tb, v, x), FilesOf(v) \subseteq FilesOf(w)
  PROVE  InTables(tb, w, x)
BY DEF InTables

(* A write that is synced in a log stays there.                            *)
LEMMA LogStill ==
  ASSUME TypeLogs, TypeLogs', NEW n, NEW x, InLog(logs, n, x), LogStays(n)
  PROVE  InLog(logs', n, x)
<1>1. PICK i \in 1..logs[n].synced : \E e \in logs[n].recs[i] : e[2] = x
  BY DEF InLog
<1>2. n \in DOMAIN logs /\ n \in DOMAIN logs' /\ logs[n].synced \in Nat /\ logs'[n].synced \in Nat
  BY DEF InLog, LogStays, TypeLogs, FileOK, FileType
<1>3. i \in 1..logs'[n].synced /\ logs'[n].recs[i] = logs[n].recs[i]
  BY <1>1, <1>2 DEF LogStays
<1> QED  BY <1>1, <1>2, <1>3 DEF InLog

(* The same for the logs from a number on.                                 *)
LEMMA LogsStill ==
  ASSUME TypeLogs, TypeLogs', NEW l, NEW x, InLogs(logs, l, x), \A n \in DOMAIN logs : n >= l => LogStays(n)
  PROVE  InLogs(logs', l, x)
<1>1. PICK n \in DOMAIN logs : n >= l /\ InLog(logs, n, x)
  BY DEF InLogs
<1>2. LogStays(n)
  BY <1>1
<1>3. InLog(logs', n, x) /\ n \in DOMAIN logs'
  BY <1>1, <1>2, LogStill DEF LogStays
<1> QED  BY <1>1, <1>3 DEF InLogs

(* The logs from a lower number on have it too.                            *)
LEMMA LogsBefore ==
  ASSUME TypeLogs, NEW l \in Nat, NEW k \in Nat, k <= l, NEW x, InLogs(logs, l, x)
  PROVE  InLogs(logs, k, x)
BY DEF InLogs, TypeLogs

(* A write in one log is in the logs from any lower number on.             *)
LEMMA LogAmong ==
  ASSUME TypeLogs, NEW l \in Nat, NEW n, l <= n, NEW x, InLog(logs, n, x)
  PROVE  InLogs(logs, l, x)
BY DEF InLogs, InLog, TypeLogs

(* The manifests that may be read next say what they said, and what they   *)
(* need is still there.                                                    *)
LEMMA CoverStill ==
  ASSUME TypeLogs, TypeLogs', NEW x, Covered(x), rc.stage # "convert", Roots' \subseteq Roots,
         \A m \in Roots' : \A k \in Views(manis'[m]) :
            /\ k \in Views(manis[m]) /\ manis'[m].recs[k] = manis[m].recs[k]
            /\ PrefixVer(manis'[m].recs, k) = PrefixVer(manis[m].recs, k)
            /\ \A n \in FilesOf(PrefixVer(manis[m].recs, k)) : TableStays(n)
            /\ \A n \in DOMAIN logs : n >= manis[m].recs[k].log => LogStays(n)
  PROVE  Covered(x)'
<1> SUFFICES ASSUME NEW m \in Roots', NEW k \in Views(manis'[m])
             PROVE  InTables(tables', PrefixVer(manis'[m].recs, k), x) \/ InLogs(logs', manis'[m].recs[k].log, x)
  BY DEF Covered
<1> DEFINE v == PrefixVer(manis[m].recs, k)
           l == manis[m].recs[k].log
<1>1. /\ k \in Views(manis[m]) /\ manis'[m].recs[k].log = l /\ PrefixVer(manis'[m].recs, k) = v
      /\ (\A n \in FilesOf(v) : TableStays(n)) /\ \A n \in DOMAIN logs : n >= l => LogStays(n)
  OBVIOUS
<1>2. InTables(tables, v, x) \/ InLogs(logs, l, x)
  BY <1>1 DEF Covered
<1> HIDE DEF v, l
<1>3. InTables(tables', v, x) \/ InLogs(logs', l, x)
  BY <1>1, <1>2, TablesStill, LogsStill
<1> QED  BY <1>1, <1>3

(* No file that counts is touched.                                         *)
LEMMA FilesStill ==
  ASSUME TypeLogs, TypeLogs', NEW x, rc.stage = "convert" => rc'.stage = "convert", Covered(x), InFiles(x),
         Roots' \subseteq Roots,
         \A m \in DOMAIN manis' : m \in DOMAIN manis /\ manis'[m] = manis[m],
         \A n \in DOMAIN tables : TableStays(n), \A n \in DOMAIN logs : LogStays(n)
  PROVE  Covered(x)' /\ InFiles(x)'
<1>1. Covered(x)'
  <2>1. CASE rc.stage = "convert"
    BY <2>1 DEF Covered
  <2>2. CASE rc.stage # "convert"
    <3>1. \A n : TableStays(n)
      BY DEF TableStays
    <3>2. \A m \in Roots' : m \in DOMAIN manis'
      BY DEF Roots
    <3> QED  BY <2>2, <3>1, <3>2, CoverStill
  <2> QED  BY <2>1, <2>2
<1>2. InFiles(x)'
  <2>1. CASE InLogs(logs, 0, x)
    BY <2>1, LogsStill DEF InFiles
  <2>2. CASE \E n \in ReadableTables : \E e \in tables[n] : e[2] = x
    <3>1. PICK n \in ReadableTables : \E e \in tables[n] : e[2] = x
      BY <2>2
    <3>2. n \in ReadableTables' /\ tables'[n] = tables[n]
      BY <3>1 DEF ReadableTables, TableStays
    <3> QED  BY <3>1, <3>2 DEF InFiles
  <2> QED  BY <2>1, <2>2 DEF InFiles
<1> QED  BY <1>1, <1>2

(* Where a manifest can be read, its files are among all files.            *)
LEMMA CoveredAll ==
  ASSUME Control', FilesInv', NEW x, Covered(x)', rc'.stage # "convert", \E m \in Roots' : Views(manis'[m]) # {}
  PROVE  InFiles(x)'
<1>1. PICK m \in Roots' : Views(manis'[m]) # {}
  OBVIOUS
<1>2. PICK k \in Views(manis'[m]) : TRUE
  BY <1>1
<1> DEFINE v == PrefixVer(manis'[m].recs, k)
           l == manis'[m].recs[k].log
<1>3. (InTables(tables', v, x) \/ InLogs(logs', l, x)) /\ FilesOf(v) \subseteq ReadableTables'
  BY <1>1, <1>2 DEF Covered, FilesInv
<1>4. m \in DOMAIN manis' /\ l \in Nat
  <2>1. m \in DOMAIN manis' /\ FileOK(manis'[m], EditType)
    BY <1>1 DEF Roots, Control, Typed, TypeManis
  <2>2. k \in 1..Len(manis'[m].recs)
    BY <2>1, ViewTypes
  <2>3. manis'[m].recs[k] \in EditType
    BY <2>1, <2>2 DEF FileOK, FileType
  <2> QED  BY <2>1, <2>3 DEF EditType
<1> HIDE DEF v, l
<1>5. CASE InTables(tables', v, x)
  BY <1>3, <1>5 DEF InTables, InFiles
<1>6. CASE InLogs(logs', l, x)
  <2>1. \A n \in DOMAIN logs' : n \in Nat
    BY DEF Control, Typed, TypeLogs
  <2> QED  BY <1>4, <1>6, <2>1 DEF InLogs, InFiles
<1> QED  BY <1>3, <1>5, <1>6

(* The manifest of a running database can be read.                         *)
LEMMA LiveInFiles ==
  ASSUME Control', Data', Disk', Live', ~hist'.damaged, NEW x, Covered(x)'
  PROVE  InFiles(x)'
<1>1. vs'.mani \in DOMAIN manis' /\ vs'.mani = current' /\ manis'[vs'.mani].recs # <<>> /\ manis'[vs'.mani].tear # 2
      /\ FilesInv' /\ rc' = IdleRc
  BY DEF Disk, StageInv, TearInv, Data, ManiInv, Control, Stages, Live
<1> DEFINE m == vs'.mani
<1>2. m \in Roots' /\ FileOK(manis'[m], EditType) /\ rc'.stage # "convert"
  BY <1>1, IdleTypes DEF Roots, Control, Typed, TypeManis
<1>3. Len(manis'[m].recs) \in Views(manis'[m])
  BY <1>1, <1>2, LastView
<1> HIDE DEF m
<1> QED  BY <1>1, <1>2, <1>3, CoveredAll

-----------------------------------------------------------------------------
(* The threads of the queue keep their places and their writes.            *)
PlacesKept ==
  /\ \A i \in 1..Len(queue) : queue'[i] = queue[i]
  /\ \A w \in Writers : cl[w].pc \in InQueue => cl'[w].id = cl[w].id

SameThread(w) ==
  cl'[w].pc = cl[w].pc /\ cl'[w].sync = cl[w].sync /\ cl'[w].st = cl[w].st /\ cl'[w].id = cl[w].id /\ cl'[w].n = cl[w].n

(* Then a group keeps its writes.                                          *)
LEMMA GroupStill ==
  ASSUME TypeCl, QueueInv, PlacesKept, NEW w \in Writers, cl[w].pc \in Writing, cl'[w].n = cl[w].n
  PROVE  GroupIds(cl[w].n)' = GroupIds(cl[w].n)
<1> DEFINE n == cl[w].n
<1>1. n \in 1..Len(queue) /\ Len(queue) \in Nat /\ cl'[w].n = n
  BY DEF QueueInv
<1> HIDE DEF n
<1>2. \A i \in 1..n : queue'[i] = queue[i] /\ cl'[queue[i]].id = cl[queue[i]].id
  <2> TAKE i \in 1..n
  <2>1. i \in 1..Len(queue) /\ queue[i] \in Writers
    BY <1>1 DEF QueueInv
  <2>2. cl[queue[i]].pc \in InQueue
    BY <2>1 DEF QueueInv
  <2> QED  BY <2>1, <2>2 DEF PlacesKept
<1>3. {i \in 1..n : cl'[queue'[i]].id # 0} = {i \in 1..n : cl[queue[i]].id # 0}
  BY <1>2
<1> DEFINE B == {i \in 1..n : cl[queue[i]].id # 0}
<1>4. {cl'[queue'[i]].id : i \in B} = {cl[queue[i]].id : i \in B}
  BY <1>2
<1>5. n = cl[w].n
  BY DEF n
<1> QED  BY <1>1, <1>3, <1>4, <1>5 DEF GroupIds, Batches

(* Nobody is told more than was the case before.                           *)
LEMMA SureStill ==
  ASSUME TypeCl, QueueInv, PlacesKept, NEW x, Sure(x)', x \in hist'.promised => Sure(x),
         \A w \in Writers : cl'[w].pc \in {"return", "finish"} /\ cl'[w].sync /\ cl'[w].st = "ok" => SameThread(w)
  PROVE  Sure(x)
<1>1. CASE x \in hist'.promised
  BY <1>1
<1>2. CASE x \notin hist'.promised
  <2>1. PICK w \in Writers : Owed(w, x)'
    BY <1>2 DEF Sure
  <2>2. SameThread(w)
    BY <2>1 DEF Owed
  <2>3. CASE cl'[w].pc = "return"
    <3>1. Owed(w, x)
      BY <2>1, <2>2, <2>3 DEF Owed, SameThread
    <3> QED  BY <3>1 DEF Sure
  <2>4. CASE cl'[w].pc # "return"
    <3>1. cl'[w].pc = "finish" /\ x \in GroupIds(cl[w].n)' /\ cl'[w].sync /\ cl'[w].st = "ok"
      BY <2>1, <2>4 DEF Owed
    <3>2. cl[w].pc = "finish" /\ cl[w].sync /\ cl[w].st = "ok" /\ cl'[w].n = cl[w].n
      BY <2>2, <3>1 DEF SameThread
    <3>3. x \in GroupIds(cl[w].n)
      BY <3>1, <3>2, GroupStill DEF Writing
    <3>4. Owed(w, x)
      BY <3>2, <3>3 DEF Owed
    <3> QED  BY <3>4 DEF Sure
  <2> QED  BY <2>3, <2>4
<1> QED  BY <1>1, <1>2

(* The group at the log finds there what it wrote.                         *)
LEMMA SyncStill ==
  ASSUME TypeCl, QueueInv, PlacesKept, Syncing, mem' = mem, mem \in DOMAIN logs', logs'[mem] = logs[mem],
         \A w \in Writers : cl'[w].pc \in {"sync", "insert"} =>
           cl'[w].pc = cl[w].pc /\ cl'[w].sync = cl[w].sync /\ cl'[w].n = cl[w].n
  PROVE  Syncing'
<1> SUFFICES ASSUME NEW w \in Writers
             PROVE  (/\ cl[w].pc = "sync" => \A x \in GroupIds(cl[w].n) :
                          \E i \in 1..Len(logs[mem].recs) : \E e \in logs[mem].recs[i] : e[2] = x
                     /\ cl[w].pc = "insert" /\ cl[w].sync => \A x \in GroupIds(cl[w].n) : InLog(logs, mem, x))'
  BY DEF Syncing
<1>1. CASE cl'[w].pc = "sync"
  <2>1. cl[w].pc = "sync" /\ GroupIds(cl[w].n)' = GroupIds(cl[w].n)
    BY <1>1, GroupStill DEF Writing
  <2>2. \A x \in GroupIds(cl[w].n) : \E i \in 1..Len(logs[mem].recs) : \E e \in logs[mem].recs[i] : e[2] = x
    BY <2>1 DEF Syncing
  <2> QED  BY <1>1, <2>1, <2>2
<1>2. CASE cl'[w].pc = "insert" /\ cl'[w].sync
  <2>1. cl[w].pc = "insert" /\ cl[w].sync /\ GroupIds(cl[w].n)' = GroupIds(cl[w].n)
    BY <1>2, GroupStill DEF Writing
  <2>2. \A x \in GroupIds(cl[w].n) : InLog(logs, mem, x)
    BY <2>1 DEF Syncing
  <2> QED  BY <1>2, <2>1, <2>2 DEF InLog
<1> QED  BY <1>1, <1>2

(* A group leaves the queue: those who asked for a sync and are told that  *)
(* all is well belong to a group that was synced.                          *)
LEMMA PopSure ==
  ASSUME TypeCl, QueueInv, NEW c \in Writers, NEW n \in 1..Len(queue), NEW st \in {"ok", "err"},
         queue' = SubSeq(queue, n + 1, Len(queue)),
         cl' = PopGroup(cl, n, st) \/ cl' = SignalAll(PopGroup(cl, n, st)),
         st = "ok" => \/ n = 1 /\ queue[1] = c /\ cl[c].id = 0
                      \/ cl[c].pc = "finish" /\ cl[c].st = "ok" /\ cl[c].n = n,
         hist' = hist
  PROVE  Syncing' /\ \A x : Sure(x)' => Sure(x)
<1>1. \A w \in Writers : /\ cl'[w].sync = cl[w].sync /\ cl'[w].id = cl[w].id
                         /\ cl'[w].pc \notin Writing
                         /\ cl'[w].pc = "return" => \/ cl[w].pc = "return" /\ cl'[w].st = cl[w].st
                                                    \/ cl'[w].st = st /\ \E i \in 1..n : queue[i] = w
  BY Popped
<1>2. Syncing'
  BY <1>1 DEF Syncing, Writing
<1>3. ASSUME NEW x, Sure(x)'
      PROVE  Sure(x)
  <2>1. CASE x \in hist.promised
    BY <2>1 DEF Sure
  <2>2. CASE x \notin hist.promised
    <3>1. PICK w \in Writers : Owed(w, x)'
      BY <1>3, <2>2 DEF Sure
    <3>2. cl'[w].pc = "return" /\ x = cl'[w].id /\ cl'[w].sync /\ cl'[w].st = "ok"
      BY <1>1, <3>1 DEF Owed, Writing
    <3>3. x = cl[w].id /\ cl[w].sync /\ x # 0
      BY <1>1, <3>2 DEF TypeCl
    <3>4. CASE cl[w].pc = "return" /\ cl'[w].st = cl[w].st
      BY <3>2, <3>3, <3>4 DEF Sure, Owed
    <3>5. CASE st = "ok" /\ \E i \in 1..n : queue[i] = w
      <4>1. PICK i \in 1..n : queue[i] = w
        BY <3>5
      <4>2. ~(n = 1 /\ queue[1] = c /\ cl[c].id = 0)
        BY <3>3, <4>1
      <4>3. cl[c].pc = "finish" /\ cl[c].st = "ok" /\ cl[c].n = n
        BY <3>5, <4>2
      <4>4. cl[c].sync
        BY <3>3, <4>1, <4>3 DEF QueueInv, Writing
      <4>5. x \in GroupIds(cl[c].n)
        BY <3>3, <4>1, <4>3 DEF GroupIds, Batches
      <4>6. Owed(c, x)
        BY <4>3, <4>4, <4>5 DEF Owed
      <4> QED  BY <4>6 DEF Sure
    <3> QED  BY <1>1, <3>2, <3>4, <3>5
  <2> QED  BY <2>1, <2>2
<1> QED  BY <1>2, <1>3

-----------------------------------------------------------------------------
(* Only the front of the queue is at work.                                 *)
LEMMA OneWriter ==
  ASSUME QueueInv, NEW c \in Writers, NEW w \in Writers,
         cl[c].pc \in InQueue \ {"queued"}, cl[w].pc \in InQueue \ {"queued"}
  PROVE  w = c
<1>1. queue[1] = c
  BY FrontFacts
<1>2. queue[1] = w
  BY FrontFacts
<1> QED  BY <1>1, <1>2

(* A step of a running database that keeps its tables, its memtables and   *)
(* what is synced of its logs.                                             *)
LEMMA CallSafe ==
  ASSUME Control, Control', Live, UNCHANGED <<tables, manis, current, up, rc, mem, imm, mems>>, vs'.ver = vs.ver,
         \A n \in DOMAIN logs : LogStays(n), NEW x, Safe(x)
  PROVE  Safe(x)'
<1>0. TypeLogs /\ TypeLogs' /\ up \in {"open", "closing"} /\ rc.stage = "none"
  BY IdleTypes DEF Control, Typed, Live, Stages
<1>1. Covered(x)' /\ InFiles(x)'
  <2>1. Roots' = Roots
    <3>1. UNCHANGED <<manis, current, rc, vs.mani>> \/ rc'.stage # "current"
      BY <1>0
    <3> QED  BY <1>0, <3>1 DEF Roots
  <2>2. \A n \in DOMAIN tables : TableStays(n)
    BY DEF TableStays
  <2> QED  BY <1>0, <2>1, <2>2, FilesStill DEF Safe
<1>2. InMemory(x)'
  <2>1. InLog(logs, mem, x) => InLog(logs', mem, x)
    <3>1. InLog(logs, mem, x) => LogStays(mem)
      BY DEF InLog
    <3> QED  BY <1>0, <3>1, LogStill
  <2>2. InTables(tables, vs.ver, x) \/ (imm # 0 /\ InMem(mems, imm, x)) \/ (InMem(mems, mem, x) /\ InLog(logs, mem, x))
    BY DEF Safe, InMemory
  <2> QED  BY <2>1, <2>2 DEF InMemory
<1>3. Opening(x)'
  BY <1>0 DEF Opening
<1> QED  BY <1>1, <1>2, <1>3 DEF Safe

(* A call that returns, or goes on, with nothing lost.                     *)
LEMMA CallPromise ==
  ASSUME Control, Control', Live, UNCHANGED <<tables, manis, current, up, rc, mem, imm, mems>>, vs'.ver = vs.ver,
         \A n \in DOMAIN logs : LogStays(n), Promise, Syncing', \A x : Sure(x)' => Sure(x)
  PROVE  Promise'
<1>1. ASSUME NEW x \in Nat, Sure(x)'
      PROVE  Safe(x)'
  <2>1. Safe(x)
    BY <1>1 DEF Promise
  <2> QED  BY <2>1, CallSafe
<1>2. KeptLog'
  BY DEF KeptLog, Live
<1> QED  BY <1>1, <1>2 DEF Promise

(* The same when no file changes.                                          *)
LEMMA SameLogs ==
  ASSUME Control, logs' = logs
  PROVE  \A n \in DOMAIN logs : LogStays(n)
<1>1. \A n \in DOMAIN logs : logs[n].synced \in Nat
  BY DEF Control, Typed, TypeLogs, FileOK, FileType
<1> QED  BY <1>1 DEF LogStays

(* Steps of clients that write nothing owe nothing new.                    *)
LEMMA QueueStepPromise ==
  ASSUME Control, Data, Disk, Promise, Control', NEW c \in Writers, Running,
         Write(c) \/ CompactRange(c) \/ RoomError(c) \/ RoomNoLog(c) \/ RoomReady(c) \/ WriteFinish(c)
  PROVE  Promise'
<1>0. TypeCl /\ QueueInv /\ Len(queue) \in Nat /\ Live /\ hist \in HistType /\ hist.next \in Nat \ {0} /\ plan \in Plans
  <2>1. Live
    BY WriterCalls DEF WriterStep, MakeRoomForWrite
  <2>2. TypeCl /\ QueueInv /\ hist \in HistType /\ hist.next \in Nat \ {0} /\ plan \in Plans
    BY DEF Control, Typed, TypeHist, HistType
  <2>3. Len(queue) \in Nat
    BY <2>2 DEF QueueInv
  <2> QED  BY <2>1, <2>2, <2>3
<1>1. UNCHANGED <<logs, tables, manis, current, up, rc, mem, imm, mems>>
  BY DEF Write, CompactRange, Enqueue, RoomError, RoomNoLog, RoomReady, WriteFinish, disk, memtables, Running
<1>2. vs'.ver = vs.ver
  <2>1. CASE WriteFinish(c)
    <3>1. vs' = [vs EXCEPT !.seq = @ + Cardinality(Batches(cl[c].n))] /\ vs \in VsType
      BY <2>1 DEF WriteFinish, Control, Typed, TypeVs
    <3> QED  BY <3>1 DEF VsType
  <2>2. CASE ~WriteFinish(c)
    BY <2>2 DEF Write, CompactRange, Enqueue, RoomError, RoomNoLog, RoomReady
  <2> QED  BY <2>1, <2>2
<1>3. Syncing' /\ \A x : Sure(x)' => Sure(x)
  <2>1. CASE Write(c) \/ CompactRange(c)
    <3>1. PICK sync \in BOOLEAN, id \in Nat, man \in BOOLEAN : Enqueue(c, sync, id, man) /\ (sync => id # 0)
      BY <1>0, <2>1, LimitAssumption DEF Write, CompactRange
    <3>2. cl'[c].pc \in {"head", "queued"} /\ \A w \in Writers \ {c} : cl'[w] = cl[w]
      BY <1>0, <3>1, Enqueued
    <3>3. queue' = Append(queue, c) /\ cl[c].pc = "idle" /\ hist'.promised = hist.promised
      BY <1>0, <3>1 DEF Enqueue, HistType
    <3>4. PlacesKept
      BY <1>0, <3>2, <3>3 DEF PlacesKept, QueueInv, InQueue
    <3>5. \A w \in Writers : cl'[w].pc \in {"return", "finish", "sync", "insert"} => SameThread(w)
      BY <3>2 DEF SameThread
    <3>6. ASSUME NEW x, Sure(x)' PROVE Sure(x)
      <4>1. x \in hist'.promised => Sure(x)
        BY <3>3 DEF Sure
      <4> QED  BY <1>0, <3>4, <3>5, <3>6, <4>1, SureStill
    <3>7. Syncing'
      <4>1. mem \in DOMAIN logs
        BY <1>0 DEF Data, BgInv, LogInv, Based
      <4> QED  BY <1>0, <1>1, <3>4, <3>5, <4>1, SyncStill DEF Promise, SameThread
    <3> QED  BY <3>6, <3>7
  <2>2. CASE RoomError(c) \/ RoomNoLog(c)
    <3>1. queue' = SubSeq(queue, 1 + 1, Len(queue)) /\ cl' = PopGroup(cl, 1, "err") /\ hist' = hist /\ cl[c].pc = "head"
      BY <2>2 DEF RoomError, RoomNoLog, AtHead
    <3>2. 1 \in 1..Len(queue)
      BY <1>0, <3>1, FrontFacts DEF InQueue
    <3> QED  BY <1>0, <3>1, <3>2, PopSure
  <2>3. CASE RoomReady(c)
    <3>1. cl[c].pc = "head" /\ hist' = hist /\ queue' = queue
          /\ cl' = [cl EXCEPT ![c].pc = "append", ![c].n = BuildBatchGroup(c)]
      BY <2>3 DEF RoomReady, HasRoom, Forced, AtHead
    <3>2. cl'[c].pc = "append" /\ cl'[c].id = cl[c].id /\ \A w \in Writers \ {c} : cl'[w] = cl[w]
      <4> DEFINE b == BuildBatchGroup(c)
      <4>1. cl' = [cl EXCEPT ![c].pc = "append", ![c].n = b]
        BY <3>1
      <4> HIDE DEF b
      <4> QED  BY <1>0, <4>1 DEF TypeCl, ClType
    <3>3. PlacesKept
      BY <3>1, <3>2 DEF PlacesKept
    <3>4. \A w \in Writers : cl'[w].pc \in {"return", "finish", "sync", "insert"} => SameThread(w)
      BY <3>2 DEF SameThread
    <3>5. ASSUME NEW x, Sure(x)' PROVE Sure(x)
      <4>1. x \in hist'.promised => Sure(x)
        BY <3>1 DEF Sure
      <4> QED  BY <1>0, <3>3, <3>4, <3>5, <4>1, SureStill
    <3>6. Syncing'
      <4>1. mem \in DOMAIN logs
        BY <1>0 DEF Data, BgInv, LogInv, Based
      <4> QED  BY <1>0, <1>1, <3>3, <3>4, <4>1, SyncStill DEF Promise, SameThread
    <3> QED  BY <3>5, <3>6
  <2>4. CASE WriteFinish(c)
    <3> DEFINE n == cl[c].n
               st == IF cl[c].st = "ok" THEN "ok" ELSE "err"
    <3>1. queue' = SubSeq(queue, n + 1, Len(queue)) /\ cl[c].pc = "finish" /\ hist' = hist
          /\ (cl' = PopGroup(cl, n, st) \/ cl' = SignalAll(PopGroup(cl, n, st)))
      BY <2>4 DEF WriteFinish
    <3>2. n \in 1..Len(queue) /\ st \in {"ok", "err"} /\ (st = "ok" => cl[c].st = "ok")
      BY <1>0, <3>1 DEF QueueInv, Writing
    <3>3. cl[c].n = n
      OBVIOUS
    <3> HIDE DEF n, st
    <3> QED  BY <1>0, <3>1, <3>2, <3>3, PopSure
  <2> QED  BY <2>1, <2>2, <2>3, <2>4
<1>4. \A n \in DOMAIN logs : LogStays(n)
  BY <1>1, SameLogs
<1> QED  BY <1>0, <1>1, <1>2, <1>3, <1>4, CallPromise

(* A thread that waits, or returns, leaves everything as it is; the one    *)
(* that returns was told what is promised now.                             *)
LEMMA WaitStepPromise ==
  ASSUME Control, Data, Disk, Promise, Control', NEW c \in Writers, Running,
         RoomDelay(c) \/ RoomWait(c) \/ WriteReturn(c) \/ AwaitFlush(c) \/ ManualTurn(c)
  PROVE  Promise'
<1>0. TypeCl /\ QueueInv /\ Live /\ hist \in HistType
  <2>1. Live
    BY WriterCalls DEF WriterStep, MakeRoomForWrite
  <2> QED  BY <2>1 DEF Control, Typed, TypeHist
<1>1. UNCHANGED <<logs, tables, manis, current, up, rc, mem, imm, mems, vs, queue>>
  BY DEF RoomDelay, RoomWait, WriteReturn, AwaitFlush, ManualTurn, disk, memtables, Running
<1>2. /\ \A w \in Writers \ {c} : cl'[w] = cl[w]
      /\ cl'[c].pc \notin Writing \cup {"return"}
      /\ cl[c].pc \in InQueue => cl'[c].id = cl[c].id
  <2>1. CASE RoomDelay(c)
    BY <1>0, <2>1 DEF RoomDelay, AtHead, TypeCl, ClType, InQueue, Writing
  <2>2. CASE RoomWait(c)
    BY <1>0, <2>2 DEF RoomWait, AtHead, TypeCl, ClType, InQueue, Writing
  <2>3. CASE WriteReturn(c)
    BY <1>0, <2>3 DEF WriteReturn, IdleCl, TypeCl, ClType, InQueue, Writing
  <2>4. CASE AwaitFlush(c)
    BY <1>0, <2>4 DEF AwaitFlush, TypeCl, ClType, InQueue, Writing
  <2>5. CASE ManualTurn(c)
    <3>1. /\ cl[c].pc = "manual"
          /\ cl' = [cl EXCEPT ![c] = IdleCl] \/ cl' = [cl EXCEPT ![c].pc = "manwait"]
      BY <2>5 DEF ManualTurn
    <3>2. CASE cl' = [cl EXCEPT ![c] = IdleCl]
      BY <1>0, <3>1, <3>2 DEF IdleCl, TypeCl, ClType, InQueue, Writing
    <3>3. CASE cl' = [cl EXCEPT ![c].pc = "manwait"]
      BY <1>0, <3>1, <3>3 DEF TypeCl, ClType, InQueue, Writing
    <3> QED  BY <3>1, <3>2, <3>3
  <2> QED  BY <2>1, <2>2, <2>3, <2>4, <2>5
<1>3. ASSUME NEW x, x \in hist'.promised
      PROVE  Sure(x)
  <2>1. CASE WriteReturn(c)
    <3>1. cl[c].pc = "return"
          /\ hist' = [hist EXCEPT !.promised = IF cl[c].sync /\ cl[c].st = "ok" THEN @ \cup {cl[c].id} ELSE @]
      BY <2>1 DEF WriteReturn
    <3>2. x \in hist.promised \/ (cl[c].sync /\ cl[c].st = "ok" /\ x = cl[c].id)
      BY <1>0, <1>3, <3>1 DEF HistType
    <3> QED  BY <3>1, <3>2 DEF Sure, Owed
  <2>2. CASE ~WriteReturn(c)
    <3>1. hist' = hist
      BY <2>2 DEF RoomDelay, RoomWait, AwaitFlush, ManualTurn
    <3> QED  BY <1>3, <3>1 DEF Sure
  <2> QED  BY <2>1, <2>2
<1>4. PlacesKept
  BY <1>1, <1>2 DEF PlacesKept
<1>5. \A w \in Writers : cl'[w].pc \in {"return", "finish", "sync", "insert"} => SameThread(w)
  BY <1>2 DEF SameThread, Writing
<1>6. ASSUME NEW x, Sure(x)' PROVE Sure(x)
  BY <1>0, <1>3, <1>4, <1>5, <1>6, SureStill
<1>7. Syncing'
  <2>1. mem \in DOMAIN logs
    BY <1>0 DEF Data, BgInv, LogInv, Based
  <2> QED  BY <1>0, <1>1, <1>4, <1>5, <2>1, SyncStill DEF Promise, SameThread
<1>8. \A n \in DOMAIN logs : LogStays(n)
  BY <1>1, SameLogs
<1> QED  BY <1>0, <1>1, <1>6, <1>7, <1>8, CallPromise

(* A reader promises nothing.                                              *)
LEMMA ReaderPromise ==
  ASSUME Control, Data, Disk, Promise, Control', NEW r \in Readers, GetBegin(r) \/ ReaderStep(r), Running
  PROVE  Promise'
<1>0. TypeCl /\ QueueInv /\ Live /\ hist \in HistType /\ CallFrame
  BY ReaderCalls DEF Control, Typed, TypeHist
<1>1. UNCHANGED <<logs, tables, manis, current, up, rc, mem, imm, mems, queue, cl>> /\ vs'.ver = vs.ver
  BY <1>0 DEF GetBegin, ReaderStep, GetMem, GetTables, GetEnd, disk, memtables, Running, CallFrame
<1>2. hist'.promised = hist.promised
  <2>1. hist' = hist \/ hist' = [hist EXCEPT !.reads = @ + 1]
    BY DEF GetBegin, ReaderStep, GetMem, GetTables, GetEnd
  <2> QED  BY <1>0, <2>1 DEF HistType
<1>3. PlacesKept /\ \A w \in Writers : SameThread(w)
  BY <1>1 DEF PlacesKept, SameThread
<1>4. ASSUME NEW x, Sure(x)' PROVE Sure(x)
  <2>1. x \in hist'.promised => Sure(x)
    BY <1>2 DEF Sure
  <2> QED  BY <1>0, <1>3, <1>4, <2>1, SureStill
<1>5. Syncing'
  <2>1. mem \in DOMAIN logs
    BY <1>0 DEF Data, BgInv, LogInv, Based
  <2> QED  BY <1>0, <1>1, <1>3, <2>1, SyncStill DEF Promise, SameThread
<1>6. \A n \in DOMAIN logs : LogStays(n)
  BY <1>1, SameLogs
<1> QED  BY <1>0, <1>1, <1>4, <1>5, <1>6, CallPromise

(* The front goes on; nobody else is at the log.                           *)
LEMMA FrontMoves ==
  ASSUME TypeCl, QueueInv, NEW c \in Writers, cl[c].pc \in Writing, queue' = queue,
         \A w \in Writers \ {c} : cl'[w] = cl[w], cl'[c].sync = cl[c].sync, cl'[c].id = cl[c].id, cl'[c].n = cl[c].n
  PROVE  /\ PlacesKept /\ GroupIds(cl[c].n)' = GroupIds(cl[c].n)
         /\ \A w \in Writers : cl'[w].pc \in Writing \/ ~SameThread(w) => w = c
<1>1. PlacesKept
  BY DEF PlacesKept
<1>2. ASSUME NEW w \in Writers, cl'[w].pc \in Writing \/ ~SameThread(w)
      PROVE  w = c
  <2>1. CASE w # c
    <3>1. cl'[w] = cl[w]
      BY <2>1
    <3>2. cl[w].pc \in Writing
      BY <1>2, <3>1 DEF SameThread
    <3> QED  BY <3>2, OneWriter DEF Writing, InQueue
  <2> QED  BY <2>1
<1> QED  BY <1>1, <1>2, GroupStill

(* The log has the group now, or something at its end that is not synced.  *)
LEMMA WriteLogPromise ==
  ASSUME Control, Data, Disk, Promise, Control', NEW c \in Writers, Running, WriteLog(c), ~hist'.damaged
  PROVE  Promise'
<1>0. TypeCl /\ QueueInv /\ TypeVs /\ hist \in HistType /\ cl[c].pc = "append" /\ cl[c].pc \in Writing /\ Live
      /\ cl[c] \in ClType
  <2>1. Live
    BY WriterCalls DEF WriterStep
  <2> QED  BY <2>1 DEF Control, Typed, TypeHist, TypeCl, WriteLog, Writing
<1>1. mem \in DOMAIN logs /\ FileOK(logs[mem], SUBSET Entry)
  BY <1>0 DEF Data, LogInv, BgInv, Based, Live, Control, Typed, TypeLogs
<1> DEFINE E == Entries(cl[c].n)
           N == Len(logs[mem].recs)
<1>2. E \in SUBSET Entry /\ \A x \in GroupIds(cl[c].n) : \E e \in E : e[2] = x
  <2>1. E \subseteq Entry /\ IdsOf(E) = GroupIds(cl[c].n)
    BY <1>0, EntriesFacts
  <2> QED  BY <2>1 DEF IdsOf
<1>3. N \in Nat /\ logs[mem].synced \in Nat /\ logs[mem].synced <= N /\ logs[mem].recs \in Seq(SUBSET Entry)
  BY <1>1 DEF FileOK, FileType
<1>4. UNCHANGED <<tables, manis, current, up, mem, imm, mems, vs, rc, queue>>
  BY DEF WriteLog, memtables, Running
<1>5. \E f : /\ logs' = [logs EXCEPT ![mem] = f] /\ f.synced = logs[mem].synced
             /\ \A i \in 1..N : f.recs[i] = logs[mem].recs[i]
             /\ hist'.promised = hist.promised
             /\ \/ cl' = [cl EXCEPT ![c].pc = "sync"] /\ Len(f.recs) = N + 1 /\ f.recs[N + 1] = E
                \/ cl' = [cl EXCEPT ![c].pc = "insert"] /\ ~cl[c].sync
                \/ cl' = [cl EXCEPT ![c].pc = "finish", ![c].st = "err"]
  <2>1. ASSUME NEW f \in Appended(logs[mem], E), logs' = [logs EXCEPT ![mem] = f],
               cl' = [cl EXCEPT ![c].pc = IF cl[c].sync THEN "sync" ELSE "insert"],
               hist' = [hist EXCEPT !.logged = @ \cup {Group(c)}, !.damaged = @ \/ f.tear = 2]
        PROVE  /\ f.synced = logs[mem].synced /\ hist'.promised = hist.promised
               /\ \A i \in 1..N : f.recs[i] = logs[mem].recs[i]
               /\ Len(f.recs) = N + 1 /\ f.recs[N + 1] = E
               /\ cl' = [cl EXCEPT ![c].pc = "sync"] \/ (cl' = [cl EXCEPT ![c].pc = "insert"] /\ ~cl[c].sync)
    <3>1. hist'.promised = hist.promised /\ hist'.damaged = (hist.damaged \/ f.tear = 2)
      BY <1>0, <2>1 DEF HistType
    <3>2. f.synced = logs[mem].synced /\ (logs[mem].tear = 0 => f.recs = Append(logs[mem].recs, E))
          /\ (logs[mem].tear # 0 => f.tear = 2)
      BY <1>1, <1>2, <2>1, AppendedFacts
    <3>3. f.recs = Append(logs[mem].recs, E)
      BY <3>1, <3>2
    <3> HIDE DEF E
    <3>4. \A i \in 1..N : f.recs[i] = logs[mem].recs[i]
      BY <1>2, <1>3, <3>3
    <3>5. Len(f.recs) = N + 1 /\ f.recs[N + 1] = E
      BY <1>2, <1>3, <3>3
    <3> QED  BY <2>1, <3>1, <3>2, <3>4, <3>5
  <2>2. ASSUME NEW f \in AppendFailed(logs[mem]) PROVE f.synced = logs[mem].synced /\ f.recs = logs[mem].recs
    BY <1>1, AppendFailedFacts
  <2>3. CASE \E f \in Appended(logs[mem], E) :
          /\ logs' = [logs EXCEPT ![mem] = f]
          /\ cl' = [cl EXCEPT ![c].pc = IF cl[c].sync THEN "sync" ELSE "insert"]
          /\ hist' = [hist EXCEPT !.logged = @ \cup {Group(c)}, !.damaged = @ \/ f.tear = 2]
    <3> HIDE DEF N
    <3> QED  BY <2>1, <2>3
  <2>4. CASE /\ \E f \in AppendFailed(logs[mem]) : logs' = [logs EXCEPT ![mem] = f]
             /\ cl' = [cl EXCEPT ![c].pc = "finish", ![c].st = "err"]
             /\ UNCHANGED hist
    BY <2>2, <2>4
  <2> QED  BY <2>3, <2>4 DEF WriteLog
<1>6. PICK f : /\ logs' = [logs EXCEPT ![mem] = f] /\ f.synced = logs[mem].synced
               /\ \A i \in 1..N : f.recs[i] = logs[mem].recs[i]
               /\ hist'.promised = hist.promised
               /\ \/ cl' = [cl EXCEPT ![c].pc = "sync"] /\ Len(f.recs) = N + 1 /\ f.recs[N + 1] = E
                  \/ cl' = [cl EXCEPT ![c].pc = "insert"] /\ ~cl[c].sync
                  \/ cl' = [cl EXCEPT ![c].pc = "finish", ![c].st = "err"]
  BY <1>5
<1>7. logs'[mem] = f /\ mem \in DOMAIN logs' /\ \A n \in DOMAIN logs : n \in DOMAIN logs' /\ (n # mem => logs'[n] = logs[n])
  BY <1>1, <1>6
<1>8. /\ \A w \in Writers \ {c} : cl'[w] = cl[w]
      /\ cl'[c].sync = cl[c].sync /\ cl'[c].id = cl[c].id /\ cl'[c].n = cl[c].n
      /\ \/ cl'[c].pc = "sync" /\ Len(f.recs) = N + 1 /\ f.recs[N + 1] = E
         \/ cl'[c].pc = "insert" /\ ~cl[c].sync
         \/ cl'[c].pc = "finish" /\ cl'[c].st = "err"
  <2>1. CASE cl' = [cl EXCEPT ![c].pc = "sync"] /\ Len(f.recs) = N + 1 /\ f.recs[N + 1] = E
    BY <1>0, <2>1 DEF TypeCl, ClType
  <2>2. CASE cl' = [cl EXCEPT ![c].pc = "insert"] /\ ~cl[c].sync
    BY <1>0, <2>2 DEF TypeCl, ClType
  <2>3. CASE cl' = [cl EXCEPT ![c].pc = "finish", ![c].st = "err"]
    BY <1>0, <2>3 DEF TypeCl, ClType
  <2> QED  BY <1>6, <2>1, <2>2, <2>3
<1>9. /\ PlacesKept /\ GroupIds(cl[c].n)' = GroupIds(cl[c].n)
      /\ \A w \in Writers : cl'[w].pc \in Writing \/ ~SameThread(w) => w = c
  BY <1>0, <1>4, <1>8, FrontMoves
<1>10. \A n \in DOMAIN logs : LogStays(n)
  <2> TAKE n \in DOMAIN logs
  <2>1. CASE n = mem
    BY <1>3, <1>6, <1>7, <2>1 DEF LogStays
  <2>2. CASE n # mem
    BY <1>7, <2>2 DEF LogStays, Control, Typed, TypeLogs, FileOK, FileType
  <2> QED  BY <2>1, <2>2
<1>11. Syncing'
  <2>1. ASSUME NEW w \in Writers, cl'[w].pc = "sync", NEW x \in GroupIds(cl[w].n)'
        PROVE  \E i \in 1..Len(logs'[mem'].recs) : \E e \in logs'[mem'].recs[i] : e[2] = x
    <3>1. w = c /\ Len(f.recs) = N + 1 /\ f.recs[N + 1] = E /\ x \in GroupIds(cl[c].n)
      BY <1>8, <1>9, <2>1 DEF Writing
    <3>2. N + 1 \in 1..(N + 1) /\ \E e \in E : e[2] = x
      BY <1>2, <1>3, <3>1
    <3> HIDE DEF N, E
    <3> QED  BY <1>4, <1>7, <3>1, <3>2
  <2>2. ASSUME NEW w \in Writers, cl'[w].pc = "insert", cl'[w].sync PROVE FALSE
    BY <1>8, <1>9, <2>2 DEF Writing
  <2> QED  BY <2>1, <2>2 DEF Syncing
<1>12. ASSUME NEW x, Sure(x)' PROVE Sure(x)
  <2>1. x \in hist'.promised => Sure(x)
    BY <1>6 DEF Sure
  <2>2. \A w \in Writers : cl'[w].pc \in {"return", "finish"} /\ cl'[w].sync /\ cl'[w].st = "ok" => SameThread(w)
    BY <1>8, <1>9
  <2> QED  BY <1>0, <1>9, <1>12, <2>1, <2>2, SureStill
<1> QED  BY <1>0, <1>4, <1>10, <1>11, <1>12, CallPromise

(* What the group wrote is synced now.                                     *)
LEMMA WriteSyncPromise ==
  ASSUME Control, Data, Disk, Promise, Control', NEW c \in Writers, Running, WriteSync(c)
  PROVE  Promise'
<1>0. TypeCl /\ QueueInv /\ hist' = hist /\ cl[c].pc = "sync" /\ cl[c].pc \in Writing /\ Live /\ cl[c] \in ClType
  <2>1. Live
    BY WriterCalls DEF WriterStep
  <2> QED  BY <2>1 DEF Control, Typed, TypeCl, WriteSync, Writing
<1>1. mem \in DOMAIN logs /\ FileOK(logs[mem], SUBSET Entry)
  BY <1>0 DEF Data, LogInv, BgInv, Based, Live, Control, Typed, TypeLogs
<1> DEFINE N == Len(logs[mem].recs)
<1>2. N \in Nat /\ logs[mem].synced \in Nat /\ logs[mem].synced <= N
      /\ SyncedFile(logs[mem]).synced = N /\ SyncedFile(logs[mem]).recs = logs[mem].recs
  <2>1. N \in Nat /\ logs[mem].synced \in Nat /\ logs[mem].synced <= N
    BY <1>1 DEF FileOK, FileType
  <2> QED  BY <1>1, <2>1, SyncedFacts
<1>3. UNCHANGED <<tables, manis, current, up, mem, imm, mems, vs, rc, queue>>
  BY DEF WriteSync, memtables, Running
<1>4. \/ cl' = [cl EXCEPT ![c].pc = "insert"] /\ logs' = [logs EXCEPT ![mem] = SyncedFile(@)]
      \/ cl' = [cl EXCEPT ![c].pc = "finish", ![c].st = "syncerr"] /\ logs' = logs
  BY DEF WriteSync
<1>5. /\ \A w \in Writers \ {c} : cl'[w] = cl[w]
      /\ cl'[c].sync = cl[c].sync /\ cl'[c].id = cl[c].id /\ cl'[c].n = cl[c].n
      /\ \/ cl'[c].pc = "insert" /\ logs' = [logs EXCEPT ![mem] = SyncedFile(@)]
         \/ cl'[c].pc = "finish" /\ cl'[c].st = "syncerr"
  <2>1. CASE cl' = [cl EXCEPT ![c].pc = "insert"] /\ logs' = [logs EXCEPT ![mem] = SyncedFile(@)]
    BY <1>0, <2>1 DEF TypeCl, ClType
  <2>2. CASE cl' = [cl EXCEPT ![c].pc = "finish", ![c].st = "syncerr"]
    BY <1>0, <2>2 DEF TypeCl, ClType
  <2> QED  BY <1>4, <2>1, <2>2
<1>6. /\ PlacesKept /\ GroupIds(cl[c].n)' = GroupIds(cl[c].n)
      /\ \A w \in Writers : cl'[w].pc \in Writing \/ ~SameThread(w) => w = c
  BY <1>0, <1>3, <1>5, FrontMoves
<1>7. /\ mem \in DOMAIN logs' /\ logs'[mem].recs = logs[mem].recs
      /\ logs'[mem].synced = N \/ logs'[mem].synced = logs[mem].synced
      /\ cl'[c].pc = "insert" => logs'[mem].synced = N
      /\ \A n \in DOMAIN logs : n \in DOMAIN logs' /\ (n # mem => logs'[n] = logs[n])
  <2>1. CASE logs' = [logs EXCEPT ![mem] = SyncedFile(@)]
    <3> HIDE DEF N
    <3> QED  BY <1>1, <1>2, <2>1
  <2>2. CASE logs' = logs /\ cl'[c].pc # "insert"
    BY <1>1, <2>2
  <2> QED  BY <1>4, <1>5, <2>1, <2>2
<1>8. \A n \in DOMAIN logs : LogStays(n)
  <2> TAKE n \in DOMAIN logs
  <2>1. CASE n = mem
    BY <1>2, <1>7, <2>1 DEF LogStays
  <2>2. CASE n # mem
    BY <1>7, <2>2 DEF LogStays, Control, Typed, TypeLogs, FileOK, FileType
  <2> QED  BY <2>1, <2>2
<1>9. Syncing'
  <2>1. ASSUME NEW w \in Writers, cl'[w].pc = "sync" PROVE FALSE
    BY <1>5, <1>6, <2>1 DEF Writing
  <2>2. ASSUME NEW w \in Writers, cl'[w].pc = "insert", NEW x \in GroupIds(cl[w].n)'
        PROVE  InLog(logs', mem', x)
    <3>1. w = c /\ x \in GroupIds(cl[c].n) /\ logs'[mem].synced = N
      BY <1>6, <1>7, <2>2 DEF Writing
    <3>2. \E i \in 1..N : \E e \in logs[mem].recs[i] : e[2] = x
      BY <1>0, <3>1 DEF Promise, Syncing
    <3> QED  BY <1>3, <1>7, <3>1, <3>2 DEF InLog
  <2> QED  BY <2>1, <2>2 DEF Syncing
<1>10. ASSUME NEW x, Sure(x)' PROVE Sure(x)
  <2>1. x \in hist'.promised => Sure(x)
    BY <1>0 DEF Sure
  <2>2. \A w \in Writers : cl'[w].pc \in {"return", "finish"} /\ cl'[w].sync /\ cl'[w].st = "ok" => SameThread(w)
    BY <1>5, <1>6
  <2> QED  BY <1>0, <1>6, <1>10, <2>1, <2>2, SureStill
<1> QED  BY <1>0, <1>3, <1>8, <1>9, <1>10, CallPromise

(* The group is in the memtable, and on its way to its callers.            *)
LEMMA WriteInsertPromise ==
  ASSUME Control, Data, Disk, Promise, Control', Data', Disk', NEW c \in Writers, Running, WriteInsert(c), ~hist'.damaged
  PROVE  Promise'
<1>0. TypeCl /\ QueueInv /\ TypeVs /\ hist \in HistType /\ cl[c].pc = "insert" /\ cl[c].pc \in Writing /\ Live
      /\ TypeLogs
  <2>1. Live
    BY WriterCalls DEF WriterStep
  <2> QED  BY <2>1 DEF Control, Typed, TypeHist, TypeCl, WriteInsert, Writing
<1> DEFINE E == Entries(cl[c].n)
<1>1. E \subseteq Entry /\ \A x \in GroupIds(cl[c].n) : \E e \in E : e[2] = x
  <2>1. E \subseteq Entry /\ IdsOf(E) = GroupIds(cl[c].n)
    BY <1>0, EntriesFacts
  <2> QED  BY <2>1 DEF IdsOf
<1>2. /\ mems' = [mems EXCEPT ![mem] = @ \cup E] /\ hist' = [hist EXCEPT !.applied = @ \cup E]
      /\ cl' = [cl EXCEPT ![c].pc = "finish", ![c].st = "ok"]
      /\ UNCHANGED <<logs, tables, manis, current, up, queue, mem, imm, vs, rc>>
  BY DEF WriteInsert, disk, Running
<1> HIDE DEF E
<1>3. mem # 0 /\ mem \in DOMAIN mems /\ mem \in DOMAIN logs /\ mem \in Nat /\ rc.stage = "none"
  BY <1>0, LiveMani DEF Data, FreshInv, LogInv, Control, Typed, TypeMems
<1>4. DOMAIN mems' = DOMAIN mems /\ mems'[mem] = mems[mem] \cup E /\ \A n \in DOMAIN mems : n # mem => mems'[n] = mems[n]
  BY <1>2, <1>3
<1>5. /\ \A w \in Writers \ {c} : cl'[w] = cl[w]
      /\ cl'[c].sync = cl[c].sync /\ cl'[c].id = cl[c].id /\ cl'[c].n = cl[c].n /\ cl'[c].pc = "finish"
  BY <1>0, <1>2 DEF TypeCl, ClType
<1>6. /\ PlacesKept /\ GroupIds(cl[c].n)' = GroupIds(cl[c].n)
      /\ \A w \in Writers : cl'[w].pc \in Writing \/ ~SameThread(w) => w = c
  BY <1>0, <1>2, <1>5, FrontMoves
<1>7. hist'.promised = hist.promised
  BY <1>0, <1>2 DEF HistType
<1>8. ASSUME NEW x \in Nat, Safe(x)
      PROVE  Safe(x)'
  <2>1. Covered(x)' /\ InFiles(x)'
    <3>1. Covered(x) /\ InFiles(x)
      BY <1>8 DEF Safe
    <3>2. Roots' = Roots
      BY <1>2 DEF Roots
    <3> QED  BY <1>2, <3>1, <3>2 DEF Covered, InFiles, ReadableTables
  <2>2. InMemory(x)'
    <3>1. \A n \in DOMAIN mems : mems[n] \subseteq mems'[n]
      BY <1>4
    <3>2. \A n : InMem(mems, n, x) => InMem(mems', n, x)
      BY <1>4, <3>1 DEF InMem
    <3>3. InTables(tables, vs.ver, x) \/ (imm # 0 /\ InMem(mems, imm, x)) \/ (InMem(mems, mem, x) /\ InLog(logs, mem, x))
      BY <1>0, <1>8 DEF Safe, InMemory
    <3> QED  BY <1>2, <3>2, <3>3 DEF InMemory
  <2>3. Opening(x)'
    BY <1>0, <1>2 DEF Opening, Live
  <2> QED  BY <2>1, <2>2, <2>3 DEF Safe
<1>9. ASSUME NEW x \in Nat, x \in GroupIds(cl[c].n), cl[c].sync
      PROVE  Safe(x)'
  <2>1. InLog(logs, mem, x)
    BY <1>0, <1>9 DEF Promise, Syncing
  <2>2. \E e \in E : e[2] = x
    BY <1>1, <1>9
  <2>3. InMemory(x)'
    <3>1. InMem(mems', mem, x)
      BY <1>3, <1>4, <2>2 DEF InMem
    <3> QED  BY <1>2, <2>1, <3>1 DEF InMemory
  <2>4. Covered(x)'
    <3> SUFFICES ASSUME NEW m \in Roots', NEW k \in Views(manis'[m])
                 PROVE  InLogs(logs', manis'[m].recs[k].log, x)
      BY DEF Covered
    <3>1. Roots' = Roots /\ Roots = {vs.mani} /\ vs.mani \in DOMAIN manis /\ FileOK(Mani, EditType)
      BY <1>0, <1>2, LiveMani DEF Roots
    <3>2. m = vs.mani /\ k \in Views(Mani) /\ manis'[m].recs[k] = Mani.recs[k]
      BY <1>2, <3>1 DEF Mani
    <3>3. Mani.recs[k].log <= mem
      BY <1>0, <3>2 DEF Disk, ExactInv
    <3>4. Mani.recs[k].log \in Nat
      BY <1>0, <3>1, <3>2, ViewTypes, RecordTypes DEF Mani, Control, Typed
    <3>5. InLogs(logs, Mani.recs[k].log, x)
      BY <1>0, <2>1, <3>3, <3>4, LogAmong
    <3> QED  BY <1>2, <3>2, <3>5
  <2>5. InFiles(x)'
    <3>1. Live'
      BY <1>0, <1>2 DEF Live
    <3> QED  BY <2>4, <3>1, LiveInFiles
  <2>6. Opening(x)'
    BY <1>0, <1>2 DEF Opening, Live
  <2> QED  BY <2>3, <2>4, <2>5, <2>6 DEF Safe
<1>10. ASSUME NEW x \in Nat, Sure(x)'
       PROVE  Safe(x)'
  <2>1. CASE x \in GroupIds(cl[c].n) /\ cl[c].sync
    BY <1>9, <2>1
  <2>2. CASE ~(x \in GroupIds(cl[c].n) /\ cl[c].sync)
    <3>1. Sure(x)
      <4>1. CASE x \in hist'.promised
        BY <1>7, <4>1 DEF Sure
      <4>2. CASE x \notin hist'.promised
        <5>1. PICK w \in Writers : Owed(w, x)'
          BY <1>10, <4>2 DEF Sure
        <5>2. w # c
          BY <1>5, <1>6, <2>2, <5>1 DEF Owed
        <5>3. cl'[w].pc # "finish"
          BY <1>6, <5>2 DEF Writing
        <5>4. Owed(w, x)
          BY <1>5, <5>1, <5>2, <5>3 DEF Owed
        <5> QED  BY <5>4 DEF Sure
      <4> QED  BY <4>1, <4>2
    <3> QED  BY <1>8, <3>1 DEF Promise
  <2> QED  BY <2>1, <2>2
<1>11. Syncing'
  BY <1>5, <1>6 DEF Syncing, Writing
<1>12. KeptLog'
  BY <1>0, <1>2 DEF KeptLog, Live
<1> QED  BY <1>10, <1>11, <1>12 DEF Promise

(* The memtable is full and a new log and memtable take over: the old ones *)
(* stay.                                                                   *)
LEMMA RoomSwitchPromise ==
  ASSUME Control, Data, Disk, Promise, Control', NEW c \in Writers, Running, RoomSwitch(c)
  PROVE  Promise'
<1>0. /\ TypeCl /\ QueueInv /\ TypeLogs /\ TypeLogs' /\ vs \in VsType /\ cl[c].pc = "head" /\ Live /\ Live' /\ Len(queue) \in Nat
      /\ rc.stage = "none" /\ rc = IdleRc /\ Based /\ mem # 0
  <2>1. Live
    BY WriterCalls DEF WriterStep, MakeRoomForWrite
  <2>2. up' = up /\ cl[c].pc = "head"
    BY DEF RoomSwitch, AtHead
  <2>3. TypeCl /\ QueueInv /\ TypeLogs /\ TypeLogs' /\ vs \in VsType
    BY DEF Control, Typed, TypeVs
  <2>4. Len(queue) \in Nat
    BY <2>3 DEF QueueInv
  <2> QED  BY <2>1, <2>2, <2>3, <2>4, LiveMani DEF Live
<1>1. /\ logs' = With(logs, vs.next, EmptyFile) /\ mems' = With(mems, vs.next, {}) /\ imm = 0
      /\ imm' = mem /\ mem' = vs.next /\ vs' = [vs EXCEPT !.next = @ + 1]
      /\ UNCHANGED <<tables, manis, current, up, hist, rc>>
  BY DEF RoomSwitch, Running
<1>2. vs'.ver = vs.ver /\ vs'.mani = vs.mani
  BY <1>0, <1>1 DEF VsType
<1>3. \A n \in DOMAIN logs : n \in DOMAIN logs' /\ logs'[n] = logs[n]
  <2>1. \A n \in DOMAIN logs : n # vs.next
    BY <1>0, IdleTypes DEF Data, FreshInv, Control, Typed, TypeLogs, VsType
  <2> QED  BY <1>1, <2>1 DEF With
<1>4. \A n \in DOMAIN mems : n \in DOMAIN mems' /\ mems'[n] = mems[n]
  <2>1. \A n \in DOMAIN mems : n # vs.next
    BY <1>0 DEF Data, FreshInv, Control, Typed, TypeMems, VsType
  <2> QED  BY <1>1, <2>1 DEF With
<1>5. \A n \in DOMAIN logs : LogStays(n)
  BY <1>3 DEF LogStays, Control, Typed, TypeLogs, FileOK, FileType
<1>6. ASSUME NEW x \in Nat, Safe(x)
      PROVE  Safe(x)'
  <2>1. Covered(x)' /\ InFiles(x)'
    <3>1. Roots' = Roots
      BY <1>0, <1>1 DEF Roots
    <3>2. \A n \in DOMAIN tables : TableStays(n)
      BY <1>1 DEF TableStays
    <3> QED  BY <1>0, <1>1, <1>5, <1>6, <3>1, <3>2, FilesStill DEF Safe
  <2>2. InMemory(x)'
    <3>1. InTables(tables, vs.ver, x) \/ InMem(mems, mem, x)
      BY <1>0, <1>1, <1>6 DEF Safe, InMemory
    <3>2. InMem(mems, mem, x) => InMem(mems', mem, x)
      BY <1>4 DEF InMem
    <3> QED  BY <1>0, <1>1, <1>2, <3>1, <3>2 DEF InMemory
  <2>3. Opening(x)'
    BY <1>0, <1>1 DEF Opening, Live
  <2> QED  BY <2>1, <2>2, <2>3 DEF Safe
<1>7. Syncing' /\ \A x : Sure(x)' => Sure(x)
  <2>1. CASE cl[c].id = 0
    <3>1. queue' = SubSeq(queue, 1 + 1, Len(queue)) /\ cl' = PopGroup(cl, 1, "ok")
      BY <2>1 DEF RoomSwitch, HasRoom
    <3>2. 1 \in 1..Len(queue) /\ queue[1] = c
      BY <1>0, FrontFacts DEF InQueue
    <3> QED  BY <1>0, <1>1, <2>1, <3>1, <3>2, PopSure
  <2>2. CASE cl[c].id # 0
    <3>1. queue' = queue /\ cl' = [cl EXCEPT ![c].pc = "append", ![c].n = BuildBatchGroup(c)]
      BY <2>2 DEF RoomSwitch, HasRoom
    <3>2. cl'[c].pc = "append" /\ cl'[c].id = cl[c].id /\ \A w \in Writers \ {c} : cl'[w] = cl[w]
      <4> DEFINE b == BuildBatchGroup(c)
      <4>1. cl' = [cl EXCEPT ![c].pc = "append", ![c].n = b]
        BY <3>1
      <4> HIDE DEF b
      <4> QED  BY <1>0, <4>1 DEF TypeCl, ClType
    <3>3. PlacesKept
      BY <3>1, <3>2 DEF PlacesKept
    <3>4. \A w \in Writers : cl'[w].pc \in {"return", "finish", "sync", "insert"} => w # c /\ SameThread(w)
      BY <3>2 DEF SameThread
    <3>5. \A w \in Writers : cl'[w].pc \notin {"sync", "insert"}
      <4> SUFFICES ASSUME NEW w \in Writers, cl'[w].pc \in {"sync", "insert"}  PROVE FALSE
        OBVIOUS
      <4>1. w # c /\ cl[w].pc \in {"sync", "insert"}
        BY <3>4 DEF SameThread
      <4> QED  BY <1>0, <4>1, OneWriter DEF InQueue
    <3>6. ASSUME NEW x, Sure(x)' PROVE Sure(x)
      <4>1. x \in hist'.promised => Sure(x)
        BY <1>1 DEF Sure
      <4> QED  BY <1>0, <3>3, <3>4, <3>6, <4>1, SureStill
    <3> QED  BY <3>5, <3>6 DEF Syncing
  <2> QED  BY <2>1, <2>2
<1>8. KeptLog'
  BY <1>0 DEF KeptLog, Live
<1> QED  BY <1>6, <1>7, <1>8 DEF Promise

(* The threads that the background thread wakes are told nothing new.      *)
LEMMA ServedThreads ==
  ASSUME Control, Syncing, Served, queue' = queue, hist'.promised = hist.promised, mem' = mem,
         mem \in DOMAIN logs', logs'[mem] = logs[mem]
  PROVE  Syncing' /\ \A x : Sure(x)' => Sure(x)
<1>0. TypeCl /\ QueueInv /\ manual \in Writers \cup {NoClient}
  BY DEF Control, Typed, TypeFlags
<1>1. \A c \in Writers : /\ cl'[c].sync = cl[c].sync /\ cl'[c].id = cl[c].id /\ cl'[c].n = cl[c].n
                         /\ cl'[c].st \in {cl[c].st, "done"}
                         /\ cl'[c].pc \notin {"head", "flushing", "manual"} => cl'[c].pc = cl[c].pc
  BY <1>0, ServedFacts
<1>2. PlacesKept
  BY <1>1 DEF PlacesKept
<1>3. \A w \in Writers : cl'[w].pc \in {"return", "finish"} /\ cl'[w].sync /\ cl'[w].st = "ok" => SameThread(w)
  BY <1>1 DEF SameThread
<1>4. ASSUME NEW x, Sure(x)' PROVE Sure(x)
  <2>1. x \in hist'.promised => Sure(x)
    BY DEF Sure
  <2> QED  BY <1>0, <1>2, <1>3, <1>4, <2>1, SureStill
<1>5. Syncing'
  BY <1>0, <1>1, <1>2, SyncStill
<1> QED  BY <1>4, <1>5

(* A step of the background thread of which every write survives.          *)
LEMMA WorkPromise ==
  ASSUME Control, Data, Disk, Promise, Control', Data', Disk', Live, Live', ~hist'.damaged,
         Served, queue' = queue, hist'.promised = hist.promised, mem' = mem, UNCHANGED <<mems, up, rc>>,
         mem \in DOMAIN logs', logs'[mem] = logs[mem],
         \A x \in Nat : Safe(x) => InMemory(x)' /\ Covered(x)'
  PROVE  Promise'
<1>1. Syncing' /\ \A x : Sure(x)' => Sure(x)
  BY ServedThreads DEF Promise
<1>2. ASSUME NEW x \in Nat, Sure(x)'
      PROVE  Safe(x)'
  <2>1. Safe(x)
    BY <1>1, <1>2 DEF Promise
  <2>2. InMemory(x)' /\ Covered(x)'
    BY <2>1
  <2>3. InFiles(x)'
    BY <2>2, LiveInFiles
  <2>4. Opening(x)'
    BY DEF Opening, Live
  <2> QED  BY <2>2, <2>3, <2>4 DEF Safe
<1>3. KeptLog'
  BY DEF KeptLog, Live
<1> QED  BY <1>1, <1>2, <1>3 DEF Promise

-----------------------------------------------------------------------------
(* A table that stays the same stays.                                      *)
LEMMA SameStays ==
  ASSUME NEW n, SameTable(n)
  PROVE  TableStays(n)
BY DEF SameTable, TableStays

(* The steps of the background thread between two edits.                   *)
LEMMA WorkingPromise ==
  ASSUME Control, Data, Disk, Promise, Control', Data', Disk', Running, Working, ~hist'.damaged
  PROVE  Promise'
<1>0. WorkFrame /\ Live /\ TypeLogs /\ TypeLogs'
  BY WorkingFacts DEF Control, Typed
<1>1. UNCHANGED <<logs, manis, current, up, queue, mem, imm, mems, rc, hist>> /\ vs'.ver = vs.ver /\ vs'.mani = vs.mani
      /\ Served /\ TablesWritten
  BY <1>0 DEF WorkFrame
<1>2. /\ \A k \in Views(Mani) : \A n \in FilesOf(PrefixVer(Mani.recs, k)) : TableStays(n)
      /\ \A n \in FilesOf(vs.ver) : TableStays(n)
  BY <1>0, <1>1, WrittenTables, SameStays
<1>3. Roots = {vs.mani} /\ Roots' = Roots /\ rc.stage # "convert" /\ mem \in DOMAIN logs
  BY <1>0, <1>1, LiveMani DEF Roots, Data, LogInv
<1>4. \A n \in DOMAIN logs : LogStays(n)
  BY <1>1, SameLogs
<1>5. ASSUME NEW x \in Nat, Safe(x)
      PROVE  InMemory(x)' /\ Covered(x)'
  <2>1. Covered(x)'
    BY <1>0, <1>1, <1>2, <1>3, <1>4, <1>5, CoverStill DEF Safe, Mani
  <2>2. InTables(tables, vs.ver, x) => InTables(tables', vs.ver, x)
    BY <1>2, TablesStill
  <2>3. InMemory(x)'
    BY <1>0, <1>1, <1>5, <2>2 DEF Safe, InMemory
  <2> QED  BY <2>1, <2>3
<1>6. Live'
  BY <1>0, <1>1 DEF Live
<1> QED  BY <1>0, <1>1, <1>3, <1>5, <1>6, WorkPromise

(* What an edit does to the writes in the tables of a version.             *)
LEMMA EditKeeps ==
  ASSUME Control, Data, Disk, Live, bg.pc \in {"manifest", "install"}, NEW v, NEW x
  PROVE  /\ bg.kind = "flush" /\ vs.ver \subseteq v /\ InMemory(x)
              => \/ InTables(tables, (v \ bg.edit.del) \cup bg.edit.add, x)
                 \/ InMem(mems, mem, x) /\ InLog(logs, mem, x)
         /\ bg.kind # "flush" /\ InTables(tables, v, x) => InTables(tables, (v \ bg.edit.del) \cup bg.edit.add, x)
<1> DEFINE w == (v \ bg.edit.del) \cup bg.edit.add
<1>1. ASSUME bg.kind = "flush", vs.ver \subseteq v, InMemory(x)
      PROVE  InTables(tables, w, x) \/ (InMem(mems, mem, x) /\ InLog(logs, mem, x))
  <2>1. FlushEditOK
    BY <1>1 DEF Data, BgInv
  <2>2. CASE InTables(tables, vs.ver, x)
    <3>1. vs.ver \subseteq w
      BY <1>1, <2>1 DEF FlushEditOK
    <3>2. FilesOf(vs.ver) \subseteq FilesOf(w)
      BY <3>1 DEF FilesOf
    <3> QED  BY <2>2, <3>2, VersionGrows
  <2>3. CASE imm # 0 /\ InMem(mems, imm, x)
    <3>1. mems[imm] # {} /\ \E e \in mems[imm] : e[2] = x
      BY <2>3 DEF InMem
    <3>2. /\ bg.edit.add \in {{<<bg.num, 0>>}, {<<bg.num, 1>>}}
          /\ bg.num \in DOMAIN tables /\ tables[bg.num] = mems[imm]
      BY <2>1, <3>1 DEF FlushEditOK
    <3>3. bg.num \in FilesOf(w)
      <4>1. FilesOf(bg.edit.add) = {bg.num}
        BY <3>2, FileOfOne
      <4> QED  BY <4>1 DEF FilesOf
    <3> QED  BY <3>1, <3>2, <3>3 DEF InTables
  <2> QED  BY <1>1, <2>2, <2>3 DEF InMemory
<1>2. ASSUME bg.kind # "flush", InTables(tables, v, x)
      PROVE  InTables(tables, w, x)
  <2>1. PICK n \in FilesOf(v) \cap DOMAIN tables : \E e \in tables[n] : e[2] = x
    BY <1>2 DEF InTables
  <2>2. PICK f \in v : f[1] = n
    BY <2>1 DEF FilesOf
  <2>3. CASE f \notin bg.edit.del
    <3>1. n \in FilesOf(w)
      BY <2>2, <2>3 DEF FilesOf
    <3> QED  BY <2>1, <3>1 DEF InTables
  <2>4. CASE f \in bg.edit.del /\ bg.kind = "move"
    <3>1. bg.edit.add = {<<g[1], 1>> : g \in bg.edit.del}
      BY <2>4 DEF Data, BgInv, MoveEditOK
    <3>2. n \in FilesOf(bg.edit.add)
      <4>1. FilesOf(bg.edit.add) = FilesOf(bg.edit.del)
        BY <3>1, FilesMoved
      <4> QED  BY <2>2, <2>4, <4>1 DEF FilesOf
    <3>3. n \in FilesOf(w)
      BY <3>2 DEF FilesOf
    <3> QED  BY <2>1, <3>3 DEF InTables
  <2>5. CASE f \in bg.edit.del /\ bg.kind # "move"
    <3>1. CompactEditOK
      BY <1>2, <2>5 DEF Data, BgInv
    <3>2. n \in FilesOf(bg.comp.inputs) \cap DOMAIN tables
      BY <2>1, <2>2, <2>5, <3>1 DEF CompactEditOK, FilesOf
    <3>3. tables[n] \subseteq TableEntries(bg.comp.inputs)
      BY <3>2 DEF TableEntries
    <3>4. bg.comp.out \in DOMAIN tables /\ \E e \in tables[bg.comp.out] : e[2] = x
      BY <2>1, <3>1, <3>3 DEF CompactEditOK
    <3>5. bg.comp.out \in FilesOf(w)
      <4>1. bg.edit.add = {<<bg.comp.out, 1>>}
        BY <3>1 DEF CompactEditOK
      <4>2. FilesOf(bg.edit.add) = {bg.comp.out}
        BY <4>1, FileOfOne
      <4> QED  BY <4>2 DEF FilesOf
    <3> QED  BY <3>4, <3>5 DEF InTables
  <2> QED  BY <2>3, <2>4, <2>5
<1> QED  BY <1>1, <1>2

(* The edit in the manifest: its version has what the one before had, and  *)
(* the memtable that was flushed.                                          *)
LEMMA WriteManifestPromise ==
  ASSUME Control, Data, Disk, Promise, Control', Data', Disk', Running, WriteManifest, ~hist'.damaged
  PROVE  Promise'
<1>1. PICK g : ManifestGrown(g)
  BY ManifestWritten
<1>2. UNCHANGED <<logs, tables, current, up, mem, imm, mems, vs, err, rc, queue, cl>> /\ bg.pc = "manifest"
  BY DEF WriteManifest, memtables, flags, Running
<1>3. Live /\ Live' /\ TypeLogs
  BY <1>2, BusyBg DEF Live, Control, Typed
<1>4. /\ vs.mani \in DOMAIN manis /\ FileOK(Mani, EditType) /\ Mani = manis[vs.mani]
      /\ Roots = {vs.mani} /\ Based /\ mem \in DOMAIN logs /\ mem \in Nat /\ rc.stage # "convert"
  BY <1>3, LiveMani DEF Mani, Data, LogInv, Control, Typed, TypeMems
<1>5. manis'[vs.mani] = g /\ Roots' = {vs.mani}
  BY <1>1, <1>2, <1>4 DEF ManifestGrown, Mani, Roots
<1>6. ASSUME NEW x \in Nat, Safe(x)
      PROVE  InMemory(x)' /\ Covered(x)'
  <2>1. InMemory(x)'
    BY <1>2, <1>3, <1>6 DEF Safe, InMemory
  <2>2. ASSUME NEW k \in Views(g)
        PROVE  InTables(tables, PrefixVer(g.recs, k), x) \/ InLogs(logs, g.recs[k].log, x)
    <3>1. \A j \in Views(Mani) : InTables(tables, PrefixVer(Mani.recs, j), x) \/ InLogs(logs, Mani.recs[j].log, x)
      BY <1>4, <1>6 DEF Safe, Covered
    <3>2. CASE OldView(g, k)
      BY <3>1, <3>2 DEF OldView
    <3>3. CASE NewView(g, k)
      <4> DEFINE j == Len(Mani.recs)
                 v == PrefixVer(Mani.recs, j)
      <4>1. j \in Views(Mani) /\ g.recs[k].log = bg.edit.log /\ PrefixVer(g.recs, k) = (v \ bg.edit.del) \cup bg.edit.add
        BY <3>3 DEF NewView
      <4>2. vs.ver \subseteq v /\ vs.log <= Mani.recs[j].log
        BY <1>2, <1>3, <4>1 DEF Disk, ExactInv
      <4>3. InTables(tables, v, x) \/ InLogs(logs, Mani.recs[j].log, x)
        BY <3>1, <4>1
      <4>4. Mani.recs[j].log \in Nat /\ vs.log \in Nat
        BY <1>4, <4>1, ViewTypes, RecordTypes DEF Mani, Control, Typed, TypeVs, VsType
      <4>5. InMemory(x)
        BY <1>6 DEF Safe
      <4> HIDE DEF v, j
      <4>6. CASE bg.kind = "flush"
        <5>1. bg.edit.log = mem
          BY <1>2, <1>3, <4>6, EditReadable
        <5>2. InTables(tables, (v \ bg.edit.del) \cup bg.edit.add, x) \/ InLog(logs, mem, x)
          BY <1>2, <1>3, <4>2, <4>5, <4>6, EditKeeps
        <5>3. InLog(logs, mem, x) => InLogs(logs, mem, x)
          BY <1>3, <1>4, LogAmong
        <5> QED  BY <4>1, <5>1, <5>2, <5>3
      <4>7. CASE bg.kind # "flush"
        <5>1. bg.edit.log = vs.log
          BY <1>2, <1>3, <4>7 DEF Data, BgInv, MoveEditOK, CompactEditOK
        <5>2. InTables(tables, v, x) => InTables(tables, (v \ bg.edit.del) \cup bg.edit.add, x)
          BY <1>2, <1>3, <4>7, EditKeeps
        <5> QED  BY <1>3, <4>1, <4>2, <4>3, <4>4, <5>1, <5>2, LogsBefore
      <4> QED  BY <4>6, <4>7
    <3> QED  BY <1>1, <3>2, <3>3 DEF ManifestGrown
  <2>3. Covered(x)'
    BY <1>2, <1>5, <2>2 DEF Covered
  <2> QED  BY <2>1, <2>3
<1>7. Served /\ hist'.promised = hist.promised
  BY <1>1, <1>2 DEF Served, ManifestGrown
<1> QED  BY <1>2, <1>3, <1>4, <1>6, <1>7, WorkPromise

(* The edit is installed: what is deleted is what it does not need.        *)
LEMMA InstallPromise ==
  ASSUME Control, Data, Disk, Promise, Control', Data', Disk', Live, bg.pc = "install",
         UNCHANGED <<current, up, rc, hist, err, mem, mems, queue>>, ~hist.damaged, Served,
         vs' = Installed, imm' = imm \/ bg.kind = "flush",
         \A n \in DOMAIN logs : err \/ n >= Installed.log => n \in DOMAIN logs' /\ logs'[n] = logs[n],
         \A m \in DOMAIN manis' : m \in DOMAIN manis /\ manis'[m] = manis[m],
         \A n \in FilesOf(NewVer) : SameTable(n), err => \A n : SameTable(n)
  PROVE  Promise'
<1>1. /\ vs.mani \in DOMAIN manis /\ FileOK(Mani, EditType) /\ Roots = {vs.mani} /\ Based /\ Mani = manis[vs.mani]
      /\ rc.stage # "convert" /\ TypeLogs /\ TypeLogs' /\ mem \in DOMAIN logs
  BY LiveMani DEF Mani, Control, Typed, Data, LogInv
<1>2. /\ vs'.ver = NewVer /\ vs'.mani = vs.mani /\ Installed.log = bg.edit.log
      /\ Installed.log <= mem
  BY InstalledFacts DEF NewVer
<1>3. vs'.mani \in DOMAIN manis' /\ Live'
  BY DEF Live, Data, ManiInv
<1>4. Roots' = {vs.mani} /\ manis'[vs.mani] = Mani
  BY <1>1, <1>2, <1>3 DEF Roots, Mani
<1>5. mem \in DOMAIN logs' /\ logs'[mem] = logs[mem]
  BY <1>1, <1>2
<1>6. \A n \in DOMAIN logs : err \/ n >= Installed.log => LogStays(n)
  BY DEF LogStays, Control, Typed, TypeLogs, FileOK, FileType
<1>7. ASSUME NEW x \in Nat, Safe(x)
      PROVE  InMemory(x)' /\ Covered(x)'
  <2>1. Covered(x)'
    <3>1. ASSUME NEW k \in Views(Mani)
          PROVE  /\ \A n \in FilesOf(PrefixVer(Mani.recs, k)) : TableStays(n)
                 /\ \A n \in DOMAIN logs : n >= Mani.recs[k].log => LogStays(n)
      <4>1. CASE err
        BY <1>6, <4>1, SameStays
      <4>2. CASE ~err
        <5>1. Exact(Mani, NewVer, bg.edit.log)
          BY <4>2 DEF Disk, ExactInv
        <5>2. PrefixVer(Mani.recs, k) = NewVer /\ Mani.recs[k].log = bg.edit.log
          BY <5>1 DEF Exact
        <5> QED  BY <1>2, <1>6, <5>2, SameStays
      <4> QED  BY <4>1, <4>2
    <3> QED  BY <1>1, <1>4, <1>7, <3>1, CoverStill DEF Safe
  <2>2. InTables(tables, NewVer, x) => InTables(tables', NewVer, x)
    BY SameStays, TablesStill
  <2>3. InMemory(x) /\ mem' = mem /\ mems' = mems /\ (imm' = imm \/ bg.kind = "flush")
    BY <1>7 DEF Safe
  <2>4. CASE bg.kind = "flush"
    <3>1. InTables(tables, (vs.ver \ bg.edit.del) \cup bg.edit.add, x) \/ (InMem(mems, mem, x) /\ InLog(logs, mem, x))
      BY <2>3, <2>4, EditKeeps
    <3>2. InTables(tables, NewVer, x) \/ (InMem(mems, mem, x) /\ InLog(logs', mem, x))
      BY <1>5, <3>1 DEF NewVer, InLog
    <3>3. InTables(tables', vs'.ver, x) \/ (InMem(mems', mem', x) /\ InLog(logs', mem', x))
      BY <1>2, <2>2, <2>3, <3>2
    <3> QED  BY <2>1, <3>3 DEF InMemory
  <2>5. CASE bg.kind # "flush"
    <3>1. InTables(tables, vs.ver, x) => InTables(tables, NewVer, x)
      BY <2>5, EditKeeps DEF NewVer
    <3>2. InTables(tables, vs.ver, x) \/ (imm # 0 /\ InMem(mems, imm, x)) \/ (InMem(mems, mem, x) /\ InLog(logs', mem, x))
      BY <1>5, <2>3 DEF InMemory, InLog
    <3>3. \/ InTables(tables', vs'.ver, x) \/ (imm' # 0 /\ InMem(mems', imm', x))
          \/ InMem(mems', mem', x) /\ InLog(logs', mem', x)
      BY <1>2, <2>2, <2>3, <2>5, <3>1, <3>2
    <3> QED  BY <2>1, <3>3 DEF InMemory
  <2> QED  BY <2>1, <2>4, <2>5
<1> QED  BY <1>3, <1>5, <1>7, WorkPromise

(* The three that install one.                                             *)
LEMMA InstallsPromise ==
  ASSUME Control, Data, Disk, Promise, Control', Data', Disk', Running, FlushDone \/ MoveDone \/ CompactDone,
         bg.pc = "install", ~hist'.damaged
  PROVE  Promise'
<1>0. /\ Live /\ UNCHANGED <<current, up, rc, hist, err, mem, mems, queue>> /\ vs' = Installed /\ err \in BOOLEAN
  BY BusyBg DEF FlushDone, MoveDone, CompactDone, disk, memtables, Running, Control, Typed, TypeFlags
<1>1. Installed.ver = NewVer
  BY <1>0, InstalledFacts DEF NewVer
<1>2. Served
  <2>1. CASE FlushDone \/ MoveDone
    BY <2>1 DEF FlushDone, MoveDone, BgEnd, Served
  <2>2. CASE CompactDone
    <3>1. CompactEnd(Installed, err, FALSE) /\ sched \in BOOLEAN
      BY <2>2 DEF CompactDone, Control, Typed, TypeFlags
    <3> QED  BY <3>1, CompactEnded
  <2> QED  BY <2>1, <2>2
<1>3. CASE MoveDone
  <2>1. UNCHANGED <<logs, tables, manis, imm>>
    BY <1>3 DEF MoveDone, disk, memtables
  <2> QED  BY <1>0, <1>2, <2>1, InstallPromise DEF SameTable
<1>4. ASSUME NEW pend, NEW inputs, DeleteObsoleteFiles(tables, Installed, pend, inputs, err)
      PROVE  /\ \A n \in DOMAIN logs : err \/ n >= Installed.log => n \in DOMAIN logs' /\ logs'[n] = logs[n]
             /\ \A m \in DOMAIN manis' : m \in DOMAIN manis /\ manis'[m] = manis[m]
             /\ \A n \in FilesOf(NewVer) : SameTable(n)
             /\ err => \A n : SameTable(n)
  <2> DEFINE v == Installed
  <2>1. v.ver = NewVer /\ DeleteObsoleteFiles(tables, v, pend, inputs, err)
    BY <1>1, <1>4
  <2>2. v.log = Installed.log
    OBVIOUS
  <2> HIDE DEF v
  <2>3. FilesOf(NewVer) \subseteq LiveFiles(v, pend, inputs)
    BY <2>1 DEF LiveFiles
  <2>4. err => tables' = tables /\ logs' = logs
    BY <2>1 DEF DeleteObsoleteFiles
  <2> QED  BY <1>0, <2>1, <2>2, <2>3, <2>4, DeleteFacts DEF SameTable
<1>5. CASE FlushDone
  <2>1. bg.kind = "flush" /\ DeleteObsoleteFiles(tables, Installed, pending, FilesOf(bg.comp.inputs), err)
    BY <1>5 DEF FlushDone
  <2> QED  BY <1>0, <1>2, <1>4, <2>1, InstallPromise
<1>6. CASE CompactDone
  <2>1. DeleteObsoleteFiles(tables, Installed, pending', {}, err) /\ imm' = imm
    BY <1>6 DEF CompactDone, memtables
  <2> QED  BY <1>0, <1>2, <1>4, <2>1, InstallPromise
<1> QED  BY <1>3, <1>5, <1>6

(* Every step of the background thread.                                    *)
LEMMA BackgroundPromise ==
  ASSUME Control, Data, Disk, Promise, Control', Data', Disk', BackgroundStep, Running, ~hist'.damaged
  PROVE  Promise'
<1>1. CASE WriteManifest
  BY <1>1, WriteManifestPromise
<1>2. CASE bg.pc = "install" /\ (FlushDone \/ MoveDone \/ CompactDone)
  BY <1>2, InstallsPromise
<1>3. CASE ~WriteManifest /\ bg.pc # "install"
  BY <1>3, WorkingPromise DEF Working
<1>4. bg.pc = "install" => WriteManifest \/ FlushDone \/ MoveDone \/ CompactDone
  BY DEF BackgroundStep, BackgroundStop, BackgroundFlush, BackgroundManual, BackgroundPick, WriteLevel0Table, CompactImm,
     OpenCompactionOutputFile, FinishCompactionOutputFile, CompactShutDown
<1> QED  BY <1>1, <1>2, <1>3, <1>4

-----------------------------------------------------------------------------
(* Nobody is at work in a database that is not open: what counts is what   *)
(* was promised.                                                           *)
LEMMA QuietPromise ==
  ASSUME Control', ~Live', KeptLog', \A x \in Nat : x \in hist'.promised => Covered(x)' /\ InFiles(x)' /\ Opening(x)'
  PROVE  Promise'
<1>1. \A c \in Writers : cl'[c].pc = "idle"
  BY DEF Control, QuietInv, IdleCl
<1>2. Syncing'
  BY <1>1 DEF Syncing
<1>3. \A x : Sure(x)' => x \in hist'.promised
  BY <1>1 DEF Sure, Owed
<1>4. \A x \in Nat : Sure(x)' => Safe(x)'
  BY <1>3 DEF Safe, InMemory
<1> QED  BY <1>2, <1>4 DEF Promise

(* Before an Open has read the manifest, it is what the files hold.        *)
LEMMA UnbasedPromise ==
  ASSUME Control', ~Based', \A x \in Nat : x \in hist'.promised => Covered(x)' /\ InFiles(x)'
  PROVE  Promise'
<1>1. mem' = 0 /\ ~Live'
  BY DEF Control, QuietInv, Based, Live
<1>2. KeptLog'
  BY <1>1 DEF KeptLog
<1>3. \A x : Opening(x)'
  BY DEF Opening, Based
<1> QED  BY <1>1, <1>2, <1>3, QuietPromise

(* What was promised before the step.                                      *)
LEMMA PromisedSafe ==
  ASSUME Promise, NEW x \in Nat, x \in hist.promised
  PROVE  Covered(x) /\ InFiles(x) /\ Opening(x) /\ InMemory(x)
BY DEF Promise, Sure, Safe

(* The files that count stay, in a step that leaves the database without a *)
(* version set.                                                            *)
LEMMA SameFilesPromise ==
  ASSUME Control, Promise, Control', ~Based', UNCHANGED <<logs, tables, manis, hist>>, Roots' \subseteq Roots,
         rc.stage # "convert"
  PROVE  Promise'
<1>1. TypeLogs /\ TypeLogs' /\ hist'.promised = hist.promised
  BY DEF Control, Typed
<1>2. \A n \in DOMAIN tables : TableStays(n)
  BY DEF TableStays
<1>3. \A n \in DOMAIN logs : LogStays(n)
  BY SameLogs
<1>4. \A m \in DOMAIN manis' : m \in DOMAIN manis /\ manis'[m] = manis[m]
  OBVIOUS
<1>5. \A x \in Nat : x \in hist'.promised => Covered(x)' /\ InFiles(x)'
  BY <1>1, <1>2, <1>3, <1>4, PromisedSafe, FilesStill
<1> QED  BY <1>5, UnbasedPromise

(* A database that was closed keeps what it owes.                          *)
LEMMA CloseDonePromise ==
  ASSUME Control, Promise, Control', CloseDone
  PROVE  Promise'
<1>1. UNCHANGED <<logs, tables, manis, current, hist>> /\ up' = "closed" /\ rc' = IdleRc /\ up = "closing"
  BY DEF CloseDone, disk, ResetMemory
<1>2. rc'.stage = "none" /\ ~Based' /\ rc.stage = "none"
  BY <1>1, IdleTypes DEF Based, Live, Control, Stages
<1>3. Roots' \subseteq Roots
  BY <1>1, <1>2 DEF Roots
<1> QED  BY <1>1, <1>2, <1>3, SameFilesPromise

(* So does one whose process dies of a null pointer.                       *)
LEMMA SegfaultPromise ==
  ASSUME Control, Data, Promise, Control', Segfault
  PROVE  Promise'
<1>1. /\ UNCHANGED <<tables, manis, current, hist>> /\ up' = "closed" /\ rc' = IdleRc /\ TypeLogs /\ TypeLogs'
      /\ DOMAIN logs' = DOMAIN logs
      /\ \A n \in DOMAIN logs : logs'[n].recs = logs[n].recs /\ logs'[n].synced = logs[n].synced
  BY SegfaultFacts DEF ResetMemory, Control, Typed
<1>2. rc'.stage = "none" /\ ~Based'
  BY <1>1, IdleTypes DEF Based, Live
<1>3. rc.stage # "convert"
  BY FallenFacts, BusyBg DEF Segfault, Live, Control, Stages
<1>4. Roots' \subseteq Roots
  BY <1>1, <1>2 DEF Roots
<1>5. \A n \in DOMAIN logs : LogStays(n)
  BY <1>1 DEF LogStays, TypeLogs, FileOK, FileType
<1>6. \A n \in DOMAIN tables : TableStays(n)
  BY <1>1 DEF TableStays
<1>7. \A m \in DOMAIN manis' : m \in DOMAIN manis /\ manis'[m] = manis[m]
  BY <1>1
<1>8. ASSUME NEW x \in Nat, x \in hist'.promised PROVE Covered(x)' /\ InFiles(x)'
  <2>1. Covered(x) /\ InFiles(x)
    BY <1>1, <1>8, PromisedSafe
  <2> QED  BY <1>1, <1>3, <1>4, <1>5, <1>6, <1>7, <2>1, FilesStill
<1> QED  BY <1>2, <1>8, UnbasedPromise

(* A database that begins to close keeps what it owes.                     *)
LEMMA ClosePromise ==
  ASSUME Control, Data, Disk, Promise, Control', Close, rc' = rc
  PROVE  Promise'
<1>1. /\ UNCHANGED <<logs, tables, manis, current, mem, imm, mems, vs, hist, cl, queue>> /\ Live /\ Live'
      /\ \A c \in Writers : cl[c].pc = "idle"
  BY DEF Close, disk, memtables, Live
<1>2. Syncing' /\ \A x : Sure(x)' => Sure(x)
  BY <1>1 DEF Syncing, Sure, Owed
<1>3. \A n \in DOMAIN logs : LogStays(n)
  BY <1>1, SameLogs
<1>4. ASSUME NEW x \in Nat, Safe(x) PROVE Safe(x)'
  <2>1. InMemory(x)'
    BY <1>1, <1>4 DEF Safe, InMemory
  <2>2. Covered(x)' /\ InFiles(x)'
    <3>1. Roots' = Roots
      BY <1>1 DEF Roots
    <3>2. ReadableTables' = ReadableTables
      BY <1>1 DEF ReadableTables
    <3> QED  BY <1>1, <1>4, <3>1, <3>2 DEF Safe, Covered, InFiles
  <2>3. Opening(x)'
    BY <1>1 DEF Opening, Live
  <2> QED  BY <2>1, <2>2, <2>3 DEF Safe
<1>5. KeptLog'
  BY <1>1 DEF KeptLog, Live
<1> QED  BY <1>2, <1>4, <1>5 DEF Promise

(* DestroyDB ends every promise.                                           *)
LEMMA DestroyPromise ==
  ASSUME Control, Control', DestroyDB
  PROVE  Promise'
<1>1. up' = "closed" /\ ~Based'
  BY DEF DestroyDB, Based, Live
<1>2. hist'.promised = {}
  BY DEF DestroyDB, Control, Typed, TypeHist, HistType
<1> QED  BY <1>1, <1>2, UnbasedPromise

(* Open begins: where there is no manifest, nothing was promised.          *)
LEMMA OpenBeginPromise ==
  ASSUME Control, Data, Disk, Promise, Control', OpenBegin
  PROVE  Promise'
<1>1. /\ up = "closed" /\ up' = "opening" /\ UNCHANGED <<logs, tables>> /\ NewDB /\ rc = IdleRc
      /\ hist \in HistType
  BY DEF OpenBegin, Control, Stages, Typed, TypeHist
<1>2. rc'.stage = "read" /\ rc.stage = "none" /\ ~Based'
  <2>1. rc' = [IdleRc EXCEPT !.stage = "read", !.reuse = plan.reuse]
    BY DEF OpenBegin
  <2> QED  BY <1>1, <2>1, IdleTypes DEF RcType, Based, Live
<1>3. CASE current # 0
  <2>1. UNCHANGED <<manis, current, hist>>
    BY <1>1, <1>3 DEF NewDB
  <2>2. Roots' \subseteq Roots
    BY <1>2, <2>1 DEF Roots
  <2> QED  BY <1>1, <1>2, <2>1, <2>2, SameFilesPromise
<1>4. CASE current = 0
  <2>1. hist' = [hist EXCEPT !.rootless = TRUE] /\ hist.promised = {}
    BY <1>1, <1>4 DEF NewDB, Disk, RootInv
  <2>2. hist'.promised = {}
    BY <1>1, <2>1 DEF HistType
  <2> QED  BY <1>2, <2>2, UnbasedPromise
<1> QED  BY <1>3, <1>4

(* RepairDB begins: no file changes.                                       *)
LEMMA RepairBeginPromise ==
  ASSUME Control, Promise, Control', RepairBegin
  PROVE  Promise'
<1>1. UNCHANGED <<logs, tables, manis, current, hist>> /\ up' = "repairing" /\ up = "closed" /\ ~Based'
  BY DEF RepairBegin, disk, Based, Live
<1>2. rc'.stage \in {"convert", "point"} /\ rc.stage = "none"
  BY <1>1, IdleTypes DEF Control, Stages
<1>3. rc'.stage = "convert"
  <2>1. RepairBegin => rc'.stage = "convert"
    <3> DEFINE nx == Max({1} \cup {n + 1 : n \in DOMAIN logs \cup DOMAIN tables})
               td == DOMAIN logs
    <3>1. SUFFICES ASSUME rc' = [IdleRc EXCEPT !.stage = "convert", !.todo = td, !.next = nx]
                   PROVE  rc'.stage = "convert"
      BY DEF RepairBegin
    <3> HIDE DEF nx, td
    <3> QED  BY <3>1 DEF IdleRc
  <2> QED  BY <2>1
<1>4. \A x \in Nat : x \in hist'.promised => Covered(x)' /\ InFiles(x)'
  <2>1. ReadableTables' = ReadableTables
    BY <1>1 DEF ReadableTables
  <2> QED  BY <1>1, <1>3, <2>1, PromisedSafe DEF Covered, InFiles
<1> QED  BY <1>1, <1>4, UnbasedPromise

(* CURRENT names the manifest that RepairDB made.                          *)
LEMMA RepairDonePromise ==
  ASSUME Control, Data, Disk, Promise, Control', RepairDone
  PROVE  Promise'
<1>1. /\ UNCHANGED <<logs, tables, manis, hist>> /\ up' = "closed" /\ rc' = IdleRc /\ rc.stage = "point" /\ current' = 1
      /\ ~Based'
  BY DEF RepairDone, Based, Live
<1>2. rc'.stage = "none"
  BY <1>1, IdleTypes
<1>3. Roots' \subseteq Roots
  BY <1>1, <1>2 DEF Roots
<1> QED  BY <1>1, <1>3, SameFilesPromise

-----------------------------------------------------------------------------
(* What a file has it has while the file stays.                            *)
LEMMA InFilesStill ==
  ASSUME TypeLogs, TypeLogs', NEW x, InFiles(x),
         \A n \in ReadableTables : TableStays(n), \A n \in DOMAIN logs : LogStays(n)
  PROVE  InFiles(x)'
<1>1. CASE InLogs(logs, 0, x)
  BY <1>1, LogsStill DEF InFiles
<1>2. CASE \E n \in ReadableTables : \E e \in tables[n] : e[2] = x
  <2>1. PICK n \in ReadableTables : \E e \in tables[n] : e[2] = x
    BY <1>2
  <2>2. n \in ReadableTables' /\ tables'[n] = tables[n]
    BY <2>1 DEF ReadableTables, TableStays
  <2> QED  BY <2>1, <2>2 DEF InFiles
<1> QED  BY <1>1, <1>2 DEF InFiles

(* A crash takes nothing that was synced, and no table that was finished.  *)
LEMMA CrashPromise ==
  ASSUME Control, Data, Disk, Promise, Control', Crash, ~hist'.damaged
  PROVE  Promise'
<1>0. up' = "closed" /\ rc' = IdleRc /\ current' = current /\ hist \in HistType
  BY DEF Crash, ResetMemory, Control, Typed, TypeHist
<1>1. /\ DOMAIN logs' = DOMAIN logs /\ DOMAIN manis' = DOMAIN manis
      /\ \A n \in DOMAIN logs : /\ FileOK(logs'[n], SUBSET Entry) /\ logs'[n].synced = logs[n].synced
                                /\ \A i \in 1..Len(logs'[n].recs) : logs'[n].recs[i] = logs[n].recs[i]
      /\ \A m \in DOMAIN manis :
           /\ FileOK(manis'[m], EditType) /\ manis'[m].synced = manis[m].synced
           /\ Len(manis'[m].recs) <= Len(manis[m].recs)
           /\ \A i \in 1..Len(manis'[m].recs) : manis'[m].recs[i] = manis[m].recs[i]
           /\ manis'[m].tear = 2 <=> manis[m].tear = 2
      /\ \A n \in DOMAIN tables : n \in DOMAIN tables' /\ tables'[n] = tables[n]
  BY CrashFacts
<1>2. \A m \in DOMAIN manis : FileOK(manis[m], EditType)
  BY DEF Control, Typed, TypeManis
<1>3. hist'.promised = hist.promised /\ up # "repairing"
  <2> DEFINE d == hist.damaged \/ up = "repairing"
  <2>1. hist' = [hist EXCEPT !.damaged = d]
    BY DEF Crash
  <2>2. up = "repairing" => d
    OBVIOUS
  <2> HIDE DEF d
  <2> QED  BY <1>0, <2>1, <2>2 DEF HistType
<1>4. rc'.stage = "none" /\ rc.stage # "convert" /\ ~Based'
  BY <1>0, <1>3, IdleTypes DEF Control, Stages, Based, Live
<1>5. TypeLogs /\ TypeLogs'
  BY DEF Control, Typed
<1>6. ASSUME NEW m \in DOMAIN manis, NEW k \in Views(manis'[m])
      PROVE  /\ k \in Views(manis[m]) /\ manis'[m].recs[k] = manis[m].recs[k]
             /\ PrefixVer(manis'[m].recs, k) = PrefixVer(manis[m].recs, k)
  BY <1>1, <1>2, CutViews
<1>7. \A n \in DOMAIN logs : LogStays(n)
  <2>1. ASSUME NEW n \in DOMAIN logs PROVE LogStays(n)
    <3>1. /\ n \in DOMAIN logs' /\ logs'[n].synced = logs[n].synced /\ logs'[n].synced <= Len(logs'[n].recs)
          /\ logs'[n].synced \in Nat /\ Len(logs'[n].recs) \in Nat
          /\ \A i \in 1..Len(logs'[n].recs) : logs'[n].recs[i] = logs[n].recs[i]
      BY <1>1 DEF FileOK, FileType
    <3> QED  BY <3>1 DEF LogStays
  <2> QED  BY <2>1
<1>8. \A n : TableStays(n)
  BY <1>1 DEF TableStays
<1>9. Roots' \subseteq Roots
  BY <1>0, <1>1, <1>4 DEF Roots
<1>10. Roots' \subseteq DOMAIN manis
  BY <1>1 DEF Roots
<1>11. ASSUME NEW x \in Nat, x \in hist'.promised PROVE Covered(x)' /\ InFiles(x)'
  <2>1. Covered(x) /\ InFiles(x)
    BY <1>3, <1>11, PromisedSafe
  <2>2. InFiles(x)'
    BY <1>5, <1>7, <1>8, <2>1, InFilesStill
  <2>3. \A m \in Roots' : \A k \in Views(manis'[m]) :
            /\ k \in Views(manis[m]) /\ manis'[m].recs[k] = manis[m].recs[k]
            /\ PrefixVer(manis'[m].recs, k) = PrefixVer(manis[m].recs, k)
            /\ \A n \in FilesOf(PrefixVer(manis[m].recs, k)) : TableStays(n)
            /\ \A n \in DOMAIN logs : n >= manis[m].recs[k].log => LogStays(n)
    BY <1>6, <1>7, <1>8, <1>10
  <2>4. Covered(x)'
    BY <1>4, <1>5, <1>9, <2>1, <2>3, CoverStill
  <2> QED  BY <2>2, <2>4
<1> QED  BY <1>4, <1>11, UnbasedPromise

(* An Open that fails leaves the files that count.                         *)
LEMMA OpenFailPromise ==
  ASSUME Control, Promise, Control', OpenFail, up = "opening", UNCHANGED <<logs, tables, manis, current, hist>>
  PROVE  Promise'
<1>1. up' = "closed" /\ rc' = IdleRc /\ ~Based' /\ rc.stage # "convert"
  BY DEF OpenFail, ResetMemory, Based, Live, Control, Stages
<1>2. rc'.stage = "none"
  BY <1>1, IdleTypes
<1>3. Roots' \subseteq Roots
  BY <1>1, <1>2 DEF Roots
<1> QED  BY <1>1, <1>3, SameFilesPromise

(* A step of Open that leaves the files: what is owed is found as before.  *)
LEMMA OpeningPromise ==
  ASSUME Control, Promise, Control', up = "opening", up' = "opening", hist'.promised = hist.promised, KeptLog',
         \A x \in Nat : x \in hist.promised /\ Covered(x) /\ InFiles(x) /\ Opening(x)
                        => Covered(x)' /\ InFiles(x)' /\ Opening(x)'
  PROVE  Promise'
<1>1. ~Live'
  BY DEF Live
<1>2. \A x \in Nat : x \in hist'.promised => Covered(x)' /\ InFiles(x)' /\ Opening(x)'
  BY PromisedSafe
<1> QED  BY <1>1, <1>2, QuietPromise

(* The manifest is read: what it has, and the logs it leaves to be read.   *)
LEMMA OpenReadPromise ==
  ASSUME Control, Data, Disk, Promise, Control', OpenRead
  PROVE  Promise'
<1>0. /\ UNCHANGED <<logs, tables, manis, current, hist>> /\ rc.stage = "read" /\ up = "opening" /\ ~Based
      /\ rc \in RcType /\ rc.add = {} /\ current \in Nat /\ TypeLogs /\ TypeLogs'
  BY DEF OpenRead, disk, Live, Based, Control, Typed, TypeRc, Stages, TypeManis
<1>1. CASE OpenFail
  BY <1>0, <1>1, OpenFailPromise
<1>2. CASE ~OpenFail
  <2> DEFINE g == manis[current]
             d == Replay(g.recs)
             td == {n \in DOMAIN logs : n >= d.log}
  <2>1. /\ ManifestReadable /\ up' = up /\ mem' = mem
        /\ vs' = [ver |-> d.ver, log |-> d.log, next |-> d.next + 1,
                  mani |-> ReuseManifest(d), seq |-> d.seq, seek |-> FALSE]
        /\ rc' = [rc EXCEPT !.stage = "logs", !.save = ~rc.reuse, !.todo = td]
    BY <1>2 DEF OpenRead, memtables
  <2>2. /\ current \in DOMAIN manis /\ g.recs # <<>> /\ g.tear # 2 /\ FileOK(g, EditType) /\ g.recs \in Seq(EditType)
        /\ ManifestOK(g.recs)
    BY <2>1 DEF ManifestReadable, Control, Typed, TypeManis, FileOK, FileType, Data, ManiInv
  <2>3. Len(g.recs) \in Views(g)
    BY <2>2, LastView
  <2>4. mem = 0 /\ 0 \notin DOMAIN logs
    BY <1>0 DEF Control, QuietInv, Typed, TypeLogs
  <2>5. current \in Roots /\ Roots' \subseteq Roots /\ rc'.stage = "logs" /\ rc'.todo = td
    <3> HIDE DEF td
    <3>1. rc'.stage = "logs" /\ rc'.todo = td
      BY <1>0, <2>1 DEF RcType
    <3> QED  BY <1>0, <2>2, <3>1 DEF Roots
  <2>6. vs'.ver = d.ver
    BY <2>1
  <2> HIDE DEF g
  <2>7. d.ver = PrefixVer(g.recs, Len(g.recs)) /\ d.log = g.recs[Len(g.recs)].log
    BY <2>2, ReplayFacts, ReplayIsPrefix
  <2> HIDE DEF d
  <2>8. KeptLog'
    BY <2>1, <2>4 DEF KeptLog
  <2>9. ASSUME NEW x \in Nat, Covered(x), InFiles(x) PROVE Covered(x)' /\ InFiles(x)' /\ Opening(x)'
    <3>1. Covered(x)' /\ InFiles(x)'
      <4>1. \A n \in DOMAIN tables : TableStays(n)
        BY <1>0 DEF TableStays
      <4>2. \A n \in DOMAIN logs : LogStays(n)
        BY <1>0, SameLogs
      <4>3. rc.stage = "convert" => rc'.stage = "convert"
        BY <1>0
      <4>4. \A m \in DOMAIN manis' : m \in DOMAIN manis /\ manis'[m] = manis[m]
        BY <1>0
      <4> QED  BY <1>0, <2>5, <2>9, <4>1, <4>2, <4>3, <4>4, FilesStill
    <3>2. InTables(tables, d.ver, x) \/ InLogs(logs, d.log, x)
      BY <1>0, <2>3, <2>5, <2>7, <2>9 DEF Covered, g
    <3>3. CASE InTables(tables, d.ver, x)
      <4>1. InTables(tables', d.ver, x)
        BY <1>0, <3>3
      <4>2. FilesOf(vs'.ver) \subseteq FilesOf(vs'.ver \cup rc'.add)
        BY DEF FilesOf
      <4>3. InTables(tables', vs'.ver \cup rc'.add, x)
        BY <2>6, <4>1, <4>2, VersionGrows
      <4> QED  BY <3>1, <4>3 DEF Opening
    <3>4. CASE InLogs(logs, d.log, x)
      <4>1. \E n \in rc'.todo : InLog(logs', n, x)
        BY <1>0, <2>5, <3>4 DEF InLogs
      <4> QED  BY <3>1, <4>1 DEF Opening
    <3> QED  BY <3>2, <3>3, <3>4
  <2> QED  BY <1>0, <2>1, <2>8, <2>9, OpeningPromise
<1> QED  BY <1>1, <1>2

-----------------------------------------------------------------------------
(* What is in the synced part of a log is among its records.               *)
LEMMA LogRecords ==
  ASSUME TypeLogs, NEW n \in DOMAIN logs
  PROVE  /\ \A x : InLog(logs, n, x) => \E e \in RecordsOf(n) : e[2] = x
         /\ \A i \in 1..logs[n].synced : logs[n].recs[i] \subseteq RecordsOf(n)
<1>1. logs[n].synced <= Len(logs[n].recs) /\ logs[n].synced \in Nat /\ logs[n].recs \in Seq(SUBSET Entry)
      /\ Len(logs[n].recs) \in Nat /\ DOMAIN logs[n].recs = 1..Len(logs[n].recs)
  BY DEF TypeLogs, FileOK, FileType
<1>2. \A i \in 1..logs[n].synced : i \in DOMAIN logs[n].recs
  BY <1>1
<1>3. \A i \in 1..logs[n].synced : logs[n].recs[i] \subseteq RecordsOf(n)
  BY <1>2 DEF RecordsOf, Range
<1> QED  BY <1>3 DEF InLog

(* A log that is replayed: its writes are in the new table, or in the      *)
(* memtable of the log that is kept.                                       *)
LEMMA RecoverLogPromise ==
  ASSUME Control, Data, Disk, Promise, Control', Disk', RecoverLogFile
  PROVE  Promise'
<1>0. rc.stage = "logs" /\ up = "opening" /\ current \in DOMAIN manis /\ manis[current].recs # <<>> /\ manis[current].tear # 2
      /\ Based /\ TypeLogs /\ TypeLogs' /\ FileOK(manis[current], EditType) /\ current \in Roots /\ vs.next \in Nat
  BY DEF RecoverLogFile, Control, Stages, Disk, StageInv, Roots, Based, Typed, TypeManis, TypeVs, VsType
<1>1. CASE OpenFail /\ UNCHANGED <<logs, tables, manis, current, hist>>
  BY <1>0, <1>1, OpenFailPromise
<1>2. ASSUME NEW n, RecoveredLog(n)
      PROVE  Promise'
  <2>0. /\ UNCHANGED <<logs, manis, current, hist, up>> /\ n \in rc.todo /\ n \in DOMAIN logs /\ n # 0
        /\ vs'.ver = vs.ver /\ rc'.stage = "logs" /\ rc'.todo = rc.todo \ {n}
    BY <1>2 DEF RecoveredLog
  <2>1. mem = 0 /\ 0 \notin DOMAIN logs
    <3>1. rc.todo # {}
      BY <2>0
    <3> QED  BY <1>0, <3>1 DEF Promise, KeptLog, TypeLogs
  <2>2. \/ /\ rc.todo = {n} /\ tables' = tables /\ rc'.add = rc.add
           /\ mem' = n /\ mems' = With(mems, n, RecordsOf(n))
        \/ /\ RecordsOf(n) = {} /\ tables' = tables /\ rc'.add = rc.add /\ mem' = mem
        \/ /\ tables' = With(tables, vs.next, RecordsOf(n)) /\ rc'.add = rc.add \cup {<<vs.next, 0>>} /\ mem' = mem
    BY <1>2 DEF RecoveredLog
  <2>3. Roots' = Roots /\ Roots = {current}
    BY <1>0, <2>0 DEF Roots
  <2>4. \A m : m # vs.next => TableStays(m)
    BY <2>2 DEF TableStays, With
  <2>5. ASSUME NEW k \in Views(manis[current])
        PROVE  vs.next \notin FilesOf(PrefixVer(manis[current].recs, k))
    <3> SUFFICES ASSUME NEW f \in PrefixVer(manis[current].recs, k), f[1] = vs.next  PROVE FALSE
      BY DEF FilesOf
    <3>1. k \in Nat /\ k \in 1..Len(manis[current].recs) /\ Len(manis[current].recs) \in Nat
      BY <1>0, ViewTypes
    <3>2. PICK i \in 1..k : f \in manis[current].recs[i].add
      BY <3>1, PrefixFrom
    <3>3. i \in 1..Len(manis[current].recs)
      BY <3>1
    <3>4. f[1] < manis[current].recs[i].next /\ manis[current].recs[i].next < vs.next
          /\ manis[current].recs[i].next \in Nat
      BY <1>0, <3>2, <3>3, RecordTypes DEF Data, ManiInv, ManifestOK, Disk, StageInv, Control, Typed
    <3> QED  BY <1>0, <3>4
  <2>6. vs.next \notin FilesOf(vs.ver \cup rc.add)
    <3>1. \A f \in vs.ver \cup rc.add : f[1] < vs.next
      BY <1>0 DEF Data, FreshInv
    <3> QED  BY <1>0, <3>1 DEF FilesOf
  <2>7. \A p \in DOMAIN logs : LogStays(p)
    BY <1>0, <2>0, SameLogs
  <2>8. Views(manis'[current]) # {}
    BY <1>0, <2>0, LastView
  <2>9. KeptLog'
    <3>1. CASE rc.todo = {n} /\ mem' = n /\ mems' = With(mems, n, RecordsOf(n))
      <4>1. rc'.todo = {} /\ mems'[n] = RecordsOf(n)
        BY <2>0, <3>1 DEF With
      <4>2. \A i \in 1..logs[n].synced : logs[n].recs[i] \subseteq RecordsOf(n)
        BY <1>0, <2>0, LogRecords
      <4> QED  BY <2>0, <3>1, <4>1, <4>2 DEF KeptLog
    <3>2. CASE mem' = mem
      BY <2>1, <3>2 DEF KeptLog
    <3> QED  BY <2>2, <3>1, <3>2
  <2>10. ASSUME NEW x \in Nat, Covered(x), Opening(x) PROVE Covered(x)' /\ InFiles(x)' /\ Opening(x)'
    <3>1. Covered(x)'
      <4>1. rc.stage # "convert"
        BY <1>0
      <4>2. \A m \in Roots' : \A k \in Views(manis'[m]) :
              /\ k \in Views(manis[m]) /\ manis'[m].recs[k] = manis[m].recs[k]
              /\ PrefixVer(manis'[m].recs, k) = PrefixVer(manis[m].recs, k)
              /\ \A p \in FilesOf(PrefixVer(manis[m].recs, k)) : TableStays(p)
              /\ \A p \in DOMAIN logs : p >= manis[m].recs[k].log => LogStays(p)
        BY <2>0, <2>3, <2>4, <2>5, <2>7
      <4> QED  BY <1>0, <2>3, <2>10, <4>1, <4>2, CoverStill
    <3>2. InFiles(x)'
      <4>1. FilesInv' /\ rc'.stage # "convert" /\ current \in Roots'
        BY <1>0, <2>0, <2>3 DEF Disk
      <4> QED  BY <2>8, <3>1, <4>1, CoveredAll
    <3>3. FilesOf(vs.ver \cup rc.add) \subseteq FilesOf(vs'.ver \cup rc'.add)
      <4>1. vs.ver \cup rc.add \subseteq vs'.ver \cup rc'.add
        BY <2>0, <2>2
      <4> QED  BY <4>1 DEF FilesOf
    <3>4. CASE InTables(tables, vs.ver \cup rc.add, x)
      <4>1. InTables(tables', vs.ver \cup rc.add, x)
        BY <2>4, <2>6, <3>4, TablesStill
      <4>2. InTables(tables', vs'.ver \cup rc'.add, x)
        BY <3>3, <4>1, VersionGrows
      <4> QED  BY <3>1, <3>2, <4>2 DEF Opening
    <3>5. CASE \E p \in rc.todo : p # n /\ InLog(logs, p, x)
      BY <2>0, <3>1, <3>2, <3>5 DEF Opening
    <3>6. CASE InLog(logs, n, x)
      <4>1. PICK e \in RecordsOf(n) : e[2] = x
        BY <1>0, <2>0, <3>6, LogRecords
      <4>2. CASE mem' = n
        BY <2>0, <3>1, <3>2, <3>6, <4>2 DEF Opening
      <4>3. CASE tables' = With(tables, vs.next, RecordsOf(n)) /\ rc'.add = rc.add \cup {<<vs.next, 0>>}
        <5>1. vs.next \in DOMAIN tables' /\ tables'[vs.next] = RecordsOf(n)
          BY <4>3 DEF With
        <5>2. vs.next \in FilesOf(vs'.ver \cup rc'.add)
          <6>1. <<vs.next, 0>> \in vs'.ver \cup rc'.add /\ <<vs.next, 0>>[1] = vs.next
            BY <4>3
          <6> QED  BY <6>1 DEF FilesOf
        <5>3. InTables(tables', vs'.ver \cup rc'.add, x)
          BY <4>1, <5>1, <5>2 DEF InTables
        <5> QED  BY <3>1, <3>2, <5>3 DEF Opening
      <4> QED  BY <2>2, <4>1, <4>2, <4>3
    <3>7. ~InLog(logs, mem, x)
      BY <2>1 DEF InLog
    <3> QED  BY <1>0, <2>10, <3>4, <3>5, <3>6, <3>7 DEF Opening
  <2>11. hist'.promised = hist.promised /\ up' = "opening"
    BY <1>0, <2>0
  <2> QED  BY <1>0, <2>9, <2>10, <2>11, OpeningPromise
<1>3. QED
  BY <1>1, <1>2, RecoverLogFacts

(* A step of Open in which the files that count stay.                      *)
LEMMA OpenFilesPromise ==
  ASSUME Control, Promise, Control', up = "opening", up' = "opening", hist'.promised = hist.promised, KeptLog',
         rc.stage \notin {"read", "convert"}, rc.todo = {}, UNCHANGED <<tables, manis>>, Roots' \subseteq Roots,
         \A n \in DOMAIN logs : LogStays(n), vs'.ver \cup rc'.add = vs.ver \cup rc.add,
         mem' = mem \/ mem = 0
  PROVE  Promise'
<1>1. TypeLogs /\ TypeLogs'
  BY DEF Control, Typed
<1>2. \A n \in DOMAIN tables : TableStays(n)
  BY DEF TableStays
<1>3. \A m \in DOMAIN manis' : m \in DOMAIN manis /\ manis'[m] = manis[m]
  OBVIOUS
<1>4. ASSUME NEW x \in Nat, Covered(x), InFiles(x), Opening(x)  PROVE Covered(x)' /\ InFiles(x)' /\ Opening(x)'
  <2>1. Covered(x)' /\ InFiles(x)'
    BY <1>1, <1>2, <1>3, <1>4, FilesStill
  <2>2. CASE InTables(tables, vs.ver \cup rc.add, x)
    BY <2>1, <2>2 DEF Opening
  <2>3. CASE InLog(logs, mem, x)
    <3>1. mem \in DOMAIN logs /\ mem # 0
      BY <1>1, <2>3 DEF InLog, TypeLogs
    <3>2. InLog(logs', mem, x)
      BY <1>1, <2>3, <3>1, LogStill
    <3>3. InLog(logs', mem', x)
      BY <3>1, <3>2
    <3> QED  BY <2>1, <3>3 DEF Opening
  <2> QED  BY <1>4, <2>1, <2>2, <2>3 DEF Opening
<1> QED  BY <1>4, OpeningPromise

(* Open takes a new log, unless the last one was kept.                     *)
LEMMA OpenLogPromise ==
  ASSUME Control, Data, Disk, Promise, Control', OpenLog
  PROVE  Promise'
<1>0. OpenedLog
  BY OpenLogFacts
<1>1. /\ UNCHANGED <<tables, manis, current, up, hist>> /\ rc'.stage \in {"apply", "clean"} /\ rc.stage = "logs"
      /\ rc'.add = rc.add /\ rc'.todo = {} /\ rc.todo = {} /\ vs'.ver = vs.ver /\ up = "opening"
      /\ rc.stage \notin {"read", "convert"}
  BY <1>0 DEF OpenedLog, Control, Stages
<1>2. Roots' \subseteq Roots
  BY <1>1 DEF Roots
<1>3. CASE mem # 0
  <2>1. UNCHANGED <<logs, mem, mems>>
    BY <1>0, <1>3 DEF OpenedLog
  <2>2. \A n \in DOMAIN logs : LogStays(n)
    BY <2>1, SameLogs
  <2>3. KeptLog'
    BY <1>1, <2>1 DEF Promise, KeptLog
  <2>4. up' = "opening" /\ hist'.promised = hist.promised /\ UNCHANGED <<tables, manis>> /\ mem' = mem
        /\ vs'.ver \cup rc'.add = vs.ver \cup rc.add
    BY <1>1, <2>1
  <2> QED  BY <1>1, <1>2, <2>2, <2>3, <2>4, OpenFilesPromise
<1>4. CASE mem = 0
  <2>1. logs' = With(logs, vs.next, EmptyFile) /\ mem' = vs.next /\ \A n \in DOMAIN logs : n < vs.next
    BY <1>0, <1>4 DEF OpenedLog
  <2>2. vs.next \in Nat /\ TypeLogs
    BY DEF Control, Typed, TypeVs, VsType
  <2>3. vs.next \notin DOMAIN logs
    BY <2>1, <2>2
  <2>4. /\ \A n \in DOMAIN logs : n \in DOMAIN logs' /\ logs'[n] = logs[n]
        /\ logs'[vs.next] = EmptyFile
    BY <2>1, <2>3 DEF With
  <2>5. \A n \in DOMAIN logs : LogStays(n)
    BY <2>2, <2>4 DEF LogStays, TypeLogs, FileOK, FileType
  <2>6. KeptLog'
    BY <1>1, <2>1, <2>4, EmptyFacts DEF KeptLog
  <2>7. up' = "opening" /\ hist'.promised = hist.promised /\ UNCHANGED <<tables, manis>>
        /\ vs'.ver \cup rc'.add = vs.ver \cup rc.add
    BY <1>1
  <2> QED  BY <1>1, <1>2, <1>4, <2>5, <2>6, <2>7, OpenFilesPromise
<1> QED  BY <1>3, <1>4

(* CURRENT names the manifest: one of two that could be read before.       *)
LEMMA OpenCurrentPromise ==
  ASSUME Control, Data, Disk, Promise, Control', OpenCurrent
  PROVE  Promise'
<1>0. /\ rc.stage = "current" /\ up = "opening" /\ vs \in VsType /\ rc \in RcType /\ hist \in HistType
      /\ UNCHANGED <<logs, tables, manis, up, mem, mems>> /\ current' = vs.mani /\ rc.todo = {}
  BY DEF OpenCurrent, memtables, Control, Typed, TypeVs, TypeRc, TypeHist, Stages, Data, RecoverInv
<1>1. vs'.ver = vs.ver \cup rc.add
  <2> DEFINE v == vs.ver \cup rc.add
  <2>1. vs' = [vs EXCEPT !.ver = v, !.log = mem]
    BY DEF OpenCurrent
  <2> HIDE DEF v
  <2>2. vs'.ver = v
    BY <1>0, <2>1 DEF VsType
  <2> QED  BY <2>2 DEF v
<1>2. rc'.stage = "clean" /\ rc'.add = rc.add /\ rc'.todo = rc.todo
  BY <1>0 DEF OpenCurrent, RcType
<1>3. hist'.promised = hist.promised
  BY <1>0 DEF OpenCurrent, HistType
<1>4. Roots' \subseteq Roots
  BY <1>0, <1>2 DEF Roots
<1>5. \A n \in DOMAIN logs : LogStays(n)
  BY <1>0, SameLogs
<1>6. KeptLog'
  BY <1>0, <1>2 DEF Promise, KeptLog
<1>7. vs'.ver \cup rc'.add = vs.ver \cup rc.add
  BY <1>1, <1>2
<1> QED  BY <1>0, <1>3, <1>4, <1>5, <1>6, <1>7, OpenFilesPromise

-----------------------------------------------------------------------------
(* The first edit of an Open: with the version it makes goes the log that  *)
(* is in use from now on.                                                  *)
LEMMA OpenApplyPromise ==
  ASSUME Control, Data, NoBlindReuse, Disk, Promise, Control', OpenApply
  PROVE  Promise'
<1>0. /\ rc.stage = "apply" /\ up = "opening" /\ rc.reuse = plan.reuse /\ UNCHANGED <<logs, tables, current>>
      /\ TypeLogs /\ TypeLogs' /\ mem \in Nat /\ rc.todo = {}
  BY DEF OpenApply, Control, Typed, TypeMems, Stages, Data, RecoverInv
<1>1. \A n \in DOMAIN logs : LogStays(n)
  BY <1>0, SameLogs
<1>2. \A n \in DOMAIN tables : TableStays(n)
  BY <1>0 DEF TableStays
<1>3. CASE OpenFail
  <2>1. up' = "closed" /\ rc' = IdleRc
    BY <1>3 DEF OpenFail, ResetMemory
  <2>2. manis' = Kept(manis, DOMAIN manis \ {vs.mani}) /\ UNCHANGED hist
    <3>1. up' # "opening"
      BY <2>1
    <3> QED  BY <1>0, <3>1 DEF OpenApply, NoBlindReuse
  <2>3. \A m \in DOMAIN manis' : m \in DOMAIN manis /\ manis'[m] = manis[m]
    BY <2>2 DEF Kept
  <2>4. ~Based' /\ rc'.stage = "none"
    BY <2>1, IdleTypes DEF Based, Live
  <2>5. Roots' \subseteq Roots
    BY <1>0, <2>3, <2>4 DEF Roots
  <2>6. ASSUME NEW x \in Nat, x \in hist'.promised PROVE Covered(x)' /\ InFiles(x)'
    <3>1. Covered(x) /\ InFiles(x)
      BY <2>2, <2>6, PromisedSafe
    <3>2. rc.stage # "convert"
      BY <1>0
    <3> QED  BY <1>0, <1>1, <1>2, <2>3, <2>5, <3>1, <3>2, FilesStill
  <2> QED  BY <2>4, <2>6, UnbasedPromise
<1>4. CASE ~OpenFail
  <2>1. PICK g : AppliedTo(g)
    BY <1>4, AppliedFacts
  <2>2. /\ UNCHANGED <<up, mem, mems, vs>> /\ rc'.stage = "current" /\ rc'.add = rc.add /\ rc'.todo = {}
        /\ manis' = With(manis, vs.mani, g) /\ hist'.promised = hist.promised
    BY <2>1 DEF AppliedTo
  <2>3. manis'[vs.mani] = g /\ \A m \in DOMAIN manis' : m # vs.mani => m \in DOMAIN manis /\ manis'[m] = manis[m]
    <3>1. manis' = With(manis, vs.mani, g)
      BY <2>2
    <3> QED  BY <3>1 DEF With
  <2>4. \A k \in Views(g) : g.recs[k].log = mem /\ PrefixVer(g.recs, k) = vs.ver \cup rc.add
    BY <2>1 DEF AppliedTo
  <2>5. KeptLog'
    BY <1>0, <2>2 DEF Promise, KeptLog
  <2>6. ASSUME NEW x \in Nat, Covered(x), InFiles(x), Opening(x)  PROVE Covered(x)' /\ InFiles(x)' /\ Opening(x)'
    <3>1. InFiles(x)'
      BY <1>0, <1>1, <1>2, <2>6, InFilesStill DEF ReadableTables
    <3>2. InTables(tables, vs.ver \cup rc.add, x) \/ InLog(logs, mem, x)
      BY <1>0, <2>6 DEF Opening
    <3>3. Opening(x)'
      BY <1>0, <2>2, <3>2 DEF Opening
    <3>4. InTables(tables, vs.ver \cup rc.add, x) \/ InLogs(logs, mem, x)
      BY <1>0, <3>2, LogAmong
    <3>5. ASSUME NEW m \in Roots', NEW k \in Views(manis'[m])
          PROVE  InTables(tables', PrefixVer(manis'[m].recs, k), x) \/ InLogs(logs', manis'[m].recs[k].log, x)
      <4>1. CASE m = vs.mani
        BY <1>0, <2>3, <2>4, <3>4, <3>5, <4>1
      <4>2. CASE m # vs.mani
        <5>1. m \in Roots /\ manis'[m] = manis[m]
          BY <1>0, <2>2, <2>3, <3>5, <4>2 DEF Roots
        <5> QED  BY <1>0, <2>6, <3>5, <5>1 DEF Covered
      <4> QED  BY <4>1, <4>2
    <3>6. Covered(x)'
      BY <3>5 DEF Covered
    <3> QED  BY <3>1, <3>3, <3>6
  <2>7. up' = "opening"
    BY <1>0, <2>2
  <2> QED  BY <1>0, <2>2, <2>5, <2>6, <2>7, OpeningPromise
<1> QED  BY <1>3, <1>4

(* The database is open: its version and its memtable have what was        *)
(* promised, and what it does not need is deleted.                         *)
LEMMA OpenDonePromise ==
  ASSUME Control, Data, Disk, Promise, Control', Data', Disk', OpenDone, ~hist'.damaged
  PROVE  Promise'
<1>0. /\ rc.stage = "clean" /\ up = "opening" /\ up' = "open" /\ Based /\ rc' = IdleRc /\ hist \in HistType
      /\ UNCHANGED <<vs, mem, mems, cl>> /\ ~err /\ mem # 0 /\ mem \in DOMAIN mems /\ rc.todo = {}
      /\ Exact(Mani, vs.ver, vs.log) /\ vs.log <= mem /\ rc.add \subseteq vs.ver /\ vs.mani \in DOMAIN manis
  BY DEF OpenDone, memtables, Control, Typed, TypeHist, Stages, Based, QuietInv, Disk, OpenExactInv,
         Data, ManiInv, LogInv, FreshInv, RecoverInv, Live
<1>1. hist'.promised = hist.promised
  <2>1. hist' = [hist EXCEPT !.applied = Recovered, !.life = @ + 1, !.logged = Remembered]
    BY DEF OpenDone
  <2> QED  BY <1>0, <2>1 DEF HistType
<1>2. /\ \A n \in DOMAIN logs' : n \in DOMAIN logs /\ logs'[n] = logs[n]
      /\ \A n \in DOMAIN logs : n >= vs.log => n \in DOMAIN logs'
      /\ \A m \in DOMAIN manis' : m \in DOMAIN manis /\ manis'[m] = manis[m]
      /\ \A n \in LiveFiles(vs, pending, {}) : SameTable(n)
  <2>1. DeleteObsoleteFiles(tables, vs, pending, {}, err) /\ err \in BOOLEAN
    BY DEF OpenDone, Control, Typed, TypeFlags
  <2> QED  BY <2>1, DeleteFacts
<1>3. TypeLogs' /\ vs.log \in Nat /\ mem \in Nat /\ Live' /\ rc'.stage = "none" /\ vs'.mani = vs.mani
  BY <1>0, IdleTypes DEF Control, Typed, TypeVs, VsType, TypeMems, Live
<1>4. Roots' = {vs.mani} /\ manis'[vs.mani] = Mani
  <2>1. current' = vs.mani
    BY <1>0 DEF OpenDone, Disk, StageInv
  <2>2. vs'.mani \in DOMAIN manis'
    BY <1>3 DEF Data, ManiInv
  <2> QED  BY <1>2, <1>3, <2>1, <2>2 DEF Mani, Roots
<1>5. \A n \in FilesOf(vs.ver) : TableStays(n)
  BY <1>2, SameStays DEF LiveFiles
<1>6. \A c \in Writers : cl[c].pc = "idle"
  BY <1>0 DEF Control, QuietInv, IdleCl, Live
<1>7. Syncing' /\ \A x : Sure(x)' => x \in hist.promised
  BY <1>0, <1>1, <1>6 DEF Syncing, Sure, Owed
<1>8. ASSUME NEW x \in Nat, Opening(x)  PROVE Safe(x)'
  <2>1. InTables(tables, vs.ver, x) \/ InLog(logs, mem, x)
    <3>1. vs.ver \cup rc.add = vs.ver
      BY <1>0
    <3> QED  BY <1>0, <1>8, <3>1 DEF Opening
  <2>2. InTables(tables', vs.ver, x) \/ (InLog(logs', mem, x) /\ InMem(mems, mem, x))
    <3>1. CASE InTables(tables, vs.ver, x)
      BY <1>5, <3>1, TablesStill
    <3>2. CASE InLog(logs, mem, x)
      <4>1. PICK i \in 1..logs[mem].synced : \E e \in logs[mem].recs[i] : e[2] = x
        BY <3>2 DEF InLog
      <4>2. logs[mem].recs[i] \subseteq mems[mem]
        BY <1>0, <4>1 DEF Promise, KeptLog
      <4>3. InMem(mems, mem, x)
        BY <1>0, <4>1, <4>2 DEF InMem
      <4>4. InLog(logs', mem, x)
        BY <1>0, <1>2, <3>2 DEF InLog
      <4> QED  BY <4>3, <4>4
    <3> QED  BY <2>1, <3>1, <3>2
  <2>3. InMemory(x)'
    BY <1>0, <2>2 DEF InMemory
  <2>4. InTables(tables', vs.ver, x) \/ InLogs(logs', vs.log, x)
    BY <1>0, <1>3, <2>2 DEF InLogs, InLog
  <2>5. Covered(x)'
    <3>1. \A k \in Views(Mani) : PrefixVer(Mani.recs, k) = vs.ver /\ Mani.recs[k].log = vs.log
      BY <1>0 DEF Exact
    <3> QED  BY <1>4, <2>4, <3>1 DEF Covered
  <2>6. InFiles(x)'
    BY <1>3, <2>5, LiveInFiles
  <2>7. Opening(x)'
    BY <1>0 DEF Opening
  <2> QED  BY <2>3, <2>5, <2>6, <2>7 DEF Safe
<1>9. KeptLog'
  BY <1>0 DEF KeptLog
<1>10. \A x \in Nat : Sure(x)' => Safe(x)'
  BY <1>7, <1>8, PromisedSafe
<1> QED  BY <1>7, <1>9, <1>10 DEF Promise

-----------------------------------------------------------------------------
(* RepairDB makes a table of a log before it puts the log away.            *)
LEMMA ConvertPromise ==
  ASSUME Control, Data, Disk, Promise, Control', ConvertLogToTable, ~hist'.damaged
  PROVE  Promise'
<1>0. /\ rc.stage = "convert" /\ up' = up /\ up = "repairing" /\ ~Based' /\ hist \in HistType /\ rc \in RcType
      /\ TypeLogs /\ TypeLogs' /\ TypeTables /\ rc.next \in Nat /\ \A m \in DOMAIN tables : m < rc.next
  BY DEF ConvertLogToTable, Control, Typed, TypeHist, TypeRc, RcType, Stages, Based, Live, Data, RecoverInv
<1>1. PICK n \in rc.todo :
        /\ (tables' = (IF RecordsOf(n) = {} THEN tables ELSE With(tables, rc.next, RecordsOf(n))) /\ UNCHANGED hist)
           \/ hist' = [hist EXCEPT !.damaged = TRUE]
        /\ logs' = Archived(logs, n)
        /\ rc' = [rc EXCEPT !.todo = @ \ {n}, !.next = @ + 1]
  BY DEF ConvertLogToTable
<1>2. tables' = (IF RecordsOf(n) = {} THEN tables ELSE With(tables, rc.next, RecordsOf(n))) /\ UNCHANGED hist
  <2>1. hist' # [hist EXCEPT !.damaged = TRUE]
    <3>1. SUFFICES ASSUME hist' = [hist EXCEPT !.damaged = TRUE]  PROVE hist'.damaged
      OBVIOUS
    <3> QED  BY <1>0, <3>1 DEF HistType
  <2> QED  BY <1>1, <2>1
<1>3. rc'.stage = "convert"
  BY <1>0, <1>1 DEF RcType
<1>4. n \in DOMAIN logs
  BY <1>0, <1>1 DEF Data, RecoverInv
<1>5. rc.next \notin DOMAIN tables
  BY <1>0 DEF TypeTables
<1>6. \A m \in DOMAIN tables : m \in DOMAIN tables' /\ tables'[m] = tables[m]
  BY <1>2, <1>5 DEF With
<1>7. \A p \in DOMAIN logs : p # n => p \in DOMAIN logs' /\ logs'[p] = logs[p]
  BY <1>1 DEF Archived, Kept
<1>8. ASSUME NEW x \in Nat, x \in hist'.promised PROVE Covered(x)' /\ InFiles(x)'
  <2>1. InFiles(x)
    BY <1>2, <1>8, PromisedSafe
  <2>2. CASE \E m \in ReadableTables : \E e \in tables[m] : e[2] = x
    <3>1. \A m \in ReadableTables : m \in ReadableTables' /\ tables'[m] = tables[m]
      BY <1>6 DEF ReadableTables
    <3> QED  BY <1>3, <2>2, <3>1 DEF InFiles, Covered
  <2>3. CASE InLogs(logs, 0, x)
    <3>1. PICK p \in DOMAIN logs : p >= 0 /\ InLog(logs, p, x)
      BY <2>3 DEF InLogs
    <3>2. CASE p # n
      <4>1. p \in DOMAIN logs' /\ InLog(logs', p, x)
        BY <1>7, <3>1, <3>2 DEF InLog
      <4> QED  BY <1>3, <3>1, <4>1 DEF InFiles, InLogs, Covered
    <3>3. CASE p = n
      <4>1. PICK e \in RecordsOf(n) : e[2] = x
        BY <1>0, <3>1, <3>3, LogRecords
      <4>2. tables' = With(tables, rc.next, RecordsOf(n))
        BY <1>2, <4>1
      <4>3. rc.next \in DOMAIN tables' /\ tables'[rc.next] = RecordsOf(n)
        BY <4>2 DEF With
      <4>4. RecordsOf(n) # Garbage
        BY <1>0, <1>4, RecordEntries, ReadableEntries
      <4>5. rc.next \in ReadableTables'
        BY <4>3, <4>4 DEF ReadableTables
      <4> QED  BY <1>3, <4>1, <4>3, <4>5 DEF InFiles, Covered
    <3> QED  BY <3>2, <3>3
  <2> QED  BY <2>1, <2>2, <2>3 DEF InFiles
<1> QED  BY <1>0, <1>8, UnbasedPromise

(* The manifest that RepairDB makes names every table that can be read.    *)
LEMMA DescriptorPromise ==
  ASSUME Control, Data, Disk, Promise, Control', WriteDescriptor
  PROVE  Promise'
<1>0. DescriptorWritten
  BY DescriptorIsWritten
<1>1. /\ rc.stage = "convert" /\ up' = up /\ up = "repairing" /\ rc.todo = {} /\ DOMAIN logs = {} /\ ~Based'
  BY <1>0 DEF DescriptorWritten, WriteDescriptor, Data, RecoverInv, Based, Live
<1>2. /\ hist'.promised = hist.promised /\ DOMAIN tables' = ReadableTables
      /\ \A n \in ReadableTables : tables'[n] = tables[n] /\ n \in DOMAIN tables /\ tables[n] # Garbage
  BY <1>0 DEF DescriptorWritten, ReadableTables
<1>3. DOMAIN manis' = {1} /\ Views(manis'[1]) = {1} /\ FilesOf(PrefixVer(manis'[1].recs, 1)) = ReadableTables
  BY <1>0 DEF DescriptorWritten
<1>4. ASSUME NEW x \in Nat, x \in hist'.promised PROVE Covered(x)' /\ InFiles(x)'
  <2>1. InFiles(x)
    BY <1>2, <1>4, PromisedSafe
  <2>2. PICK n \in ReadableTables : \E e \in tables[n] : e[2] = x
    BY <1>1, <2>1 DEF InFiles, InLogs
  <2>3. InFiles(x)'
    <3>1. n \in ReadableTables'
      BY <1>2, <2>2 DEF ReadableTables
    <3> QED  BY <1>2, <2>2, <3>1 DEF InFiles
  <2>4. InTables(tables', PrefixVer(manis'[1].recs, 1), x)
    BY <1>2, <1>3, <2>2 DEF InTables
  <2>5. Roots' \subseteq {1}
    BY <1>3 DEF Roots
  <2>6. Covered(x)'
    BY <1>3, <2>4, <2>5 DEF Covered
  <2> QED  BY <2>3, <2>6
<1> QED  BY <1>1, <1>4, UnbasedPromise

-----------------------------------------------------------------------------
(* Every step of a writer.                                                 *)
LEMMA WriterPromise ==
  ASSUME Control, Data, Disk, Promise, Control', Data', Disk', NEW c \in Writers, Running,
         Write(c) \/ CompactRange(c) \/ WriterStep(c), ~hist'.damaged
  PROVE  Promise'
<1>1. CASE Write(c) \/ CompactRange(c) \/ RoomError(c) \/ RoomNoLog(c) \/ RoomReady(c) \/ WriteFinish(c)
  BY <1>1, QueueStepPromise
<1>2. CASE RoomDelay(c) \/ RoomWait(c) \/ WriteReturn(c) \/ AwaitFlush(c) \/ ManualTurn(c)
  BY <1>2, WaitStepPromise
<1>3. CASE RoomSwitch(c) \/ WriteSync(c)
  BY <1>3, RoomSwitchPromise, WriteSyncPromise
<1>4. CASE WriteLog(c) \/ WriteInsert(c)
  BY <1>4, WriteLogPromise, WriteInsertPromise
<1> QED  BY <1>1, <1>2, <1>3, <1>4 DEF WriterStep, MakeRoomForWrite

(* Damage is not undone while the background thread works ...              *)
LEMMA BackgroundDamage ==
  ASSUME Control, Data, Disk, BackgroundStep, Running, hist.damaged
  PROVE  hist'.damaged
<1>1. CASE WriteManifest
  <2>1. PICK f : ManifestGrown(f)
    BY <1>1, ManifestWritten
  <2> QED  BY <2>1 DEF ManifestGrown
<1>2. CASE bg.pc = "install" /\ (FlushDone \/ MoveDone \/ CompactDone)
  BY <1>2 DEF FlushDone, MoveDone, CompactDone
<1>3. CASE ~WriteManifest /\ bg.pc # "install"
  BY <1>3, WorkingFacts DEF Working, WorkFrame
<1>4. bg.pc = "install" => WriteManifest \/ FlushDone \/ MoveDone \/ CompactDone
  BY DEF BackgroundStep, BackgroundStop, BackgroundFlush, BackgroundManual, BackgroundPick, WriteLevel0Table, CompactImm,
     OpenCompactionOutputFile, FinishCompactionOutputFile, CompactShutDown
<1> QED  BY <1>1, <1>2, <1>3, <1>4

(* ... nor by an Open, a repair or a crash.                                *)
LEMMA OpenDamage ==
  ASSUME Control, OpenStep, hist.damaged
  PROVE  hist'.damaged
<1>0. hist \in HistType
  BY DEF Control, Typed, TypeHist
<1>1. CASE OpenRead \/ RecoverLogFile \/ OpenLog
  BY <1>1 DEF OpenRead, RecoverLogFile, OpenLog
<1>2. CASE OpenApply
  <2>1. CASE UNCHANGED hist
    BY <2>1
  <2>2. CASE \E f : hist' = [hist EXCEPT !.damaged = @ \/ f.tear = 2]
    <3>1. PICK f : hist' = [hist EXCEPT !.damaged = @ \/ f.tear = 2]
      BY <2>2
    <3> DEFINE d == hist.damaged \/ f.tear = 2
    <3>2. hist' = [hist EXCEPT !.damaged = d] /\ d
      BY <3>1
    <3> HIDE DEF d
    <3> QED  BY <1>0, <3>2 DEF HistType
  <2> QED  BY <1>2, <2>1, <2>2 DEF OpenApply
<1>3. CASE OpenCurrent
  BY <1>0, <1>3 DEF OpenCurrent, HistType
<1>4. CASE OpenDone
  <2>1. hist' = [hist EXCEPT !.applied = Recovered, !.life = @ + 1, !.logged = Remembered]
    BY <1>4 DEF OpenDone
  <2> QED  BY <1>0, <2>1 DEF HistType
<1> QED  BY <1>1, <1>2, <1>3, <1>4 DEF OpenStep

(* Damage is for ever.                                                     *)
LEMMA RestDamage ==
  ASSUME Control, hist.damaged,
         \/ Close \/ CloseDone \/ OpenBegin \/ RepairBegin \/ ConvertLogToTable \/ WriteDescriptor \/ RepairDone
         \/ DestroyDB \/ Crash \/ Segfault
  PROVE  hist'.damaged
<1>0. hist \in HistType
  BY DEF Control, Typed, TypeHist
<1>1. CASE Close \/ CloseDone \/ RepairBegin \/ RepairDone \/ Segfault
  BY <1>1 DEF Close, CloseDone, RepairBegin, RepairDone, Segfault
<1>2. CASE OpenBegin \/ ConvertLogToTable \/ WriteDescriptor
  <2>1. \/ hist' = hist \/ hist' = [hist EXCEPT !.rootless = TRUE] \/ hist' = [hist EXCEPT !.damaged = TRUE]
    BY <1>2 DEF OpenBegin, NewDB, ConvertLogToTable, WriteDescriptor
  <2> QED  BY <1>0, <2>1 DEF HistType
<1>3. CASE DestroyDB
  BY <1>0, <1>3 DEF DestroyDB, HistType
<1>4. CASE Crash
  <2> DEFINE d == hist.damaged \/ up = "repairing"
  <2>1. hist' = [hist EXCEPT !.damaged = d] /\ d
    BY <1>4 DEF Crash
  <2> HIDE DEF d
  <2> QED  BY <1>0, <2>1 DEF HistType
<1> QED  BY <1>1, <1>2, <1>3, <1>4

(* A database that was never opened has promised nothing.                  *)
LEMMA PromiseInit ==
  ASSUME Init
  PROVE  Promise
<1>1. up = "closed" /\ mem = 0 /\ hist.promised = {} /\ rc = IdleRc /\ \A c \in Writers : cl[c].pc = "idle"
  BY DEF Init, IdleCl
<1> QED  BY <1>1 DEF Promise, Sure, Owed, Syncing, KeptLog

(* Every step, and the stuttering one, keeps the promises.                 *)
LEMMA PromiseStep ==
  ASSUME SnapInv, DiskInv, PromiseInv, [Next]_openVars
  PROVE  PromiseInv'
<1>0. Control /\ Data
  BY DEF SnapInv
<1>1. Control' /\ Data'
  BY SnapStep DEF SnapInv
<1>2. plan' = plan
  BY DEF Next, openVars, vars
<1> SUFFICES ASSUME NoBlindReuse, ~hist'.damaged PROVE Promise'
  BY <1>2 DEF PromiseInv, NoBlindReuse
<1>3. Disk
  BY DEF DiskInv
<1>4. Disk'
  BY <1>2, FilesStep DEF DiskInv, NoBlindReuse
<1>5. CASE UNCHANGED openVars
  <2>1. UNCHANGED <<logs, tables, manis, current, up, queue, cl, mem, imm, mems, vs, hist, rc>>
    BY <1>5 DEF openVars, vars, disk, memtables
  <2>2. Promise
    BY <2>1 DEF PromiseInv
  <2>3. Roots' = Roots /\ ReadableTables' = ReadableTables /\ Live' = Live
    BY <2>1 DEF Roots, ReadableTables, Live
  <2>4. \A n : GroupIds(n)' = GroupIds(n)
    BY <2>1 DEF GroupIds, Batches
  <2>5. ASSUME NEW x PROVE Sure(x)' = Sure(x) /\ Safe(x)' = Safe(x)
    <3>1. Sure(x)' = Sure(x)
      BY <2>1 DEF Sure, Owed, GroupIds, Batches
    <3>2. InMemory(x)' = InMemory(x) /\ Opening(x)' = Opening(x)
      BY <2>1 DEF InMemory, Opening, Live
    <3>3. Covered(x)' = Covered(x) /\ InFiles(x)' = InFiles(x)
      BY <2>1, <2>3 DEF Covered, InFiles
    <3> QED  BY <3>1, <3>2, <3>3 DEF Safe
  <2>6. Syncing'
    BY <2>1, <2>2, <2>4 DEF Promise, Syncing
  <2>7. KeptLog'
    BY <2>1, <2>2 DEF Promise, KeptLog
  <2> QED  BY <2>2, <2>5, <2>6, <2>7 DEF Promise
<1>6. CASE Next
  <2>1. ASSUME NEW c \in Writers, Write(c) \/ CompactRange(c) \/ WriterStep(c), Running
        PROVE  Promise'
    <3>1. ~hist.damaged
      BY <1>0, <1>3, <2>1, WriterCalls DEF CallFrame
    <3>2. Promise
      BY <3>1 DEF PromiseInv
    <3> QED  BY <1>0, <1>1, <1>3, <1>4, <2>1, <3>2, WriterPromise
  <2>2. ASSUME NEW r \in Readers, GetBegin(r) \/ ReaderStep(r), Running
        PROVE  Promise'
    <3>1. ~hist.damaged
      BY <1>0, <1>3, <2>2, ReaderCalls DEF CallFrame
    <3>2. Promise
      BY <3>1 DEF PromiseInv
    <3> QED  BY <1>0, <1>1, <1>3, <2>2, <3>2, ReaderPromise
  <2>3. CASE BackgroundStep /\ Running
    <3>1. ~hist.damaged
      BY <1>0, <1>3, <2>3, BackgroundDamage
    <3>2. Promise
      BY <3>1 DEF PromiseInv
    <3> QED  BY <1>0, <1>1, <1>3, <1>4, <2>3, <3>2, BackgroundPromise
  <2>4. CASE OpenStep
    <3>1. ~hist.damaged
      BY <1>0, <2>4, OpenDamage
    <3>2. Promise
      BY <3>1 DEF PromiseInv
    <3>3. CASE OpenRead \/ RecoverLogFile
      BY <1>0, <1>1, <1>3, <1>4, <3>2, <3>3, OpenReadPromise, RecoverLogPromise
    <3>4. CASE OpenLog \/ OpenApply
      BY <1>0, <1>1, <1>3, <3>2, <3>4, OpenLogPromise, OpenApplyPromise
    <3>5. CASE OpenCurrent \/ OpenDone
      BY <1>0, <1>1, <1>3, <1>4, <3>2, <3>5, OpenCurrentPromise, OpenDonePromise
    <3> QED  BY <2>4, <3>3, <3>4, <3>5 DEF OpenStep
  <2>5. CASE \/ Close /\ rc' = rc
             \/ CloseDone \/ OpenBegin \/ RepairBegin \/ ConvertLogToTable \/ WriteDescriptor \/ RepairDone
             \/ DestroyDB \/ Crash \/ Segfault
    <3>1. ~hist.damaged
      BY <1>0, <2>5, RestDamage
    <3>2. Promise
      BY <3>1 DEF PromiseInv
    <3>3. CASE (Close /\ rc' = rc) \/ CloseDone \/ OpenBegin
      BY <1>0, <1>1, <1>3, <3>2, <3>3, ClosePromise, CloseDonePromise, OpenBeginPromise
    <3>4. CASE RepairBegin \/ ConvertLogToTable \/ WriteDescriptor
      BY <1>0, <1>1, <1>3, <3>2, <3>4, RepairBeginPromise, ConvertPromise, DescriptorPromise
    <3>5. CASE RepairDone \/ DestroyDB \/ Crash \/ Segfault
      BY <1>0, <1>1, <1>3, <3>2, <3>5, RepairDonePromise, DestroyPromise, CrashPromise, SegfaultPromise
    <3> QED  BY <2>5, <3>3, <3>4, <3>5
  <2> QED  BY <1>6, <2>1, <2>2, <2>3, <2>4, <2>5 DEF Next, Step
<1> QED  BY <1>5, <1>6

(* What is promised of the memory of a running database is what a run      *)
(* checks of its contents.                                                 *)
LEMMA PromisesAreKept ==
  ASSUME SnapInv, Promise
  PROVE  PromisesKept
<1>0. Control /\ Data
  BY DEF SnapInv
<1> SUFFICES ASSUME up \in {"open", "closing"}, NEW x \in hist.promised
             PROVE  x \in IdsOf(Contents)
  BY DEF PromisesKept
<1>1. x \in Nat /\ Live
  BY <1>0 DEF Control, Typed, TypeHist, HistType, Live
<1>2. InMemory(x) /\ mem # 0
  BY <1>0, <1>1, PromisedSafe DEF Data, BgInv
<1>3. \E e \in Contents : e[2] = x
  <2>1. CASE InTables(tables, vs.ver, x)
    BY <2>1 DEF InTables, Contents, TableEntries
  <2>2. CASE imm # 0 /\ InMem(mems, imm, x)
    BY <2>2 DEF InMem, Contents
  <2>3. CASE InMem(mems, mem, x)
    BY <1>2, <2>3 DEF InMem, Contents
  <2> QED  BY <1>1, <1>2, <2>1, <2>2, <2>3 DEF InMemory
<1> QED  BY <1>3 DEF IdsOf

(* A write that returned OK with options.sync is in the database from then *)
(* on (db_impl.cc, DBImpl::Write, DBImpl::RecoverLogFile; db/repair.cc):   *)
(* after any crash of the machine, any flush, compaction and deletion of   *)
(* files, any failed file operation and any repair, in any order and       *)
(* number.  What remains excluded is a record that was appended behind the *)
(* bytes of an incomplete one, a repair that failed or was cut short, and, *)
(* as above, a manifest that options.reuse_logs takes up after a write to  *)
(* it failed.                                                              *)
THEOREM SyncedWritesSurvive ==
  Spec => [](NoBlindReuse => PromisesKept)
<1>1. Init => SnapInv /\ DiskInv /\ PromiseInv
  BY SnapInit, DiskInit, PromiseInit DEF DiskInv, PromiseInv
<1>2. SnapInv /\ DiskInv /\ PromiseInv /\ [Next]_openVars => (SnapInv /\ DiskInv /\ PromiseInv)'
  BY SnapStep, FilesStep, PromiseStep
<1>3. SnapInv /\ DiskInv /\ PromiseInv => (NoBlindReuse => PromisesKept)
  <2>1. CASE hist.damaged
    BY <2>1 DEF PromisesKept
  <2>2. CASE ~hist.damaged
    BY <2>2, PromisesAreKept DEF PromiseInv
  <2> QED  BY <2>1, <2>2
<1> QED  BY <1>1, <1>2, <1>3, PTL DEF Spec

=============================================================================
