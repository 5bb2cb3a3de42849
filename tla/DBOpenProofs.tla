---------------------------- MODULE DBOpenProofs ----------------------------
(***************************************************************************)
(* Theorems about the database (DBImpl and DBOpen): the types of its       *)
(* state, the invariant that each of its steps keeps (SnapInv), what Get   *)
(* returns, and that the groups of writes are recovered whole.             *)
(*                                                                         *)
(* SnapInv has two halves. Control is about threads: stages, the queue of  *)
(* writers, what is idle when. Data is about contents: file numbers and    *)
(* sequence numbers are below the next ones, an edit on its way to the     *)
(* manifest fits the version, and the memtables and the version together   *)
(* hold exactly what was applied. Control makes sure that the steps of one *)
(* actor cannot disturb what Data says of another. GroupInv, at the end,   *)
(* says of every group of writes that shared a record of the log where its *)
(* parts are: every piece of the database holds all of it or none of it.   *)
(***************************************************************************)
EXTENDS DBOpen, FiniteSetTheorems, SequenceTheorems, WellFoundedInduction, TLAPS

(***************************************************************************)
(* The types of the state                                                  *)
(***************************************************************************)
Entry == (Nat \ {0}) \X Nat
File == Nat \X {0, 1}
EditType == [add : SUBSET File, del : SUBSET File, log : Nat, next : Nat, seq : Nat]
FileType(R) == [recs : Seq(R), synced : Nat, tear : 0..2]
FileOK(f, R) == f \in FileType(R) /\ f.synced <= Len(f.recs)

InQueue == {"queued", "head", "roomwait", "append", "sync", "insert", "finish"}
Writing == {"append", "sync", "insert", "finish"}
ClType == [pc : InQueue \cup {"idle", "return", "flushing", "flushwait", "manual", "manwait"},
           sync : BOOLEAN, id : Nat, st : {"none", "ok", "err", "syncerr", "done"},
           n : Nat, slept : BOOLEAN, man : BOOLEAN]
RdType == [pc : {"idle", "mem", "tables", "found"}, snap : Nat, mem : Nat, imm : Nat,
           ver : SUBSET File, found : SUBSET (Nat \X Nat)]
CompType == [inputs : SUBSET File, out : Nat, man : BOOLEAN]
BgType == [pc : {"none", "build", "manifest", "install", "refused", "compact", "segfault"}, num : Nat,
           kind : {"none", "flush", "move", "compact"}, edit : EditType, comp : CompType]
VsType == [ver : SUBSET File, log : Nat, next : Nat, mani : Nat, seq : Nat, seek : BOOLEAN]
RcType == [stage : {"none", "read", "logs", "apply", "current", "clean", "convert", "point"},
           todo : SUBSET Nat, add : SUBSET File, reuse : BOOLEAN, save : BOOLEAN, next : Nat]
(* The groups that were logged, and the life, have their types in GroupInv.*)
HistType == [next : Nat \ {0}, compacts : Nat, reads : Nat, life : {hist.life}, logged : {hist.logged},
             applied : SUBSET (Nat \X Nat), promised : SUBSET Nat, damaged : BOOLEAN, rootless : BOOLEAN]

TypeLogs == \A n \in DOMAIN logs : n \in Nat \ {0} /\ FileOK(logs[n], SUBSET Entry)
TypeTables == \A n \in DOMAIN tables : n \in Nat /\ tables[n] \subseteq Nat \X Nat
TypeManis == /\ current \in Nat
             /\ \A n \in DOMAIN manis : n \in Nat /\ FileOK(manis[n], EditType)
TypeCl == cl \in [Writers -> ClType] /\ \A c \in Writers : cl[c].sync => cl[c].id # 0
TypeRd == rd \in [Readers -> RdType]
TypeMems == /\ mem \in Nat /\ imm \in Nat
            /\ \A n \in DOMAIN mems : n \in Nat \ {0} /\ mems[n] \subseteq Entry
TypeVs == vs \in VsType
TypeHist == hist \in HistType
TypeBg == bg \in BgType /\ pending \subseteq Nat
TypeRc == rc \in RcType /\ up \in {"closed", "opening", "repairing", "open", "closing"}
TypeFlags == {err, sched, shut} \subseteq BOOLEAN /\ manual \in Writers \cup {NoClient}

Typed == /\ TypeLogs /\ TypeTables /\ TypeManis /\ TypeCl /\ TypeRd /\ TypeMems /\ TypeVs
         /\ TypeHist /\ TypeBg /\ TypeRc /\ TypeFlags /\ plan \in Plans

(* The database object exists, or an Open has read the manifest.           *)
Live == up \in {"open", "closing"}
Based == Live \/ (up = "opening" /\ rc.stage # "read")

(* The stages of an Open and of a repair.                                  *)
Stages ==
  /\ up = "opening" <=> rc.stage \in {"read", "logs", "apply", "current", "clean"}
  /\ up = "repairing" <=> rc.stage \in {"convert", "point"}
  /\ up = "opening" => rc.reuse = plan.reuse
  /\ rc.stage = "read" => rc.add = {}
  /\ rc.stage = "logs" /\ ~rc.save => rc.reuse
  /\ up \in {"closed", "open", "closing"} => rc = IdleRc

(* What is idle when: no client without a database, nothing in memory      *)
(* without a version, and only the background thread while it closes.      *)
QuietInv ==
  /\ ~Live => /\ queue = <<>> /\ cl = [c \in Writers |-> IdleCl] /\ rd = [r \in Readers |-> IdleRd]
              /\ imm = 0 /\ pending = {} /\ ~err /\ ~sched /\ ~shut /\ bg = IdleBg /\ manual = NoClient
  /\ ~Based => mem = 0 /\ mems = [n \in {} |-> {}] /\ vs = NoVs
  /\ up = "closing" => /\ queue = <<>> /\ \A c \in Writers : cl[c].pc = "idle"
                       /\ \A r \in Readers : rd[r].pc = "idle"

(* The writers' queue holds each waiting writer once, and only its front   *)
(* is past waiting; a group with a sync write has a leader that syncs.     *)
QueueInv ==
  /\ queue \in Seq(Writers)
  /\ \A i, j \in 1..Len(queue) : queue[i] = queue[j] => i = j
  /\ \A c \in Writers : cl[c].pc \in InQueue <=> \E i \in 1..Len(queue) : queue[i] = c
  /\ \A i \in 2..Len(queue) : cl[queue[i]].pc = "queued"
  /\ \A c \in Writers : cl[c].pc \in Writing =>
       /\ cl[c].n \in 1..Len(queue)
       /\ \A i \in 1..cl[c].n : cl[queue[i]].sync => cl[c].sync

(* There is a number above all that are in use.                            *)
BoundInv ==
  \E b \in Nat : /\ \A n \in DOMAIN logs : n <= b /\ \A e \in RecordsOf(n) : e[1] <= b
                 /\ \A n \in DOMAIN tables : n <= b /\ \A e \in tables[n] : e[1] <= b
                 /\ \A n \in DOMAIN mems : \A e \in mems[n] : e[1] <= b

(* The edits of a manifest name files below their next number, which grows *)
(* along the manifest and is below that in memory.                         *)
ManifestOK(recs) ==
  /\ \A i \in 1..Len(recs) : recs[i].log < recs[i].next /\ \A f \in recs[i].add : f[1] < recs[i].next
  /\ \A i, j \in 1..Len(recs) : i <= j => recs[i].next <= recs[j].next

ManiInv ==
  /\ \A m \in DOMAIN manis : ManifestOK(manis[m].recs)
  /\ Live \/ rc.stage \in {"current", "clean"} \/ (rc.stage \in {"logs", "apply"} /\ rc.reuse)
       => /\ vs.mani \in DOMAIN manis
          /\ \A i \in 1..Len(manis[vs.mani].recs) :
               /\ manis[vs.mani].recs[i].next <= vs.next
               /\ bg.pc = "manifest" => manis[vs.mani].recs[i].next <= bg.edit.next

(* No version, reader, memtable or log has a number that is still to be    *)
(* given.                                                                  *)
FreshInv ==
  Based => /\ vs.next > 0
           /\ \A f \in vs.ver : f[1] < vs.next
           /\ \A n \in DOMAIN mems : n < vs.next
           /\ \A r \in Readers : \A f \in rd[r].ver : f[1] < vs.next
           /\ \A n \in DOMAIN logs : n < vs.next \/ n \in rc.todo
           /\ \A f \in rc.add : f[1] < vs.next
           /\ mem # 0 => mem \in DOMAIN mems

(* The log in use is there, and not older than the last one that was       *)
(* flushed.                                                                *)
LogInv ==
  Based => /\ vs.log < vs.next
           /\ mem # 0 => mem \in DOMAIN logs /\ vs.log <= mem

(* A number that no version and no reader knows.                           *)
Unused(n) ==
  /\ n < vs.next /\ n \notin FilesOf(vs.ver)
  /\ \A r \in Readers : n \notin FilesOf(rd[r].ver)

(* The edit on its way to the manifest: of a flush, of a trivial move, of  *)
(* a compaction.                                                           *)
FlushEditOK ==
  /\ imm # 0 /\ bg.edit.del = {} /\ bg.edit.log = mem
  /\ \/ bg.edit.add = {} /\ mems[imm] = {}
     \/ /\ bg.edit.add \in {{<<bg.num, 0>>}, {<<bg.num, 1>>}}
        /\ bg.num \in DOMAIN tables /\ tables[bg.num] = mems[imm]
        /\ mems[imm] # {}
MoveEditOK ==
  /\ bg.edit.log = vs.log /\ bg.edit.del \subseteq vs.ver
  /\ bg.edit.add = {<<f[1], 1>> : f \in bg.edit.del}
CompactEditOK ==
  /\ bg.edit.log = vs.log /\ bg.edit.add = {<<bg.comp.out, 1>>} /\ bg.edit.del = bg.comp.inputs
  /\ bg.comp.out # 0 /\ bg.comp.out \in DOMAIN tables
  /\ tables[bg.comp.out] = TableEntries(bg.comp.inputs)

(* The background thread: its inputs are in the version, its output is     *)
(* known to nobody else and is protected from deletion, and its edit fits. *)
BgInv ==
  Live =>
    /\ mem # 0 /\ imm # mem /\ (imm # 0 => imm \in DOMAIN mems)
    /\ bg.comp.inputs \subseteq vs.ver /\ (bg.comp # NoComp => bg.comp.inputs # {})
    /\ bg.pc = "none" => bg = IdleBg
    /\ bg.comp.out # 0 => Unused(bg.comp.out) /\ bg.comp.out # bg.num /\ bg.comp.out \in pending
    /\ bg.pc \in {"build", "compact"} => bg.kind = "none"
    /\ bg.pc = "compact" => bg.num = 0 /\ bg.comp.inputs # {}
    /\ bg.pc = "build" => Unused(bg.num) /\ imm # 0
    /\ bg.pc \in {"manifest", "install", "refused"} =>
         /\ bg.edit.next <= vs.next /\ bg.edit.log < bg.edit.next
         /\ \A f \in bg.edit.add : f[1] < bg.edit.next
         /\ \/ bg.kind = "flush" /\ FlushEditOK
            \/ bg.kind = "move" /\ MoveEditOK /\ bg.comp = NoComp
            \/ bg.kind = "compact" /\ CompactEditOK /\ bg.comp.inputs # {}

(* Memtables and version hold what was applied, no more and no less.       *)
ContInv == Live => hist.applied = Contents

(* A Get that still has to search memtables or tables will find what was   *)
(* applied up to its snapshot.                                             *)
Below(es, s) == {e \in es : e[1] <= s}
ReadInv ==
  \A r \in Readers : rd[r].pc # "idle" =>
    /\ rd[r].snap <= vs.seq
    /\ rd[r].pc = "mem" => /\ {rd[r].mem, rd[r].imm} \ {0} \subseteq DOMAIN mems
                           /\ Below(UNION {mems[n] : n \in {rd[r].mem, rd[r].imm} \ {0}}, rd[r].snap)
                                \cup Below(TableEntries(rd[r].ver), rd[r].snap)
                              = Below(hist.applied, rd[r].snap)
    /\ rd[r].pc = "tables" => rd[r].found \cup Below(TableEntries(rd[r].ver), rd[r].snap)
                              = Below(hist.applied, rd[r].snap)
    /\ rd[r].pc = "found" => rd[r].found = Below(hist.applied, rd[r].snap)

(* The logs that an Open or a repair still has to read are there.          *)
RecoverInv ==
  /\ rc.stage = "convert" => /\ DOMAIN logs \subseteq rc.todo /\ rc.next > 0
                             /\ rc.todo \subseteq DOMAIN logs
                             /\ \A n \in DOMAIN logs \cup DOMAIN tables : n < rc.next
  /\ rc.stage = "logs" => \A n \in rc.todo : n \in DOMAIN logs /\ vs.log <= n
  /\ rc.stage \in {"apply", "current", "clean"} => mem # 0 /\ rc.todo = {}

(* The inductive invariant.                                                *)
Control == Typed /\ Stages /\ QuietInv /\ QueueInv
Data == /\ BoundInv /\ ManiInv /\ FreshInv /\ LogInv /\ BgInv /\ ContInv /\ ReadInv /\ RecoverInv
SnapInv == Control /\ Data

-----------------------------------------------------------------------------
(* The larger of two numbers.                                              *)
LEMMA MaxOfTwo ==
  ASSUME NEW a \in Nat, NEW b \in Nat
  PROVE  Max({a, b}) = IF a >= b THEN a ELSE b
BY DEF Max

(* A set of natural numbers that is not empty has a least element.         *)
LEMMA NatMinimum ==
  ASSUME NEW T, T \subseteq Nat, T # {}
  PROVE  \E x \in T : \A y \in T : x <= y
<1> DEFINE R == OpToRel(<, Nat)
<1>1. IsWellFoundedOn(R, Nat)
  BY NatLessThanWellFounded
<1>2. \A x, y \in Nat : x < y => <<x, y>> \in R
  BY DEF OpToRel
<1> HIDE DEF R
<1>3. PICK x \in T : \A y \in T : ~(<<y, x>> \in R)
  BY <1>1, WFMin
<1>4. \A y \in T : ~(y < x)
  BY <1>2, <1>3
<1>5. \A y \in T : y \in Nat /\ x \in Nat
  OBVIOUS
<1> QED  BY <1>4, <1>5

(* Min of such a set is one of its elements.                               *)
LEMMA MinFacts ==
  ASSUME NEW T, T \subseteq Nat, T # {}
  PROVE  Min(T) \in T
BY NatMinimum DEF Min

(* A bounded set of natural numbers has a greatest element.                *)
LEMMA MaxFacts ==
  ASSUME NEW T, T \subseteq Nat, T # {}, NEW b \in Nat, \A x \in T : x <= b
  PROVE  Max(T) \in T /\ \A x \in T : x <= Max(T)
<1> DEFINE U == {b - x : x \in T}
<1>0. \A x \in T : x \in Nat /\ b - x \in Nat
  OBVIOUS
<1>1. U \subseteq Nat /\ U # {}
  BY <1>0
<1>2. PICK u \in U : \A y \in U : u <= y
  BY <1>1, NatMinimum
<1>3. PICK z \in T : u = b - z
  BY <1>2
<1>4. \A x \in T : z >= x
  BY <1>2, <1>3
<1> QED  BY <1>3, <1>4 DEF Max

-----------------------------------------------------------------------------
(* What a file holds after a record was appended to it.                    *)
LEMMA AppendedFacts ==
  ASSUME NEW R, NEW f, FileOK(f, R), NEW rec \in R, NEW g \in Appended(f, rec)
  PROVE  /\ FileOK(g, R) /\ g.synced = f.synced
         /\ f.tear = 0 => g.tear = 0 /\ g.recs = Append(f.recs, rec)
         /\ f.tear # 0 => g.tear = 2 /\ (g.recs = f.recs \/ g.recs = Append(f.recs, rec))
<1>1. f.recs \in Seq(R) /\ f.synced \in Nat /\ f.tear \in 0..2 /\ f.synced <= Len(f.recs)
  BY DEF FileOK, FileType
<1>2. f = [recs |-> f.recs, synced |-> f.synced, tear |-> f.tear]
  BY DEF FileOK, FileType
<1>3. Append(f.recs, rec) \in Seq(R) /\ Len(Append(f.recs, rec)) = Len(f.recs) + 1
  BY <1>1
<1>4. CASE f.tear = 0
  <2>1. g = [recs |-> Append(f.recs, rec), synced |-> f.synced, tear |-> f.tear]
    BY <1>2, <1>4 DEF Appended
  <2> QED  BY <1>1, <1>3, <1>4, <2>1 DEF FileOK, FileType
<1>5. CASE f.tear # 0
  <2>1. \/ g = [recs |-> f.recs, synced |-> f.synced, tear |-> 2]
        \/ g = [recs |-> Append(f.recs, rec), synced |-> f.synced, tear |-> 2]
    BY <1>2, <1>5 DEF Appended
  <2> QED  BY <1>1, <1>3, <1>5, <2>1 DEF FileOK, FileType
<1> QED  BY <1>4, <1>5

(* A sync reaches every record that was appended.                          *)
LEMMA SyncedFacts ==
  ASSUME NEW R, NEW f, FileOK(f, R)
  PROVE  /\ FileOK(SyncedFile(f), R) /\ SyncedFile(f).synced = Len(f.recs)
         /\ SyncedFile(f).recs = f.recs /\ SyncedFile(f).tear = f.tear
BY DEF FileOK, FileType, SyncedFile

(* A failed append leaves the records, and a bad end at worst.             *)
LEMMA AppendFailedFacts ==
  ASSUME NEW R, NEW f, FileOK(f, R), NEW g \in AppendFailed(f)
  PROVE  /\ FileOK(g, R) /\ g.synced = f.synced /\ g.recs = f.recs
         /\ g.tear = 2 => f.tear = 2
<1>1. f.tear \in 0..2 /\ f.tear \in Nat
  BY DEF FileOK, FileType
<1>2. Max({f.tear, 1}) = IF f.tear >= 1 THEN f.tear ELSE 1
  BY <1>1, MaxOfTwo
<1> QED  BY <1>1, <1>2 DEF FileOK, FileType, AppendFailed

(* A new file has no records.                                              *)
LEMMA EmptyFacts ==
  ASSUME NEW R
  PROVE  FileOK(EmptyFile, R) /\ EmptyFile.recs = <<>> /\ EmptyFile.synced = 0 /\ EmptyFile.tear = 0
BY DEF FileOK, FileType, EmptyFile

(* What a crash leaves of a file.                                          *)
LEMMA SurvivorFacts ==
  ASSUME NEW R, NEW f, FileOK(f, R), NEW g \in Survivors(f)
  PROVE  /\ FileOK(g, R) /\ g.synced = f.synced /\ Len(g.recs) <= Len(f.recs)
         /\ \A i \in 1..Len(g.recs) : g.recs[i] = f.recs[i]
         /\ g.tear = 2 <=> f.tear = 2
<1>1. f.recs \in Seq(R) /\ f.synced \in Nat /\ f.tear \in 0..2 /\ f.synced <= Len(f.recs)
  BY DEF FileOK, FileType
<1>2. CASE g = f
  BY <1>1, <1>2
<1>3. ASSUME NEW n \in f.synced..(Len(f.recs) - 1), NEW t \in {0, 1},
             g = [f EXCEPT !.recs = SubSeq(@, 1, n), !.tear = Max({@, t})]
      PROVE  /\ FileOK(g, R) /\ g.synced = f.synced /\ Len(g.recs) <= Len(f.recs)
             /\ \A i \in 1..Len(g.recs) : g.recs[i] = f.recs[i]
             /\ g.tear = 2 <=> f.tear = 2
  <2>1. n \in Nat /\ n <= Len(f.recs) /\ f.synced <= n
    BY <1>1
  <2>2. /\ SubSeq(f.recs, 1, n) \in Seq(R) /\ Len(SubSeq(f.recs, 1, n)) = n
        /\ \A i \in 1..n : SubSeq(f.recs, 1, n)[i] = f.recs[i]
    BY <1>1, <2>1, SubSeqProperties
  <2>3. Max({f.tear, t}) = IF f.tear >= t THEN f.tear ELSE t
    BY <1>1, MaxOfTwo
  <2> DEFINE q == SubSeq(f.recs, 1, n)
             u == Max({f.tear, t})
  <2>5. f = [recs |-> f.recs, synced |-> f.synced, tear |-> f.tear]
    BY DEF FileOK, FileType
  <2>6. g = [recs |-> q, synced |-> f.synced, tear |-> u]
    BY <1>3, <2>5
  <2>7. q \in Seq(R) /\ u \in 0..2
    BY <1>1, <2>2, <2>3
  <2> HIDE DEF q, u
  <2>4. g.recs = q /\ g.synced = f.synced /\ g.tear = u /\ g \in FileType(R)
    BY <1>1, <2>6, <2>7 DEF FileType
  <2> QED  BY <1>1, <2>1, <2>2, <2>3, <2>4 DEF FileOK, q, u
<1> QED  BY <1>2, <1>3 DEF Survivors

-----------------------------------------------------------------------------
(* The writer that is past waiting is the front of the queue.              *)
LEMMA FrontFacts ==
  ASSUME QueueInv, NEW c \in Writers, cl[c].pc \in InQueue \ {"queued"}
  PROVE  /\ Len(queue) \in Nat \ {0} /\ queue[1] = c
         /\ \A i \in 2..Len(queue) : queue[i] # c
<1>1. PICK i \in 1..Len(queue) : queue[i] = c
  BY DEF QueueInv
<1>2. Len(queue) \in Nat
  BY DEF QueueInv
<1>3. i = 1
  BY <1>1, <1>2 DEF QueueInv
<1> QED  BY <1>1, <1>2, <1>3 DEF QueueInv

(* A step that leaves the queue, and who is in it, alone.                  *)
LEMMA QueueKept ==
  ASSUME TypeCl, QueueInv, queue' = queue,
         \A c \in Writers : cl'[c].pc \in InQueue <=> cl[c].pc \in InQueue,
         \A c \in Writers : cl[c].pc = "queued" => cl'[c].pc = "queued",
         \A c \in Writers : cl[c].pc \in InQueue => cl'[c].sync = cl[c].sync,
         \A c \in Writers : cl'[c].pc \in Writing =>
            \/ cl[c].pc \in Writing /\ cl'[c].n = cl[c].n
            \/ cl'[c].n \in 1..Len(queue) /\ \A i \in 1..cl'[c].n : cl[queue[i]].sync => cl[c].sync
  PROVE  QueueInv'
<1>1. Len(queue) \in Nat /\ \A i \in 1..Len(queue) : queue[i] \in Writers
  BY DEF QueueInv
<1>2. \A i \in 1..Len(queue) : cl'[queue[i]].sync = cl[queue[i]].sync
  BY <1>1 DEF QueueInv
<1>3. Writing \subseteq InQueue
  BY DEF Writing, InQueue
<1>4. \A c \in Writers : cl'[c].pc \in Writing =>
         /\ cl'[c].n \in 1..Len(queue)
         /\ \A i \in 1..cl'[c].n : cl'[queue[i]].sync => cl'[c].sync
  BY <1>1, <1>2, <1>3 DEF QueueInv
<1>5. \A c \in Writers : cl'[c].pc \in InQueue <=> \E i \in 1..Len(queue) : queue[i] = c
  BY DEF QueueInv
<1>6. \A i \in 2..Len(queue) : cl'[queue[i]].pc = "queued"
  BY <1>1 DEF QueueInv
<1> QED  BY <1>4, <1>5, <1>6 DEF QueueInv

(* The effect of SignalAll on the threads.                                 *)
LEMMA SignalFacts ==
  ASSUME NEW f \in [Writers -> ClType]
  PROVE  /\ SignalAll(f) \in [Writers -> ClType]
         /\ \A c \in Writers :
              /\ SignalAll(f)[c].sync = f[c].sync /\ SignalAll(f)[c].id = f[c].id
              /\ SignalAll(f)[c].n = f[c].n /\ SignalAll(f)[c].st = f[c].st
              /\ \/ SignalAll(f)[c].pc = f[c].pc
                 \/ f[c].pc = "roomwait" /\ SignalAll(f)[c].pc = "head"
                 \/ f[c].pc = "flushwait" /\ SignalAll(f)[c].pc = "flushing"
                 \/ f[c].pc = "manwait" /\ SignalAll(f)[c].pc = "manual"
BY DEF SignalAll, ClType, InQueue

(* The threads are woken.                                                  *)
LEMMA Signalled ==
  ASSUME TypeCl, QueueInv, queue' = queue, NEW f \in [Writers -> ClType], cl' = SignalAll(f),
         \A c \in Writers : /\ f[c].pc = cl[c].pc /\ f[c].sync = cl[c].sync /\ f[c].id = cl[c].id
                            /\ f[c].n = cl[c].n /\ f[c].st \in {cl[c].st, "done"}
  PROVE  /\ TypeCl' /\ QueueInv'
         /\ \A c \in Writers : /\ cl'[c].sync = cl[c].sync /\ cl'[c].id = cl[c].id /\ cl'[c].n = cl[c].n
                               /\ cl'[c].st \in {cl[c].st, "done"}
                               /\ cl[c].pc \notin {"roomwait", "flushwait", "manwait"} => cl'[c].pc = cl[c].pc
                               /\ cl'[c].pc \notin {"head", "flushing", "manual"} => cl'[c].pc = cl[c].pc
<1>1. \A c \in Writers :
        /\ cl'[c].sync = f[c].sync /\ cl'[c].id = f[c].id /\ cl'[c].n = f[c].n /\ cl'[c].st = f[c].st
        /\ \/ cl'[c].pc = f[c].pc
           \/ f[c].pc = "roomwait" /\ cl'[c].pc = "head"
           \/ f[c].pc = "flushwait" /\ cl'[c].pc = "flushing"
           \/ f[c].pc = "manwait" /\ cl'[c].pc = "manual"
  BY SignalFacts
<1>2. \A c \in Writers :
         /\ cl'[c].sync = cl[c].sync /\ cl'[c].id = cl[c].id /\ cl'[c].n = cl[c].n
         /\ cl'[c].st \in {cl[c].st, "done"}
         /\ \/ cl'[c].pc = cl[c].pc
            \/ cl[c].pc = "roomwait" /\ cl'[c].pc = "head"
            \/ cl[c].pc = "flushwait" /\ cl'[c].pc = "flushing"
            \/ cl[c].pc = "manwait" /\ cl'[c].pc = "manual"
  BY <1>1
<1>3. TypeCl'
  BY <1>2, SignalFacts DEF TypeCl
<1>4. QueueInv'
  <2>1. \A c \in Writers : cl'[c].pc \in InQueue <=> cl[c].pc \in InQueue
    BY <1>2 DEF InQueue
  <2>2. \A c \in Writers : cl'[c].pc \in Writing => cl[c].pc \in Writing /\ cl'[c].n = cl[c].n
    BY <1>2 DEF Writing
  <2> QED  BY <1>2, <2>1, <2>2, QueueKept
<1> QED  BY <1>2, <1>3, <1>4

(* The front group leaves the queue and the next writer is woken.          *)
LEMMA Popped ==
  ASSUME TypeCl, QueueInv, NEW n \in 1..Len(queue), NEW st \in {"ok", "err"},
         queue' = SubSeq(queue, n + 1, Len(queue)),
         cl' = PopGroup(cl, n, st) \/ cl' = SignalAll(PopGroup(cl, n, st))
  PROVE  /\ TypeCl' /\ QueueInv'
         /\ \A c \in Writers : /\ cl'[c].sync = cl[c].sync /\ cl'[c].id = cl[c].id
                               /\ cl'[c].pc \notin Writing
                               /\ cl'[c].pc = "return" => \/ cl[c].pc = "return" /\ cl'[c].st = cl[c].st
                                                          \/ cl'[c].st = st /\ \E i \in 1..n : queue[i] = c
<1> DEFINE g == PopGroup(cl, n, st)
           In(c) == \E i \in 1..n : queue[i] = c
           Nx(c) == n < Len(queue) /\ queue[n + 1] = c
<1>1. Len(queue) \in Nat /\ n \in Nat /\ \A i \in 1..Len(queue) : queue[i] \in Writers
  BY DEF QueueInv
<1>2. /\ queue' \in Seq(Writers) /\ Len(queue') = Len(queue) - n
      /\ \A i \in 1..(Len(queue) - n) : queue'[i] = queue[n + i]
  <2>1. \A i \in (n + 1)..Len(queue) : queue[i] \in Writers
    BY <1>1
  <2>2. n + 1 \in Int /\ Len(queue) \in Int
    BY <1>1
  <2>3. /\ SubSeq(queue, n + 1, Len(queue)) \in Seq(Writers)
        /\ Len(SubSeq(queue, n + 1, Len(queue))) =
             IF n + 1 <= Len(queue) THEN Len(queue) - (n + 1) + 1 ELSE 0
        /\ \A i \in 1..(Len(queue) - (n + 1) + 1) :
             SubSeq(queue, n + 1, Len(queue))[i] = queue[(n + 1) + i - 1]
    BY <2>1, <2>2, SubSeqProperties
  <2> QED  BY <1>1, <2>3
<1>3. \A c \in Writers : /\ In(c) <=> c \in {queue[i] : i \in 1..n}
                         /\ Nx(c) <=> c \in (IF Len(queue) > n THEN {queue[n + 1]} ELSE {})
                         /\ ~(In(c) /\ Nx(c))
  <2>1. \A c \in Writers : In(c) <=> c \in {queue[i] : i \in 1..n}
    OBVIOUS
  <2>2. \A c \in Writers : Nx(c) <=> c \in (IF Len(queue) > n THEN {queue[n + 1]} ELSE {})
    BY <1>1
  <2>3. \A c \in Writers : ~(In(c) /\ Nx(c))
    BY <1>1, SMTT(30) DEF QueueInv
  <2> QED  BY <2>1, <2>2, <2>3
<1> HIDE DEF In, Nx
<1>4. g = [c \in Writers |-> IF In(c) THEN [cl[c] EXCEPT !.pc = "return", !.st = st]
                             ELSE IF Nx(c) THEN [cl[c] EXCEPT !.pc = "head"] ELSE cl[c]]
  BY <1>3 DEF PopGroup
<1> HIDE DEF g
<1>5. /\ g \in [Writers -> ClType]
      /\ \A c \in Writers : /\ g[c].sync = cl[c].sync /\ g[c].id = cl[c].id
                            /\ In(c) => g[c].pc = "return" /\ g[c].st = st
                            /\ ~In(c) /\ Nx(c) => g[c].pc = "head" /\ g[c].st = cl[c].st
                            /\ ~In(c) /\ ~Nx(c) => g[c].pc = cl[c].pc /\ g[c].st = cl[c].st
  BY <1>4, ZenonT(30) DEF TypeCl, ClType, InQueue
<1>6. /\ cl' \in [Writers -> ClType]
      /\ \A c \in Writers : /\ cl'[c].sync = g[c].sync /\ cl'[c].id = g[c].id /\ cl'[c].st = g[c].st
                            /\ \/ cl'[c].pc = g[c].pc
                               \/ g[c].pc = "roomwait" /\ cl'[c].pc = "head"
                               \/ g[c].pc = "flushwait" /\ cl'[c].pc = "flushing"
                               \/ g[c].pc = "manwait" /\ cl'[c].pc = "manual"
  <2>1. CASE cl' = g
    BY <1>5, <2>1
  <2>2. CASE cl' = SignalAll(g)
    BY <1>5, <2>2, SignalFacts
  <2> QED  BY <2>1, <2>2 DEF g
<1> USE DEF In, Nx
<1>8. TypeCl'
  BY <1>5, <1>6 DEF TypeCl
<1>9. \A c \in Writers : (\E i \in 1..Len(queue) : queue[i] = c) /\ ~In(c) /\ ~Nx(c) => cl[c].pc = "queued"
  BY <1>1 DEF QueueInv
<1>10. \A c \in Writers : cl'[c].pc \in InQueue <=> \E i \in (n + 1)..Len(queue) : queue[i] = c
  <2> SUFFICES ASSUME NEW c \in Writers
               PROVE  cl'[c].pc \in InQueue <=> \E i \in (n + 1)..Len(queue) : queue[i] = c
    OBVIOUS
  <2>1. CASE In(c)
    <3>1. ~\E i \in (n + 1)..Len(queue) : queue[i] = c
      BY <1>1, <2>1 DEF QueueInv
    <3>2. cl'[c].pc = "return"
      BY <1>5, <1>6, <2>1
    <3> QED  BY <3>1, <3>2 DEF InQueue
  <2>2. CASE ~In(c) /\ Nx(c)
    <3>1. cl'[c].pc = "head"
      BY <1>5, <1>6, <2>2
    <3>2. n + 1 \in (n + 1)..Len(queue)
      BY <1>1, <2>2
    <3> QED  BY <2>2, <3>1, <3>2 DEF InQueue
  <2>3. CASE ~In(c) /\ ~Nx(c)
    <3>1. (\E i \in (n + 1)..Len(queue) : queue[i] = c) <=> \E i \in 1..Len(queue) : queue[i] = c
      BY <1>1, <2>3
    <3>2. (\E i \in 1..Len(queue) : queue[i] = c) <=> cl[c].pc \in InQueue
      BY DEF QueueInv
    <3>3. cl[c].pc \in InQueue <=> cl'[c].pc \in InQueue
      BY <1>5, <1>6, <2>3 DEF InQueue
    <3> QED  BY <3>1, <3>2, <3>3
  <2> QED  BY <2>1, <2>2, <2>3
<1>11. \A c \in Writers : cl'[c].pc \notin Writing
  <2> SUFFICES ASSUME NEW c \in Writers, cl'[c].pc \in Writing  PROVE FALSE
    OBVIOUS
  <2>1. cl'[c].pc = g[c].pc
    BY <1>6 DEF Writing
  <2>2. ~In(c) /\ ~Nx(c) /\ cl[c].pc \in Writing
    BY <1>5, <2>1 DEF Writing
  <2>3. cl[c].pc \in InQueue \ {"queued"}
    BY <2>2 DEF Writing, InQueue
  <2>4. queue[1] = c
    BY <2>3, FrontFacts
  <2> QED  BY <1>1, <2>2, <2>4
<1>12. \A i, j \in 1..Len(queue') : queue'[i] = queue'[j] => i = j
  <2> SUFFICES ASSUME NEW i \in 1..Len(queue'), NEW j \in 1..Len(queue'), queue'[i] = queue'[j]
               PROVE  i = j
    OBVIOUS
  <2>1. n + i \in 1..Len(queue) /\ n + j \in 1..Len(queue) /\ queue[n + i] = queue[n + j]
    BY <1>1, <1>2
  <2>2. n + i = n + j
    BY <2>1 DEF QueueInv
  <2> QED  BY <1>1, <1>2, <2>2
<1>13. \A i \in 2..Len(queue') : cl'[queue'[i]].pc = "queued"
  <2> SUFFICES ASSUME NEW i \in 2..Len(queue')  PROVE cl'[queue'[i]].pc = "queued"
    OBVIOUS
  <2>1. n + i \in 2..Len(queue) /\ queue'[i] = queue[n + i] /\ queue[n + i] \in Writers
    BY <1>1, <1>2
  <2>2. ~In(queue[n + i]) /\ ~Nx(queue[n + i])
    BY <1>1, <1>2, <2>1 DEF QueueInv
  <2>3. cl[queue[n + i]].pc = "queued"
    BY <2>1 DEF QueueInv
  <2>4. g[queue[n + i]].pc = "queued"
    BY <1>5, <2>1, <2>2, <2>3
  <2> QED  BY <1>6, <2>1, <2>4
<1>14. \A c \in Writers : (\E i \in (n + 1)..Len(queue) : queue[i] = c)
                             <=> \E i \in 1..Len(queue') : queue'[i] = c
  <2> SUFFICES ASSUME NEW c \in Writers
               PROVE  (\E i \in (n + 1)..Len(queue) : queue[i] = c)
                         <=> \E i \in 1..Len(queue') : queue'[i] = c
    OBVIOUS
  <2>1. ASSUME NEW i \in (n + 1)..Len(queue), queue[i] = c
        PROVE  i - n \in 1..Len(queue') /\ queue'[i - n] = c
    BY <1>1, <1>2, <2>1
  <2>2. ASSUME NEW i \in 1..Len(queue'), queue'[i] = c
        PROVE  n + i \in (n + 1)..Len(queue) /\ queue[n + i] = c
    BY <1>1, <1>2, <2>2
  <2> QED  BY <2>1, <2>2
<1>15. QueueInv'
  BY <1>2, <1>10, <1>11, <1>12, <1>13, <1>14 DEF QueueInv
<1>16. ASSUME NEW c \in Writers
       PROVE  /\ cl'[c].sync = cl[c].sync /\ cl'[c].id = cl[c].id
              /\ cl'[c].pc = "return" => \/ cl[c].pc = "return" /\ cl'[c].st = cl[c].st
                                         \/ cl'[c].st = st /\ In(c)
  <2> HIDE DEF In, Nx
  <2> QED  BY <1>5, <1>6
<1> QED  BY <1>8, <1>11, <1>15, <1>16

(* The group of the front writer: it ends inside the queue, and nobody in  *)
(* it asked for a sync that the front does not make.                       *)
LEMMA GroupFacts ==
  ASSUME TypeCl, QueueInv, NEW c \in Writers, cl[c].pc \in InQueue \ {"queued"}
  PROVE  /\ BuildBatchGroup(c) \in 1..Len(queue)
         /\ \A i \in 1..BuildBatchGroup(c) : cl[queue[i]].sync => cl[c].sync
<1> DEFINE Allowed(n) ==
        /\ \A i \in 2..n : cl[queue[i]].sync => cl[c].sync
        /\ \A m \in 2..n : Cardinality({i \in 1..m : cl[queue[i]].id # 0}) <= GroupLimit
           G == {n \in 1..Len(queue) : Allowed(n)}
<1>1. Len(queue) \in Nat \ {0} /\ queue[1] = c
  BY FrontFacts
<1>2. 1 \in G /\ G \subseteq Nat /\ \A n \in G : n <= Len(queue)
  BY <1>1
<1>3. BuildBatchGroup(c) = Max(G)
  BY DEF BuildBatchGroup
<1>4. Max(G) \in G
  <2> HIDE DEF G
  <2> QED  BY <1>1, <1>2, MaxFacts
<1>5. BuildBatchGroup(c) \in 1..Len(queue) /\ Allowed(BuildBatchGroup(c))
  BY <1>3, <1>4
<1> HIDE DEF G
<1> QED  BY <1>1, <1>5

(* A thread enters the queue.                                              *)
LEMMA Enqueued ==
  ASSUME TypeCl, QueueInv, NEW c \in Writers, NEW sync \in BOOLEAN, NEW id \in Nat, NEW man \in BOOLEAN,
         sync => id # 0, Enqueue(c, sync, id, man)
  PROVE  TypeCl' /\ QueueInv' /\ cl'[c].pc \in {"head", "queued"} /\ \A w \in Writers \ {c} : cl'[w] = cl[w]
<1> DEFINE p == IF queue = <<>> THEN "head" ELSE "queued"
           x == [IdleCl EXCEPT !.pc = p, !.sync = sync, !.id = id, !.man = man]
<1>1. cl' = [cl EXCEPT ![c] = x] /\ queue' = Append(queue, c) /\ cl[c].pc = "idle"
  BY DEF Enqueue
<1>2. x \in ClType /\ x.pc = p /\ x.sync = sync /\ x.id = id /\ p \in {"head", "queued"}
  <2>1. p \in {"head", "queued"}
    OBVIOUS
  <2> HIDE DEF p
  <2> QED  BY <2>1 DEF IdleCl, ClType, InQueue
<1>p. queue = <<>> \/ p = "queued"
  OBVIOUS
<1> HIDE DEF x, p
<1>3. cl'[c] = x /\ cl' \in [Writers -> ClType] /\ \A w \in Writers \ {c} : cl'[w] = cl[w]
  BY <1>1, <1>2 DEF TypeCl
<1>4. TypeCl'
  BY <1>2, <1>3 DEF TypeCl
<1>5. /\ queue' \in Seq(Writers) /\ Len(queue') = Len(queue) + 1 /\ Len(queue) \in Nat
      /\ \A i \in 1..Len(queue) : queue'[i] = queue[i] /\ queue[i] \in Writers
      /\ queue'[Len(queue) + 1] = c
  BY <1>1 DEF QueueInv
<1>6. \A i \in 1..Len(queue) : queue[i] # c
  BY <1>1 DEF QueueInv, InQueue
<1>7. \A i, j \in 1..Len(queue') : queue'[i] = queue'[j] => i = j
  BY <1>5, <1>6 DEF QueueInv
<1>8. \A w \in Writers : cl'[w].pc \in InQueue <=> \E i \in 1..Len(queue') : queue'[i] = w
  <2>1. cl'[c].pc \in InQueue /\ \E i \in 1..Len(queue') : queue'[i] = c
    BY <1>2, <1>3, <1>5 DEF InQueue
  <2>2. ASSUME NEW w \in Writers \ {c}
        PROVE  (\E i \in 1..Len(queue') : queue'[i] = w) <=> \E i \in 1..Len(queue) : queue[i] = w
    BY <1>5
  <2>3. \A w \in Writers \ {c} : cl'[w].pc \in InQueue <=> \E i \in 1..Len(queue) : queue[i] = w
    BY <1>3 DEF QueueInv
  <2> QED  BY <2>1, <2>2, <2>3
<1>9. \A i \in 2..Len(queue') : cl'[queue'[i]].pc = "queued"
  <2> SUFFICES ASSUME NEW i \in 2..Len(queue')  PROVE cl'[queue'[i]].pc = "queued"
    OBVIOUS
  <2>1. CASE i = Len(queue) + 1
    BY <1>p, <1>2, <1>3, <1>5, <2>1
  <2>2. CASE i \in 2..Len(queue)
    BY <1>3, <1>5, <1>6, <2>2 DEF QueueInv
  <2> QED  BY <1>5, <2>1, <2>2
<1>10. \A w \in Writers : cl'[w].pc \in Writing =>
         /\ cl'[w].n \in 1..Len(queue')
         /\ \A i \in 1..cl'[w].n : cl'[queue'[i]].sync => cl'[w].sync
  <2> SUFFICES ASSUME NEW w \in Writers, cl'[w].pc \in Writing
               PROVE  /\ cl'[w].n \in 1..Len(queue')
                      /\ \A i \in 1..cl'[w].n : cl'[queue'[i]].sync => cl'[w].sync
    OBVIOUS
  <2>1. w # c
    BY <1>2, <1>3 DEF Writing
  <2>2. cl'[w] = cl[w] /\ cl[w].n \in 1..Len(queue) /\ \A i \in 1..cl[w].n : cl[queue[i]].sync => cl[w].sync
    BY <1>3, <2>1 DEF QueueInv
  <2>3. \A i \in 1..cl[w].n : cl'[queue'[i]] = cl[queue[i]]
    BY <1>3, <1>5, <1>6, <2>2
  <2> QED  BY <1>5, <2>2, <2>3
<1>11. QueueInv'
  BY <1>5, <1>7, <1>8, <1>9, <1>10 DEF QueueInv
<1> QED  BY <1>2, <1>3, <1>4, <1>11

(* The front goes on to the log, or leaves at once with an empty batch.    *)
LEMMA RoomFound ==
  ASSUME TypeCl, QueueInv, NEW c \in Writers, AtHead(c), HasRoom(c, cl)
  PROVE  TypeCl' /\ QueueInv'
<1>1. cl[c].pc \in InQueue \ {"queued"} /\ cl[c].pc = "head"
  BY DEF AtHead, InQueue
<1>2. Len(queue) \in Nat \ {0} /\ queue[1] = c
  BY <1>1, FrontFacts
<1>3. CASE cl[c].id = 0
  <2>1. 1 \in 1..Len(queue)
    BY <1>2
  <2>2. queue' = SubSeq(queue, 1 + 1, Len(queue)) /\ cl' = PopGroup(cl, 1, "ok")
    BY <1>3 DEF HasRoom
  <2> QED  BY <2>1, <2>2, Popped
<1>4. CASE cl[c].id # 0
  <2>1. BuildBatchGroup(c) \in 1..Len(queue) /\ \A i \in 1..BuildBatchGroup(c) : cl[queue[i]].sync => cl[c].sync
    BY <1>1, GroupFacts
  <2>2. cl' = [cl EXCEPT ![c].pc = "append", ![c].n = BuildBatchGroup(c)] /\ queue' = queue
    BY <1>4 DEF HasRoom
  <2> DEFINE b == BuildBatchGroup(c)
  <2>3. b \in Nat /\ cl' = [cl EXCEPT ![c].pc = "append", ![c].n = b]
    BY <1>2, <2>1, <2>2
  <2> HIDE DEF b
  <2>4. /\ cl' \in [Writers -> ClType] /\ \A w \in Writers \ {c} : cl'[w] = cl[w]
        /\ cl'[c].pc = "append" /\ cl'[c].n = b /\ cl'[c].sync = cl[c].sync /\ cl'[c].id = cl[c].id
    BY <2>3, ZenonT(30) DEF TypeCl, ClType, InQueue
  <2>5. TypeCl'
    BY <2>4 DEF TypeCl
  <2>6. QueueInv'
    <3>1. \A w \in Writers : cl'[w].pc \in InQueue <=> cl[w].pc \in InQueue
      BY <1>1, <2>4 DEF InQueue
    <3>2. \A w \in Writers : cl[w].pc = "queued" => cl'[w].pc = "queued"
      BY <1>1, <2>4
    <3>3. \A w \in Writers : cl'[w].sync = cl[w].sync
      BY <2>4
    <3>4. \A w \in Writers : cl'[w].pc \in Writing =>
            \/ cl[w].pc \in Writing /\ cl'[w].n = cl[w].n
            \/ cl'[w].n \in 1..Len(queue) /\ \A i \in 1..cl'[w].n : cl[queue[i]].sync => cl[w].sync
      BY <2>1, <2>4 DEF b
    <3> QED  BY <2>2, <3>1, <3>2, <3>3, <3>4, QueueKept
  <2> QED  BY <2>5, <2>6
<1> QED  BY <1>3, <1>4

(* A thread goes from one place to another without touching the queue.     *)
LEMMA Moved ==
  ASSUME TypeCl, QueueInv, NEW c \in Writers, queue' = queue,
         cl' \in [Writers -> ClType], \A w \in Writers \ {c} : cl'[w] = cl[w],
         cl'[c].sync => cl'[c].id # 0,
         cl'[c].pc \in InQueue <=> cl[c].pc \in InQueue, cl[c].pc # "queued",
         cl[c].pc \in InQueue => cl'[c].sync = cl[c].sync,
         cl'[c].pc \in Writing => cl[c].pc \in Writing /\ cl'[c].n = cl[c].n
  PROVE  TypeCl' /\ QueueInv'
<1>1. TypeCl'
  BY DEF TypeCl
<1>2. \A w \in Writers : cl'[w].pc \in InQueue <=> cl[w].pc \in InQueue
  OBVIOUS
<1>3. \A w \in Writers : cl[w].pc = "queued" => cl'[w].pc = "queued"
  OBVIOUS
<1>4. \A w \in Writers : cl[w].pc \in InQueue => cl'[w].sync = cl[w].sync
  OBVIOUS
<1>5. \A w \in Writers : cl'[w].pc \in Writing => cl[w].pc \in Writing /\ cl'[w].n = cl[w].n
  OBVIOUS
<1>6. QueueInv'
  BY <1>2, <1>3, <1>4, <1>5, QueueKept
<1> QED  BY <1>1, <1>6

-----------------------------------------------------------------------------
(* A step of a writer that concerns only the queue, the threads and the    *)
(* sequence number.                                                        *)
ClientFrame ==
  /\ UNCHANGED <<logs, tables, manis, current, up, rd, mem, imm, mems, pending, shut, bg, rc, plan>>
  /\ vs' \in VsType /\ vs'.ver = vs.ver /\ vs'.log = vs.log /\ vs'.next = vs.next /\ vs'.mani = vs.mani
  /\ vs'.seq >= vs.seq
  /\ TypeHist' /\ hist'.applied = hist.applied /\ hist'.damaged = hist.damaged /\ hist'.rootless = hist.rootless
  /\ TypeFlags' /\ (err => err')

(* What such a step leaves as it was.                                      *)
LEMMA ClientKeepsData ==
  ASSUME Typed, Data, ClientFrame
  PROVE  Data'
<1>1. BoundInv'
  BY DEF Data, BoundInv, RecordsOf, ClientFrame
<1>2. ManiInv'
  BY DEF Data, ManiInv, ManifestOK, ClientFrame, Live
<1>3. FreshInv'
  BY DEF Data, FreshInv, ClientFrame, Based, Live
<1>4. BgInv'
  BY DEF Data, BgInv, ClientFrame, Live, Unused, FlushEditOK, MoveEditOK, CompactEditOK, FilesOf, TableEntries
<1>5. ContInv'
  BY DEF Data, ContInv, ClientFrame, Live, Contents, TableEntries, FilesOf
<1>6. ReadInv'
  BY DEF Data, ReadInv, ClientFrame, TableEntries, FilesOf, Below, Typed, TypeVs, VsType, TypeRd, RdType
<1>7. RecoverInv' /\ LogInv'
  BY DEF Data, RecoverInv, LogInv, ClientFrame, Based, Live
<1> QED  BY <1>1, <1>2, <1>3, <1>4, <1>5, <1>6, <1>7 DEF Data

(* Only an open database has threads at work.                              *)
LEMMA BusyWriter ==
  ASSUME Control, NEW c \in Writers, cl[c].pc # "idle"
  PROVE  up = "open"
BY DEF Control, Typed, TypeRc, QuietInv, Live, IdleCl

(* A Get runs only while the database is open.                             *)
LEMMA BusyReader ==
  ASSUME Control, NEW r \in Readers, rd[r].pc # "idle"
  PROVE  up = "open"
BY DEF Control, Typed, TypeRc, QuietInv, Live, IdleRd

(* A client's step that leaves files, memtables and version alone keeps    *)
(* everything but its own part.                                            *)
LEMMA ClientDone ==
  ASSUME Control, Data, up = "open", ClientFrame, TypeCl', QueueInv'
  PROVE  Control' /\ Data'
<1>1. Data'
  BY ClientKeepsData DEF Control
<1>2. Typed'
  BY DEF Control, Typed, TypeLogs, TypeTables, TypeManis, TypeRd, TypeMems, TypeVs, TypeBg, TypeRc, ClientFrame
<1>3. Stages' /\ QuietInv'
  BY DEF Control, Stages, QuietInv, ClientFrame, Live, Based
<1> QED  BY <1>1, <1>2, <1>3 DEF Control

(* The steps of a writer, up to its return, that write no file and no      *)
(* memtable.                                                               *)
LEMMA WriteStep ==
  ASSUME Control, Data, NEW c \in Writers, Write(c) \/ CompactRange(c), Running
  PROVE  Control' /\ Data'
<1>0. TypeCl /\ QueueInv /\ hist \in HistType /\ hist.next \in Nat \ {0} /\ plan \in Plans
  BY DEF Control, Typed, TypeHist, HistType
<1>1. PICK sync \in BOOLEAN, id \in Nat, man \in BOOLEAN : Enqueue(c, sync, id, man) /\ (sync => id # 0)
  BY <1>0, LimitAssumption DEF Write, CompactRange
<1>2. TypeCl' /\ QueueInv'
  BY <1>0, <1>1, Enqueued
<1>3. up = "open"
  BY <1>1 DEF Enqueue
<1>4. hist' = [hist EXCEPT !.compacts = @ + 1] \/ hist' = [hist EXCEPT !.next = @ + 1]
  BY <1>1 DEF Enqueue
<1>5. TypeHist' /\ hist'.applied = hist.applied /\ hist'.damaged = hist.damaged /\ hist'.rootless = hist.rootless
  BY <1>0, <1>4 DEF TypeHist, HistType
<1>6. ClientFrame
  BY <1>1, <1>5 DEF Enqueue, ClientFrame, Running, disk, memtables, flags, Control, Typed, TypeVs, VsType, TypeFlags
<1> QED  BY <1>2, <1>3, <1>6, ClientDone

(* MakeRoomForWrite gives up: background error, or no new log.             *)
LEMMA RoomFailStep ==
  ASSUME Control, Data, NEW c \in Writers, RoomError(c) \/ RoomNoLog(c), Running
  PROVE  Control' /\ Data'
<1>0. TypeCl /\ QueueInv
  BY DEF Control, Typed
<1>1. cl[c].pc \in InQueue \ {"queued"} /\ cl[c].pc # "idle"
  BY DEF RoomError, RoomNoLog, AtHead, InQueue
<1>2. 1 \in 1..Len(queue)
  BY <1>0, <1>1, FrontFacts
<1>3. queue' = SubSeq(queue, 1 + 1, Len(queue)) /\ cl' = PopGroup(cl, 1, "err")
  BY DEF RoomError, RoomNoLog
<1>4. TypeCl' /\ QueueInv'
  BY <1>0, <1>2, <1>3, Popped
<1>5. ClientFrame
  BY SMTT(30) DEF RoomError, RoomNoLog, ClientFrame, Running, disk, memtables, flags, Control, Typed, TypeHist, HistType,
        TypeVs, VsType, TypeFlags
<1> QED  BY <1>1, <1>4, <1>5, BusyWriter, ClientDone

(* MakeRoomForWrite finds room.                                            *)
LEMMA RoomReadyStep ==
  ASSUME Control, Data, NEW c \in Writers, RoomReady(c), Running
  PROVE  Control' /\ Data'
<1>0. TypeCl /\ QueueInv
  BY DEF Control, Typed
<1>1. cl[c].pc # "idle" /\ AtHead(c)
  BY DEF RoomReady, AtHead
<1>2. TypeCl' /\ QueueInv'
  BY <1>0, <1>1, RoomFound DEF RoomReady
<1>3. ClientFrame
  BY DEF RoomReady, ClientFrame, Running, disk, memtables, flags, Control, Typed, TypeHist, HistType,
        TypeVs, VsType, TypeFlags
<1> QED  BY <1>1, <1>2, <1>3, BusyWriter, ClientDone

(* A client waits, wakes up or returns.                                    *)
LEMMA WaitStep ==
  ASSUME Control, Data, NEW c \in Writers, Running,
         RoomDelay(c) \/ RoomWait(c) \/ WriteReturn(c) \/ AwaitFlush(c) \/ ManualTurn(c)
  PROVE  Control' /\ Data'
<1>0. TypeCl /\ QueueInv /\ hist \in HistType
  BY DEF Control, Typed, TypeHist
<1>1. /\ queue' = queue /\ cl[c].pc \notin {"idle", "queued"} /\ cl' \in [Writers -> ClType]
      /\ \A w \in Writers \ {c} : cl'[w] = cl[w]
      /\ cl'[c].sync => cl'[c].id # 0
      /\ cl'[c].pc \in InQueue <=> cl[c].pc \in InQueue
      /\ cl[c].pc \in InQueue => cl'[c].sync = cl[c].sync
      /\ cl'[c].pc \notin Writing
  <2>1. CASE RoomDelay(c)
    BY <1>0, <2>1, ZenonT(30) DEF RoomDelay, AtHead, TypeCl, ClType, InQueue, Writing
  <2>2. CASE RoomWait(c)
    BY <1>0, <2>2 DEF RoomWait, AtHead, TypeCl, ClType, InQueue, Writing
  <2>3. CASE WriteReturn(c)
    BY <1>0, <2>3 DEF WriteReturn, IdleCl, TypeCl, ClType, InQueue, Writing
  <2>4. CASE AwaitFlush(c)
    BY <1>0, <2>4 DEF AwaitFlush, TypeCl, ClType, InQueue, Writing
  <2>5. CASE ManualTurn(c)
    <3>1. /\ queue' = queue /\ cl[c].pc = "manual"
          /\ cl' = [cl EXCEPT ![c] = IdleCl] \/ cl' = [cl EXCEPT ![c].pc = "manwait"]
      BY <2>5 DEF ManualTurn
    <3>2. CASE cl' = [cl EXCEPT ![c] = IdleCl]
      BY <1>0, <3>1, <3>2 DEF IdleCl, TypeCl, ClType, InQueue, Writing
    <3>3. CASE cl' = [cl EXCEPT ![c].pc = "manwait"]
      BY <1>0, <3>1, <3>3 DEF TypeCl, ClType, InQueue, Writing
    <3> QED  BY <3>1, <3>2, <3>3
  <2> QED  BY <2>1, <2>2, <2>3, <2>4, <2>5
<1>2. TypeCl' /\ QueueInv'
  BY <1>0, <1>1, Moved
<1>3. ClientFrame
  <2>1. TypeHist' /\ hist'.applied = hist.applied /\ hist'.damaged = hist.damaged /\ hist'.rootless = hist.rootless
    BY <1>0 DEF RoomDelay, RoomWait, WriteReturn, AwaitFlush, ManualTurn, TypeHist, HistType, TypeCl, ClType
  <2>2. TypeFlags' /\ err' = err
    BY <1>0 DEF RoomDelay, RoomWait, WriteReturn, AwaitFlush, ManualTurn, Control, Typed, TypeFlags, flags, Schedules
  <2> QED
    BY <2>1, <2>2 DEF RoomDelay, RoomWait, WriteReturn, AwaitFlush, ManualTurn, ClientFrame, Running, disk,
        memtables, flags, Control, Typed, TypeVs, VsType
<1> QED  BY <1>1, <1>2, <1>3, BusyWriter, ClientDone

(* The writers of a group that bring a batch.                              *)
LEMMA BatchesFinite ==
  ASSUME NEW n \in Nat
  PROVE  /\ IsFiniteSet(Batches(n)) /\ Cardinality(Batches(n)) \in Nat
         /\ \A i \in Batches(n) : /\ i \in 1..n /\ cl[queue[i]].id # 0
                                  /\ Cardinality(Batches(i)) \in Nat \ {0}
                                  /\ Cardinality(Batches(i)) <= Cardinality(Batches(n))
<1>1. \A m \in Nat : IsFiniteSet(Batches(m)) /\ Cardinality(Batches(m)) \in Nat
  <2> SUFFICES ASSUME NEW m \in Nat  PROVE IsFiniteSet(Batches(m)) /\ Cardinality(Batches(m)) \in Nat
    OBVIOUS
  <2>1. IsFiniteSet(1..m)
    BY FS_Interval
  <2>2. Batches(m) \in SUBSET (1..m)
    BY DEF Batches
  <2> QED  BY <2>1, <2>2, FS_Subset, FS_CardinalityType
<1>2. ASSUME NEW i \in Batches(n)
      PROVE  /\ i \in 1..n /\ i \in Nat /\ cl[queue[i]].id # 0
             /\ i \in Batches(i) /\ Batches(i) \in SUBSET Batches(n)
  BY <1>2 DEF Batches
<1>3. ASSUME NEW i \in Batches(n)
      PROVE  /\ Cardinality(Batches(i)) \in Nat \ {0}
             /\ Cardinality(Batches(i)) <= Cardinality(Batches(n))
  BY <1>1, <1>2, FS_Subset, FS_EmptySet
<1> QED  BY <1>1, <1>2, <1>3

(* The leader pops its group, signals it and advances the sequence.        *)
LEMMA WriteFinishStep ==
  ASSUME Control, Data, NEW c \in Writers, WriteFinish(c), Running
  PROVE  Control' /\ Data'
<1>0. TypeCl /\ QueueInv /\ vs \in VsType /\ hist \in HistType /\ TypeFlags
  BY DEF Control, Typed, TypeVs, TypeHist
<1>1. cl[c].pc = "finish" /\ cl[c].n \in 1..Len(queue) /\ Len(queue) \in Nat
  BY <1>0 DEF WriteFinish, QueueInv, Writing
<1> DEFINE n == cl[c].n
           st == IF cl[c].st = "ok" THEN "ok" ELSE "err"
<1>2. queue' = SubSeq(queue, n + 1, Len(queue))
      /\ (cl' = PopGroup(cl, n, st) \/ cl' = SignalAll(PopGroup(cl, n, st)))
  BY DEF WriteFinish
<1>3. st \in {"ok", "err"}
  OBVIOUS
<1>4. TypeCl' /\ QueueInv'
  <2> HIDE DEF st, n
  <2> QED  BY <1>0, <1>1, <1>2, <1>3, Popped DEF n
<1>5. Cardinality(Batches(n)) \in Nat
  <2>1. n \in Nat
    BY <1>1
  <2> HIDE DEF n
  <2> QED  BY <2>1, BatchesFinite
<1>6. vs' = [vs EXCEPT !.seq = @ + Cardinality(Batches(n))]
  BY DEF WriteFinish
<1>7. /\ vs' \in VsType /\ vs'.ver = vs.ver /\ vs'.log = vs.log /\ vs'.next = vs.next /\ vs'.mani = vs.mani
      /\ vs'.seq >= vs.seq
  <2> DEFINE k == Cardinality(Batches(n))
  <2>1. k \in Nat /\ vs' = [vs EXCEPT !.seq = @ + k]
    BY <1>5, <1>6
  <2> HIDE DEF k
  <2> QED  BY <1>0, <2>1 DEF VsType
<1>8. TypeFlags' /\ (err => err')
  BY <1>0 DEF WriteFinish, TypeFlags
<1>9. ClientFrame
  BY <1>0, <1>7, <1>8 DEF WriteFinish, ClientFrame, Running, disk, memtables, TypeHist, HistType
<1> QED  BY <1>1, <1>4, <1>9, BusyWriter, ClientDone

-----------------------------------------------------------------------------
(* The numbers of files and the entries in existence: bounded before a     *)
(* step that adds only bounded ones, they are bounded after it.            *)
Numbers == DOMAIN logs \cup DOMAIN tables
AllEntries == (UNION {RecordsOf(n) : n \in DOMAIN logs}) \cup (UNION {tables[n] : n \in DOMAIN tables})
                \cup UNION {mems[n] : n \in DOMAIN mems}

(* The numbers in use stay bounded when each new one is.                   *)
LEMMA BoundKept ==
  ASSUME BoundInv, TypeLogs', TypeTables', TypeMems', NEW d \in Nat,
         \A n \in Numbers' : n \in Numbers \/ n <= d,
         \A e \in AllEntries' : e \in AllEntries \/ e[1] <= d
  PROVE  BoundInv'
<1>1. PICK b \in Nat : /\ \A n \in DOMAIN logs : n <= b /\ \A e \in RecordsOf(n) : e[1] <= b
                       /\ \A n \in DOMAIN tables : n <= b /\ \A e \in tables[n] : e[1] <= b
                       /\ \A n \in DOMAIN mems : \A e \in mems[n] : e[1] <= b
  BY DEF BoundInv
<1>2. (\A n \in Numbers : n <= b) /\ \A e \in AllEntries : e[1] <= b
  BY <1>1 DEF Numbers, AllEntries
<1>3. \A n \in Numbers' : n \in Nat
  BY DEF Numbers, TypeLogs, TypeTables
<1>4. \A e \in AllEntries' : e[1] \in Nat
  <2>1. \A n \in DOMAIN logs' : logs'[n].recs \in Seq(SUBSET Entry)
    BY DEF TypeLogs, FileOK, FileType
  <2>2. \A n \in DOMAIN logs' : \A e \in RecordsOf(n)' : e[1] \in Nat
    BY <2>1 DEF RecordsOf, Range, Entry
  <2>3. \A n \in DOMAIN tables' : \A e \in tables'[n] : e[1] \in Nat
    BY DEF TypeTables
  <2>4. \A n \in DOMAIN mems' : \A e \in mems'[n] : e[1] \in Nat
    BY DEF TypeMems, Entry
  <2> QED  BY <2>2, <2>3, <2>4 DEF AllEntries
<1>5. b + d \in Nat /\ \A x \in Nat : x <= b \/ x <= d => x <= b + d
  OBVIOUS
<1>6. (\A n \in Numbers' : n <= b + d) /\ \A e \in AllEntries' : e[1] <= b + d
  BY <1>2, <1>3, <1>4, <1>5
<1> QED  BY <1>5, <1>6 DEF BoundInv, Numbers, AllEntries

(* The records of a log to which one was appended.                         *)
LEMMA RangeAppend ==
  ASSUME NEW R, NEW s \in Seq(R), NEW e \in R
  PROVE  UNION Range(Append(s, e)) = (UNION Range(s)) \cup e
<1>1. /\ DOMAIN Append(s, e) = DOMAIN s \cup {Len(s) + 1}
      /\ \A i \in DOMAIN s : Append(s, e)[i] = s[i]
      /\ Append(s, e)[Len(s) + 1] = e
  OBVIOUS
<1>2. Range(Append(s, e)) = Range(s) \cup {e}
  BY <1>1 DEF Range
<1> QED  BY <1>2

(* The entries a group writes come after every sequence number in use.     *)
LEMMA EntriesFacts ==
  ASSUME TypeCl, QueueInv, TypeVs, NEW c \in Writers, cl[c].pc \in Writing
  PROVE  /\ Entries(cl[c].n) \subseteq Entry /\ IdsOf(Entries(cl[c].n)) = GroupIds(cl[c].n)
         /\ \A e \in Entries(cl[c].n) : e[1] > vs.seq /\ e[1] <= vs.seq + Cardinality(Batches(cl[c].n))
         /\ Cardinality(Batches(cl[c].n)) \in Nat /\ cl[c].n \in 1..Len(queue) /\ Len(queue) \in Nat
         /\ vs.seq \in Nat
<1> DEFINE n == cl[c].n
<1>1. n \in 1..Len(queue) /\ Len(queue) \in Nat /\ vs.seq \in Nat
  BY DEF QueueInv, TypeVs, VsType
<1>2. n \in Nat
  BY <1>1
<1>3. \A i \in 1..n : queue[i] \in Writers /\ cl[queue[i]].id \in Nat
  BY <1>1 DEF QueueInv, TypeCl, ClType
<1> HIDE DEF n
<1>4. /\ Cardinality(Batches(n)) \in Nat
      /\ \A i \in Batches(n) : /\ i \in 1..n /\ Cardinality(Batches(i)) \in Nat \ {0}
                               /\ Cardinality(Batches(i)) <= Cardinality(Batches(n))
  BY <1>2, BatchesFinite
<1>5. Entries(n) = {<<vs.seq + Cardinality(Batches(i)), cl[queue[i]].id>> : i \in Batches(n)}
  BY DEF Entries
<1>6. ASSUME NEW e \in Entries(n)
      PROVE  e \in Entry /\ e[1] > vs.seq /\ e[1] <= vs.seq + Cardinality(Batches(n))
  <2>1. PICK i \in Batches(n) : e = <<vs.seq + Cardinality(Batches(i)), cl[queue[i]].id>>
    BY <1>5, <1>6
  <2> DEFINE k == Cardinality(Batches(i))
             t == Cardinality(Batches(n))
             x == cl[queue[i]].id
  <2>2. k \in Nat \ {0} /\ k <= t /\ t \in Nat /\ x \in Nat /\ e = <<vs.seq + k, x>>
    BY <1>3, <1>4, <2>1
  <2> HIDE DEF k, t, x
  <2>3. e \in Entry /\ e[1] > vs.seq /\ e[1] <= vs.seq + t
    BY <1>1, <2>2 DEF Entry
  <2> QED  BY <2>3 DEF t
<1>7. IdsOf(Entries(n)) = GroupIds(n)
  <2>1. \A i \in Batches(n) : <<vs.seq + Cardinality(Batches(i)), cl[queue[i]].id>>[2] = cl[queue[i]].id
    OBVIOUS
  <2>2. ASSUME NEW x
        PROVE  x \in IdsOf(Entries(n)) <=> \E i \in Batches(n) : x = cl[queue[i]].id
    <3>1. x \in IdsOf(Entries(n)) <=> \E e \in Entries(n) : x = e[2]
      BY DEF IdsOf
    <3> QED  BY <1>5, <2>1, <3>1
  <2> QED  BY <2>2 DEF GroupIds
<1> QED  BY <1>1, <1>4, <1>6, <1>7 DEF n

(* A step that writes to the log and nothing else of the database.         *)
LEMMA LogKeepsData ==
  ASSUME Control, Data, BoundInv', DOMAIN logs' = DOMAIN logs,
         UNCHANGED <<tables, manis, current, up, rd, mem, imm, mems, vs, pending, bg, rc>>,
         hist'.applied = hist.applied
  PROVE  Data'
<1>1. ManiInv' /\ FreshInv' /\ LogInv' /\ RecoverInv'
  BY DEF Data, ManiInv, ManifestOK, FreshInv, LogInv, RecoverInv, Based, Live
<1>2. BgInv'
  BY DEF Data, BgInv, Live, Unused, FlushEditOK, MoveEditOK, CompactEditOK, FilesOf, TableEntries
<1>3. ContInv' /\ ReadInv'
  BY DEF Data, ContInv, ReadInv, Live, Contents, TableEntries, FilesOf, Below
<1> QED  BY <1>1, <1>2, <1>3 DEF Data

(* Such a step by the front of the queue.                                  *)
LEMMA LogWritten ==
  ASSUME Control, Data, NEW c \in Writers, cl[c].pc \in Writing, TypeLogs', BoundInv',
         DOMAIN logs' = DOMAIN logs,
         UNCHANGED <<tables, manis, current, up, rd, mem, imm, mems, vs, pending, bg, rc, flags, manual, queue, plan>>,
         hist'.applied = hist.applied, TypeHist',
         cl' \in [Writers -> ClType], \A w \in Writers \ {c} : cl'[w] = cl[w],
         cl'[c].sync = cl[c].sync, cl'[c].id = cl[c].id, cl'[c].pc \in Writing, cl'[c].n = cl[c].n
  PROVE  Control' /\ Data'
<1>1. Data'
  BY LogKeepsData
<1>2. cl[c].pc \in InQueue /\ cl'[c].pc \in InQueue /\ cl[c].pc \notin {"queued", "idle"}
  BY DEF Writing, InQueue
<1>3. TypeCl' /\ QueueInv'
  <2>1. TypeCl /\ QueueInv /\ (cl'[c].sync => cl'[c].id # 0)
    BY DEF Control, Typed, TypeCl
  <2> QED  BY <1>2, <2>1, Moved
<1>4. up = "open"
  BY <1>2, BusyWriter
<1>5. Typed'
  BY <1>3 DEF Control, Typed, TypeTables, TypeManis, TypeRd, TypeMems, TypeVs, TypeBg, TypeRc, TypeFlags, flags
<1>6. Stages' /\ QuietInv'
  BY <1>4 DEF Control, Stages, QuietInv, Live, Based
<1> QED  BY <1>1, <1>3, <1>5, <1>6 DEF Control

(* The leader appends its group to the log.                                *)
LEMMA WriteLogStep ==
  ASSUME Control, Data, NEW c \in Writers, WriteLog(c), Running
  PROVE  Control' /\ Data'
<1>0. TypeCl /\ QueueInv /\ TypeVs /\ TypeHist /\ cl[c].pc = "append" /\ cl[c].pc \in Writing
  BY DEF Control, Typed, WriteLog, Writing
<1>1. up = "open"
  BY <1>0, BusyWriter
<1>2. mem \in DOMAIN logs
  BY <1>1 DEF Data, LogInv, BgInv, Based, Live
<1>3. FileOK(logs[mem], SUBSET Entry)
  BY <1>2 DEF Control, Typed, TypeLogs
<1>4. /\ Entries(cl[c].n) \in SUBSET Entry
      /\ \A e \in Entries(cl[c].n) : e[1] <= vs.seq + Cardinality(Batches(cl[c].n))
      /\ vs.seq + Cardinality(Batches(cl[c].n)) \in Nat
  BY <1>0, EntriesFacts
<1>5. PICK f : /\ FileOK(f, SUBSET Entry) /\ logs' = [logs EXCEPT ![mem] = f]
               /\ f.recs = logs[mem].recs \/ f.recs = Append(logs[mem].recs, Entries(cl[c].n))
               /\ \/ /\ cl' = [cl EXCEPT ![c].pc = IF cl[c].sync THEN "sync" ELSE "insert"]
                     /\ hist' = [hist EXCEPT !.logged = hist'.logged, !.damaged = @ \/ f.tear = 2]
                  \/ /\ cl' = [cl EXCEPT ![c].pc = "finish", ![c].st = "err"]
                     /\ UNCHANGED hist
  <2>1. CASE \E f \in Appended(logs[mem], Entries(cl[c].n)) :
          /\ logs' = [logs EXCEPT ![mem] = f]
          /\ cl' = [cl EXCEPT ![c].pc = IF cl[c].sync THEN "sync" ELSE "insert"]
          /\ hist' = [hist EXCEPT !.logged = @ \cup {Group(c)}, !.damaged = @ \/ f.tear = 2]
    <3>1. PICK f \in Appended(logs[mem], Entries(cl[c].n)) :
          /\ logs' = [logs EXCEPT ![mem] = f]
          /\ cl' = [cl EXCEPT ![c].pc = IF cl[c].sync THEN "sync" ELSE "insert"]
          /\ hist' = [hist EXCEPT !.logged = @ \cup {Group(c)}, !.damaged = @ \/ f.tear = 2]
      BY <2>1
    <3>2. hist' = [hist EXCEPT !.logged = hist'.logged, !.damaged = @ \/ f.tear = 2]
      BY <1>0, <3>1 DEF TypeHist, HistType
    <3>3. FileOK(f, SUBSET Entry) /\ (f.recs = logs[mem].recs \/ f.recs = Append(logs[mem].recs, Entries(cl[c].n)))
      BY <1>3, <1>4, <3>1, AppendedFacts
    <3> QED  BY <3>1, <3>2, <3>3
  <2>2. CASE /\ \E f \in AppendFailed(logs[mem]) : logs' = [logs EXCEPT ![mem] = f]
             /\ cl' = [cl EXCEPT ![c].pc = "finish", ![c].st = "err"]
             /\ UNCHANGED hist
    BY <1>3, <2>2, AppendFailedFacts
  <2> QED  BY <2>1, <2>2 DEF WriteLog
<1>6. DOMAIN logs' = DOMAIN logs /\ logs'[mem] = f /\ \A n \in DOMAIN logs : n # mem => logs'[n] = logs[n]
  BY <1>2, <1>5
<1>7. TypeLogs'
  BY <1>5, <1>6 DEF Control, Typed, TypeLogs
<1>8. BoundInv'
  <2> DEFINE d == vs.seq + Cardinality(Batches(cl[c].n))
  <2>1. logs[mem].recs \in Seq(SUBSET Entry)
    BY <1>3 DEF FileOK, FileType
  <2>2. UNION Range(Append(logs[mem].recs, Entries(cl[c].n)))
           = (UNION Range(logs[mem].recs)) \cup Entries(cl[c].n)
    BY <1>4, <2>1, RangeAppend
  <2>3. UNION Range(f.recs) \subseteq (UNION Range(logs[mem].recs)) \cup Entries(cl[c].n)
    BY <1>5, <2>2
  <2>5. tables' = tables /\ mems' = mems /\ TypeTables' /\ TypeMems'
    BY DEF WriteLog, memtables, Control, Typed, TypeTables, TypeMems
  <2>6. \A e \in AllEntries' : e \in AllEntries \/ e[1] <= d
    BY <1>2, <1>4, <1>6, <2>3, <2>5 DEF AllEntries, RecordsOf
  <2>7. Numbers' = Numbers
    BY <1>6, <2>5 DEF Numbers
  <2> HIDE DEF d
  <2> QED  BY <1>4, <1>7, <2>5, <2>6, <2>7, BoundKept DEF d, Data
<1>9. hist'.applied = hist.applied /\ TypeHist'
  BY <1>0, <1>5 DEF TypeHist, HistType
<1>10. /\ cl' \in [Writers -> ClType] /\ \A w \in Writers \ {c} : cl'[w] = cl[w]
       /\ cl'[c].sync = cl[c].sync /\ cl'[c].id = cl[c].id /\ cl'[c].pc \in Writing /\ cl'[c].n = cl[c].n
  <2>1. CASE cl' = [cl EXCEPT ![c].pc = IF cl[c].sync THEN "sync" ELSE "insert"]
    BY <1>0, <2>1 DEF TypeCl, ClType, InQueue, Writing
  <2>2. CASE cl' = [cl EXCEPT ![c].pc = "finish", ![c].st = "err"]
    BY <1>0, <2>2, ZenonT(30) DEF TypeCl, ClType, InQueue, Writing
  <2> QED  BY <1>5, <2>1, <2>2
<1>11. UNCHANGED <<tables, manis, current, up, rd, mem, imm, mems, vs, pending, bg, rc, flags, manual, queue, plan>>
  BY DEF WriteLog, memtables, flags, Running
<1> QED  BY <1>0, <1>6, <1>7, <1>8, <1>9, <1>10, <1>11, LogWritten

(* The leader syncs the log; a failure is a background error.              *)
LEMMA WriteSyncStep ==
  ASSUME Control, Data, NEW c \in Writers, WriteSync(c), Running
  PROVE  Control' /\ Data'
<1>0. TypeCl /\ QueueInv /\ TypeHist /\ cl[c].pc = "sync" /\ cl[c].pc \in Writing
  BY DEF Control, Typed, WriteSync, Writing
<1>1. mem \in DOMAIN logs
  BY <1>0, BusyWriter DEF Data, LogInv, BgInv, Based, Live
<1>2. FileOK(logs[mem], SUBSET Entry)
  BY <1>1 DEF Control, Typed, TypeLogs
<1>3. /\ DOMAIN logs' = DOMAIN logs
      /\ \A n \in DOMAIN logs : logs'[n] = logs[n] \/ (n = mem /\ logs'[n] = SyncedFile(logs[mem]))
  BY <1>1 DEF WriteSync
<1>4. FileOK(SyncedFile(logs[mem]), SUBSET Entry) /\ SyncedFile(logs[mem]).recs = logs[mem].recs
  BY <1>2, SyncedFacts
<1>5. TypeLogs'
  BY <1>3, <1>4 DEF Control, Typed, TypeLogs
<1>6. \A n \in DOMAIN logs' : logs'[n].recs = logs[n].recs
  BY <1>3, <1>4
<1>7. BoundInv'
  BY <1>3, <1>6 DEF Data, BoundInv, RecordsOf, WriteSync, memtables
<1>8. /\ cl' \in [Writers -> ClType] /\ \A w \in Writers \ {c} : cl'[w] = cl[w]
      /\ cl'[c].sync = cl[c].sync /\ cl'[c].id = cl[c].id /\ cl'[c].pc \in Writing /\ cl'[c].n = cl[c].n
  BY <1>0 DEF WriteSync, TypeCl, ClType, InQueue, Writing
<1>9. UNCHANGED <<tables, manis, current, up, rd, mem, imm, mems, vs, pending, bg, rc, flags, manual, queue, plan, hist>>
  BY DEF WriteSync, memtables, flags, Running
<1>10. hist'.applied = hist.applied /\ TypeHist'
  BY <1>0, <1>9 DEF TypeHist, HistType
<1> QED  BY <1>0, <1>3, <1>5, <1>7, <1>8, <1>9, <1>10, LogWritten

-----------------------------------------------------------------------------
(* A step of a reader: only what the reader holds and the hint that a      *)
(* compaction is due change.                                               *)
ReaderFrame ==
  /\ UNCHANGED <<logs, tables, manis, current, up, queue, cl, mem, imm, mems, pending, err, shut, bg, manual, rc, plan>>
  /\ vs' \in VsType /\ vs'.ver = vs.ver /\ vs'.log = vs.log /\ vs'.next = vs.next /\ vs'.mani = vs.mani
  /\ vs'.seq = vs.seq
  /\ TypeHist' /\ hist'.applied = hist.applied /\ hist'.damaged = hist.damaged /\ hist'.rootless = hist.rootless
  /\ hist'.promised = hist.promised /\ TypeFlags'

(* A step of a Get that leaves the database alone keeps everything but its *)
(* own part.                                                               *)
LEMMA ReaderDone ==
  ASSUME Control, Data, up = "open", ReaderFrame, rd' \in [Readers -> RdType],
         \A r \in Readers : rd'[r].ver \in {rd[r].ver, vs.ver, {}}, ReadInv'
  PROVE  Control' /\ Data'
<1>1. BoundInv'
  BY DEF Data, BoundInv, RecordsOf, ReaderFrame
<1>2. ManiInv'
  BY DEF Data, ManiInv, ManifestOK, ReaderFrame, Live
<1>3. FreshInv'
  BY DEF Data, FreshInv, ReaderFrame, Based, Live
<1>4. BgInv'
  <2>1. \A n : Unused(n) => Unused(n)'
    BY DEF Unused, ReaderFrame, FilesOf
  <2> QED  BY <2>1 DEF Data, BgInv, ReaderFrame, Live, FlushEditOK, MoveEditOK, CompactEditOK, FilesOf, TableEntries
<1>5. ContInv'
  BY DEF Data, ContInv, ReaderFrame, Live, Contents, TableEntries, FilesOf
<1>6. RecoverInv' /\ LogInv'
  BY DEF Data, RecoverInv, LogInv, ReaderFrame, Based, Live
<1>7. Typed'
  BY DEF Control, Typed, TypeLogs, TypeTables, TypeManis, TypeCl, TypeRd, TypeMems, TypeVs, TypeBg, TypeRc, ReaderFrame
<1>8. Stages' /\ QuietInv' /\ QueueInv'
  BY DEF Control, Stages, QuietInv, QueueInv, ReaderFrame, Live, Based
<1> QED  BY <1>1, <1>2, <1>3, <1>4, <1>5, <1>6, <1>7, <1>8 DEF Control, Data

(* What the invariant says of one reader.                                  *)
ReaderOK(r) ==
  /\ rd[r].snap <= vs.seq
  /\ rd[r].pc = "mem" => /\ {rd[r].mem, rd[r].imm} \ {0} \subseteq DOMAIN mems
                         /\ Below(UNION {mems[n] : n \in {rd[r].mem, rd[r].imm} \ {0}}, rd[r].snap)
                              \cup Below(TableEntries(rd[r].ver), rd[r].snap)
                            = Below(hist.applied, rd[r].snap)
  /\ rd[r].pc = "tables" => rd[r].found \cup Below(TableEntries(rd[r].ver), rd[r].snap)
                            = Below(hist.applied, rd[r].snap)
  /\ rd[r].pc = "found" => rd[r].found = Below(hist.applied, rd[r].snap)

(* The other Gets see what they saw.                                       *)
LEMMA OtherReaders ==
  ASSUME ReadInv, ReaderFrame, NEW r \in Readers, \A q \in Readers \ {r} : rd'[q] = rd[q],
         rd'[r].pc = "idle" \/ ReaderOK(r)'
  PROVE  ReadInv'
<1> SUFFICES ASSUME NEW q \in Readers, rd'[q].pc # "idle"  PROVE ReaderOK(q)'
  BY DEF ReadInv, ReaderOK
<1>1. CASE q = r
  BY <1>1
<1>2. CASE q # r
  <2>1. rd'[q] = rd[q] /\ ReaderOK(q)
    BY <1>2 DEF ReadInv, ReaderOK
  <2> QED  BY <2>1 DEF ReaderOK, ReaderFrame, Below, TableEntries, FilesOf
<1> QED  BY <1>1, <1>2

(* Get takes its snapshot and references memtables and version.            *)
LEMMA GetBeginStep ==
  ASSUME Control, Data, NEW r \in Readers, GetBegin(r), Running
  PROVE  Control' /\ Data'
<1>0. up = "open" /\ vs \in VsType /\ hist \in HistType /\ rd \in [Readers -> RdType] /\ mem \in Nat /\ imm \in Nat
  BY DEF Control, Typed, TypeVs, TypeHist, TypeRd, TypeMems, GetBegin
<1> DEFINE x == [pc |-> "mem", snap |-> vs.seq, mem |-> mem, imm |-> imm, ver |-> vs.ver, found |-> {}]
<1>1. rd' = [rd EXCEPT ![r] = x] /\ hist' = [hist EXCEPT !.reads = @ + 1]
  BY DEF GetBegin
<1>2. /\ x \in RdType /\ x.ver = vs.ver /\ x.pc = "mem" /\ x.snap = vs.seq /\ x.mem = mem /\ x.imm = imm
      /\ vs.seq \in Nat
  BY <1>0 DEF RdType, VsType
<1>3. ReaderFrame
  <2>1. TypeHist' /\ hist'.applied = hist.applied /\ hist'.damaged = hist.damaged /\ hist'.rootless = hist.rootless
        /\ hist'.promised = hist.promised
    BY <1>0, <1>1 DEF TypeHist, HistType
  <2> QED  BY <1>0, <2>1 DEF GetBegin, ReaderFrame, Running, disk, memtables, flags, Control, Typed, TypeFlags
<1> HIDE DEF x
<1>4. rd' \in [Readers -> RdType] /\ rd'[r] = x /\ \A q \in Readers \ {r} : rd'[q] = rd[q]
  BY <1>0, <1>1, <1>2
<1>5. ReaderOK(r)'
  <2>1. mem \in DOMAIN mems /\ mem # 0 /\ (imm # 0 => imm \in DOMAIN mems)
    BY <1>0 DEF Data, BgInv, FreshInv, Live, Based
  <2>2. hist.applied = (UNION {mems[n] : n \in {mem, imm} \ {0}}) \cup TableEntries(vs.ver)
    BY <1>0 DEF Data, ContInv, Contents, Live
  <2>3. Below(UNION {mems[n] : n \in {mem, imm} \ {0}}, vs.seq) \cup Below(TableEntries(vs.ver), vs.seq)
          = Below(hist.applied, vs.seq)
    BY <2>2 DEF Below
  <2>4. mems' = mems /\ vs'.seq = vs.seq /\ hist'.applied = hist.applied /\ tables' = tables
    BY <1>3 DEF ReaderFrame
  <2>5. {rd'[r].mem, rd'[r].imm} = {mem, imm} /\ rd'[r].snap = vs.seq /\ rd'[r].ver = vs.ver /\ rd'[r].pc = "mem"
    BY <1>2, <1>4
  <2>6. TableEntries(rd[r].ver)' = TableEntries(vs.ver)
    BY <2>4, <2>5 DEF TableEntries, FilesOf
  <2> QED  BY <1>2, <2>1, <2>3, <2>4, <2>5, <2>6, SMTT(30) DEF ReaderOK, Below
<1>6. ReadInv'
  BY <1>3, <1>4, <1>5, OtherReaders DEF Data
<1>7. \A q \in Readers : rd'[q].ver \in {rd[q].ver, vs.ver, {}}
  BY <1>2, <1>4
<1> QED  BY <1>0, <1>3, <1>4, <1>6, <1>7, ReaderDone

(* Get searches the memtables, then the tables, and returns.               *)
LEMMA ReaderStepOK ==
  ASSUME Control, Data, NEW r \in Readers, ReaderStep(r), Running
  PROVE  Control' /\ Data'
<1>0. vs \in VsType /\ hist \in HistType /\ rd \in [Readers -> RdType] /\ rd[r] \in RdType
  BY DEF Control, Typed, TypeVs, TypeHist, TypeRd
<1>1. rd[r].pc # "idle" /\ up = "open"
  BY BusyReader DEF ReaderStep, GetMem, GetTables, GetEnd
<1>2. ReaderOK(r)
  BY <1>1 DEF Data, ReadInv, ReaderOK
<1>3. ReaderFrame
  <2>1. TypeHist'
    BY <1>0 DEF ReaderStep, GetMem, GetTables, GetEnd, TypeHist, HistType
  <2>2. TypeFlags'
    BY DEF ReaderStep, GetMem, GetTables, GetEnd, flags, Control, Typed, TypeFlags, Schedules
  <2>3. vs' \in VsType /\ vs'.ver = vs.ver /\ vs'.log = vs.log /\ vs'.next = vs.next /\ vs'.mani = vs.mani
        /\ vs'.seq = vs.seq
    BY <1>0 DEF ReaderStep, GetMem, GetTables, GetEnd, VsType
  <2> QED  BY <2>1, <2>2, <2>3 DEF ReaderStep, GetMem, GetTables, GetEnd, ReaderFrame, Running, disk, memtables, flags
<1>4. Below(hist.applied, rd[r].snap) \subseteq Nat \X Nat
  BY <1>0 DEF Below, HistType
<1>5. /\ rd' \in [Readers -> RdType] /\ rd'[r].ver \in {rd[r].ver, {}}
      /\ \A q \in Readers \ {r} : rd'[q] = rd[q]
      /\ rd'[r].pc = "idle" \/ ReaderOK(r)'
  <2>1. CASE GetMem(r)
    <3> DEFINE x == Visible(UNION {mems[n] : n \in {rd[r].mem, rd[r].imm} \ {0}}, r)
    <3>1. rd' = [rd EXCEPT ![r].pc = "tables", ![r].found = x]
      BY <2>1 DEF GetMem
    <3>2. x = Below(UNION {mems[n] : n \in {rd[r].mem, rd[r].imm} \ {0}}, rd[r].snap)
      BY DEF Visible, Below
    <3>3. x \cup Below(TableEntries(rd[r].ver), rd[r].snap) = Below(hist.applied, rd[r].snap)
      BY <1>2, <2>1, <3>2 DEF ReaderOK, GetMem
    <3>4. x \in SUBSET (Nat \X Nat)
      BY <1>4, <3>3
    <3> HIDE DEF x
    <3>5. /\ rd' \in [Readers -> RdType] /\ rd'[r].ver = rd[r].ver /\ rd'[r].pc = "tables" /\ rd'[r].found = x
          /\ rd'[r].snap = rd[r].snap /\ \A q \in Readers \ {r} : rd'[q] = rd[q]
      BY <1>0, <3>1, <3>4 DEF RdType
    <3>6. ReaderOK(r)'
      BY <1>2, <1>3, <3>3, <3>5 DEF ReaderOK, ReaderFrame, Below, TableEntries, FilesOf
    <3> QED  BY <3>5, <3>6
  <2>2. CASE GetTables(r)
    <3> DEFINE x == rd[r].found \cup Visible(TableEntries(rd[r].ver), r)
    <3>1. rd' = [rd EXCEPT ![r].pc = "found", ![r].found = x]
      BY <2>2 DEF GetTables
    <3>3. x = Below(hist.applied, rd[r].snap)
      BY <1>2, <2>2 DEF ReaderOK, GetTables, Visible, Below
    <3>4. x \in SUBSET (Nat \X Nat)
      BY <1>4, <3>3
    <3> HIDE DEF x
    <3>5. /\ rd' \in [Readers -> RdType] /\ rd'[r].ver = rd[r].ver /\ rd'[r].pc = "found" /\ rd'[r].found = x
          /\ rd'[r].snap = rd[r].snap /\ \A q \in Readers \ {r} : rd'[q] = rd[q]
      BY <1>0, <3>1, <3>4 DEF RdType
    <3>6. ReaderOK(r)'
      BY <1>2, <1>3, <3>3, <3>5 DEF ReaderOK, ReaderFrame, Below
    <3> QED  BY <3>5, <3>6
  <2>3. CASE GetEnd(r)
    <3>1. rd' = [rd EXCEPT ![r] = IdleRd]
      BY <2>3 DEF GetEnd
    <3> QED  BY <1>0, <3>1 DEF IdleRd, RdType
  <2> QED  BY <2>1, <2>2, <2>3 DEF ReaderStep
<1>6. ReadInv'
  BY <1>3, <1>5, OtherReaders DEF Data
<1>7. \A q \in Readers : rd'[q].ver \in {rd[q].ver, vs.ver, {}}
  BY <1>5
<1> QED  BY <1>1, <1>3, <1>5, <1>6, <1>7, ReaderDone

-----------------------------------------------------------------------------
(* Table n is on disk after the step as it was before it, or not at all.   *)
SameTable(n) ==
  /\ n \in DOMAIN tables <=> n \in DOMAIN tables'
  /\ n \in DOMAIN tables => tables'[n] = tables[n]

(* A version holds what it held when its tables are still the same.        *)
LEMMA EntriesKept ==
  ASSUME NEW v, \A n \in FilesOf(v) : SameTable(n)
  PROVE  UNION {tables'[n] : n \in FilesOf(v) \cap DOMAIN tables'} = TableEntries(v)
<1>1. FilesOf(v) \cap DOMAIN tables' = FilesOf(v) \cap DOMAIN tables
  BY DEF SameTable
<1>2. \A n \in FilesOf(v) \cap DOMAIN tables : tables'[n] = tables[n]
  BY DEF SameTable
<1> QED  BY <1>1, <1>2 DEF TableEntries

(* A reader goes on undisturbed when the tables of its version and the     *)
(* memtables stay.                                                         *)
LEMMA ReadKept ==
  ASSUME ReadInv, TypeRd, TypeVs, rd' = rd, vs'.seq \in Nat, vs'.seq >= vs.seq, hist'.applied = hist.applied,
         \A r \in Readers : \A n \in FilesOf(rd[r].ver) : SameTable(n),
         \A n \in DOMAIN mems : n \in DOMAIN mems' /\ mems'[n] = mems[n]
  PROVE  ReadInv'
<1> SUFFICES ASSUME NEW r \in Readers, rd'[r].pc # "idle"  PROVE ReaderOK(r)'
  BY DEF ReadInv, ReaderOK
<1>1. ReaderOK(r)
  BY DEF ReadInv, ReaderOK
<1>2. TableEntries(rd[r].ver)' = TableEntries(rd[r].ver)
  <2>1. UNION {tables'[n] : n \in FilesOf(rd[r].ver) \cap DOMAIN tables'} = TableEntries(rd[r].ver)
    BY EntriesKept
  <2> QED  BY <2>1 DEF TableEntries, FilesOf
<1>3. {rd[r].mem, rd[r].imm} \ {0} \subseteq DOMAIN mems =>
        UNION {mems'[n] : n \in {rd[r].mem, rd[r].imm} \ {0}} = UNION {mems[n] : n \in {rd[r].mem, rd[r].imm} \ {0}}
  OBVIOUS
<1>4. rd[r].snap <= vs'.seq
  BY <1>1 DEF ReaderOK, TypeRd, RdType, TypeVs, VsType
<1> QED  BY <1>1, <1>2, <1>3, <1>4 DEF ReaderOK, Below

(* The records of a manifest are edits.                                    *)
LEMMA RecordTypes ==
  ASSUME TypeManis
  PROVE  \A m \in DOMAIN manis : \A i \in 1..Len(manis[m].recs) :
           /\ manis[m].recs[i] \in EditType /\ manis[m].recs[i].next \in Nat /\ manis[m].recs[i].log \in Nat
           /\ manis[m].recs[i].add \subseteq File
<1> SUFFICES ASSUME NEW m \in DOMAIN manis, NEW i \in 1..Len(manis[m].recs)
             PROVE  manis[m].recs[i] \in EditType
  BY DEF EditType
<1>1. manis[m].recs \in Seq(EditType)
  BY DEF TypeManis, FileOK, FileType
<1> QED  BY <1>1

(* MakeRoomForWrite makes the full memtable immutable and switches to a    *)
(* new log and memtable.                                                   *)
LEMMA RoomSwitchStep ==
  ASSUME Control, Data, NEW c \in Writers, RoomSwitch(c), Running
  PROVE  Control' /\ Data'
<1>0. /\ TypeCl /\ QueueInv /\ vs \in VsType /\ hist \in HistType /\ cl[c].pc # "idle" /\ up = "open" /\ Live /\ Based
      /\ vs.next \in Nat /\ vs.log \in Nat /\ vs.seq \in Nat
  BY BusyWriter DEF Control, Typed, TypeVs, TypeHist, RoomSwitch, AtHead, Live, Based, VsType
<1>1. TypeCl' /\ QueueInv'
  BY <1>0, RoomFound DEF RoomSwitch
<1>2. /\ logs' = With(logs, vs.next, EmptyFile) /\ mems' = With(mems, vs.next, {}) /\ imm = 0
      /\ imm' = mem /\ mem' = vs.next /\ vs' = [vs EXCEPT !.next = @ + 1]
      /\ UNCHANGED <<tables, manis, current, up, rd, pending, err, shut, bg, manual, hist, rc, plan>>
  BY DEF RoomSwitch, Running
<1>3. /\ vs' \in VsType /\ vs'.next = vs.next + 1 /\ vs'.ver = vs.ver /\ vs'.log = vs.log
      /\ vs'.mani = vs.mani /\ vs'.seq = vs.seq
  BY <1>0, <1>2 DEF VsType
<1>4. /\ vs.next > 0 /\ mem # 0 /\ mem \in DOMAIN mems /\ mem \in DOMAIN logs /\ \A n \in DOMAIN mems : n < vs.next
      /\ vs.log < vs.next
  BY <1>0 DEF Data, FreshInv, LogInv, BgInv
<1>5. /\ DOMAIN logs' = DOMAIN logs \cup {vs.next} /\ logs'[vs.next] = EmptyFile
      /\ \A n \in DOMAIN logs : n # vs.next => logs'[n] = logs[n]
  BY <1>2 DEF With
<1>6. /\ DOMAIN mems' = DOMAIN mems \cup {vs.next} /\ mems'[vs.next] = {}
      /\ \A n \in DOMAIN mems : n # vs.next => mems'[n] = mems[n]
  BY <1>2 DEF With
<1>7. TypeLogs' /\ TypeMems' /\ TypeTables'
  <2>1. FileOK(EmptyFile, SUBSET Entry)
    BY EmptyFacts
  <2>2. TypeLogs'
    <3> SUFFICES ASSUME NEW n \in DOMAIN logs'  PROVE n \in Nat \ {0} /\ FileOK(logs'[n], SUBSET Entry)
      BY DEF TypeLogs, FileOK, FileType
    <3>1. CASE n = vs.next
      BY <1>0, <1>4, <1>5, <2>1, <3>1
    <3>2. CASE n # vs.next
      BY <1>5, <3>2 DEF Control, Typed, TypeLogs
    <3> QED  BY <3>1, <3>2
  <2>3. TypeMems' /\ TypeTables'
    BY <1>0, <1>2, <1>4, <1>6 DEF Control, Typed, TypeMems, TypeTables
  <2> QED  BY <2>2, <2>3
<1>8. \A n \in DOMAIN mems : n \in Nat /\ n # vs.next /\ n \in DOMAIN mems' /\ mems'[n] = mems[n]
  BY <1>0, <1>4, <1>6 DEF Control, Typed, TypeMems
<1>9. BoundInv'
  <2>1. \A n \in Numbers' : n \in Numbers \/ n <= vs.next
    BY <1>0, <1>2, <1>5 DEF Numbers
  <2>2. AllEntries' \subseteq AllEntries
    BY <1>2, <1>5, <1>6, EmptyFacts DEF AllEntries, RecordsOf, Range
  <2> QED  BY <1>0, <1>7, <2>1, <2>2, BoundKept DEF Data
<1>10. ManiInv'
  <2>1. \A m \in DOMAIN manis : \A i \in 1..Len(manis[m].recs) : manis[m].recs[i].next \in Nat
    BY RecordTypes DEF Control, Typed
  <2> QED  BY <1>0, <1>2, <1>3, <2>1 DEF Data, ManiInv, ManifestOK, Live
<1>11. FreshInv' /\ LogInv'
  <2>1. /\ \A f \in vs.ver \cup rc.add : f[1] \in Nat
        /\ \A r \in Readers : \A f \in rd[r].ver : f[1] \in Nat
        /\ \A n \in DOMAIN logs : n \in Nat /\ rc.todo \subseteq Nat
    BY <1>0 DEF VsType, Control, Typed, TypeRc, RcType, TypeRd, RdType, File, TypeLogs
  <2>2. FreshInv'
    BY <1>0, <1>2, <1>3, <1>4, <1>5, <1>6, <1>8, <2>1 DEF Data, FreshInv, Live, Based
  <2>3. LogInv'
    BY <1>0, <1>2, <1>3, <1>4, <1>5 DEF LogInv
  <2> QED  BY <2>2, <2>3
<1>12. BgInv'
  <2>1. \A n \in Nat : Unused(n) => Unused(n)'
    BY <1>0, <1>2, <1>3 DEF Unused, FilesOf
  <2>2. bg \in BgType /\ bg.comp.out \in Nat /\ bg.edit.next \in Nat
    BY DEF Control, Typed, TypeBg, BgType, CompType, EditType
  <2>3. bg.pc # "build" /\ (bg.pc \in {"manifest", "install", "refused"} => bg.kind # "flush")
    BY <1>0, <1>2 DEF Data, BgInv, FlushEditOK
  <2> QED  BY <1>0, <1>2, <1>3, <1>4, <1>6, <1>8, <2>1, <2>2, <2>3
            DEF Data, BgInv, MoveEditOK, CompactEditOK, TableEntries, FilesOf
<1>13. ContInv'
  <2>1. {mem', imm'} \ {0} = {mem, vs.next} /\ {mem, imm} \ {0} = {mem}
    BY <1>0, <1>2, <1>4
  <2>2. UNION {mems'[n] : n \in {mem, vs.next}} = mems[mem]
    BY <1>4, <1>6, <1>8
  <2>3. hist.applied = mems[mem] \cup TableEntries(vs.ver)
    BY <1>0, <2>1 DEF Data, ContInv, Contents
  <2> QED  BY <1>2, <1>3, <2>1, <2>2, <2>3 DEF ContInv, Contents, TableEntries, FilesOf
<1>14. ReadInv'
  <2>1. \A n : SameTable(n)
    BY <1>2 DEF SameTable
  <2> QED  BY <1>0, <1>2, <1>3, <1>8, <2>1, ReadKept DEF Data, Control, Typed
<1>15. RecoverInv'
  BY <1>0, <1>2 DEF RecoverInv, Control, Stages
<1>16. Typed'
  <2>1. TypeFlags'
    BY <1>2 DEF RoomSwitch, Control, Typed, TypeFlags, Schedules
  <2> QED  BY <1>1, <1>2, <1>3, <1>7, <2>1
        DEF Control, Typed, TypeManis, TypeRd, TypeVs, TypeBg, TypeRc, TypeHist, HistType
<1>17. Stages' /\ QuietInv'
  BY <1>0, <1>2 DEF Control, Stages, QuietInv, Live, Based
<1> QED  BY <1>1, <1>9, <1>10, <1>11, <1>12, <1>13, <1>14, <1>15, <1>16, <1>17 DEF Control, Data

(* The leader inserts its group into the memtable.                         *)
LEMMA WriteInsertStep ==
  ASSUME Control, Data, NEW c \in Writers, WriteInsert(c), Running
  PROVE  Control' /\ Data'
<1>0. /\ TypeCl /\ QueueInv /\ TypeVs /\ hist \in HistType /\ cl[c].pc = "insert" /\ cl[c].pc \in Writing
      /\ up = "open" /\ Live /\ Based
  BY BusyWriter DEF Control, Typed, TypeHist, WriteInsert, Writing, Live, Based
<1> DEFINE E == Entries(cl[c].n)
           d == vs.seq + Cardinality(Batches(cl[c].n))
<1>1. /\ E \subseteq Entry /\ \A e \in E : e[1] > vs.seq /\ e[1] <= d
      /\ vs.seq \in Nat /\ d \in Nat
  BY <1>0, EntriesFacts
<1>2. /\ mems' = [mems EXCEPT ![mem] = @ \cup E] /\ hist' = [hist EXCEPT !.applied = @ \cup E]
      /\ cl' = [cl EXCEPT ![c].pc = "finish", ![c].st = "ok"]
      /\ UNCHANGED <<logs, tables, manis, current, up, queue, rd, mem, imm, vs, pending, err, sched, shut,
                     bg, manual, rc, plan>>
  BY DEF WriteInsert, disk, flags, Running
<1> HIDE DEF E, d
<1>3. mem # 0 /\ mem \in DOMAIN mems /\ imm # mem /\ (imm # 0 => imm \in DOMAIN mems)
  BY <1>0 DEF Data, FreshInv, BgInv
<1>4. DOMAIN mems' = DOMAIN mems /\ mems'[mem] = mems[mem] \cup E /\ \A n \in DOMAIN mems : n # mem => mems'[n] = mems[n]
  BY <1>2, <1>3
<1>5. /\ cl' \in [Writers -> ClType] /\ \A w \in Writers \ {c} : cl'[w] = cl[w]
      /\ cl'[c].sync = cl[c].sync /\ cl'[c].id = cl[c].id /\ cl'[c].pc \in Writing /\ cl'[c].n = cl[c].n
      /\ cl'[c].pc \in InQueue /\ cl[c].pc \in InQueue /\ cl[c].pc # "queued"
  BY <1>0, <1>2, ZenonT(30) DEF TypeCl, ClType, InQueue, Writing
<1>6. TypeCl' /\ QueueInv'
  <2>1. cl'[c].sync => cl'[c].id # 0
    BY <1>0, <1>5 DEF TypeCl
  <2> QED  BY <1>0, <1>2, <1>5, <2>1, Moved
<1>7. TypeHist' /\ hist'.applied = hist.applied \cup E
  <2>1. E \subseteq Nat \X Nat
    BY <1>1 DEF Entry
  <2> QED  BY <1>0, <1>2, <2>1 DEF TypeHist, HistType
<1>8. TypeMems'
  BY <1>1, <1>2, <1>4 DEF Control, Typed, TypeMems
<1>9. TypeLogs' /\ TypeTables'
  BY <1>2 DEF Control, Typed, TypeLogs, TypeTables
<1>10. BoundInv'
  <2>1. Numbers' = Numbers
    BY <1>2 DEF Numbers
  <2>2. \A e \in AllEntries' : e \in AllEntries \/ e[1] <= d
    BY <1>1, <1>2, <1>3, <1>4 DEF AllEntries, RecordsOf
  <2> QED  BY <1>1, <1>8, <1>9, <2>1, <2>2, BoundKept DEF Data
<1>11. ManiInv' /\ FreshInv' /\ LogInv' /\ RecoverInv'
  BY <1>2, <1>4 DEF Data, ManiInv, FreshInv, LogInv, RecoverInv, Live, Based
<1>12. BgInv'
  BY <1>0, <1>2, <1>3, <1>4 DEF Data, BgInv, Live, Unused, FlushEditOK, MoveEditOK, CompactEditOK, TableEntries, FilesOf
<1>13. ContInv'
  <2>1. UNION {mems'[n] : n \in {mem, imm} \ {0}} = (UNION {mems[n] : n \in {mem, imm} \ {0}}) \cup E
    BY <1>3, <1>4
  <2> QED  BY <1>0, <1>2, <1>7, <2>1 DEF Data, ContInv, Contents, Live, TableEntries, FilesOf
<1>14. ReadInv'
  <2> SUFFICES ASSUME NEW r \in Readers, rd[r].pc # "idle"  PROVE ReaderOK(r)'
    BY <1>2 DEF ReadInv, ReaderOK
  <2>1. ReaderOK(r) /\ rd[r].snap \in Nat
    BY DEF Data, ReadInv, ReaderOK, Control, Typed, TypeRd, RdType
  <2>2. \A e \in E : e[1] \in Nat /\ ~(e[1] <= rd[r].snap)
    <3>1. \A e \in E : e[1] \in Nat
      BY <1>1 DEF Entry
    <3>2. rd[r].snap <= vs.seq
      BY <2>1 DEF ReaderOK
    <3> QED  BY <1>1, <2>1, <3>1, <3>2
  <2>3. Below(hist'.applied, rd[r].snap) = Below(hist.applied, rd[r].snap)
    BY <1>7, <2>2 DEF Below
  <2>4. \A n \in DOMAIN mems : \A e : e \in mems'[n] /\ e[1] <= rd[r].snap <=> e \in mems[n] /\ e[1] <= rd[r].snap
    BY <1>4, <2>2
  <2>5. {rd[r].mem, rd[r].imm} \ {0} \subseteq DOMAIN mems =>
          Below(UNION {mems'[n] : n \in {rd[r].mem, rd[r].imm} \ {0}}, rd[r].snap)
            = Below(UNION {mems[n] : n \in {rd[r].mem, rd[r].imm} \ {0}}, rd[r].snap)
    BY <2>4 DEF Below
  <2>6. TableEntries(rd[r].ver)' = TableEntries(rd[r].ver) /\ rd' = rd /\ vs' = vs
    BY <1>2 DEF TableEntries, FilesOf
  <2> QED  BY <1>4, <2>1, <2>3, <2>5, <2>6 DEF ReaderOK, Below
<1>15. Typed'
  BY <1>2, <1>6, <1>7, <1>8, <1>9
     DEF Control, Typed, TypeManis, TypeRd, TypeVs, TypeBg, TypeRc, TypeFlags
<1>16. Stages' /\ QuietInv'
  BY <1>0, <1>2 DEF Control, Stages, QuietInv, Live, Based
<1> QED  BY <1>6, <1>10, <1>11, <1>12, <1>13, <1>14, <1>15, <1>16 DEF Control, Data

-----------------------------------------------------------------------------
(* The threads that the background thread wakes.                           *)
Served == cl' = cl \/ cl' = SignalAll(cl) \/ (manual # NoClient /\ cl' = SignalAll(ManualServed(cl)))

(* What waking the waiting clients changes of them: their program counter. *)
LEMMA ServedFacts ==
  ASSUME TypeCl, QueueInv, manual \in Writers \cup {NoClient}, queue' = queue, Served
  PROVE  /\ TypeCl' /\ QueueInv'
         /\ \A c \in Writers : /\ cl'[c].sync = cl[c].sync /\ cl'[c].id = cl[c].id /\ cl'[c].n = cl[c].n
                               /\ cl'[c].st \in {cl[c].st, "done"}
                               /\ cl[c].pc \notin {"roomwait", "flushwait", "manwait"} => cl'[c].pc = cl[c].pc
                               /\ cl'[c].pc \notin {"head", "flushing", "manual"} => cl'[c].pc = cl[c].pc
<1>1. CASE cl' = cl
  BY <1>1 DEF TypeCl, QueueInv
<1>2. CASE cl' = SignalAll(cl)
  <2>1. cl \in [Writers -> ClType]
    BY DEF TypeCl
  <2> QED  BY <1>2, <2>1, Signalled
<1>3. CASE cl' = SignalAll(ManualServed(cl))
  <2> DEFINE f == ManualServed(cl)
  <2>1. f \in [Writers -> ClType]
    BY DEF TypeCl, ClType, ManualServed
  <2>2. \A c \in Writers : /\ f[c].pc = cl[c].pc /\ f[c].sync = cl[c].sync /\ f[c].id = cl[c].id
                           /\ f[c].n = cl[c].n /\ f[c].st \in {cl[c].st, "done"}
    BY DEF TypeCl, ClType, ManualServed
  <2> HIDE DEF f
  <2>3. cl' = SignalAll(f)
    BY <1>3 DEF f
  <2> QED  BY <2>1, <2>2, <2>3, Signalled
<1> QED  BY <1>1, <1>2, <1>3 DEF Served

(* What every step of the background thread leaves alone, but for the      *)
(* shape of what it changes.                                               *)
BgFrame ==
  /\ UNCHANGED <<current, up, queue, rd, mem, mems, shut, rc, plan>>
  /\ Served /\ imm' \in {imm, 0}
  /\ vs' \in VsType /\ vs'.next >= vs.next /\ vs'.seq = vs.seq /\ vs'.mani = vs.mani
  /\ bg' \in BgType /\ pending' \subseteq Nat /\ TypeFlags'
  /\ TypeHist' /\ hist'.applied = hist.applied
  /\ \A n \in DOMAIN logs' : n \in DOMAIN logs /\ logs'[n] = logs[n]

(* A background step that writes well-typed files keeps Control.           *)
LEMMA BgControl ==
  ASSUME Control, Live, BgFrame, TypeTables', TypeManis'
  PROVE  Control'
<1>1. /\ TypeCl' /\ QueueInv'
      /\ \A c \in Writers : cl[c].pc = "idle" => cl'[c].pc = "idle"
  BY ServedFacts DEF Control, Typed, TypeFlags, BgFrame
<1>2. TypeLogs'
  BY DEF Control, Typed, TypeLogs, BgFrame
<1>3. TypeRd' /\ TypeMems' /\ TypeVs' /\ TypeBg' /\ TypeRc' /\ (plan \in Plans)'
  BY DEF Control, Typed, TypeRd, TypeMems, TypeVs, TypeBg, TypeRc, BgFrame
<1>4. Typed'
  BY <1>1, <1>2, <1>3 DEF Typed, BgFrame
<1>5. Stages'
  BY DEF Control, Stages, BgFrame
<1>6. QuietInv'
  BY <1>1 DEF Control, QuietInv, Live, Based, BgFrame
<1> QED  BY <1>1, <1>4, <1>5, <1>6 DEF Control

(* The tables after the step: what was there, or new ones of entries known.*)
TablesFrame ==
  \A n \in DOMAIN tables' :
    \/ n \in DOMAIN tables /\ tables'[n] = tables[n]
    \/ n \in Nat /\ n < vs.next /\ \A e \in tables'[n] : e \in AllEntries \/ e = <<0, 0>>
ReadersFrame == \A r \in Readers : \A n \in FilesOf(rd[r].ver) : SameTable(n)
ManisFrame ==
  /\ \A m \in DOMAIN manis' : m \in DOMAIN manis /\ manis'[m] = manis[m]
  /\ vs.mani \in DOMAIN manis'
  /\ bg'.pc = "manifest" => bg'.edit.next >= vs.next
VersionFrame ==
  /\ \A f \in vs'.ver : f[1] < vs'.next
  /\ vs'.log < vs'.next /\ mem \in DOMAIN logs' /\ vs'.log <= mem

(* A background step that leaves the version alone keeps what does not     *)
(* depend on the step itself.                                              *)
LEMMA BgData ==
  ASSUME Control, Data, Live, BgFrame, TypeTables', TablesFrame, ReadersFrame, VersionFrame
  PROVE  BoundInv' /\ FreshInv' /\ LogInv' /\ ReadInv' /\ RecoverInv'
<1>0. Based /\ Based' /\ vs.next \in Nat /\ vs'.next \in Nat /\ vs.seq \in Nat
  BY DEF Live, Based, BgFrame, Control, Typed, TypeVs, VsType
<1>1. BoundInv'
  <2>0. TypeLogs'
    BY DEF Control, Typed, TypeLogs, BgFrame
  <2>1. TypeLogs' /\ TypeMems'
    BY <2>0 DEF Control, Typed, TypeMems, BgFrame
  <2>2. \A n \in Numbers' : n \in Numbers \/ n <= vs.next
    BY <1>0 DEF Numbers, BgFrame, TablesFrame
  <2>3. \A e \in AllEntries' : e \in AllEntries \/ e[1] <= vs.next
    <3>1. ASSUME NEW n \in DOMAIN tables', NEW e \in tables'[n]
          PROVE  e \in AllEntries \/ e[1] <= vs.next
      BY <1>0, <3>1 DEF TablesFrame, AllEntries
    <3>2. ASSUME NEW n \in DOMAIN logs', NEW e \in UNION Range(logs'[n].recs)
          PROVE  e \in AllEntries
      BY <3>2 DEF BgFrame, AllEntries, RecordsOf
    <3>3. ASSUME NEW n \in DOMAIN mems', NEW e \in mems'[n]
          PROVE  e \in AllEntries
      BY <3>3 DEF BgFrame, AllEntries
    <3> QED  BY <3>1, <3>2, <3>3 DEF AllEntries, RecordsOf
  <2> QED  BY <1>0, <2>1, <2>2, <2>3, BoundKept DEF Data
<1>2. FreshInv'
  <2>1. /\ \A n \in DOMAIN mems : n \in Nat
        /\ \A f \in rc.add : f[1] \in Nat
        /\ \A r \in Readers : \A f \in rd[r].ver : f[1] \in Nat
        /\ \A n \in DOMAIN logs : n \in Nat
    BY DEF Control, Typed, TypeRc, RcType, TypeRd, RdType, File, TypeLogs, TypeMems
  <2> QED  BY <1>0, <2>1 DEF Data, FreshInv, BgFrame, VersionFrame
<1>3. LogInv'
  BY <1>0 DEF LogInv, BgFrame, VersionFrame
<1>4. ReadInv'
  BY <1>0, ReadKept DEF Data, Control, Typed, BgFrame, ReadersFrame
<1>5. RecoverInv'
  BY DEF RecoverInv, BgFrame, Control, Stages, Live
<1> QED  BY <1>1, <1>2, <1>3, <1>4, <1>5

(* A background step that leaves the manifests alone keeps ManiInv.        *)
LEMMA ManisKept ==
  ASSUME Control, Data, Live, BgFrame, ManisFrame
  PROVE  ManiInv' /\ TypeManis'
<1>1. Live' /\ vs.next \in Nat /\ vs'.next \in Nat /\ vs'.mani = vs.mani /\ bg'.edit.next \in Nat
  BY DEF Live, BgFrame, Control, Typed, TypeVs, VsType, BgType, EditType
<1>2. TypeManis'
  BY DEF Control, Typed, TypeManis, BgFrame, ManisFrame
<1>3. /\ \A m \in DOMAIN manis : ManifestOK(manis[m].recs)
      /\ \A i \in 1..Len(manis[vs.mani].recs) : manis[vs.mani].recs[i].next <= vs.next
      /\ vs.mani \in DOMAIN manis
  BY DEF Data, ManiInv
<1>4. \A i \in 1..Len(manis[vs.mani].recs) : manis[vs.mani].recs[i].next \in Nat
  BY <1>3, RecordTypes DEF Control, Typed
<1>5. \A i \in 1..Len(manis'[vs.mani].recs) :
        /\ manis'[vs.mani].recs[i].next <= vs'.next
        /\ bg'.pc = "manifest" => manis'[vs.mani].recs[i].next <= bg'.edit.next
  BY <1>1, <1>3, <1>4, SMTT(30) DEF ManisFrame, BgFrame
<1>6. \A m \in DOMAIN manis' : ManifestOK(manis'[m].recs)
  BY <1>3 DEF ManisFrame
<1>7. vs.mani \in DOMAIN manis'
  BY DEF ManisFrame
<1>8. ManiInv'
  BY <1>1, <1>5, <1>6, <1>7 DEF ManiInv, ManifestOK
<1> QED  BY <1>2, <1>8

(* The background thread is done.                                          *)
LEMMA IdleFacts ==
  /\ IdleBg \in BgType /\ IdleBg.pc = "none" /\ IdleBg.num = 0 /\ IdleBg.kind = "none" /\ IdleBg.comp = NoComp
  /\ NoComp \in CompType /\ NoComp.inputs = {} /\ NoComp.out = 0
BY DEF IdleBg, NoComp, BgType, CompType, EditType

(* Or it dies, and holds nothing of the database either.                   *)
LEMMA FallenFacts ==
  FallenBg \in BgType /\ FallenBg.pc = "segfault" /\ FallenBg.num = 0 /\ FallenBg.kind = "none" /\ FallenBg.comp = NoComp
BY DEF FallenBg, IdleBg, NoComp, BgType, CompType, EditType

(* A background thread that has ended its work holds nothing.              *)
LEMMA BgIdle ==
  ASSUME BgInv, Live, UNCHANGED <<up, mem, mems>>, imm' \in {imm, 0}, bg' \in {IdleBg, FallenBg}
  PROVE  BgInv'
<1>1. CASE bg' = IdleBg
  BY <1>1, IdleFacts DEF BgInv, Live
<1>2. CASE bg' = FallenBg
  BY <1>2, IdleFacts, FallenFacts DEF BgInv, Live
<1> QED  BY <1>1, <1>2

(* The end of a compaction, whether its client still waits or not.         *)
LEMMA CompactEnded ==
  ASSUME NEW v, NEW e, NEW failed, CompactEnd(v, e, failed), sched \in BOOLEAN
  PROVE  /\ bg' \in {IdleBg, FallenBg} /\ bg' \in BgType /\ bg'.pc \in {"none", "segfault"}
         /\ Served /\ manual' \in {manual, NoClient} /\ sched' \in BOOLEAN
<1>1. CASE bg.comp.man /\ manual = NoClient
  BY <1>1, FallenFacts DEF CompactEnd, Served
<1>2. CASE ~(bg.comp.man /\ manual = NoClient)
  <2>1. bg' = IdleBg /\ sched' \in BOOLEAN /\ manual' \in {manual, NoClient}
    BY <1>2 DEF CompactEnd, BgEnd, Schedules
  <2>2. Served
    BY <1>2 DEF CompactEnd, BgEnd, Served
  <2> QED  BY <2>1, <2>2, IdleFacts
<1> QED  BY <1>1, <1>2

(* The contents of the database stay with the version and the memtables.   *)
LEMMA ContKept ==
  ASSUME ContInv, Live, UNCHANGED <<up, mem, imm, mems>>, vs'.ver = vs.ver, hist'.applied = hist.applied,
         \A n \in FilesOf(vs.ver) : SameTable(n)
  PROVE  ContInv'
<1>1. UNION {tables'[n] : n \in FilesOf(vs.ver) \cap DOMAIN tables'} = TableEntries(vs.ver)
  BY EntriesKept
<1> QED  BY <1>1 DEF ContInv, Contents, Live, TableEntries, FilesOf

(* A step of the background thread that touches no file.                   *)
LEMMA QuietBg ==
  ASSUME Control, Data, Live, BgFrame, UNCHANGED <<logs, tables, manis, imm>>, vs'.ver = vs.ver, vs'.log = vs.log,
         bg'.pc = "manifest" => bg'.edit.next >= vs.next, BgInv'
  PROVE  Control' /\ Data'
<1>1. Based /\ vs \in VsType /\ vs.next \in Nat /\ vs'.next \in Nat /\ vs'.next >= vs.next
  BY DEF Live, Based, BgFrame, Control, Typed, TypeVs, VsType
<1>2. ReadersFrame /\ TablesFrame /\ TypeTables' /\ \A n : SameTable(n)
  BY DEF ReadersFrame, TablesFrame, SameTable, Control, Typed, TypeTables
<1>3. VersionFrame
  <2>1. \A f \in vs.ver : f[1] \in Nat
    BY <1>1 DEF VsType, File
  <2>2. mem # 0 /\ mem \in DOMAIN logs /\ vs.log <= mem /\ vs.log < vs.next /\ vs.log \in Nat
    BY <1>1 DEF Data, BgInv, LogInv, VsType
  <2>3. \A f \in vs.ver : f[1] < vs.next
    BY <1>1 DEF Data, FreshInv
  <2> QED  BY <1>1, <2>1, <2>2, <2>3 DEF VersionFrame
<1>4. ManisFrame
  BY DEF ManisFrame, Data, ManiInv
<1>5. ManiInv' /\ TypeManis'
  BY <1>4, ManisKept
<1>6. BoundInv' /\ FreshInv' /\ LogInv' /\ ReadInv' /\ RecoverInv'
  BY <1>2, <1>3, BgData
<1>7. ContInv'
  BY <1>2, ContKept DEF Data, BgFrame
<1>8. Control'
  BY <1>2, <1>5, BgControl
<1> QED  BY <1>5, <1>6, <1>7, <1>8 DEF Data

(* The background thread works only for a database that runs.              *)
LEMMA BusyBg ==
  ASSUME Control, sched \/ bg.pc # "none" \/ bg.kind # "none"
  PROVE  Live
BY IdleFacts DEF Control, QuietInv

(* Nothing of the version set changes.                                     *)
LEMMA SameVs ==
  ASSUME Control, vs' = vs
  PROVE  /\ vs' \in VsType /\ vs'.next >= vs.next /\ vs'.seq = vs.seq /\ vs'.mani = vs.mani
         /\ vs'.ver = vs.ver /\ vs'.log = vs.log /\ vs.next \in Nat
BY DEF Control, Typed, TypeVs, VsType

(* A number is taken.                                                      *)
LEMMA NextVs ==
  ASSUME Control, vs' = [vs EXCEPT !.next = @ + 1]
  PROVE  /\ vs' \in VsType /\ vs'.next = vs.next + 1 /\ vs'.next >= vs.next /\ vs'.seq = vs.seq /\ vs'.mani = vs.mani
         /\ vs'.ver = vs.ver /\ vs'.log = vs.log /\ vs.next \in Nat
BY DEF Control, Typed, TypeVs, VsType

(* A background call that finds nothing to do, or is refused.              *)
LEMMA BackgroundStopStep ==
  ASSUME Control, Data, Running,
         \/ BackgroundStop
         \/ BackgroundManual /\ ~(NumLevelFiles(0) > 0)
         \/ BackgroundPick /\ ~NeedsCompaction(vs)
         \/ MoveDone /\ bg.pc = "refused"
  PROVE  Control' /\ Data'
<1>1. Live
  BY BusyBg DEF BackgroundStop, BackgroundManual, BackgroundPick, MoveDone
<1>2. /\ UNCHANGED <<logs, tables, manis, current, up, queue, rd, mem, imm, mems, vs, pending, shut, rc, plan, hist>>
      /\ bg' = IdleBg /\ Served /\ TypeFlags'
  <2>1. CASE BackgroundStop
    BY <2>1 DEF BackgroundStop, BgEnd, Served, Running, disk, memtables, Control, Typed, TypeFlags, Schedules
  <2>2. CASE BackgroundManual /\ ~(NumLevelFiles(0) > 0)
    BY <2>2 DEF BackgroundManual, BgEnd, Served, Running, disk, memtables, Control, Typed, TypeFlags, Schedules
  <2>3. CASE BackgroundPick /\ ~NeedsCompaction(vs)
    BY <2>3 DEF BackgroundPick, BgEnd, Served, Running, disk, memtables, Control, Typed, TypeFlags, Schedules
  <2>4. CASE MoveDone /\ bg.pc = "refused"
    BY <2>4 DEF MoveDone, BgEnd, Served, Running, disk, memtables, Control, Typed, TypeFlags, Schedules
  <2> QED  BY <2>1, <2>2, <2>3, <2>4
<1>3. BgFrame
  BY <1>2, SameVs, IdleFacts DEF BgFrame, Control, Typed, TypeBg, TypeHist, HistType
<1>4. BgInv'
  BY <1>1, <1>2, BgIdle DEF Data
<1> QED  BY <1>1, <1>2, <1>3, <1>4, SameVs, IdleFacts, QuietBg

(* The table of a flush gets its number.                                   *)
LEMMA BeginFlushStep ==
  ASSUME Control, Data, Running, BackgroundFlush \/ CompactImm
  PROVE  Control' /\ Data'
<1>0. bg \in BgType /\ bg.comp \in CompType /\ pending \subseteq Nat /\ TypeFlags /\ bg.comp.out \in Nat
  BY DEF Control, Typed, TypeBg, BgType, CompType
<1>1. Live
  BY BusyBg DEF BackgroundFlush, CompactImm
<1>b. Based
  BY <1>1 DEF Based
<1>2. PICK comp \in {NoComp, bg.comp} : BeginFlush(comp) /\ (comp # NoComp => bg.pc = "compact" /\ comp = bg.comp)
  BY DEF BackgroundFlush, CompactImm
<1>3. /\ UNCHANGED <<logs, tables, manis, current, up, queue, cl, rd, mem, imm, mems, err, sched, shut, manual, rc, plan, hist>>
      /\ imm # 0
  BY DEF BackgroundFlush, CompactImm, disk, memtables, flags, Running
<1>4. /\ vs' = [vs EXCEPT !.next = @ + 1] /\ pending' = pending \cup {vs.next}
      /\ bg' = [IdleBg EXCEPT !.pc = "build", !.num = vs.next, !.comp = comp]
  BY <1>2 DEF BeginFlush
<1>5. /\ vs' \in VsType /\ vs'.next = vs.next + 1 /\ vs'.seq = vs.seq /\ vs'.mani = vs.mani
      /\ vs'.ver = vs.ver /\ vs'.log = vs.log /\ vs.next \in Nat
  BY <1>4, NextVs
<1>6. comp \in CompType
  BY <1>0, IdleFacts
<1>7. bg' \in BgType /\ bg'.pc = "build" /\ bg'.num = vs.next /\ bg'.comp = comp /\ bg'.kind = "none"
  <2> DEFINE k == vs.next
  <2>1. k \in Nat /\ bg' = [IdleBg EXCEPT !.pc = "build", !.num = k, !.comp = comp]
    BY <1>4, <1>5
  <2> HIDE DEF k
  <2>2. bg' \in BgType /\ bg'.pc = "build" /\ bg'.num = k /\ bg'.comp = comp /\ bg'.kind = "none"
    BY <1>6, <2>1, IdleFacts DEF BgType
  <2> QED  BY <2>2 DEF k
<1>8. BgFrame
  BY <1>0, <1>3, <1>4, <1>5, <1>7 DEF BgFrame, Served, Control, Typed, TypeHist, HistType, TypeFlags
<1>9. BgInv'
  <2>1. \A n \in Nat : Unused(n) => Unused(n)'
    BY <1>3, <1>5 DEF Unused, FilesOf
  <2>2. PICK k \in Nat : k = vs.next
    BY <1>5
  <2>3. Unused(k)'
    <3>1. k \notin FilesOf(vs.ver) /\ \A r \in Readers : k \notin FilesOf(rd[r].ver)
      BY <1>b, <2>2 DEF Data, FreshInv, FilesOf
    <3> QED  BY <1>3, <1>5, <2>2, <3>1 DEF Unused, FilesOf
  <2>4. /\ comp.inputs \subseteq vs.ver
        /\ comp.out # 0 => Unused(comp.out) /\ comp.out # vs.next /\ comp.out \in pending
    <3>1. CASE comp = NoComp
      BY <3>1, IdleFacts
    <3>2. CASE comp # NoComp
      BY <1>0, <1>1, <1>2, <1>5, <3>2 DEF Data, BgInv, Unused
    <3> QED  BY <3>1, <3>2
  <2>5. comp.out \in Nat
    BY <1>6 DEF CompType
  <2> QED  BY <1>1, <1>3, <1>4, <1>5, <1>7, <2>1, <2>2, <2>3, <2>4, <2>5 DEF Data, BgInv, Live
<1> QED  BY <1>1, <1>3, <1>5, <1>7, <1>8, <1>9, QuietBg

(* A compaction takes the number of its output file.                       *)
LEMMA OutputNumberStep ==
  ASSUME Control, Data, Running, OpenCompactionOutputFile
  PROVE  Control' /\ Data'
<1>0. bg \in BgType /\ bg.comp \in CompType /\ pending \subseteq Nat /\ TypeFlags /\ bg.comp.out = 0 /\ bg.pc = "compact"
  BY DEF Control, Typed, TypeBg, BgType, OpenCompactionOutputFile
<1>1. Live /\ Based
  BY <1>0, BusyBg DEF Based
<1>3. UNCHANGED <<logs, tables, manis, current, up, queue, cl, rd, mem, imm, mems, err, sched, shut, manual, rc, plan, hist>>
  BY DEF OpenCompactionOutputFile, disk, memtables, flags, Running
<1>4. /\ vs' = [vs EXCEPT !.next = @ + 1] /\ pending' = pending \cup {vs.next}
      /\ bg' = [bg EXCEPT !.comp.out = vs.next]
  BY DEF OpenCompactionOutputFile
<1>5. /\ vs' \in VsType /\ vs'.next = vs.next + 1 /\ vs'.seq = vs.seq /\ vs'.mani = vs.mani
      /\ vs'.ver = vs.ver /\ vs'.log = vs.log /\ vs.next \in Nat
  BY <1>4, NextVs
<1>7. /\ bg' \in BgType /\ bg'.pc = "compact" /\ bg'.num = bg.num /\ bg'.kind = bg.kind
      /\ bg'.comp.inputs = bg.comp.inputs /\ bg'.comp.out = vs.next
  <2> DEFINE k == vs.next
  <2>1. k \in Nat /\ bg' = [bg EXCEPT !.comp.out = k]
    BY <1>4, <1>5
  <2> HIDE DEF k
  <2>2. /\ bg' \in BgType /\ bg'.pc = "compact" /\ bg'.num = bg.num /\ bg'.kind = bg.kind
        /\ bg'.comp.inputs = bg.comp.inputs /\ bg'.comp.out = k
    BY <1>0, <2>1 DEF BgType, CompType
  <2> QED  BY <2>2 DEF k
<1>8. BgFrame
  BY <1>0, <1>3, <1>4, <1>5, <1>7 DEF BgFrame, Served, Control, Typed, TypeHist, HistType, TypeFlags
<1>9. BgInv'
  <2>2. PICK k \in Nat : k = vs.next
    BY <1>5
  <2>3. Unused(k)' /\ k > 0
    <3>1. k \notin FilesOf(vs.ver) /\ (\A r \in Readers : k \notin FilesOf(rd[r].ver)) /\ k > 0
      BY <1>1, <2>2 DEF Data, FreshInv, FilesOf
    <3> QED  BY <1>3, <1>5, <2>2, <3>1 DEF Unused, FilesOf
  <2> QED  BY <1>0, <1>1, <1>3, <1>4, <1>5, <1>7, <2>2, <2>3 DEF Data, BgInv, Live
<1> QED  BY <1>1, <1>3, <1>5, <1>7, <1>8, <1>9, QuietBg

(* A compaction starts.                                                    *)
LEMMA PickStep ==
  ASSUME Control, Data, Running,
         (BackgroundManual /\ NumLevelFiles(0) > 0) \/ (BackgroundPick /\ NeedsCompaction(vs))
  PROVE  Control' /\ Data'
<1>0. /\ bg = IdleBg /\ bg \in BgType /\ pending \subseteq Nat /\ TypeFlags /\ Live /\ vs \in VsType
      /\ hist \in HistType /\ vs.next \in Nat /\ vs.log \in Nat /\ vs.seq \in Nat /\ Based
  BY BusyBg DEF Control, Typed, TypeBg, BackgroundManual, BackgroundPick, Data, BgInv, TypeVs, TypeHist, VsType, Based
<1>1. UNCHANGED <<logs, tables, manis, current, up, queue, cl, rd, mem, imm, mems, vs, pending, err, sched, shut,
                  manual, rc, plan, hist>>
  BY DEF BackgroundManual, BackgroundPick, Compacting, disk, memtables, flags, Running
<1>2. \/ \E inputs \in SUBSET vs.ver, man \in BOOLEAN :
           inputs # {} /\ bg' = [IdleBg EXCEPT !.pc = "compact", !.comp = [inputs |-> inputs, out |-> 0, man |-> man]]
      \/ \E high \in SUBSET vs.ver :
           bg' = [IdleBg EXCEPT !.pc = "manifest", !.kind = "move",
                                !.edit = Edit({<<f[1], 1>> : f \in high}, high, vs.log)]
  <2>1. CASE BackgroundManual /\ NumLevelFiles(0) > 0
    <3>1. PICK low \in SUBSET {f \in vs.ver : f[2] = 1} : Compacting({f \in vs.ver : f[2] = 0} \cup low, TRUE)
      BY <2>1 DEF BackgroundManual
    <3>2. {f \in vs.ver : f[2] = 0} # {}
      <4>1. SUFFICES ASSUME {f \in vs.ver : f[2] = 0} = {}  PROVE FALSE
        OBVIOUS
      <4>2. LevelFiles(vs.ver, 0) = {}
        BY <4>1 DEF LevelFiles
      <4>3. Cardinality(LevelFiles(vs.ver, 0)) = 0
        BY <4>2, FS_EmptySet
      <4> QED  BY <2>1, <4>3 DEF NumLevelFiles
    <3> QED  BY <3>1, <3>2 DEF Compacting
  <2>2. CASE BackgroundPick /\ NeedsCompaction(vs)
    <3>1. PICK high \in (SUBSET {f \in vs.ver : f[2] = 0}) \ {{}}, low \in SUBSET {f \in vs.ver : f[2] = 1} :
            \/ bg' = [IdleBg EXCEPT !.pc = "manifest", !.kind = "move",
                             !.edit = Edit({<<f[1], 1>> : f \in high}, high, vs.log)]
            \/ Compacting(high \cup low, FALSE)
      BY <2>2 DEF BackgroundPick
    <3>2. high \in SUBSET vs.ver /\ high \cup low \in SUBSET vs.ver /\ high \cup low # {}
      OBVIOUS
    <3> QED  BY <3>1, <3>2 DEF Compacting
  <2> QED  BY <2>1, <2>2
<1>3. CASE \E inputs \in SUBSET vs.ver, man \in BOOLEAN :
             inputs # {} /\ bg' = [IdleBg EXCEPT !.pc = "compact", !.comp = [inputs |-> inputs, out |-> 0, man |-> man]]
  <2>1. PICK inputs \in SUBSET vs.ver, man \in BOOLEAN :
             inputs # {} /\ bg' = [IdleBg EXCEPT !.pc = "compact", !.comp = [inputs |-> inputs, out |-> 0, man |-> man]]
    BY <1>3
  <2>2. inputs \in SUBSET File
    BY <1>0 DEF VsType
  <2>3. /\ bg' \in BgType /\ bg'.pc = "compact" /\ bg'.num = 0 /\ bg'.kind = "none"
        /\ bg'.comp.inputs = inputs /\ bg'.comp.out = 0
    BY <2>1, <2>2, IdleFacts DEF BgType, CompType
  <2>4. BgFrame
    BY <1>0, <1>1, <2>3, SameVs DEF BgFrame, Served, Control, Typed, TypeHist, HistType, TypeFlags
  <2>5. BgInv'
    BY <1>0, <1>1, <2>1, <2>3 DEF Data, BgInv, Live
  <2> QED  BY <1>0, <1>1, <2>3, <2>4, <2>5, QuietBg
<1>4. CASE \E high \in SUBSET vs.ver :
             bg' = [IdleBg EXCEPT !.pc = "manifest", !.kind = "move",
                                  !.edit = Edit({<<f[1], 1>> : f \in high}, high, vs.log)]
  <2>1. PICK high \in SUBSET vs.ver :
             bg' = [IdleBg EXCEPT !.pc = "manifest", !.kind = "move",
                                  !.edit = Edit({<<f[1], 1>> : f \in high}, high, vs.log)]
    BY <1>4
  <2> DEFINE add == {<<f[1], 1>> : f \in high}
  <2>2. high \in SUBSET File /\ add \in SUBSET File
    BY <1>0 DEF VsType, File
  <2>3. \A g \in add : g[1] < vs.next
    BY <1>0 DEF Data, FreshInv
  <2> DEFINE ed == Edit(add, high, vs.log)
  <2>4. ed \in EditType /\ ed.add = add /\ ed.del = high /\ ed.log = vs.log /\ ed.next = vs.next
    <3> HIDE DEF add
    <3> QED  BY <1>0, <2>2 DEF Edit, EditType
  <2>5. bg' = [IdleBg EXCEPT !.pc = "manifest", !.kind = "move", !.edit = ed]
    BY <2>1
  <2> HIDE DEF ed
  <2>6. bg' \in BgType /\ bg'.pc = "manifest" /\ bg'.kind = "move" /\ bg'.edit = ed /\ bg'.comp = NoComp /\ bg'.num = 0
    BY <2>4, <2>5, IdleFacts DEF BgType
  <2>7. BgFrame
    BY <1>0, <1>1, <2>6, SameVs DEF BgFrame, Served, Control, Typed, TypeHist, HistType, TypeFlags
  <2>8. MoveEditOK'
    BY <1>1, <2>4, <2>6 DEF MoveEditOK
  <2> HIDE DEF add
  <2>9. BgInv'
    BY <1>0, <1>1, <2>3, <2>4, <2>6, <2>8, IdleFacts DEF Data, BgInv, Live, LogInv
  <2> QED  BY <1>0, <1>1, <2>4, <2>6, <2>7, <2>9, QuietBg
<1> QED  BY <1>2, <1>3, <1>4

-----------------------------------------------------------------------------
(* A step of the background thread that may write a table of a new number. *)
LEMMA TableBg ==
  ASSUME Control, Data, Live, BgFrame, UNCHANGED <<logs, manis, imm, vs>>,
         NEW n \in Nat, NEW es \in SUBSET (Nat \X Nat), Unused(n),
         \A e \in es : e \in AllEntries \/ e = <<0, 0>>,
         tables' = tables \/ tables' = With(tables, n, es),
         bg'.pc = "manifest" => bg'.edit.next >= vs.next, BgInv'
  PROVE  Control' /\ Data'
<1>1. /\ vs.next \in Nat /\ vs.mani \in DOMAIN manis /\ Based /\ \A f \in vs.ver : f[1] < vs.next
      /\ mem # 0 /\ mem \in DOMAIN logs /\ vs.log < vs.next /\ vs.log <= mem
  BY DEF Live, Based, Control, Typed, TypeVs, VsType, Data, ManiInv, FreshInv, LogInv, BgInv
<1>2. \A m \in DOMAIN tables' : \/ m \in DOMAIN tables /\ tables'[m] = tables[m]
                                \/ m = n /\ tables'[m] = es
  BY DEF With
<1>3. TypeTables'
  BY <1>2 DEF Control, Typed, TypeTables
<1>4. TablesFrame
  BY <1>2 DEF TablesFrame, Unused
<1>5. \A m : m # n => SameTable(m)
  BY DEF SameTable, With
<1>6. ReadersFrame /\ \A m \in FilesOf(vs.ver) : SameTable(m)
  BY <1>5 DEF ReadersFrame, Unused
<1>7. VersionFrame /\ ManisFrame
  BY <1>1 DEF VersionFrame, ManisFrame
<1>8. ManiInv' /\ TypeManis'
  BY <1>7, ManisKept
<1>9. BoundInv' /\ FreshInv' /\ LogInv' /\ ReadInv' /\ RecoverInv'
  BY <1>3, <1>4, <1>6, <1>7, BgData
<1>10. ContInv'
  BY <1>6, ContKept DEF Data, BgFrame
<1>11. Control'
  BY <1>3, <1>8, BgControl
<1> QED  BY <1>8, <1>9, <1>10, <1>11 DEF Data

(* What a compaction writes.                                               *)
LEMMA EntriesTyped ==
  ASSUME TypeTables, NEW v
  PROVE  TableEntries(v) \in SUBSET (Nat \X Nat) /\ \A e \in TableEntries(v) : e \in AllEntries
BY DEF TypeTables, TableEntries, AllEntries

(* A number the version set knows nothing of stays so.                     *)
LEMMA UnusedKept ==
  ASSUME NEW n, Unused(n), UNCHANGED <<vs, rd>>
  PROVE  Unused(n)'
BY DEF Unused, FilesOf

(* After a flush that failed the compaction it interrupted goes on.        *)
LEMMA FlushFailedFacts ==
  ASSUME Control, Data, Live, FlushFailed, bg.comp.out # bg.num \/ bg.comp.out = 0,
         UNCHANGED <<up, mem, imm, mems, vs, rd, shut, manual>>,
         \A n \in pending : n # bg.num => n \in pending'
  PROVE  bg' \in BgType /\ bg'.pc \in {"none", "compact"} /\ BgInv' /\ Served /\ TypeFlags'
<1>0. bg \in BgType /\ bg.comp \in CompType /\ bg.comp.out \in Nat
  BY DEF Control, Typed, TypeBg, BgType, CompType
<1>1. Served /\ TypeFlags'
  BY DEF FlushFailed, BgEnd, Served, TypeFlags, Schedules, Control, Typed
<1>2. CASE bg.comp = NoComp
  <2>1. bg' = IdleBg
    BY <1>2 DEF FlushFailed, BgEnd
  <2> QED  BY <1>1, <2>1, BgIdle, IdleFacts DEF Data
<1>3. CASE bg.comp # NoComp
  <2>1. bg' = [IdleBg EXCEPT !.pc = "compact", !.comp = bg.comp]
    BY <1>3 DEF FlushFailed
  <2>2. bg' \in BgType /\ bg'.pc = "compact" /\ bg'.num = 0 /\ bg'.kind = "none" /\ bg'.comp = bg.comp
    BY <1>0, <2>1, IdleFacts DEF BgType
  <2>3. \A n \in Nat : Unused(n) => Unused(n)'
    BY UnusedKept
  <2>4. BgInv'
    BY <1>0, <1>3, <2>2, <2>3 DEF Data, BgInv, Live
  <2> QED  BY <1>1, <2>2, <2>4
<1> QED  BY <1>2, <1>3

(* WriteLevel0Table builds the table of the immutable memtable.            *)
LEMMA BuildStep ==
  ASSUME Control, Data, Running, WriteLevel0Table
  PROVE  Control' /\ Data'
<1>0. /\ bg \in BgType /\ bg.comp \in CompType /\ bg.comp.out \in Nat /\ bg.num \in Nat /\ bg.pc = "build"
      /\ vs \in VsType /\ vs.next \in Nat /\ vs.seq \in Nat /\ mem \in Nat /\ pending \subseteq Nat
  BY DEF Control, Typed, TypeBg, BgType, CompType, TypeVs, VsType, TypeMems, WriteLevel0Table
<1>1. Live /\ Based
  BY <1>0, BusyBg DEF Based
<1>2. /\ Unused(bg.num) /\ imm # 0 /\ imm \in DOMAIN mems /\ mem # 0 /\ mem \in DOMAIN mems /\ mem < vs.next
      /\ bg.comp.out # 0 => bg.comp.out # bg.num
  BY <1>0, <1>1 DEF Data, BgInv, FreshInv
<1>3. /\ UNCHANGED <<logs, manis, current, up, queue, rd, mem, imm, mems, vs, shut, manual, hist, rc, plan>>
      /\ pending' = pending \ {bg.num}
  BY DEF WriteLevel0Table, memtables, Running
<1>4. tables' = tables \/ tables' = With(tables, bg.num, mems[imm])
  BY DEF WriteLevel0Table, BuildTable
<1>5. mems[imm] \in SUBSET (Nat \X Nat) /\ \A e \in mems[imm] : e \in AllEntries
  BY <1>2 DEF Control, Typed, TypeMems, Entry, AllEntries
<1>6. bg' \in BgType /\ BgInv' /\ Served /\ TypeFlags' /\ (bg'.pc = "manifest" => bg'.edit.next >= vs.next)
  <2>1. CASE FlushFailed
    BY <1>1, <1>2, <1>3, <2>1, FlushFailedFacts
  <2>2. CASE ~FlushFailed
    <3>1. PICK level \in {0, 1} : bg' = FlushEdit(IF mems[imm] = {} THEN {} ELSE {<<bg.num, level>>})
      BY <2>2 DEF WriteLevel0Table
    <3>2. cl' = cl /\ err' = err /\ sched' = sched /\ tables' = BuildTable(mems[imm])
      BY <2>2 DEF WriteLevel0Table
    <3> DEFINE add == IF mems[imm] = {} THEN {} ELSE {<<bg.num, level>>}
               ed == Edit(add, {}, mem)
    <3>3. add \in SUBSET File /\ \A f \in add : f[1] < vs.next
      BY <1>0, <1>2 DEF File, Unused
    <3>4. \/ mems[imm] = {} /\ add = {}
          \/ mems[imm] # {} /\ add \in {{<<bg.num, 0>>}, {<<bg.num, 1>>}}
      OBVIOUS
    <3> HIDE DEF add
    <3>5. ed \in EditType /\ ed.add = add /\ ed.del = {} /\ ed.log = mem /\ ed.next = vs.next
      BY <1>0, <3>3 DEF Edit, EditType
    <3>6. bg' = [bg EXCEPT !.pc = "manifest", !.kind = "flush", !.edit = ed]
      BY <3>1 DEF FlushEdit, add
    <3> HIDE DEF ed
    <3>7. /\ bg' \in BgType /\ bg'.pc = "manifest" /\ bg'.kind = "flush" /\ bg'.edit = ed
          /\ bg'.num = bg.num /\ bg'.comp = bg.comp
      BY <1>0, <3>5, <3>6 DEF BgType
    <3>8. FlushEditOK'
      <4>1. mems[imm] # {} => bg.num \in DOMAIN tables' /\ tables'[bg.num] = mems[imm]
        BY <3>2 DEF BuildTable, With
      <4> QED  BY <1>2, <1>3, <3>4, <3>5, <3>7, <4>1 DEF FlushEditOK
    <3>9. \A n \in Nat : Unused(n) => Unused(n)'
      BY <1>3, UnusedKept
    <3>10. BgInv'
      BY <1>0, <1>1, <1>2, <1>3, <3>3, <3>5, <3>7, <3>8, <3>9 DEF Data, BgInv, Live
    <3>11. Served /\ TypeFlags'
      BY <1>3, <3>2 DEF Served, TypeFlags, Control, Typed
    <3> QED  BY <1>0, <3>5, <3>7, <3>10, <3>11
  <2> QED  BY <2>1, <2>2
<1>7. BgFrame
  BY <1>0, <1>3, <1>6, SameVs DEF BgFrame, Control, Typed, TypeHist, HistType
<1> QED  BY <1>0, <1>1, <1>2, <1>3, <1>4, <1>5, <1>6, <1>7, TableBg

(* A flush whose edit the manifest refused.                                *)
LEMMA FlushRefusedStep ==
  ASSUME Control, Data, Running, FlushDone, bg.pc = "refused"
  PROVE  Control' /\ Data'
<1>0. bg.kind = "flush" /\ bg \in BgType /\ bg.comp.out \in Nat /\ pending \subseteq Nat
  BY DEF Control, Typed, TypeBg, BgType, CompType, FlushDone
<1>1. Live
  BY <1>0, BusyBg
<1>2. /\ UNCHANGED <<logs, tables, manis, current, up, queue, rd, mem, imm, mems, vs, pending, shut, manual, hist, rc, plan>>
      /\ FlushFailed
  BY DEF FlushDone, Running
<1>3. bg.comp.out # 0 => bg.comp.out # bg.num
  BY <1>1 DEF Data, BgInv
<1>4. bg' \in BgType /\ BgInv' /\ Served /\ TypeFlags' /\ bg'.pc \in {"none", "compact"}
  BY <1>1, <1>2, <1>3, FlushFailedFacts
<1>5. BgFrame
  BY <1>0, <1>2, <1>4, SameVs DEF BgFrame, Control, Typed, TypeHist, HistType
<1> QED  BY <1>1, <1>2, <1>4, <1>5, SameVs, QuietBg

(* A compaction that failed, in the table or in the manifest, or that a    *)
(* shutdown stopped.                                                       *)
LEMMA CompactFailedStep ==
  ASSUME Control, Data, Running, NEW tb, CompactFailed(tb),
         bg.pc # "none", tb = tables \/ (bg.comp.out # 0 /\ tb = With(tables, bg.comp.out, Garbage)),
         UNCHANGED <<current, up, queue, rd, memtables, vs, shut, hist>>
  PROVE  Control' /\ Data'
<1>0. /\ bg \in BgType /\ bg.comp \in CompType /\ bg.comp.out \in Nat /\ pending \subseteq Nat
  BY DEF Control, Typed, TypeBg, BgType, CompType
<1>1. Live /\ Based
  BY BusyBg DEF Based
<1>2. /\ UNCHANGED <<logs, manis, current, up, queue, rd, mem, imm, mems, vs, shut, hist, rc, plan>>
      /\ pending' \subseteq Nat /\ tables' = tb
  BY <1>0 DEF CompactFailed, DeleteObsoleteFiles, Running, memtables
<1>3. Served /\ TypeFlags' /\ bg' \in {IdleBg, FallenBg} /\ bg' \in BgType /\ bg'.pc # "manifest"
  <2>1. CompactEnd(vs, TRUE, TRUE) /\ err' = TRUE /\ TypeFlags
    BY DEF CompactFailed, Control, Typed
  <2>2. /\ bg' \in {IdleBg, FallenBg} /\ bg' \in BgType /\ bg'.pc \in {"none", "segfault"}
        /\ Served /\ manual' \in {manual, NoClient} /\ sched' \in BOOLEAN
    BY <2>1, CompactEnded DEF TypeFlags
  <2> QED  BY <1>2, <2>1, <2>2 DEF TypeFlags
<1>4. BgInv'
  BY <1>1, <1>2, <1>3, BgIdle DEF Data
<1>5. BgFrame
  BY <1>0, <1>2, <1>3, SameVs DEF BgFrame, Control, Typed, TypeHist, HistType
<1>6. CASE tb = tables
  BY <1>1, <1>2, <1>3, <1>4, <1>5, <1>6, SameVs, QuietBg
<1>7. CASE bg.comp.out # 0 /\ tb = With(tables, bg.comp.out, Garbage)
  <2>1. Unused(bg.comp.out)
    BY <1>1, <1>7 DEF Data, BgInv
  <2>2. Garbage \in SUBSET (Nat \X Nat) /\ \A e \in Garbage : e = <<0, 0>>
    BY DEF Garbage
  <2> QED  BY <1>0, <1>1, <1>2, <1>3, <1>4, <1>5, <1>7, <2>1, <2>2, TableBg
<1> QED  BY <1>6, <1>7

(* The output of a compaction is complete.                                 *)
LEMMA OutputStep ==
  ASSUME Control, Data, Running, FinishCompactionOutputFile
  PROVE  Control' /\ Data'
<1>0. /\ bg \in BgType /\ bg.comp \in CompType /\ bg.comp.out \in Nat /\ bg.comp.inputs \in SUBSET File
      /\ pending \subseteq Nat /\ bg.pc = "compact" /\ bg.comp.out # 0
      /\ vs \in VsType /\ vs.next \in Nat /\ vs.seq \in Nat /\ vs.log \in Nat
  BY DEF Control, Typed, TypeBg, BgType, CompType, TypeVs, VsType, FinishCompactionOutputFile
<1>1. Live /\ Based
  BY <1>0, BusyBg DEF Based
<1>2. CASE "table" \in plan.faults /\ CompactFailed(With(tables, bg.comp.out, Garbage))
  <2>1. UNCHANGED <<current, up, queue, rd, memtables, vs, shut, hist>>
    BY DEF FinishCompactionOutputFile
  <2> DEFINE tb == With(tables, bg.comp.out, Garbage)
  <2>2. CompactFailed(tb) /\ bg.pc # "none" /\ (tb = tables \/ (bg.comp.out # 0 /\ tb = With(tables, bg.comp.out, Garbage)))
    BY <1>0, <1>2
  <2> HIDE DEF tb
  <2> QED  BY <2>1, <2>2, CompactFailedStep
<1>3. CASE ~("table" \in plan.faults /\ CompactFailed(With(tables, bg.comp.out, Garbage)))
  <2>1. /\ UNCHANGED <<logs, manis, current, up, queue, cl, rd, mem, imm, mems, vs, pending, err, sched, shut, manual,
                       hist, rc, plan>>
        /\ tables' = With(tables, bg.comp.out, TableEntries(bg.comp.inputs))
        /\ bg' = [bg EXCEPT !.pc = "manifest", !.kind = "compact",
                    !.edit = Edit({<<bg.comp.out, 1>>}, bg.comp.inputs, vs.log)]
    BY <1>3 DEF FinishCompactionOutputFile, memtables, Running
  <2>2. Unused(bg.comp.out) /\ bg.comp.inputs \subseteq vs.ver
    BY <1>0, <1>1 DEF Data, BgInv
  <2> DEFINE ed == Edit({<<bg.comp.out, 1>>}, bg.comp.inputs, vs.log)
  <2>3. /\ ed \in EditType /\ ed.add = {<<bg.comp.out, 1>>} /\ ed.del = bg.comp.inputs /\ ed.log = vs.log
        /\ ed.next = vs.next
    BY <1>0 DEF Edit, EditType, File
  <2>4. bg' = [bg EXCEPT !.pc = "manifest", !.kind = "compact", !.edit = ed]
    BY <2>1
  <2> HIDE DEF ed
  <2>5. /\ bg' \in BgType /\ bg'.pc = "manifest" /\ bg'.kind = "compact" /\ bg'.edit = ed
        /\ bg'.num = bg.num /\ bg'.comp = bg.comp
    BY <1>0, <2>3, <2>4 DEF BgType
  <2>6. /\ bg.comp.out \in DOMAIN tables' /\ tables'[bg.comp.out] = TableEntries(bg.comp.inputs)
        /\ \A n : n # bg.comp.out => SameTable(n)
    BY <2>1 DEF With, SameTable
  <2>7. TableEntries(bg.comp.inputs)' = TableEntries(bg.comp.inputs)
    <3>1. \A n \in FilesOf(bg.comp.inputs) : SameTable(n)
      BY <2>2, <2>6 DEF Unused, FilesOf
    <3>2. UNION {tables'[n] : n \in FilesOf(bg.comp.inputs) \cap DOMAIN tables'} = TableEntries(bg.comp.inputs)
      BY <3>1, EntriesKept
    <3> QED  BY <2>5, <3>2 DEF TableEntries, FilesOf
  <2>8. CompactEditOK'
    BY <1>0, <2>1, <2>3, <2>5, <2>6, <2>7 DEF CompactEditOK
  <2>9. \A n \in Nat : Unused(n) => Unused(n)'
    BY <2>1, UnusedKept
  <2>10. \A f \in ed.add : f[1] < vs.next
    BY <2>2, <2>3 DEF Unused
  <2>11. BgInv'
    <3>1. /\ mem # 0 /\ imm # mem /\ (imm # 0 => imm \in DOMAIN mems) /\ bg.comp.inputs # {}
          /\ bg.comp.out # bg.num /\ bg.comp.out \in pending /\ vs.log < vs.next
      BY <1>0, <1>1 DEF Data, BgInv, LogInv
    <3>2. Unused(bg.comp.out)'
      BY <1>0, <2>2, <2>5, <2>9
    <3>3. UNCHANGED <<mem, imm, mems, vs, pending>>
      BY <2>1
    <3>4. bg'.edit.next = vs.next /\ bg'.edit.log = vs.log /\ bg'.edit.add = ed.add /\ bg'.comp # NoComp
      BY <2>3, <2>5, <3>1, IdleFacts
    <3> QED  BY <1>0, <2>2, <2>5, <2>8, <2>10, <3>1, <3>2, <3>3, <3>4 DEF BgInv
  <2>12. BgFrame
    BY <1>0, <2>1, <2>5, SameVs DEF BgFrame, Served, Control, Typed, TypeHist, HistType, TypeFlags
  <2>13. TableEntries(bg.comp.inputs) \in SUBSET (Nat \X Nat) /\ \A e \in TableEntries(bg.comp.inputs) : e \in AllEntries
    BY EntriesTyped DEF Control, Typed
  <2> DEFINE es == TableEntries(bg.comp.inputs)
  <2>14. tables' = With(tables, bg.comp.out, es) /\ es \in SUBSET (Nat \X Nat) /\ \A e \in es : e \in AllEntries
    BY <2>1, <2>13
  <2> HIDE DEF es
  <2>15. bg'.edit.next >= vs.next
    BY <1>0, <2>3, <2>5
  <2> QED  BY <1>0, <1>1, <2>1, <2>2, <2>11, <2>12, <2>14, <2>15, TableBg
<1> QED  BY <1>2, <1>3

(* A compaction ends at shutdown or because its edit is refused.           *)
LEMMA CompactStopStep ==
  ASSUME Control, Data, Running, CompactShutDown \/ (CompactDone /\ bg.pc = "refused")
  PROVE  Control' /\ Data'
<1>1. CompactFailed(tables) /\ bg.pc # "none" /\ UNCHANGED <<current, up, queue, rd, memtables, vs, shut, hist>>
  BY DEF CompactShutDown, CompactDone
<1> QED  BY <1>1, CompactFailedStep

-----------------------------------------------------------------------------
(* An edit behind the records of a manifest.                               *)
LEMMA ManifestAppend ==
  ASSUME NEW recs \in Seq(EditType), ManifestOK(recs), NEW e \in EditType, e.log < e.next,
         \A f \in e.add : f[1] < e.next, \A i \in 1..Len(recs) : recs[i].next <= e.next
  PROVE  ManifestOK(Append(recs, e))
<1> DEFINE s == Append(recs, e)
<1>1. /\ Len(recs) \in Nat /\ Len(s) = Len(recs) + 1 /\ s[Len(recs) + 1] = e
      /\ \A i \in 1..Len(recs) : s[i] = recs[i]
  OBVIOUS
<1> HIDE DEF s
<1>2. e.next \in Nat
  BY DEF EditType
<1>3. \A i \in 1..Len(s) : s[i].log < s[i].next /\ \A f \in s[i].add : f[1] < s[i].next
  BY <1>1 DEF ManifestOK
<1>4. \A i, j \in 1..Len(s) : i <= j => s[i].next <= s[j].next
  BY <1>1, <1>2 DEF ManifestOK
<1> QED  BY <1>3, <1>4 DEF ManifestOK, s

(* LogAndApply appends the edit to the manifest and syncs it.              *)
LEMMA WriteManifestStep ==
  ASSUME Control, Data, Running, WriteManifest
  PROVE  Control' /\ Data'
<1>0. /\ bg \in BgType /\ bg.edit \in EditType /\ pending \subseteq Nat /\ bg.pc = "manifest" /\ TypeManis
      /\ vs \in VsType /\ vs.next \in Nat /\ hist \in HistType /\ bg.edit.next \in Nat
  BY DEF Control, Typed, TypeBg, BgType, EditType, TypeVs, VsType, TypeHist, WriteManifest
<1>1. Live /\ Live' /\ Based
  BY <1>0, BusyBg DEF Based, WriteManifest, Live
<1>2. /\ UNCHANGED <<logs, tables, current, up, queue, cl, rd, mem, imm, mems, vs, pending, err, sched, shut, manual,
                     rc, plan>>
      /\ bg' = [bg EXCEPT !.pc = "install"] \/ bg' = [bg EXCEPT !.pc = "refused"]
  BY DEF WriteManifest, memtables, flags, Running
<1>3. /\ bg' \in BgType /\ bg'.pc \in {"install", "refused"} /\ bg'.kind = bg.kind /\ bg'.edit = bg.edit
      /\ bg'.num = bg.num /\ bg'.comp = bg.comp
  BY <1>0, <1>2 DEF BgType
<1>4. vs.mani \in DOMAIN manis /\ FileOK(manis[vs.mani], EditType)
  BY <1>0, <1>1 DEF Data, ManiInv, TypeManis
<1>5. PICK g : /\ FileOK(g, EditType) /\ manis' = [manis EXCEPT ![vs.mani] = g]
               /\ g.recs = manis[vs.mani].recs \/ g.recs = Append(manis[vs.mani].recs, bg.edit)
               /\ \E b \in BOOLEAN : hist' = [hist EXCEPT !.damaged = b]
  <2>1. CASE \E f \in Appended(manis[vs.mani], bg.edit) :
               /\ manis' = [manis EXCEPT ![vs.mani] = SyncedFile(f)]
               /\ hist' = [hist EXCEPT !.damaged = @ \/ f.tear = 2]
    <3>1. PICK f \in Appended(manis[vs.mani], bg.edit) :
               /\ manis' = [manis EXCEPT ![vs.mani] = SyncedFile(f)]
               /\ hist' = [hist EXCEPT !.damaged = @ \/ f.tear = 2]
      BY <2>1
    <3>2. FileOK(f, EditType) /\ (f.recs = manis[vs.mani].recs \/ f.recs = Append(manis[vs.mani].recs, bg.edit))
      BY <1>0, <1>4, <3>1, AppendedFacts
    <3>3. FileOK(SyncedFile(f), EditType) /\ SyncedFile(f).recs = f.recs
      BY <3>2, SyncedFacts
    <3> QED  BY <3>1, <3>2, <3>3
  <2>2. CASE \E f \in AppendFailed(manis[vs.mani]) \cup Appended(manis[vs.mani], bg.edit) :
               /\ manis' = [manis EXCEPT ![vs.mani] = f]
               /\ hist' = [hist EXCEPT !.damaged = @ \/ f.tear = 2]
    <3>1. PICK f \in AppendFailed(manis[vs.mani]) \cup Appended(manis[vs.mani], bg.edit) :
               /\ manis' = [manis EXCEPT ![vs.mani] = f]
               /\ hist' = [hist EXCEPT !.damaged = @ \/ f.tear = 2]
      BY <2>2
    <3>2. FileOK(f, EditType) /\ (f.recs = manis[vs.mani].recs \/ f.recs = Append(manis[vs.mani].recs, bg.edit))
      BY <1>0, <1>4, <3>1, AppendedFacts, AppendFailedFacts
    <3> QED  BY <3>1, <3>2
  <2> QED  BY <2>1, <2>2 DEF WriteManifest
<1>6. TypeHist' /\ hist'.applied = hist.applied
  BY <1>0, <1>5 DEF TypeHist, HistType
<1>7. BgFrame
  BY <1>0, <1>2, <1>3, <1>6, SameVs DEF BgFrame, Served, Control, Typed, TypeFlags
<1>8. DOMAIN manis' = DOMAIN manis /\ manis'[vs.mani] = g /\ \A m \in DOMAIN manis : m # vs.mani => manis'[m] = manis[m]
  BY <1>4, <1>5
<1>9. TypeManis'
  BY <1>0, <1>2, <1>5, <1>8 DEF TypeManis
<1>10. /\ bg.edit.next <= vs.next /\ bg.edit.log < bg.edit.next /\ \A f \in bg.edit.add : f[1] < bg.edit.next
  BY <1>0, <1>1 DEF Data, BgInv
<1>11. ManifestOK(g.recs) /\ \A i \in 1..Len(g.recs) : g.recs[i].next <= vs.next
  <2>1. /\ ManifestOK(manis[vs.mani].recs)
        /\ \A i \in 1..Len(manis[vs.mani].recs) : /\ manis[vs.mani].recs[i].next <= vs.next
                                                  /\ manis[vs.mani].recs[i].next <= bg.edit.next
    BY <1>0, <1>1, <1>4 DEF Data, ManiInv
  <2>2. CASE g.recs = manis[vs.mani].recs
    BY <2>1, <2>2
  <2>3. CASE g.recs = Append(manis[vs.mani].recs, bg.edit)
    <3>1. manis[vs.mani].recs \in Seq(EditType)
      BY <1>4 DEF FileOK, FileType
    <3>2. ManifestOK(g.recs)
      BY <1>0, <1>10, <2>1, <2>3, <3>1, ManifestAppend
    <3>3. \A i \in 1..Len(g.recs) : g.recs[i] = bg.edit \/ (i \in 1..Len(manis[vs.mani].recs) /\ g.recs[i] = manis[vs.mani].recs[i])
      BY <2>3, <3>1
    <3> QED  BY <1>10, <2>1, <3>2, <3>3
  <2> QED  BY <1>5, <2>2, <2>3
<1>12. ManiInv'
  BY <1>1, <1>2, <1>3, <1>4, <1>8, <1>11 DEF Data, ManiInv
<1>13. TablesFrame /\ ReadersFrame /\ VersionFrame /\ TypeTables' /\ \A n : SameTable(n)
  <2>1. mem # 0 /\ mem \in DOMAIN logs /\ vs.log <= mem /\ vs.log < vs.next /\ \A f \in vs.ver : f[1] < vs.next
    BY <1>1 DEF Data, BgInv, LogInv, FreshInv
  <2> QED  BY <1>2, <2>1 DEF TablesFrame, ReadersFrame, VersionFrame, SameTable, Control, Typed, TypeTables
<1>14. BoundInv' /\ FreshInv' /\ LogInv' /\ ReadInv' /\ RecoverInv'
  BY <1>1, <1>7, <1>13, BgData
<1>15. ContInv'
  BY <1>1, <1>2, <1>6, <1>13, ContKept DEF Data
<1>16. BgInv'
  <2>1. \A n \in Nat : Unused(n) => Unused(n)'
    BY <1>2, UnusedKept
  <2>2. /\ bg.comp.out \in Nat /\ bg.num \in Nat
    BY <1>0 DEF BgType, CompType
  <2> QED  BY <1>0, <1>1, <1>2, <1>3, <2>1, <2>2
            DEF Data, BgInv, FlushEditOK, MoveEditOK, CompactEditOK, TableEntries, FilesOf
<1>17. Control'
  BY <1>1, <1>7, <1>9, <1>13, BgControl
<1> QED  BY <1>12, <1>14, <1>15, <1>16, <1>17 DEF Data

-----------------------------------------------------------------------------
(* What DeleteObsoleteFiles keeps.                                         *)
LEMMA DeleteFacts ==
  ASSUME NEW v, NEW pend, NEW inputs, NEW e \in BOOLEAN, DeleteObsoleteFiles(tables, v, pend, inputs, e)
  PROVE  /\ \A n \in DOMAIN logs' : n \in DOMAIN logs /\ logs'[n] = logs[n]
         /\ \A n \in DOMAIN logs : n >= v.log => n \in DOMAIN logs'
         /\ \A m \in DOMAIN manis' : m \in DOMAIN manis /\ manis'[m] = manis[m]
         /\ \A m \in DOMAIN manis : m >= v.mani => m \in DOMAIN manis'
         /\ \A n \in DOMAIN tables' : n \in DOMAIN tables /\ tables'[n] = tables[n]
         /\ \A n \in LiveFiles(v, pend, inputs) : SameTable(n)
<1>1. CASE e
  BY <1>1 DEF DeleteObsoleteFiles, SameTable
<1>2. CASE ~e
  BY <1>2 DEF DeleteObsoleteFiles, Kept, SameTable
<1> QED  BY <1>1, <1>2

(* The entries of two versions together.                                   *)
LEMMA EntriesOfUnion ==
  ASSUME NEW v, NEW w
  PROVE  TableEntries(v \cup w) = TableEntries(v) \cup TableEntries(w)
BY DEF TableEntries, FilesOf

(* The number of one file.                                                 *)
LEMMA FileOfOne ==
  ASSUME NEW n, NEW l
  PROVE  FilesOf({<<n, l>>}) = {n}
BY DEF FilesOf

(* A trivial move keeps the numbers.                                       *)
LEMMA FilesMoved ==
  ASSUME NEW d
  PROVE  FilesOf({<<f[1], 1>> : f \in d}) = FilesOf(d)
<1> DEFINE g == {<<f[1], 1>> : f \in d}
<1>1. \A f \in d : <<f[1], 1>>[1] = f[1]
  OBVIOUS
<1>2. ASSUME NEW n  PROVE n \in FilesOf(g) <=> \E f \in d : n = f[1]
  <2>1. n \in FilesOf(g) <=> \E h \in g : n = h[1]
    BY DEF FilesOf
  <2> QED  BY <1>1, <2>1
<1> HIDE DEF g
<1>3. FilesOf(g) = FilesOf(d)
  BY <1>2 DEF FilesOf
<1> QED  BY <1>3 DEF g

(* The version that an edit makes holds the entries it held, and those of  *)
(* the memtable that was flushed.                                          *)
LEMMA InstalledFacts ==
  ASSUME Control, Data, Live, bg.pc = "install"
  PROVE  /\ Installed \in VsType /\ Installed.next = vs.next /\ Installed.seq = vs.seq /\ Installed.mani = vs.mani
         /\ Installed.ver = (vs.ver \ bg.edit.del) \cup bg.edit.add /\ Installed.log = bg.edit.log
         /\ Installed.log < vs.next /\ Installed.log <= mem
         /\ \A f \in Installed.ver : f[1] < vs.next
         /\ bg.kind = "flush" => /\ imm # 0 /\ Installed.ver = vs.ver \cup bg.edit.add
                                 /\ TableEntries(Installed.ver) = TableEntries(vs.ver) \cup mems[imm]
                                 /\ FilesOf(Installed.ver) \subseteq FilesOf(vs.ver) \cup {bg.num}
         /\ bg.kind # "flush" => TableEntries(Installed.ver) = TableEntries(vs.ver)
<1>0. /\ bg \in BgType /\ bg.edit \in EditType /\ bg.edit.log \in Nat /\ bg.edit.add \in SUBSET File
      /\ bg.edit.next \in Nat /\ vs \in VsType /\ vs.ver \in SUBSET File /\ vs.next \in Nat /\ vs.log \in Nat
      /\ mem \in Nat /\ Based
  BY DEF Control, Typed, TypeBg, BgType, EditType, TypeVs, VsType, TypeMems, Based
<1>1. /\ Installed \in VsType /\ Installed.next = vs.next /\ Installed.seq = vs.seq /\ Installed.mani = vs.mani
      /\ Installed.ver = (vs.ver \ bg.edit.del) \cup bg.edit.add /\ Installed.log = bg.edit.log
  <2> DEFINE a == (vs.ver \ bg.edit.del) \cup bg.edit.add
             b == bg.edit.log
  <2>1. a \in SUBSET File /\ b \in Nat /\ Installed = [vs EXCEPT !.ver = a, !.log = b, !.seek = FALSE]
    BY <1>0 DEF Installed
  <2> HIDE DEF a, b
  <2>2. /\ Installed \in VsType /\ Installed.next = vs.next /\ Installed.seq = vs.seq /\ Installed.mani = vs.mani
        /\ Installed.ver = a /\ Installed.log = b
    BY <1>0, <2>1 DEF VsType
  <2> QED  BY <2>2 DEF a, b
<1>2. /\ bg.edit.next <= vs.next /\ bg.edit.log < bg.edit.next
      /\ \A f \in bg.edit.add : f[1] < bg.edit.next
      /\ \/ bg.kind = "flush" /\ FlushEditOK
         \/ bg.kind = "move" /\ MoveEditOK
         \/ bg.kind = "compact" /\ CompactEditOK
      /\ bg.comp.inputs \subseteq vs.ver
  BY DEF Data, BgInv
<1>3. mem # 0 /\ vs.log <= mem
  BY <1>0 DEF Data, BgInv, LogInv
<1>4. \A f \in vs.ver : f[1] \in Nat /\ f[1] < vs.next
  BY <1>0 DEF Data, FreshInv, File
<1>5. \A f \in bg.edit.add : f[1] \in Nat /\ f[1] < vs.next
  BY <1>0, <1>2 DEF File
<1>6. Installed.log < vs.next /\ Installed.log <= mem
  BY <1>0, <1>1, <1>2, <1>3 DEF FlushEditOK, MoveEditOK, CompactEditOK
<1>7. \A f \in Installed.ver : f[1] < vs.next
  BY <1>1, <1>4, <1>5
<1>8. ASSUME bg.kind = "flush"
      PROVE  /\ imm # 0 /\ Installed.ver = vs.ver \cup bg.edit.add
             /\ TableEntries(Installed.ver) = TableEntries(vs.ver) \cup mems[imm]
             /\ FilesOf(Installed.ver) \subseteq FilesOf(vs.ver) \cup {bg.num}
  <2>1. FlushEditOK
    BY <1>2, <1>8
  <2>2. Installed.ver = vs.ver \cup bg.edit.add
    BY <1>1, <2>1 DEF FlushEditOK
  <2>3. TableEntries(bg.edit.add) = mems[imm] /\ FilesOf(bg.edit.add) \subseteq {bg.num}
    <3>1. CASE bg.edit.add = {} /\ mems[imm] = {}
      BY <3>1 DEF TableEntries, FilesOf
    <3>2. CASE ~(bg.edit.add = {} /\ mems[imm] = {})
      <4>1. bg.num \in DOMAIN tables /\ tables[bg.num] = mems[imm]
        BY <2>1, <3>2 DEF FlushEditOK
      <4>2. FilesOf(bg.edit.add) = {bg.num}
        BY <2>1, <3>2, FileOfOne DEF FlushEditOK
      <4> QED  BY <4>1, <4>2 DEF TableEntries
    <3> QED  BY <3>1, <3>2
  <2>4. FilesOf(Installed.ver) = FilesOf(vs.ver) \cup FilesOf(bg.edit.add)
    BY <2>2 DEF FilesOf
  <2> QED  BY <2>1, <2>2, <2>3, <2>4, EntriesOfUnion DEF FlushEditOK
<1>9. ASSUME bg.kind # "flush"
      PROVE  TableEntries(Installed.ver) = TableEntries(vs.ver)
  <2>1. CASE bg.kind = "move"
    <3>1. /\ bg.edit.del \subseteq vs.ver /\ bg.edit.add = {<<f[1], 1>> : f \in bg.edit.del}
      BY <1>2, <2>1 DEF MoveEditOK
    <3>2. FilesOf(bg.edit.add) = FilesOf(bg.edit.del)
      BY <3>1, FilesMoved
    <3>3. FilesOf(Installed.ver) = FilesOf(vs.ver)
      <4>1. FilesOf(Installed.ver) = FilesOf(vs.ver \ bg.edit.del) \cup FilesOf(bg.edit.add)
        BY <1>1 DEF FilesOf
      <4>2. FilesOf(vs.ver) = FilesOf(vs.ver \ bg.edit.del) \cup FilesOf(bg.edit.del)
        BY <3>1 DEF FilesOf
      <4> QED  BY <3>2, <4>1, <4>2
    <3> QED  BY <3>3 DEF TableEntries
  <2>2. CASE bg.kind = "compact"
    <3>1. /\ bg.edit.add = {<<bg.comp.out, 1>>} /\ bg.edit.del = bg.comp.inputs
          /\ bg.comp.out \in DOMAIN tables /\ tables[bg.comp.out] = TableEntries(bg.comp.inputs)
      BY <1>2, <2>2 DEF CompactEditOK
    <3>2. TableEntries(bg.edit.add) = TableEntries(bg.comp.inputs)
      <4>1. FilesOf(bg.edit.add) = {bg.comp.out}
        BY <3>1 DEF FilesOf
      <4> QED  BY <3>1, <4>1 DEF TableEntries
    <3>3. vs.ver = (vs.ver \ bg.comp.inputs) \cup bg.comp.inputs
      BY <1>2
    <3>4. TableEntries(vs.ver) = TableEntries(vs.ver \ bg.comp.inputs) \cup TableEntries(bg.comp.inputs)
      BY <3>3, EntriesOfUnion
    <3>5. TableEntries(Installed.ver) = TableEntries(vs.ver \ bg.comp.inputs) \cup TableEntries(bg.edit.add)
      BY <1>1, <3>1, EntriesOfUnion
    <3> QED  BY <3>2, <3>4, <3>5
  <2> QED  BY <1>2, <1>9, <2>1, <2>2
<1> QED  BY <1>1, <1>6, <1>7, <1>8, <1>9

-----------------------------------------------------------------------------
(* The new version is installed and what it does not need is deleted.      *)
LEMMA InstallDone ==
  ASSUME Control, Data, Live, bg.pc = "install", BgFrame, BgInv', vs' = Installed, ManisFrame,
         \A n \in DOMAIN logs : n >= Installed.log => n \in DOMAIN logs',
         \A n \in DOMAIN tables' : n \in DOMAIN tables /\ tables'[n] = tables[n],
         \A n \in FilesOf(Installed.ver) : SameTable(n),
         \A r \in Readers : \A n \in FilesOf(rd[r].ver) : SameTable(n),
         IF bg.kind = "flush" THEN imm' = 0 ELSE imm' = imm
  PROVE  Control' /\ Data'
<1>0. Based /\ vs.next \in Nat /\ mem # 0 /\ mem \in DOMAIN logs
  BY DEF Control, Typed, TypeVs, VsType, Based, Data, LogInv, BgInv
<1>1. /\ Installed.next = vs.next /\ Installed.log < vs.next /\ Installed.log <= mem
      /\ \A f \in Installed.ver : f[1] < vs.next
  BY InstalledFacts
<1>2. VersionFrame
  <2>1. mem \in DOMAIN logs' /\ mem \in Nat /\ Installed.log \in Nat
    BY <1>0, <1>1, InstalledFacts DEF Control, Typed, TypeMems, VsType
  <2> QED  BY <1>1, <2>1 DEF VersionFrame
<1>3. TypeTables' /\ TablesFrame /\ ReadersFrame
  BY DEF Control, Typed, TypeTables, TablesFrame, ReadersFrame
<1>4. ManiInv' /\ TypeManis'
  BY ManisKept
<1>5. BoundInv' /\ FreshInv' /\ LogInv' /\ ReadInv' /\ RecoverInv'
  BY <1>2, <1>3, BgData
<1>6. ContInv'
  <2>1. hist'.applied = (UNION {mems[n] : n \in {mem, imm} \ {0}}) \cup TableEntries(vs.ver)
    BY DEF Data, ContInv, Contents, BgFrame
  <2>2. UNION {tables'[n] : n \in FilesOf(Installed.ver) \cap DOMAIN tables'} = TableEntries(Installed.ver)
    BY EntriesKept
  <2>3. TableEntries(vs.ver)' = TableEntries(Installed.ver)
    BY <2>2 DEF TableEntries, FilesOf
  <2>4. mem' = mem /\ mems' = mems
    BY DEF BgFrame
  <2>5. CASE bg.kind = "flush"
    <3>1. imm' = 0 /\ imm # 0 /\ TableEntries(Installed.ver) = TableEntries(vs.ver) \cup mems[imm]
      BY <2>5, InstalledFacts
    <3>2. {mem', imm'} \ {0} = {mem} /\ {mem, imm} \ {0} = {mem, imm}
      BY <1>0, <2>4, <3>1
    <3>3. hist'.applied = mems[mem] \cup mems[imm] \cup TableEntries(vs.ver)
      BY <2>1, <3>2
    <3>4. (UNION {mems'[n] : n \in {mem', imm'} \ {0}}) = mems[mem]
      BY <2>4, <3>2
    <3> QED  BY <2>3, <3>1, <3>3, <3>4 DEF ContInv, Contents
  <2>6. CASE bg.kind # "flush"
    <3>1. imm' = imm /\ TableEntries(Installed.ver) = TableEntries(vs.ver)
      BY <2>6, InstalledFacts
    <3> QED  BY <2>1, <2>3, <2>4, <3>1 DEF ContInv, Contents
  <2> QED  BY <2>5, <2>6
<1>7. Control'
  BY <1>3, <1>4, BgControl
<1> QED  BY <1>4, <1>5, <1>6, <1>7 DEF Data

(* The version with the flushed memtable is installed.                     *)
LEMMA FlushInstallStep ==
  ASSUME Control, Data, Running, FlushDone, bg.pc = "install"
  PROVE  Control' /\ Data'
<1>0. /\ bg.kind = "flush" /\ bg \in BgType /\ bg.comp \in CompType /\ bg.comp.out \in Nat /\ pending \subseteq Nat
      /\ err \in BOOLEAN
  BY DEF Control, Typed, TypeBg, BgType, CompType, FlushDone, TypeFlags
<1>1. Live
  BY <1>0, BusyBg
<1>2. /\ vs' = Installed /\ imm' = 0 /\ UNCHANGED <<current, up, queue, rd, mem, mems, pending, err, shut, manual, hist, rc, plan>>
      /\ DeleteObsoleteFiles(tables, Installed, pending, FilesOf(bg.comp.inputs), err)
      /\ \/ bg.comp = NoComp /\ BgEnd(0, manual, Installed, err, cl)
         \/ /\ bg.comp # NoComp /\ bg' = [IdleBg EXCEPT !.pc = "compact", !.comp = bg.comp]
            /\ cl' = SignalAll(cl) /\ UNCHANGED sched
  BY DEF FlushDone, Running
<1>3. /\ \A n \in DOMAIN logs' : n \in DOMAIN logs /\ logs'[n] = logs[n]
      /\ \A n \in DOMAIN logs : n >= Installed.log => n \in DOMAIN logs'
      /\ \A m \in DOMAIN manis' : m \in DOMAIN manis /\ manis'[m] = manis[m]
      /\ \A m \in DOMAIN manis : m >= Installed.mani => m \in DOMAIN manis'
      /\ \A n \in DOMAIN tables' : n \in DOMAIN tables /\ tables'[n] = tables[n]
      /\ \A n \in LiveFiles(Installed, pending, FilesOf(bg.comp.inputs)) : SameTable(n)
  BY <1>0, <1>2, DeleteFacts
<1>4. /\ \A n \in FilesOf(Installed.ver) : SameTable(n)
      /\ \A r \in Readers : \A n \in FilesOf(rd[r].ver) : SameTable(n)
  BY <1>3 DEF LiveFiles
<1>5. /\ Installed \in VsType /\ Installed.next = vs.next /\ Installed.seq = vs.seq /\ Installed.mani = vs.mani
      /\ Installed.ver = vs.ver \cup bg.edit.add /\ FilesOf(Installed.ver) \subseteq FilesOf(vs.ver) \cup {bg.num}
      /\ vs.next \in Nat /\ vs.mani \in Nat /\ vs.mani \in DOMAIN manis
  BY <1>0, <1>1, InstalledFacts DEF Control, Typed, TypeVs, VsType, Data, ManiInv
<1>6. Served /\ TypeFlags'
  BY <1>2 DEF BgEnd, Served, TypeFlags, Schedules, Control, Typed
<1>7. bg' \in BgType /\ bg'.pc # "manifest" /\ BgInv'
  <2>1. CASE bg' = IdleBg
    BY <1>1, <1>2, <2>1, IdleFacts, BgIdle DEF Data
  <2>2. CASE bg.comp # NoComp /\ bg' = [IdleBg EXCEPT !.pc = "compact", !.comp = bg.comp]
    <3>1. bg' \in BgType /\ bg'.pc = "compact" /\ bg'.num = 0 /\ bg'.kind = "none" /\ bg'.comp = bg.comp
      BY <1>0, <2>2, IdleFacts DEF BgType
    <3>2. \A n \in Nat : Unused(n) /\ n # bg.num => Unused(n)'
      BY <1>2, <1>5 DEF Unused
    <3>3. BgInv'
      BY <1>0, <1>1, <1>2, <1>5, <2>2, <3>1, <3>2 DEF Data, BgInv, Live
    <3> QED  BY <3>1, <3>3
  <2> QED  BY <1>2, <2>1, <2>2 DEF BgEnd
<1>8. BgFrame
  BY <1>0, <1>2, <1>3, <1>5, <1>6, <1>7 DEF BgFrame, Control, Typed, TypeHist, HistType
<1>9. ManisFrame
  BY <1>3, <1>5, <1>7 DEF ManisFrame
<1> QED  BY <1>0, <1>1, <1>2, <1>3, <1>4, <1>7, <1>8, <1>9, InstallDone

(* The version of a trivial move is installed.                             *)
LEMMA MoveInstallStep ==
  ASSUME Control, Data, Running, MoveDone, bg.pc = "install"
  PROVE  Control' /\ Data'
<1>0. bg.kind = "move" /\ bg \in BgType /\ pending \subseteq Nat
  BY DEF Control, Typed, TypeBg, BgType, MoveDone
<1>1. Live
  BY <1>0, BusyBg
<1>2. /\ vs' = Installed
      /\ UNCHANGED <<logs, tables, manis, current, up, queue, rd, mem, imm, mems, pending, err, shut, manual, hist, rc, plan>>
      /\ BgEnd(imm, manual, Installed, err, cl)
  BY DEF MoveDone, Running, disk, memtables
<1>5. /\ Installed \in VsType /\ Installed.next = vs.next /\ Installed.seq = vs.seq /\ Installed.mani = vs.mani
      /\ vs.next \in Nat /\ vs.mani \in DOMAIN manis
  BY <1>1, InstalledFacts DEF Control, Typed, TypeVs, VsType, Data, ManiInv
<1>6. Served /\ TypeFlags' /\ bg' = IdleBg
  BY <1>2 DEF BgEnd, Served, TypeFlags, Schedules, Control, Typed
<1>7. bg' \in BgType /\ bg'.pc # "manifest" /\ BgInv'
  BY <1>1, <1>2, <1>6, IdleFacts, BgIdle DEF Data
<1>8. BgFrame
  BY <1>0, <1>2, <1>5, <1>6, <1>7 DEF BgFrame, Control, Typed, TypeHist, HistType
<1>9. ManisFrame /\ \A n : SameTable(n)
  BY <1>2, <1>5, <1>7 DEF ManisFrame, SameTable
<1> QED  BY <1>0, <1>1, <1>2, <1>7, <1>8, <1>9, InstallDone

(* The version of a compaction is installed and its inputs are deleted.    *)
LEMMA CompactInstallStep ==
  ASSUME Control, Data, Running, CompactDone, bg.pc = "install"
  PROVE  Control' /\ Data'
<1>0. bg.kind = "compact" /\ bg \in BgType /\ pending \subseteq Nat /\ err \in BOOLEAN
  BY DEF Control, Typed, TypeBg, BgType, CompactDone, TypeFlags
<1>1. Live
  BY <1>0, BusyBg
<1>2. /\ vs' = Installed
      /\ UNCHANGED <<current, up, queue, rd, mem, imm, mems, err, shut, hist, rc, plan>>
      /\ pending' = pending \ {bg.comp.out}
      /\ DeleteObsoleteFiles(tables, Installed, pending', {}, err)
      /\ CompactEnd(Installed, err, FALSE)
  BY DEF CompactDone, Running, memtables
<1>3. /\ \A n \in DOMAIN logs' : n \in DOMAIN logs /\ logs'[n] = logs[n]
      /\ \A n \in DOMAIN logs : n >= Installed.log => n \in DOMAIN logs'
      /\ \A m \in DOMAIN manis' : m \in DOMAIN manis /\ manis'[m] = manis[m]
      /\ \A m \in DOMAIN manis : m >= Installed.mani => m \in DOMAIN manis'
      /\ \A n \in DOMAIN tables' : n \in DOMAIN tables /\ tables'[n] = tables[n]
      /\ \A n \in LiveFiles(Installed, pending', {}) : SameTable(n)
  BY <1>0, <1>2, DeleteFacts
<1>4. /\ \A n \in FilesOf(Installed.ver) : SameTable(n)
      /\ \A r \in Readers : \A n \in FilesOf(rd[r].ver) : SameTable(n)
  BY <1>3 DEF LiveFiles
<1>5. /\ Installed \in VsType /\ Installed.next = vs.next /\ Installed.seq = vs.seq /\ Installed.mani = vs.mani
      /\ vs.next \in Nat /\ vs.mani \in DOMAIN manis /\ vs.mani \in Nat
  BY <1>1, InstalledFacts DEF Control, Typed, TypeVs, VsType, Data, ManiInv
<1>6. Served /\ TypeFlags' /\ bg' \in {IdleBg, FallenBg} /\ bg' \in BgType /\ bg'.pc # "manifest"
  <2>1. CompactEnd(Installed, err, FALSE) /\ TypeFlags
    BY <1>2 DEF Control, Typed
  <2>2. /\ bg' \in {IdleBg, FallenBg} /\ bg' \in BgType /\ bg'.pc \in {"none", "segfault"}
        /\ Served /\ manual' \in {manual, NoClient} /\ sched' \in BOOLEAN
    BY <2>1, CompactEnded DEF TypeFlags
  <2> QED  BY <1>2, <2>1, <2>2 DEF TypeFlags
<1>7. bg' \in BgType /\ bg'.pc # "manifest" /\ BgInv'
  BY <1>1, <1>2, <1>6, BgIdle DEF Data
<1>8. BgFrame
  BY <1>0, <1>2, <1>3, <1>5, <1>6, <1>7 DEF BgFrame, Control, Typed, TypeHist, HistType
<1>9. ManisFrame
  BY <1>3, <1>5, <1>7 DEF ManisFrame
<1> QED  BY <1>0, <1>1, <1>2, <1>3, <1>4, <1>7, <1>8, <1>9, InstallDone

(* Every step of the background thread.                                    *)
LEMMA BackgroundStepOK ==
  ASSUME Control, Data, BackgroundStep, Running
  PROVE  Control' /\ Data'
<1>1. CASE BackgroundStop
  BY <1>1, BackgroundStopStep
<1>2. CASE BackgroundFlush \/ CompactImm
  BY <1>2, BeginFlushStep
<1>3. CASE BackgroundManual
  BY <1>3, BackgroundStopStep, PickStep
<1>4. CASE BackgroundPick
  BY <1>4, BackgroundStopStep, PickStep
<1>5. CASE WriteLevel0Table
  BY <1>5, BuildStep
<1>6. CASE WriteManifest
  BY <1>6, WriteManifestStep
<1>7. CASE FlushDone
  BY <1>7, FlushInstallStep, FlushRefusedStep DEF FlushDone
<1>8. CASE MoveDone
  BY <1>8, MoveInstallStep, BackgroundStopStep DEF MoveDone
<1>9. CASE OpenCompactionOutputFile
  BY <1>9, OutputNumberStep
<1>10. CASE FinishCompactionOutputFile
  BY <1>10, OutputStep
<1>11. CASE CompactShutDown
  BY <1>11, CompactStopStep
<1>12. CASE CompactDone
  BY <1>12, CompactInstallStep, CompactStopStep DEF CompactDone
<1> QED  BY <1>1, <1>2, <1>3, <1>4, <1>5, <1>6, <1>7, <1>8, <1>9, <1>10, <1>11, <1>12 DEF BackgroundStep

(* Every step of a writer.                                                 *)
LEMMA WriterStepOK ==
  ASSUME Control, Data, NEW c \in Writers, WriterStep(c), Running
  PROVE  Control' /\ Data'
BY RoomFailStep, RoomReadyStep, WaitStep, RoomSwitchStep, WriteLogStep, WriteSyncStep, WriteInsertStep, WriteFinishStep
   DEF WriterStep, MakeRoomForWrite

-----------------------------------------------------------------------------
(* A database that is not open, with nothing in memory.                    *)
ManifestsOK == \A m \in DOMAIN manis : ManifestOK(manis[m].recs)

(* The states in which nothing runs have their types.                      *)
LEMMA IdleTypes ==
  IdleRc \in RcType /\ IdleRc.stage = "none" /\ IdleRc.add = {} /\ IdleRc.todo = {}
  /\ NoVs \in VsType /\ IdleCl \in ClType /\ IdleRd \in RdType
BY DEF IdleRc, RcType, NoVs, VsType, IdleCl, ClType, IdleRd, RdType, File

(* A process that ends leaves nothing but its files.                       *)
LEMMA ResetDone ==
  ASSUME ResetMemory, up' = "closed", TypeLogs', TypeTables', TypeManis', TypeHist', plan' \in Plans,
         BoundInv', ManifestsOK'
  PROVE  Control' /\ Data'
<1>1. TypeCl' /\ TypeRd' /\ TypeMems'
  BY IdleTypes DEF ResetMemory, TypeCl, TypeRd, TypeMems, IdleCl
<1>2. TypeVs' /\ TypeBg' /\ TypeRc' /\ TypeFlags'
  BY IdleTypes, IdleFacts DEF ResetMemory, TypeVs, TypeBg, TypeRc, TypeFlags
<1>3. QueueInv'
  BY DEF ResetMemory, QueueInv, IdleCl, InQueue, Writing
<1>4. Stages' /\ QuietInv'
  BY IdleTypes DEF ResetMemory, Stages, QuietInv, Live, Based
<1>5. ManiInv' /\ FreshInv' /\ LogInv' /\ BgInv' /\ ContInv' /\ RecoverInv'
  BY IdleTypes DEF ResetMemory, ManifestsOK, ManiInv, FreshInv, LogInv, BgInv, ContInv, RecoverInv, Live, Based
<1>6. ReadInv'
  BY DEF ResetMemory, ReadInv, IdleRd
<1> QED  BY <1>1, <1>2, <1>3, <1>4, <1>5, <1>6 DEF Control, Typed, Data

(* A step of Open or RepairDB that leaves the memory as it is, before      *)
(* there is a version.                                                     *)
LEMMA DiskStep ==
  ASSUME Control, Data, ~Based, ~Based', UNCHANGED memory, plan' = plan, TypeLogs', TypeTables', TypeManis', TypeHist',
         TypeRc', Stages', BoundInv', ManifestsOK', RecoverInv'
  PROVE  Control' /\ Data'
<1>0. ~Live /\ ~Live'
  BY DEF Based
<1>1. UNCHANGED <<queue, cl, rd, mem, imm, mems, vs, pending, err, sched, shut, bg, manual>>
  BY DEF memory, memtables, flags
<1>2. Typed'
  BY <1>1 DEF Control, Typed, TypeCl, TypeRd, TypeMems, TypeVs, TypeBg, TypeFlags
<1>3. QueueInv'
  BY <1>1 DEF Control, QueueInv
<1>4. QuietInv'
  BY <1>0, <1>1 DEF Control, QuietInv, Live
<1>5. ManiInv'
  <2>1. ~(rc'.stage \in {"current", "clean"} \/ (rc'.stage \in {"logs", "apply"} /\ rc'.reuse))
    BY DEF Stages, Based
  <2> QED  BY <1>0, <2>1 DEF ManifestsOK, ManiInv
<1>6. FreshInv' /\ LogInv' /\ BgInv' /\ ContInv'
  BY <1>0 DEF FreshInv, LogInv, BgInv, ContInv
<1>7. ReadInv'
  BY <1>0, <1>1 DEF Control, QuietInv, ReadInv, IdleRd
<1> QED  BY <1>2, <1>3, <1>4, <1>5, <1>6, <1>7 DEF Control, Data

(* ~DBImpl begins: shutting down.                                          *)
LEMMA CloseStep ==
  ASSUME Control, Data, Close, rc' = rc, plan' = plan
  PROVE  Control' /\ Data'
<1>1. UNCHANGED <<logs, tables, manis, current, queue, cl, rd, mem, imm, mems, vs, pending, err, sched, bg, manual, hist, rc, plan>>
      /\ up = "open" /\ up' = "closing" /\ shut' = TRUE
  BY DEF Close, disk, memtables
<1>2. Live /\ Live' /\ Based /\ Based'
  BY <1>1 DEF Live, Based
<1>3. queue = <<>>
  <2>1. \A i \in 1..Len(queue) : queue[i] \in Writers /\ cl[queue[i]].pc = "idle" /\ cl[queue[i]].pc \in InQueue
    BY DEF Close, Control, QueueInv
  <2>2. queue \in Seq(Writers)
    BY DEF Control, QueueInv
  <2> QED  BY <2>1, <2>2 DEF InQueue
<1>4. Typed'
  BY <1>1 DEF Control, Typed, TypeLogs, TypeTables, TypeManis, TypeCl, TypeRd, TypeMems, TypeVs, TypeHist, HistType, TypeBg,
              TypeRc, TypeFlags
<1>5. Stages' /\ QuietInv' /\ QueueInv'
  BY <1>1, <1>2, <1>3 DEF Control, Stages, QuietInv, QueueInv, Close
<1>6. BoundInv'
  BY <1>1 DEF Data, BoundInv, RecordsOf
<1>7. ManiInv' /\ FreshInv' /\ LogInv' /\ RecoverInv'
  BY <1>1, <1>2 DEF Data, ManiInv, FreshInv, LogInv, RecoverInv
<1>8. BgInv'
  BY <1>1, <1>2 DEF Data, BgInv, Unused, FlushEditOK, MoveEditOK, CompactEditOK, TableEntries, FilesOf
<1>9. ContInv' /\ ReadInv'
  BY <1>1, <1>2 DEF Data, ContInv, ReadInv, Contents, TableEntries, FilesOf, Below
<1> QED  BY <1>4, <1>5, <1>6, <1>7, <1>8, <1>9 DEF Control, Data

(* ~DBImpl ends once no background work is scheduled.                      *)
LEMMA CloseDoneStep ==
  ASSUME Control, Data, CloseDone, plan' = plan
  PROVE  Control' /\ Data'
<1>1. UNCHANGED <<logs, tables, manis, current, hist>> /\ ResetMemory /\ up' = "closed"
  BY DEF CloseDone, disk
<1>2. TypeLogs' /\ TypeTables' /\ TypeManis' /\ TypeHist' /\ plan' \in Plans
  BY <1>1 DEF Control, Typed, TypeLogs, TypeTables, TypeManis, TypeHist, HistType
<1>3. BoundInv'
  BY <1>1, <1>2 DEF Data, BoundInv, RecordsOf, ResetMemory
<1>4. ManifestsOK'
  BY <1>1 DEF Data, ManiInv, ManifestsOK
<1> QED  BY <1>1, <1>2, <1>3, <1>4, ResetDone

(* Open fails and leaves the files as they are.                            *)
LEMMA OpenFailStep ==
  ASSUME Control, Data, OpenFail, UNCHANGED <<logs, tables, plan>>, TypeHist' \/ hist' = hist, TypeManis', ManifestsOK'
  PROVE  Control' /\ Data'
<1>1. ResetMemory /\ up' = "closed"
  BY DEF OpenFail
<1>2. TypeLogs' /\ TypeTables' /\ plan' \in Plans
  BY DEF Control, Typed, TypeLogs, TypeTables
<1>3. BoundInv'
  BY <1>1, <1>2 DEF Data, BoundInv, RecordsOf, ResetMemory
<1>4. TypeHist'
  BY DEF Control, Typed, TypeHist, HistType
<1> QED  BY <1>1, <1>2, <1>3, <1>4, ResetDone

(* The process dies: no record is lost, one may be incomplete.             *)
LEMMA SegfaultFacts ==
  ASSUME TypeLogs, Segfault
  PROVE  /\ DOMAIN logs' = DOMAIN logs /\ TypeLogs' /\ UNCHANGED <<tables, manis, current, hist>> /\ ResetMemory /\ up' = "closed"
         /\ \A n \in DOMAIN logs : /\ logs'[n].recs = logs[n].recs /\ logs'[n].synced = logs[n].synced
                                   /\ (logs'[n].tear = 2 => logs[n].tear = 2)
<1>1. UNCHANGED <<tables, manis, current, hist>> /\ ResetMemory /\ up' = "closed"
  BY DEF Segfault
<1>2. CASE UNCHANGED logs
  BY <1>1, <1>2 DEF TypeLogs
<1>3. CASE \E f \in AppendFailed(logs[mem]) : logs' = [logs EXCEPT ![mem] = f]
  <2>1. PICK f \in AppendFailed(logs[mem]) : logs' = [logs EXCEPT ![mem] = f]
    BY <1>3
  <2>2. CASE mem \in DOMAIN logs
    <3>1. FileOK(logs[mem], SUBSET Entry)
      BY <2>2 DEF TypeLogs
    <3>2. FileOK(f, SUBSET Entry) /\ f.synced = logs[mem].synced /\ f.recs = logs[mem].recs /\ (f.tear = 2 => logs[mem].tear = 2)
      BY <3>1, AppendFailedFacts
    <3>3. DOMAIN logs' = DOMAIN logs /\ logs'[mem] = f /\ \A n \in DOMAIN logs : n # mem => logs'[n] = logs[n]
      BY <2>1, <2>2
    <3> QED  BY <1>1, <3>2, <3>3 DEF TypeLogs
  <2>3. CASE mem \notin DOMAIN logs
    <3>1. DOMAIN logs' = DOMAIN logs /\ \A n \in DOMAIN logs : logs'[n] = logs[n]
      BY <2>1, <2>3
    <3> QED  BY <1>1, <3>1 DEF TypeLogs
  <2> QED  BY <2>2, <2>3
<1> QED  BY <1>2, <1>3 DEF Segfault

(* The process dies of the null pointer.                                   *)
LEMMA SegfaultStep ==
  ASSUME Control, Data, Segfault, plan' = plan
  PROVE  Control' /\ Data'
<1>1. /\ DOMAIN logs' = DOMAIN logs /\ TypeLogs' /\ UNCHANGED <<tables, manis, current, hist>> /\ ResetMemory /\ up' = "closed"
      /\ \A n \in DOMAIN logs : logs'[n].recs = logs[n].recs
  BY SegfaultFacts DEF Control, Typed
<1>2. TypeTables' /\ TypeManis' /\ TypeHist' /\ plan' \in Plans
  BY <1>1 DEF Control, Typed, TypeTables, TypeManis, TypeHist, HistType
<1>3. BoundInv'
  BY <1>1 DEF Data, BoundInv, RecordsOf, ResetMemory
<1>4. ManifestsOK'
  BY <1>1 DEF Data, ManiInv, ManifestsOK
<1> QED  BY <1>1, <1>2, <1>3, <1>4, ResetDone

(* A manifest of one record.                                               *)
LEMMA OneRecord ==
  ASSUME NEW e \in EditType, e.log < e.next, \A f \in e.add : f[1] < e.next
  PROVE  /\ FileOK([EmptyFile EXCEPT !.recs = <<e>>], EditType)
         /\ [EmptyFile EXCEPT !.recs = <<e>>].recs = <<e>>
         /\ [EmptyFile EXCEPT !.recs = <<e>>].synced = 0
         /\ [EmptyFile EXCEPT !.recs = <<e>>].tear = 0
         /\ ManifestOK(<<e>>)
<1>1. <<e>> \in Seq(EditType) /\ Len(<<e>>) = 1 /\ <<e>>[1] = e /\ e.next \in Nat
  BY DEF EditType
<1>2. ManifestOK(<<e>>)
  BY <1>1 DEF ManifestOK
<1> DEFINE s == <<e>>
           g == [EmptyFile EXCEPT !.recs = s]
<1>3. s \in Seq(EditType) /\ Len(s) = 1
  BY <1>1
<1> HIDE DEF s
<1>4. g.recs = s /\ g.synced = 0 /\ g.tear = 0 /\ g \in [recs : Seq(EditType), synced : Nat, tear : 0..2]
  BY <1>3 DEF EmptyFile
<1>5. FileOK(g, EditType)
  <2> HIDE DEF g
  <2> QED  BY <1>3, <1>4 DEF FileOK, FileType
<1> QED  BY <1>2, <1>4, <1>5 DEF s

(* Open starts, and creates the first manifest of a new database.          *)
LEMMA OpenBeginStep ==
  ASSUME Control, Data, OpenBegin, plan' = plan
  PROVE  Control' /\ Data'
<1>0. up = "closed" /\ up' = "opening" /\ UNCHANGED <<logs, tables>> /\ UNCHANGED memory /\ NewDB
      /\ rc' = [IdleRc EXCEPT !.stage = "read", !.reuse = plan.reuse]
  BY DEF OpenBegin
<1>1. rc' \in RcType /\ rc'.stage = "read" /\ rc'.reuse = plan.reuse /\ rc'.add = {} /\ rc'.todo = {}
  <2>1. plan.reuse \in BOOLEAN
    BY LimitAssumption DEF Control, Typed
  <2> QED  BY <1>0, <2>1, IdleTypes DEF RcType
<1>2. ~Based /\ ~Based'
  BY <1>0, <1>1 DEF Based, Live
<1>3. TypeLogs' /\ TypeTables' /\ TypeRc' /\ Stages' /\ RecoverInv'
  BY <1>0, <1>1 DEF Control, Typed, TypeLogs, TypeTables, TypeRc, Stages, RecoverInv
<1>4. BoundInv'
  BY <1>0 DEF Data, BoundInv, RecordsOf, memory, memtables
<1>5. TypeManis' /\ TypeHist' /\ ManifestsOK'
  <2>1. TypeManis /\ hist \in HistType /\ ManifestsOK
    BY DEF Control, Typed, TypeHist, Data, ManiInv, ManifestsOK
  <2>2. CASE current # 0
    <3>1. UNCHANGED <<manis, current, hist>>
      BY <1>0, <2>2 DEF NewDB
    <3> QED  BY <2>1, <3>1 DEF TypeManis, TypeHist, HistType, ManifestsOK
  <2>3. CASE current = 0
    <3> DEFINE e == [add |-> {}, del |-> {}, log |-> 0, next |-> 2, seq |-> 0]
               g == [EmptyFile EXCEPT !.recs = <<e>>]
    <3>1. manis' = With(manis, 1, g) /\ current' = 1 /\ hist' = [hist EXCEPT !.rootless = TRUE]
      BY <1>0, <2>3 DEF NewDB
    <3>2. e \in EditType /\ e.log < e.next /\ \A f \in e.add : f[1] < e.next
      BY DEF EditType, File
    <3>3. FileOK(g, EditType) /\ ManifestOK(g.recs)
      <4> HIDE DEF e
      <4> QED  BY <3>2, OneRecord
    <3> HIDE DEF g
    <3>4. DOMAIN manis' = DOMAIN manis \cup {1} /\ manis'[1] = g /\ \A m \in DOMAIN manis : m # 1 => manis'[m] = manis[m]
      BY <3>1 DEF With
    <3>5. TypeManis' /\ ManifestsOK'
      BY <2>1, <3>1, <3>3, <3>4 DEF TypeManis, ManifestsOK
    <3>6. TypeHist'
      BY <2>1, <3>1 DEF TypeHist, HistType
    <3> QED  BY <3>5, <3>6
  <2> QED  BY <2>2, <2>3
<1> QED  BY <1>0, <1>2, <1>3, <1>4, <1>5, DiskStep

-----------------------------------------------------------------------------
(* The last record has the largest numbers.                                *)
LEMMA ReplayFacts ==
  ASSUME NEW recs \in Seq(EditType), ManifestOK(recs), recs # <<>>
  PROVE  /\ Len(recs) \in Nat \ {0} /\ Last(recs) = recs[Len(recs)]
         /\ Replay(recs).log = recs[Len(recs)].log /\ Replay(recs).next = recs[Len(recs)].next
         /\ Replay(recs).seq = recs[Len(recs)].seq
         /\ Replay(recs).ver \subseteq File /\ Replay(recs).log \in Nat /\ Replay(recs).next \in Nat
         /\ Replay(recs).seq \in Nat /\ Replay(recs).log < Replay(recs).next
         /\ \A f \in Replay(recs).ver : f[1] < Replay(recs).next
         /\ \A i \in 1..Len(recs) : recs[i].next <= Replay(recs).next
<1>1. Len(recs) \in Nat \ {0} /\ Last(recs) = recs[Len(recs)]
  BY DEF Last
<1>2. \A i \in 1..Len(recs) : recs[i] \in EditType
  OBVIOUS
<1>3. /\ Replay(recs).log = recs[Len(recs)].log /\ Replay(recs).next = recs[Len(recs)].next
      /\ Replay(recs).seq = recs[Len(recs)].seq
      /\ Replay(recs).ver = UNION {recs[i].add \ UNION {recs[j].del : j \in (i + 1)..Len(recs)} : i \in DOMAIN recs}
  BY <1>1 DEF Replay
<1>4. \A i \in 1..Len(recs) : recs[i].next <= recs[Len(recs)].next /\ recs[i].next \in Nat /\ recs[i].add \subseteq File
                              /\ recs[i].log \in Nat /\ recs[i].seq \in Nat
  BY <1>1, <1>2 DEF ManifestOK, EditType
<1>5. \A f \in Replay(recs).ver : \E i \in 1..Len(recs) : f \in recs[i].add
  BY <1>3
<1>6. \A i \in 1..Len(recs) : recs[i].log < recs[i].next /\ \A f \in recs[i].add : f[1] < recs[i].next
  BY DEF ManifestOK
<1>7. Len(recs) \in 1..Len(recs)
  BY <1>1
<1>8. \A f \in Replay(recs).ver : f \in File /\ f[1] < Replay(recs).next
  <2> SUFFICES ASSUME NEW f \in Replay(recs).ver  PROVE f \in File /\ f[1] < recs[Len(recs)].next
    BY <1>3
  <2>1. PICK i \in 1..Len(recs) : f \in recs[i].add
    BY <1>5
  <2>2. f \in File /\ f[1] < recs[i].next
    BY <1>4, <1>6, <2>1
  <2>3. f[1] \in Nat
    BY <2>2 DEF File
  <2> QED  BY <1>4, <1>7, <2>2, <2>3
<1> QED  BY <1>1, <1>3, <1>4, <1>6, <1>7, <1>8

(* What is common to the steps of Open once there is a version set: only   *)
(* the version set, the memtable and the files change.                     *)
OpenFrame ==
  /\ UNCHANGED <<queue, cl, rd, imm, pending, err, sched, shut, bg, manual, plan>>
  /\ up = "opening" /\ up' = "opening"
  /\ rc' \in RcType /\ rc'.stage \in {"logs", "apply", "current", "clean"} /\ rc'.reuse = rc.reuse
  /\ vs' \in VsType /\ TypeHist'

(* A step of Open that keeps types, manifests and numbers keeps the rest:  *)
(* no client runs before Open returns.                                     *)
LEMMA OpenDoneWith ==
  ASSUME Control, Data, OpenFrame, TypeLogs', TypeTables', TypeManis', TypeMems', BoundInv', ManiInv', FreshInv', LogInv',
         RecoverInv', rc'.stage = "logs" /\ ~rc'.save => rc'.reuse
  PROVE  Control' /\ Data'
<1>0. ~Live /\ ~Live' /\ Based'
  BY DEF OpenFrame, Live, Based
<1>1. Typed'
  BY DEF Control, Typed, TypeCl, TypeRd, TypeVs, TypeBg, TypeFlags, TypeRc, OpenFrame
<1>2. Stages'
  BY DEF Control, Stages, OpenFrame
<1>3. QueueInv'
  BY DEF Control, QueueInv, OpenFrame
<1>4. QuietInv'
  BY <1>0 DEF Control, QuietInv, OpenFrame, Live
<1>5. BgInv' /\ ContInv'
  BY <1>0 DEF BgInv, ContInv
<1>6. ReadInv'
  BY <1>0 DEF Control, QuietInv, ReadInv, IdleRd, OpenFrame
<1> QED  BY <1>1, <1>2, <1>3, <1>4, <1>5, <1>6 DEF Control, Data

(* VersionSet::Recover reads the current manifest.                         *)
LEMMA OpenReadStep ==
  ASSUME Control, Data, OpenRead, plan' = plan
  PROVE  Control' /\ Data'
<1>0. /\ UNCHANGED <<logs, tables, manis, current, hist>> /\ rc.stage = "read" /\ up = "opening" /\ ~Live /\ ~Based
      /\ TypeManis /\ ManifestsOK /\ rc \in RcType /\ rc.add = {} /\ hist \in HistType
  BY DEF OpenRead, disk, Live, Based, Control, Typed, Data, ManiInv, ManifestsOK, TypeRc, Stages, TypeHist
<1>1. CASE OpenFail
  <2>1. TypeManis' /\ ManifestsOK'
    BY <1>0 DEF TypeManis, ManifestsOK
  <2> QED  BY <1>0, <1>1, <2>1, OpenFailStep
<1>2. CASE ~OpenFail
  <2> DEFINE recs == manis[current].recs
             d == Replay(recs)
  <2>1. /\ ManifestReadable
        /\ vs' = [ver |-> d.ver, log |-> d.log, next |-> d.next + 1,
                  mani |-> ReuseManifest(d), seq |-> d.seq, seek |-> FALSE]
        /\ rc' = [rc EXCEPT !.stage = "logs", !.save = ~rc.reuse, !.todo = {n \in DOMAIN logs : n >= d.log}]
        /\ UNCHANGED <<up, queue, cl, rd, mem, imm, mems, pending, err, sched, shut, bg, manual>>
    BY <1>2 DEF OpenRead, memtables, flags
  <2>2. recs \in Seq(EditType) /\ ManifestOK(recs) /\ recs # <<>> /\ current \in DOMAIN manis /\ current \in Nat
    BY <1>0, <2>1 DEF ManifestReadable, TypeManis, FileOK, FileType, ManifestsOK
  <2> HIDE DEF recs
  <2>3. /\ d.ver \subseteq File /\ d.log \in Nat /\ d.next \in Nat /\ d.seq \in Nat /\ d.log < d.next
        /\ \A f \in d.ver : f[1] < d.next
        /\ \A i \in 1..Len(recs) : recs[i].next <= d.next /\ recs[i].next \in Nat
    <3>0. \A i \in 1..Len(recs) : recs[i] \in EditType
      BY <2>2
    <3>1. \A i \in 1..Len(recs) : recs[i].next \in Nat
      BY <3>0 DEF EditType
    <3> QED  BY <2>2, <3>1, ReplayFacts
  <2> HIDE DEF d
  <2>4. rc.reuse \in BOOLEAN /\ ReuseManifest(d) \in Nat /\ (rc.reuse => ReuseManifest(d) = current)
    BY <1>0, <2>2, <2>3 DEF RcType, ReuseManifest
  <2>5. /\ vs' \in VsType /\ vs'.ver = d.ver /\ vs'.log = d.log /\ vs'.next = d.next + 1
        /\ vs'.mani = ReuseManifest(d) /\ vs'.seq = d.seq
    BY <2>1, <2>3, <2>4 DEF VsType
  <2>6. TypeLogs' /\ \A n \in DOMAIN logs : n \in Nat
    BY <1>0 DEF Control, Typed, TypeLogs
  <2>7. /\ rc' \in RcType /\ rc'.stage = "logs" /\ rc'.reuse = rc.reuse /\ rc'.add = {} /\ rc'.save = ~rc.reuse
        /\ rc'.todo = {n \in DOMAIN logs : n >= d.log}
    <3> DEFINE t == {n \in DOMAIN logs : n >= d.log}
    <3>1. t \in SUBSET Nat /\ rc' = [rc EXCEPT !.stage = "logs", !.save = ~rc.reuse, !.todo = t]
      BY <2>1, <2>6
    <3> HIDE DEF t
    <3>2. /\ rc' \in RcType /\ rc'.stage = "logs" /\ rc'.reuse = rc.reuse /\ rc'.add = {} /\ rc'.save = ~rc.reuse
          /\ rc'.todo = t
      BY <1>0, <2>4, <3>1 DEF RcType
    <3> QED  BY <3>2 DEF t
  <2>8. OpenFrame
    BY <1>0, <2>1, <2>5, <2>7 DEF OpenFrame, TypeHist, HistType
  <2>9. TypeTables' /\ TypeManis' /\ TypeMems'
    BY <1>0, <2>1 DEF Control, Typed, TypeTables, TypeManis, TypeMems
  <2>10. BoundInv'
    BY <1>0, <2>1 DEF Data, BoundInv, RecordsOf
  <2>11. ManiInv'
    <3>1. rc'.reuse => /\ vs'.mani \in DOMAIN manis'
                       /\ \A i \in 1..Len(manis'[vs'.mani].recs) : manis'[vs'.mani].recs[i].next <= vs'.next
      BY <1>0, <2>2, <2>3, <2>4, <2>5, <2>7 DEF recs
    <3>2. ~Live' /\ bg'.pc # "manifest"
      BY <1>0, <2>1, IdleFacts DEF Live, Control, QuietInv
    <3> QED  BY <1>0, <2>7, <3>1, <3>2 DEF ManifestsOK, ManiInv
  <2>12. mem' = 0 /\ mems' = [n \in {} |-> {}] /\ \A r \in Readers : rd'[r].ver = {}
    BY <1>0, <2>1 DEF Control, QuietInv, IdleRd
  <2>13. FreshInv' /\ LogInv' /\ RecoverInv'
    <3>1. \A f \in d.ver : f[1] \in Nat
      BY <2>3 DEF File
    <3>2. \A n \in DOMAIN logs : n < d.next + 1 \/ n >= d.log
      BY <2>3, <2>6
    <3>3. FreshInv'
      BY <1>0, <2>3, <2>5, <2>6, <2>7, <2>12, <3>1, <3>2 DEF FreshInv
    <3> QED  BY <1>0, <2>3, <2>5, <2>6, <2>7, <2>12, <3>3 DEF LogInv, RecoverInv
  <2> QED  BY <2>6, <2>7, <2>8, <2>9, <2>10, <2>11, <2>13, OpenDoneWith
<1> QED  BY <1>1, <1>2

(* The greatest sequence number in use.                                    *)
LEMMA MaxSeqFacts ==
  ASSUME BoundInv, NEW es, \A e \in es : e \in AllEntries /\ e[1] \in Nat, NEW s \in Nat
  PROVE  MaxSeq(es, s) \in Nat /\ MaxSeq(es, s) >= s
<1> DEFINE T == {s} \cup {e[1] : e \in es}
<1>1. PICK b \in Nat : /\ \A n \in DOMAIN logs : n <= b /\ \A e \in RecordsOf(n) : e[1] <= b
                       /\ \A n \in DOMAIN tables : n <= b /\ \A e \in tables[n] : e[1] <= b
                       /\ \A n \in DOMAIN mems : \A e \in mems[n] : e[1] <= b
  BY DEF BoundInv
<1>2. \A e \in AllEntries : e[1] <= b
  BY <1>1 DEF AllEntries
<1>3. \A x \in T : x \in Nat /\ x <= b + s
  BY <1>2
<1>4. s \in T
  OBVIOUS
<1> HIDE DEF T
<1>5. Max(T) \in T /\ \A x \in T : x <= Max(T)
  <2>1. b + s \in Nat /\ T \subseteq Nat /\ T # {}
    BY <1>3, <1>4
  <2>2. \A x \in T : x <= b + s
    BY <1>3
  <2> QED  BY <2>1, <2>2, MaxFacts
<1>6. Max(T) \in Nat /\ Max(T) >= s
  BY <1>3, <1>4, <1>5
<1> QED  BY <1>6 DEF MaxSeq, T

(* The records of a log hold entries.                                      *)
LEMMA RecordEntries ==
  ASSUME TypeLogs, NEW n \in DOMAIN logs
  PROVE  RecordsOf(n) \in SUBSET Entry /\ \A e \in RecordsOf(n) : e \in AllEntries /\ e[1] \in Nat
<1>1. logs[n].recs \in Seq(SUBSET Entry)
  BY DEF TypeLogs, FileOK, FileType
<1>2. RecordsOf(n) \in SUBSET Entry
  BY <1>1 DEF RecordsOf, Range
<1> QED  BY <1>2 DEF AllEntries, Entry

(* RecoverLogFile replays a log into tables, or keeps it in use.           *)
LEMMA RecoverLogStep ==
  ASSUME Control, Data, RecoverLogFile, plan' = plan
  PROVE  Control' /\ Data'
<1>0. /\ rc.stage = "logs" /\ up = "opening" /\ ~Live /\ Based /\ rc \in RcType /\ vs \in VsType /\ TypeManis /\ ManifestsOK
      /\ hist \in HistType /\ rc.todo # {} /\ rc.todo \subseteq Nat
      /\ UNCHANGED <<logs, manis, current, hist>>
  BY DEF RecoverLogFile, Control, Typed, TypeRc, RcType, TypeVs, TypeHist, Stages, Live, Based, Data, ManiInv, ManifestsOK
<1> DEFINE n == Min(rc.todo)
           es == RecordsOf(n)
           kept == rc.reuse /\ rc.todo = {n}
           made == ~kept /\ es # {}
           base == vs.next + (IF made THEN 1 ELSE 0)
           used == NextBehind(base, n)
<1>1. n \in rc.todo /\ n \in Nat
  BY <1>0, MinFacts
<1>2. n \in DOMAIN logs /\ vs.log <= n
  BY <1>0, <1>1 DEF Data, RecoverInv
<1>3. es \in SUBSET Entry /\ \A e \in es : e \in AllEntries /\ e[1] \in Nat
  BY <1>2, RecordEntries DEF Control, Typed
<1>4. CASE OpenFail /\ UNCHANGED tables
  <2>1. TypeManis' /\ ManifestsOK'
    BY <1>0 DEF TypeManis, ManifestsOK
  <2> QED  BY <1>0, <1>4, <2>1, OpenFailStep
<1>5. CASE ~(OpenFail /\ UNCHANGED tables)
  <2>1. /\ vs' = [vs EXCEPT !.next = used, !.seq = MaxSeq(es, @)]
        /\ rc' = [rc EXCEPT !.todo = @ \ {n}, !.save = @ \/ made,
                    !.add = IF made THEN @ \cup {<<vs.next, 0>>} ELSE @]
        /\ tables' = IF made THEN With(tables, vs.next, es) ELSE tables
        /\ mem' = IF kept THEN n ELSE mem
        /\ mems' = IF kept THEN With(mems, n, es) ELSE mems
        /\ UNCHANGED <<up, queue, cl, rd, imm, pending, err, sched, shut, bg, manual>>
    BY <1>5 DEF RecoverLogFile, flags
  <2>2. vs.next \in Nat /\ vs.seq \in Nat /\ base \in Nat /\ base >= vs.next /\ (made => base > vs.next)
    BY <1>0 DEF VsType
  <2>3. made \in BOOLEAN /\ kept \in BOOLEAN
    OBVIOUS
  <2> HIDE DEF base
  <2>4. used \in Nat /\ used >= vs.next /\ used > n /\ (made => used > vs.next)
    BY <1>1, <2>2, MaxOfTwo DEF NextBehind
  <2>5. MaxSeq(es, vs.seq) \in Nat
    BY <1>3, <2>2, MaxSeqFacts DEF Data
  <2> HIDE DEF n, es, kept, made, used
  <2>6. /\ vs' \in VsType /\ vs'.next = used /\ vs'.ver = vs.ver /\ vs'.log = vs.log /\ vs'.mani = vs.mani
    <3> DEFINE s == MaxSeq(es, vs.seq)
    <3>1. vs' = [vs EXCEPT !.next = used, !.seq = s] /\ s \in Nat
      BY <2>1, <2>5
    <3> HIDE DEF s
    <3> QED  BY <1>0, <2>4, <3>1 DEF VsType
  <2>7. /\ rc' \in RcType /\ rc'.stage = "logs" /\ rc'.reuse = rc.reuse /\ rc'.todo = rc.todo \ {n}
        /\ rc'.save = (rc.save \/ made) /\ rc'.add = IF made THEN rc.add \cup {<<vs.next, 0>>} ELSE rc.add
    <3> DEFINE a == IF made THEN rc.add \cup {<<vs.next, 0>>} ELSE rc.add
               t == rc.todo \ {n}
               sv == rc.save \/ made
    <3>1. a \in SUBSET File /\ t \in SUBSET Nat /\ sv \in BOOLEAN
      BY <1>0, <2>2, <2>3 DEF RcType, File
    <3>2. rc' = [rc EXCEPT !.todo = t, !.save = sv, !.add = a]
      BY <2>1
    <3> HIDE DEF a, t, sv
    <3>3. /\ rc' \in RcType /\ rc'.stage = "logs" /\ rc'.reuse = rc.reuse /\ rc'.todo = t /\ rc'.save = sv /\ rc'.add = a
      BY <1>0, <3>1, <3>2 DEF RcType
    <3> QED  BY <3>3 DEF a, t, sv
  <2>8. OpenFrame
    BY <1>0, <2>1, <2>6, <2>7 DEF OpenFrame, TypeHist, HistType
  <2>9. TypeLogs' /\ TypeManis'
    BY <1>0 DEF Control, Typed, TypeLogs, TypeManis
  <2>10. \A m \in DOMAIN tables' : \/ m \in DOMAIN tables /\ tables'[m] = tables[m]
                                   \/ m = vs.next /\ tables'[m] = es
    BY <2>1 DEF With
  <2>11. \A m \in DOMAIN mems' : \/ m \in DOMAIN mems /\ mems'[m] = mems[m]
                                 \/ m = n /\ mems'[m] = es
    BY <2>1 DEF With
  <2>12. TypeTables' /\ TypeMems'
    <3>1. TypeTables'
      BY <1>3, <2>2, <2>10 DEF Control, Typed, TypeTables, Entry
    <3>2. n \in Nat \ {0}
      BY <1>2 DEF Control, Typed, TypeLogs
    <3>3. TypeMems'
      BY <1>3, <2>1, <2>11, <3>2 DEF Control, Typed, TypeMems
    <3> QED  BY <3>1, <3>3
  <2>13. BoundInv'
    <3>1. \A m \in Numbers' : m \in Numbers \/ m <= vs.next
      BY <1>0, <2>2, <2>10 DEF Numbers
    <3>2. \A e \in AllEntries' : e \in AllEntries
      BY <1>0, <1>3, <2>10, <2>11 DEF AllEntries, RecordsOf
    <3> QED  BY <2>2, <2>9, <2>12, <3>1, <3>2, BoundKept DEF Data
  <2>14. ManiInv'
    <3>1. ~Live' /\ bg'.pc # "manifest"
      BY <1>0, <2>1, IdleFacts DEF Live, Control, QuietInv
    <3>2. rc.reuse => /\ vs.mani \in DOMAIN manis
                      /\ \A i \in 1..Len(manis[vs.mani].recs) : manis[vs.mani].recs[i].next <= vs.next
      BY <1>0 DEF Data, ManiInv
    <3>3. \A m \in DOMAIN manis : \A i \in 1..Len(manis[m].recs) : manis[m].recs[i].next \in Nat
      BY <1>0, RecordTypes
    <3>4. rc'.reuse => /\ vs'.mani \in DOMAIN manis'
                       /\ \A i \in 1..Len(manis'[vs'.mani].recs) : manis'[vs'.mani].recs[i].next <= vs'.next
      BY <1>0, <2>2, <2>4, <2>6, <2>7, <3>2, <3>3
    <3> QED  BY <1>0, <2>7, <3>1, <3>4 DEF ManifestsOK, ManiInv
  <2>15. FreshInv'
    <3>1. /\ vs.next > 0 /\ \A f \in vs.ver \cup rc.add : f[1] < vs.next /\ f[1] \in Nat
      BY <1>0 DEF Data, FreshInv, VsType, RcType, File
    <3>2. \A m \in DOMAIN mems' : m < used /\ m \in Nat
      BY <1>0, <1>1, <2>2, <2>4, <2>11 DEF Data, FreshInv, Control, Typed, TypeMems
    <3>3. \A r \in Readers : rd'[r].ver = {}
      BY <1>0, <2>1 DEF Control, QuietInv, IdleRd
    <3>4. \A m \in DOMAIN logs : m < used \/ m \in rc'.todo
      <4>1. \A m \in DOMAIN logs : m \in Nat /\ (m < vs.next \/ m \in rc.todo)
        BY <1>0 DEF Data, FreshInv, Control, Typed, TypeLogs
      <4> QED  BY <1>1, <2>2, <2>4, <2>7, <4>1
    <3>5. \A f \in vs'.ver \cup rc'.add : f[1] < used
      <4>1. \A f \in vs.ver \cup rc.add : f[1] < used
        BY <2>2, <2>4, <3>1
      <4>2. made => <<vs.next, 0>>[1] < used
        BY <2>4
      <4> QED  BY <2>6, <2>7, <4>1, <4>2
    <3>6. mem' # 0 => mem' \in DOMAIN mems'
      BY <1>0, <2>1 DEF With, Data, FreshInv
    <3>7. used > 0
      BY <2>2, <2>4, <3>1
    <3> QED  BY <1>0, <2>6, <3>2, <3>3, <3>4, <3>5, <3>6, <3>7 DEF FreshInv
  <2>16. LogInv'
    <3>1. vs.log < vs.next /\ vs.log \in Nat /\ (mem # 0 => mem \in DOMAIN logs /\ vs.log <= mem)
      BY <1>0 DEF Data, LogInv, VsType
    <3> QED  BY <1>0, <1>1, <1>2, <2>1, <2>2, <2>4, <2>6, <3>1 DEF LogInv
  <2>17. RecoverInv'
    BY <1>0, <2>6, <2>7 DEF Data, RecoverInv
  <2>18. rc'.stage = "logs" /\ ~rc'.save => rc'.reuse
    BY <1>0, <2>3, <2>7 DEF Control, Stages, RcType
  <2> QED  BY <2>8, <2>9, <2>12, <2>13, <2>14, <2>15, <2>16, <2>17, <2>18, OpenDoneWith
<1> QED  BY <1>4, <1>5

(* Open takes a new log, unless the last one was kept.                     *)
LEMMA OpenLogStep ==
  ASSUME Control, Data, OpenLog, plan' = plan
  PROVE  Control' /\ Data'
<1>0. /\ rc.stage = "logs" /\ up = "opening" /\ ~Live /\ Based /\ rc \in RcType /\ vs \in VsType /\ vs.next \in Nat
      /\ hist \in HistType /\ rc.todo = {} /\ vs.next > 0
      /\ UNCHANGED <<tables, manis, current, up, queue, cl, rd, imm, pending, err, sched, shut, bg, manual, hist>>
  BY DEF OpenLog, Control, Typed, TypeRc, RcType, TypeVs, VsType, TypeHist, Stages, Live, Based, Data, FreshInv, flags
<1>1. rc' = [rc EXCEPT !.stage = IF rc.save THEN "apply" ELSE "clean"]
  BY DEF OpenLog
<1>2. /\ rc' \in RcType /\ rc'.stage \in {"apply", "clean"} /\ rc'.reuse = rc.reuse /\ rc'.add = rc.add /\ rc'.todo = {}
      /\ rc'.stage = "clean" => rc.reuse
  BY <1>0, <1>1 DEF RcType, Control, Stages
<1>3. /\ vs' \in VsType /\ vs'.ver = vs.ver /\ vs'.log = vs.log /\ vs'.mani = vs.mani /\ vs'.next \in Nat /\ vs'.next >= vs.next
      /\ IF mem # 0 THEN UNCHANGED <<logs, mem, mems>> /\ vs'.next = vs.next
         ELSE /\ logs' = With(logs, vs.next, EmptyFile) /\ mems' = With(mems, vs.next, {}) /\ mem' = vs.next
              /\ vs'.next = vs.next + 1
  <2>1. CASE mem # 0
    BY <1>0, <2>1 DEF OpenLog
  <2>2. CASE mem = 0
    <3>1. /\ vs' = [vs EXCEPT !.next = @ + 1] /\ logs' = With(logs, vs.next, EmptyFile)
          /\ mems' = With(mems, vs.next, {}) /\ mem' = vs.next
      BY <2>2 DEF OpenLog
    <3> QED  BY <1>0, <2>2, <3>1, NextVs
  <2> QED  BY <2>1, <2>2
<1>4. OpenFrame
  BY <1>0, <1>2, <1>3 DEF OpenFrame, TypeHist, HistType
<1>5. \A m \in DOMAIN logs' : \/ m \in DOMAIN logs /\ logs'[m] = logs[m]
                              \/ m = vs.next /\ mem = 0 /\ logs'[m] = EmptyFile
  BY <1>3 DEF With
<1>6. \A m \in DOMAIN mems' : \/ m \in DOMAIN mems /\ mems'[m] = mems[m]
                              \/ m = vs.next /\ mem = 0 /\ mems'[m] = {}
  BY <1>3 DEF With
<1>7. TypeLogs' /\ TypeTables' /\ TypeManis' /\ TypeMems'
  <2>1. TypeLogs'
    <3>1. FileOK(EmptyFile, SUBSET Entry)
      BY EmptyFacts
    <3>2. vs.next \in Nat \ {0}
      BY <1>0
    <3> QED  BY <1>5, <3>1, <3>2 DEF Control, Typed, TypeLogs
  <2>2. TypeTables' /\ TypeManis'
    BY <1>0 DEF Control, Typed, TypeTables, TypeManis
  <2>3. mem' \in Nat /\ imm' \in Nat
    BY <1>0, <1>3 DEF Control, Typed, TypeMems
  <2>4. TypeMems'
    BY <1>0, <1>6, <2>3 DEF Control, Typed, TypeMems
  <2> QED  BY <2>1, <2>2, <2>4
<1>8. BoundInv'
  <2>1. \A m \in Numbers' : m \in Numbers \/ m <= vs.next
    BY <1>0, <1>5 DEF Numbers
  <2>2. \A m \in DOMAIN logs' : \A e \in UNION Range(logs'[m].recs) : m \in DOMAIN logs /\ e \in RecordsOf(m)
    BY <1>5, EmptyFacts DEF RecordsOf, Range
  <2>3. \A e \in AllEntries' : e \in AllEntries
    BY <1>0, <1>6, <2>2 DEF AllEntries, RecordsOf
  <2> QED  BY <1>0, <1>7, <2>1, <2>3, BoundKept DEF Data
<1>9. ManiInv'
  <2>1. ~Live' /\ bg'.pc # "manifest" /\ bg.pc # "manifest"
    BY <1>0, IdleFacts DEF Live, Control, QuietInv
  <2>2. rc.reuse => /\ vs.mani \in DOMAIN manis
                    /\ \A i \in 1..Len(manis[vs.mani].recs) : manis[vs.mani].recs[i].next <= vs.next
    BY <1>0 DEF Data, ManiInv
  <2>3. \A m \in DOMAIN manis : \A i \in 1..Len(manis[m].recs) : manis[m].recs[i].next \in Nat
    BY RecordTypes DEF Control, Typed
  <2>4. rc.reuse => /\ vs'.mani \in DOMAIN manis'
                    /\ \A i \in 1..Len(manis'[vs'.mani].recs) : manis'[vs'.mani].recs[i].next <= vs'.next
    BY <1>0, <1>3, <2>2, <2>3
  <2> QED  BY <1>0, <1>2, <2>1, <2>4 DEF Data, ManiInv
<1>10. FreshInv'
  <2>1. \A f \in vs.ver \cup rc.add : f[1] < vs.next /\ f[1] \in Nat
    BY <1>0 DEF Data, FreshInv, VsType, RcType, File
  <2>2. \A m \in DOMAIN mems' : m < vs'.next
    <3>1. \A m \in DOMAIN mems : m < vs.next /\ m \in Nat
      BY <1>0 DEF Data, FreshInv, Control, Typed, TypeMems
    <3> QED  BY <1>0, <1>3, <1>6, <3>1
  <2>3. \A r \in Readers : rd'[r].ver = {}
    BY <1>0 DEF Control, QuietInv, IdleRd
  <2>4. \A m \in DOMAIN logs' : m < vs'.next
    <3>1. \A m \in DOMAIN logs : m \in Nat /\ m < vs.next
      BY <1>0 DEF Data, FreshInv, Control, Typed, TypeLogs
    <3> QED  BY <1>0, <1>3, <1>5, <3>1
  <2>5. \A f \in vs'.ver \cup rc'.add : f[1] < vs'.next
    BY <1>0, <1>2, <1>3, <2>1
  <2>6. mem' # 0 => mem' \in DOMAIN mems'
    BY <1>0, <1>3 DEF With, Data, FreshInv
  <2> QED  BY <1>0, <1>3, <2>2, <2>3, <2>4, <2>5, <2>6 DEF FreshInv
<1>11. LogInv'
  <2>1. vs.log < vs.next /\ vs.log \in Nat /\ (mem # 0 => mem \in DOMAIN logs /\ vs.log <= mem)
    BY <1>0 DEF Data, LogInv, VsType
  <2> QED  BY <1>0, <1>3, <2>1 DEF LogInv, With
<1>12. RecoverInv'
  BY <1>0, <1>2, <1>3 DEF RecoverInv
<1> QED  BY <1>2, <1>4, <1>7, <1>8, <1>9, <1>10, <1>11, <1>12, OpenDoneWith

(* The first edit of an Open.                                              *)
LEMMA OpenEditFacts ==
  ASSUME Control, Data, Based, mem # 0, NEW base \in SUBSET File, base \subseteq vs.ver
  PROVE  /\ OpenEdit(base) \in EditType /\ OpenEdit(base).log = mem /\ OpenEdit(base).next = vs.next
         /\ OpenEdit(base).add = base \cup rc.add /\ OpenEdit(base).del = {}
         /\ mem < vs.next /\ \A f \in OpenEdit(base).add : f[1] < vs.next
<1>1. vs.next \in Nat /\ vs.seq \in Nat /\ mem \in Nat /\ rc.add \subseteq File
  BY DEF Control, Typed, TypeVs, VsType, TypeMems, TypeRc, RcType
<1>2. mem < vs.next /\ \A f \in base \cup rc.add : f[1] < vs.next
  BY DEF Data, FreshInv
<1> QED  BY <1>1, <1>2 DEF OpenEdit, Edit, EditType

(* The manifest after the first edit of an Open.                           *)
LEMMA OpenApplyFacts ==
  ASSUME Control, Data, rc.stage = "apply",
         NEW f \in IF rc.reuse THEN Appended(manis[vs.mani], OpenEdit({})) ELSE Appended(EmptyFile, OpenEdit(vs.ver))
  PROVE  /\ FileOK(SyncedFile(f), EditType) /\ ManifestOK(f.recs) /\ SyncedFile(f).recs = f.recs
         /\ FileOK(f, EditType)
         /\ \A i \in 1..Len(f.recs) : f.recs[i].next <= vs.next
         /\ mem # 0 /\ Based
<1>0. rc.stage = "apply" /\ up = "opening" /\ Based /\ rc \in RcType /\ vs.ver \in SUBSET File /\ TypeManis /\ vs.next \in Nat
      /\ mem # 0
  BY DEF Control, Typed, TypeRc, RcType, TypeVs, VsType, Stages, Based, Data, RecoverInv
<1>1. CASE rc.reuse
  <2> DEFINE g == manis[vs.mani]
             e == OpenEdit({})
  <2>1. /\ vs.mani \in DOMAIN manis /\ FileOK(g, EditType) /\ ManifestOK(g.recs)
        /\ \A i \in 1..Len(g.recs) : g.recs[i].next <= vs.next
    BY <1>0, <1>1 DEF Data, ManiInv, TypeManis
  <2>2. e \in EditType /\ e.log < e.next /\ e.next = vs.next /\ \A x \in e.add : x[1] < e.next
    BY <1>0, OpenEditFacts
  <2>3. f \in Appended(g, e)
    BY <1>1
  <2> HIDE DEF g, e
  <2>4. FileOK(f, EditType) /\ (f.recs = g.recs \/ f.recs = Append(g.recs, e))
    BY <2>1, <2>2, <2>3, AppendedFacts
  <2>5. g.recs \in Seq(EditType)
    BY <2>1 DEF FileOK, FileType
  <2>6. ManifestOK(Append(g.recs, e))
    BY <2>1, <2>2, <2>5, ManifestAppend
  <2>7. \A i \in 1..Len(Append(g.recs, e)) : Append(g.recs, e)[i] = e \/ (i \in 1..Len(g.recs) /\ Append(g.recs, e)[i] = g.recs[i])
    BY <2>5
  <2>8. \A i \in 1..Len(Append(g.recs, e)) : Append(g.recs, e)[i].next <= vs.next
    BY <1>0, <2>1, <2>2, <2>7
  <2> QED  BY <1>0, <2>1, <2>4, <2>6, <2>8, SyncedFacts
<1>2. CASE ~rc.reuse
  <2> DEFINE e == OpenEdit(vs.ver)
  <2>1. FileOK(EmptyFile, EditType) /\ EmptyFile.recs = <<>> /\ EmptyFile.tear = 0
    BY EmptyFacts
  <2>2. e \in EditType /\ e.log < e.next /\ e.next = vs.next /\ \A x \in e.add : x[1] < e.next
    BY <1>0, OpenEditFacts
  <2>3. f \in Appended(EmptyFile, e)
    BY <1>2
  <2> HIDE DEF e
  <2>4. FileOK(f, EditType) /\ f.recs = Append(<<>>, e)
    BY <2>1, <2>2, <2>3, AppendedFacts
  <2>5. <<>> \in Seq(EditType) /\ ManifestOK(<<>>)
    BY DEF ManifestOK
  <2>6. ManifestOK(Append(<<>>, e))
    <3> DEFINE q == <<>>
    <3>1. q \in Seq(EditType) /\ ManifestOK(q) /\ \A i \in 1..Len(q) : q[i].next <= e.next
      BY <2>5
    <3> HIDE DEF q
    <3>2. ManifestOK(Append(q, e))
      BY <2>2, <3>1, ManifestAppend
    <3> QED  BY <3>2 DEF q
  <2>7. \A i \in 1..Len(Append(<<>>, e)) : Append(<<>>, e)[i] = e
    OBVIOUS
  <2>8. \A i \in 1..Len(f.recs) : f.recs[i].next <= vs.next
    BY <1>0, <2>2, <2>4, <2>7
  <2> QED  BY <1>0, <2>4, <2>6, <2>8, SyncedFacts
<1> QED  BY <1>1, <1>2

(* Open saves what it recovered, in a new manifest or the old one.         *)
LEMMA OpenApplyStep ==
  ASSUME Control, Data, OpenApply, plan' = plan
  PROVE  Control' /\ Data'
<1>0. /\ rc.stage = "apply" /\ up = "opening" /\ ~Live /\ Based /\ rc \in RcType /\ vs \in VsType /\ TypeManis /\ ManifestsOK
      /\ hist \in HistType /\ UNCHANGED <<logs, tables, current>>
  BY DEF OpenApply, Control, Typed, TypeRc, TypeVs, TypeHist, Stages, Live, Based, Data, ManiInv, ManifestsOK
<1>1. CASE OpenFail
           /\ IF rc.reuse
              THEN \E f \in AppendFailed(manis[vs.mani]) \cup Appended(manis[vs.mani], OpenEdit({})) :
                     /\ manis' = [manis EXCEPT ![vs.mani] = f]
                     /\ hist' = [hist EXCEPT !.damaged = @ \/ f.tear = 2]
              ELSE manis' = Kept(manis, DOMAIN manis \ {vs.mani}) /\ UNCHANGED hist
  <2>1. CASE rc.reuse
    <3>1. PICK f \in AppendFailed(manis[vs.mani]) \cup Appended(manis[vs.mani], OpenEdit({})) :
                 /\ manis' = [manis EXCEPT ![vs.mani] = f]
                 /\ hist' = [hist EXCEPT !.damaged = @ \/ f.tear = 2]
      BY <1>1, <2>1
    <3>2. vs.mani \in DOMAIN manis /\ FileOK(manis[vs.mani], EditType)
      BY <1>0, <2>1 DEF Data, ManiInv, TypeManis
    <3>3. FileOK(f, EditType) /\ ManifestOK(f.recs)
      <4>1. CASE f \in AppendFailed(manis[vs.mani])
        <5>1. FileOK(f, EditType) /\ f.recs = manis[vs.mani].recs
          BY <3>2, <4>1, AppendFailedFacts
        <5> QED  BY <1>0, <3>2, <5>1 DEF ManifestsOK
      <4>2. CASE f \in Appended(manis[vs.mani], OpenEdit({}))
        BY <1>0, <2>1, <4>2, OpenApplyFacts
      <4> QED  BY <3>1, <4>1, <4>2
    <3>6. TypeHist'
      BY <1>0, <3>1 DEF TypeHist, HistType
    <3>4. DOMAIN manis' = DOMAIN manis /\ manis'[vs.mani] = f /\ \A m \in DOMAIN manis : m # vs.mani => manis'[m] = manis[m]
      BY <3>1, <3>2
    <3>5. TypeManis' /\ ManifestsOK'
      BY <1>0, <3>2, <3>3, <3>4 DEF TypeManis, ManifestsOK
    <3> QED  BY <1>0, <1>1, <3>5, <3>6, OpenFailStep
  <2>2. CASE ~rc.reuse
    <3>1. \A m \in DOMAIN manis' : m \in DOMAIN manis /\ manis'[m] = manis[m]
      BY <1>1, <2>2 DEF Kept
    <3>2. TypeManis' /\ ManifestsOK'
      BY <1>0, <3>1 DEF TypeManis, ManifestsOK
    <3> QED  BY <1>0, <1>1, <2>2, <3>2, OpenFailStep
  <2> QED  BY <2>1, <2>2
<1>2. CASE ~OpenFail
  <2>1. PICK f \in IF rc.reuse THEN Appended(manis[vs.mani], OpenEdit({})) ELSE Appended(EmptyFile, OpenEdit(vs.ver)) :
             /\ manis' = With(manis, vs.mani, SyncedFile(f))
             /\ hist' = [hist EXCEPT !.damaged = @ \/ f.tear = 2]
    BY <1>2 DEF OpenApply
  <2>2. /\ rc' = [rc EXCEPT !.stage = "current"]
        /\ UNCHANGED <<up, queue, cl, rd, mem, imm, mems, vs, pending, err, sched, shut, bg, manual>>
    BY <1>2 DEF OpenApply, memory, memtables, flags
  <2>3. /\ FileOK(SyncedFile(f), EditType) /\ ManifestOK(f.recs) /\ SyncedFile(f).recs = f.recs
        /\ \A i \in 1..Len(f.recs) : f.recs[i].next <= vs.next
        /\ mem # 0 /\ Based
    BY <1>0, <2>1, OpenApplyFacts
  <2> DEFINE g == SyncedFile(f)
  <2>4. FileOK(g, EditType) /\ g.recs = f.recs
    BY <2>3
  <2>5. manis' = With(manis, vs.mani, g)
    BY <2>1
  <2> HIDE DEF g
  <2>6. /\ vs.mani \in DOMAIN manis' /\ manis'[vs.mani] = g
        /\ \A m \in DOMAIN manis' : m = vs.mani \/ (m \in DOMAIN manis /\ manis'[m] = manis[m])
    BY <2>5 DEF With
  <2>7. TypeManis' /\ ManifestsOK'
    BY <1>0, <2>3, <2>4, <2>6 DEF TypeManis, ManifestsOK, VsType
  <2>8. /\ rc' \in RcType /\ rc'.stage = "current" /\ rc'.reuse = rc.reuse /\ rc'.add = rc.add /\ rc'.todo = rc.todo
    BY <1>0, <2>2 DEF RcType
  <2>9. TypeHist'
    BY <1>0, <2>1 DEF TypeHist, HistType
  <2>10. OpenFrame
    BY <1>0, <2>2, <2>8, <2>9 DEF OpenFrame
  <2>11. TypeLogs' /\ TypeTables' /\ TypeMems'
    BY <1>0, <2>2 DEF Control, Typed, TypeLogs, TypeTables, TypeMems
  <2>12. BoundInv'
    BY <1>0, <2>2 DEF Data, BoundInv, RecordsOf
  <2>13. ManiInv'
    <3>1. bg'.pc # "manifest"
      BY <1>0, <2>2, IdleFacts DEF Control, QuietInv
    <3> QED  BY <2>2, <2>3, <2>4, <2>6, <2>7, <3>1 DEF ManiInv, ManifestsOK
  <2>14. FreshInv' /\ LogInv' /\ RecoverInv'
    <3>1. Based' /\ Based
      BY <1>0, <2>2, <2>8 DEF Based
    <3>2. FreshInv'
      BY <1>0, <2>2, <2>8, <3>1 DEF Data, FreshInv
    <3>3. LogInv'
      BY <1>0, <2>2, <3>1 DEF Data, LogInv
    <3>4. RecoverInv'
      BY <1>0, <2>2, <2>8 DEF Data, RecoverInv
    <3> QED  BY <3>2, <3>3, <3>4
  <2> QED  BY <2>7, <2>8, <2>10, <2>11, <2>12, <2>13, <2>14, OpenDoneWith
<1>3. CASE OpenFail
  <2>1. up' = "closed"
    BY <1>3 DEF OpenFail
  <2>2. ~(UNCHANGED <<up, memory>>)
    BY <1>0, <2>1
  <2> QED  BY <1>1, <2>2 DEF OpenApply
<1> QED  BY <1>2, <1>3

(* CURRENT names the manifest and the version set takes the edit.          *)
LEMMA OpenCurrentStep ==
  ASSUME Control, Data, OpenCurrent, plan' = plan
  PROVE  Control' /\ Data'
<1>0. /\ rc.stage = "current" /\ up = "opening" /\ ~Live /\ Based /\ rc \in RcType /\ vs \in VsType /\ TypeManis
      /\ hist \in HistType /\ mem # 0 /\ mem \in Nat /\ rc.todo = {} /\ vs.ver \subseteq File /\ rc.add \subseteq File
      /\ UNCHANGED <<logs, tables, manis, up, queue, cl, rd, mem, imm, mems, pending, err, sched, shut, bg, manual>>
  BY DEF OpenCurrent, Control, Typed, TypeRc, RcType, TypeVs, VsType, TypeHist, Stages, Live, Based, Data, RecoverInv,
         memtables, flags, TypeMems
<1>1. rc' = [rc EXCEPT !.stage = "clean"] /\ vs' = [vs EXCEPT !.ver = @ \cup rc.add, !.log = mem]
      /\ hist' = [hist EXCEPT !.rootless = FALSE] /\ current' = vs.mani
  BY DEF OpenCurrent
<1>2. rc' \in RcType /\ rc'.stage = "clean" /\ rc'.reuse = rc.reuse /\ rc'.add = rc.add /\ rc'.todo = rc.todo
  BY <1>0, <1>1 DEF RcType
<1>3. vs' \in VsType /\ vs'.ver = vs.ver \cup rc.add /\ vs'.log = mem /\ vs'.mani = vs.mani /\ vs'.next = vs.next
      /\ vs.next \in Nat
  <2> DEFINE v == vs.ver \cup rc.add
  <2>1. v \in SUBSET File /\ vs' = [vs EXCEPT !.ver = v, !.log = mem]
    BY <1>0, <1>1
  <2> HIDE DEF v
  <2>2. vs' \in VsType /\ vs'.ver = v /\ vs'.log = mem /\ vs'.mani = vs.mani /\ vs'.next = vs.next /\ vs.next \in Nat
    BY <1>0, <2>1 DEF VsType
  <2> QED  BY <2>2 DEF v
<1>4. TypeHist' /\ TypeLogs' /\ TypeTables' /\ TypeManis' /\ TypeMems'
  <2>1. TypeHist'
    BY <1>0, <1>1 DEF TypeHist, HistType
  <2>2. TypeManis'
    BY <1>0, <1>1 DEF TypeManis, VsType
  <2> QED  BY <1>0, <2>1, <2>2 DEF Control, Typed, TypeLogs, TypeTables, TypeMems
<1>5. OpenFrame
  BY <1>0, <1>2, <1>3, <1>4 DEF OpenFrame
<1>6. BoundInv'
  BY <1>0 DEF Data, BoundInv, RecordsOf
<1>7. ManiInv'
  <2>1. bg'.pc # "manifest" /\ ~Live'
    BY <1>0, IdleFacts DEF Control, QuietInv, Live
  <2>2. vs.mani \in DOMAIN manis /\ \A i \in 1..Len(manis[vs.mani].recs) : manis[vs.mani].recs[i].next <= vs.next
    BY <1>0 DEF Data, ManiInv
  <2> QED  BY <1>0, <1>2, <1>3, <2>1, <2>2 DEF Data, ManiInv
<1>8. FreshInv'
  BY <1>0, <1>2, <1>3 DEF Data, FreshInv
<1>9. LogInv'
  BY <1>0, <1>3 DEF Data, LogInv, FreshInv
<1>10. RecoverInv'
  BY <1>0, <1>2 DEF Data, RecoverInv
<1> QED  BY <1>2, <1>4, <1>5, <1>6, <1>7, <1>8, <1>9, <1>10, OpenDoneWith

(* The database is open: what was recovered is its contents.               *)
LEMMA OpenDoneStep ==
  ASSUME Control, Data, OpenDone, plan' = plan
  PROVE  Control' /\ Data'
<1>0. /\ rc.stage = "clean" /\ up = "opening" /\ ~Live /\ Based /\ rc \in RcType /\ vs \in VsType /\ TypeManis
      /\ hist \in HistType /\ mem # 0 /\ rc.todo = {}
      /\ UNCHANGED <<current, queue, cl, rd, mem, imm, mems, vs, pending, err, shut, bg, manual>>
      /\ up' = "open" /\ rc' = IdleRc /\ Live' /\ Based'
  BY DEF OpenDone, Control, Typed, TypeRc, TypeVs, TypeHist, Stages, Live, Based, Data, RecoverInv, memtables
<1>1. /\ queue = <<>> /\ cl = [c \in Writers |-> IdleCl] /\ rd = [r \in Readers |-> IdleRd]
      /\ imm = 0 /\ pending = {} /\ ~err /\ ~shut /\ bg = IdleBg /\ err \in BOOLEAN
  BY <1>0 DEF Control, QuietInv, Typed, TypeFlags
<1>2. /\ \A n \in DOMAIN logs' : n \in DOMAIN logs /\ logs'[n] = logs[n]
      /\ \A n \in DOMAIN logs : n >= vs.log => n \in DOMAIN logs'
      /\ \A m \in DOMAIN manis' : m \in DOMAIN manis /\ manis'[m] = manis[m]
      /\ \A m \in DOMAIN manis : m >= vs.mani => m \in DOMAIN manis'
      /\ \A n \in DOMAIN tables' : n \in DOMAIN tables /\ tables'[n] = tables[n]
      /\ \A n \in FilesOf(vs.ver) : SameTable(n)
  <2>1. DeleteObsoleteFiles(tables, vs, pending, {}, err)
    BY DEF OpenDone
  <2>2. \A n \in FilesOf(vs.ver) : n \in LiveFiles(vs, pending, {})
    BY DEF LiveFiles
  <2> QED  BY <1>1, <2>1, <2>2, DeleteFacts
<1>3. /\ TypeLogs' /\ TypeTables' /\ TypeManis' /\ TypeCl' /\ TypeRd' /\ TypeMems' /\ TypeVs' /\ TypeBg' /\ TypeRc'
      /\ TypeFlags' /\ plan' \in Plans
  <2>1. TypeLogs' /\ TypeTables' /\ TypeManis'
    BY <1>0, <1>2 DEF Control, Typed, TypeLogs, TypeTables, TypeManis
  <2>2. TypeCl' /\ TypeRd' /\ TypeMems' /\ TypeVs' /\ TypeBg'
    BY <1>0 DEF Control, Typed, TypeCl, TypeRd, TypeMems, TypeVs, TypeBg
  <2>3. TypeRc'
    BY <1>0, IdleTypes DEF TypeRc
  <2>4. sched' \in BOOLEAN
    BY DEF OpenDone, Schedules
  <2> QED  BY <1>0, <2>1, <2>2, <2>3, <2>4 DEF Control, Typed, TypeFlags
<1>4. mem \in DOMAIN mems /\ mem \in DOMAIN logs /\ vs.log <= mem /\ vs.log < vs.next /\ mem \in Nat /\ vs.log \in Nat
  BY <1>0 DEF Data, FreshInv, LogInv, Control, Typed, TypeMems, VsType
<1>5. Recovered \subseteq Nat \X Nat
  <2>1. TableEntries(vs.ver) \in SUBSET (Nat \X Nat)
    BY EntriesTyped DEF Control, Typed
  <2>2. mems[mem] \subseteq Nat \X Nat
    BY <1>4 DEF Control, Typed, TypeMems, Entry
  <2> QED  BY <2>1, <2>2 DEF Recovered
<1>6. TypeHist' /\ hist'.applied = Recovered
  <2>1. PICK lf, lg : hist' = [hist EXCEPT !.applied = Recovered, !.life = lf, !.logged = lg]
    BY DEF OpenDone
  <2> DEFINE es == Recovered
  <2>2. es \in SUBSET (Nat \X Nat) /\ hist' = [hist EXCEPT !.applied = es, !.life = lf, !.logged = lg]
    BY <1>5, <2>1
  <2> HIDE DEF es
  <2>3. hist' \in [next : Nat \ {0}, compacts : Nat, reads : Nat, life : {lf}, logged : {lg},
                   applied : SUBSET (Nat \X Nat), promised : SUBSET Nat, damaged : BOOLEAN, rootless : BOOLEAN]
        /\ hist'.applied = es /\ hist'.life = lf /\ hist'.logged = lg
    BY <1>0, <2>2 DEF HistType
  <2> QED  BY <2>3 DEF TypeHist, HistType, es
<1>7. Control'
  <2>1. Stages'
    BY <1>0, IdleTypes DEF Stages
  <2>2. QuietInv'
    BY <1>0 DEF QuietInv
  <2>3. QueueInv'
    BY <1>0 DEF Control, QueueInv
  <2> QED  BY <1>3, <1>6, <2>1, <2>2, <2>3 DEF Control, Typed
<1>8. BoundInv'
  <2>1. \A n \in Numbers' : n \in Numbers \/ n <= 0
    BY <1>2 DEF Numbers
  <2>2. \A e \in AllEntries' : e \in AllEntries \/ e[1] <= 0
    BY <1>0, <1>2 DEF AllEntries, RecordsOf
  <2> QED  BY <1>3, <2>1, <2>2, BoundKept DEF Data
<1>9. ManiInv'
  <2>1. bg'.pc # "manifest"
    BY <1>0, <1>1, IdleFacts
  <2>2. vs.mani \in DOMAIN manis /\ \A i \in 1..Len(manis[vs.mani].recs) : manis[vs.mani].recs[i].next <= vs.next
    BY <1>0 DEF Data, ManiInv
  <2>3. vs.mani \in DOMAIN manis'
    BY <1>0, <1>2, <2>2 DEF VsType
  <2> QED  BY <1>0, <1>2, <2>1, <2>2, <2>3 DEF Data, ManiInv
<1>10. FreshInv'
  BY <1>0, <1>1, <1>2, IdleTypes DEF Data, FreshInv, IdleRd
<1>11. LogInv'
  BY <1>0, <1>2, <1>4 DEF LogInv
<1>12. BgInv'
  <2>1. bg' = IdleBg /\ bg'.comp = NoComp /\ bg'.pc = "none" /\ NoComp.inputs = {} /\ NoComp.out = 0
    BY <1>0, <1>1, IdleFacts
  <2> QED  BY <1>0, <1>1, <2>1 DEF BgInv
<1>13. ContInv'
  <2>1. UNION {tables'[n] : n \in FilesOf(vs.ver) \cap DOMAIN tables'} = TableEntries(vs.ver)
    BY <1>2, EntriesKept
  <2>2. Contents' = (UNION {mems[n] : n \in {mem, 0} \ {0}}) \cup TableEntries(vs.ver)
    BY <1>0, <1>1, <2>1 DEF Contents, TableEntries
  <2>3. UNION {mems[n] : n \in {mem, 0} \ {0}} = mems[mem]
    BY <1>0
  <2> QED  BY <1>6, <2>2, <2>3 DEF ContInv, Recovered
<1>14. ReadInv' /\ RecoverInv'
  BY <1>0, <1>1, IdleTypes DEF ReadInv, IdleRd, RecoverInv
<1> QED  BY <1>7, <1>8, <1>9, <1>10, <1>11, <1>12, <1>13, <1>14 DEF Data

(* RepairDB, up to a new manifest.                                         *)
LEMMA RepairBeginStep ==
  ASSUME Control, Data, RepairBegin, plan' = plan
  PROVE  Control' /\ Data'
<1>0. up = "closed" /\ up' = "repairing" /\ UNCHANGED <<logs, tables, manis, current, hist>> /\ UNCHANGED memory
      /\ UNCHANGED mems
      /\ rc' = [IdleRc EXCEPT !.stage = "convert", !.todo = DOMAIN logs,
                  !.next = Max({1} \cup {n + 1 : n \in DOMAIN logs \cup DOMAIN tables})]
  BY DEF RepairBegin, disk, memory, memtables
<1> DEFINE T == {1} \cup {n + 1 : n \in DOMAIN logs \cup DOMAIN tables}
<1>1. PICK b \in Nat : \A n \in DOMAIN logs \cup DOMAIN tables : n \in Nat /\ n <= b
  BY DEF Data, BoundInv, Control, Typed, TypeLogs, TypeTables
<1>2. b + 1 \in Nat /\ T \subseteq Nat /\ T # {} /\ \A x \in T : x <= b + 1
  BY <1>1
<1>3. Max(T) \in T /\ \A x \in T : x <= Max(T)
  <2> HIDE DEF T
  <2> QED  BY <1>2, MaxFacts
<1>4. Max(T) \in Nat /\ Max(T) > 0 /\ \A n \in DOMAIN logs \cup DOMAIN tables : n < Max(T)
  <2> DEFINE x == Max(T)
  <2>1. x \in Nat /\ \A y \in T : y <= x
    BY <1>2, <1>3
  <2>2. 1 \in T /\ \A n \in DOMAIN logs \cup DOMAIN tables : n + 1 \in T
    OBVIOUS
  <2> HIDE DEF x, T
  <2>3. x > 0 /\ \A n \in DOMAIN logs \cup DOMAIN tables : n < x
    BY <1>1, <2>1, <2>2
  <2> QED  BY <2>1, <2>3 DEF x
<1>5. DOMAIN logs \in SUBSET Nat
  BY <1>1
<1>6. /\ rc' \in RcType /\ rc'.stage = "convert" /\ rc'.todo = DOMAIN logs /\ rc'.add = {} /\ rc'.next = Max(T)
  <2> DEFINE x == Max(T)
             d == DOMAIN logs
  <2>1. x \in Nat /\ d \in SUBSET Nat /\ rc' = [IdleRc EXCEPT !.stage = "convert", !.todo = d, !.next = x]
    BY <1>0, <1>4, <1>5
  <2> HIDE DEF x, d
  <2>2. rc' \in RcType /\ rc'.stage = "convert" /\ rc'.todo = d /\ rc'.add = {} /\ rc'.next = x
    BY <2>1, IdleTypes DEF RcType
  <2> QED  BY <2>2 DEF x, d
<1> HIDE DEF T
<1>7. ~Based /\ ~Based'
  BY <1>0, <1>6 DEF Based, Live
<1>8. TypeLogs' /\ TypeTables' /\ TypeManis' /\ TypeHist' /\ ManifestsOK'
  BY <1>0 DEF Control, Typed, TypeLogs, TypeTables, TypeManis, TypeHist, HistType, Data, ManiInv, ManifestsOK
<1>9. TypeRc' /\ Stages' /\ RecoverInv'
  BY <1>0, <1>4, <1>6 DEF TypeRc, Stages, RecoverInv
<1>10. BoundInv'
  BY <1>0 DEF Data, BoundInv, RecordsOf
<1> QED  BY <1>0, <1>7, <1>8, <1>9, <1>10, DiskStep

(* A repair turns a log into a table.                                      *)
LEMMA ConvertStep ==
  ASSUME Control, Data, ConvertLogToTable, plan' = plan
  PROVE  Control' /\ Data'
<1>0. /\ rc.stage = "convert" /\ up = "repairing" /\ UNCHANGED <<manis, current, up>> /\ UNCHANGED memory
      /\ UNCHANGED mems /\ rc \in RcType /\ hist \in HistType
  BY DEF ConvertLogToTable, Control, Typed, TypeRc, TypeHist, Stages, memory, memtables
<1>1. PICK n \in rc.todo :
        /\ \/ /\ tables' = IF RecordsOf(n) = {} THEN tables ELSE With(tables, rc.next, RecordsOf(n))
              /\ UNCHANGED hist
           \/ hist' = [hist EXCEPT !.damaged = TRUE] /\ UNCHANGED tables
        /\ logs' = Archived(logs, n)
        /\ rc' = [rc EXCEPT !.todo = @ \ {n}, !.next = @ + 1]
  BY DEF ConvertLogToTable
<1>2. /\ DOMAIN logs = rc.todo /\ rc.next \in Nat /\ rc.next > 0
      /\ \A m \in DOMAIN logs \cup DOMAIN tables : m < rc.next /\ m \in Nat
  BY <1>0 DEF Data, RecoverInv, RcType, Control, Typed, TypeLogs, TypeTables
<1>3. RecordsOf(n) \in SUBSET Entry /\ \A e \in RecordsOf(n) : e \in AllEntries
  BY <1>1, <1>2, RecordEntries DEF Control, Typed
<1>4. DOMAIN logs' = DOMAIN logs \ {n} /\ \A m \in DOMAIN logs' : logs'[m] = logs[m]
  BY <1>1 DEF Archived, Kept
<1>5. \A m \in DOMAIN tables' : \/ m \in DOMAIN tables /\ tables'[m] = tables[m]
                                \/ m = rc.next /\ tables'[m] = RecordsOf(n)
  BY <1>1 DEF With
<1>6. /\ rc' \in RcType /\ rc'.stage = "convert" /\ rc'.todo = rc.todo \ {n} /\ rc'.add = rc.add /\ rc'.next = rc.next + 1
  <2> DEFINE d == rc.todo \ {n}
             k == rc.next + 1
  <2>1. d \in SUBSET Nat /\ k \in Nat /\ rc' = [rc EXCEPT !.todo = d, !.next = k]
    BY <1>0, <1>1, <1>2 DEF RcType
  <2> HIDE DEF d, k
  <2>2. rc' \in RcType /\ rc'.stage = "convert" /\ rc'.todo = d /\ rc'.add = rc.add /\ rc'.next = k
    BY <1>0, <2>1 DEF RcType
  <2> QED  BY <2>2 DEF d, k
<1>7. ~Based /\ ~Based'
  BY <1>0, <1>6 DEF Based, Live
<1>8. TypeLogs' /\ TypeTables' /\ TypeManis' /\ TypeHist' /\ ManifestsOK'
  <2>1. TypeTables'
    BY <1>2, <1>3, <1>5 DEF Control, Typed, TypeTables, Entry
  <2>2. TypeHist'
    BY <1>0, <1>1 DEF TypeHist, HistType
  <2> QED  BY <1>0, <1>4, <2>1, <2>2 DEF Control, Typed, TypeLogs, TypeManis, Data, ManiInv, ManifestsOK
<1>9. TypeRc' /\ Stages'
  BY <1>0, <1>6 DEF TypeRc, Stages
<1>10. RecoverInv'
  BY <1>0, <1>2, <1>4, <1>5, <1>6 DEF RecoverInv
<1>11. TypeMems'
  BY <1>0 DEF Control, Typed, TypeMems, memory, memtables
<1>12. BoundInv'
  <2>1. \A m \in Numbers' : m \in Numbers \/ m <= rc.next
    BY <1>2, <1>4, <1>5 DEF Numbers
  <2>2. \A e \in AllEntries' : e \in AllEntries
    BY <1>0, <1>3, <1>4, <1>5 DEF AllEntries, RecordsOf
  <2> QED  BY <1>2, <1>8, <1>11, <2>1, <2>2, BoundKept DEF Data
<1> QED  BY <1>0, <1>7, <1>8, <1>9, <1>10, <1>12, DiskStep

(* The manifest that WriteDescriptor makes.                                *)
Descriptor == [add |-> {<<n, 0>> : n \in ReadableTables}, del |-> {}, log |-> 0,
               next |-> rc.next, seq |-> MaxSeq(UNION {tables[n] : n \in ReadableTables}, 0)]

(* The one edit that a repair writes: every table that it can read.        *)
LEMMA DescriptorFacts ==
  ASSUME Control, Data, rc.stage = "convert"
  PROVE  /\ Descriptor \in EditType /\ Descriptor.add = {<<n, 0>> : n \in ReadableTables} /\ Descriptor.del = {}
         /\ Descriptor.log = 0 /\ Descriptor.next = rc.next /\ rc.next > 0
         /\ \A f \in Descriptor.add : f[1] < rc.next
<1>1. rc.next \in Nat /\ rc.next > 0 /\ \A n \in ReadableTables : n \in Nat /\ n < rc.next
  BY DEF Data, RecoverInv, Control, Typed, TypeRc, RcType, TypeTables, ReadableTables
<1>2. MaxSeq(UNION {tables[n] : n \in ReadableTables}, 0) \in Nat
  <2> DEFINE es == UNION {tables[n] : n \in ReadableTables}
  <2>1. \A e \in es : e \in AllEntries /\ e[1] \in Nat
    BY DEF ReadableTables, AllEntries, Control, Typed, TypeTables
  <2> HIDE DEF es
  <2>2. MaxSeq(es, 0) \in Nat
    BY <2>1, MaxSeqFacts DEF Data
  <2> QED  BY <2>2 DEF es
<1>3. {<<n, 0>> : n \in ReadableTables} \in SUBSET File /\ \A f \in {<<n, 0>> : n \in ReadableTables} : f[1] < rc.next
  BY <1>1 DEF File
<1> QED  BY <1>1, <1>2, <1>3 DEF Descriptor, EditType

(* A repair writes its manifest.                                           *)
LEMMA DescriptorStep ==
  ASSUME Control, Data, WriteDescriptor, plan' = plan
  PROVE  Control' /\ Data'
<1>0. /\ rc.stage = "convert" /\ up = "repairing" /\ UNCHANGED <<logs, current, up>> /\ UNCHANGED memory
      /\ UNCHANGED mems /\ rc \in RcType /\ hist \in HistType
      /\ rc' = [rc EXCEPT !.stage = "point"] /\ hist' = [hist EXCEPT !.rootless = TRUE]
      /\ tables' = Kept(tables, ReadableTables)
      /\ manis' = With(NoFiles, 1, [EmptyFile EXCEPT !.recs = <<Descriptor>>])
  BY DEF WriteDescriptor, Control, Typed, TypeRc, TypeHist, Stages, memory, memtables, Descriptor
<1>1. rc' \in RcType /\ rc'.stage = "point" /\ rc'.add = rc.add
  BY <1>0 DEF RcType
<1> DEFINE g == [EmptyFile EXCEPT !.recs = <<Descriptor>>]
<1>2. FileOK(g, EditType) /\ ManifestOK(g.recs)
  <2>1. Descriptor \in EditType /\ Descriptor.log < Descriptor.next /\ \A f \in Descriptor.add : f[1] < Descriptor.next
    BY <1>0, DescriptorFacts
  <2> QED  BY <2>1, OneRecord
<1> HIDE DEF g
<1>3. DOMAIN manis' = {1} /\ manis'[1] = g
  BY <1>0 DEF With, NoFiles, g
<1>4. ~Based /\ ~Based'
  BY <1>0, <1>1 DEF Based, Live
<1>5. \A m \in DOMAIN tables' : m \in DOMAIN tables /\ tables'[m] = tables[m]
  BY <1>0 DEF Kept
<1>6. TypeLogs' /\ TypeTables' /\ TypeManis' /\ TypeHist' /\ ManifestsOK'
  <2>1. TypeHist'
    BY <1>0 DEF TypeHist, HistType
  <2>2. TypeManis' /\ ManifestsOK'
    BY <1>0, <1>2, <1>3 DEF Control, Typed, TypeManis, ManifestsOK
  <2> QED  BY <1>0, <1>5, <2>1, <2>2 DEF Control, Typed, TypeLogs, TypeTables
<1>7. TypeRc' /\ Stages' /\ RecoverInv'
  BY <1>0, <1>1 DEF TypeRc, Stages, RecoverInv
<1>8. BoundInv'
  BY <1>0, <1>5 DEF Data, BoundInv, RecordsOf
<1> QED  BY <1>0, <1>4, <1>6, <1>7, <1>8, DiskStep

(* A repair points CURRENT at its manifest.                                *)
LEMMA RepairDoneStep ==
  ASSUME Control, Data, RepairDone, plan' = plan
  PROVE  Control' /\ Data'
<1>0. /\ rc.stage = "point" /\ up = "repairing" /\ UNCHANGED <<logs, tables, manis, hist>> /\ UNCHANGED memory
      /\ UNCHANGED mems /\ up' = "closed" /\ rc' = IdleRc /\ current' = 1
  BY DEF RepairDone, Control, Stages, memory, memtables
<1>1. ~Based /\ ~Based'
  BY <1>0 DEF Based, Live
<1>2. TypeLogs' /\ TypeTables' /\ TypeManis' /\ TypeHist' /\ ManifestsOK'
  BY <1>0 DEF Control, Typed, TypeLogs, TypeTables, TypeManis, TypeHist, HistType, Data, ManiInv, ManifestsOK
<1>3. TypeRc' /\ Stages' /\ RecoverInv'
  BY <1>0, IdleTypes DEF TypeRc, Stages, RecoverInv
<1>4. BoundInv'
  BY <1>0 DEF Data, BoundInv, RecordsOf
<1> QED  BY <1>0, <1>1, <1>2, <1>3, <1>4, DiskStep

(* DestroyDB removes the files of the database.                            *)
LEMMA DestroyStep ==
  ASSUME Control, Data, DestroyDB, plan' = plan
  PROVE  Control' /\ Data'
<1>0. /\ up = "closed" /\ UNCHANGED <<up, rc>> /\ UNCHANGED memory /\ UNCHANGED mems /\ hist \in HistType
      /\ logs' = NoFiles /\ tables' = [n \in {} |-> {}] /\ manis' = NoFiles /\ current' = 0
      /\ hist' = [hist EXCEPT !.logged = {}, !.applied = {}, !.promised = {}, !.rootless = TRUE]
  BY DEF DestroyDB, Control, Typed, TypeHist, memory, memtables
<1>1. ~Based /\ ~Based'
  BY <1>0 DEF Based, Live
<1>2. DOMAIN logs' = {} /\ DOMAIN tables' = {} /\ DOMAIN manis' = {}
  BY <1>0 DEF NoFiles
<1>3. TypeHist'
  BY <1>0 DEF TypeHist, HistType
<1>4. TypeLogs' /\ TypeTables' /\ TypeManis' /\ ManifestsOK'
  BY <1>0, <1>2 DEF TypeLogs, TypeTables, TypeManis, ManifestsOK
<1>5. TypeRc' /\ Stages' /\ RecoverInv'
  BY <1>0, IdleTypes DEF Control, Typed, TypeRc, Stages, RecoverInv
<1>6. BoundInv'
  BY <1>0, <1>2 DEF Data, BoundInv
<1> QED  BY <1>0, <1>1, <1>3, <1>4, <1>5, <1>6, DiskStep

(* The machine stops: of every file a part survives, and of the table that *)
(* was being written perhaps some bytes.                                   *)
LEMMA CrashFacts ==
  ASSUME Control, Crash
  PROVE  /\ DOMAIN logs' = DOMAIN logs /\ DOMAIN manis' = DOMAIN manis
         /\ \A n \in DOMAIN logs :
              /\ FileOK(logs'[n], SUBSET Entry) /\ logs'[n].synced = logs[n].synced
              /\ Len(logs'[n].recs) <= Len(logs[n].recs)
              /\ \A i \in 1..Len(logs'[n].recs) : logs'[n].recs[i] = logs[n].recs[i]
              /\ logs'[n].tear = 2 <=> logs[n].tear = 2
         /\ \A n \in DOMAIN manis :
              /\ FileOK(manis'[n], EditType) /\ manis'[n].synced = manis[n].synced
              /\ Len(manis'[n].recs) <= Len(manis[n].recs)
              /\ \A i \in 1..Len(manis'[n].recs) : manis'[n].recs[i] = manis[n].recs[i]
              /\ manis'[n].tear = 2 <=> manis[n].tear = 2
         /\ \A n \in DOMAIN tables : n \in DOMAIN tables' /\ tables'[n] = tables[n]
         /\ \A n \in DOMAIN tables' : n \notin DOMAIN tables => n \in Unfinished /\ tables'[n] = Garbage
<1>1. /\ logs' \in [DOMAIN logs -> UNION {Survivors(logs[n]) : n \in DOMAIN logs}]
      /\ \A n \in DOMAIN logs : logs'[n] \in Survivors(logs[n])
      /\ manis' \in [DOMAIN manis -> UNION {Survivors(manis[n]) : n \in DOMAIN manis}]
      /\ \A n \in DOMAIN manis : manis'[n] \in Survivors(manis[n])
  BY DEF Crash
<1>2. DOMAIN logs' = DOMAIN logs /\ DOMAIN manis' = DOMAIN manis
  BY <1>1
<1>3. ASSUME NEW n \in DOMAIN logs
      PROVE  /\ FileOK(logs'[n], SUBSET Entry) /\ logs'[n].synced = logs[n].synced
             /\ Len(logs'[n].recs) <= Len(logs[n].recs)
             /\ \A i \in 1..Len(logs'[n].recs) : logs'[n].recs[i] = logs[n].recs[i]
             /\ logs'[n].tear = 2 <=> logs[n].tear = 2
  <2>1. FileOK(logs[n], SUBSET Entry) /\ logs'[n] \in Survivors(logs[n])
    BY <1>1 DEF Control, Typed, TypeLogs
  <2> DEFINE f == logs[n]
             g == logs'[n]
  <2>2. FileOK(f, SUBSET Entry) /\ g \in Survivors(f)
    BY <2>1
  <2> HIDE DEF f, g
  <2>3. /\ FileOK(g, SUBSET Entry) /\ g.synced = f.synced /\ Len(g.recs) <= Len(f.recs)
        /\ \A i \in 1..Len(g.recs) : g.recs[i] = f.recs[i]
        /\ g.tear = 2 <=> f.tear = 2
    BY <2>2, SurvivorFacts
  <2> QED  BY <2>3 DEF f, g
<1>4. ASSUME NEW n \in DOMAIN manis
      PROVE  /\ FileOK(manis'[n], EditType) /\ manis'[n].synced = manis[n].synced
             /\ Len(manis'[n].recs) <= Len(manis[n].recs)
             /\ \A i \in 1..Len(manis'[n].recs) : manis'[n].recs[i] = manis[n].recs[i]
             /\ manis'[n].tear = 2 <=> manis[n].tear = 2
  <2>1. FileOK(manis[n], EditType) /\ manis'[n] \in Survivors(manis[n])
    BY <1>1 DEF Control, Typed, TypeManis
  <2> DEFINE f == manis[n]
             g == manis'[n]
  <2>2. FileOK(f, EditType) /\ g \in Survivors(f)
    BY <2>1
  <2> HIDE DEF f, g
  <2>3. /\ FileOK(g, EditType) /\ g.synced = f.synced /\ Len(g.recs) <= Len(f.recs)
        /\ \A i \in 1..Len(g.recs) : g.recs[i] = f.recs[i]
        /\ g.tear = 2 <=> f.tear = 2
    BY <2>2, SurvivorFacts
  <2> QED  BY <2>3 DEF f, g
<1>5. PICK part \in SUBSET Unfinished :
        tables' = [n \in DOMAIN tables \cup part |-> IF n \in DOMAIN tables THEN tables[n] ELSE Garbage]
  BY DEF Crash
<1>6. /\ \A n \in DOMAIN tables : n \in DOMAIN tables' /\ tables'[n] = tables[n]
      /\ \A n \in DOMAIN tables' : n \notin DOMAIN tables => n \in Unfinished /\ tables'[n] = Garbage
  BY <1>5
<1> QED  BY <1>2, <1>3, <1>4, <1>6

(* A crash takes the memory and unsynced ends of files, and may leave      *)
(* unfinished tables behind.                                               *)
LEMMA CrashStep ==
  ASSUME Control, Data, Crash, plan' = plan
  PROVE  Control' /\ Data'
<1>0. /\ up' = "closed" /\ ResetMemory /\ current' = current /\ hist' = [hist EXCEPT !.damaged = @ \/ up = "repairing"]
      /\ hist \in HistType /\ vs.next \in Nat /\ bg.num \in Nat /\ bg.comp.out \in Nat
  BY DEF Crash, Control, Typed, TypeHist, TypeVs, VsType, TypeBg, BgType, CompType
<1>1. Unfinished \subseteq {vs.next, bg.num, bg.comp.out}
  BY DEF Unfinished
<1>2. TypeHist'
  BY <1>0 DEF TypeHist, HistType
<1>3. TypeLogs'
  BY CrashFacts DEF Control, Typed, TypeLogs
<1>4. TypeManis'
  BY <1>0, CrashFacts DEF Control, Typed, TypeManis
<1>5. \A n \in DOMAIN tables' : \/ n \in DOMAIN tables /\ tables'[n] = tables[n]
                                \/ n \in {vs.next, bg.num, bg.comp.out} /\ tables'[n] = Garbage
  BY <1>1, CrashFacts
<1>6. Garbage \subseteq Nat \X Nat /\ \A e \in Garbage : e[1] = 0
  BY DEF Garbage
<1>7. TypeTables'
  BY <1>0, <1>5, <1>6 DEF Control, Typed, TypeTables
<1>8. TypeMems' /\ DOMAIN mems' = {}
  BY <1>0 DEF ResetMemory, TypeMems
<1>9. ManifestsOK'
  <2>1. ASSUME NEW m \in DOMAIN manis' PROVE ManifestOK(manis'[m].recs)
    <3>1. /\ m \in DOMAIN manis /\ Len(manis'[m].recs) <= Len(manis[m].recs)
          /\ \A i \in 1..Len(manis'[m].recs) : manis'[m].recs[i] = manis[m].recs[i]
      BY <2>1, CrashFacts
    <3>2. ManifestOK(manis[m].recs) /\ Len(manis[m].recs) \in Nat
      BY <3>1 DEF Data, ManiInv, Control, Typed, TypeManis, FileOK, FileType
    <3>3. Len(manis'[m].recs) \in Nat
      BY <2>1, <1>4 DEF TypeManis, FileOK, FileType
    <3> DEFINE p == manis[m].recs
               q == manis'[m].recs
    <3>4. /\ \A i \in 1..Len(p) : p[i].log < p[i].next /\ \A f \in p[i].add : f[1] < p[i].next
          /\ \A i, j \in 1..Len(p) : i <= j => p[i].next <= p[j].next
          /\ Len(p) \in Nat
      BY <3>2 DEF ManifestOK
    <3>5. Len(q) \in Nat /\ Len(q) <= Len(p) /\ \A i \in 1..Len(q) : q[i] = p[i]
      BY <3>1, <3>3
    <3> HIDE DEF p, q
    <3>6. \A i \in 1..Len(q) : i \in 1..Len(p)
      BY <3>4, <3>5
    <3>7. \A i \in 1..Len(q) : q[i].log < q[i].next /\ \A f \in q[i].add : f[1] < q[i].next
      BY <3>4, <3>5, <3>6
    <3>8. \A i, j \in 1..Len(q) : i <= j => q[i].next <= q[j].next
      BY <3>4, <3>5, <3>6
    <3>9. ManifestOK(q)
      BY <3>7, <3>8 DEF ManifestOK
    <3> QED  BY <3>9 DEF q
  <2> QED  BY <2>1 DEF ManifestsOK
<1>10. BoundInv'
  <2> DEFINE d == vs.next + bg.num + bg.comp.out
  <2>1. d \in Nat /\ vs.next <= d /\ bg.num <= d /\ bg.comp.out <= d
    BY <1>0
  <2> HIDE DEF d
  <2>2. \A n \in Numbers' : n \in Numbers \/ n <= d
    BY <1>5, <2>1, CrashFacts DEF Numbers
  <2>3. ASSUME NEW n \in DOMAIN logs', NEW e \in UNION Range(logs'[n].recs)
        PROVE  e \in AllEntries
    <3>1. /\ n \in DOMAIN logs /\ FileOK(logs[n], SUBSET Entry) /\ FileOK(logs'[n], SUBSET Entry)
          /\ Len(logs'[n].recs) <= Len(logs[n].recs)
          /\ \A i \in 1..Len(logs'[n].recs) : logs'[n].recs[i] = logs[n].recs[i]
      BY <2>3, CrashFacts DEF Control, Typed, TypeLogs
    <3>2. PICK i \in 1..Len(logs'[n].recs) : e \in logs'[n].recs[i]
      BY <2>3, <3>1 DEF Range, FileOK, FileType
    <3>3. i \in 1..Len(logs[n].recs) /\ e \in logs[n].recs[i]
      BY <3>1, <3>2 DEF FileOK, FileType
    <3>4. i \in DOMAIN logs[n].recs
      BY <3>1, <3>3 DEF FileOK, FileType
    <3> QED  BY <3>1, <3>3, <3>4 DEF AllEntries, RecordsOf, Range
  <2>4. \A e \in AllEntries' : e \in AllEntries \/ e[1] <= d
    BY <1>5, <1>6, <1>8, <2>1, <2>3 DEF AllEntries, RecordsOf
  <2> QED  BY <1>3, <1>7, <1>8, <2>1, <2>2, <2>4, BoundKept DEF Data
<1>11. plan' \in Plans
  BY DEF Control, Typed
<1> QED  BY <1>0, <1>2, <1>3, <1>4, <1>7, <1>9, <1>10, <1>11, ResetDone

(* A directory without a database.                                         *)
LEMMA SnapInit ==
  ASSUME Init
  PROVE  SnapInv
<1>1. /\ DOMAIN logs = {} /\ DOMAIN tables = {} /\ DOMAIN manis = {} /\ DOMAIN mems = {} /\ current = 0 /\ up = "closed"
      /\ queue = <<>> /\ cl = [c \in Writers |-> IdleCl] /\ rd = [r \in Readers |-> IdleRd]
      /\ mem = 0 /\ imm = 0 /\ mems = [n \in {} |-> {}] /\ vs = NoVs /\ pending = {}
      /\ err = FALSE /\ sched = FALSE /\ shut = FALSE /\ bg = IdleBg /\ manual = NoClient /\ rc = IdleRc /\ plan \in Plans
  BY DEF Init, NoFiles
<1>2. TypeHist
  BY DEF Init, TypeHist, HistType
<1>3. ~Live /\ ~Based
  BY <1>1 DEF Live, Based
<1>4. /\ IdleCl.pc = "idle" /\ IdleCl.sync = FALSE /\ IdleRd.pc = "idle" /\ "idle" \notin InQueue /\ "idle" \notin Writing
  BY DEF IdleCl, IdleRd, InQueue, Writing
<1>5. Typed
  BY <1>1, <1>2, <1>4, IdleTypes, IdleFacts
     DEF Typed, TypeLogs, TypeTables, TypeManis, TypeCl, TypeRd, TypeMems, TypeVs, TypeBg, TypeRc, TypeFlags
<1>6. Stages /\ QuietInv
  BY <1>1, <1>3, IdleTypes DEF Stages, QuietInv
<1>7. QueueInv
  BY <1>1, <1>4 DEF QueueInv
<1>8. BoundInv
  <2>1. 0 \in Nat
    OBVIOUS
  <2> QED  BY <1>1, <2>1 DEF BoundInv
<1>9. ManiInv /\ FreshInv /\ LogInv /\ BgInv /\ ContInv /\ RecoverInv
  BY <1>1, <1>3, IdleTypes DEF ManiInv, FreshInv, LogInv, BgInv, ContInv, RecoverInv
<1>10. ReadInv
  BY <1>1, <1>4 DEF ReadInv
<1> QED  BY <1>5, <1>6, <1>7, <1>8, <1>9, <1>10 DEF SnapInv, Control, Data

(* Every step, and the stuttering one, keeps the invariant.                *)
LEMMA SnapStep ==
  ASSUME SnapInv, [Next]_openVars
  PROVE  SnapInv'
<1>0. Control /\ Data
  BY DEF SnapInv
<1>1. CASE UNCHANGED openVars
  <2>1. UNCHANGED <<logs, tables, manis, current, up, queue, cl, rd, mem, imm, mems, vs, pending, err, sched, shut,
                    bg, manual, plan, hist, rc, crashes>>
    BY <1>1 DEF openVars, vars, disk, memtables, flags
  <2>2. Control'
    <3>1. Typed'
      BY <1>0, <2>1 DEF Control, Typed, TypeLogs, TypeTables, TypeManis, TypeCl, TypeRd, TypeMems, TypeVs, TypeHist, HistType,
                        TypeBg, TypeRc, TypeFlags
    <3>2. Stages' /\ QuietInv'
      BY <1>0, <2>1 DEF Control, Stages, QuietInv, Live, Based
    <3>3. QueueInv'
      BY <1>0, <2>1 DEF Control, QueueInv
    <3> QED  BY <3>1, <3>2, <3>3 DEF Control
  <2>3. Live' = Live /\ Based' = Based
    BY <2>1 DEF Live, Based
  <2>4. BoundInv' /\ ManiInv' /\ FreshInv' /\ LogInv' /\ RecoverInv'
    BY <1>0, <2>1, <2>3 DEF Data, BoundInv, RecordsOf, ManiInv, FreshInv, LogInv, RecoverInv
  <2>5. BgInv'
    BY <1>0, <2>1, <2>3 DEF Data, BgInv, Unused, FlushEditOK, MoveEditOK, CompactEditOK, TableEntries, FilesOf
  <2>6. ContInv' /\ ReadInv'
    BY <1>0, <2>1, <2>3 DEF Data, ContInv, Contents, ReadInv, TableEntries, FilesOf, Below
  <2> QED  BY <2>2, <2>4, <2>5, <2>6 DEF Data, SnapInv
<1>2. CASE Next
  <2> SUFFICES Control' /\ Data'
    BY DEF SnapInv
  <2>0. plan' = plan
    BY <1>2 DEF Next
  <2>1. ASSUME NEW c \in Writers, Write(c) \/ CompactRange(c) \/ WriterStep(c), Running
        PROVE  Control' /\ Data'
    BY <1>0, <2>1, WriteStep, WriterStepOK
  <2>2. ASSUME NEW r \in Readers, GetBegin(r) \/ ReaderStep(r), Running
        PROVE  Control' /\ Data'
    BY <1>0, <2>2, GetBeginStep, ReaderStepOK
  <2>3. CASE BackgroundStep /\ Running
    BY <1>0, <2>3, BackgroundStepOK
  <2>4. CASE Close /\ rc' = rc
    BY <1>0, <2>0, <2>4, CloseStep
  <2>5. CASE CloseDone \/ OpenBegin
    BY <1>0, <2>0, <2>5, CloseDoneStep, OpenBeginStep
  <2>6. CASE OpenStep
    BY <1>0, <2>0, <2>6, OpenReadStep, RecoverLogStep, OpenLogStep, OpenApplyStep, OpenCurrentStep, OpenDoneStep DEF OpenStep
  <2>7. CASE RepairBegin \/ ConvertLogToTable \/ WriteDescriptor \/ RepairDone \/ DestroyDB
    BY <1>0, <2>0, <2>7, RepairBeginStep, ConvertStep, DescriptorStep, RepairDoneStep, DestroyStep
  <2>8. CASE Crash
    BY <1>0, <2>0, <2>8, CrashStep
  <2>9. CASE Segfault
    BY <1>0, <2>0, <2>9, SegfaultStep
  <2> QED  BY <1>2, <2>1, <2>2, <2>3, <2>4, <2>5, <2>6, <2>7, <2>8, <2>9 DEF Next, Step
<1> QED  BY <1>1, <1>2

(* What Get returns (db_impl.cc, DBImpl::Get) is the database as it was at *)
(* the sequence number it took under the mutex, for any number of threads, *)
(* any limits and any plan of failures: the memtables and the version it   *)
(* referenced keep their entries while the background thread flushes,      *)
(* compacts and deletes files, and later groups are above its snapshot.    *)
THEOREM GetReadsItsSnapshot ==
  Spec => []ReadsItsSnapshot
<1>1. Init => SnapInv
  BY SnapInit
<1>2. SnapInv /\ [Next]_openVars => SnapInv'
  BY SnapStep
<1>3. SnapInv => ReadsItsSnapshot
  BY DEF SnapInv, Data, ReadInv, ReadsItsSnapshot, Below
<1> QED  BY <1>1, <1>2, <1>3, PTL DEF Spec
-----------------------------------------------------------------------------
(* The groups of writes.  A set of writes is whole when it has a group and *)
(* every earlier group of the same log, or nothing of it.                  *)
Whole(S) ==
  \A g, h \in hist.logged : SameLog(g, h) /\ h.first <= g.first /\ g.ids \cap S # {} => h.ids \subseteq S

(* The writes of the first k records.                                      *)
UpTo(recs, k) == IdsOf(UNION {recs[i] : i \in 1..k})

(* Every table, every memtable and every log that loses a part of its end  *)
(* is whole: these are the sets that a recovery starts from.               *)
WholeInv ==
  /\ \A n \in DOMAIN tables : Whole(IdsOf(tables[n]))
  /\ \A n \in DOMAIN mems : Whole(IdsOf(mems[n]))
  /\ \A n \in DOMAIN logs : \A k \in 0..Len(logs[n].recs) : Whole(UpTo(logs[n].recs, k))

(* The types of the groups, and a group's first write is one of its own.   *)
GroupTypes ==
  /\ hist.life \in Nat /\ hist.logged \subseteq [life : Nat, log : Nat, first : Nat, ids : SUBSET Nat]
  /\ \A g \in hist.logged : /\ g.life \in Nat /\ g.life <= hist.life /\ g.log \in Nat
                            /\ g.first \in g.ids /\ g.ids \subseteq Nat \ {0}

(* The writes that reached a file or a memtable are numbered below those   *)
(* that wait in the queue, which are in order.                             *)
Seen == IdsOf(AllEntries) \cup UNION {g.ids : g \in hist.logged}
Logged == {"sync", "insert", "finish"}
Waits(i) == cl[queue[i]].id # 0 /\ (cl[queue[1]].pc \in Logged => cl[queue[1]].n < i)
IdsInv ==
  /\ \A x \in Seen : x < hist.next
  /\ \A i \in 1..Len(queue) : cl[queue[i]].id < hist.next
  /\ \A i, j \in 1..Len(queue) :
       i < j /\ cl[queue[i]].id # 0 /\ cl[queue[j]].id # 0 => cl[queue[i]].id < cl[queue[j]].id
  /\ \A i \in 1..Len(queue) : Waits(i) => \A x \in Seen : x < cl[queue[i]].id
  /\ \A c \in Writers : cl[c].pc \in Writing => cl[c].id # 0

(* The groups that a log holds are of this log, and of one life.           *)
OneLogEach ==
  \A n \in DOMAIN logs : \A g, h \in hist.logged :
    g.ids \cap IdsOf(RecordsOf(n)) # {} /\ h.ids \cap IdsOf(RecordsOf(n)) # {} => g.log = n /\ g.life = h.life

(* The groups of the log in use are all in it, and in its memtable but for *)
(* the one that is on its way there or lost its sync.                      *)
Newest(g) == g.life = hist.life /\ g.log = mem
Flying == {GroupIds(cl[c].n) : c \in {w \in Writers : cl[w].pc \in {"sync", "insert"}}}
SyncLost ==
  \/ \E c \in Writers : cl[c].pc = "finish" /\ cl[c].st = "syncerr"
  \/ err /\ \A c \in Writers : cl[c].pc \notin Writing
NewGroups ==
  up = "open" =>
    /\ \A g \in hist.logged :
         /\ g.life = hist.life => g.log <= mem
         /\ Newest(g) => g.ids \subseteq IdsOf(RecordsOf(mem))
         /\ g.ids \cap IdsOf(RecordsOf(mem)) # {} => Newest(g)
         /\ Newest(g) => g.ids \subseteq IdsOf(mems[mem]) \/ g.ids \in Flying \/ SyncLost
    /\ \A S \in Flying : S \subseteq IdsOf(RecordsOf(mem))

(* While an Open goes on, its memtable is its log.                         *)
SameMem == up = "opening" /\ mem # 0 => mem \in DOMAIN logs /\ mems[mem] = RecordsOf(mem)

(* The owner of the manual compaction is not in the queue.                 *)
AtManual(c) == cl[c].pc \in {"manual", "manwait"}
OwnerInv == manual # NoClient => AtManual(manual)

Groups == GroupTypes /\ WholeInv /\ IdsInv /\ OneLogEach /\ NewGroups /\ SameMem /\ OwnerInv
GroupInv == ~hist.damaged => Groups

-----------------------------------------------------------------------------
(* A set that no group has a part in, and one that is made of whole ones.  *)
LEMMA WholeEmpty ==
  Whole({})
BY DEF Whole

(* Two whole sets together are whole.                                      *)
LEMMA WholeUnion ==
  ASSUME NEW S, NEW T, Whole(S), Whole(T)
  PROVE  Whole(S \cup T)
BY DEF Whole

(* A table that holds garbage holds no write of a group.                   *)
LEMMA WholeGarbage ==
  ASSUME GroupTypes
  PROVE  Whole(IdsOf(Garbage)) /\ IdsOf(Garbage) = {0}
<1>1. IdsOf(Garbage) = {0}
  BY DEF IdsOf, Garbage
<1>2. \A g \in hist.logged : g.ids \cap {0} = {}
  BY DEF GroupTypes
<1>3. Whole({0})
  BY <1>2 DEF Whole
<1> QED  BY <1>1, <1>3

(* What the tables of a version hold is whole, since each of them is.      *)
LEMMA WholeTables ==
  ASSUME WholeInv, NEW v
  PROVE  Whole(IdsOf(TableEntries(v)))
<1> SUFFICES ASSUME NEW g \in hist.logged, NEW h \in hist.logged, SameLog(g, h), h.first <= g.first,
                    NEW x \in g.ids, x \in IdsOf(TableEntries(v))
             PROVE  h.ids \subseteq IdsOf(TableEntries(v))
  BY DEF Whole
<1>1. PICK n \in FilesOf(v) \cap DOMAIN tables : x \in IdsOf(tables[n])
  BY DEF IdsOf, TableEntries
<1>2. h.ids \subseteq IdsOf(tables[n])
  BY <1>1 DEF WholeInv, Whole
<1>3. IdsOf(tables[n]) \subseteq IdsOf(TableEntries(v))
  BY <1>1 DEF IdsOf, TableEntries
<1> QED  BY <1>2, <1>3

(* The records of a log, all of them.                                      *)
LEMMA AllRecords ==
  ASSUME TypeLogs, NEW n \in DOMAIN logs
  PROVE  /\ IdsOf(RecordsOf(n)) = UpTo(logs[n].recs, Len(logs[n].recs))
         /\ Len(logs[n].recs) \in Nat /\ logs[n].recs \in Seq(SUBSET Entry)
<1>1. logs[n].recs \in Seq(SUBSET Entry)
  BY DEF TypeLogs, FileOK, FileType
<1>2. Len(logs[n].recs) \in Nat /\ DOMAIN logs[n].recs = 1..Len(logs[n].recs)
  BY <1>1
<1>3. Range(logs[n].recs) = {logs[n].recs[i] : i \in 1..Len(logs[n].recs)}
  BY <1>2 DEF Range
<1> QED  BY <1>1, <1>2, <1>3 DEF UpTo, RecordsOf

(* What a log holds is whole, since the records before its end are.        *)
LEMMA WholeLog ==
  ASSUME TypeLogs, WholeInv, NEW n \in DOMAIN logs
  PROVE  Whole(IdsOf(RecordsOf(n)))
<1>1. Len(logs[n].recs) \in 0..Len(logs[n].recs)
  BY AllRecords
<1> QED  BY <1>1, AllRecords DEF WholeInv

(* What is in a file or in a memtable was seen.                            *)
LEMMA SeenPieces ==
  /\ \A n \in DOMAIN tables : IdsOf(tables[n]) \subseteq Seen
  /\ \A n \in DOMAIN mems : IdsOf(mems[n]) \subseteq Seen
  /\ \A n \in DOMAIN logs : IdsOf(RecordsOf(n)) \subseteq Seen
  /\ \A v : IdsOf(TableEntries(v)) \subseteq Seen
  /\ \A g \in hist.logged : g.ids \subseteq Seen
<1>1. /\ \A n \in DOMAIN tables : tables[n] \subseteq AllEntries
      /\ \A n \in DOMAIN mems : mems[n] \subseteq AllEntries
      /\ \A n \in DOMAIN logs : RecordsOf(n) \subseteq AllEntries
      /\ \A v : TableEntries(v) \subseteq AllEntries
  BY DEF AllEntries, TableEntries
<1>2. \A S \in SUBSET AllEntries : IdsOf(S) \subseteq Seen
  BY DEF IdsOf, Seen
<1> QED  BY <1>1, <1>2 DEF Seen

(* What was seen is numbered.                                              *)
LEMMA SeenTyped ==
  ASSUME Typed, GroupTypes
  PROVE  Seen \subseteq Nat
<1>1. \A n \in DOMAIN logs : \A e \in RecordsOf(n) : e[2] \in Nat
  <2>1. \A n \in DOMAIN logs : logs[n].recs \in Seq(SUBSET Entry)
    BY DEF Typed, TypeLogs, FileOK, FileType
  <2> QED  BY <2>1 DEF RecordsOf, Range, Entry
<1>2. \A n \in DOMAIN tables : \A e \in tables[n] : e[2] \in Nat
  BY DEF Typed, TypeTables
<1>3. \A n \in DOMAIN mems : \A e \in mems[n] : e[2] \in Nat
  BY DEF Typed, TypeMems, Entry
<1>4. \A e \in AllEntries : e[2] \in Nat
  BY <1>1, <1>2, <1>3 DEF AllEntries
<1>5. \A g \in hist.logged : g.ids \subseteq Nat
  BY DEF GroupTypes
<1> QED  BY <1>4, <1>5 DEF Seen, IdsOf

-----------------------------------------------------------------------------
(* A step that loses the ends of logs and writes whole sets of writes that *)
(* are known.                                                              *)
LogsShort ==
  \A n \in DOMAIN logs' :
    \/ logs'[n].recs = <<>>
    \/ /\ n \in DOMAIN logs /\ Len(logs'[n].recs) <= Len(logs[n].recs)
       /\ \A i \in 1..Len(logs'[n].recs) : logs'[n].recs[i] = logs[n].recs[i]
Known(S) == Whole(S) /\ S \subseteq Seen \cup {0}
PiecesFrame ==
  /\ hist'.logged = hist.logged /\ LogsShort
  /\ \A n \in DOMAIN tables' : (n \in DOMAIN tables /\ tables'[n] = tables[n]) \/ Known(IdsOf(tables'[n]))
  /\ \A n \in DOMAIN mems' : (n \in DOMAIN mems /\ mems'[n] = mems[n]) \/ Known(IdsOf(mems'[n]))

(* A log that lost its end: what it still holds is what it held before.    *)
LEMMA ShortFacts ==
  ASSUME TypeLogs, TypeLogs', LogsShort, NEW n \in DOMAIN logs', logs'[n].recs # <<>>
  PROVE  /\ n \in DOMAIN logs
         /\ \A k \in 0..Len(logs'[n].recs) : /\ k \in 0..Len(logs[n].recs)
                                              /\ UpTo(logs'[n].recs, k) = UpTo(logs[n].recs, k)
         /\ IdsOf(RecordsOf(n))' \subseteq IdsOf(RecordsOf(n))
<1> DEFINE p == logs[n].recs
           q == logs'[n].recs
<1>1. /\ n \in DOMAIN logs /\ Len(q) <= Len(p) /\ \A i \in 1..Len(q) : q[i] = p[i]
  BY DEF LogsShort
<1>2. p \in Seq(SUBSET Entry) /\ q \in Seq(SUBSET Entry)
  BY <1>1 DEF TypeLogs, FileOK, FileType
<1>3. Len(p) \in Nat /\ Len(q) \in Nat /\ DOMAIN p = 1..Len(p) /\ DOMAIN q = 1..Len(q)
  BY <1>2
<1> HIDE DEF p, q
<1>4. ASSUME NEW k \in 0..Len(q)
      PROVE  k \in 0..Len(p) /\ UpTo(q, k) = UpTo(p, k)
  <2>1. k \in 0..Len(p) /\ \A i \in 1..k : q[i] = p[i]
    BY <1>1, <1>3
  <2>2. {q[i] : i \in 1..k} = {p[i] : i \in 1..k}
    BY <2>1
  <2> QED  BY <2>1, <2>2 DEF UpTo
<1>5. UNION Range(q) \subseteq UNION Range(p)
  <2>1. Range(q) \subseteq Range(p)
    BY <1>1, <1>3 DEF Range
  <2> QED  BY <2>1
<1>6. IdsOf(UNION Range(q)) \subseteq IdsOf(UNION Range(p))
  BY <1>5 DEF IdsOf
<1> QED  BY <1>1, <1>4, <1>6 DEF RecordsOf, p, q, IdsOf

(* A log without records.                                                  *)
LEMMA EmptyRecords ==
  ASSUME NEW recs, recs = <<>>
  PROVE  Len(recs) = 0 /\ UpTo(recs, 0) = {} /\ IdsOf(UNION Range(recs)) = {}
BY DEF UpTo, IdsOf, Range

(* Such a step keeps every piece whole, and brings no new write.           *)
LEMMA PiecesKept ==
  ASSUME Typed, TypeLogs', WholeInv, OneLogEach, PiecesFrame
  PROVE  WholeInv' /\ OneLogEach' /\ \A x \in Seen' : x \in Seen \/ x = 0
<1>0. TypeLogs /\ hist'.logged = hist.logged /\ LogsShort
  BY DEF Typed, PiecesFrame
<1>1. \A S : Whole(S) => \A g, h \in hist'.logged : SameLog(g, h) /\ h.first <= g.first /\ g.ids \cap S # {} => h.ids \subseteq S
  BY <1>0 DEF Whole
<1>2. ASSUME NEW n \in DOMAIN tables'
      PROVE  Whole(IdsOf(tables'[n])) /\ IdsOf(tables'[n]) \subseteq Seen \cup {0}
  BY <1>2, SeenPieces DEF PiecesFrame, Known, WholeInv
<1>3. ASSUME NEW n \in DOMAIN mems'
      PROVE  Whole(IdsOf(mems'[n])) /\ IdsOf(mems'[n]) \subseteq Seen \cup {0}
  BY <1>3, SeenPieces DEF PiecesFrame, Known, WholeInv
<1>4. ASSUME NEW n \in DOMAIN logs'
      PROVE  /\ \A k \in 0..Len(logs'[n].recs) : Whole(UpTo(logs'[n].recs, k))
             /\ IdsOf(RecordsOf(n))' = {} \/ (n \in DOMAIN logs /\ IdsOf(RecordsOf(n))' \subseteq IdsOf(RecordsOf(n)))
  <2>1. CASE logs'[n].recs = <<>>
    <3>1. Len(logs'[n].recs) = 0 /\ UpTo(logs'[n].recs, 0) = {} /\ IdsOf(RecordsOf(n))' = {}
      BY <2>1, EmptyRecords DEF RecordsOf
    <3> QED  BY <3>1, WholeEmpty
  <2>2. CASE logs'[n].recs # <<>>
    <3>1. /\ n \in DOMAIN logs /\ IdsOf(RecordsOf(n))' \subseteq IdsOf(RecordsOf(n))
          /\ \A k \in 0..Len(logs'[n].recs) : /\ k \in 0..Len(logs[n].recs)
                                              /\ UpTo(logs'[n].recs, k) = UpTo(logs[n].recs, k)
      BY <1>0, <2>2, ShortFacts
    <3> QED  BY <3>1 DEF WholeInv
  <2> QED  BY <2>1, <2>2
<1>5. WholeInv'
  <2>1. (\A n \in DOMAIN tables : Whole(IdsOf(tables[n])))'
    BY <1>0, <1>2 DEF Whole, SameLog, IdsOf
  <2>2. (\A n \in DOMAIN mems : Whole(IdsOf(mems[n])))'
    BY <1>0, <1>3 DEF Whole, SameLog, IdsOf
  <2>3. (\A n \in DOMAIN logs : \A k \in 0..Len(logs[n].recs) : Whole(UpTo(logs[n].recs, k)))'
    BY <1>0, <1>4 DEF Whole, SameLog, UpTo, IdsOf
  <2> QED  BY <2>1, <2>2, <2>3 DEF WholeInv
<1>6. OneLogEach'
  BY <1>0, <1>4 DEF OneLogEach
<1>7. ASSUME NEW x \in Seen'  PROVE x \in Seen \/ x = 0
  <2>1. CASE x \in UNION {g.ids : g \in hist'.logged}
    BY <1>0, <2>1 DEF Seen
  <2>2. CASE x \in IdsOf(AllEntries)'
    <3>1. PICK e \in AllEntries' : x = e[2]
      BY <2>2 DEF IdsOf
    <3>2. CASE \E n \in DOMAIN logs' : e \in RecordsOf(n)'
      <4>1. PICK n \in DOMAIN logs' : x \in IdsOf(RecordsOf(n))'
        BY <3>1, <3>2 DEF IdsOf
      <4> QED  BY <1>4, <4>1, SeenPieces
    <3>3. CASE \E n \in DOMAIN tables' : e \in tables'[n]
      <4>1. PICK n \in DOMAIN tables' : x \in IdsOf(tables'[n])
        BY <3>1, <3>3 DEF IdsOf
      <4> QED  BY <1>2, <4>1
    <3>4. CASE \E n \in DOMAIN mems' : e \in mems'[n]
      <4>1. PICK n \in DOMAIN mems' : x \in IdsOf(mems'[n])
        BY <3>1, <3>4 DEF IdsOf
      <4> QED  BY <1>3, <4>1
    <3> QED  BY <3>1, <3>2, <3>3, <3>4 DEF AllEntries
  <2> QED  BY <2>1, <2>2 DEF Seen
<1> QED  BY <1>5, <1>6, <1>7

-----------------------------------------------------------------------------
(* The queue.  The ids of a group depend on its writers alone.             *)
LEMMA SameGroup ==
  ASSUME NEW n \in Nat, \A i \in 1..n : cl'[queue'[i]].id = cl[queue[i]].id
  PROVE  GroupIds(n)' = GroupIds(n)
<1>1. Batches(n)' = Batches(n)
  BY DEF Batches
<1>2. \A i \in Batches(n) : i \in 1..n
  BY DEF Batches
<1> QED  BY <1>1, <1>2 DEF GroupIds

(* A step that leaves the queue alone.                                     *)
QueueFrame ==
  /\ queue' = queue
  /\ \A c \in Writers :
       /\ cl[c].pc \in InQueue => cl'[c].id = cl[c].id
       /\ cl[c].pc \in Logged => cl'[c].pc \in Logged /\ cl'[c].n = cl[c].n
       /\ cl'[c].pc \in Writing => cl[c].pc \in InQueue /\ cl[c].id # 0

(* What the queue's order says, in terms of plain numbers.                 *)
LEMMA QueueIds ==
  ASSUME TypeCl, QueueInv
  PROVE  \A i \in 1..Len(queue) : queue[i] \in Writers /\ cl[queue[i]].id \in Nat /\ cl[queue[i]].pc \in InQueue
                                  /\ cl[queue[i]].n \in Nat
BY DEF TypeCl, ClType, QueueInv

(* If the queue is left alone, the order of its writes stays.              *)
LEMMA IdsKept ==
  ASSUME Typed, GroupTypes, QueueInv, IdsInv, QueueFrame, hist'.next = hist.next,
         \A x \in Seen' : x \in Seen \/ x = 0
  PROVE  IdsInv'
<1>0. TypeCl /\ hist.next \in Nat \ {0} /\ Seen \subseteq Nat
  BY SeenTyped DEF Typed, TypeHist, HistType
<1>1. queue' = queue /\ \A i \in 1..Len(queue) : cl'[queue[i]].id = cl[queue[i]].id /\ cl[queue[i]].id \in Nat
  BY <1>0, QueueIds DEF QueueFrame
<1>2. \A x \in Seen' : x < hist.next
  <2>1. \A x \in Seen : x < hist.next
    BY <1>0 DEF IdsInv
  <2>2. 0 \in Nat /\ 0 < hist.next
    BY <1>0
  <2> QED  BY <2>1, <2>2
<1>3. ASSUME NEW i \in 1..Len(queue), Waits(i)'
      PROVE  Waits(i)
  <2>1. queue[1] \in Writers
    BY <1>0, QueueIds DEF QueueInv
  <2> QED  BY <1>1, <1>3, <2>1 DEF Waits, QueueFrame
<1>4. ASSUME NEW i \in 1..Len(queue), Waits(i)', NEW x \in Seen'
      PROVE  x < cl[queue[i]].id
  <2>1. Waits(i) /\ cl[queue[i]].id \in Nat /\ cl[queue[i]].id # 0
    BY <1>1, <1>3, <1>4 DEF Waits
  <2>2. CASE x \in Seen
    BY <2>1, <2>2 DEF IdsInv
  <2>3. CASE x = 0
    BY <2>1, <2>3
  <2> QED  BY <2>2, <2>3
<1>5. \A c \in Writers : cl'[c].pc \in Writing => cl'[c].id # 0
  BY DEF QueueFrame
<1> QED  BY <1>1, <1>2, <1>4, <1>5 DEF IdsInv

(* The front group leaves.                                                 *)
LEMMA IdsPopped ==
  ASSUME Typed, GroupTypes, QueueInv, IdsInv, hist'.next = hist.next, \A x \in Seen' : x \in Seen \/ x = 0,
         NEW n \in 1..Len(queue), queue' = SubSeq(queue, n + 1, Len(queue)),
         cl[queue[1]].pc \in Logged => cl[queue[1]].n = n,
         \A c \in Writers : cl'[c].id = cl[c].id /\ cl'[c].pc \notin Writing
  PROVE  IdsInv'
<1>0. TypeCl /\ hist.next \in Nat \ {0} /\ Seen \subseteq Nat
  BY SeenTyped DEF Typed, TypeHist, HistType
<1>1. Len(queue) \in Nat /\ n \in Nat /\ queue \in Seq(Writers)
  BY DEF QueueInv
<1>2. /\ Len(queue') = Len(queue) - n
      /\ \A i \in 1..(Len(queue) - n) : queue'[i] = queue[n + i]
  <2>1. \A i \in (n + 1)..Len(queue) : queue[i] \in Writers
    BY <1>1
  <2> QED  BY <1>1, <2>1
<1>3. ASSUME NEW i \in 1..Len(queue')
      PROVE  /\ n + i \in 1..Len(queue) /\ queue'[i] = queue[n + i] /\ queue[n + i] \in Writers
             /\ cl'[queue'[i]].id = cl[queue[n + i]].id /\ cl[queue[n + i]].id \in Nat
  <2>1. n + i \in 1..Len(queue) /\ queue'[i] = queue[n + i]
    BY <1>1, <1>2, <1>3
  <2> QED  BY <1>0, <2>1, QueueIds
<1>4. \A x \in Seen' : x < hist.next
  <2>1. \A x \in Seen : x < hist.next
    BY <1>0 DEF IdsInv
  <2>2. 0 \in Nat /\ 0 < hist.next
    BY <1>0
  <2> QED  BY <2>1, <2>2
<1>5. \A i \in 1..Len(queue') : cl'[queue'[i]].id < hist.next
  BY <1>3 DEF IdsInv
<1>6. ASSUME NEW i \in 1..Len(queue'), NEW j \in 1..Len(queue'), i < j,
             cl'[queue'[i]].id # 0, cl'[queue'[j]].id # 0
      PROVE  cl'[queue'[i]].id < cl'[queue'[j]].id
  <2>1. n + i < n + j
    BY <1>1, <1>2, <1>6
  <2> QED  BY <1>3, <1>6, <2>1 DEF IdsInv
<1>7. ASSUME NEW i \in 1..Len(queue'), cl'[queue'[i]].id # 0, NEW x \in Seen'
      PROVE  x < cl'[queue'[i]].id
  <2>1. n + i \in 1..Len(queue) /\ cl[queue[n + i]].id # 0 /\ cl[queue[n + i]].id \in Nat
        /\ cl'[queue'[i]].id = cl[queue[n + i]].id
    BY <1>3, <1>7
  <2>2. n < n + i
    BY <1>1, <1>2
  <2>3. Waits(n + i)
    BY <2>1, <2>2 DEF Waits
  <2>4. CASE x \in Seen
    BY <2>1, <2>3, <2>4 DEF IdsInv
  <2>5. CASE x = 0
    BY <2>1, <2>5
  <2> QED  BY <2>4, <2>5
<1>8. \A i \in 1..Len(queue') : Waits(i)' => cl'[queue'[i]].id # 0
  BY DEF Waits
<1> QED  BY <1>4, <1>5, <1>6, <1>7, <1>8 DEF IdsInv

(* A write takes the next number to the end of the queue.                  *)
LEMMA IdsEnqueued ==
  ASSUME Typed, GroupTypes, QueueInv, IdsInv, NEW c \in Writers, cl[c].pc = "idle",
         queue' = Append(queue, c), \A w \in Writers \ {c} : cl'[w] = cl[w], cl'[c].pc \notin Writing,
         hist'.next \in {hist.next, hist.next + 1},
         cl'[c].id = 0 \/ (cl'[c].id = hist.next /\ hist'.next = hist.next + 1),
         \A x \in Seen' : x \in Seen \/ x = 0
  PROVE  IdsInv'
<1>0. TypeCl /\ hist.next \in Nat \ {0} /\ Seen \subseteq Nat
  BY SeenTyped DEF Typed, TypeHist, HistType
<1>1. /\ Len(queue) \in Nat /\ Len(queue') = Len(queue) + 1 /\ queue'[Len(queue) + 1] = c
      /\ \A i \in 1..Len(queue) : queue'[i] = queue[i]
  BY DEF QueueInv
<1>2. \A i \in 1..Len(queue) : queue[i] \in Writers /\ queue[i] # c
  BY DEF QueueInv, InQueue
<1>3. ASSUME NEW i \in 1..Len(queue)
      PROVE  queue'[i] = queue[i] /\ cl'[queue'[i]] = cl[queue[i]] /\ cl[queue[i]].id \in Nat
  BY <1>0, <1>1, <1>2, QueueIds
<1>4. \A i \in 1..Len(queue') : i \in 1..Len(queue) \/ (i = Len(queue) + 1 /\ queue'[i] = c)
  BY <1>1
<1>5. \A x \in Seen' : x \in Nat /\ x < hist.next
  <2>1. \A x \in Seen : x \in Nat /\ x < hist.next
    BY <1>0 DEF IdsInv
  <2>2. 0 \in Nat /\ 0 < hist.next
    BY <1>0
  <2> QED  BY <2>1, <2>2
<1>6. \A i \in 1..Len(queue) : cl[queue[i]].id < hist.next
  BY DEF IdsInv
<1>7. \A i \in 1..Len(queue') : cl'[queue'[i]].id < hist'.next
  <2>1. \A i \in 1..Len(queue) : cl'[queue'[i]].id < hist'.next
    BY <1>0, <1>3, <1>6
  <2>2. cl'[c].id < hist'.next
    BY <1>0
  <2> QED  BY <1>4, <2>1, <2>2
<1>8. ASSUME NEW i \in 1..Len(queue'), NEW j \in 1..Len(queue'), i < j,
             cl'[queue'[i]].id # 0, cl'[queue'[j]].id # 0
      PROVE  cl'[queue'[i]].id < cl'[queue'[j]].id
  <2>1. i \in 1..Len(queue)
    BY <1>1, <1>8
  <2>2. CASE j \in 1..Len(queue)
    BY <1>3, <1>8, <2>1, <2>2 DEF IdsInv
  <2>3. CASE queue'[j] = c
    BY <1>3, <1>6, <1>8, <2>1, <2>3
  <2> QED  BY <1>4, <2>2, <2>3
<1>9. ASSUME NEW i \in 1..Len(queue'), Waits(i)', NEW x \in Seen'
      PROVE  x < cl'[queue'[i]].id
  <2>1. CASE i \in 1..Len(queue)
    <3>1. 1 \in 1..Len(queue)
      BY <1>1, <2>1
    <3>2. Waits(i) /\ cl[queue[i]].id \in Nat \ {0} /\ cl'[queue'[i]].id = cl[queue[i]].id
      BY <1>3, <1>9, <2>1, <3>1 DEF Waits
    <3>3. CASE x \in Seen
      BY <2>1, <3>2, <3>3 DEF IdsInv
    <3>4. CASE x = 0
      BY <3>2, <3>4
    <3> QED  BY <3>3, <3>4
  <2>2. CASE queue'[i] = c
    BY <1>5, <1>9, <2>2 DEF Waits
  <2> QED  BY <1>4, <2>1, <2>2
<1>10. \A w \in Writers : cl'[w].pc \in Writing => cl'[w].id # 0
  BY DEF IdsInv
<1>11. \A x \in Seen' : x < hist'.next
  BY <1>0, <1>5
<1> QED  BY <1>7, <1>8, <1>9, <1>10, <1>11 DEF IdsInv

-----------------------------------------------------------------------------
(* The groups on their way, as the front of the queue tells them.          *)
LEMMA FrontFlies ==
  ASSUME QueueInv, NEW c \in Writers, cl[c].pc \in InQueue \ {"queued"}
  PROVE  /\ \A w \in Writers : cl[w].pc \in Writing => w = c
         /\ cl[c].pc \in {"sync", "insert"} => Flying = {GroupIds(cl[c].n)}
         /\ cl[c].pc \notin {"sync", "insert"} => Flying = {}
         /\ SyncLost => (cl[c].pc = "finish" /\ cl[c].st = "syncerr") \/ (err /\ cl[c].pc \notin Writing)
<1>1. queue[1] = c /\ Len(queue) \in Nat
  BY FrontFacts
<1>2. ASSUME NEW w \in Writers, cl[w].pc \in Writing
      PROVE  w = c
  <2>1. cl[w].pc \in InQueue \ {"queued"}
    BY <1>2 DEF Writing, InQueue
  <2> QED  BY <1>1, <2>1, FrontFacts
<1>3. \A w \in Writers : cl[w].pc \in {"sync", "insert", "finish"} => w = c
  BY <1>2 DEF Writing
<1> QED  BY <1>2, <1>3 DEF Flying, SyncLost

(* What a step must leave alone for the log in use to stay as it is.       *)
LEMMA NewKept ==
  ASSUME NewGroups, up' = "open" => up = "open", hist'.life = hist.life, hist'.logged = hist.logged, mem' = mem,
         up = "open" => IdsOf(RecordsOf(mem))' = IdsOf(RecordsOf(mem)) /\ IdsOf(mems[mem]) \subseteq IdsOf(mems'[mem]),
         Flying' \subseteq Flying,
         \A S \in Flying : S \in Flying' \/ S \subseteq IdsOf(mems'[mem]) \/ SyncLost',
         SyncLost => SyncLost'
  PROVE  NewGroups'
<1> SUFFICES ASSUME up' = "open"
             PROVE  /\ \A g \in hist.logged :
                         /\ g.life = hist.life => g.log <= mem
                         /\ Newest(g) => g.ids \subseteq IdsOf(RecordsOf(mem))'
                         /\ g.ids \cap IdsOf(RecordsOf(mem))' # {} => Newest(g)
                         /\ Newest(g) => g.ids \subseteq IdsOf(mems'[mem]) \/ g.ids \in Flying' \/ SyncLost'
                    /\ \A S \in Flying' : S \subseteq IdsOf(RecordsOf(mem))'
  BY DEF NewGroups, Newest, IdsOf
<1>1. IdsOf(RecordsOf(mem))' = IdsOf(RecordsOf(mem)) /\ IdsOf(mems[mem]) \subseteq IdsOf(mems'[mem]) /\ up = "open"
  OBVIOUS
<1>2. \A S \in Flying' : S \subseteq IdsOf(RecordsOf(mem))'
  BY <1>1 DEF NewGroups
<1>3. ASSUME NEW g \in hist.logged
      PROVE  /\ g.life = hist.life => g.log <= mem
             /\ Newest(g) => g.ids \subseteq IdsOf(RecordsOf(mem))'
             /\ g.ids \cap IdsOf(RecordsOf(mem))' # {} => Newest(g)
             /\ Newest(g) => g.ids \subseteq IdsOf(mems'[mem]) \/ g.ids \in Flying' \/ SyncLost'
  <2>1. /\ g.life = hist.life => g.log <= mem
        /\ Newest(g) => g.ids \subseteq IdsOf(RecordsOf(mem))
        /\ g.ids \cap IdsOf(RecordsOf(mem)) # {} => Newest(g)
        /\ Newest(g) => g.ids \subseteq IdsOf(mems[mem]) \/ g.ids \in Flying \/ SyncLost
    BY <1>1 DEF NewGroups
  <2> QED  BY <1>1, <2>1
<1> QED  BY <1>2, <1>3

-----------------------------------------------------------------------------
(* Files and memtables that stay, but for the end of a log.                *)
LEMMA StillPieces ==
  ASSUME TypeLogs, hist'.logged = hist.logged, tables' = tables, mems' = mems,
         \A n \in DOMAIN logs' : n \in DOMAIN logs /\ logs'[n].recs = logs[n].recs
  PROVE  PiecesFrame
<1>1. \A n \in DOMAIN logs : Len(logs[n].recs) \in Nat
  BY AllRecords
<1> QED  BY <1>1 DEF PiecesFrame, LogsShort

(* A step that no writer on its way to the log or the memtable notices.    *)
CalmFrame ==
  /\ queue' = queue /\ mem' = mem /\ (up' = "open" => up = "open") /\ (err => err')
  /\ hist'.life = hist.life /\ hist'.next = hist.next
  /\ \A c \in Writers :
       /\ cl[c].pc \in InQueue => cl'[c].id = cl[c].id
       /\ cl[c].pc \in Writing => cl'[c].pc = cl[c].pc /\ cl'[c].n = cl[c].n /\ cl'[c].st = cl[c].st
       /\ cl'[c].pc \in Writing => cl[c].pc \in Writing
  /\ up = "open" => IdsOf(RecordsOf(mem))' = IdsOf(RecordsOf(mem)) /\ mems' = mems

(* A step that is calm for the writers leaves their groups on their way.   *)
LEMMA CalmFlying ==
  ASSUME TypeCl, QueueInv, CalmFrame
  PROVE  Flying' = Flying /\ (SyncLost => SyncLost')
<1>1. \A i \in 1..Len(queue) : queue'[i] = queue[i] /\ cl'[queue[i]].id = cl[queue[i]].id
  BY QueueIds DEF CalmFrame
<1>2. \A n \in 1..Len(queue) : n \in Nat /\ \A i \in 1..n : cl'[queue'[i]].id = cl[queue[i]].id
  BY <1>1 DEF QueueInv
<1>3. \A n \in 1..Len(queue) : GroupIds(n)' = GroupIds(n)
  BY <1>2, SameGroup
<1>4. \A c \in Writers : cl'[c].pc \in Writing <=> cl[c].pc \in Writing
  BY DEF CalmFrame
<1>5. \A c \in Writers : cl[c].pc \in Writing => cl'[c].pc = cl[c].pc /\ cl'[c].n = cl[c].n /\ cl'[c].st = cl[c].st
                                                 /\ cl[c].n \in 1..Len(queue)
  BY DEF CalmFrame, QueueInv
<1>6. \A c \in Writers : cl'[c].pc \in {"sync", "insert"} <=> cl[c].pc \in {"sync", "insert"}
  BY <1>4, <1>5 DEF Writing
<1>7. \A c \in Writers : cl[c].pc \in {"sync", "insert"} => cl'[c].n = cl[c].n /\ GroupIds(cl[c].n)' = GroupIds(cl[c].n)
  BY <1>3, <1>5 DEF Writing
<1>8. {w \in Writers : cl'[w].pc \in {"sync", "insert"}} = {w \in Writers : cl[w].pc \in {"sync", "insert"}}
  BY <1>6
<1>9. Flying' = Flying
  <2>1. \A S : S \in Flying' <=> \E c \in Writers : cl'[c].pc \in {"sync", "insert"} /\ S = GroupIds(cl[c].n)'
    BY DEF Flying
  <2>2. \A S : S \in Flying <=> \E c \in Writers : cl[c].pc \in {"sync", "insert"} /\ S = GroupIds(cl[c].n)
    BY DEF Flying
  <2>3. \A S : S \in Flying' <=> S \in Flying
    BY <1>6, <1>7, <2>1, <2>2
  <2> QED  BY <2>3
<1>10. SyncLost => SyncLost'
  BY <1>4, <1>5 DEF SyncLost, Writing, CalmFrame
<1> QED  BY <1>9, <1>10

(* A step that is calm, and whose files are pieces of what was there.      *)
LEMMA CalmStep ==
  ASSUME Control, TypeLogs', Groups, PiecesFrame, CalmFrame, OwnerInv', SameMem'
  PROVE  Groups'
<1>0. Typed /\ TypeCl /\ QueueInv
  BY DEF Control, Typed
<1>1. GroupTypes'
  BY DEF Groups, GroupTypes, PiecesFrame, CalmFrame
<1>2. WholeInv' /\ OneLogEach' /\ \A x \in Seen' : x \in Seen \/ x = 0
  BY <1>0, PiecesKept DEF Groups
<1>3. QueueFrame
  <2>1. \A c \in Writers : cl[c].pc \in Logged => cl[c].pc \in Writing
    BY DEF Logged, Writing
  <2>2. \A c \in Writers : cl[c].pc \in Writing => cl[c].pc \in InQueue /\ cl[c].id # 0
    BY DEF Groups, IdsInv, Writing, InQueue
  <2> QED  BY <2>1, <2>2 DEF QueueFrame, CalmFrame
<1>4. IdsInv'
  BY <1>0, <1>2, <1>3, IdsKept DEF Groups, CalmFrame
<1>5. Flying' = Flying /\ (SyncLost => SyncLost')
  BY <1>0, CalmFlying
<1>6. NewGroups'
  <2>1. hist'.logged = hist.logged
    BY DEF PiecesFrame
  <2> QED  BY <1>5, <2>1, NewKept DEF Groups, CalmFrame
<1> QED  BY <1>1, <1>2, <1>4, <1>6 DEF Groups

(* An open database is not being opened.                                   *)
LEMMA OpenMem ==
  ASSUME up' # "opening"
  PROVE  SameMem'
BY DEF SameMem

-----------------------------------------------------------------------------
(* What the steps of the background thread do to files and threads.        *)
BgTable(es) ==
  es = Garbage \/ (imm \in DOMAIN mems /\ es = mems[imm]) \/ es = TableEntries(bg.comp.inputs)
BgEffect ==
  /\ UNCHANGED <<up, queue, mem, mems>> /\ Served /\ manual' \in {manual, NoClient} /\ (err => err')
  /\ hist'.life = hist.life /\ hist'.next = hist.next /\ hist'.logged = hist.logged
  /\ (hist.damaged => hist'.damaged)
  /\ \A n \in DOMAIN logs' : n \in DOMAIN logs /\ logs'[n] = logs[n]
  /\ \A n \in DOMAIN tables' : (n \in DOMAIN tables /\ tables'[n] = tables[n]) \/ BgTable(tables'[n])

(* A compaction that fails has such an effect.                             *)
LEMMA FailEffect ==
  ASSUME NEW tb, CompactFailed(tb), UNCHANGED <<up, queue, memtables, hist>>, sched \in BOOLEAN,
         tb = tables \/ tb = With(tables, bg.comp.out, Garbage)
  PROVE  BgEffect
<1>1. logs' = logs /\ tables' = tb /\ err' = TRUE /\ CompactEnd(vs, TRUE, TRUE)
  BY DEF CompactFailed, DeleteObsoleteFiles
<1>2. Served /\ manual' \in {manual, NoClient}
  BY <1>1, CompactEnded
<1>3. \A n \in DOMAIN tables' : (n \in DOMAIN tables /\ tables'[n] = tables[n]) \/ BgTable(tables'[n])
  BY <1>1 DEF With, BgTable
<1> QED  BY <1>1, <1>2, <1>3 DEF BgEffect, memtables

(* Every step of the background thread has such an effect.                 *)
LEMMA BackgroundEffect ==
  ASSUME Control, Data, BackgroundStep, Running
  PROVE  BgEffect
<1>0. err \in BOOLEAN /\ sched \in BOOLEAN /\ hist \in HistType
  BY DEF Control, Typed, TypeFlags, TypeHist
<1>1. CASE BackgroundStop
  <2>1. UNCHANGED <<logs, tables, up, queue, mem, mems, manual, err, hist>> /\ cl' = SignalAll(cl)
    BY <1>1 DEF BackgroundStop, BgEnd, disk, memtables
  <2> QED  BY <2>1 DEF BgEffect, Served
<1>2. CASE BackgroundFlush \/ CompactImm
  <2>1. UNCHANGED <<logs, tables, up, queue, cl, mem, mems, manual, err, hist>>
    BY <1>2 DEF BackgroundFlush, CompactImm, disk, memtables, flags
  <2> QED  BY <2>1 DEF BgEffect, Served
<1>3. CASE BackgroundManual
  <2>1. CASE NumLevelFiles(0) > 0
    BY <1>3, <2>1 DEF BackgroundManual, Compacting, BgEffect, Served, disk, memtables, flags
  <2>2. CASE ~(NumLevelFiles(0) > 0)
    BY <1>3, <2>2 DEF BackgroundManual, BgEnd, BgEffect, Served, disk, memtables
  <2> QED  BY <2>1, <2>2
<1>4. CASE BackgroundPick
  <2>1. UNCHANGED <<logs, tables, up, queue, mem, mems, manual, err, hist>> /\ Served
    BY <1>4 DEF BackgroundPick, Compacting, BgEnd, Served, disk, memtables, flags
  <2> QED  BY <2>1 DEF BgEffect
<1>5. CASE WriteLevel0Table
  <2>1. UNCHANGED <<logs, up, queue, mem, mems, manual, hist>> /\ bg.pc = "build"
    BY <1>5 DEF WriteLevel0Table, memtables
  <2>2. Served /\ (err => err')
    BY <1>5 DEF WriteLevel0Table, FlushFailed, BgEnd, Served
  <2>3. imm \in DOMAIN mems
    BY <2>1, BusyBg DEF Data, BgInv
  <2>4. tables' = tables \/ tables' = With(tables, bg.num, mems[imm])
    BY <1>5 DEF WriteLevel0Table, BuildTable
  <2>5. \A n \in DOMAIN tables' : (n \in DOMAIN tables /\ tables'[n] = tables[n]) \/ BgTable(tables'[n])
    BY <2>3, <2>4 DEF With, BgTable
  <2> QED  BY <2>1, <2>2, <2>5 DEF BgEffect
<1>6. CASE WriteManifest
  <2>1. UNCHANGED <<logs, tables, up, queue, cl, mem, mems, manual, err>>
    BY <1>6 DEF WriteManifest, memtables, flags
  <2>2. PICK b : hist' = [hist EXCEPT !.damaged = @ \/ b]
    BY <1>6 DEF WriteManifest
  <2>3. /\ hist'.life = hist.life /\ hist'.next = hist.next /\ hist'.logged = hist.logged
        /\ (hist.damaged => hist'.damaged)
    BY <1>0, <2>2 DEF HistType
  <2> QED  BY <2>1, <2>3 DEF BgEffect, Served
<1>7. CASE FlushDone
  <2>1. UNCHANGED <<up, queue, mem, mems, manual, hist>>
    BY <1>7 DEF FlushDone
  <2>2. Served /\ (err => err')
    <3>1. CASE FlushFailed
      BY <3>1 DEF FlushFailed, BgEnd, Served
    <3>2. CASE cl' = SignalAll(cl) /\ err' = err
      BY <3>2 DEF Served
    <3> QED  BY <1>7, <3>1, <3>2 DEF FlushDone, BgEnd
  <2>3. UNCHANGED <<logs, tables>> \/ DeleteObsoleteFiles(tables, Installed, pending, FilesOf(bg.comp.inputs), err)
    BY <1>7 DEF FlushDone
  <2>4. /\ \A n \in DOMAIN logs' : n \in DOMAIN logs /\ logs'[n] = logs[n]
        /\ \A n \in DOMAIN tables' : n \in DOMAIN tables /\ tables'[n] = tables[n]
    BY <1>0, <2>3, DeleteFacts
  <2> QED  BY <2>1, <2>2, <2>4 DEF BgEffect
<1>8. CASE MoveDone
  <2>1. UNCHANGED <<logs, tables, up, queue, mem, mems, manual, hist>>
    BY <1>8 DEF MoveDone, disk, memtables
  <2>2. cl' = SignalAll(cl) /\ (err' = err \/ err' = TRUE)
    BY <1>8 DEF MoveDone, BgEnd
  <2>3. Served /\ (err => err')
    BY <2>2 DEF Served
  <2> QED  BY <2>1, <2>3 DEF BgEffect
<1>9. CASE OpenCompactionOutputFile
  BY <1>9 DEF OpenCompactionOutputFile, BgEffect, Served, disk, memtables, flags
<1>10. CASE FinishCompactionOutputFile
  <2>1. UNCHANGED <<up, queue, memtables, hist>>
    BY <1>10 DEF FinishCompactionOutputFile
  <2>2. CASE CompactFailed(With(tables, bg.comp.out, Garbage))
    <3> DEFINE tb == With(tables, bg.comp.out, Garbage)
    <3>1. CompactFailed(tb) /\ (tb = tables \/ tb = With(tables, bg.comp.out, Garbage))
      BY <2>2
    <3> HIDE DEF tb
    <3> QED  BY <1>0, <2>1, <3>1, FailEffect
  <2>3. CASE /\ tables' = With(tables, bg.comp.out, TableEntries(bg.comp.inputs))
             /\ UNCHANGED <<logs, manis, cl, err, sched, pending, manual>>
    <3>1. \A n \in DOMAIN tables' : (n \in DOMAIN tables /\ tables'[n] = tables[n]) \/ BgTable(tables'[n])
      BY <2>3 DEF With, BgTable
    <3> QED  BY <2>1, <2>3, <3>1 DEF BgEffect, Served, memtables
  <2> QED  BY <1>10, <2>2, <2>3 DEF FinishCompactionOutputFile
<1>11. CASE CompactShutDown
  <2>1. CompactFailed(tables) /\ UNCHANGED <<up, queue, memtables, hist>>
    BY <1>11 DEF CompactShutDown
  <2> QED  BY <1>0, <2>1, FailEffect
<1>12. CASE CompactDone
  <2>1. UNCHANGED <<up, queue, memtables, hist>>
    BY <1>12 DEF CompactDone
  <2>2. CASE CompactFailed(tables)
    BY <1>0, <2>1, <2>2, FailEffect
  <2>3. CASE /\ pending' = pending \ {bg.comp.out}
             /\ DeleteObsoleteFiles(tables, Installed, pending', {}, err)
             /\ CompactEnd(Installed, err, FALSE)
             /\ UNCHANGED err
    <3>1. /\ \A n \in DOMAIN logs' : n \in DOMAIN logs /\ logs'[n] = logs[n]
          /\ \A n \in DOMAIN tables' : n \in DOMAIN tables /\ tables'[n] = tables[n]
      BY <1>0, <2>3, DeleteFacts
    <3>2. Served /\ manual' \in {manual, NoClient}
      BY <1>0, <2>3, CompactEnded
    <3> QED  BY <2>1, <2>3, <3>1, <3>2 DEF BgEffect, memtables
  <2> QED  BY <1>12, <2>2, <2>3 DEF CompactDone
<1> QED  BY <1>1, <1>2, <1>3, <1>4, <1>5, <1>6, <1>7, <1>8, <1>9, <1>10, <1>11, <1>12 DEF BackgroundStep

(* A step of the background thread keeps the groups as they are.           *)
LEMMA BgGroups ==
  ASSUME Control, Data, Groups, Control', Data', BackgroundStep, Running
  PROVE  Groups' /\ (hist.damaged => hist'.damaged)
<1>1. BgEffect
  BY BackgroundEffect
<1>2. TypeCl /\ QueueInv /\ TypeLogs /\ TypeLogs' /\ manual \in Writers \cup {NoClient} /\ GroupTypes /\ WholeInv /\ OwnerInv
  BY DEF Control, Typed, TypeFlags, Groups
<1>3. Live
  BY BusyBg, IdleFacts DEF BackgroundStep, BackgroundStop, BackgroundFlush, BackgroundManual, BackgroundPick,
     WriteLevel0Table, WriteManifest, FlushDone, MoveDone, CompactImm, OpenCompactionOutputFile,
     FinishCompactionOutputFile, CompactShutDown, CompactDone
<1>4. PiecesFrame
  <2>1. ASSUME NEW es, BgTable(es)
        PROVE  Known(IdsOf(es))
    <3>1. CASE es = Garbage
      BY <1>2, <3>1, WholeGarbage DEF Known
    <3>2. CASE imm \in DOMAIN mems /\ es = mems[imm]
      BY <1>2, <3>2, SeenPieces DEF Known, WholeInv
    <3>3. CASE es = TableEntries(bg.comp.inputs)
      BY <1>2, <3>3, SeenPieces, WholeTables DEF Known
    <3> QED  BY <2>1, <3>1, <3>2, <3>3 DEF BgTable
  <2>2. LogsShort
    <3>1. \A n \in DOMAIN logs : Len(logs[n].recs) \in Nat
      BY <1>2, AllRecords
    <3> QED  BY <1>1, <3>1 DEF LogsShort, BgEffect
  <2> QED  BY <1>1, <2>1, <2>2 DEF PiecesFrame, BgEffect
<1>5. \A c \in Writers : /\ cl'[c].id = cl[c].id /\ cl'[c].n = cl[c].n /\ cl'[c].st \in {cl[c].st, "done"}
                         /\ cl[c].pc \notin {"roomwait", "flushwait", "manwait"} => cl'[c].pc = cl[c].pc
                         /\ cl'[c].pc \notin {"head", "flushing", "manual"} => cl'[c].pc = cl[c].pc
  BY <1>1, <1>2, ServedFacts DEF BgEffect
<1>6. ASSUME NEW c \in Writers
      PROVE  /\ cl[c].pc \in Writing => cl'[c].pc = cl[c].pc /\ cl'[c].st = cl[c].st
             /\ cl'[c].pc \in Writing => cl[c].pc \in Writing
             /\ AtManual(c) => AtManual(c)'
  <2>1. cl[c].pc \in Writing => cl'[c].pc = cl[c].pc
    BY <1>5 DEF Writing
  <2>2. cl'[c].pc \in Writing => cl[c].pc \in Writing
    BY <1>5 DEF Writing
  <2>3. AtManual(c) => AtManual(c)'
    <3>1. SignalAll(cl)[c].pc \in {"manual", "manwait"} \/ ~AtManual(c)
      BY DEF SignalAll, AtManual
    <3>2. SignalAll(ManualServed(cl))[c].pc \in {"manual", "manwait"} \/ ~AtManual(c)
      BY <1>2 DEF SignalAll, AtManual, ManualServed, TypeCl
    <3> QED  BY <1>1, <3>1, <3>2 DEF BgEffect, Served, AtManual
  <2>4. cl[c].pc \in Writing => cl'[c].st = cl[c].st
    <3> SUFFICES ASSUME cl[c].pc \in Writing  PROVE cl'[c].st = cl[c].st
      OBVIOUS
    <3>1. manual = NoClient \/ c # manual
      BY <1>2 DEF OwnerInv, AtManual, Writing
    <3>2. SignalAll(cl)[c].st = cl[c].st
      BY <1>2, SignalFacts DEF TypeCl
    <3>3. manual # NoClient => SignalAll(ManualServed(cl))[c].st = cl[c].st
      <4> DEFINE f == ManualServed(cl)
      <4> SUFFICES ASSUME manual # NoClient PROVE SignalAll(f)[c].st = cl[c].st
        OBVIOUS
      <4>1. f \in [Writers -> ClType] /\ f[c].st = cl[c].st
        <5>1. \A d \in Writers : cl[d] \in ClType /\ [cl[d] EXCEPT !.st = "done"] \in ClType
          BY <1>2 DEF TypeCl, ClType
        <5>2. /\ f \in [Writers -> ClType]
              /\ \A d \in Writers : d # manual => f[d] = cl[d]
          BY <1>2, <5>1 DEF TypeCl, ManualServed
        <5> QED  BY <3>1, <5>2
      <4> HIDE DEF f
      <4>2. SignalAll(f)[c].st = cl[c].st
        BY <4>1, SignalFacts
      <4> QED  BY <4>2 DEF f
    <3> QED  BY <1>1, <3>2, <3>3 DEF BgEffect, Served
  <2> QED  BY <2>1, <2>2, <2>3, <2>4
<1>7. CalmFrame
  <2>1. up = "open" => IdsOf(RecordsOf(mem))' = IdsOf(RecordsOf(mem))
    <3> SUFFICES ASSUME up = "open"  PROVE IdsOf(RecordsOf(mem))' = IdsOf(RecordsOf(mem))
      OBVIOUS
    <3>1. mem' = mem /\ mem' # 0 /\ Based'
      BY <1>1, <1>3 DEF BgEffect, Data, BgInv, Based, Live
    <3>2. mem \in DOMAIN logs'
      BY <3>1 DEF Data, LogInv
    <3>3. logs'[mem] = logs[mem]
      BY <1>1, <3>2 DEF BgEffect
    <3> QED  BY <3>1, <3>3 DEF RecordsOf, IdsOf
  <2> QED  BY <1>1, <1>5, <1>6, <2>1 DEF CalmFrame, BgEffect
<1>8. OwnerInv'
  BY <1>1, <1>2, <1>6 DEF OwnerInv, BgEffect, AtManual
<1>9. SameMem'
  BY <1>1, <1>3, OpenMem DEF BgEffect, Live
<1> QED  BY <1>1, <1>2, <1>4, <1>7, <1>8, <1>9, CalmStep DEF BgEffect

-----------------------------------------------------------------------------
(* A Get changes nothing of it.                                            *)
LEMMA ReaderGroups ==
  ASSUME Control, Groups, Control', NEW r \in Readers, GetBegin(r) \/ ReaderStep(r), Running
  PROVE  Groups' /\ hist'.damaged = hist.damaged
<1>1. UNCHANGED <<logs, tables, mems, mem, up, queue, cl, manual, err>>
  BY DEF GetBegin, ReaderStep, GetMem, GetTables, GetEnd, disk, memtables, flags
<1>2. /\ hist'.life = hist.life /\ hist'.next = hist.next /\ hist'.logged = hist.logged
      /\ hist'.damaged = hist.damaged
  <2>1. hist \in HistType /\ (hist' = hist \/ hist' = [hist EXCEPT !.reads = @ + 1])
    BY DEF GetBegin, ReaderStep, GetMem, GetTables, GetEnd, Control, Typed, TypeHist
  <2> QED  BY <2>1 DEF HistType
<1>3. up = "open" /\ TypeLogs /\ TypeLogs'
  BY BusyReader DEF GetBegin, ReaderStep, GetMem, GetTables, GetEnd, Control, Typed
<1>4. PiecesFrame
  BY <1>1, <1>2, <1>3, StillPieces
<1>5. CalmFrame
  BY <1>1, <1>2 DEF CalmFrame, RecordsOf, IdsOf
<1>6. OwnerInv' /\ SameMem'
  BY <1>1, <1>3, OpenMem DEF Groups, OwnerInv, AtManual
<1> QED  BY <1>2, <1>3, <1>4, <1>5, <1>6, CalmStep

(* A writer that waits, wakes up or returns.                               *)
LEMMA WaitGroups ==
  ASSUME Control, Groups, Control', NEW c \in Writers, Running,
         RoomDelay(c) \/ RoomWait(c) \/ WriteReturn(c) \/ AwaitFlush(c) \/ ManualTurn(c)
  PROVE  Groups' /\ hist'.damaged = hist.damaged
<1>0. TypeCl /\ hist \in HistType /\ TypeLogs /\ TypeLogs' /\ OwnerInv
  BY DEF Control, Typed, TypeHist, Groups
<1>1. UNCHANGED <<logs, tables, mems, mem, up, queue, err>>
  BY DEF RoomDelay, RoomWait, WriteReturn, AwaitFlush, ManualTurn, disk, memtables, flags
<1>2. /\ hist'.life = hist.life /\ hist'.next = hist.next /\ hist'.logged = hist.logged
      /\ hist'.damaged = hist.damaged
  <2>1. hist' = hist \/ hist' = [hist EXCEPT !.promised = hist'.promised]
    BY <1>0 DEF RoomDelay, RoomWait, WriteReturn, AwaitFlush, ManualTurn, HistType
  <2> QED  BY <1>0, <2>1 DEF HistType
<1>3. /\ \A w \in Writers \ {c} : cl'[w] = cl[w]
      /\ cl[c].pc \in InQueue => cl'[c].id = cl[c].id
      /\ cl[c].pc \notin Writing \cup {"idle"} /\ cl'[c].pc \notin Writing
      /\ \/ manual' = NoClient
         \/ manual' = c /\ cl'[c].pc = "manwait"
         \/ manual' = manual /\ (~AtManual(c) \/ manual # c)
  <2>1. CASE RoomDelay(c)
    BY <1>0, <2>1 DEF RoomDelay, AtHead, AtManual, TypeCl, ClType, InQueue, Writing
  <2>2. CASE RoomWait(c)
    BY <1>0, <2>2 DEF RoomWait, AtHead, AtManual, TypeCl, ClType, InQueue, Writing
  <2>3. CASE WriteReturn(c)
    BY <1>0, <2>3 DEF WriteReturn, AtManual, IdleCl, TypeCl, ClType, InQueue, Writing
  <2>4. CASE AwaitFlush(c)
    BY <1>0, <2>4 DEF AwaitFlush, AtManual, TypeCl, ClType, InQueue, Writing
  <2>5. CASE ManualTurn(c)
    <3>1. /\ cl[c].pc = "manual"
          /\ \/ cl' = [cl EXCEPT ![c] = IdleCl] /\ (manual' = NoClient \/ (manual' = manual /\ manual # c))
             \/ cl' = [cl EXCEPT ![c].pc = "manwait"] /\ manual' \in {c, manual}
      BY <2>5 DEF ManualTurn
    <3>2. CASE cl' = [cl EXCEPT ![c] = IdleCl] /\ (manual' = NoClient \/ (manual' = manual /\ manual # c))
      BY <1>0, <3>1, <3>2 DEF IdleCl, TypeCl, ClType, InQueue, Writing
    <3>3. CASE cl' = [cl EXCEPT ![c].pc = "manwait"] /\ manual' \in {c, manual}
      BY <1>0, <3>1, <3>3 DEF AtManual, TypeCl, ClType, InQueue, Writing
    <3> QED  BY <3>1, <3>2, <3>3
  <2> QED  BY <2>1, <2>2, <2>3, <2>4, <2>5
<1>4. up = "open"
  BY <1>3, BusyWriter
<1>5. PiecesFrame
  BY <1>0, <1>1, <1>2, StillPieces
<1>6. CalmFrame
  BY <1>1, <1>2, <1>3 DEF CalmFrame, RecordsOf, IdsOf
<1>7. OwnerInv'
  <2>1. manual \in Writers \cup {NoClient}
    BY DEF Control, Typed, TypeFlags
  <2>2. \A w \in Writers \ {c} : AtManual(w) => AtManual(w)'
    BY <1>3 DEF AtManual
  <2>3. CASE manual' = NoClient
    BY <2>3 DEF OwnerInv
  <2>4. CASE manual' = c /\ cl'[c].pc = "manwait"
    BY <2>4 DEF OwnerInv, AtManual
  <2>5. CASE manual' = manual /\ (~AtManual(c) \/ manual # c)
    BY <1>0, <2>1, <2>2, <2>5 DEF OwnerInv, AtManual
  <2> QED  BY <1>3, <2>3, <2>4, <2>5
<1>8. SameMem'
  BY <1>1, <1>4, OpenMem
<1> QED  BY <1>0, <1>2, <1>5, <1>6, <1>7, <1>8, CalmStep

(* A write enters the queue.                                               *)
LEMMA WriteGroups ==
  ASSUME Control, Groups, Control', NEW c \in Writers, Write(c) \/ CompactRange(c), Running
  PROVE  Groups' /\ hist'.damaged = hist.damaged
<1>0. /\ Typed /\ TypeCl /\ QueueInv /\ TypeCl' /\ hist \in HistType /\ TypeLogs /\ TypeLogs' /\ OwnerInv
      /\ hist.next \in Nat \ {0} /\ plan \in Plans /\ manual \in Writers \cup {NoClient}
      /\ GroupTypes /\ WholeInv /\ IdsInv /\ OneLogEach /\ NewGroups
  BY DEF Control, Typed, TypeHist, HistType, TypeFlags, Groups
<1>1. PICK sync \in BOOLEAN, id \in Nat, man \in BOOLEAN :
        Enqueue(c, sync, id, man) /\ (sync => id # 0) /\ (~man => id = hist.next) /\ (man => id = 0)
  BY <1>0, LimitAssumption DEF Write, CompactRange
<1>2. cl'[c].pc \in {"head", "queued"} /\ \A w \in Writers \ {c} : cl'[w] = cl[w]
  BY <1>0, <1>1, Enqueued
<1>3. /\ UNCHANGED <<logs, tables, mems, mem, up, err, manual>> /\ queue' = Append(queue, c) /\ up = "open"
      /\ cl[c].pc = "idle" /\ cl'[c].id = id
  <2>1. cl' = [cl EXCEPT ![c] = [IdleCl EXCEPT !.pc = IF queue = <<>> THEN "head" ELSE "queued",
                                !.sync = sync, !.id = id, !.man = man]]
    BY <1>1 DEF Enqueue
  <2>2. cl'[c].id = id
    BY <1>0, <2>1 DEF TypeCl, IdleCl
  <2> QED  BY <1>1, <2>2 DEF Enqueue, disk, memtables, flags
<1>4. /\ hist'.life = hist.life /\ hist'.logged = hist.logged /\ hist'.damaged = hist.damaged
      /\ hist'.next \in {hist.next, hist.next + 1} /\ (id # 0 => id = hist.next /\ hist'.next = hist.next + 1)
  <2>1. hist' = IF man THEN [hist EXCEPT !.compacts = @ + 1] ELSE [hist EXCEPT !.next = @ + 1]
    BY <1>1 DEF Enqueue
  <2>2. CASE man
    BY <1>0, <1>1, <2>1, <2>2 DEF HistType
  <2>3. CASE ~man
    BY <1>0, <1>1, <2>1, <2>3 DEF HistType
  <2> QED  BY <2>2, <2>3
<1>5. GroupTypes'
  BY <1>0, <1>4 DEF GroupTypes
<1>6. WholeInv' /\ OneLogEach' /\ \A x \in Seen' : x \in Seen \/ x = 0
  <2>1. PiecesFrame
    BY <1>0, <1>3, <1>4, StillPieces
  <2> QED  BY <1>0, <2>1, PiecesKept
<1>7. IdsInv'
  <2>1. cl'[c].pc \notin Writing
    BY <1>2 DEF Writing
  <2> QED  BY <1>0, <1>2, <1>3, <1>4, <1>6, <2>1, IdsEnqueued
<1>8. /\ \A w \in Writers : cl'[w].pc \in Writing => w # c /\ cl'[w] = cl[w]
      /\ \A w \in Writers : cl[w].pc \in Writing => w # c /\ cl'[w] = cl[w]
  BY <1>2, <1>3 DEF Writing
<1>9. Flying' = Flying
  <2>1. \A i \in 1..Len(queue) : queue'[i] = queue[i] /\ queue[i] \in Writers /\ queue[i] # c
    BY <1>0, <1>3 DEF QueueInv, InQueue
  <2>2. \A n \in 1..Len(queue) : n \in Nat /\ \A i \in 1..n : cl'[queue'[i]].id = cl[queue[i]].id
    BY <1>0, <1>2, <2>1 DEF QueueInv
  <2>3. \A n \in 1..Len(queue) : GroupIds(n)' = GroupIds(n)
    BY <2>2, SameGroup
  <2>4. \A w \in Writers : cl[w].pc \in {"sync", "insert"} => cl'[w] = cl[w] /\ GroupIds(cl[w].n)' = GroupIds(cl[w].n)
    BY <1>0, <1>8, <2>3 DEF QueueInv, Writing
  <2>5. \A S : S \in Flying' <=> \E w \in Writers : cl'[w].pc \in {"sync", "insert"} /\ S = GroupIds(cl[w].n)'
    BY DEF Flying
  <2>6. \A S : S \in Flying <=> \E w \in Writers : cl[w].pc \in {"sync", "insert"} /\ S = GroupIds(cl[w].n)
    BY DEF Flying
  <2>7. \A w \in Writers : cl'[w].pc \in {"sync", "insert"} \/ cl[w].pc \in {"sync", "insert"} => cl'[w] = cl[w]
    BY <1>8 DEF Writing
  <2>8. \A S : S \in Flying' <=> S \in Flying
    <3>1. ASSUME NEW S \in Flying'  PROVE S \in Flying
      <4>1. PICK w \in Writers : cl'[w].pc \in {"sync", "insert"} /\ S = GroupIds(cl[w].n)'
        BY <2>5
      <4>2. cl'[w] = cl[w]
        BY <2>7, <4>1
      <4> QED  BY <2>4, <2>6, <4>1, <4>2
    <3>2. ASSUME NEW S \in Flying  PROVE S \in Flying'
      <4>1. PICK w \in Writers : cl[w].pc \in {"sync", "insert"} /\ S = GroupIds(cl[w].n)
        BY <2>6
      <4>2. cl'[w] = cl[w]
        BY <2>7, <4>1
      <4> QED  BY <2>4, <2>5, <4>1, <4>2
    <3> QED  BY <3>1, <3>2
  <2> QED  BY <2>8
<1>10. SyncLost => SyncLost'
  BY <1>3, <1>8 DEF SyncLost, Writing
<1>11. NewGroups'
  <2>1. IdsOf(RecordsOf(mem))' = IdsOf(RecordsOf(mem)) /\ IdsOf(mems[mem]) \subseteq IdsOf(mems'[mem])
    BY <1>3 DEF RecordsOf, IdsOf
  <2> QED  BY <1>0, <1>3, <1>4, <1>9, <1>10, <2>1, NewKept
<1>12. OwnerInv' /\ SameMem'
  <2>1. AtManual(manual) /\ manual \in Writers => manual # c
    BY <1>3 DEF AtManual
  <2>2. OwnerInv'
    BY <1>0, <1>2, <1>3, <2>1 DEF OwnerInv, AtManual
  <2> QED  BY <1>3, <2>2, OpenMem
<1> QED  BY <1>4, <1>5, <1>6, <1>7, <1>11, <1>12 DEF Groups

-----------------------------------------------------------------------------
(* A group leaves the queue.                                               *)
LEMMA PopOwner ==
  ASSUME TypeCl, QueueInv, OwnerInv, manual' = manual, manual \in Writers \cup {NoClient},
         NEW n \in 1..Len(queue), NEW st, cl' = PopGroup(cl, n, st) \/ cl' = SignalAll(PopGroup(cl, n, st))
  PROVE  OwnerInv'
<1>1. \A i \in 1..Len(queue) : cl[queue[i]].pc \in InQueue
  BY QueueIds
<1> SUFFICES ASSUME manual # NoClient  PROVE AtManual(manual)'
  BY DEF OwnerInv
<1>2. manual \in Writers /\ AtManual(manual)
  BY DEF OwnerInv
<1>3. Len(queue) \in Nat /\ n \in Nat
  BY DEF QueueInv
<1>4. /\ manual \notin {queue[i] : i \in 1..n}
      /\ manual \notin (IF Len(queue) > n THEN {queue[n + 1]} ELSE {})
  <2>1. \A i \in 1..Len(queue) : queue[i] # manual
    BY <1>1, <1>2 DEF AtManual, InQueue
  <2> QED  BY <1>3, <2>1
<1>5. PopGroup(cl, n, st)[manual] = cl[manual]
  BY <1>2, <1>4 DEF PopGroup
<1> DEFINE f == PopGroup(cl, n, st)
<1>6. cl' = f \/ cl' = SignalAll(f)
  OBVIOUS
<1> HIDE DEF f
<1>7. f[manual] = cl[manual]
  BY <1>5 DEF f
<1>8. cl'[manual].pc \in {"manual", "manwait"}
  <2>1. \A w \in Writers : f[w].pc \in {"manual", "manwait"} => SignalAll(f)[w].pc \in {"manual", "manwait"}
    BY DEF SignalAll
  <2> QED  BY <1>2, <1>6, <1>7, <2>1 DEF AtManual
<1> QED  BY <1>8 DEF AtManual

(* A group leaves the queue: its writes are below those that still wait.   *)
LEMMA PopGroups ==
  ASSUME Control, GroupTypes, IdsInv, OwnerInv, NEW n \in 1..Len(queue), NEW st \in {"ok", "err"},
         queue' = SubSeq(queue, n + 1, Len(queue)), cl[queue[1]].pc \in Logged => cl[queue[1]].n = n,
         cl' = PopGroup(cl, n, st) \/ cl' = SignalAll(PopGroup(cl, n, st)),
         hist' = hist, manual' = manual, \A x \in Seen' : x \in Seen \/ x = 0
  PROVE  IdsInv' /\ Flying' = {} /\ OwnerInv' /\ \A c \in Writers : cl'[c].pc \notin Writing
<1>1. Typed /\ TypeCl /\ QueueInv /\ manual \in Writers \cup {NoClient}
  BY DEF Control, Typed, TypeFlags
<1>2. \A c \in Writers : cl'[c].id = cl[c].id /\ cl'[c].pc \notin Writing
  BY <1>1, Popped
<1>3. IdsInv'
  BY <1>1, <1>2, IdsPopped
<1>4. Flying' = {}
  <2>1. \A c \in Writers : cl'[c].pc \notin {"sync", "insert"}
    BY <1>2 DEF Writing
  <2> QED  BY <2>1 DEF Flying
<1>5. OwnerInv'
  BY <1>1, PopOwner
<1> QED  BY <1>2, <1>3, <1>4, <1>5

(* The head of the queue has found room: it leaves, or goes to the log.    *)
LEMMA HeadGroups ==
  ASSUME Control, GroupTypes, IdsInv, OwnerInv, NEW c \in Writers, AtHead(c), HasRoom(c, cl), hist' = hist,
         manual' = manual, \A x \in Seen' : x \in Seen \/ x = 0
  PROVE  IdsInv' /\ Flying' = {} /\ OwnerInv'
<1>0. Typed /\ TypeCl /\ QueueInv /\ cl[c].pc = "head" /\ cl[c].pc \in InQueue \ {"queued"}
  BY DEF Control, Typed, AtHead, InQueue
<1>1. queue[1] = c /\ 1 \in 1..Len(queue) /\ Len(queue) \in Nat
  BY <1>0, FrontFacts
<1>2. CASE cl[c].id = 0
  <2>1. queue' = SubSeq(queue, 1 + 1, Len(queue)) /\ cl' = PopGroup(cl, 1, "ok")
    BY <1>2 DEF HasRoom
  <2>2. cl[queue[1]].pc \notin Logged
    BY <1>0, <1>1 DEF Logged
  <2> QED  BY <1>1, <2>1, <2>2, PopGroups
<1>3. CASE cl[c].id # 0
  <2>1. queue' = queue /\ cl' = [cl EXCEPT ![c].pc = "append", ![c].n = BuildBatchGroup(c)]
    BY <1>3 DEF HasRoom
  <2>2. /\ \A w \in Writers \ {c} : cl'[w] = cl[w]
        /\ cl'[c].pc = "append" /\ cl'[c].id = cl[c].id
    BY <1>0, <2>1 DEF TypeCl, ClType
  <2>3. \A w \in Writers : cl[w].pc \in Writing => w = c
    BY <1>0, FrontFlies
  <2>4. \A w \in Writers : cl[w].pc \notin Writing
    BY <1>0, <2>3 DEF Writing
  <2>5. QueueFrame
    <3>1. \A w \in Writers : cl[w].pc \notin Logged
      BY <2>4 DEF Logged, Writing
    <3>2. \A w \in Writers : cl'[w].pc \in Writing => w = c
      BY <2>2, <2>4
    <3> QED  BY <1>0, <1>3, <2>1, <2>2, <3>1, <3>2 DEF QueueFrame
  <2>6. IdsInv'
    BY <1>0, <2>5, IdsKept
  <2>7. Flying' = {}
    <3>1. \A w \in Writers : cl'[w].pc \notin {"sync", "insert"}
      BY <2>2, <2>4 DEF Writing
    <3> QED  BY <3>1 DEF Flying
  <2>8. OwnerInv'
    <3>1. \A w \in Writers : AtManual(w) => AtManual(w)'
      BY <1>0, <2>2 DEF AtManual
    <3>2. manual \in Writers \cup {NoClient}
      BY DEF Control, Typed, TypeFlags
    <3> QED  BY <3>1, <3>2 DEF OwnerInv, AtManual
  <2> QED  BY <2>6, <2>7, <2>8
<1> QED  BY <1>2, <1>3

(* MakeRoomForWrite gives up.                                              *)
LEMMA RoomFailGroups ==
  ASSUME Control, Groups, Control', NEW c \in Writers, RoomError(c) \/ RoomNoLog(c), Running
  PROVE  Groups' /\ hist'.damaged = hist.damaged
<1>0. /\ Typed /\ TypeCl /\ QueueInv /\ TypeLogs /\ TypeLogs' /\ OwnerInv /\ GroupTypes /\ WholeInv /\ IdsInv
      /\ OneLogEach /\ NewGroups
  BY DEF Control, Typed, Groups
<1>1. /\ UNCHANGED <<logs, tables, mems, mem, up, err, manual, hist>> /\ cl[c].pc = "head"
      /\ cl[c].pc \in InQueue \ {"queued"}
      /\ queue' = SubSeq(queue, 1 + 1, Len(queue)) /\ cl' = PopGroup(cl, 1, "err")
  BY DEF RoomError, RoomNoLog, AtHead, disk, memtables, flags, InQueue
<1>2. queue[1] = c /\ 1 \in 1..Len(queue) /\ up = "open"
  BY <1>0, <1>1, FrontFacts, BusyWriter
<1>3. GroupTypes'
  BY <1>0, <1>1 DEF GroupTypes
<1>4. WholeInv' /\ OneLogEach' /\ \A x \in Seen' : x \in Seen \/ x = 0
  <2>1. PiecesFrame
    BY <1>0, <1>1, StillPieces
  <2> QED  BY <1>0, <2>1, PiecesKept
<1>5. IdsInv' /\ Flying' = {} /\ OwnerInv' /\ \A w \in Writers : cl'[w].pc \notin Writing
  <2>1. cl[queue[1]].pc \notin Logged
    BY <1>1, <1>2 DEF Logged
  <2> QED  BY <1>0, <1>1, <1>2, <1>4, <2>1, PopGroups
<1>6. Flying = {} /\ (SyncLost => SyncLost')
  <2>1. cl[c].pc \notin {"sync", "insert", "finish"}
    BY <1>1
  <2>2. Flying = {} /\ (SyncLost => err)
    BY <1>0, <1>1, <2>1, FrontFlies
  <2> QED  BY <1>1, <1>5, <2>2 DEF SyncLost
<1>7. NewGroups'
  <2>1. IdsOf(RecordsOf(mem))' = IdsOf(RecordsOf(mem)) /\ IdsOf(mems[mem]) \subseteq IdsOf(mems'[mem])
    BY <1>1 DEF RecordsOf, IdsOf
  <2> QED  BY <1>0, <1>1, <1>5, <1>6, <2>1, NewKept
<1>8. SameMem'
  BY <1>1, <1>2, OpenMem
<1> QED  BY <1>1, <1>3, <1>4, <1>5, <1>7, <1>8 DEF Groups

(* The log has room.                                                       *)
LEMMA RoomReadyGroups ==
  ASSUME Control, Groups, Control', NEW c \in Writers, RoomReady(c), Running
  PROVE  Groups' /\ hist'.damaged = hist.damaged
<1>0. /\ Typed /\ TypeCl /\ QueueInv /\ TypeLogs /\ TypeLogs' /\ OwnerInv /\ GroupTypes /\ WholeInv /\ IdsInv
      /\ OneLogEach /\ NewGroups
  BY DEF Control, Typed, Groups
<1>1. /\ UNCHANGED <<logs, tables, mems, mem, up, err, manual, hist>> /\ cl[c].pc = "head" /\ ~err
      /\ cl[c].pc \in InQueue \ {"queued"} /\ AtHead(c) /\ HasRoom(c, cl)
  BY DEF RoomReady, AtHead, disk, memtables, flags, InQueue
<1>2. up = "open"
  BY <1>1, BusyWriter
<1>3. GroupTypes'
  BY <1>0, <1>1 DEF GroupTypes
<1>4. WholeInv' /\ OneLogEach' /\ \A x \in Seen' : x \in Seen \/ x = 0
  <2>1. PiecesFrame
    BY <1>0, <1>1, StillPieces
  <2> QED  BY <1>0, <2>1, PiecesKept
<1>5. IdsInv' /\ Flying' = {} /\ OwnerInv'
  BY <1>0, <1>1, <1>4, HeadGroups
<1>6. Flying = {} /\ ~SyncLost
  BY <1>0, <1>1, FrontFlies
<1>7. NewGroups'
  <2>1. IdsOf(RecordsOf(mem))' = IdsOf(RecordsOf(mem)) /\ IdsOf(mems[mem]) \subseteq IdsOf(mems'[mem])
    BY <1>1 DEF RecordsOf, IdsOf
  <2> QED  BY <1>0, <1>1, <1>5, <1>6, <2>1, NewKept
<1>8. SameMem'
  BY <1>1, <1>2, OpenMem
<1> QED  BY <1>1, <1>3, <1>4, <1>5, <1>7, <1>8 DEF Groups

(* A new log and a new memtable: no group is of them yet.                  *)
LEMMA RoomSwitchGroups ==
  ASSUME Control, Data, Groups, Control', NEW c \in Writers, RoomSwitch(c), Running
  PROVE  Groups' /\ hist'.damaged = hist.damaged
<1>0. /\ Typed /\ TypeCl /\ QueueInv /\ TypeLogs /\ TypeLogs' /\ OwnerInv /\ GroupTypes /\ WholeInv /\ IdsInv
      /\ OneLogEach /\ NewGroups /\ mem \in Nat /\ vs.next \in Nat
  BY DEF Control, Typed, Groups, TypeMems, TypeVs, VsType
<1>1. /\ logs' = With(logs, vs.next, EmptyFile) /\ mems' = With(mems, vs.next, {}) /\ mem' = vs.next
      /\ UNCHANGED <<tables, up, err, manual, hist>> /\ cl[c].pc = "head" /\ ~err
      /\ cl[c].pc \in InQueue \ {"queued"} /\ AtHead(c) /\ HasRoom(c, cl)
  BY DEF RoomSwitch, AtHead, InQueue
<1>2. up = "open" /\ Based /\ Live
  BY <1>1, BusyWriter DEF Based, Live
<1>3. GroupTypes'
  BY <1>0, <1>1 DEF GroupTypes
<1>4. WholeInv' /\ OneLogEach' /\ \A x \in Seen' : x \in Seen \/ x = 0
  <2>1. EmptyFile.recs = <<>> /\ IdsOf({}) = {}
    BY DEF EmptyFile, IdsOf
  <2>2. LogsShort
    <3>1. \A n \in DOMAIN logs : Len(logs[n].recs) \in Nat
      BY <1>0, AllRecords
    <3> QED  BY <1>1, <2>1, <3>1 DEF LogsShort, With
  <2>3. \A n \in DOMAIN mems' : (n \in DOMAIN mems /\ mems'[n] = mems[n]) \/ Known(IdsOf(mems'[n]))
    <3>1. Known({})
      BY WholeEmpty DEF Known
    <3> QED  BY <1>1, <2>1, <3>1 DEF With
  <2>4. PiecesFrame
    BY <1>1, <2>2, <2>3 DEF PiecesFrame
  <2> QED  BY <1>0, <2>4, PiecesKept
<1>5. IdsInv' /\ Flying' = {} /\ OwnerInv'
  BY <1>0, <1>1, <1>4, HeadGroups
<1>6. mem < vs.next
  <2>1. mem # 0 /\ mem \in DOMAIN mems
    BY <1>2 DEF Data, BgInv, FreshInv
  <2> QED  BY <1>2, <2>1 DEF Data, FreshInv
<1>7. NewGroups'
  <2>1. \A g \in hist.logged : g.life = hist.life => g.log <= mem /\ g.log \in Nat
    BY <1>0, <1>2 DEF NewGroups, GroupTypes
  <2>2. \A g \in hist.logged : g.life = hist.life => g.log <= vs.next /\ g.log # vs.next
    BY <1>0, <1>6, <2>1
  <2>3. IdsOf(RecordsOf(mem))' = {}
    <3>1. logs'[mem'] = EmptyFile
      BY <1>1 DEF With
    <3> QED  BY <3>1 DEF RecordsOf, Range, IdsOf, EmptyFile
  <2> QED  BY <1>1, <1>5, <2>2, <2>3 DEF NewGroups, Newest
<1>8. SameMem'
  BY <1>1, <1>2, OpenMem
<1> QED  BY <1>1, <1>3, <1>4, <1>5, <1>7, <1>8 DEF Groups

(* The group returns; one that lost its sync stops all writes.             *)
LEMMA FinishGroups ==
  ASSUME Control, Groups, Control', NEW c \in Writers, WriteFinish(c), Running
  PROVE  Groups' /\ hist'.damaged = hist.damaged
<1>0. /\ Typed /\ TypeCl /\ QueueInv /\ TypeLogs /\ TypeLogs' /\ OwnerInv /\ GroupTypes /\ WholeInv /\ IdsInv
      /\ OneLogEach /\ NewGroups /\ err \in BOOLEAN
  BY DEF Control, Typed, Groups, TypeFlags
<1> DEFINE n == cl[c].n
           st == IF cl[c].st = "ok" THEN "ok" ELSE "err"
<1>1. /\ UNCHANGED <<logs, tables, mems, mem, up, manual, hist>> /\ cl[c].pc = "finish"
      /\ cl[c].pc \in InQueue \ {"queued"} /\ cl[c].pc \in Writing
      /\ queue' = SubSeq(queue, n + 1, Len(queue)) /\ err' = (err \/ cl[c].st = "syncerr")
      /\ (cl' = PopGroup(cl, n, st) \/ cl' = SignalAll(PopGroup(cl, n, st)))
  BY DEF WriteFinish, disk, memtables, InQueue, Writing
<1>2. queue[1] = c /\ up = "open" /\ n \in 1..Len(queue)
  BY <1>0, <1>1, FrontFacts, BusyWriter DEF QueueInv
<1>3. GroupTypes'
  BY <1>0, <1>1 DEF GroupTypes
<1>4. WholeInv' /\ OneLogEach' /\ \A x \in Seen' : x \in Seen \/ x = 0
  <2>1. PiecesFrame
    BY <1>0, <1>1, StillPieces
  <2> QED  BY <1>0, <2>1, PiecesKept
<1>5. IdsInv' /\ Flying' = {} /\ OwnerInv' /\ \A w \in Writers : cl'[w].pc \notin Writing
  <2>1. cl[queue[1]].n = n /\ st \in {"ok", "err"}
    BY <1>2
  <2> HIDE DEF n, st
  <2> QED  BY <1>0, <1>1, <1>2, <1>4, <2>1, PopGroups
<1>6. Flying = {} /\ (SyncLost => SyncLost')
  <2>1. cl[c].pc \notin {"sync", "insert"} /\ cl[c].pc \in Writing
    BY <1>1
  <2>2. Flying = {} /\ (SyncLost => cl[c].st = "syncerr")
    BY <1>0, <1>1, <2>1, FrontFlies
  <2> QED  BY <1>1, <1>5, <2>2 DEF SyncLost
<1>7. NewGroups'
  <2>1. IdsOf(RecordsOf(mem))' = IdsOf(RecordsOf(mem)) /\ IdsOf(mems[mem]) \subseteq IdsOf(mems'[mem])
    BY <1>1 DEF RecordsOf, IdsOf
  <2> QED  BY <1>0, <1>1, <1>5, <1>6, <2>1, NewKept
<1>8. SameMem'
  BY <1>1, <1>2, OpenMem
<1> QED  BY <1>1, <1>3, <1>4, <1>5, <1>7, <1>8 DEF Groups

-----------------------------------------------------------------------------
(* The front of the queue goes on with its group.                          *)
LEMMA StepFlies ==
  ASSUME TypeCl, QueueInv, IdsInv, OwnerInv, manual \in Writers \cup {NoClient}, manual' = manual,
         NEW c \in Writers, cl[c].pc \in Writing, queue' = queue, \A w \in Writers \ {c} : cl'[w] = cl[w],
         cl'[c].id = cl[c].id, cl'[c].n = cl[c].n, cl'[c].pc \in Logged
  PROVE  /\ QueueFrame /\ OwnerInv'
         /\ cl'[c].pc \in {"sync", "insert"} => Flying' = {GroupIds(cl[c].n)}
         /\ cl'[c].pc = "finish" => Flying' = {}
<1>0. cl[c].pc \in InQueue \ {"queued"} /\ cl[c].id # 0 /\ cl[c].n \in 1..Len(queue)
  BY DEF Writing, InQueue, IdsInv, QueueInv
<1>1. \A w \in Writers : cl[w].pc \in Writing => w = c
  BY <1>0, FrontFlies
<1>2. QueueFrame
  BY <1>0, <1>1 DEF QueueFrame, Logged, Writing
<1>3. OwnerInv'
  <2>1. \A w \in Writers : AtManual(w) => w # c /\ AtManual(w)'
    BY DEF AtManual, Writing
  <2> QED  BY <2>1 DEF OwnerInv, AtManual
<1>4. GroupIds(cl[c].n)' = GroupIds(cl[c].n)
  <2> DEFINE n == cl[c].n
  <2>1. n \in Nat /\ \A i \in 1..n : cl'[queue'[i]].id = cl[queue[i]].id
    BY <1>0 DEF QueueInv
  <2>2. cl'[c].n = n
    OBVIOUS
  <2> HIDE DEF n
  <2>3. \A k \in Nat : (\A i \in 1..k : cl'[queue'[i]].id = cl[queue[i]].id) => GroupIds(k)' = GroupIds(k)
    BY SameGroup
  <2>4. GroupIds(n) = GroupIds(cl[c].n)
    BY DEF n
  <2> QED  BY <2>1, <2>2, <2>3, <2>4
<1>5. \A w \in Writers : cl'[w].pc \in {"sync", "insert"} => w = c
  BY <1>1 DEF Writing
<1>6. cl'[c].pc \in {"sync", "insert"} => Flying' = {GroupIds(cl[c].n)}
  <2>1. \A S : S \in Flying' <=> \E w \in Writers : cl'[w].pc \in {"sync", "insert"} /\ S = GroupIds(cl[w].n)'
    BY DEF Flying
  <2> QED  BY <1>4, <1>5, <2>1
<1>7. cl'[c].pc = "finish" => Flying' = {}
  <2>1. cl'[c].pc = "finish" => \A w \in Writers : cl'[w].pc \notin {"sync", "insert"}
    BY <1>5
  <2> QED  BY <2>1 DEF Flying
<1> QED  BY <1>2, <1>3, <1>6, <1>7

(* The log is synced, or the sync is lost.                                 *)
LEMMA WriteSyncGroups ==
  ASSUME Control, Data, Groups, Control', NEW c \in Writers, WriteSync(c), Running
  PROVE  Groups' /\ hist'.damaged = hist.damaged
<1>0. /\ Typed /\ TypeCl /\ QueueInv /\ TypeLogs /\ TypeLogs' /\ OwnerInv /\ GroupTypes /\ WholeInv /\ IdsInv
      /\ OneLogEach /\ NewGroups /\ manual \in Writers \cup {NoClient}
  BY DEF Control, Typed, Groups, TypeFlags
<1>1. /\ UNCHANGED <<tables, mems, mem, up, queue, err, manual, hist>> /\ cl[c].pc = "sync"
      /\ cl[c].pc \in InQueue \ {"queued"} /\ cl[c].pc \in Writing
  BY DEF WriteSync, disk, memtables, flags, InQueue, Writing
<1>2. up = "open" /\ mem \in DOMAIN logs
  BY <1>1, BusyWriter DEF Data, LogInv, BgInv, Based, Live
<1>3. /\ \A w \in Writers \ {c} : cl'[w] = cl[w]
      /\ cl'[c].id = cl[c].id /\ cl'[c].n = cl[c].n
      /\ cl'[c].pc = "insert" \/ (cl'[c].pc = "finish" /\ cl'[c].st = "syncerr")
  BY <1>0 DEF WriteSync, TypeCl, ClType
<1>4. \A n \in DOMAIN logs' : n \in DOMAIN logs /\ logs'[n].recs = logs[n].recs
  <2>1. SyncedFile(logs[mem]).recs = logs[mem].recs
    BY <1>0, <1>2, SyncedFacts DEF TypeLogs
  <2> QED  BY <1>2, <2>1 DEF WriteSync
<1>5. GroupTypes'
  BY <1>0, <1>1 DEF GroupTypes
<1>6. WholeInv' /\ OneLogEach' /\ \A x \in Seen' : x \in Seen \/ x = 0
  <2>1. PiecesFrame
    BY <1>0, <1>1, <1>4, StillPieces
  <2> QED  BY <1>0, <2>1, PiecesKept
<1>7. /\ QueueFrame /\ OwnerInv'
      /\ cl'[c].pc \in {"sync", "insert"} => Flying' = {GroupIds(cl[c].n)}
      /\ cl'[c].pc = "finish" => Flying' = {}
  <2>1. cl'[c].pc \in Logged
    BY <1>3 DEF Logged
  <2> QED  BY <1>0, <1>1, <1>3, <2>1, StepFlies
<1>8. IdsInv'
  BY <1>0, <1>1, <1>6, <1>7, IdsKept
<1>9. Flying = {GroupIds(cl[c].n)} /\ ~SyncLost
  BY <1>0, <1>1, FrontFlies
<1>10. Flying' = Flying \/ (Flying' = {} /\ SyncLost')
  BY <1>3, <1>7, <1>9 DEF SyncLost
<1>11. NewGroups'
  <2>1. IdsOf(RecordsOf(mem))' = IdsOf(RecordsOf(mem)) /\ IdsOf(mems[mem]) \subseteq IdsOf(mems'[mem])
    <3>1. DOMAIN logs' = DOMAIN logs
      BY DEF WriteSync
    <3> QED  BY <1>1, <1>2, <1>4, <3>1 DEF RecordsOf, IdsOf
  <2> QED  BY <1>0, <1>1, <1>9, <1>10, <2>1, NewKept
<1>12. SameMem'
  BY <1>1, <1>2, OpenMem
<1> QED  BY <1>1, <1>5, <1>6, <1>7, <1>8, <1>11, <1>12 DEF Groups

(* The group joins the memtable, where every earlier one of its log is.    *)
LEMMA InsertWhole ==
  ASSUME Groups, QueueInv, NEW c \in Writers, cl[c].pc = "insert", up = "open", mem \in DOMAIN mems
  PROVE  Whole(IdsOf(mems[mem]) \cup GroupIds(cl[c].n))
<1>1. cl[c].pc \in InQueue \ {"queued"} /\ cl[c].pc \in Writing
  BY DEF InQueue, Writing
<1>2. Flying = {GroupIds(cl[c].n)} /\ ~SyncLost
  BY <1>1, FrontFlies
<1> DEFINE S == GroupIds(cl[c].n)
           T == IdsOf(mems[mem])
           L == IdsOf(RecordsOf(mem))
<1>3. Flying = {S}
  BY <1>2
<1>4. Whole(T)
  BY DEF Groups, WholeInv
<1>5. S \subseteq L
  BY <1>3 DEF Groups, NewGroups
<1>6. \A g \in hist.logged : /\ g.ids \cap L # {} => Newest(g)
                             /\ Newest(g) => g.ids \subseteq T \/ g.ids = S
  <2>1. \A g \in hist.logged : /\ g.ids \cap L # {} => Newest(g)
                               /\ Newest(g) => g.ids \subseteq T \/ g.ids \in Flying \/ SyncLost
    BY DEF Groups, NewGroups
  <2> QED  BY <1>2, <1>3, <2>1
<1> HIDE DEF S, T, L
<1>7. ASSUME NEW g \in hist.logged, NEW h \in hist.logged, SameLog(g, h), h.first <= g.first, g.ids \cap (T \cup S) # {}
      PROVE  h.ids \subseteq T \cup S
  <2>1. CASE g.ids \cap T # {}
    BY <1>4, <1>7, <2>1 DEF Whole
  <2>2. CASE g.ids \cap S # {}
    <3>1. Newest(g)
      BY <1>5, <1>6, <2>2
    <3>2. Newest(h)
      BY <1>7, <3>1 DEF SameLog, Newest
    <3> QED  BY <1>6, <3>2
  <2> QED  BY <1>7, <2>1, <2>2
<1>8. Whole(T \cup S)
  BY <1>7 DEF Whole
<1> QED  BY <1>8 DEF S, T

(* The group joins the memtable.                                           *)
LEMMA WriteInsertGroups ==
  ASSUME Control, Data, Groups, Control', NEW c \in Writers, WriteInsert(c), Running
  PROVE  Groups' /\ hist'.damaged = hist.damaged
<1>0. /\ Typed /\ TypeCl /\ QueueInv /\ TypeLogs /\ TypeLogs' /\ TypeVs /\ OwnerInv /\ GroupTypes /\ WholeInv /\ IdsInv
      /\ OneLogEach /\ NewGroups /\ manual \in Writers \cup {NoClient} /\ hist \in HistType
  BY DEF Control, Typed, Groups, TypeFlags, TypeHist
<1>1. /\ UNCHANGED <<logs, tables, mem, up, queue, err, manual>> /\ cl[c].pc = "insert"
      /\ cl[c].pc \in InQueue \ {"queued"} /\ cl[c].pc \in Writing
      /\ mems' = [mems EXCEPT ![mem] = @ \cup Entries(cl[c].n)]
      /\ hist' = [hist EXCEPT !.applied = @ \cup Entries(cl[c].n)]
  BY DEF WriteInsert, disk, flags, InQueue, Writing
<1>2. up = "open" /\ mem \in DOMAIN mems
  BY <1>1, BusyWriter DEF Data, FreshInv, BgInv, Based, Live
<1>3. /\ \A w \in Writers \ {c} : cl'[w] = cl[w]
      /\ cl'[c].id = cl[c].id /\ cl'[c].n = cl[c].n /\ cl'[c].pc = "finish"
  BY <1>0 DEF WriteInsert, TypeCl, ClType
<1>4. /\ hist'.life = hist.life /\ hist'.next = hist.next /\ hist'.logged = hist.logged
      /\ hist'.damaged = hist.damaged
  BY <1>0, <1>1 DEF HistType
<1>5. GroupTypes'
  BY <1>0, <1>4 DEF GroupTypes
<1>6. IdsOf(mems'[mem]) = IdsOf(mems[mem]) \cup GroupIds(cl[c].n)
  <2>1. IdsOf(Entries(cl[c].n)) = GroupIds(cl[c].n)
    BY <1>0, <1>1, EntriesFacts
  <2>2. mems'[mem] = mems[mem] \cup Entries(cl[c].n)
    BY <1>1, <1>2
  <2>3. \A A, B : IdsOf(A \cup B) = IdsOf(A) \cup IdsOf(B)
    BY DEF IdsOf
  <2> QED  BY <2>1, <2>2, <2>3
<1>7. Flying = {GroupIds(cl[c].n)} /\ ~SyncLost
  BY <1>0, <1>1, FrontFlies
<1>8. WholeInv' /\ OneLogEach' /\ \A x \in Seen' : x \in Seen \/ x = 0
  <2>1. Whole(IdsOf(mems'[mem]))
    BY <1>0, <1>1, <1>2, <1>6, InsertWhole
  <2>2. IdsOf(mems'[mem]) \subseteq Seen
    <3>1. mem \in DOMAIN logs
      BY <1>2 DEF Data, LogInv, BgInv, Based, Live
    <3>2. GroupIds(cl[c].n) \subseteq IdsOf(RecordsOf(mem))
      BY <1>0, <1>2, <1>7 DEF NewGroups
    <3> QED  BY <1>2, <1>6, <3>1, <3>2, SeenPieces
  <2>3. \A n \in DOMAIN mems' : (n \in DOMAIN mems /\ mems'[n] = mems[n]) \/ Known(IdsOf(mems'[n]))
    BY <1>1, <2>1, <2>2 DEF Known
  <2>4. LogsShort
    <3>1. \A n \in DOMAIN logs : Len(logs[n].recs) \in Nat
      BY <1>0, AllRecords
    <3> QED  BY <1>1, <3>1 DEF LogsShort
  <2>5. PiecesFrame
    BY <1>1, <1>4, <2>3, <2>4 DEF PiecesFrame
  <2> QED  BY <1>0, <2>5, PiecesKept
<1>9. QueueFrame /\ OwnerInv' /\ Flying' = {}
  <2>1. cl'[c].pc \in Logged
    BY <1>3 DEF Logged
  <2> QED  BY <1>0, <1>1, <1>3, <2>1, StepFlies
<1>10. IdsInv'
  BY <1>0, <1>4, <1>8, <1>9, IdsKept
<1>11. NewGroups'
  <2>1. IdsOf(RecordsOf(mem))' = IdsOf(RecordsOf(mem)) /\ IdsOf(mems[mem]) \subseteq IdsOf(mems'[mem])
    BY <1>1, <1>6 DEF RecordsOf, IdsOf
  <2> QED  BY <1>0, <1>1, <1>4, <1>6, <1>7, <1>9, <2>1, NewKept
<1>12. SameMem'
  BY <1>1, <1>2, OpenMem
<1> QED  BY <1>4, <1>5, <1>8, <1>9, <1>10, <1>11, <1>12 DEF Groups

-----------------------------------------------------------------------------
(* A set of writes is whole among other groups.                            *)
WholeIn(gs, S) ==
  \A g, h \in gs : SameLog(g, h) /\ h.first <= g.first /\ g.ids \cap S # {} => h.ids \subseteq S

(* The append failed, and nothing but a bad end of the log came of it.     *)
LEMMA LogFailGroups ==
  ASSUME Control, Data, Groups, Control', NEW c \in Writers, cl[c].pc = "append",
         UNCHANGED <<tables, mems, mem, up, queue, err, manual, hist>>,
         \E f \in AppendFailed(logs[mem]) : logs' = [logs EXCEPT ![mem] = f],
         cl' = [cl EXCEPT ![c].pc = "finish", ![c].st = "err"]
  PROVE  Groups'
<1>0. /\ Typed /\ TypeCl /\ QueueInv /\ TypeLogs /\ TypeLogs' /\ OwnerInv /\ GroupTypes /\ WholeInv /\ IdsInv
      /\ OneLogEach /\ NewGroups /\ manual \in Writers \cup {NoClient}
  BY DEF Control, Typed, Groups, TypeFlags
<1>1. cl[c].pc \in InQueue \ {"queued"} /\ cl[c].pc \in Writing
  BY DEF InQueue, Writing
<1>2. up = "open" /\ mem \in DOMAIN logs
  BY BusyWriter DEF Data, LogInv, BgInv, Based, Live
<1>3. /\ \A w \in Writers \ {c} : cl'[w] = cl[w]
      /\ cl'[c].id = cl[c].id /\ cl'[c].n = cl[c].n /\ cl'[c].pc = "finish"
  BY <1>0 DEF TypeCl, ClType
<1>4. DOMAIN logs' = DOMAIN logs /\ \A n \in DOMAIN logs' : n \in DOMAIN logs /\ logs'[n].recs = logs[n].recs
  <2>1. PICK f \in AppendFailed(logs[mem]) : logs' = [logs EXCEPT ![mem] = f]
    OBVIOUS
  <2>2. f.recs = logs[mem].recs
    BY <1>0, <1>2, AppendFailedFacts DEF TypeLogs
  <2> QED  BY <1>2, <2>1, <2>2
<1>5. GroupTypes'
  BY <1>0 DEF GroupTypes
<1>6. WholeInv' /\ OneLogEach' /\ \A x \in Seen' : x \in Seen \/ x = 0
  <2>1. PiecesFrame
    BY <1>0, <1>4, StillPieces
  <2> QED  BY <1>0, <2>1, PiecesKept
<1>7. QueueFrame /\ OwnerInv' /\ Flying' = {}
  <2>1. cl'[c].pc \in Logged
    BY <1>3 DEF Logged
  <2> QED  BY <1>0, <1>1, <1>3, <2>1, StepFlies
<1>8. IdsInv'
  BY <1>0, <1>6, <1>7, IdsKept
<1>9. Flying = {} /\ ~SyncLost
  BY <1>0, <1>1, FrontFlies
<1>10. NewGroups'
  <2>1. IdsOf(RecordsOf(mem))' = IdsOf(RecordsOf(mem)) /\ IdsOf(mems[mem]) \subseteq IdsOf(mems'[mem])
    BY <1>2, <1>4 DEF RecordsOf, IdsOf
  <2> QED  BY <1>0, <1>7, <1>9, <2>1, NewKept
<1>11. SameMem'
  BY <1>2, OpenMem
<1> QED  BY <1>5, <1>6, <1>7, <1>8, <1>10, <1>11 DEF Groups

(* The group at the front is numbered above all that was seen, and below   *)
(* the rest of the queue.                                                  *)
LEMMA GroupAhead ==
  ASSUME Typed, GroupTypes, QueueInv, IdsInv, NEW c \in Writers, cl[c].pc = "append"
  PROVE  /\ GroupIds(cl[c].n) \subseteq Nat \ {0} /\ cl[c].id \in GroupIds(cl[c].n)
         /\ \A x \in GroupIds(cl[c].n) : x < hist.next /\ \A y \in Seen : y < x
         /\ \A i \in 1..Len(queue) : /\ cl[queue[i]].id # 0 => Waits(i)
                                     /\ cl[queue[i]].id # 0 /\ cl[c].n < i =>
                                          \A x \in GroupIds(cl[c].n) : x < cl[queue[i]].id
<1> DEFINE n == cl[c].n
<1>0. TypeCl /\ cl[c].pc \in InQueue \ {"queued"} /\ cl[c].pc \in Writing
  BY DEF Typed, InQueue, Writing
<1>1. queue[1] = c /\ Len(queue) \in Nat \ {0} /\ n \in 1..Len(queue) /\ cl[c].id # 0
  BY <1>0, FrontFacts DEF QueueInv, IdsInv
<1>2. \A i \in 1..Len(queue) : cl[queue[i]].id # 0 => Waits(i)
  <2>1. cl[queue[1]].pc \notin Logged
    BY <1>1 DEF Logged
  <2> QED  BY <2>1 DEF Waits
<1>3. \A i \in Batches(n) : i \in 1..Len(queue) /\ i <= n /\ cl[queue[i]].id # 0 /\ cl[queue[i]].id \in Nat
  <2>1. \A i \in Batches(n) : i \in 1..n /\ cl[queue[i]].id # 0
    BY DEF Batches
  <2> QED  BY <1>0, <1>1, <2>1, QueueIds
<1>4. ASSUME NEW x \in GroupIds(n)
      PROVE  \E i \in Batches(n) : x = cl[queue[i]].id
  BY DEF GroupIds
<1>5. cl[c].id \in GroupIds(n)
  <2>1. 1 \in Batches(n)
    BY <1>1 DEF Batches
  <2> QED  BY <1>1, <2>1 DEF GroupIds
<1> HIDE DEF n
<1>6. GroupIds(n) \subseteq Nat \ {0}
  BY <1>3, <1>4
<1>7. ASSUME NEW x \in GroupIds(n)
      PROVE  x < hist.next /\ \A y \in Seen : y < x
  <2>1. PICK i \in Batches(n) : x = cl[queue[i]].id
    BY <1>4
  <2>2. i \in 1..Len(queue) /\ Waits(i)
    BY <1>2, <1>3
  <2> QED  BY <2>1, <2>2 DEF IdsInv
<1>8. ASSUME NEW i \in 1..Len(queue), cl[queue[i]].id # 0, n < i, NEW x \in GroupIds(n)
      PROVE  x < cl[queue[i]].id
  <2>1. PICK j \in Batches(n) : x = cl[queue[j]].id
    BY <1>4
  <2>2. j \in 1..Len(queue) /\ j <= n /\ cl[queue[j]].id # 0
    BY <1>3
  <2>3. j < i
    BY <1>1, <1>8, <2>2
  <2> QED  BY <1>8, <2>1, <2>2, <2>3 DEF IdsInv
<1> QED  BY <1>2, <1>5, <1>6, <1>7, <1>8 DEF n

(* With a new group what was whole is whole, and the log in use is when    *)
(* the group has joined it.                                                *)
LEMMA AppendWhole ==
  ASSUME GroupTypes, NewGroups, TypeLogs, WholeInv, up = "open", mem \in DOMAIN logs,
         NEW g0, g0.life = hist.life, g0.log = mem, g0.first \in g0.ids, g0.ids \subseteq Nat \ {0},
         \A x \in g0.ids : \A y \in Seen : y < x, Seen \subseteq Nat
  PROVE  /\ g0.ids \cap Seen = {}
         /\ \A T \in SUBSET Seen : Whole(T) => WholeIn(hist.logged \cup {g0}, T)
         /\ WholeIn(hist.logged \cup {g0}, IdsOf(RecordsOf(mem)) \cup g0.ids)
<1>1. g0.ids \cap Seen = {}
  <2>1. \A x \in g0.ids : x \in Nat /\ \A y \in Seen : y < x
    OBVIOUS
  <2>2. \A x \in Nat : ~(x < x)
    OBVIOUS
  <2> QED  BY <2>1, <2>2
<1>2. \A g \in hist.logged : g.ids \subseteq Seen /\ g.first \in Seen /\ g.first \in Nat
  BY SeenPieces DEF GroupTypes
<1>3. g0.first \in Nat /\ \A g \in hist.logged : ~(g0.first <= g.first)
  BY <1>2
<1>4. ASSUME NEW T \in SUBSET Seen, Whole(T)
      PROVE  WholeIn(hist.logged \cup {g0}, T)
  <2> SUFFICES ASSUME NEW g \in hist.logged \cup {g0}, NEW h \in hist.logged \cup {g0}, SameLog(g, h),
                      h.first <= g.first, g.ids \cap T # {}
               PROVE  h.ids \subseteq T
    BY DEF WholeIn
  <2>1. g \in hist.logged
    BY <1>1
  <2>2. h \in hist.logged
    BY <1>3, <2>1
  <2> QED  BY <1>4, <2>1, <2>2 DEF Whole
<1> DEFINE L == IdsOf(RecordsOf(mem))
<1>5. Whole(L) /\ L \subseteq Seen
  BY WholeLog, SeenPieces
<1>6. \A h \in hist.logged : h.life = hist.life /\ h.log = mem => h.ids \subseteq L
  BY DEF NewGroups, Newest
<1> HIDE DEF L
<1>7. ASSUME NEW g \in hist.logged \cup {g0}, NEW h \in hist.logged \cup {g0}, SameLog(g, h),
             h.first <= g.first, g.ids \cap (L \cup g0.ids) # {}
      PROVE  h.ids \subseteq L \cup g0.ids
  <2>1. CASE h = g0
    BY <2>1
  <2>2. CASE h \in hist.logged /\ g = g0
    BY <1>6, <1>7, <2>2 DEF SameLog
  <2>3. CASE h \in hist.logged /\ g \in hist.logged
    <3>1. g.ids \cap L # {}
      BY <1>1, <1>2, <1>7, <2>3
    <3> QED  BY <1>5, <1>7, <2>3, <3>1 DEF Whole
  <2> QED  BY <2>1, <2>2, <2>3
<1> QED  BY <1>1, <1>4, <1>7 DEF WholeIn, L

(* The records of a log that got one more.                                 *)
LEMMA UpToAppend ==
  ASSUME NEW recs \in Seq(SUBSET Entry), NEW es \in SUBSET Entry
  PROVE  /\ Len(Append(recs, es)) = Len(recs) + 1 /\ Len(recs) \in Nat
         /\ \A k \in 0..Len(recs) : UpTo(Append(recs, es), k) = UpTo(recs, k)
         /\ UpTo(Append(recs, es), Len(recs) + 1) = UpTo(recs, Len(recs)) \cup IdsOf(es)
         /\ UNION Range(Append(recs, es)) = (UNION Range(recs)) \cup es
<1> DEFINE q == Append(recs, es)
           m == Len(recs)
<1>1. /\ Len(q) = m + 1 /\ m \in Nat /\ q[m + 1] = es
      /\ \A i \in 1..m : q[i] = recs[i]
  OBVIOUS
<1> HIDE DEF q, m
<1>2. ASSUME NEW k \in 0..m
      PROVE  UpTo(q, k) = UpTo(recs, k)
  <2>1. \A i \in 1..k : q[i] = recs[i]
    BY <1>1
  <2>2. {q[i] : i \in 1..k} = {recs[i] : i \in 1..k}
    BY <2>1
  <2> QED  BY <2>2 DEF UpTo
<1>3. UpTo(q, m + 1) = UpTo(recs, m) \cup IdsOf(es)
  <2>1. \A i \in 1..(m + 1) : i \in 1..m \/ i = m + 1
    BY <1>1
  <2>2. 1..m \subseteq 1..(m + 1) /\ m + 1 \in 1..(m + 1)
    BY <1>1
  <2>3. UNION {q[i] : i \in 1..(m + 1)} = (UNION {recs[i] : i \in 1..m}) \cup es
    BY <1>1, <2>1, <2>2
  <2> QED  BY <2>3 DEF UpTo, IdsOf
<1>4. UNION Range(Append(recs, es)) = (UNION Range(recs)) \cup es
  BY RangeAppend
<1> QED  BY <1>1, <1>2, <1>3, <1>4 DEF q, m

(* The group is in the log, and no writer saw its number before.           *)
LEMMA LogGroups ==
  ASSUME Control, Data, Groups, Control', NEW c \in Writers, cl[c].pc = "append",
         UNCHANGED <<tables, mems, mem, up, queue, err, manual>>, NEW f \in Appended(logs[mem], Entries(cl[c].n)),
         logs' = [logs EXCEPT ![mem] = f], f.tear # 2,
         cl' = [cl EXCEPT ![c].pc = IF cl[c].sync THEN "sync" ELSE "insert"],
         hist'.life = hist.life, hist'.next = hist.next, hist'.logged = hist.logged \cup {Group(c)}
  PROVE  Groups'
<1> DEFINE S == GroupIds(cl[c].n)
           L == IdsOf(RecordsOf(mem))
           g0 == Group(c)
           es == Entries(cl[c].n)
<1>0. /\ Typed /\ TypeCl /\ QueueInv /\ TypeLogs /\ TypeLogs' /\ TypeVs /\ OwnerInv /\ GroupTypes /\ WholeInv /\ IdsInv
      /\ OneLogEach /\ NewGroups /\ manual \in Writers \cup {NoClient} /\ Seen \subseteq Nat
  BY SeenTyped DEF Control, Typed, Groups, TypeFlags
<1>1. cl[c].pc \in InQueue \ {"queued"} /\ cl[c].pc \in Writing
  BY DEF InQueue, Writing
<1>2. up = "open" /\ mem \in DOMAIN logs /\ mem \in Nat
  BY <1>0, BusyWriter DEF Data, LogInv, BgInv, Based, Live, Typed, TypeMems
<1>3. /\ \A w \in Writers \ {c} : cl'[w] = cl[w]
      /\ cl'[c].id = cl[c].id /\ cl'[c].n = cl[c].n /\ cl'[c].pc \in {"sync", "insert"}
  BY <1>0 DEF TypeCl, ClType
<1>4. es \in SUBSET Entry /\ IdsOf(es) = S
  BY <1>0, <1>1, EntriesFacts
<1>5. logs[mem].recs \in Seq(SUBSET Entry) /\ logs'[mem].recs = Append(logs[mem].recs, es)
  <2>1. FileOK(logs[mem], SUBSET Entry)
    BY <1>0, <1>2 DEF TypeLogs
  <2>2. f.recs = Append(logs[mem].recs, es)
    BY <1>4, <2>1, AppendedFacts
  <2> QED  BY <1>2, <2>1, <2>2 DEF FileOK, FileType
<1>6. DOMAIN logs' = DOMAIN logs /\ \A n \in DOMAIN logs \ {mem} : logs'[n] = logs[n]
  OBVIOUS
<1>7. /\ S \subseteq Nat \ {0} /\ cl[c].id \in S
      /\ \A x \in S : x < hist.next /\ \A y \in Seen : y < x
      /\ \A i \in 1..Len(queue) : /\ cl[queue[i]].id # 0 => Waits(i)
                                  /\ cl[queue[i]].id # 0 /\ cl[c].n < i => \A x \in S : x < cl[queue[i]].id
  BY <1>0, GroupAhead
<1>8. g0.life = hist.life /\ g0.log = mem /\ g0.first = cl[c].id /\ g0.ids = S
  BY DEF Group
<1>9. Flying = {} /\ ~SyncLost
  BY <1>0, <1>1, FrontFlies
<1>10. QueueFrame /\ OwnerInv' /\ Flying' = {S}
  <2>1. cl'[c].pc \in Logged
    BY <1>3 DEF Logged
  <2> QED  BY <1>0, <1>1, <1>3, <2>1, StepFlies
<1>11. queue[1] = c
  BY <1>0, <1>1, FrontFacts
<1> HIDE DEF S, g0, es
<1>12. /\ S \cap Seen = {}
       /\ \A T \in SUBSET Seen : Whole(T) => WholeIn(hist'.logged, T)
       /\ WholeIn(hist'.logged, L \cup S)
  <2>1. g0.first \in g0.ids /\ g0.ids \subseteq Nat \ {0} /\ \A x \in g0.ids : \A y \in Seen : y < x
    BY <1>7, <1>8
  <2>2. hist'.logged = hist.logged \cup {g0}
    BY DEF g0
  <2> QED  BY <1>0, <1>2, <1>8, <2>1, <2>2, AppendWhole
<1>13. IdsOf(RecordsOf(mem))' = L \cup S /\ \A n \in DOMAIN logs \ {mem} : IdsOf(RecordsOf(n))' = IdsOf(RecordsOf(n))
  <2>1. UNION Range(logs'[mem].recs) = RecordsOf(mem) \cup es
    <3>1. UNION Range(Append(logs[mem].recs, es)) = (UNION Range(logs[mem].recs)) \cup es
      BY <1>4, <1>5, UpToAppend
    <3> QED  BY <1>5, <3>1 DEF RecordsOf
  <2>2. \A A, B : IdsOf(A \cup B) = IdsOf(A) \cup IdsOf(B)
    BY DEF IdsOf
  <2>3. IdsOf(RecordsOf(mem))' = IdsOf(UNION Range(logs'[mem].recs))
    BY DEF RecordsOf, IdsOf
  <2> QED  BY <1>4, <1>6, <2>1, <2>2, <2>3 DEF RecordsOf, IdsOf
<1>14. GroupTypes'
  <2>1. g0.life \in Nat /\ g0.life <= hist.life /\ g0.log \in Nat /\ g0.first \in g0.ids /\ g0.ids \subseteq Nat \ {0}
    BY <1>0, <1>2, <1>7, <1>8 DEF GroupTypes
  <2>2. g0 \in [life : Nat, log : Nat, first : Nat, ids : SUBSET Nat]
    <3>1. hist.life \in Nat /\ cl[c].id \in Nat /\ S \in SUBSET Nat
      BY <1>0, <1>7 DEF GroupTypes
    <3> QED  BY <1>2, <3>1 DEF g0, Group, S
  <2> QED  BY <1>0, <2>1, <2>2 DEF GroupTypes, g0
<1>15. WholeInv'
  <2>1. \A n \in DOMAIN tables : WholeIn(hist'.logged, IdsOf(tables[n]))
    BY <1>0, <1>12, SeenPieces DEF WholeInv
  <2>2. \A n \in DOMAIN mems : WholeIn(hist'.logged, IdsOf(mems[n]))
    BY <1>0, <1>12, SeenPieces DEF WholeInv
  <2>3. ASSUME NEW n \in DOMAIN logs', NEW k \in 0..Len(logs'[n].recs)
        PROVE  WholeIn(hist'.logged, UpTo(logs'[n].recs, k))
    <3>1. ASSUME NEW m \in DOMAIN logs, NEW j \in 0..Len(logs[m].recs)
          PROVE  WholeIn(hist'.logged, UpTo(logs[m].recs, j))
      <4>1. UpTo(logs[m].recs, j) \subseteq IdsOf(RecordsOf(m))
        <5>1. logs[m].recs \in Seq(SUBSET Entry) /\ Len(logs[m].recs) \in Nat
          BY <1>0, AllRecords
        <5>2. \A i \in 1..j : i \in DOMAIN logs[m].recs
          BY <5>1
        <5>3. {logs[m].recs[i] : i \in 1..j} \subseteq Range(logs[m].recs)
          BY <5>2 DEF Range
        <5> QED  BY <5>3 DEF UpTo, IdsOf, RecordsOf
      <4>2. UpTo(logs[m].recs, j) \subseteq Seen
        BY <4>1, SeenPieces
      <4> QED  BY <1>0, <1>12, <4>2 DEF WholeInv
    <3>2. CASE n # mem
      BY <1>6, <3>1, <3>2
    <3>3. CASE n = mem
      <4>1. /\ Len(logs'[mem].recs) = Len(logs[mem].recs) + 1 /\ Len(logs[mem].recs) \in Nat
            /\ \A j \in 0..Len(logs[mem].recs) : UpTo(logs'[mem].recs, j) = UpTo(logs[mem].recs, j)
            /\ UpTo(logs'[mem].recs, Len(logs[mem].recs) + 1) = UpTo(logs[mem].recs, Len(logs[mem].recs)) \cup S
        <5> DEFINE p == logs[mem].recs
        <5>1. p \in Seq(SUBSET Entry) /\ logs'[mem].recs = Append(p, es)
          BY <1>5
        <5> HIDE DEF p
        <5>2. /\ Len(Append(p, es)) = Len(p) + 1 /\ Len(p) \in Nat
              /\ \A j \in 0..Len(p) : UpTo(Append(p, es), j) = UpTo(p, j)
              /\ UpTo(Append(p, es), Len(p) + 1) = UpTo(p, Len(p)) \cup IdsOf(es)
          BY <1>4, <5>1, UpToAppend
        <5> QED  BY <1>4, <5>1, <5>2 DEF p
      <4>2. UpTo(logs[mem].recs, Len(logs[mem].recs)) = L
        BY <1>0, <1>2, AllRecords
      <4>3. k \in 0..Len(logs[mem].recs) \/ k = Len(logs[mem].recs) + 1
        BY <3>3, <4>1
      <4> QED  BY <1>2, <1>12, <3>1, <3>3, <4>1, <4>2, <4>3
    <3> QED  BY <3>2, <3>3
  <2>4. (\A n \in DOMAIN tables : Whole(IdsOf(tables[n])))' /\ (\A n \in DOMAIN mems : Whole(IdsOf(mems[n])))'
    BY <2>1, <2>2 DEF Whole, WholeIn, SameLog, IdsOf
  <2>5. (\A n \in DOMAIN logs : \A k \in 0..Len(logs[n].recs) : Whole(UpTo(logs[n].recs, k)))'
    BY <2>3 DEF Whole, WholeIn, SameLog, UpTo, IdsOf
  <2> QED  BY <2>4, <2>5 DEF WholeInv
<1>16. ASSUME NEW x \in Seen'  PROVE x \in Seen \/ x \in S
  <2>1. CASE x \in UNION {g.ids : g \in hist'.logged}
    BY <1>8, <2>1 DEF Seen, g0
  <2>2. CASE x \in IdsOf(AllEntries)'
    <3>1. PICK e \in AllEntries' : x = e[2]
      BY <2>2 DEF IdsOf
    <3>2. CASE \E n \in DOMAIN logs' : e \in RecordsOf(n)'
      <4>1. PICK n \in DOMAIN logs' : x \in IdsOf(RecordsOf(n))'
        BY <3>1, <3>2 DEF IdsOf
      <4>2. IdsOf(RecordsOf(n))' = IdsOf(RecordsOf(n)) \/ IdsOf(RecordsOf(n))' = L \cup S
        BY <1>6, <1>13
      <4>3. L \subseteq Seen /\ IdsOf(RecordsOf(n)) \subseteq Seen
        BY <1>2, <1>6, SeenPieces
      <4> QED  BY <4>1, <4>2, <4>3
    <3>3. CASE \E n \in DOMAIN tables' : e \in tables'[n]
      BY <3>1, <3>3, SeenPieces DEF IdsOf
    <3>4. CASE \E n \in DOMAIN mems' : e \in mems'[n]
      BY <3>1, <3>4, SeenPieces DEF IdsOf
    <3> QED  BY <3>1, <3>2, <3>3, <3>4 DEF AllEntries
  <2> QED  BY <2>1, <2>2 DEF Seen
<1>17. IdsInv'
  <2>1. \A x \in Seen' : x < hist.next
    <3>1. \A x \in Seen : x < hist.next
      BY <1>0 DEF IdsInv
    <3> QED  BY <1>7, <1>16, <3>1
  <2>2. \A i \in 1..Len(queue) : queue[i] \in Writers /\ cl'[queue[i]].id = cl[queue[i]].id
    <3>1. \A i \in 1..Len(queue) : queue[i] \in Writers
      BY <1>0, QueueIds
    <3> QED  BY <1>3, <3>1
  <2>3. ASSUME NEW i \in 1..Len(queue), Waits(i)', NEW x \in Seen'
        PROVE  x < cl[queue[i]].id
    <3>1. cl[queue[i]].id # 0 /\ cl[c].n < i
      BY <1>3, <1>11, <2>2, <2>3 DEF Waits, Logged
    <3>2. Waits(i)
      BY <1>7, <3>1
    <3>3. CASE x \in Seen
      BY <1>0, <3>2, <3>3 DEF IdsInv
    <3>4. CASE x \in S
      BY <1>7, <3>1, <3>4
    <3> QED  BY <1>16, <3>3, <3>4
  <2>4. \A w \in Writers : cl'[w].pc \in Writing => cl'[w].id # 0
    BY <1>10 DEF QueueFrame, InQueue
  <2>5. \A i, j \in 1..Len(queue) :
          i < j /\ cl'[queue[i]].id # 0 /\ cl'[queue[j]].id # 0 => cl'[queue[i]].id < cl'[queue[j]].id
    BY <1>0, <2>2 DEF IdsInv
  <2>6. \A i \in 1..Len(queue) : cl'[queue[i]].id < hist.next
    BY <1>0, <2>2 DEF IdsInv
  <2> QED  BY <2>1, <2>2, <2>3, <2>4, <2>5, <2>6 DEF IdsInv
<1>18. \A g \in hist.logged : g.ids \cap S = {}
  <2>1. \A g \in hist.logged : g.ids \subseteq Seen
    BY SeenPieces
  <2> QED  BY <1>12, <2>1
<1>19. ASSUME NEW g \in hist'.logged, g.ids \cap (L \cup S) # {}
       PROVE  g.life = hist.life /\ g.log = mem
  <2>1. CASE g = g0
    BY <1>8, <2>1
  <2>2. CASE g \in hist.logged
    <3>1. g.ids \cap L # {}
      BY <1>18, <1>19, <2>2
    <3> QED  BY <1>0, <1>2, <2>2, <3>1 DEF NewGroups, Newest
  <2> QED  BY <2>1, <2>2 DEF g0
<1>20. OneLogEach'
  <2>1. ASSUME NEW n \in DOMAIN logs', NEW g \in hist'.logged, NEW h \in hist'.logged,
               g.ids \cap IdsOf(RecordsOf(n))' # {}, h.ids \cap IdsOf(RecordsOf(n))' # {}
        PROVE  g.log = n /\ g.life = h.life
    <3>1. CASE n = mem
      BY <1>13, <1>19, <2>1, <3>1
    <3>2. CASE n # mem
      <4>1. n \in DOMAIN logs /\ IdsOf(RecordsOf(n))' = IdsOf(RecordsOf(n)) /\ IdsOf(RecordsOf(n)) \subseteq Seen
        BY <1>6, <1>13, <3>2, SeenPieces
      <4>2. g \in hist.logged /\ h \in hist.logged
        BY <1>8, <1>12, <2>1, <4>1 DEF g0
      <4> QED  BY <1>0, <2>1, <4>1, <4>2 DEF OneLogEach
    <3> QED  BY <3>1, <3>2
  <2> QED  BY <2>1 DEF OneLogEach
<1>21. NewGroups'
  <2> SUFFICES /\ \A g \in hist'.logged :
                    /\ g.life = hist.life => g.log <= mem
                    /\ g.life = hist.life /\ g.log = mem => g.ids \subseteq L \cup S
                    /\ g.ids \cap (L \cup S) # {} => g.life = hist.life /\ g.log = mem
                    /\ g.life = hist.life /\ g.log = mem => g.ids \subseteq IdsOf(mems[mem]) \/ g.ids \in Flying'
               /\ S \subseteq L \cup S
    BY <1>10, <1>13 DEF NewGroups, Newest, IdsOf
  <2>1. \A g \in hist.logged :
          /\ g.life = hist.life => g.log <= mem
          /\ g.life = hist.life /\ g.log = mem => g.ids \subseteq L /\ g.ids \subseteq IdsOf(mems[mem])
    BY <1>0, <1>2, <1>9 DEF NewGroups, Newest
  <2>2. g0.log <= mem /\ g0.ids \subseteq L \cup S /\ g0.ids \in Flying'
    BY <1>2, <1>8, <1>10
  <2>3. \A g \in hist'.logged : g \in hist.logged \/ g = g0
    BY DEF g0
  <2> HIDE DEF L
  <2> QED  BY <1>19, <2>1, <2>2, <2>3
<1>22. SameMem'
  BY <1>2, OpenMem
<1> QED  BY <1>10, <1>14, <1>15, <1>17, <1>20, <1>21, <1>22 DEF Groups

(* A step of a writer, unless it writes behind the bytes of an incomplete  *)
(* record.                                                                 *)
LEMMA WriterGroups ==
  ASSUME Control, Data, Groups, Control', NEW c \in Writers, WriterStep(c), Running, ~hist'.damaged
  PROVE  Groups'
<1>1. CASE MakeRoomForWrite(c)
  BY <1>1, RoomFailGroups, WaitGroups, RoomReadyGroups, RoomSwitchGroups DEF MakeRoomForWrite
<1>2. CASE WriteLog(c)
  <2>1. UNCHANGED <<tables, mems, mem, up, queue, err, manual>> /\ cl[c].pc = "append"
    BY <1>2 DEF WriteLog, memtables, flags
  <2>2. ASSUME NEW f \in Appended(logs[mem], Entries(cl[c].n)), logs' = [logs EXCEPT ![mem] = f],
               cl' = [cl EXCEPT ![c].pc = IF cl[c].sync THEN "sync" ELSE "insert"],
               hist' = [hist EXCEPT !.logged = @ \cup {Group(c)}, !.damaged = @ \/ f.tear = 2]
        PROVE  Groups'
    <3>1. hist \in HistType
      BY DEF Control, Typed, TypeHist
    <3>2. /\ hist'.life = hist.life /\ hist'.next = hist.next /\ hist'.logged = hist.logged \cup {Group(c)}
          /\ f.tear # 2
      BY <2>2, <3>1 DEF HistType
    <3> QED  BY <2>1, <2>2, <3>2, LogGroups
  <2>3. CASE /\ \E f \in AppendFailed(logs[mem]) : logs' = [logs EXCEPT ![mem] = f]
             /\ cl' = [cl EXCEPT ![c].pc = "finish", ![c].st = "err"]
             /\ UNCHANGED hist
    BY <2>1, <2>3, LogFailGroups
  <2> QED  BY <1>2, <2>2, <2>3 DEF WriteLog
<1>3. CASE WriteSync(c) \/ WriteInsert(c) \/ WriteFinish(c)
  BY <1>3, WriteSyncGroups, WriteInsertGroups, FinishGroups
<1>4. CASE WriteReturn(c) \/ AwaitFlush(c) \/ ManualTurn(c)
  BY <1>4, WaitGroups
<1> QED  BY <1>1, <1>2, <1>3, <1>4 DEF WriterStep

-----------------------------------------------------------------------------
(* The database that was damaged stays so in this history.                 *)
LEMMA DamageStays ==
  ASSUME Control, Next, hist.damaged
  PROVE  hist'.damaged
<1>0. hist \in HistType
  BY DEF Control, Typed, TypeHist
<1>3. CASE \E c \in Writers : (Write(c) \/ CompactRange(c) \/ WriterStep(c)) /\ Running
  <2>1. PICK c \in Writers : Write(c) \/ CompactRange(c) \/ WriterStep(c)
    BY <1>3
  <2>2. CASE Write(c) \/ CompactRange(c)
    <3>1. hist' = [hist EXCEPT !.compacts = @ + 1] \/ hist' = [hist EXCEPT !.next = @ + 1]
      BY <2>2 DEF Write, CompactRange, Enqueue
    <3> QED  BY <1>0, <3>1 DEF HistType
  <2>3. CASE MakeRoomForWrite(c) \/ WriteSync(c) \/ WriteFinish(c) \/ AwaitFlush(c) \/ ManualTurn(c)
    BY <2>3 DEF MakeRoomForWrite, RoomError, RoomDelay, RoomReady, RoomWait, RoomSwitch, RoomNoLog, WriteSync,
       WriteFinish, AwaitFlush, ManualTurn
  <2>4. CASE WriteLog(c)
    <3>1. hist' = hist \/ \E f : hist' = [hist EXCEPT !.logged = @ \cup {Group(c)}, !.damaged = @ \/ f.tear = 2]
      BY <2>4 DEF WriteLog
    <3> QED  BY <1>0, <3>1 DEF HistType
  <2>5. CASE WriteInsert(c)
    BY <1>0, <2>5 DEF WriteInsert, HistType
  <2>6. CASE WriteReturn(c)
    <3>1. \E x : hist' = [hist EXCEPT !.promised = x]
      BY <2>6 DEF WriteReturn
    <3> QED  BY <1>0, <3>1 DEF HistType
  <2> QED  BY <2>1, <2>2, <2>3, <2>4, <2>5, <2>6 DEF WriterStep
<1>4. CASE \E r \in Readers : (GetBegin(r) \/ ReaderStep(r)) /\ Running
  <2>1. hist' = hist \/ hist' = [hist EXCEPT !.reads = @ + 1]
    BY <1>4 DEF GetBegin, ReaderStep, GetMem, GetTables, GetEnd
  <2> QED  BY <1>0, <2>1 DEF HistType
<1>5. CASE BackgroundStep /\ Running
  <2>1. hist' = hist \/ \E f : hist' = [hist EXCEPT !.damaged = @ \/ f.tear = 2]
    BY <1>5 DEF BackgroundStep, BackgroundStop, BackgroundFlush, BackgroundManual, BackgroundPick, Compacting,
       WriteLevel0Table, WriteManifest, FlushDone, MoveDone, CompactImm, OpenCompactionOutputFile,
       FinishCompactionOutputFile, CompactShutDown, CompactDone
  <2> QED  BY <1>0, <2>1 DEF HistType
<1>6. CASE \/ Close /\ crashes < plan.crashes /\ rc' = rc /\ crashes' = crashes + 1
           \/ CloseDone \/ Segfault \/ OpenRead \/ RecoverLogFile \/ OpenLog \/ RepairBegin \/ RepairDone
  BY <1>6 DEF Close, CloseDone, Segfault, OpenRead, RecoverLogFile, OpenLog, RepairBegin, RepairDone
<1>7. CASE OpenBegin \/ OpenCurrent \/ WriteDescriptor
  <2>1. hist' = hist \/ \E x : hist' = [hist EXCEPT !.rootless = x]
    BY <1>7 DEF OpenBegin, NewDB, OpenCurrent, WriteDescriptor
  <2> QED  BY <1>0, <2>1 DEF HistType
<1>8. CASE OpenApply
  <2>1. hist' = hist \/ \E f : hist' = [hist EXCEPT !.damaged = @ \/ f.tear = 2]
    BY <1>8 DEF OpenApply
  <2> QED  BY <1>0, <2>1 DEF HistType
<1>9. CASE OpenDone
  BY <1>0, <1>9 DEF OpenDone, HistType
<1>10. CASE ConvertLogToTable
  BY <1>0, <1>10 DEF ConvertLogToTable, HistType
<1>11. CASE DestroyDB
  BY <1>0, <1>11 DEF DestroyDB, HistType
<1>12. CASE Crash
  BY <1>0, <1>12 DEF Crash, HistType
<1> QED  BY <1>3, <1>4, <1>5, <1>6, <1>7, <1>8, <1>9, <1>10, <1>11, <1>12 DEF Next, Step, OpenStep

-----------------------------------------------------------------------------
(* A step after which nobody writes.                                       *)
LEMMA QuietGroups ==
  ASSUME Typed, TypeLogs', Groups, PiecesFrame, hist'.life = hist.life, hist'.next = hist.next, queue' = <<>>,
         \A c \in Writers : cl'[c].pc \notin Writing, manual' = NoClient, up' # "open", SameMem'
  PROVE  Groups'
<1>0. GroupTypes /\ WholeInv /\ OneLogEach /\ IdsInv /\ hist.next \in Nat \ {0} /\ hist'.logged = hist.logged
  BY DEF Groups, Typed, TypeHist, HistType, PiecesFrame
<1>1. GroupTypes'
  BY <1>0 DEF GroupTypes
<1>2. WholeInv' /\ OneLogEach' /\ \A x \in Seen' : x \in Seen \/ x = 0
  BY <1>0, PiecesKept
<1>3. IdsInv'
  <2>1. \A x \in Seen : x < hist.next
    BY <1>0 DEF IdsInv
  <2>2. 0 \in Nat /\ 0 < hist.next
    BY <1>0
  <2>3. \A x \in Seen' : x < hist.next
    BY <1>2, <2>1, <2>2
  <2>4. 1..Len(queue') = {}
    OBVIOUS
  <2> QED  BY <2>3, <2>4 DEF IdsInv
<1>4. NewGroups' /\ OwnerInv'
  BY DEF NewGroups, OwnerInv
<1> QED  BY <1>1, <1>2, <1>3, <1>4 DEF Groups

(* Nobody writes to a database that is not open.                           *)
LEMMA NobodyWrites ==
  ASSUME Control, ~Live
  PROVE  queue = <<>> /\ manual = NoClient /\ \A c \in Writers : cl[c].pc \notin Writing
BY DEF Control, QuietInv, IdleCl, Writing

(* The memory is lost.                                                     *)
LEMMA ResetGroups ==
  ASSUME Typed, TypeLogs', Groups, ResetMemory, up' = "closed", hist'.life = hist.life, hist'.next = hist.next,
         hist'.logged = hist.logged, LogsShort,
         \A n \in DOMAIN tables' : (n \in DOMAIN tables /\ tables'[n] = tables[n]) \/ tables'[n] = Garbage
  PROVE  Groups'
<1>1. PiecesFrame
  <2>1. DOMAIN mems' = {}
    BY DEF ResetMemory
  <2>2. Known(IdsOf(Garbage))
    BY WholeGarbage DEF Known, Groups
  <2> QED  BY <2>1, <2>2 DEF PiecesFrame
<1>2. queue' = <<>> /\ manual' = NoClient /\ \A c \in Writers : cl'[c].pc \notin Writing
  BY DEF ResetMemory, IdleCl, Writing
<1> QED  BY <1>1, <1>2, QuietGroups, OpenMem

(* Files of which nothing is lost.                                         *)
LEMMA LogsNotCut ==
  ASSUME TypeLogs, \A n \in DOMAIN logs' : n \in DOMAIN logs /\ logs'[n] = logs[n]
  PROVE  LogsShort
<1>1. \A n \in DOMAIN logs : Len(logs[n].recs) \in Nat
  BY AllRecords
<1> QED  BY <1>1 DEF LogsShort

(* An Open that fails loses the memory.                                    *)
LEMMA OpenFailGroups ==
  ASSUME Control, Groups, Control', OpenFail, UNCHANGED <<logs, tables>>,
         hist'.life = hist.life, hist'.next = hist.next, hist'.logged = hist.logged
  PROVE  Groups'
<1>1. Typed /\ TypeLogs /\ TypeLogs' /\ ResetMemory /\ up' = "closed"
  BY DEF Control, Typed, OpenFail
<1>2. LogsShort
  BY <1>1, LogsNotCut
<1> QED  BY <1>1, <1>2, ResetGroups

(* The database is closed: only when nobody writes.                        *)
LEMMA CloseGroups ==
  ASSUME Control, Groups, Control', Close \/ CloseDone
  PROVE  Groups'
<1>0. Typed /\ TypeLogs /\ TypeLogs' /\ TypeFlags
  BY DEF Control, Typed
<1>1. CASE Close
  <2>1. UNCHANGED <<logs, tables, mems, hist, queue, cl, manual>> /\ up' = "closing"
    BY <1>1 DEF Close, disk, memtables
  <2>2. \A c \in Writers : cl[c].pc = "idle"
    BY <1>1 DEF Close
  <2>3. manual = NoClient
    BY <1>0, <2>2 DEF Groups, OwnerInv, AtManual, TypeFlags
  <2>4. queue' = <<>>
    BY <2>1 DEF Control, QuietInv
  <2>5. PiecesFrame
    BY <1>0, <2>1, StillPieces
  <2>6. \A c \in Writers : cl'[c].pc \notin Writing
    BY <2>1, <2>2 DEF Writing
  <2> QED  BY <1>0, <2>1, <2>3, <2>4, <2>5, <2>6, QuietGroups, OpenMem
<1>2. CASE CloseDone
  <2>1. ResetMemory /\ up' = "closed" /\ UNCHANGED <<logs, tables, hist>>
    BY <1>2 DEF CloseDone, disk
  <2>2. LogsShort
    BY <1>0, <2>1, LogsNotCut
  <2> QED  BY <1>0, <2>1, <2>2, ResetGroups
<1> QED  BY <1>1, <1>2

(* The process dies of the null pointer.                                   *)
LEMMA SegfaultGroups ==
  ASSUME Control, Groups, Control', Segfault
  PROVE  Groups'
<1>1. Typed /\ TypeLogs /\ TypeLogs'
  BY DEF Control, Typed
<1>2. /\ DOMAIN logs' = DOMAIN logs /\ UNCHANGED <<tables, hist>> /\ ResetMemory /\ up' = "closed"
      /\ \A n \in DOMAIN logs : logs'[n].recs = logs[n].recs
  BY <1>1, SegfaultFacts
<1>3. \A n \in DOMAIN logs : Len(logs[n].recs) \in Nat
  BY <1>1, AllRecords
<1>4. LogsShort
  BY <1>2, <1>3 DEF LogsShort
<1> QED  BY <1>1, <1>2, <1>4, ResetGroups

(* The machine stops.                                                      *)
LEMMA CrashGroups ==
  ASSUME Control, Groups, Control', Crash
  PROVE  Groups'
<1>1. Typed /\ TypeLogs /\ TypeLogs' /\ hist \in HistType
  BY DEF Control, Typed, TypeHist
<1>2. ResetMemory /\ up' = "closed" /\ hist' = [hist EXCEPT !.damaged = @ \/ up = "repairing"]
  BY DEF Crash
<1>3. hist'.life = hist.life /\ hist'.next = hist.next /\ hist'.logged = hist.logged
  BY <1>1, <1>2 DEF HistType
<1>4. LogsShort
  BY CrashFacts DEF LogsShort
<1>5. \A n \in DOMAIN tables' : (n \in DOMAIN tables /\ tables'[n] = tables[n]) \/ tables'[n] = Garbage
  BY CrashFacts
<1> QED  BY <1>1, <1>2, <1>3, <1>4, <1>5, ResetGroups

-----------------------------------------------------------------------------
(* An Open begins and reads the manifest.                                  *)
LEMMA OpenBeginGroups ==
  ASSUME Control, Groups, Control', OpenBegin \/ OpenRead
  PROVE  Groups'
<1>0. Typed /\ TypeLogs /\ TypeLogs' /\ hist \in HistType /\ ~Live
  BY DEF Control, Typed, TypeHist, OpenBegin, OpenRead, Live
<1>1. CASE OpenFail /\ UNCHANGED <<logs, tables, hist>>
  BY <1>1, OpenFailGroups
<1>2. CASE ~(OpenFail /\ UNCHANGED <<logs, tables, hist>>)
  <2>1. UNCHANGED <<logs, tables, mem, mems, queue, cl, manual>> /\ up' = "opening"
    BY <1>2 DEF OpenBegin, OpenRead, memory, memtables, disk
  <2>2. hist'.life = hist.life /\ hist'.next = hist.next /\ hist'.logged = hist.logged
    <3>1. hist' = hist \/ hist' = [hist EXCEPT !.rootless = TRUE]
      BY DEF OpenBegin, OpenRead, NewDB
    <3> QED  BY <1>0, <3>1 DEF HistType
  <2>3. mem = 0
    <3>1. ~Based
      BY DEF OpenBegin, OpenRead, Based, Live
    <3> QED  BY <3>1 DEF Control, QuietInv
  <2>4. SameMem'
    BY <2>1, <2>3 DEF SameMem
  <2>5. PiecesFrame
    BY <1>0, <2>1, <2>2, StillPieces
  <2> QED  BY <1>0, <2>1, <2>2, <2>4, <2>5, NobodyWrites, QuietGroups
<1> QED  BY <1>1, <1>2

(* A log becomes a table or the memtable.                                  *)
LEMMA RecoverLogGroups ==
  ASSUME Control, Data, Groups, Control', RecoverLogFile
  PROVE  Groups'
<1>0. /\ Typed /\ TypeLogs /\ TypeLogs' /\ ~Live /\ up = "opening" /\ rc.stage = "logs" /\ rc.todo # {} /\ rc.todo \subseteq Nat
      /\ UNCHANGED <<logs, hist>>
  BY DEF Control, Typed, TypeRc, RcType, RecoverLogFile, Stages, Live
<1> DEFINE n == Min(rc.todo)
<1>1. n \in DOMAIN logs
  <2>1. n \in rc.todo
    BY <1>0, MinFacts
  <2> HIDE DEF n
  <2> QED  BY <1>0, <2>1 DEF Data, RecoverInv
<1>2. CASE OpenFail /\ UNCHANGED tables
  BY <1>0, <1>2, OpenFailGroups
<1>3. CASE ~(OpenFail /\ UNCHANGED tables)
  <2> DEFINE kept == rc.reuse /\ rc.todo = {n}
  <2>1. /\ UNCHANGED <<up, queue, cl, manual>>
        /\ tables' = tables \/ tables' = With(tables, vs.next, RecordsOf(n))
        /\ mem' = IF kept THEN n ELSE mem
        /\ mems' = IF kept THEN With(mems, n, RecordsOf(n)) ELSE mems
    BY <1>3 DEF RecoverLogFile
  <2> HIDE DEF n, kept
  <2>2. Known(IdsOf(RecordsOf(n)))
    BY <1>0, <1>1, WholeLog, SeenPieces DEF Known, Groups
  <2>3. PiecesFrame
    <3>1. LogsShort
      BY <1>0, LogsNotCut
    <3>2. \A m \in DOMAIN tables' : (m \in DOMAIN tables /\ tables'[m] = tables[m]) \/ Known(IdsOf(tables'[m]))
      BY <2>1, <2>2 DEF With
    <3>3. \A m \in DOMAIN mems' : (m \in DOMAIN mems /\ mems'[m] = mems[m]) \/ Known(IdsOf(mems'[m]))
      BY <2>1, <2>2 DEF With
    <3> QED  BY <1>0, <3>1, <3>2, <3>3 DEF PiecesFrame
  <2>4. SameMem'
    <3>1. CASE kept
      <4>1. mem' = n /\ mems'[n] = RecordsOf(n)
        BY <2>1, <3>1 DEF With
      <4> QED  BY <1>0, <1>1, <4>1 DEF SameMem, RecordsOf
    <3>2. CASE ~kept
      BY <1>0, <2>1, <3>2 DEF SameMem, Groups, RecordsOf
    <3> QED  BY <3>1, <3>2
  <2> QED  BY <1>0, <2>1, <2>3, <2>4, NobodyWrites, QuietGroups
<1> QED  BY <1>2, <1>3

(* An Open takes a new log, writes its edit and points CURRENT to it.      *)
LEMMA OpenLogGroups ==
  ASSUME Control, Data, Groups, Control', OpenLog \/ OpenApply \/ OpenCurrent
  PROVE  Groups'
<1>0. Typed /\ TypeLogs /\ TypeLogs' /\ ~Live /\ hist \in HistType /\ up = "opening"
  BY DEF Control, Typed, TypeHist, TypeRc, RcType, OpenLog, OpenApply, OpenCurrent, Stages, Live
<1>3. hist'.life = hist.life /\ hist'.next = hist.next /\ hist'.logged = hist.logged
  <2>1. hist' = hist \/ hist' = [hist EXCEPT !.rootless = FALSE] \/ \E b : hist' = [hist EXCEPT !.damaged = b]
    BY DEF OpenLog, OpenApply, OpenCurrent
  <2> QED  BY <1>0, <2>1 DEF HistType
<1>1. CASE OpenFail /\ UNCHANGED <<logs, tables>>
  BY <1>1, <1>3, OpenFailGroups
<1>2. CASE ~(OpenFail /\ UNCHANGED <<logs, tables>>)
  <2>1. UNCHANGED <<up, tables, queue, cl, manual>>
    BY <1>2 DEF OpenLog, OpenApply, OpenCurrent, memory
  <2>2. hist'.life = hist.life /\ hist'.next = hist.next /\ hist'.logged = hist.logged
    BY <1>3
  <2>3. CASE UNCHANGED <<logs, mem, mems>>
    <3>1. PiecesFrame
      BY <1>0, <2>1, <2>2, <2>3, StillPieces
    <3>2. SameMem'
      BY <2>1, <2>3 DEF SameMem, Groups, RecordsOf
    <3> QED  BY <1>0, <2>1, <2>2, <3>1, <3>2, NobodyWrites, QuietGroups
  <2>4. CASE logs' = With(logs, vs.next, EmptyFile) /\ mems' = With(mems, vs.next, {}) /\ mem' = vs.next
    <3>1. LogsShort
      <4>1. \A n \in DOMAIN logs : Len(logs[n].recs) \in Nat
        BY <1>0, AllRecords
      <4>2. EmptyFile.recs = <<>>
        BY DEF EmptyFile
      <4> QED  BY <2>4, <4>1, <4>2 DEF LogsShort, With
    <3>2. PiecesFrame
      <4>1. Known(IdsOf({}))
        <5>1. IdsOf({}) = {}
          BY DEF IdsOf
        <5> QED  BY <5>1, WholeEmpty DEF Known
      <4>2. \A n \in DOMAIN mems' : (n \in DOMAIN mems /\ mems'[n] = mems[n]) \/ Known(IdsOf(mems'[n]))
        BY <2>4, <4>1 DEF With
      <4> QED  BY <2>1, <2>2, <3>1, <4>2 DEF PiecesFrame
    <3>3. SameMem'
      <4>1. logs'[vs.next] = EmptyFile /\ vs.next \in DOMAIN logs' /\ mems'[vs.next] = {}
        BY <2>4 DEF With
      <4>2. UNION Range(EmptyFile.recs) = {}
        BY DEF EmptyFile, Range
      <4> QED  BY <2>4, <4>1, <4>2 DEF SameMem, RecordsOf
    <3> QED  BY <1>0, <2>1, <2>2, <3>2, <3>3, NobodyWrites, QuietGroups
  <2> QED  BY <1>2, <2>3, <2>4 DEF OpenLog, OpenApply, OpenCurrent, memory, memtables
<1> QED  BY <1>1, <1>2

-----------------------------------------------------------------------------
(* A repair turns logs into tables and drops what it cannot read.          *)
LEMMA RepairGroups ==
  ASSUME Control, Data, Groups, Control', RepairBegin \/ ConvertLogToTable \/ WriteDescriptor \/ RepairDone, ~hist'.damaged
  PROVE  Groups'
<1>0. Typed /\ TypeLogs /\ TypeLogs' /\ ~Live /\ hist \in HistType
  BY DEF Control, Typed, TypeHist, TypeRc, RcType, RepairBegin, ConvertLogToTable, WriteDescriptor, RepairDone, Stages, Live
<1>1. UNCHANGED <<mems, queue, cl, manual>>
  BY DEF RepairBegin, ConvertLogToTable, WriteDescriptor, RepairDone, memory, memtables
<1>2. up' \notin {"open", "opening"}
  BY DEF RepairBegin, ConvertLogToTable, WriteDescriptor, RepairDone, Control, Stages
<1>3. hist'.life = hist.life /\ hist'.next = hist.next /\ hist'.logged = hist.logged
  <2>1. hist' = hist \/ hist' = [hist EXCEPT !.rootless = TRUE] \/ hist' = [hist EXCEPT !.damaged = TRUE]
    BY DEF RepairBegin, ConvertLogToTable, WriteDescriptor, RepairDone
  <2> QED  BY <1>0, <2>1 DEF HistType
<1>4. \A n \in DOMAIN logs' : n \in DOMAIN logs /\ logs'[n] = logs[n]
  BY DEF RepairBegin, ConvertLogToTable, WriteDescriptor, RepairDone, disk, Archived, Kept
<1>5. \A n \in DOMAIN tables' : (n \in DOMAIN tables /\ tables'[n] = tables[n]) \/ Known(IdsOf(tables'[n]))
  <2>1. CASE UNCHANGED tables \/ tables' = Kept(tables, ReadableTables)
    BY <2>1 DEF Kept
  <2>2. CASE ConvertLogToTable
    <3>1. PICK n \in rc.todo : UNCHANGED tables \/ tables' = With(tables, rc.next, RecordsOf(n))
      BY <2>2 DEF ConvertLogToTable
    <3>2. n \in DOMAIN logs
      BY <2>2 DEF ConvertLogToTable, Data, RecoverInv
    <3>3. Known(IdsOf(RecordsOf(n)))
      BY <1>0, <3>2, WholeLog, SeenPieces DEF Known, Groups
    <3> QED  BY <3>1, <3>3 DEF With
  <2> QED  BY <2>1, <2>2 DEF RepairBegin, WriteDescriptor, RepairDone, disk
<1>6. PiecesFrame
  <2>1. LogsShort
    BY <1>0, <1>4, LogsNotCut
  <2> QED  BY <1>1, <1>3, <1>5, <2>1 DEF PiecesFrame
<1> QED  BY <1>0, <1>1, <1>2, <1>3, <1>6, NobodyWrites, QuietGroups, OpenMem

(* The database is destroyed, with everything that was logged.             *)
LEMMA DestroyGroups ==
  ASSUME Control, Groups, Control', DestroyDB
  PROVE  Groups'
<1>0. /\ hist \in HistType /\ up = "closed" /\ ~Based /\ ~Live /\ DOMAIN logs' = {} /\ DOMAIN tables' = {}
      /\ UNCHANGED <<up, mems, queue, cl, manual>>
  BY DEF Control, Typed, TypeHist, DestroyDB, Based, Live, NoFiles, memory, memtables
<1>1. hist'.logged = {} /\ hist'.life = hist.life /\ hist'.next = hist.next /\ hist.next \in Nat
  <2>1. hist' = [hist EXCEPT !.logged = {}, !.applied = {}, !.promised = {}, !.rootless = TRUE]
    BY DEF DestroyDB
  <2> QED  BY <1>0, <2>1 DEF HistType
<1>2. DOMAIN mems' = {}
  BY <1>0 DEF Control, QuietInv
<1>3. Seen' = {}
  BY <1>0, <1>1, <1>2 DEF Seen, AllEntries, IdsOf
<1>4. queue' = <<>> /\ manual' = NoClient /\ \A c \in Writers : cl'[c].pc \notin Writing
  BY <1>0, NobodyWrites
<1>5. IdsInv'
  <2>1. 1..Len(queue') = {}
    BY <1>4
  <2> QED  BY <1>3, <1>4, <2>1 DEF IdsInv
<1>6. GroupTypes' /\ WholeInv' /\ OneLogEach'
  BY <1>0, <1>1, <1>2 DEF Groups, GroupTypes, WholeInv, OneLogEach
<1>7. NewGroups' /\ SameMem' /\ OwnerInv'
  BY <1>0, <1>4 DEF NewGroups, SameMem, OwnerInv
<1> QED  BY <1>5, <1>6, <1>7 DEF Groups

-----------------------------------------------------------------------------
(* What an Open remembers of a group.                                      *)
LEMMA ContinuedFacts ==
  ASSUME Groups, up = "opening", mem # 0, mem \in DOMAIN mems, NEW g \in hist.logged
  PROVE  /\ Continued(g).log = g.log /\ Continued(g).first = g.first /\ Continued(g).ids = g.ids
         /\ Continued(g) \in [life : Nat, log : Nat, first : Nat, ids : SUBSET Nat]
         /\ \/ /\ Continued(g).life = hist.life + 1 /\ g.log = mem
               /\ g.ids \subseteq IdsOf(mems[mem]) /\ g.ids \cap IdsOf(RecordsOf(mem)) # {}
            \/ /\ Continued(g).life = g.life /\ g.life < hist.life + 1 /\ g.ids \cap IdsOf(mems[mem]) = {}
<1>1. /\ g \in [life : Nat, log : Nat, first : Nat, ids : SUBSET Nat] /\ hist.life \in Nat
      /\ g.life \in Nat /\ g.life <= hist.life /\ g.first \in g.ids /\ g.first \in Nat
  BY DEF Groups, GroupTypes
<1>2. Whole(IdsOf(mems[mem])) /\ mems[mem] = RecordsOf(mem) /\ mem \in DOMAIN logs
  BY DEF Groups, WholeInv, SameMem
<1>3. CASE g.ids \subseteq IdsOf(mems[mem])
  <2>1. Continued(g) = [g EXCEPT !.life = hist.life + 1]
    BY <1>3 DEF Continued
  <2>2. /\ Continued(g).log = g.log /\ Continued(g).first = g.first /\ Continued(g).ids = g.ids
        /\ Continued(g) \in [life : Nat, log : Nat, first : Nat, ids : SUBSET Nat]
        /\ Continued(g).life = hist.life + 1
    BY <1>1, <2>1
  <2>3. g.ids \cap IdsOf(RecordsOf(mem)) # {}
    BY <1>1, <1>2, <1>3
  <2>4. g.log = mem
    BY <1>2, <2>3 DEF Groups, OneLogEach
  <2> QED  BY <1>3, <2>2, <2>3, <2>4
<1>4. CASE ~(g.ids \subseteq IdsOf(mems[mem]))
  <2>1. Continued(g) = g
    BY <1>4 DEF Continued
  <2>2. g.ids \cap IdsOf(mems[mem]) = {}
    BY <1>1, <1>2, <1>4 DEF Whole, SameLog
  <2> QED  BY <1>1, <2>1, <2>2
<1> QED  BY <1>3, <1>4

(* The database is open: the groups of the log that is kept in use become  *)
(* groups of the new life, and what was whole stays whole.                 *)
LEMMA OpenDoneGroups ==
  ASSUME Control, Data, Groups, Control', OpenDone
  PROVE  Groups'
<1>0. /\ Typed /\ TypeLogs /\ TypeLogs' /\ hist \in HistType /\ up = "opening" /\ ~Live /\ Based /\ mem # 0 /\ mem \in DOMAIN mems
      /\ mem \in DOMAIN logs /\ vs.log <= mem /\ err \in BOOLEAN /\ mem \in Nat /\ vs.log \in Nat
      /\ UNCHANGED <<queue, cl, manual, mem, mems>> /\ up' = "open"
  BY DEF Control, Typed, TypeHist, TypeFlags, TypeMems, TypeVs, VsType, OpenDone, Stages, Live, Based, Data, RecoverInv, FreshInv, LogInv,
     memtables
<1>1. hist'.logged = Remembered /\ hist'.life = hist.life + 1 /\ hist'.next = hist.next
  <2>1. hist' = [hist EXCEPT !.applied = Recovered, !.life = @ + 1, !.logged = Remembered]
    BY DEF OpenDone
  <2> QED  BY <1>0, <2>1 DEF HistType
<1>2. /\ \A n \in DOMAIN logs' : n \in DOMAIN logs /\ logs'[n] = logs[n]
      /\ \A n \in DOMAIN tables' : n \in DOMAIN tables /\ tables'[n] = tables[n]
      /\ mem \in DOMAIN logs'
  <2>1. DeleteObsoleteFiles(tables, vs, pending, {}, err)
    BY DEF OpenDone
  <2> QED  BY <1>0, <2>1, DeleteFacts
<1>3. /\ queue' = <<>> /\ manual' = NoClient /\ \A c \in Writers : cl'[c].pc \notin Writing
  BY <1>0, NobodyWrites
<1> DEFINE M == IdsOf(mems[mem])
           G == hist.logged
           New(g) == g.ids \subseteq M
<1>4. M = IdsOf(RecordsOf(mem)) /\ M = IdsOf(RecordsOf(mem))'
  <2>1. mems[mem] = RecordsOf(mem)
    BY <1>0 DEF Groups, SameMem
  <2>2. RecordsOf(mem)' = RecordsOf(mem)
    BY <1>0, <1>2 DEF RecordsOf
  <2> QED  BY <2>1, <2>2 DEF IdsOf
<1>5. \A k \in hist'.logged : \E g \in G : k = Continued(g)
  BY <1>1 DEF Remembered
<1>6. ASSUME NEW g \in G
      PROVE  /\ Continued(g).log = g.log /\ Continued(g).first = g.first /\ Continued(g).ids = g.ids
             /\ Continued(g) \in [life : Nat, log : Nat, first : Nat, ids : SUBSET Nat]
             /\ \/ Continued(g).life = hist.life + 1 /\ g.log = mem /\ g.ids \subseteq M /\ g.ids \cap M # {}
                \/ Continued(g).life = g.life /\ g.life < hist.life + 1 /\ g.ids \cap M = {}
  BY <1>0, <1>4, ContinuedFacts
<1>7. \A g, h \in G : g.ids \cap M # {} /\ h.ids \cap M # {} => g.life = h.life
  BY <1>0, <1>4 DEF Groups, OneLogEach
<1>8. /\ hist.life \in Nat
      /\ \A g \in G : /\ g.life \in Nat /\ g.life <= hist.life /\ g.log \in Nat
                      /\ g.first \in g.ids /\ g.ids \subseteq Nat \ {0}
  BY DEF Groups, GroupTypes
<1>9. \A g \in G : Continued(g).life \in Nat /\ Continued(g).life <= hist.life + 1
  BY <1>6, <1>8
<1> HIDE DEF M, G
<1>10. GroupTypes'
  <2>1. hist'.life \in Nat
    BY <1>1, <1>8
  <2>2. ASSUME NEW k \in hist'.logged
        PROVE  /\ k.life \in Nat /\ k.life <= hist'.life /\ k.log \in Nat /\ k.first \in k.ids /\ k.ids \subseteq Nat \ {0}
               /\ k \in [life : Nat, log : Nat, first : Nat, ids : SUBSET Nat]
    BY <1>1, <1>5, <1>6, <1>8, <1>9
  <2> QED  BY <2>1, <2>2 DEF GroupTypes
<1>11. ASSUME NEW S, Whole(S)
       PROVE  WholeIn(hist'.logged, S)
  <2> SUFFICES ASSUME NEW k \in hist'.logged, NEW l \in hist'.logged, SameLog(k, l), l.first <= k.first, k.ids \cap S # {}
               PROVE  l.ids \subseteq S
    BY DEF WholeIn
  <2>1. PICK g \in G : k = Continued(g)
    BY <1>5
  <2>2. PICK h \in G : l = Continued(h)
    BY <1>5
  <2>3. /\ k.log = g.log /\ k.first = g.first /\ k.ids = g.ids
        /\ \/ k.life = hist.life + 1 /\ g.ids \cap M # {}
           \/ k.life = g.life /\ g.life < hist.life + 1
    BY <1>6, <2>1
  <2>4. /\ l.log = h.log /\ l.first = h.first /\ l.ids = h.ids
        /\ \/ l.life = hist.life + 1 /\ h.ids \cap M # {}
           \/ l.life = h.life /\ h.life < hist.life + 1
    BY <1>6, <2>2
  <2>5. k.life = l.life /\ k.log = l.log
    BY DEF SameLog
  <2>6. g.life = h.life
    BY <1>7, <1>8, <2>3, <2>4, <2>5
  <2> QED  BY <1>11, <2>3, <2>4, <2>5, <2>6 DEF Whole, SameLog, G
<1>12. WholeInv'
  <2>1. (\A n \in DOMAIN tables : Whole(IdsOf(tables[n])))' /\ (\A n \in DOMAIN mems : Whole(IdsOf(mems[n])))'
    <3>1. /\ \A n \in DOMAIN tables' : WholeIn(hist'.logged, IdsOf(tables'[n]))
          /\ \A n \in DOMAIN mems' : WholeIn(hist'.logged, IdsOf(mems'[n]))
      BY <1>0, <1>2, <1>11 DEF Groups, WholeInv
    <3> QED  BY <3>1 DEF Whole, WholeIn, SameLog, IdsOf
  <2>2. (\A n \in DOMAIN logs : \A k \in 0..Len(logs[n].recs) : Whole(UpTo(logs[n].recs, k)))'
    <3>1. \A n \in DOMAIN logs' : \A k \in 0..Len(logs'[n].recs) : WholeIn(hist'.logged, UpTo(logs'[n].recs, k))
      BY <1>2, <1>11 DEF Groups, WholeInv
    <3> QED  BY <3>1 DEF Whole, WholeIn, SameLog, UpTo, IdsOf
  <2> QED  BY <2>1, <2>2 DEF WholeInv
<1>13. IdsInv'
  <2>1. \A x \in Seen' : x \in Seen
    <3>1. \A x \in UNION {k.ids : k \in hist'.logged} : x \in Seen
      BY <1>5, <1>6 DEF Seen, G
    <3>2. \A e \in AllEntries' : e \in AllEntries
      BY <1>0, <1>2 DEF AllEntries, RecordsOf
    <3> QED  BY <3>1, <3>2 DEF Seen, IdsOf
  <2>2. \A x \in Seen' : x < hist'.next
    BY <1>1, <2>1 DEF Groups, IdsInv
  <2>3. 1..Len(queue') = {}
    BY <1>3
  <2> QED  BY <1>3, <2>2, <2>3 DEF IdsInv
<1>14. OneLogEach'
  <2> SUFFICES ASSUME NEW n \in DOMAIN logs', NEW k \in hist'.logged, NEW l \in hist'.logged,
                      k.ids \cap IdsOf(RecordsOf(n))' # {}, l.ids \cap IdsOf(RecordsOf(n))' # {}
               PROVE  k.log = n /\ k.life = l.life
    BY DEF OneLogEach
  <2>1. PICK g \in G : k = Continued(g)
    BY <1>5
  <2>2. PICK h \in G : l = Continued(h)
    BY <1>5
  <2>3. n \in DOMAIN logs /\ IdsOf(RecordsOf(n))' = IdsOf(RecordsOf(n))
    BY <1>2 DEF RecordsOf, IdsOf
  <2>4. k.ids = g.ids /\ l.ids = h.ids /\ k.log = g.log
    BY <1>6, <2>1, <2>2
  <2>5. g.log = n /\ h.log = n /\ g.life = h.life
    BY <2>3, <2>4 DEF Groups, OneLogEach, G
  <2>6. CASE n = mem
    BY <1>4, <1>6, <2>1, <2>2, <2>3, <2>4, <2>5, <2>6
  <2>7. CASE n # mem
    BY <1>6, <2>1, <2>2, <2>4, <2>5, <2>7
  <2> QED  BY <2>6, <2>7
<1>15. NewGroups'
  <2>1. Flying' = {}
    <3>1. \A c \in Writers : cl'[c].pc \notin {"sync", "insert"}
      BY <1>3 DEF Writing
    <3> QED  BY <3>1 DEF Flying
  <2>2. ASSUME NEW k \in hist'.logged
        PROVE  /\ k.life = hist.life + 1 => k.log <= mem
               /\ k.life = hist.life + 1 => k.ids \subseteq M
               /\ k.ids \cap M # {} => k.life = hist.life + 1 /\ k.log = mem
    <3>1. PICK g \in G : k = Continued(g)
      BY <1>5
    <3>2. /\ k.log = g.log /\ k.ids = g.ids
          /\ \/ k.life = hist.life + 1 /\ g.log = mem /\ g.ids \subseteq M /\ g.ids \cap M # {}
             \/ k.life = g.life /\ g.life < hist.life + 1 /\ g.ids \cap M = {}
      BY <1>6, <3>1
    <3> QED  BY <1>0, <1>8, <3>2
  <2> QED  BY <1>0, <1>1, <1>4, <2>1, <2>2 DEF NewGroups, Newest, M, IdsOf
<1>16. SameMem' /\ OwnerInv'
  BY <1>0, <1>3 DEF SameMem, OwnerInv
<1> QED  BY <1>10, <1>12, <1>13, <1>14, <1>15, <1>16 DEF Groups

-----------------------------------------------------------------------------
(* A database without files has no groups.                                 *)
LEMMA GroupInit ==
  ASSUME Init
  PROVE  GroupInv
<1>1. /\ DOMAIN logs = {} /\ DOMAIN tables = {} /\ DOMAIN mems = {} /\ up = "closed" /\ queue = <<>>
      /\ manual = NoClient /\ hist.logged = {} /\ hist.life = 0 /\ hist.next = 1
      /\ \A c \in Writers : cl[c].pc = "idle"
  BY DEF Init, NoFiles, IdleCl
<1>2. Seen = {}
  BY <1>1 DEF Seen, AllEntries, IdsOf
<1>3. IdsInv
  <2>1. 1..Len(queue) = {} /\ \A c \in Writers : cl[c].pc \notin Writing
    BY <1>1 DEF Writing
  <2> QED  BY <1>2, <2>1 DEF IdsInv
<1>4. GroupTypes /\ WholeInv /\ OneLogEach /\ NewGroups /\ SameMem /\ OwnerInv
  BY <1>1 DEF GroupTypes, WholeInv, OneLogEach, NewGroups, SameMem, OwnerInv
<1> QED  BY <1>3, <1>4 DEF Groups, GroupInv

(* Every step, and the stuttering one, keeps the groups whole.             *)
LEMMA GroupStep ==
  ASSUME SnapInv, SnapInv', GroupInv, [Next]_openVars
  PROVE  GroupInv'
<1>0. Control /\ Data /\ Control' /\ Data' /\ TypeLogs /\ TypeLogs'
  BY DEF SnapInv, Control, Typed
<1>1. CASE UNCHANGED openVars
  <2>1. UNCHANGED <<logs, tables, mems, mem, up, queue, cl, manual, err, hist>>
    BY <1>1 DEF openVars, vars, disk, memtables, flags
  <2>2. CASE hist.damaged
    BY <2>1, <2>2 DEF GroupInv
  <2>3. CASE Groups
    <3>1. PiecesFrame
      BY <1>0, <2>1, StillPieces
    <3>2. CalmFrame
      BY <2>1 DEF CalmFrame, RecordsOf, IdsOf
    <3>3. OwnerInv' /\ SameMem'
      BY <2>1, <2>3 DEF Groups, OwnerInv, AtManual, SameMem, RecordsOf
    <3>4. Groups'
      BY <1>0, <2>3, <3>1, <3>2, <3>3, CalmStep
    <3> QED  BY <3>4 DEF GroupInv
  <2> QED  BY <2>2, <2>3 DEF GroupInv
<1>2. CASE Next
  <2> SUFFICES ASSUME ~hist'.damaged  PROVE Groups'
    BY DEF GroupInv
  <2>1. Groups
    BY <1>0, <1>2, DamageStays DEF GroupInv
  <2>2. ASSUME NEW c \in Writers, Write(c) \/ CompactRange(c) \/ WriterStep(c), Running
        PROVE  Groups'
    BY <1>0, <2>1, <2>2, WriteGroups, WriterGroups
  <2>3. ASSUME NEW r \in Readers, GetBegin(r) \/ ReaderStep(r), Running
        PROVE  Groups'
    BY <1>0, <2>1, <2>3, ReaderGroups
  <2>4. CASE BackgroundStep /\ Running
    BY <1>0, <2>1, <2>4, BgGroups
  <2>5. CASE Close \/ CloseDone
    BY <1>0, <2>1, <2>5, CloseGroups
  <2>6. CASE OpenBegin \/ OpenRead
    BY <1>0, <2>1, <2>6, OpenBeginGroups
  <2>7. CASE RecoverLogFile
    BY <1>0, <2>1, <2>7, RecoverLogGroups
  <2>8. CASE OpenLog \/ OpenApply \/ OpenCurrent
    BY <1>0, <2>1, <2>8, OpenLogGroups
  <2>9. CASE OpenDone
    BY <1>0, <2>1, <2>9, OpenDoneGroups
  <2>10. CASE RepairBegin \/ ConvertLogToTable \/ WriteDescriptor \/ RepairDone
    BY <1>0, <2>1, <2>10, RepairGroups
  <2>11. CASE DestroyDB \/ Crash \/ Segfault
    BY <1>0, <2>1, <2>11, DestroyGroups, CrashGroups, SegfaultGroups
  <2> QED  BY <1>2, <2>2, <2>3, <2>4, <2>5, <2>6, <2>7, <2>8, <2>9, <2>10, <2>11 DEF Next, Step, OpenStep
<1> QED  BY <1>1, <1>2

(* Only the end of an Open makes a database open.                          *)
LEMMA OpenedByOpen ==
  ASSUME [Next]_openVars, up # "open", up' = "open"
  PROVE  OpenDone
<1>1. CASE UNCHANGED openVars
  BY <1>1 DEF openVars, vars
<1>2. CASE \E c \in Writers : (Write(c) \/ CompactRange(c) \/ WriterStep(c)) /\ Running
  <2>1. PICK c \in Writers : Write(c) \/ CompactRange(c) \/ WriterStep(c)
    BY <1>2
  <2>2. UNCHANGED up
    BY <2>1 DEF Write, CompactRange, Enqueue, WriterStep, MakeRoomForWrite, RoomError, RoomDelay, RoomReady, RoomWait, RoomSwitch,
       RoomNoLog, WriteLog, WriteSync, WriteInsert, WriteFinish, WriteReturn, AwaitFlush, ManualTurn
  <2> QED  BY <2>2
<1>3. CASE \E r \in Readers : (GetBegin(r) \/ ReaderStep(r)) /\ Running
  BY <1>3 DEF GetBegin, ReaderStep, GetMem, GetTables, GetEnd
<1>4. CASE BackgroundStep /\ Running
  BY <1>4 DEF BackgroundStep, BackgroundStop, BackgroundFlush, BackgroundManual, BackgroundPick, Compacting, WriteLevel0Table,
     WriteManifest, FlushDone, MoveDone, CompactImm, OpenCompactionOutputFile, FinishCompactionOutputFile, CompactShutDown, CompactDone
<1>5. CASE \/ Close \/ CloseDone \/ Crash \/ Segfault \/ OpenBegin
           \/ RepairBegin \/ ConvertLogToTable \/ WriteDescriptor \/ RepairDone \/ DestroyDB
  BY <1>5 DEF Close, CloseDone, Crash, Segfault, OpenBegin, RepairBegin, ConvertLogToTable, WriteDescriptor, RepairDone, DestroyDB
<1>6. CASE OpenRead \/ RecoverLogFile \/ OpenLog \/ OpenApply \/ OpenCurrent
  BY <1>6 DEF OpenRead, RecoverLogFile, OpenLog, OpenApply, OpenCurrent, OpenFail
<1> QED  BY <1>1, <1>2, <1>3, <1>4, <1>5, <1>6 DEF Next, Step, OpenStep

(* What an Open recovers is whole.                                         *)
LEMMA RecoveredWhole ==
  ASSUME SnapInv, GroupInv, ~hist.damaged, OpenDone
  PROVE  Whole(IdsOf(Recovered))
<1>1. Groups /\ rc.stage = "clean" /\ Control /\ Data
  BY DEF GroupInv, SnapInv, OpenDone
<1>2. Based
  BY <1>1 DEF Control, Stages, Based
<1>3. mem \in DOMAIN mems
  BY <1>1, <1>2 DEF Data, RecoverInv, FreshInv
<1>4. Whole(IdsOf(mems[mem])) /\ Whole(IdsOf(TableEntries(vs.ver)))
  BY <1>1, <1>3, WholeTables DEF Groups, WholeInv
<1>5. Whole(IdsOf(mems[mem]) \cup IdsOf(TableEntries(vs.ver)))
  BY <1>4, WholeUnion
<1>6. IdsOf(Recovered) = IdsOf(mems[mem]) \cup IdsOf(TableEntries(vs.ver))
  BY DEF Recovered, IdsOf
<1> QED  BY <1>5, <1>6

(* The writes of one batch, and of the batches that shared its log record, *)
(* are recovered together or not at all, and with a record every earlier   *)
(* one of the same log (log_writer.cc, log_reader.cc, DBImpl::Recover),    *)
(* for any crashes, failures, flushes, compactions and repairs that left   *)
(* no record behind the bytes of an incomplete one.                        *)
THEOREM GroupsAreRecovered ==
  Spec => PrefixRecovered
<1> DEFINE A == up # "open" /\ up' = "open" /\ ~hist.damaged =>
                  \A g, h \in hist.logged :
                    SameLog(g, h) /\ h.first <= g.first /\ g.ids \cap IdsOf(Recovered) # {} =>
                      h.ids \subseteq IdsOf(Recovered)
<1>1. Init => SnapInv /\ GroupInv
  BY SnapInit, GroupInit
<1>2. SnapInv /\ GroupInv /\ [Next]_openVars => SnapInv' /\ GroupInv'
  BY SnapStep, GroupStep
<1>3. SnapInv /\ GroupInv /\ [Next]_openVars => [A]_openVars
  <2> SUFFICES ASSUME SnapInv, GroupInv, [Next]_openVars  PROVE A
    OBVIOUS
  <2> SUFFICES ASSUME up # "open", up' = "open", ~hist.damaged
               PROVE  Whole(IdsOf(Recovered))
    BY DEF Whole
  <2> QED  BY OpenedByOpen, RecoveredWhole
<1> QED  BY <1>1, <1>2, <1>3, PTL DEF Spec, PrefixRecovered
=============================================================================
