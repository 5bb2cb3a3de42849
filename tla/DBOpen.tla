------------------------------- MODULE DBOpen -------------------------------
(***************************************************************************)
(* The life of a database across incarnations: DB::Open with the recovery  *)
(* of the manifest and of the logs (db/db_impl.cc, db/version_set.cc),     *)
(* RepairDB (db/repair.cc), DestroyDB, and the crash of the machine at any *)
(* point, which keeps of every file what was synced and any part of the    *)
(* rest.                                                                   *)
(***************************************************************************)
EXTENDS DBImpl

VARIABLES
  rc,       \* what Open or RepairDB is doing
  crashes

openVars == <<vars, rc, crashes>>

IdleRc == [stage |-> "none", todo |-> {}, add |-> {}, reuse |-> FALSE, save |-> FALSE, next |-> 0]
NoVs == [ver |-> {}, log |-> 0, next |-> 0, mani |-> 0, seq |-> 0, seek |-> FALSE]
NoFiles == [n \in {} |-> EmptyFile]

(* The constructor of DBImpl; also what is left of it after a crash. *)
ResetMemory ==
  /\ queue' = <<>> /\ cl' = [c \in Writers |-> IdleCl] /\ rd' = [r \in Readers |-> IdleRd]
  /\ mem' = 0 /\ imm' = 0 /\ mems' = [n \in {} |-> {}] /\ vs' = NoVs /\ pending' = {}
  /\ err' = FALSE /\ sched' = FALSE /\ shut' = FALSE /\ bg' = IdleBg /\ manual' = NoClient
  /\ rc' = IdleRc

Init ==
  /\ logs = NoFiles /\ tables = [n \in {} |-> {}] /\ manis = NoFiles /\ current = 0
  /\ up = "closed"
  /\ queue = <<>> /\ cl = [c \in Writers |-> IdleCl] /\ rd = [r \in Readers |-> IdleRd]
  /\ mem = 0 /\ imm = 0 /\ mems = [n \in {} |-> {}] /\ vs = NoVs /\ pending = {}
  /\ err = FALSE /\ sched = FALSE /\ shut = FALSE /\ bg = IdleBg /\ manual = NoClient
  /\ rc = IdleRc
  /\ hist = [next |-> 1, compacts |-> 0, reads |-> 0, life |-> 0, logged |-> {}, applied |-> {},
             promised |-> {}, damaged |-> FALSE, rootless |-> TRUE]
  /\ crashes = 0 /\ plan \in Plans

memory == <<queue, cl, rd, memtables, vs, pending, flags, bg, manual>>

(***************************************************************************)
(* DB::Open                                                                *)
(***************************************************************************)
(* NewDB closes the first manifest without a sync and makes CURRENT name it.*)
NewDB ==
  IF current # 0 THEN UNCHANGED <<manis, current, hist>>
  ELSE /\ manis' = With(manis, 1, [EmptyFile EXCEPT !.recs =
                     <<[add |-> {}, del |-> {}, log |-> 0, next |-> 2, seq |-> 0]>>])
       /\ current' = 1
       /\ hist' = [hist EXCEPT !.rootless = TRUE]

OpenBegin ==
  /\ up = "closed"
  /\ up' = "opening"
  /\ NewDB
  /\ rc' = [IdleRc EXCEPT !.stage = "read", !.reuse = plan.reuse]
  /\ UNCHANGED <<logs, tables, memory, crashes>>

OpenFail ==
  /\ up' = "closed"
  /\ ResetMemory

(* VersionSet::Recover decodes the edits of the manifest and applies them: *)
(* the files that an edit adds and no later one deletes, and the numbers   *)
(* of the last edit.                                                       *)
Replay(recs) ==
  [ver |-> UNION {recs[i].add \ UNION {recs[j].del : j \in (i + 1)..Len(recs)} : i \in DOMAIN recs},
   log |-> Last(recs).log, next |-> Last(recs).next, seq |-> Last(recs).seq]

NumbersOnDisk == DOMAIN logs \cup DOMAIN tables \cup DOMAIN manis

ManifestReadable ==
  /\ current \in DOMAIN manis
  /\ manis[current].recs # <<>> /\ manis[current].tear # 2

NothingMissing == FilesOf(Replay(manis[current].recs).ver) \subseteq NumbersOnDisk

(* ReuseManifest: the old manifest is appended to, or the next number is   *)
(* that of a new one.                                                      *)
ReuseManifest(d) == IF rc.reuse THEN current ELSE d.next

(* MarkFileNumberUsed *)
NextBehind(next, n) == Max({next, n + 1})

(* Recover: the manifest, the check for missing files, the logs to replay. *)
OpenRead ==
  /\ rc.stage = "read" /\ up = "opening"
  /\ IF ~ManifestReadable \/ ~NothingMissing THEN OpenFail
     ELSE LET d == Replay(manis[current].recs) IN
          /\ vs' = [ver |-> d.ver, log |-> d.log, next |-> d.next + 1,
                    mani |-> ReuseManifest(d), seq |-> d.seq, seek |-> FALSE]
          /\ rc' = [rc EXCEPT !.stage = "logs", !.save = ~rc.reuse,
                      !.todo = {n \in DOMAIN logs : n >= d.log}]
          /\ UNCHANGED <<up, queue, cl, rd, memtables, pending, flags, bg, manual>>
  /\ UNCHANGED <<disk, hist, crashes>>

(* Mutant: of a log only its last record is read.                          *)
LastRecordOf(n) == IF logs[n].recs = <<>> THEN {} ELSE Last(logs[n].recs)

(* The entries of the log's records.                                       *)
RecordsOf(n) == UNION Range(logs[n].recs)
MaxSeq(es, s) == Max({s} \cup {e[1] : e \in es})

(* RecoverLogFile: the records become a table of level 0, or the memtable  *)
(* when the last log is kept in use.                                       *)
RecoverLogFile ==
  /\ rc.stage = "logs" /\ rc.todo # {} /\ MayAllocate
  /\ LET n == Min(rc.todo)
         es == RecordsOf(n)
         kept == rc.reuse /\ rc.todo = {n}
         made == ~kept /\ es # {}
         used == NextBehind(vs.next + (IF made THEN 1 ELSE 0), n)
     IN \/ /\ vs' = [vs EXCEPT !.next = used, !.seq = MaxSeq(es, @)]
           /\ rc' = [rc EXCEPT !.todo = @ \ {n}, !.save = @ \/ made,
                       !.add = IF made THEN @ \cup {<<vs.next, 0>>} ELSE @]
           /\ tables' = IF made THEN With(tables, vs.next, es) ELSE tables
           /\ mem' = IF kept THEN n ELSE mem
           /\ mems' = IF kept THEN With(mems, n, es) ELSE mems
           /\ UNCHANGED <<up, queue, cl, rd, imm, pending, flags, bg, manual>>
        \/ /\ made /\ "table" \in plan.faults
           /\ OpenFail
           /\ UNCHANGED tables
  /\ UNCHANGED <<logs, manis, current, hist, crashes>>

(* Open: a new log and memtable unless the old ones were kept. *)
OpenLog ==
  /\ rc.stage = "logs" /\ rc.todo = {} /\ MayAllocate
  /\ rc' = [rc EXCEPT !.stage = IF rc.save THEN "apply" ELSE "clean"]
  /\ IF mem # 0 THEN UNCHANGED <<logs, mem, mems, vs>>
     ELSE /\ logs' = With(logs, vs.next, EmptyFile)
          /\ mems' = With(mems, vs.next, {})
          /\ mem' = vs.next
          /\ vs' = [vs EXCEPT !.next = @ + 1]
  /\ UNCHANGED <<tables, manis, current, up, queue, cl, rd, imm, pending, flags, bg, manual, hist, crashes>>

OpenEdit(base) == Edit(base \cup rc.add, {}, mem)

(* LogAndApply of the first edit: into a new manifest with a snapshot of   *)
(* the version, or behind the records of the old one.                      *)
OpenApply ==
  /\ rc.stage = "apply"
  /\ \/ /\ \E f \in IF rc.reuse THEN Appended(manis[vs.mani], OpenEdit({}))
                    ELSE Appended(EmptyFile, OpenEdit(vs.ver)) :
             /\ manis' = With(manis, vs.mani, SyncedFile(f))
             /\ hist' = [hist EXCEPT !.damaged = @ \/ f.tear = 2]
        /\ rc' = [rc EXCEPT !.stage = "current"]
        /\ UNCHANGED <<up, memory>>
     \/ /\ "manifest" \in plan.faults
        /\ IF rc.reuse
           THEN \E f \in AppendFailed(manis[vs.mani]) \cup Appended(manis[vs.mani], OpenEdit({})) :
                  /\ manis' = [manis EXCEPT ![vs.mani] = f]
                  /\ hist' = [hist EXCEPT !.damaged = @ \/ f.tear = 2]
           ELSE manis' = Kept(manis, DOMAIN manis \ {vs.mani}) /\ UNCHANGED hist
        /\ OpenFail
  /\ UNCHANGED <<logs, tables, current, crashes>>

OpenCurrent ==
  /\ rc.stage = "current"
  /\ current' = vs.mani
  /\ vs' = [vs EXCEPT !.ver = @ \cup rc.add, !.log = mem]
  /\ rc' = [rc EXCEPT !.stage = "clean"]
  /\ hist' = [hist EXCEPT !.rootless = FALSE]
  /\ UNCHANGED <<logs, tables, manis, up, queue, cl, rd, memtables, pending, flags, bg, manual, crashes>>

Recovered == mems[mem] \cup TableEntries(vs.ver)
IdsOf(es) == {e[2] : e \in es}

(* The groups of the log that is kept in use belong to the new life of the *)
(* database, whose groups go behind them.                                  *)
Continued(g) == IF g.ids \subseteq IdsOf(mems[mem]) THEN [g EXCEPT !.life = hist.life + 1] ELSE g
Remembered == {Continued(g) : g \in {h \in hist.logged : h.ids \subseteq IdsOf(Recovered)}}

OpenDone ==
  /\ rc.stage = "clean"
  /\ DeleteObsoleteFiles(tables, vs, pending, {}, err)
  /\ sched' = Schedules(imm, manual, vs, err)
  /\ up' = "open" /\ rc' = IdleRc
  /\ hist' = [hist EXCEPT !.applied = Recovered, !.life = @ + 1, !.logged = Remembered]
  /\ UNCHANGED <<current, queue, cl, rd, memtables, vs, pending, err, shut, bg, manual, crashes>>

(***************************************************************************)
(* RepairDB and DestroyDB, on a database that is not open                  *)
(***************************************************************************)
RepairBegin ==
  /\ plan.repairs /\ up = "closed" /\ NumbersOnDisk # {}
  /\ up' = "repairing"
  /\ rc' = [IdleRc EXCEPT !.stage = "convert", !.todo = DOMAIN logs,
              !.next = Max({1} \cup {n + 1 : n \in DOMAIN logs \cup DOMAIN tables})]
  /\ UNCHANGED <<disk, memory, hist, crashes>>

(* ArchiveFile moves a file to lost/, where nothing looks for it. *)
Archived(f, n) == Kept(f, DOMAIN f \ {n})

(* ConvertLogToTable, the logs in the order the directory lists them; the  *)
(* log goes to lost/ even when that failed.                                *)
ConvertLogToTable ==
  /\ rc.stage = "convert"
  /\ \E n \in rc.todo :
       /\ \/ /\ tables' = IF RecordsOf(n) = {} THEN tables ELSE With(tables, rc.next, RecordsOf(n))
             /\ UNCHANGED hist
          \/ /\ "table" \in plan.faults /\ RecordsOf(n) # {}
             /\ hist' = [hist EXCEPT !.damaged = TRUE]
             /\ UNCHANGED tables
       /\ logs' = Archived(logs, n)
       /\ rc' = [rc EXCEPT !.todo = @ \ {n}, !.next = @ + 1]
  /\ UNCHANGED <<manis, current, up, memory, crashes>>

(* ExtractMetaData drops the tables it cannot read; WriteDescriptor puts   *)
(* the others in level 0 of manifest 1, which it does not sync, and moves  *)
(* the old manifests away.                                                 *)
ReadableTables == {n \in DOMAIN tables : tables[n] # Garbage}

WriteDescriptor ==
  /\ rc.stage = "convert" /\ rc.todo = {}
  /\ tables' = Kept(tables, ReadableTables)
  /\ manis' = With(NoFiles, 1, [EmptyFile EXCEPT !.recs =
                <<[add |-> {<<n, 0>> : n \in ReadableTables}, del |-> {}, log |-> 0,
                   next |-> rc.next, seq |-> MaxSeq(UNION {tables[n] : n \in ReadableTables}, 0)]>>])
  /\ rc' = [rc EXCEPT !.stage = "point"]
  /\ hist' = [hist EXCEPT !.rootless = TRUE]
  /\ UNCHANGED <<logs, current, up, memory, crashes>>

RepairDone ==
  /\ rc.stage = "point"
  /\ current' = 1 /\ up' = "closed" /\ rc' = IdleRc
  /\ UNCHANGED <<logs, tables, manis, memory, hist, crashes>>

DestroyDB ==
  /\ plan.repairs /\ up = "closed" /\ NumbersOnDisk # {}
  /\ logs' = NoFiles /\ tables' = [n \in {} |-> {}] /\ manis' = NoFiles /\ current' = 0
  /\ hist' = [hist EXCEPT !.logged = {}, !.applied = {}, !.promised = {}, !.rootless = TRUE]
  /\ UNCHANGED <<up, memory, rc, crashes>>

(***************************************************************************)
(* Crashes                                                                 *)
(***************************************************************************)
Survivors(f) ==
  {f} \cup UNION {{[f EXCEPT !.recs = SubSeq(@, 1, n), !.tear = Max({@, t})] : t \in {0, 1}}
                    : n \in f.synced..(Len(f.recs) - 1)}

(* The number of a table that was being written when the machine stopped.  *)
Unfinished ==
  IF up = "opening" /\ rc.stage = "logs" /\ rc.todo # {} THEN {vs.next}
  ELSE {bg.num, bg.comp.out} \ ({0} \cup DOMAIN tables)

Crash ==
  /\ up # "closed" /\ crashes < plan.crashes
  /\ crashes' = crashes + 1
  /\ logs' \in [DOMAIN logs -> UNION {Survivors(logs[n]) : n \in DOMAIN logs}]
  /\ \A n \in DOMAIN logs : logs'[n] \in Survivors(logs[n])
  /\ manis' \in [DOMAIN manis -> UNION {Survivors(manis[n]) : n \in DOMAIN manis}]
  /\ \A n \in DOMAIN manis : manis'[n] \in Survivors(manis[n])
  /\ \E part \in SUBSET Unfinished :
       tables' = [n \in DOMAIN tables \cup part |-> IF n \in DOMAIN tables THEN tables[n] ELSE Garbage]
  /\ hist' = [hist EXCEPT !.damaged = @ \/ up = "repairing"]
  /\ up' = "closed" /\ ResetMemory
  /\ UNCHANGED current

(* The destructor has waited for the background thread. *)
CloseDone ==
  /\ up = "closing" /\ ~sched
  /\ up' = "closed" /\ ResetMemory
  /\ UNCHANGED <<disk, hist, crashes>>

(* The process dies of a null pointer: the machine keeps what was written, *)
(* and a part of the record that a writer was about to append.             *)
Segfault ==
  /\ bg = FallenBg
  /\ \/ UNCHANGED logs
     \/ /\ \E c \in Writers : cl[c].pc = "append"
        /\ \E f \in AppendFailed(logs[mem]) : logs' = [logs EXCEPT ![mem] = f]
  /\ up' = "closed" /\ ResetMemory
  /\ UNCHANGED <<tables, manis, current, hist, crashes>>

(* The dying thread holds the mutex; nothing else goes on.                 *)
Running == bg # FallenBg /\ UNCHANGED <<rc, crashes, plan>>

OpenStep ==
  \/ OpenRead \/ RecoverLogFile \/ OpenLog \/ OpenApply \/ OpenCurrent \/ OpenDone

Step ==
  \/ \E c \in Writers : (Write(c) \/ CompactRange(c) \/ WriterStep(c)) /\ Running
  \/ \E r \in Readers : (GetBegin(r) \/ ReaderStep(r)) /\ Running
  \/ BackgroundStep /\ Running
  \/ Close /\ crashes < plan.crashes /\ rc' = rc /\ crashes' = crashes + 1
  \/ CloseDone \/ OpenBegin \/ OpenStep
  \/ RepairBegin \/ ConvertLogToTable \/ WriteDescriptor \/ RepairDone \/ DestroyDB
  \/ Crash \/ Segfault

Next == Step /\ plan' = plan

(* The scheduler runs every thread that can run; nobody has to call.       *)
Fairness ==
  /\ \A c \in Writers : WF_openVars(WriterStep(c) /\ Running)
  /\ \A r \in Readers : WF_openVars(ReaderStep(r) /\ Running)
  /\ WF_openVars(BackgroundStep /\ Running)
  /\ WF_openVars(OpenStep /\ plan' = plan)

Spec == Init /\ [][Next]_openVars /\ Fairness

-----------------------------------------------------------------------------
(* The types of the database's state, on disk and in memory. *)
TypeOK ==
  /\ \A n \in DOMAIN logs : n \in Nat /\ logs[n].tear \in 0..2
                            /\ logs[n].synced \in 0..Len(logs[n].recs)
  /\ \A n \in DOMAIN tables : n \in Nat /\ tables[n] # {}
  /\ \A n \in DOMAIN manis : n \in Nat /\ manis[n].synced \in 0..Len(manis[n].recs)
  /\ current \in Nat
  /\ up \in {"closed", "opening", "repairing", "open", "closing"}
  /\ Range(queue) \subseteq Writers /\ IsInjective(queue)
  /\ {mem, imm} \subseteq {0} \cup DOMAIN mems
  /\ vs.ver \subseteq Nat \X {0, 1}
  /\ pending \subseteq Nat /\ {err, sched, shut} \subseteq BOOLEAN
  /\ manual \in Writers \cup {NoClient}

Contents == (UNION {mems[n] : n \in {mem, imm} \ {0}}) \cup TableEntries(vs.ver)

(* A Get finds exactly the writes below the sequence number it took at its *)
(* start, however the memtable is switched and flushed, files are compacted*)
(* and deleted, and later groups are inserted while it searches.           *)
ReadsItsSnapshot ==
  \A r \in Readers : rd[r].pc = "found" =>
    rd[r].found = {e \in hist.applied : e[1] <= rd[r].snap}

(* A write that returned OK with options.sync ("has similar crash          *)
(* semantics to a write() system call followed by fsync()",                *)
(* include/leveldb/options.h:180) is in the database after any number of   *)
(* crashes, flushes, compactions, failed file operations and repairs,      *)
(* unless a record was appended behind the bytes of an incomplete one or a *)
(* repair was cut short.  It takes manifests that are not reused, or whose *)
(* syncs do not fail.                                                      *)
PromisesKept ==
  up \in {"open", "closing"} /\ ~hist.damaged => hist.promised \subseteq IdsOf(Contents)

(* Open finds a readable manifest and every table it names, whatever the   *)
(* crash interrupted and whatever DeleteObsoleteFiles removed, once one    *)
(* Open got as far as syncing a manifest of its own.                       *)
OpenFindsFiles ==
  rc.stage = "read" /\ ~hist.damaged /\ ~hist.rootless =>
    /\ ManifestReadable
    /\ FilesOf(Replay(manis[current].recs).ver) \subseteq ReadableTables

(* Two groups of one log of one life of the database.                      *)
SameLog(g, h) == g.life = h.life /\ g.log = h.log

(* A group of writes is recovered whole or not at all, and with a group    *)
(* every earlier group of the same log.                                    *)
PrefixRecovered ==
  [][up # "open" /\ up' = "open" /\ ~hist.damaged =>
       \A g, h \in hist.logged :
         SameLog(g, h) /\ h.first <= g.first /\ g.ids \cap IdsOf(Recovered) # {} =>
           h.ids \subseteq IdsOf(Recovered)]_openVars

(* No compaction has followed manual_compaction_ after its client cleared  *)
(* it ("Cancel my manual compaction since we aborted early for some        *)
(* reason", db_impl.cc:619), as one does when a flush in mid-compaction or *)
(* a writer's failed sync sets the error.  This is not a property: it is   *)
(* what CallsReturn supposes.                                              *)
NothingFalls == bg # FallenBg

(* Every Write and every CompactRange returns, with an error if need be:   *)
(* no thread waits for a signal that never comes, unless the process falls *)
(* with them.                                                              *)
CallsReturn ==
  \A c \in Writers : cl[c].pc # "idle" ~> (cl[c].pc = "idle" \/ ~NothingFalls \/ ~MayAllocate)

(* The files are in order: of the right shape at any time, and what an     *)
(* Open needs whenever one comes.                                          *)
FilesOK == TypeOK /\ OpenFindsFiles
=============================================================================
