------------------------------- MODULE DBImpl -------------------------------
(***************************************************************************)
(* A running LevelDB database (db/db_impl.cc): the queue of writers and    *)
(* the group commit, the write-ahead log, the memtable switch, the flush   *)
(* and the compactions of the background thread, the manifest, the files   *)
(* and their deletion, and readers that work without the mutex.            *)
(*                                                                         *)
(* One action is one stretch of code between two points where mutex_ is    *)
(* released, or one file operation done while it is released.  Every write *)
(* goes to a key of its own, so that what a read must find is the set of   *)
(* the writes below its snapshot; keys that are written twice are the      *)
(* subject of VersionSet.  Opening, repairing and crashing are in DBOpen.  *)
(***************************************************************************)
EXTENDS Naturals, Sequences, FiniteSets, SequencesExt, FiniteSetsExt

CONSTANTS
  Writers,     \* the threads that call Write and CompactRange
  Readers,     \* the threads that call Get
  GroupLimit,  \* max_size of a group, in entries
  L0Trigger, L0Slow, L0Stop,   \* config::kL0_...
  MaxFile,     \* bound on the file numbers
  Plans        \* workloads: what the callers do and which operations fail

ASSUME LimitAssumption ==
  /\ GroupLimit \in Nat \ {0}
  /\ L0Trigger \in Nat \ {0} /\ L0Slow >= L0Trigger /\ L0Stop >= L0Slow
  /\ MaxFile \in Nat
  /\ \A p \in Plans :
       /\ p.faults \subseteq {"append", "sync", "table", "manifest", "newlog"}
       /\ {p.buffer, p.writes, p.compacts, p.reads, p.crashes} \subseteq Nat
       /\ p.putters \subseteq Writers /\ p.syncs \subseteq BOOLEAN
       /\ {p.reuse, p.repairs} \subseteq BOOLEAN

VARIABLES
  logs,      \* log number -> log file
  tables,    \* table number -> its entries, or Garbage
  manis,     \* manifest number -> manifest file
  current,   \* the manifest CURRENT names, 0 without the file
  up,        \* "closed", "opening", "repairing", "open" or "closing"
  queue,     \* writers_
  cl,        \* what each writer thread is doing
  rd,        \* what each reader thread is doing
  mem, imm,  \* mem_ and imm_, named by the number of their log; 0 for none
  mems,      \* log number -> the entries of its memtable
  vs,        \* the VersionSet
  pending,   \* pending_outputs_
  err, sched, shut,  \* bg_error_, background_compaction_scheduled_, shutting_down_
  bg,        \* what the background thread is doing
  manual,    \* manual_compaction_, named by the thread that owns it
  plan,      \* the workload of this behaviour, one of Plans
  hist       \* history: calls made, groups logged, ids promised, damage

disk == <<logs, tables, manis, current>>
memtables == <<mem, imm, mems>>
flags == <<err, sched, shut>>
vars == <<disk, up, queue, cl, rd, memtables, vs, pending, flags, bg, manual, plan, hist>>

NoClient == "none"
Garbage == {<<0, 0>>}       \* the bytes of a table that was never finished
EmptyFile == [recs |-> <<>>, synced |-> 0, tear |-> 0]

IdleCl == [pc |-> "idle", sync |-> FALSE, id |-> 0, st |-> "none",
           n |-> 1, slept |-> FALSE, man |-> FALSE]
IdleRd == [pc |-> "idle", snap |-> 0, mem |-> 0, imm |-> 0, ver |-> {}, found |-> {}]
NoComp == [inputs |-> {}, out |-> 0, man |-> FALSE]
IdleBg == [pc |-> "none", num |-> 0, kind |-> "none",
           edit |-> [add |-> {}, del |-> {}, log |-> 0, next |-> 0, seq |-> 0], comp |-> NoComp]
FallenBg == [IdleBg EXCEPT !.pc = "segfault"]

(***************************************************************************)
(* Files.  A log or a manifest is the sequence of its complete records, of *)
(* which the first `synced` survive a crash of the machine.  `tear` says   *)
(* whether bytes of an incomplete record are at its end (1) or have had    *)
(* records appended behind them (2): those the reader may or may not find. *)
(***************************************************************************)
Appended(f, rec) ==
  IF f.tear = 0 THEN {[f EXCEPT !.recs = Append(@, rec)]}
  ELSE {[f EXCEPT !.tear = 2], [f EXCEPT !.tear = 2, !.recs = Append(@, rec)]}

SyncedFile(f) == [f EXCEPT !.synced = Len(f.recs)]

(* A failed append leaves nothing or a part of the record. *)
AppendFailed(f) == {f, [f EXCEPT !.tear = Max({@, 1})]}

(* File or memtable n becomes x. *)
With(f, n, x) == [m \in DOMAIN f \cup {n} |-> IF m = n THEN x ELSE f[m]]

FilesOf(v) == {f[1] : f \in v}
LevelFiles(v, l) == {f[1] : f \in {g \in v : g[2] = l}}
NumLevelFiles(l) == Cardinality(LevelFiles(vs.ver, l))
TableEntries(v) == UNION {tables[n] : n \in FilesOf(v) \cap DOMAIN tables}

(***************************************************************************)
(* Scheduling and wake-ups                                                 *)
(***************************************************************************)
NeedsCompaction(v) == Cardinality(LevelFiles(v.ver, 0)) >= L0Trigger \/ v.seek

(* MaybeScheduleCompaction, of the state the caller leaves. *)
Schedules(im, man, v, e) ==
  ~shut /\ ~e /\ (im # 0 \/ man # NoClient \/ NeedsCompaction(v))

(* A VersionEdit as LogAndApply writes it: with the log, the next file     *)
(* number and the sequence number of the version set.                      *)
Edit(add, del, log) ==
  [add |-> add, del |-> del, log |-> log, next |-> vs.next, seq |-> vs.seq]

(* background_work_finished_signal_.SignalAll *)
SignalAll(f) ==
  [c \in Writers |->
     CASE f[c].pc = "roomwait" -> [f[c] EXCEPT !.pc = "head"]
       [] f[c].pc = "flushwait" -> [f[c] EXCEPT !.pc = "flushing"]
       [] f[c].pc = "manwait" -> [f[c] EXCEPT !.pc = "manual"]
       [] OTHER -> f[c]]

(* The end of Write: the group leaves the queue with its status, and the   *)
(* next writer is woken.                                                   *)
PopGroup(f, n, st) ==
  LET group == {queue[i] : i \in 1..n}
      next == IF Len(queue) > n THEN {queue[n + 1]} ELSE {}
  IN [c \in Writers |->
        CASE c \in group -> [f[c] EXCEPT !.pc = "return", !.st = st]
          [] c \in next -> [f[c] EXCEPT !.pc = "head"]
          [] OTHER -> f[c]]

(***************************************************************************)
(* Write                                                                   *)
(***************************************************************************)
(* Enter the queue; only the thread at its front goes on. *)
Enqueue(c, sync, id, man) ==
  /\ up = "open" /\ cl[c].pc = "idle"
  /\ queue' = Append(queue, c)
  /\ cl' = [cl EXCEPT ![c] = [IdleCl EXCEPT !.pc = IF queue = <<>> THEN "head" ELSE "queued",
                              !.sync = sync, !.id = id, !.man = man]]
  /\ hist' = IF man THEN [hist EXCEPT !.compacts = @ + 1] ELSE [hist EXCEPT !.next = @ + 1]
  /\ UNCHANGED <<disk, up, rd, memtables, vs, pending, flags, bg, manual>>

Write(c) ==
  /\ c \in plan.putters /\ hist.next <= plan.writes
  /\ \E sync \in plan.syncs : Enqueue(c, sync, hist.next, FALSE)

(* CompactRange first sends an empty batch through the queue. *)
CompactRange(c) == hist.compacts < plan.compacts /\ Enqueue(c, FALSE, 0, TRUE)

(* Mutant: a write that asked for a sync joins a group that does not sync. *)
BuildBatchGroupMixed(c) ==
  Max({n \in 1..Len(queue) : Cardinality({i \in 1..n : cl[queue[i]].id # 0}) <= GroupLimit})

(* How many writers from the front of the queue share one log record.      *)
BuildBatchGroup(c) ==
  LET Allowed(n) ==
        /\ \A i \in 2..n : cl[queue[i]].sync => cl[c].sync
        /\ \A m \in 2..n : Cardinality({i \in 1..m : cl[queue[i]].id # 0}) <= GroupLimit
  IN Max({n \in 1..Len(queue) : Allowed(n)})

(* The first n writers of the queue that bring a batch, and their writes.  *)
Batches(n) == {i \in 1..n : cl[queue[i]].id # 0}
GroupIds(n) == {cl[queue[i]].id : i \in Batches(n)}

(* The head goes on to the log, or returns when its batch is empty. *)
HasRoom(c, f) ==
  IF cl[c].id = 0
  THEN /\ queue' = SubSeq(queue, 2, Len(queue))
       /\ cl' = PopGroup(f, 1, "ok")
  ELSE /\ cl' = [f EXCEPT ![c].pc = "append", ![c].n = BuildBatchGroup(c)]
       /\ UNCHANGED queue

AtHead(c) == cl[c].pc = "head"
Forced(c) == cl[c].id = 0
(* write_buffer_size, in entries, is part of the workload. *)
Full == Cardinality(mems[mem]) >= plan.buffer
MayDelay(c) == ~Forced(c) /\ ~cl[c].slept /\ NumLevelFiles(0) >= L0Slow

(* MakeRoomForWrite, one action per branch of its loop. *)
RoomError(c) ==
  /\ AtHead(c) /\ err
  /\ queue' = SubSeq(queue, 2, Len(queue))
  /\ cl' = PopGroup(cl, 1, "err")
  /\ UNCHANGED <<disk, up, rd, memtables, vs, pending, flags, bg, manual, hist>>

RoomDelay(c) ==
  /\ AtHead(c) /\ ~err /\ MayDelay(c)
  /\ cl' = [cl EXCEPT ![c].slept = TRUE]
  /\ UNCHANGED <<disk, up, queue, rd, memtables, vs, pending, flags, bg, manual, hist>>

RoomReady(c) ==
  /\ AtHead(c) /\ ~err /\ ~MayDelay(c) /\ ~Forced(c) /\ ~Full
  /\ HasRoom(c, cl)
  /\ UNCHANGED <<disk, up, rd, memtables, vs, pending, flags, bg, manual, hist>>

RoomWait(c) ==
  /\ AtHead(c) /\ ~err /\ ~MayDelay(c) /\ (Forced(c) \/ Full)
  /\ imm # 0 \/ NumLevelFiles(0) >= L0Stop
  /\ cl' = [cl EXCEPT ![c].pc = "roomwait"]
  /\ UNCHANGED <<disk, up, queue, rd, memtables, vs, pending, flags, bg, manual, hist>>

MayAllocate == vs.next <= MaxFile

RoomSwitch(c) ==
  /\ AtHead(c) /\ ~err /\ ~MayDelay(c) /\ (Forced(c) \/ Full)
  /\ imm = 0 /\ NumLevelFiles(0) < L0Stop /\ MayAllocate
  /\ logs' = With(logs, vs.next, EmptyFile)
  /\ mems' = With(mems, vs.next, {})
  /\ imm' = mem /\ mem' = vs.next
  /\ vs' = [vs EXCEPT !.next = @ + 1]
  /\ sched' = (sched \/ Schedules(imm', manual, vs', err))
  /\ HasRoom(c, cl)
  /\ UNCHANGED <<tables, manis, current, up, rd, pending, err, shut, bg, manual, hist>>

RoomNoLog(c) ==
  /\ AtHead(c) /\ ~err /\ ~MayDelay(c) /\ (Forced(c) \/ Full)
  /\ imm = 0 /\ NumLevelFiles(0) < L0Stop
  /\ "newlog" \in plan.faults
  /\ queue' = SubSeq(queue, 2, Len(queue))
  /\ cl' = PopGroup(cl, 1, "err")
  /\ UNCHANGED <<disk, up, rd, memtables, vs, pending, flags, bg, manual, hist>>

MakeRoomForWrite(c) ==
  \/ RoomError(c) \/ RoomDelay(c) \/ RoomReady(c)
  \/ RoomWait(c) \/ RoomSwitch(c) \/ RoomNoLog(c)

(* The entries of the group: its writes, numbered in the queue's order.    *)
Entries(n) == {<<vs.seq + Cardinality(Batches(i)), cl[queue[i]].id>> : i \in Batches(n)}

(* What the history keeps of a group that was logged.                      *)
Group(c) == [life |-> hist.life, log |-> mem, first |-> cl[c].id, ids |-> GroupIds(cl[c].n)]

(* Without the mutex: append the group as one record, ...                  *)
WriteLog(c) ==
  /\ cl[c].pc = "append"
  /\ \/ \E f \in Appended(logs[mem], Entries(cl[c].n)) :
          /\ logs' = [logs EXCEPT ![mem] = f]
          /\ cl' = [cl EXCEPT ![c].pc = IF cl[c].sync THEN "sync" ELSE "insert"]
          /\ hist' = [hist EXCEPT !.logged = @ \cup {Group(c)}, !.damaged = @ \/ f.tear = 2]
     \/ /\ "append" \in plan.faults
        /\ \E f \in AppendFailed(logs[mem]) : logs' = [logs EXCEPT ![mem] = f]
        /\ cl' = [cl EXCEPT ![c].pc = "finish", ![c].st = "err"]
        /\ UNCHANGED hist
  /\ UNCHANGED <<tables, manis, current, up, queue, rd, memtables, vs, pending, flags, bg, manual>>

(* ... sync it when the front of the group asked for that, ...             *)
WriteSync(c) ==
  /\ cl[c].pc = "sync"
  /\ \/ /\ logs' = [logs EXCEPT ![mem] = SyncedFile(@)]
        /\ cl' = [cl EXCEPT ![c].pc = "insert"]
     \/ /\ "sync" \in plan.faults
        /\ cl' = [cl EXCEPT ![c].pc = "finish", ![c].st = "syncerr"]
        /\ UNCHANGED logs
  /\ UNCHANGED <<tables, manis, current, up, queue, rd, memtables, vs, pending, flags, bg, manual, hist>>

(* ... and insert it into the memtable, where readers see it at once.      *)
WriteInsert(c) ==
  /\ cl[c].pc = "insert"
  /\ mems' = [mems EXCEPT ![mem] = @ \cup Entries(cl[c].n)]
  /\ cl' = [cl EXCEPT ![c].pc = "finish", ![c].st = "ok"]
  /\ hist' = [hist EXCEPT !.applied = @ \cup Entries(cl[c].n)]
  /\ UNCHANGED <<disk, up, queue, rd, mem, imm, vs, pending, flags, bg, manual>>

(* With the mutex again: the sequence number moves past the group whatever *)
(* its status, and the group returns.  A failed sync stops all writes.     *)
WriteFinish(c) ==
  /\ cl[c].pc = "finish"
  /\ LET n == cl[c].n
         failed == cl[c].st = "syncerr"
         done == PopGroup(cl, n, IF cl[c].st = "ok" THEN "ok" ELSE "err")
     IN /\ vs' = [vs EXCEPT !.seq = @ + Cardinality(Batches(n))]
        /\ queue' = SubSeq(queue, n + 1, Len(queue))
        /\ err' = (err \/ failed)
        /\ cl' = IF failed /\ ~err THEN SignalAll(done) ELSE done
  /\ UNCHANGED <<disk, up, rd, memtables, pending, sched, shut, bg, manual, hist>>

(* Write returns.  The empty batch of a CompactRange is followed by the    *)
(* rest of TEST_CompactMemTable.                                           *)
WriteReturn(c) ==
  /\ cl[c].pc = "return"
  /\ cl' = [cl EXCEPT ![c] =
              IF cl[c].man THEN [IdleCl EXCEPT !.pc = IF cl[c].st = "ok" THEN "flushing" ELSE "manual"]
              ELSE IdleCl]
  /\ hist' = [hist EXCEPT !.promised =
                IF cl[c].sync /\ cl[c].st = "ok" THEN @ \cup {cl[c].id} ELSE @]
  /\ UNCHANGED <<disk, up, queue, rd, memtables, vs, pending, flags, bg, manual>>

(* TEST_CompactMemTable waits until the background thread took imm_. *)
AwaitFlush(c) ==
  /\ cl[c].pc = "flushing"
  /\ cl' = [cl EXCEPT ![c].pc = IF imm # 0 /\ ~err THEN "flushwait" ELSE "manual"]
  /\ UNCHANGED <<disk, up, queue, rd, memtables, vs, pending, flags, bg, manual, hist>>

(* TEST_CompactRange: one turn of its loop, and its end. *)
ManualTurn(c) ==
  /\ cl[c].pc = "manual"
  /\ IF cl[c].st = "done" \/ shut \/ err
     THEN /\ cl' = [cl EXCEPT ![c] = IdleCl]
          /\ manual' = IF manual = c THEN NoClient ELSE manual
          /\ UNCHANGED sched
     ELSE /\ cl' = [cl EXCEPT ![c].pc = "manwait"]
          /\ manual' = IF manual = NoClient THEN c ELSE manual
          /\ sched' = (sched \/ (manual = NoClient /\ Schedules(imm, c, vs, err)))
  /\ UNCHANGED <<disk, up, queue, rd, memtables, vs, pending, err, shut, bg, hist>>

(***************************************************************************)
(* Get: references under the mutex, a search without it                    *)
(***************************************************************************)
GetBegin(r) ==
  /\ up = "open" /\ rd[r].pc = "idle" /\ hist.reads < plan.reads
  /\ rd' = [rd EXCEPT ![r] = [pc |-> "mem", snap |-> vs.seq, mem |-> mem, imm |-> imm,
                              ver |-> vs.ver, found |-> {}]]
  /\ hist' = [hist EXCEPT !.reads = @ + 1]
  /\ UNCHANGED <<disk, up, queue, cl, memtables, vs, pending, flags, bg, manual>>

Visible(es, r) == {e \in es : e[1] <= rd[r].snap}

GetMem(r) ==
  /\ rd[r].pc = "mem"
  /\ rd' = [rd EXCEPT ![r].pc = "tables",
              ![r].found = Visible(UNION {mems[n] : n \in {rd[r].mem, rd[r].imm} \ {0}}, r)]
  /\ UNCHANGED <<disk, up, queue, cl, memtables, vs, pending, flags, bg, manual, hist>>

GetTables(r) ==
  /\ rd[r].pc = "tables"
  /\ rd' = [rd EXCEPT ![r].pc = "found", ![r].found = @ \cup Visible(TableEntries(rd[r].ver), r)]
  /\ UNCHANGED <<disk, up, queue, cl, memtables, vs, pending, flags, bg, manual, hist>>

(* The end of Get: UpdateStats may find that a file was sought too often.  *)
GetEnd(r) ==
  /\ rd[r].pc = "found"
  /\ \E hot \in BOOLEAN :
       vs' = [vs EXCEPT !.seek = @ \/ (hot /\ rd[r].ver = vs.ver /\ NumLevelFiles(0) > 0)]
  /\ sched' = (sched \/ (vs'.seek /\ Schedules(imm, manual, vs', err)))
  /\ rd' = [rd EXCEPT ![r] = IdleRd]
  /\ UNCHANGED <<disk, up, queue, cl, memtables, pending, err, shut, bg, manual, hist>>

(***************************************************************************)
(* The background thread                                                   *)
(***************************************************************************)
(* Mutant: only the current version's files are live.                      *)
LiveFilesOfCurrent(v, pend, inputs) == pend \cup inputs \cup FilesOf(v.ver)

(* The files of every version that is still referenced, and pending ones.  *)
LiveFiles(v, pend, inputs) ==
  pend \cup inputs \cup FilesOf(v.ver) \cup UNION {FilesOf(rd[r].ver) : r \in Readers}

Kept(f, keep) == [n \in DOMAIN f \cap keep |-> f[n]]

(* Mutant: files are deleted after a background error, too.                *)
DeleteAnyway(tb, v, pend, inputs, e) ==
  /\ tables' = Kept(tb, LiveFiles(v, pend, inputs))
  /\ logs' = Kept(logs, {n \in DOMAIN logs : n >= v.log})
  /\ manis' = Kept(manis, {n \in DOMAIN manis : n >= v.mani})

(* Remove what version set v does not need, tb being the tables on disk.   *)
DeleteObsoleteFiles(tb, v, pend, inputs, e) ==
  IF e THEN tables' = tb /\ UNCHANGED <<logs, manis>>
  ELSE /\ tables' = Kept(tb, LiveFiles(v, pend, inputs))
       /\ logs' = Kept(logs, {n \in DOMAIN logs : n >= v.log})
       /\ manis' = Kept(manis, {n \in DOMAIN manis : n >= v.mani})

(* Mutant: the waiting threads are not woken.                              *)
BgEndSilent(im, man, v, e, f) ==
  /\ bg' = IdleBg
  /\ sched' = Schedules(im, man, v, e)
  /\ cl' = f

(* The end of BackgroundCall. *)
BgEnd(im, man, v, e, f) ==
  /\ bg' = IdleBg
  /\ sched' = Schedules(im, man, v, e)
  /\ cl' = SignalAll(f)

(* What the client that asked for the manual compaction is told. *)
ManualServed(f) == [f EXCEPT ![manual].st = "done"]

(* The end of a compaction: a manual one follows manual_compaction_ again, *)
(* which its client may have cleared after an error while the mutex was    *)
(* free; then the process dies of a null pointer, holding the mutex.       *)
CompactEnd(v, e, failed) ==
  IF bg.comp.man /\ manual = NoClient
  THEN /\ bg' = FallenBg
       /\ UNCHANGED <<cl, sched, manual>>
  ELSE /\ manual' = IF bg.comp.man THEN NoClient ELSE manual
       /\ BgEnd(imm, manual', v, e, IF bg.comp.man /\ failed THEN ManualServed(cl) ELSE cl)

BeginFlush(comp) ==
  /\ MayAllocate
  /\ vs' = [vs EXCEPT !.next = @ + 1]
  /\ pending' = pending \cup {vs.next}
  /\ bg' = [IdleBg EXCEPT !.pc = "build", !.num = vs.next, !.comp = comp]

BackgroundStop ==
  /\ sched /\ bg.pc = "none" /\ (shut \/ err)
  /\ BgEnd(imm, manual, vs, err, cl)
  /\ UNCHANGED <<disk, up, queue, rd, memtables, vs, pending, err, shut, manual, hist>>

BackgroundFlush ==
  /\ sched /\ bg.pc = "none" /\ ~shut /\ ~err /\ imm # 0
  /\ BeginFlush(NoComp)
  /\ UNCHANGED <<disk, up, queue, cl, rd, memtables, flags, manual, hist>>

Compacting(inputs, man) ==
  /\ bg' = [IdleBg EXCEPT !.pc = "compact", !.comp = [inputs |-> inputs, out |-> 0, man |-> man]]
  /\ UNCHANGED <<disk, up, queue, cl, rd, memtables, vs, pending, flags, manual, hist>>

(* A manual compaction of level 0, or the answer that nothing is left. *)
BackgroundManual ==
  /\ sched /\ bg.pc = "none" /\ ~shut /\ ~err /\ imm = 0 /\ manual # NoClient
  /\ IF NumLevelFiles(0) > 0
     THEN \E low \in SUBSET {f \in vs.ver : f[2] = 1} :
            Compacting({f \in vs.ver : f[2] = 0} \cup low, TRUE)
     ELSE /\ manual' = NoClient
          /\ BgEnd(imm, NoClient, vs, err, ManualServed(cl))
          /\ UNCHANGED <<disk, up, queue, rd, memtables, vs, pending, err, shut, hist>>

(* PickCompaction: files of level 0 and what they overlap in level 1; one  *)
(* file that overlaps nothing is moved.                                    *)
BackgroundPick ==
  /\ sched /\ bg.pc = "none" /\ ~shut /\ ~err /\ imm = 0 /\ manual = NoClient
  /\ IF ~NeedsCompaction(vs)
     THEN /\ BgEnd(imm, manual, vs, err, cl)
          /\ UNCHANGED <<disk, up, queue, rd, memtables, vs, pending, err, shut, manual, hist>>
     ELSE \E high \in (SUBSET {f \in vs.ver : f[2] = 0}) \ {{}},
             low \in SUBSET {f \in vs.ver : f[2] = 1} :
            IF Cardinality(high) = 1 /\ low = {}
            THEN /\ bg' = [IdleBg EXCEPT !.pc = "manifest", !.kind = "move",
                             !.edit = Edit({<<f[1], 1>> : f \in high}, high, vs.log)]
                 /\ UNCHANGED <<disk, up, queue, cl, rd, memtables, vs, pending, flags, manual, hist>>
            ELSE Compacting(high \cup low, FALSE)

(* A flush failed: the error stops further writes; a compaction it         *)
(* interrupted goes on.                                                    *)
FlushFailed ==
  /\ err' = TRUE
  /\ IF bg.comp = NoComp
     THEN BgEnd(imm, manual, vs, TRUE, cl)
     ELSE /\ bg' = [IdleBg EXCEPT !.pc = "compact", !.comp = bg.comp]
          /\ cl' = SignalAll(cl)
          /\ UNCHANGED sched

FlushEdit(files) ==
  [bg EXCEPT !.pc = "manifest", !.kind = "flush", !.edit = Edit(files, {}, mem)]

(* BuildTable makes no file of an empty memtable.                          *)
BuildTable(es) == IF es = {} THEN tables ELSE With(tables, bg.num, es)

(* BuildTable without the mutex, then the edit that LogAndApply will write.*)
WriteLevel0Table ==
  /\ bg.pc = "build"
  /\ pending' = pending \ {bg.num}
  /\ \/ /\ tables' = BuildTable(mems[imm])
        /\ IF shut THEN FlushFailed
           ELSE /\ \E level \in {0, 1} :
                     bg' = FlushEdit(IF mems[imm] = {} THEN {} ELSE {<<bg.num, level>>})
                /\ UNCHANGED <<cl, err, sched>>
     \/ /\ "table" \in plan.faults
        /\ FlushFailed
        /\ UNCHANGED tables
  /\ UNCHANGED <<logs, manis, current, up, queue, rd, memtables, vs, shut, manual, hist>>

(* LogAndApply without the mutex: the edit is appended to the manifest and *)
(* synced; when that fails the record may be there all the same.           *)
WriteManifest ==
  /\ bg.pc = "manifest"
  /\ \/ \E f \in Appended(manis[vs.mani], bg.edit) :
          /\ manis' = [manis EXCEPT ![vs.mani] = SyncedFile(f)]
          /\ bg' = [bg EXCEPT !.pc = "install"]
          /\ hist' = [hist EXCEPT !.damaged = @ \/ f.tear = 2]
     \/ /\ "manifest" \in plan.faults
        /\ \E f \in AppendFailed(manis[vs.mani]) \cup Appended(manis[vs.mani], bg.edit) :
             /\ manis' = [manis EXCEPT ![vs.mani] = f]
             /\ hist' = [hist EXCEPT !.damaged = @ \/ f.tear = 2]
        /\ bg' = [bg EXCEPT !.pc = "refused"]
  /\ UNCHANGED <<logs, tables, current, up, queue, cl, rd, memtables, vs, pending, flags, manual>>

Installed == [vs EXCEPT !.ver = (@ \ bg.edit.del) \cup bg.edit.add, !.log = bg.edit.log, !.seek = FALSE]

(* The rest of CompactMemTable. *)
FlushDone ==
  /\ bg.kind = "flush"
  /\ \/ /\ bg.pc = "install"
        /\ vs' = Installed /\ imm' = 0
        /\ DeleteObsoleteFiles(tables, Installed, pending, FilesOf(bg.comp.inputs), err)
        /\ IF bg.comp = NoComp
           THEN BgEnd(0, manual, Installed, err, cl)
           ELSE /\ bg' = [IdleBg EXCEPT !.pc = "compact", !.comp = bg.comp]
                /\ cl' = SignalAll(cl)
                /\ UNCHANGED sched
        /\ UNCHANGED err
     \/ /\ bg.pc = "refused"
        /\ FlushFailed
        /\ UNCHANGED <<logs, tables, manis, vs, imm>>
  /\ UNCHANGED <<current, up, queue, rd, mem, mems, pending, shut, manual, hist>>

MoveDone ==
  /\ bg.kind = "move"
  /\ \/ /\ bg.pc = "install"
        /\ vs' = Installed
        /\ BgEnd(imm, manual, Installed, err, cl)
        /\ UNCHANGED err
     \/ /\ bg.pc = "refused"
        /\ err' = TRUE
        /\ BgEnd(imm, manual, vs, TRUE, cl)
        /\ UNCHANGED vs
  /\ UNCHANGED <<disk, up, queue, rd, memtables, pending, shut, manual, hist>>

(* DoCompactionWork: a waiting memtable comes first, ...                   *)
CompactImm ==
  /\ bg.pc = "compact" /\ imm # 0 /\ ~shut
  /\ BeginFlush(bg.comp)
  /\ UNCHANGED <<disk, up, queue, cl, rd, memtables, flags, manual, hist>>

(* ... OpenCompactionOutputFile reserves the output's number, ...          *)
OpenCompactionOutputFile ==
  /\ bg.pc = "compact" /\ bg.comp.out = 0 /\ ~shut /\ MayAllocate
  /\ vs' = [vs EXCEPT !.next = @ + 1]
  /\ pending' = pending \cup {vs.next}
  /\ bg' = [bg EXCEPT !.comp.out = vs.next]
  /\ UNCHANGED <<disk, up, queue, cl, rd, memtables, flags, manual, hist>>

(* The clean-up after a compaction that installed nothing: the output file *)
(* stays on disk.                                                          *)
CompactFailed(tb) ==
  /\ err' = TRUE
  /\ pending' = pending \ {bg.comp.out}
  /\ DeleteObsoleteFiles(tb, vs, pending', {}, TRUE)
  /\ CompactEnd(vs, TRUE, TRUE)

(* ... FinishCompactionOutputFile syncs the output and the edit is made.   *)
FinishCompactionOutputFile ==
  /\ bg.pc = "compact" /\ bg.comp.out # 0 /\ ~shut
  /\ \/ /\ tables' = With(tables, bg.comp.out, TableEntries(bg.comp.inputs))
        /\ bg' = [bg EXCEPT !.pc = "manifest", !.kind = "compact",
                    !.edit = Edit({<<bg.comp.out, 1>>}, bg.comp.inputs, vs.log)]
        /\ UNCHANGED <<logs, manis, cl, err, sched, pending, manual>>
     \/ /\ "table" \in plan.faults
        /\ CompactFailed(With(tables, bg.comp.out, Garbage))
  /\ UNCHANGED <<current, up, queue, rd, memtables, vs, shut, hist>>

(* A shutdown stops the loop over the input. *)
CompactShutDown ==
  /\ bg.pc = "compact" /\ shut
  /\ CompactFailed(tables)
  /\ UNCHANGED <<current, up, queue, rd, memtables, vs, shut, hist>>

(* InstallCompactionResults returned; BackgroundCompaction cleans up. *)
CompactDone ==
  /\ bg.kind = "compact"
  /\ \/ /\ bg.pc = "install"
        /\ vs' = Installed
        /\ pending' = pending \ {bg.comp.out}
        /\ DeleteObsoleteFiles(tables, Installed, pending', {}, err)
        /\ CompactEnd(Installed, err, FALSE)
        /\ UNCHANGED err
     \/ /\ bg.pc = "refused"
        /\ CompactFailed(tables)
        /\ UNCHANGED vs
  /\ UNCHANGED <<current, up, queue, rd, memtables, shut, hist>>

(***************************************************************************)
(* ~DBImpl: no call may be in progress; the background work is waited for. *)
(***************************************************************************)
Close ==
  /\ up = "open" /\ bg # FallenBg
  /\ \A c \in Writers : cl[c].pc = "idle"
  /\ \A r \in Readers : rd[r].pc = "idle"
  /\ shut' = TRUE /\ up' = "closing"
  /\ UNCHANGED <<disk, queue, cl, rd, memtables, vs, pending, err, sched, bg, manual, hist>>

WriterStep(c) ==
  \/ MakeRoomForWrite(c) \/ WriteLog(c) \/ WriteSync(c) \/ WriteInsert(c)
  \/ WriteFinish(c) \/ WriteReturn(c) \/ AwaitFlush(c) \/ ManualTurn(c)

ReaderStep(r) == GetMem(r) \/ GetTables(r) \/ GetEnd(r)

BackgroundStep ==
  \/ BackgroundStop \/ BackgroundFlush \/ BackgroundManual \/ BackgroundPick
  \/ WriteLevel0Table \/ WriteManifest \/ FlushDone \/ MoveDone \/ CompactImm
  \/ OpenCompactionOutputFile \/ FinishCompactionOutputFile \/ CompactShutDown \/ CompactDone
=============================================================================
