----------------------------- MODULE TableCache -----------------------------
(***************************************************************************)
(* LevelDB's cache of open tables: TableCache (db/table_cache.cc) over one *)
(* shard of the LRU cache (util/cache.cc), and below it the read-only      *)
(* files of the POSIX environment, whose maps and descriptors are counted  *)
(* by the two limiters of util/env_posix.cc.                               *)
(*                                                                         *)
(* Readers look a table up, open it when it is not there, insert it, use   *)
(* it and release it.  Each call of the cache is one step, for it holds    *)
(* the shard's mutex; everything between two calls interleaves, so two     *)
(* readers may open the same table.  Limiter::Acquire is two atomic        *)
(* operations and may be seen half done.                                   *)
(*                                                                         *)
(* Files are the table numbers that hash to the shard, Capacity the        *)
(* shard's capacity: every entry has charge 1.                             *)
(***************************************************************************)
EXTENDS PosixEnv, SequencesExt

CONSTANTS Readers, Files, Capacity

ASSUME CapacityAssumption == Capacity \in Nat

(* The threads are finitely many, and there is a table to look for. *)
ASSUME ReadersAssumption == IsFiniteSet(Readers) /\ Files # {}

VARIABLES
  pc,        \* pc[t]: where reader t is in FindTable or after it
  file,      \* file[t]: the number it looks for
  kind,      \* kind[t]: how the environment gave it the file, before Insert
  handle,    \* handle[t]: the entry it holds once FindTable has returned
  entries,   \* the LRUHandles ever inserted
  table,     \* table[f]: the hash table: the entry of f, or 0
  lru,       \* lru_: the cached entries nobody uses, the oldest first
  usage,     \* usage_
  deleted,   \* the files that are gone
  mmaps,     \* mmap_limiter_.acquires_allowed_
  fds,       \* fd_limiter_.acquires_allowed_
  open       \* the cache exists

readerVars == <<pc, file, kind, handle>>
cacheVars == <<entries, table, lru, usage>>
fileVars == <<deleted, mmaps, fds>>
tableVars == <<readerVars, cacheVars, fileVars, open>>
vars == <<plan, lockVars, workVars, tableVars>>

Stages == {"idle", "missed", "undoMmap", "map", "fd", "undoFd", "opened", "using"}
Kinds == {"mmap", "fd", "reopen"}

At(t, stage) == pc' = [pc EXCEPT ![t] = stage]

----------------------------------------------------------------------------
(* The LRU cache.  The state of a shard is a record, so that the calls the  *)
(* code makes one after another under the mutex compose.                    *)

Shard == [entries |-> entries, table |-> table, lru |-> lru, usage |-> usage]

SetShard(s) ==
  /\ entries' = s.entries
  /\ table' = s.table
  /\ lru' = s.lru
  /\ usage' = s.usage

(* Mutant: an entry that is used again stays on the LRU list. *)
RefInPlace(s, e) == [s EXCEPT !.entries[e].refs = @ + 1]

(* HandleTable: the hash table maps a key to its entry, 0 for none. *)
Mapped(s, f, e) == [s EXCEPT !.table[f] = e]

(* LRU_Remove: an entry is unlinked from the list of the unused ones, if it  *)
(* is there.                                                                 *)
Unlinked(q, e) ==
  IF \E i \in DOMAIN q : q[i] = e THEN RemoveAt(q, CHOOSE i \in DOMAIN q : q[i] = e) ELSE q

(* Ref: an unused entry leaves the LRU list. *)
Ref(s, e) ==
  [s EXCEPT !.entries[e].refs = @ + 1, !.lru = Unlinked(@, e)]

(* Unref: the last reference but the cache's makes the entry the newest of   *)
(* the LRU list.  At no reference the deleter runs: see Freed.               *)
Unref(s, e) ==
  [s EXCEPT !.entries[e].refs = @ - 1,
            !.lru = IF s.entries[e].inCache /\ s.entries[e].refs = 2
                      THEN Append(@, e) ELSE @]

(* FinishErase of an entry that has just left the hash table. *)
FinishErase(s, e) ==
  IF e = 0 THEN s
  ELSE Unref([s EXCEPT !.entries[e].inCache = FALSE,
                       !.lru = Unlinked(@, e),
                       !.usage = @ - 1], e)

Erase(s, f) == FinishErase(Mapped(s, f, 0), s.table[f])

(* The loop of Insert: the oldest unused entries go while the shard is over  *)
(* its capacity.  Every charge is 1, so how many is known beforehand.        *)
Evicted(s) ==
  LET over == s.usage - Capacity
      n == IF over < 0 THEN 0 ELSE IF over > Len(s.lru) THEN Len(s.lru) ELSE over
      gone == {s.lru[i] : i \in 1..n}
  IN [entries |-> [e \in DOMAIN s.entries |->
                     IF e \in gone THEN [s.entries[e] EXCEPT !.refs = 0, !.inCache = FALSE]
                                   ELSE s.entries[e]],
      table |-> [f \in Files |-> IF s.table[f] \in gone THEN 0 ELSE s.table[f]],
      lru |-> SubSeq(s.lru, n + 1, Len(s.lru)),
      usage |-> s.usage - n]

(* Insert: the new entry replaces one of the same key; without a capacity    *)
(* nothing is cached and the caller's is the only reference.                 *)
Insert(s, f, k) ==
  LET e == Len(s.entries) + 1
      new == [file |-> f, kind |-> k,
              refs |-> IF Capacity > 0 THEN 2 ELSE 1, inCache |-> Capacity > 0]
      with == [s EXCEPT !.entries = Append(@, new)]
  IN Evicted(IF Capacity = 0 THEN with
             ELSE FinishErase([Mapped(with, f, e) EXCEPT !.usage = @ + 1], s.table[f]))

(* The deleter runs for the entries that lose their last reference: the file *)
(* is closed, and its map or descriptor is given back to the limiter.        *)
Freed(old, new, k) ==
  Cardinality({e \in DOMAIN old : /\ old[e].refs > 0
                                  /\ new[e].refs = 0
                                  /\ old[e].kind = k})

(* Mutant: the map is unmapped and the limiter never told. *)
KeepTheMap(s) ==
  /\ SetShard(s)
  /\ UNCHANGED mmaps
  /\ fds' = fds + Freed(entries, s.entries, "fd")

Call(s) ==
  /\ SetShard(s)
  /\ mmaps' = mmaps + Freed(entries, s.entries, "mmap")
  /\ fds' = fds + Freed(entries, s.entries, "fd")

----------------------------------------------------------------------------
(* FindTable: the lookup, under the mutex.  A reader asks only for tables    *)
(* of a version it holds, and those are not deleted.                         *)
Lookup(t, f) ==
  /\ open
  /\ pc[t] = "idle"
  /\ f \notin deleted
  /\ Spend("finds")
  /\ file' = [file EXCEPT ![t] = f]
  /\ \/ /\ table[f] # 0
        /\ SetShard(Ref(Shard, table[f]))
        /\ handle' = [handle EXCEPT ![t] = table[f]]
        /\ At(t, "using")
     \/ /\ table[f] = 0
        /\ At(t, "missed")
        /\ UNCHANGED <<cacheVars, handle>>
  /\ UNCHANGED <<kind, fileVars, open>>

(* NewRandomAccessFile cannot open the file (nor under its old name). *)
OpenFails(t) ==
  /\ pc[t] = "missed"
  /\ Spend("errors")
  /\ At(t, "idle")
  /\ UNCHANGED <<file, kind, handle, cacheVars, fileVars, open>>

(* mmap_limiter_.Acquire: the counter is taken first and looked at after. *)
AcquireMmap(t) ==
  /\ pc[t] = "missed"
  /\ mmaps' = mmaps - 1
  /\ At(t, IF mmaps > 0 THEN "map" ELSE "undoMmap")
  /\ UNCHANGED <<plan, file, kind, handle, cacheVars, deleted, fds, open>>

(* ... and given back when there was none to take: no map for this file. *)
UndoMmap(t) ==
  /\ pc[t] = "undoMmap"
  /\ mmaps' = mmaps + 1
  /\ At(t, "fd")
  /\ UNCHANGED <<plan, file, kind, handle, cacheVars, deleted, fds, open>>

(* GetFileSize and mmap. *)
MapFile(t) ==
  /\ pc[t] = "map"
  /\ \/ /\ kind' = [kind EXCEPT ![t] = "mmap"]
        /\ At(t, "opened")
        /\ UNCHANGED <<plan, mmaps>>
     \/ /\ Spend("errors")
        /\ mmaps' = mmaps + 1
        /\ At(t, "idle")
        /\ UNCHANGED kind
  /\ UNCHANGED <<file, handle, cacheVars, deleted, fds, open>>

(* PosixRandomAccessFile: fd_limiter_.Acquire decides whether the file keeps *)
(* its descriptor or is opened again for every read.                         *)
AcquireFd(t) ==
  /\ pc[t] = "fd"
  /\ fds' = fds - 1
  /\ IF fds > 0 THEN At(t, "opened") /\ kind' = [kind EXCEPT ![t] = "fd"]
                ELSE At(t, "undoFd") /\ UNCHANGED kind
  /\ UNCHANGED <<plan, file, handle, cacheVars, deleted, mmaps, open>>

UndoFd(t) ==
  /\ pc[t] = "undoFd"
  /\ fds' = fds + 1
  /\ kind' = [kind EXCEPT ![t] = "reopen"]
  /\ At(t, "opened")
  /\ UNCHANGED <<plan, file, handle, cacheVars, deleted, mmaps, open>>

(* Table::Open reads the footer and the index.  It fails: the file object is *)
(* deleted, and nothing is cached, so that a later reader tries again.       *)
TableFails(t) ==
  /\ pc[t] = "opened"
  /\ Spend("errors")
  /\ mmaps' = IF kind[t] = "mmap" THEN mmaps + 1 ELSE mmaps
  /\ fds' = IF kind[t] = "fd" THEN fds + 1 ELSE fds
  /\ At(t, "idle")
  /\ UNCHANGED <<file, kind, handle, cacheVars, deleted, open>>

(* It succeeds: the table goes into the cache. *)
InsertTable(t) ==
  /\ pc[t] = "opened"
  /\ Call(Insert(Shard, file[t], kind[t]))
  /\ handle' = [handle EXCEPT ![t] = Len(entries) + 1]
  /\ At(t, "using")
  /\ UNCHANGED <<plan, file, kind, deleted, open>>

(* Get is done with the table, or the iterator over it is deleted. *)
ReleaseTable(t) ==
  /\ pc[t] = "using"
  /\ Call(Unref(Shard, handle[t]))
  /\ handle' = [handle EXCEPT ![t] = 0]
  /\ At(t, "idle")
  /\ UNCHANGED <<plan, file, kind, deleted, open>>

(* DeleteObsoleteFiles: the table is evicted, then its file deleted.  No     *)
(* version names it any more, so no reader is on it or will ask for it.      *)
DeleteTable(f) ==
  /\ open
  /\ f \notin deleted
  /\ \A t \in Readers : pc[t] = "idle" \/ file[t] # f
  /\ Spend("deletes")
  /\ Call(Erase(Shard, f))
  /\ deleted' = deleted \cup {f}
  /\ UNCHANGED <<readerVars, open>>

(* ~LRUCache, when the database is closed and every handle released. *)
CloseCache ==
  /\ open
  /\ \A t \in Readers : pc[t] = "idle"
  /\ Spend("closes")
  /\ Call([Shard EXCEPT
             !.entries = [e \in DOMAIN entries |->
                            IF e \in Range(lru)
                              THEN [entries[e] EXCEPT !.refs = @ - 1, !.inCache = FALSE]
                              ELSE entries[e]],
             !.table = [f \in Files |-> 0], !.lru = <<>>, !.usage = 0])
  /\ open' = FALSE
  /\ UNCHANGED <<readerVars, deleted>>

ReaderStep(t) ==
  \/ \E f \in Files : Lookup(t, f)
  \/ OpenFails(t)
  \/ AcquireMmap(t)
  \/ UndoMmap(t)
  \/ MapFile(t)
  \/ AcquireFd(t)
  \/ UndoFd(t)
  \/ TableFails(t)
  \/ InsertTable(t)
  \/ ReleaseTable(t)

TableNext ==
  /\ \/ \E t \in Readers : ReaderStep(t)
     \/ \E f \in Files : DeleteTable(f)
     \/ CloseCache
  /\ UNCHANGED <<lockVars, workVars>>

Init ==
  /\ EnvInit
  /\ pc = [t \in Readers |-> "idle"]
  /\ file = [t \in Readers |-> CHOOSE f \in Files : TRUE]
  /\ kind = [t \in Readers |-> "reopen"]
  /\ handle = [t \in Readers |-> 0]
  /\ entries = <<>>
  /\ table = [f \in Files |-> 0]
  /\ lru = <<>>
  /\ usage = 0
  /\ deleted = {}
  /\ mmaps = MaxMmaps
  /\ fds = MaxFds
  /\ open = TRUE

Next ==
  \/ TableNext
  \/ (LockNext \/ WorkNext) /\ UNCHANGED tableVars

(* The background thread is a thread of the process: it is scheduled. *)
Spec == Init /\ [][Next]_vars /\ WF_vars(WorkStep /\ UNCHANGED <<lockVars, tableVars>>)

----------------------------------------------------------------------------
Entry == [file : Files, kind : Kinds, refs : Nat, inCache : BOOLEAN]

(* Every variable has its type.  A handle names an entry, the hash table     *)
(* leads to the cached entry of its key, and the unused entries are the      *)
(* cached ones with the cache's reference alone: the assertions of           *)
(* util/cache.cc.                                                            *)
TypeOK ==
  /\ EnvTypeOK
  /\ pc \in [Readers -> Stages]
  /\ file \in [Readers -> Files]
  /\ kind \in [Readers -> Kinds]
  /\ \A t \in Readers : handle[t] \in IF pc[t] = "using" THEN DOMAIN entries ELSE {0}
  /\ \A e \in DOMAIN entries : entries[e] \in Entry
  /\ \A f \in Files : table[f] # 0 => entries[table[f]].inCache /\ entries[table[f]].file = f
  /\ \A e \in DOMAIN entries :
       e \in Range(lru) <=> entries[e].inCache /\ entries[e].refs = 1
  /\ usage = Cardinality({e \in DOMAIN entries : entries[e].inCache})
  /\ deleted \subseteq Files
  /\ open \in BOOLEAN

(* No table is closed under its reader, and none is kept open for nobody:    *)
(* an entry's references are its readers' and the cache's, through           *)
(* replacement, eviction, deletion and closing.                              *)
ReadersKeepTables ==
  \A e \in DOMAIN entries :
    entries[e].refs = Cardinality({t \in Readers : handle[t] = e})
                      + (IF entries[e].inCache THEN 1 ELSE 0)

(* What the limiters allow, what the open files hold and what a reader in    *)
(* the middle of Acquire has taken add up to the limit: no more than         *)
(* MaxMmaps maps and MaxFds descriptors exist, and none is ever lost.        *)
LimitsKept ==
  LET Held(k) == Cardinality({e \in DOMAIN entries : entries[e].refs > 0 /\ entries[e].kind = k})
                 + Cardinality({t \in Readers : pc[t] = "opened" /\ kind[t] = k})
      In(stage) == Cardinality({t \in Readers : pc[t] = stage})
  IN /\ mmaps + Held("mmap") + In("map") + In("undoMmap") = MaxMmaps
     /\ fds + Held("fd") + In("undoFd") = MaxFds
     /\ Held("mmap") + In("map") <= MaxMmaps
     /\ Held("fd") <= MaxFds

(* A table whose file is deleted is closed once its readers are done, and    *)
(* the cache outgrows its capacity only by what readers hold at one time.    *)
CacheIsBounded ==
  /\ \A e \in DOMAIN entries : entries[e].file \in deleted => entries[e].refs = 0
  /\ usage <= Capacity \/ usage <= Cardinality(Readers)

(* The books of the environment balance: the work queue, the limiters and  *)
(* the references and charges of the cache, at every step of every reader. *)
BooksBalance == TypeOK /\ WorkInOrder /\ LimitsKept /\ CacheIsBounded
=============================================================================
