# A TLA+ model of MotiAI

MotiAI is a Flutter app that shows quotes of spiritual traditions with a
generated background image and an ambient sound, generates affirmations from
the quotes, and keeps everything in local Hive boxes. Three bodies of code in
the repository have behaviour of their own:

- the app, in Dart under `lib/` (about 5000 lines);
- the runners that host it on each platform; the one for Windows keeps state
  (`windows/runner/`);
- LevelDB 1.22 under `macos/leveldb-library-src/`, the C++ storage engine that
  the macOS build gets as a dependency of Firestore's pod. It is vendored
  third-party code, and `main` does not reach Firebase; but it is checked in
  and built here, it makes up most of the repository's C++, and it is where
  threads, crashes and files meet. It is modelled as it is in this tree, from
  its source.

Two kinds of difficulty follow. Dart runs one event at a time, so there are no
data races; but nearly every operation is asynchronous, nothing is ever
cancelled, and button handlers do not wait for earlier calls: every `await` is a
place where other calls change the fields the resumed call reads again. LevelDB
has real threads, a mutex that is released around file operations, lock-free
readers, and files that a crash of the machine cuts anywhere.

The cut is the same in all models: **one action is what the program does
between two points at which others may run**: between two awaits that wait for
something outside the program in Dart; between two releases of `mutex_`, or one
file operation or one atomic store outside it, in LevelDB; one window message
in the runner.

## Inventory

Sources are relative to `lib/`, `windows/runner/` and
`macos/leveldb-library-src/`.

| Component | Source | State | Operations | What makes it correct |
|---|---|---|---|---|
| Ambience player | `services/audio_service.dart` | `_currentPlayer`, `_isPlaying`, `_audioTimer`, tracked file and clip, last tradition, played clips, recent files | `playAmbience`, `stopAmbience`, `pauseAmbience`, `resumeAmbience`, timer, `_restartAudio`, `dispose` | no file repeats within the window; fields agree with what sounds |
| Volume button | `screens/quote_screen.dart` | `_isAudioEnabled` | `_toggleAudio`, start of `_generateBackgroundImage` | off is silent, the ambience follows the quote |
| Quote selection | `screens/quote_screen.dart`, `services/hive_quote_service.dart` | `_currentQuote`, `_nextAIQuote`, `_recentTraditions`, fade controller, quotes box | `_initializeQuote`, `_generateNewQuote`, `_fetchNextAIQuote`, `getRandomQuote*`, `fetchQuoteFromAnthropic` | traditions do not repeat; the switch to local quotes is obeyed; the screen fades in again |
| Quote store | `services/hive_quote_service.dart`, `main.dart` | boxes `quotes`, `favorites` | `initialize`, seeding, `addQuote`, `saveAffirmationToQuote`, the heart | usable after any crash; nothing saved is lost |
| Affirmations, notepad | `services/affirmation_service.dart`, `screens/quote_screen.dart`, `screens/notepad_screen.dart` | box `affirmations`, dialogs, the list | generate, save, load, delete, clear | both copies consistent after a crash; the list has no ghosts |
| Background image | `screens/quote_screen.dart`, `services/image_service.dart` | `_backgroundImageUrl`, memory cache, files, box `cached_images` | `_generateBackgroundImage`, `generateImage` | the stored image belongs to the quote; what was paid for is kept |
| Windows runner | `main.cpp`, `flutter_window.cpp`, `win32_window.cpp` | window, window class, handle, controller, `quit_on_close_` | `wWinMain`, `Create`, `OnCreate`, `Show`, the message handlers, `Destroy`, destructors | the engine never outlives its window; nothing is left behind; the window is shown; closing it ends the process |
| Writes, reads, background work | `db/db_impl.cc` | writers' queue, log, `mem_`, `imm_`, versions, `pending_outputs_`, flags | `Write`, `Get`, `CompactRange`, flush, compaction, `DeleteObsoleteFiles`, `Close` | a reader sees its snapshot; what was promised is kept; every call returns |
| Open, recovery, repair | `db/db_impl.cc`, `db/version_set.cc`, `db/repair.cc` | the files of the database | `Open`, `NewDB`, `Recover`, `LogAndApply`, `RepairDB`, `DestroyDB` | Open finds what the manifest names; a group is recovered whole |
| Levels and compactions | `db/version_set.cc`, `db/db_impl.cc` | files per level, snapshots, compaction pointers | pick, set up, merge, drop, move, install, `Get` | levels are disjoint, newer above older, `Get` is right |
| Log format | `db/log_writer.cc`, `db/log_reader.cc` | blocks of fragments | `AddRecord`, `ReadRecord` | only whole records, all of them, quietly at a torn tail |
| Memtable | `db/memtable.cc`, `db/skiplist.h` | the skip list, the visible sequence number | `Insert`, iterators, `Get` | a reader never gets lost or passes over an entry |
| Tables and iterators | `table/`, `db/db_iter.cc` | blocks, index, filters; cursors | build, seek, step either way, `InternalGet` | the cursor is where the snapshot says; errors are kept |
| Table cache, POSIX environment | `db/table_cache.cc`, `util/cache.cc`, `util/env_posix.cc` | references, LRU list, limiters, lock table, work queue | `FindTable`, `Evict`, `Acquire`, `LockFile`, `Schedule` | tables live as long as their readers; limits hold; one instance; work is done |
| Environment in memory | `helpers/memenv/memenv.cc` | names, `FileState`s with blocks and references, open files | open, append, read, `Skip`, rename, delete | a file lives as long as anyone can reach it and reads as it was written |
| Ambient sound generator, prefetch | `services/ai_audio_service.dart`, `services/background_prefetch_service.dart` | audio cache, files, box `cached_audio` | generate, pre-generate, clear | not modelled |
| Waitlist | `screens/quote_screen.dart` | box `waitlist` | `_saveEmail` | not modelled |

Interactions. Showing a quote starts the ambience and then the background image,
and starts the next background fetch; the fetch writes the quote box that the
selection reads; the volume button calls the player; the affirmation dialog
reads the quote on screen, which the selection may change behind it, and writes
two boxes. Closing the window on Windows destroys the engine, and with it
whatever Dart has in flight. In LevelDB the writers hand their batches to the
head of a queue, wait for the background thread and are waited for by `Close`;
readers take memtables and a version under the mutex and use them without it;
the compaction deletes files that nobody names any more.

## Modules

| Module | Models | Extends / uses |
|---|---|---|
| `VarietyWindow` | the abstract promise of both variety systems: an item is picked only if it is not among the last `Window` picks | |
| `AudioService` | the ambience player | refines `VarietyWindow` (`FilesVary`) |
| `ScreenAudio` | the quote screen as its client | extends `AudioService` |
| `QuoteScreen` | quote selection, fade, API calls | refines `VarietyWindow` (`TraditionsVary`) |
| `QuoteStore` | start-up, the quotes and favorites boxes over crashes | |
| `WinRunner` | the Windows runner around the app's start-up and boxes | extends `QuoteStore` |
| `Affirmations` | affirmation dialog, saving, notepad, crashes | |
| `BackgroundImage` | background of the screen, image caches | |
| `DBImpl` | a running database | |
| `DBOpen` | opening, crashing, repairing, destroying it | extends `DBImpl` |
| `VersionSet` | the levels and compactions | |
| `LogFile` | the log format | |
| `MemTable` | the skip list and its lock-free readers | |
| `SSTable` | blocks, tables, filters and the two-level iterator, as operators | |
| `DBIter` | merging and user iterator over a memtable and a table | extends `SSTable` |
| `PosixEnv` | lock file, background thread | |
| `TableCache` | cache of open tables over the limited maps and descriptors | extends `PosixEnv` |
| `MemEnv` | the files of the environment in memory | extends `PosixEnv`, to which it leaves the rest |
| `Environment` | all three side by side | extends `TableCache`, `MemEnv` |
| `AudioServiceProofs` | theorems about the player and the screen | extends `ScreenAudio` |
| `QuoteScreenProofs`, `AffirmationsProofs`, `EnvironmentProofs` | theorems about the module of that name and those it extends | extend the component |
| `StoreProofs` | theorems about the boxes, the runner and the background image | extends `WinRunner`, `BackgroundImage` |
| `LogMemProofs` | theorems about the log and the memtable | extends `MemTable`, `LogFile` |
| `DBOpenProofs` | the types and the memory of the database, and what a Get returns | extends `DBOpen` |
| `DBFilesProofs` | the files of the database, and what survives a crash | extends `DBOpenProofs` |
| `MC*` | instances, workloads and symmetry for TLC | extend the component |

Operators whose comment begins with "Mutant" are variations of the definition
that follows them, each with a bug that could plausibly be written in that
place; replacing the definition by its mutant must make the property it is
listed with in `PROJECT.json` fail. They are not part of any specification.

### AudioService

The variables are the static fields of the class, the keys of `cached_audio`, and
for each call in flight (a *slot*) the await it is suspended at, its arguments and
the player its pending `play` was issued on. A segment re-reads the fields, as
the code does: `PlayStopDone` disposes of whatever `_currentPlayer` names after
`await stop()`, or takes the path of the swallowed null error. `playAmbience` is
`PlayAmbience` (to its first await) followed by `PlayStopDone`, `PlayDisposeDone`,
`ModeDone`, `PlayDone`, with `AIAudioFailed` and `LocalAudioFailed` as the two
handlers; the choice of clip and file is `Launch` and `FileChoices`. In the slots
of `Faulty` every call of the plugin may fail: those that start a clip in the two
handlers and `RestartPlayFailed`, the stop and dispose inside `playAmbience`, which goes on
with the next clip, in `PlayStopFailed`, and stop, dispose, pause and resume elsewhere
in `PlainCallFailed`. What the player does after such a call is open (`AfterFailedCall`).
The audioplayers plugin is external: an `AudioPlayer` is silent, loading, sounding,
paused or disposed; stop, pause and dispose take effect when issued, play when
its future completes. A disposed player that is played throws. A garbage
player's id may be reused only when nothing refers to it and it makes no sound.

### ScreenAudio

`ShowQuote` and the two halves of `_toggleAudio` call the service without waiting
for it; `ServiceStep` is every other step of the service. A *scene* says who
calls the service, the screen or anybody, and through which slots. Nobody in the app
calls `pauseAmbience` and `resumeAmbience`; the scene of anybody does.

### QuoteScreen

`Start` is `_initializeQuote`, `Flows` the `_generateNewQuote` calls whose fade-out
has completed, `Nexts` the background fetches. `fetchQuoteFromAnthropic` is an
answer (`Answer`, then the write of the quote to the box: `WriteDone` or
`WriteFailed`) or null (`AnswerNull`: no usable text, a famous quote, any error).
`Settle` is what each kind of call does then. The avoided traditions are the live
list, because the code passes the list and not a copy. The fade controller is
abstracted to shown / reversing / hidden; interrupting a fade drops its
continuation, as a cancelled ticker's future never completes. `settings` is how
this start of the app is used: whether `useAIQuotes` is set in the source, and
whether the user waits for the first quote. Quotes shown after `main` starts the
app have no category or tradition filter, so filters are left out.

### QuoteStore and WinRunner

A box is its contents in memory, its file and a queue of frames between them.
Only Hive's actions (`Issue`, `Flush`) touch the queue; a crash loses memory and
queue. Quote ids are numbered in key order since `getAt(0)` decides about the
migration. The initial disk is empty or holds any set of old-format entries.

`WinRunner` puts this inside the process: Dart runs only while the engine
exists, and the engine only while the `FlutterWindow` holds its controller.
The runner is single-threaded, so its calls are operators on its state (`Create`,
`Destroy`, `OnDestroy`, `Destructor`, ...), nested as the code nests them:
`DestroyWindow` runs the handler of `WM_DESTROY` inside itself. `CreateWindow` may
fail before or after `WM_NCCREATE`, the engine may fail to start, the process may
be killed. The engine draws on its own threads (`DrawFrame`), so the first frame
may be complete before the callback that shows the window is set; `ForceRedraw`
is what makes up for it. Win32 and the Flutter engine are external.

### Affirmations

`madeFor` is the quote the request was made for, `filed` the one Save names: the
code uses `_currentQuote` in both places, with an arbitrarily long wait between.
`typed` are the entries that were put in this process: only these are
`Map<String, dynamic>`; what Hive reads from disk is `Map<dynamic, dynamic>`.
The continuation of a write runs in the event in which the write completes, so
both are one action (`NoteSaved`, `QuoteSaved`, `Removed`).

### BackgroundImage

Each shown quote starts a call (`await` says where it is suspended): await the ambience, look up a stored image,
ask the memory cache, read the file, request, save, show. An image is its prompt and
whether all of its bytes are there; `Default` stands for the fallback addresses, cached
in memory like an image but neither saved, stored nor shown. `writeAsBytes` works in place
and is two steps: `SaveOpens` truncates the file, `Saved` completes it. A kill in between
(`Restart`) or a failing save (`SaveFailed`) leaves a part (`"cut"`), two saves at once a
mixture (`"mixed"`), and a call that reads while another one writes sees anything
(`"torn"`). `FileRead` takes any file that exists for the image, as the code does; a
reading that throws is null, and the image is requested again. `spoilt` is a history
variable, the prompts that met one of these accidents: the code swallows a failed
save, and the properties must tell such a file from one that should be whole. A crash
of the machine, which may also cut a file that was written to its end without
`flush`, is left out. `Expire` is the passing of the 24 hours.

### DBImpl and DBOpen

A log or a manifest is the sequence of its complete records, of which the first
`synced` survive a crash, with a torn end or not; a table is its entries or
garbage. `cl` and `rd` say where each thread is. A writer queues up
(`Write`), waits until it is the head, makes room (`MakeRoomForWrite`, one action
per turn of its loop: error, delay, wait, switch), groups the writers behind it
(`BuildBatchGroup`), logs, syncs and inserts without the mutex and wakes the
others (`WriteFinish`). The background thread flushes (`BeginFlush`,
`WriteLevel0Table`, `WriteManifest`, `FlushDone`), moves or compacts, flushing a
memtable in between if one is waiting (`CompactImm`), deletes obsolete files and
schedules itself again (`BgEnd`). Every write is to a key of its own, so what a
read must find is a set of writes. `DBOpen` adds the life before and after:
`NewDB`, the replay of the manifest, the logs one by one, `reuse_logs`, the new
manifest and CURRENT, `RepairDB` and `DestroyDB` file by file, `Close`, `Crash`,
which keeps of each file what was synced and any prefix of the rest, and `Segfault`, the
end of the process alone. A record of a manifest is appended and synced in one step,
unless the workload has failing manifests: then it may be in the file and not synced,
which is also what a process leaves that dies between the two. `Replay` is
what the loop of `VersionSet::Recover` over the edits comes to: the files that an
edit adds and no later one deletes, and the numbers of the last edit. The logs that
are still to be replayed are a set (`rc.todo`), taken in the order of their numbers.

`BackgroundCompaction` follows `manual_compaction_` when it begins and again when it is
done (`db/db_impl.cc:755`), with the mutex released in between, and a client whose wait is
ended by a background error clears it (`:620`). `CompactEnd` therefore has two outcomes:
the request is served, or the pointer is null and the thread falls (`FallenBg`). Then
nobody else runs (`Running`), for the thread holds the mutex, and `Segfault` ends the
process.

`hist` is what the properties remember of the past: the writes that were applied, those
that were promised to a caller with `sync`, and every group that was logged, with its
log, its first write, its writes and the `life` of the database (the span of one Open) in
which it was logged. An Open forgets the groups that it did not recover (`Remembered`),
and those in a log that is kept in use belong to the new life (`Continued`).

Three things the code does take the promises away, and the model records them:
`hist.damaged` when a record is appended behind an incomplete one (a failed
append that does not set `bg_error_`, or `reuse_logs` behind a torn tail: what
follows may not be found) or a repair is interrupted; `hist.rootless` as long as
CURRENT names a manifest that was never synced, which is how `NewDB` and
`RepairDB` leave it. The properties are about the other histories, and say so.

### VersionSet

Keys that are written again and again, snapshots, deletions, and the levels: a
flush picks its level, a compaction its inputs (`SetupOtherInputs` with
`AddBoundaryInputs`), its merge is a fold over the sorted input entries that
drops, cuts and closes outputs as `DoCompactionWork` does (`Consume`), and `Get`
searches in the order of `Version::Get`. A flush may come between choice and
installation. `flaws` records two things that break the levels' order: a user key
spread over two files of a level, and a flush into the gap a partial manual
compaction leaves between its inputs.

### LogFile, MemTable, SSTable, DBIter

`LogFile` works on bytes that know their fragment, so that a header read from the
wrong place is recognised as one. The reader is `log::Reader` statement by
statement: initial offset, resynchronisation, zero-filled trailers, bad lengths,
bad checksums, end of file in the middle of anything. `torn` and `skewed` record
an append behind an incomplete record and a writer whose `block_offset_` no longer
agrees with the file. `MemTable` has one action per atomic store or load of a
link; a link that was not set yet is `Junk`. An operation of a reader starts at any
height it may have read. `SSTable` are pure operators (blocks whose
keys build on the one before up to the next restart point, binary search, filters per stretch of the
file, index keys shortened between blocks); `DBIter` has one action per call of the
user's iterator, over a memtable that grows and a table whose blocks become
unreadable and readable again.

### PosixEnv, TableCache and MemEnv

`LockFile` and `UnlockFile` step by step over a lock that belongs to the process
and is dropped by any `close`; `Schedule` and the background thread with the
condition variable; `FindTable` with the cache's calls as steps of their own; the
limiters' `Acquire` as the two atomic operations it is. `lapsed` records that a
close dropped the lock under its holder.

`MemEnv` has the block arithmetic of `FileState` (`AppendRound`, `ReadRound`), the
references of names and open files, and `Skip` in two steps, for it asks for the
size twice: if the file is emptied in between, the unsigned difference wraps around
and the reader is put behind the end. `NewAppendableFile` of a name that is not there
leaves a null pointer in `file_map_` and gives the new file no name (memenv.cc:281),
although `include/leveldb/env.h` promises that it "writes to a new file": what is
appended is lost, its memory is never freed, and the next call that looks the name up
crashes. The model does the same (`orphans`, `crashed`), and `MemRefsOK` says that
nothing else leads there.

## Runs

Each run asks one question of one part. Sizes are chosen so that the
interesting case happens, and each was enlarged until its mutants were caught.

| Run | Bounds | Shows |
|---|---|---|
| `DbCrashes` | 2 writers, 1 reader, file numbers to 9, nine workloads (`MCDBOpen`) | `FilesOK`, `ReadsItsSnapshot`, `PromisesKept`, `PrefixRecovered`; every call returns unless the process falls (`CallsReturn`) |
| `Levels` | 3 keys, 3 levels, 3 to 5 writes, limits of 2, four workloads | `LevelsOK`, `GetIsRight` |
| `LevelsSplit` | the same with flushes to level 2 | **violated**: `GetAnswers`, see Findings |
| `LogRead` | blocks of 5 bytes, headers of 2, records of 0, 2 and 5 bytes, 3 records, 2 sessions, one failing write and read, 3 initial offsets | `LogOK`, `CutLogIsRead`, `DamageStaysInBlock` |
| `SkipList` | 2 keys, height 2, 3 entries, groups of up to 2 | `ListOK`, `NothingSkipped`, `GetIsRight`, and searches end (`SearchesEnd`) |
| `Iterators` | the histories of 4 writes to 2 keys with at least 2 puts, the first one of them, blocks of 3, restarts every 2, 2 changes of what is readable, 1 entry added | `IteratorOK`, `TableGetIsRight`, `ErrorIsKept` |
| `Environment` | 3 clients in 2 processes; 4 items of work; 3 readers of 2 tables with room for 1 table, 1 map, 1 descriptor; 5 calls on 2 names and 2 open files in memory, blocks of 2 | `BooksBalance`, `OneInstance`, `ReadersKeepTables`, `MemRefsOK`, `MemFilesOK`, `WorkIsDone` |
| `Audio` | 3 files, window 2; the screen with two calls in flight, with one, and every operation with failing plugin calls | `PlayerOK`, `RequestFollowsQuote`, `OffIsSilent`, `FilesVary` |
| `Quotes` | 4 traditions, 2 AI quotes, window 2, two overlapping calls, one fetch, every setting | `NewestIsShown`, `OnlyLocalShown`, `TraditionsVary`, `FadesBackIn` |
| `StoreRestarts` | 3 ids, two callers, kills and closed windows anywhere | `StoreOK`, `RunnerOK`, `QuotesSurvive`, `ComesUp`, `WindowShows`, `CloseQuits` |
| `NotesSaved` | 2 quotes, three notes, crashes, failing writes, overlapping removals | `NotepadOK`, `NoteBeforeQuote` |
| `ImagesStored` | 3 quotes, 2 prompts, two calls, faults, expiry, kills in mid-save | `ImagesOK` |

A property whose name ends in `OK` conjoins the module's type invariant with the
named structural properties above it: `LevelsOK` is `TypeOK`, `LevelsDisjoint` and
`NewerAbove`; `ListOK` has `LinksAreSet` and `NoReaderIsLost`; `LogOK`
`OnlyWholeRecords` (`CutLogIsRead` is `WholeRecordsRead` and `QuietTail`); `FilesOK` `OpenFindsFiles`; `IteratorOK` `CursorIsRight`;
`PlayerOK` `RecentWindow` and `RestIsCoherent`; `StoreOK` `UsableBox` and
`QuietIsDurable`; `RunnerOK` `EngineWithWindow` and `ExitLeavesNothing`;
`NotepadOK` `RemovedIsGone`; `ImagesOK` `StoredImageFits`, `CachedIsSaved` and `UnspoiltIsWhole`;
`MemRefsOK` has `RefsCounted`, `MemFilesOK` `ReadsAreRight`. `BooksBalance` has `WorkInOrder`,
`LimitsKept` and `CacheIsBounded`.

### Bounds

The workloads (`Plans`) of the LevelDB runs are several small instances in one
run: which calls are made, how often, and which operations may fail. Each of them
isolates one kind of trouble, because all of it together is out of reach, and
what they leave out is a combination: `DbCrashes` has crashes with two writers of
any sync option (`Crashing`, `Reusing`), file operations that fail with one writer
(`Failing`, `Refusing`), a reader against three memtable switches (`Reading`),
manual compactions beside failing tables and syncs (`Manual`) and with a failing flush
in the middle of one (`Nested`), repair (`Repairing`), and a larger
memtable so that several groups share a log (`Losing`). Two crashes are needed:
one leaves a torn file, the other finds what was made of it.

`Players`, `Slots`, `Flows`, `Nexts`, `Users`, `Clients`, `Readers` bound objects and
calls alive at once; `MaxTime`, `MaxNum`, `MaxFile`, `MaxRecords`, `MaxEntries`,
`MaxAdded`, `MaxBroken`, `MaxFails`, `MaxReadFails`, `MaxOpens` bound what would grow.
The overlaps that matter need two calls; there is one more file (tradition) than
the window so that the choice is forced; `LogRead`'s sizes give records that end
with the block, one byte before it, a header before it, and that span three.

Symmetry is used for players and for slots of one scene, for image calls and (in
`Affirmations`) for quotes, which the specifications treat alike, and never with a
liveness property.

Deadlock is not checked where the workload simply ends (the LevelDB runs but
`SkipList`) and in `Audio`, where overlapping calls orphan players that sound
for ever until all `Players` of the bound are used up; the real system has no such
bound. That nobody waits for ever in LevelDB is `CallsReturn`.

### Environment assumptions

- `waitsForFirst` in `settings` (`QuoteScreen`): the user presses New Quote only once
  a quote is shown. `TraditionsVary` is about these users, the other properties
  about all.
- `WaitsForClear` (`Affirmations`): the user does not leave and re-open the notepad
  while a clear is under way. Without it the re-opened list is stale.
- One tap on Save per affirmation, and the dialog is not closed while it saves.
- AI quote ids and affirmation timestamps, which are milliseconds, are distinct.
- In `Audio`, `RestIsCoherent` and `OffIsSilent` are about the screen as the only
  client, with one call at a time and no failing plugin call (`Alone`); the code does
  not keep them otherwise (see below).
- LevelDB: directory entries (creation, rename, removal) are durable at once, as
  the code assumes outside `SyncDirIfManifest`; a checksum matches exactly what it was
  computed for.

### Fairness

- `CallsReturn`: every thread that can take a step takes one, and an Open that was
  begun goes on. Nobody has to call, close or crash. It is about the histories in which the
  process does not fall (`NothingFalls`), and those without a crash of the machine while
  the call is under way, since a crash makes every thread idle.
- `SearchesEnd`: the reader goes on following links. `WorkIsDone`: the background
  thread is scheduled.
- `FadesBackIn`: the fade timer and every suspended call go on: the event loop runs
  what is ready, the disk completes, and a request is answered or fails. The last is
  an assumption about the network stack; no request in the code has a timeout.
- `ComesUp`, `WindowShows`, `CloseQuits`: `wWinMain`, the rasterizer, Dart and the disk
  go on. They say nothing if kills never stop.

All of it is weak fairness of steps that, once enabled, only their own actor
or the end of the process disables.

## Findings

`LevelsSplit`: a compaction under a snapshot may write the entries of one user key
to two files of a level, the deletion at the end of one and the older value at
the start of the next. `SetupOtherInputs` extends the inputs of the compacted level by
such neighbours (`AddBoundaryInputs`), but not those of level + 1
(`db/version_set.cc:1410`). A later compaction takes along the file with the
deletion only; once the snapshot is released and no deeper level has the key, the
deletion is dropped, and `Get` finds the deleted value again, against
`include/leveldb/db.h:69` and `:83`.

Four more things do not hold of the code. The models show each of them, though no run
is spent on it; the properties are about the other histories.

- A manual compaction gives up the mutex while it works. If a background error is set
  meanwhile, by the flush of a memtable in mid-compaction or by a writer's failed sync,
  `TEST_CompactRange` leaves its loop, clears `manual_compaction_` and returns ("Cancel my
  manual compaction since we aborted early for some reason", `db/db_impl.cc:619`).
  `BackgroundCompaction` then reads the pointer again (`:755`) and writes through null: the
  process ends under the calls in flight. `NothingFalls` of `DBOpen` is violated in the
  workloads `Manual` and `Nested`.
- With `reuse_logs`, `VersionSet::ReuseManifest` goes on with the old manifest
  (`db/version_set.cc:1003`), whose last record may not have been synced because its sync
  failed. The Open takes it for written and deletes the log that it made superfluous;
  a crash then takes the record, and with it a write that was synced, against
  `include/leveldb/options.h:179`. `PromisesKept` is violated in the workload `Refusing` with
  `reuse` set. The option is marked experimental and is off by default.
- An app that is killed while it writes an image leaves a part of it under the final name
  (`image_service.dart:183`). `exists()` is the only test before it is used (`:196`), so the
  next start shows the part, caches it and stores it for the quote, and no later save
  replaces it, though images are stored "for persistence" (`README.md:57`).
- An image that arrives after the next quote was shown becomes that quote's background
  (`quote_screen.dart:213`), though backgrounds are "tradition-specific" (`README.md:51`).

Three sentences of the app's documents do not hold of its code either. The models
show it, though no run is spent on them:

- "Tap the volume icon to turn audio on/off" (`README.md:92`): switching the audio off
  while a clip is still loading finds `_isPlaying` false and does nothing; the
  ambience starts afterwards.
- `Based on: "..."` (`notepad_screen.dart:177`): an affirmation is filed under the quote
  on screen when Save is tapped, not under the one it was generated from.
- "Access your saved affirmations in the dedicated notepad screen" (`README.md:202`):
  what was saved in an earlier session comes back from disk as `Map<dynamic, dynamic>`, and
  `getAllAffirmations` keeps only `Map<String, dynamic>`.

Further behaviours that a stronger property would reject:

- two overlapping `playAmbience` calls leave two players sounding;
- switching audio off and on for the same quote stays silent: `playAmbience` returns
  early on `_lastAudioTradition`, which `stopAmbience` does not reset;
- a client that pauses, stops and then resumes gets the stopped ambience back, with
  nothing tracked that the timer could replay: `stopAmbience` leaves a paused player
  alone (no caller in the app);
- a first quote that arrives after presses of New Quote is appended to the recent
  traditions without a test or a trim;
- a crash during the first seeding leaves a box that later starts take as complete;
- two calls that miss the same file both request it, and may write it at the same time;
- the keys looked up for stored images contain literal backslashes and never match,
  so the prefetch is never started;
- LevelDB: a synced write behind a partially failed append may not be recovered
  (`db/db_impl.cc:1215`); an unsynced write may be lost although a later synced one
  in the next log survives (`:1356`); a refused second `LockFile` in a process drops
  that process's lock (`util/env_posix.cc:627`); a `CompactRange` whose null batch
  is grouped behind a writer switches no memtable (`db/db_impl.cc:1287`).

## Theorems

All are proved by TLAPS for every value of the constants that satisfies the named
assumptions of the modules, so for any number of calls, quotes, files, readers,
processes or entries. An invariant that the runs check is seldom inductive; what
each proof adds to it, and why, is below. The assumptions say little: constants
that stand for nothing (`None`) are no member of what they are compared with, sets
that are counted are finite, switches are Boolean. Those that carry an argument are
named.

| Module | Theorem | States |
|---|---|---|
| `AudioServiceProofs` | `TypeCorrect`, `WindowCorrect` | `TypeOK`, `RecentWindow` |
| | `FilesNeverRepeat` | `FilesVary`: the service implements `VarietyWindow` |
| | `ScreenIsAClient` | `ScreenSpec => Spec`: the composition implements the service alone |
| | `RequestIsTheQuotes`, `PlayerIsRight`, `OffStaysSilent` | `RequestFollowsQuote`, `PlayerOK`, `OffIsSilent` |
| `QuoteScreenProofs` | `TypeCorrect`, `NewestShown`, `LocalShown` | `TypeOK`, `NewestIsShown`, `OnlyLocalShown` |
| | `TraditionsNeverRepeat` | `TraditionsVary`: the selection implements `VarietyWindow` |
| `StoreProofs` | `StoreIsRight`, `RunnerIsRight` | `StoreOK`, `RunnerOK` |
| | `QuotesAreKept` | the action property `QuotesSurvive` |
| | `ImagesAreRight` | `ImagesOK` |
| | `StoredImagesAreNeverReused` | the lookup keys are dead and the prefetch never starts |
| `AffirmationsProofs` | `NotepadIsRight` | `TypeOK`, and `NotepadOK` if `WaitsForClear` |
| | `NoteComesFirst` | the action property `NoteBeforeQuote` |
| `DBOpenProofs` | `GetReadsItsSnapshot` | `ReadsItsSnapshot` |
| | `GroupsAreRecovered` | the action property `PrefixRecovered` |
| `DBFilesProofs` | `OpenFindsWhatItNeeds` | `FilesOK`, if `NoBlindReuse` |
| | `SyncedWritesSurvive` | `PromisesKept`, if `NoBlindReuse` |
| `LogMemProofs` | `LogIsRight` | `LogOK` |
| | `ListIsRight`, `WalksSkipNothing`, `GetsAreRight` | `ListOK`, `NothingSkipped`, `GetIsRight` |
| `EnvironmentProofs` | `OneInstanceIsIn` | `OneInstance` |
| | `ReadersAreKept`, `BooksAreBalanced` | `ReadersKeepTables`, `BooksBalance` |
| | `FilesAreCounted` | `MemRefsOK` |

- **The player.** The inductive invariant adds to `TypeOK` and `RecentWindow` what
  the suspended calls hold (`SlotInv`). The heart is `ChosenFile`: as there are more
  files than the window holds (`FilesAssumption`: four against three in the code)
  and the window is duplicate-free, some file is unused, so the "reset" branch of
  `_getAudioFileWithFallbacks` is dead and the chosen file is never in the window.
  The composition with the screen is shown to be a refinement first
  (`ScreenIsAClient`), so that all of this holds of it. `AloneInv` then says of a
  screen with one call at a time where that call is and what is true there: resting,
  stopping, starting, loading or restarting. It was the attempt to prove it for any
  single client that turned up `pause`, `stop`, `resume` (see Findings).
- **The quote screen.** The invariant adds that the seeded quotes stay in the box and
  a writing call holds an AI quote (`BoxInv`: a failed write removes only AI quotes),
  that with AI quotes off no foreground call is at the API (`LocalInv`), and that until
  the first quote is shown nothing else has happened to a user who waits (`FirstInv`;
  without it the untrimmed append of `_initializeQuote` breaks the window).
  `FreshChoice` shows that more seeded traditions than the window holds
  (`SeedAssumption`) make the "use all quotes" fallback dead.
- **Boxes and runner.** `StoreInv` relates file, queue and memory: the last frame of a
  key is what memory holds, a key without a frame is on file as it is in memory
  (`LastWins`), and frames never take a quote or an affirmation back (`Monotone`).
  Old and new formats are never mixed, and a start is alone with the boxes
  (`StartInv`), which is why a crash anywhere in the migration leaves a box that the
  next start can use. `RunnerInv` says for each point of `wWinMain` what exists; the
  proof goes through the nested calls (`DestroyStep`, `DestructorStep`) and shows that
  a step of the runner is a step of the store or leaves it alone.
- **Affirmations.** A save is the last frame of its box and is made from a dialog that
  stays open (`SaveInv`): this orders the two writes. `ListInv` says that what the
  notepad lists is on disk, and in the box unless this notepad is removing it. It
  holds for users who do not re-open the notepad during a clear, hence the
  hypothesis.
- **Background image.** `CallInv` says what a call has in hand at each await, and that
  nobody is writing a file that a call reads undisturbed. `CacheInv` and `SavedInv` say
  that an image in memory is of its prompt and is on file, spoilt, or being saved by a call
  that is still there; `FileInv` that a mixed file is spoilt and a cut one spoilt or being
  written; `ImagesSound` that whatever is in memory, in the box or on screen is whole or
  spoilt. A part of an image can then enter only through a file
  that a save was interrupted in, which is what `UnspoiltIsWhole` says.
- **What a Get returns.** `SnapInv` is `Control` and `Data`. `Control` has the types, which
  stage of an Open or a repair goes with which variables (`Stages`), what is idle when
  (`QuietInv`), and the writers' queue: it holds each waiting writer once, only its
  front is past waiting, and a group with a sync write has a leader that syncs
  (`QueueInv`). `Data` says that memtables and version hold exactly what was applied
  (`ContInv`), that what a reader has found together with what it still has to search is
  exactly what was applied up to its snapshot (`ReadInv`), and what keeps this true while
  others work: numbers that are still to be given belong to no file, version, reader
  or memtable (`FreshInv`, and `ManiInv`, `BoundInv` for those on disk), the output of the
  background thread is known to nobody else and is in `pending_outputs_`, and its edit
  replaces what it takes away (`BgInv`). No step of `DeleteObsoleteFiles` is then about a
  table that a version or a reader still names, and what a writer inserts lies above
  every snapshot.
- **Groups.** `GroupInv` adds to this, for histories without damage: every table, every
  memtable and every beginning of a log is *whole*, that is, with a group it has all
  earlier groups of the same log (`WholeInv`). Whole sets are closed under union, and a
  recovery starts from tables and beginnings of logs, so what it finds is whole. To keep
  it, `NewGroups` says that the groups of the log in use are all in it and, but for the
  one on its way or the one whose sync was lost, in its memtable; `IdsInv` that what waits
  in the queue is numbered above all that was logged; `OneLogEach` that a log holds
  groups of one log and one life only. A new group then comes last wherever it appears.
- **What an Open finds.** `FilesOK` is about the moment of an Open; the proof must say at
  every moment what any Open after any crash would find. A *view* of a file is a
  number of records that a crash may leave of it (`Views`), a *root* a manifest that
  CURRENT may lead to (`Roots`). `FilesInv`: each view of each root names readable tables
  only. What makes this inductive is `ExactInv`: while no background error is set, every
  view of the manifest makes the version in memory, or the one about to be installed;
  with an error, when some edit may be on disk or not, it makes one that has at least
  the files in memory, which is why nothing is deleted and nothing more is written
  after `bg_error_`. `OpenExactInv` and `StageInv` say the same of the stages of an Open, and
  `RootInv` when a manifest was ever synced.
- **What survives a crash.** For each write that was promised or is about to be (`Sure`)
  `Promise` says where it is: in memory and, if only in the current memtable, in the
  synced part of its log (`InMemory`); for each view of each root in its tables or in a
  log that this view says to replay (`Covered`); in some readable file, as a repair needs
  (`InFiles`); and during an Open in the version, the log kept in use or a log still to be
  read (`Opening`). A flush moves a write from the second disjunct of each to the first
  before it lets the log go, and that order is what the proof is about.
- **`NoBlindReuse`.** The last two theorems have a hypothesis: not both `reuse_logs` and a
  write to the manifest that fails. `VersionSet::ReuseManifest` (`db/version_set.cc:1013`)
  goes on with the old manifest, in which a failed write may have left edits that were
  never synced; the Open takes them for written, deletes what they made obsolete, and
  a crash then cuts them off. The second
  of the four histories under Findings shows that the hypothesis is needed.
- **Log.** `LogInv` is about the bytes on disk, wherever the writer stopped: those of the
  fragments follow each other in the order of emission, those of one fragment without
  a gap and from its first one on (`BytesInv`); the fragments of a record are
  consecutive, from one that starts it to one that ends it (`FragsInv`, `RecsInv`); and a
  byte of a fragment is there only behind all that was emitted of the record before it
  (`StateInv`), so a record whose last byte is there is there whole. The reader has
  collected the beginning of a record whose last byte is just behind it (`Collected`),
  and what lies ahead belongs to later records than those returned (`ReadInv`). The step
  that matters (`NextFragment`): between two physical records the reader drops less than
  a header without starting again, so no whole fragment can hide there, and the
  next fragment it accepts while inside a record is the next of that record. None of
  this depends on `block_offset_` being right, on where the reader starts, or on what
  was torn.
- **Memtable.** At each level the published nodes (those that a link of their
  predecessor leads to) are a sorted list (`SortedInv`); a node's links are set from
  the bottom up (`LinksInv`); what `FindGreaterOrEqual` found before the loop of
  `Insert` is still right when each level is linked, because there is one writer
  (`PrevInv`); and a reader stands on a published node of its level from which
  nothing it must find lies behind (`ReaderInv`). A `Get` is right because the
  sequence number it reads is that of the last complete group.
- **Environment.** `LockInv` says who is in the table of its process and that the kernel's
  lock belongs to the process of whoever is in, unless a close dropped it
  (`lapsed`). `WorkInv` relates the queue, the thread and the numbers of the items.
  `CacheInv` balances the books of the cache: the references of an `LRUHandle` are
  its readers' and the cache's own, the list of unused entries is those in the cache
  that only the cache refers to, the hash table leads to entries that are in it
  (`ShardInv`), and each map and descriptor the limiters gave is held by an open
  table or by a reader at a named point of `Acquire` (`Ledger`). The cache's
  operations are first proved on the shard alone (`RefBooks`, `UnrefBooks`, `EraseBooks`,
  `EvictedBooks`, `InsertBooks`), then in the steps that call them. `MemInv` counts
  the references of the files in memory; that no two names lead to one file is what
  makes `~InMemoryEnv` give back the right number.

Only model-checked:

- liveness (`FadesBackIn`, `ComesUp`, `WindowShows`, `CloseQuits`, `CallsReturn`,
  `SearchesEnd`, `WorkIsDone`), which is out of the prover's reach;
- what is computed by folding over data, since the provers have no induction over it:
  the bytes of a file in memory (`MemFilesOK`), the merge of a compaction and the
  choice of its inputs (`LevelsOK`, `GetIsRight` of `VersionSet`), what blocks, iterators and
  `InternalGet` return (`IteratorOK`, `TableGetIsRight`, `ErrorIsKept`);
- what the reader of a log must find, as opposed to what it may return: `CutLogIsRead`
  and `DamageStaysInBlock` say that a record is found, or was reported, at the end of
  all reading, which is a statement about the whole sequence of fragments.

## Plan

Done: the app with theorems for every safety property its runs check; the Windows
runner around the store; LevelDB, with theorems for the database and its files,
the log, the memtable and the environment. What would come next:

1. `CutLogIsRead`: that a reader of a log that was only cut never resynchronises.
2. `AmbientGenerator`: cache, file storage, `preGenerateAmbientSounds` and the
   variation-1 overwrite, composed with the player through `cached_audio`;
   `preFetchImages` beside it.
3. The store operations without a caller in the app: `removeQuote`, `toggleFavorite`,
   `importData`/`exportData`; the waitlist box; the navigator's stack under the
   affirmation dialogs (a late pop).

## Not modelled

- The app: layout, colours and wording; the content of prompts and of API answers
  beyond usable or not; clipboard and share; permissions and orientation in `main`;
  Hive's file format; the generated adapter; the ambient sound generator and the
  prefetch, which the app does not reach; code not reached from `main` (Firebase,
  `home.dart`, `mood.dart`, `quote_card.dart`); scripts and audits.
- The runners: sizes, DPI, focus and theme on Windows, the command line; the Linux and
  macOS runners, which leave the window's life to GTK and Cocoa.
- LevelDB: byte encodings, checksums and hashes, which are pure functions the models
  abstract from; compression; `SyncDirIfManifest` and the durability of directories;
  `ApproximateSizes`; the Windows environment, the C interface, benchmarks and
  tools.
