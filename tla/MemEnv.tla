------------------------------- MODULE MemEnv -------------------------------
(***************************************************************************)
(* LevelDB's environment in memory (helpers/memenv/memenv.cc): names lead  *)
(* to FileStates, which hold blocks of bytes and count their references,   *)
(* one for the name and one for every open file.  All that is not about    *)
(* files it leaves to the environment below it, here PosixEnv.             *)
(*                                                                         *)
(* Each call of the environment holds its mutex and each call of a         *)
(* FileState that state's, so a call is a step; only Skip asks for the     *)
(* size twice, and lets go of the mutex in between.                        *)
(*                                                                         *)
(* A byte is a number, different from every byte before it.  A call that   *)
(* reaches a FileState through a null pointer ends the process.            *)
(***************************************************************************)
EXTENDS PosixEnv, SequencesExt, FiniteSetsExt

CONSTANTS
  Names,      \* names of files
  Users,      \* holders of open files
  MemBlock,   \* kBlockSize of FileState
  Lengths,    \* the lengths that Append and Skip are called with
  Word        \* the number of values of a uint64_t

ASSUME MemEnvAssumption ==
  /\ MemBlock \in Nat \ {0} /\ Lengths \subseteq Nat /\ Word \in Nat \ {0}
  /\ IsFiniteSet(Names) /\ IsFiniteSet(Users)

VARIABLES
  fileMap,    \* file_map_: name -> FileState, NullFile, or NoFile when it is not in the map
  states,     \* the FileStates ever made
  used,       \* used[u]: what user u has open, Nothing when it has nothing
  written,    \* the number of bytes appended so far
  mounted,    \* the environment exists
  orphans,    \* history: the FileStates that were to have a name and got none
  crashed     \* a null pointer was followed

memVars == <<fileMap, states, used, written, mounted, orphans, crashed>>

NullFile == 0
NoFile == -1
Nothing == [kind |-> "none"]

----------------------------------------------------------------------------
(* FileState: refs_, blocks_ and size_; bytes is the history of what was     *)
(* appended since it was last empty.                                         *)
NewState == [refs |-> 0, blocks |-> <<>>, size |-> 0, bytes |-> <<>>]

(* Mutant: Truncate leaves the blocks. *)
EmptiedInPart(s) == [s EXCEPT !.size = 0, !.bytes = <<>>]

(* Truncate. *)
Emptied(s) == [s EXCEPT !.blocks = <<>>, !.size = 0, !.bytes = <<>>]

(* The memory goes with the last reference. *)
Reffed(s) == [s EXCEPT !.refs = @ + 1]
Unreffed(s) == IF s.refs = 1 THEN [Emptied(s) EXCEPT !.refs = 0] ELSE [s EXCEPT !.refs = @ - 1]

(* One round of Append: as much as the last block has room for, or a new one.*)
AppendRound(a) ==
  LET offset == a.size % MemBlock
      blocks == IF offset = 0 THEN Append(a.blocks, <<>>) ELSE a.blocks
      n == Min({MemBlock - offset, Len(a.src)})
  IN IF a.src = <<>> THEN a
     ELSE [blocks |-> [blocks EXCEPT ![Len(blocks)] = SubSeq(@, 1, offset) \o SubSeq(a.src, 1, n)],
           size |-> a.size + n, src |-> SubSeq(a.src, n + 1, Len(a.src))]

AppendRounds(s, data) ==
  FoldLeft(LAMBDA a, i : AppendRound(a), [blocks |-> s.blocks, size |-> s.size, src |-> data], data)

Appended(s, data) ==
  LET end == AppendRounds(s, data)
  IN [s EXCEPT !.blocks = end.blocks, !.size = end.size, !.bytes = @ \o data]

(* One round of Read: what is wanted of one block. *)
ReadRound(s, r) ==
  LET n == Min({MemBlock - r.offset, r.left})
  IN IF r.left = 0 THEN r
     ELSE [dst |-> r.dst \o SubSeq(s.blocks[r.block], r.offset + 1, r.offset + n),
           left |-> r.left - n, block |-> r.block + 1, offset |-> 0]

(* Read: an error behind the end, otherwise at most what there is. *)
ReadAt(s, offset, n) ==
  LET k == Min({n, s.size - offset})
      start == [dst |-> <<>>, left |-> k, block |-> (offset \div MemBlock) + 1, offset |-> offset % MemBlock]
  IN IF offset > s.size THEN [ok |-> FALSE, data |-> <<>>]
     ELSE [ok |-> TRUE, data |-> FoldLeft(LAMBDA r, i : ReadRound(s, r), start, [i \in 1..k |-> i]).dst]

----------------------------------------------------------------------------
(* The files a user has open *)

(* SequentialFileImpl, RandomAccessFileImpl and WritableFileImpl hold a      *)
(* reference; pos is pos_, skip the n of a Skip between its two looks at the *)
(* size; cut is history: the file was emptied since it was opened.           *)
Opened(kind, f) == [kind |-> kind, file |-> f, pos |-> 0, skip |-> 0, cut |-> FALSE]
FileOf(u) == used[u].file
Holds(u, kind) == used[u].kind = kind /\ used[u].skip = 0 /\ ~crashed

(* The call follows a null pointer. *)
Crash ==
  /\ crashed' = TRUE
  /\ UNCHANGED <<fileMap, states, used, written, mounted, orphans>>

MayCall == mounted /\ ~crashed

(* NewSequentialFile, NewRandomAccessFile: not found, or a reference more. *)
NewReadableFile(u, name, kind) ==
  /\ MayCall /\ used[u] = Nothing /\ fileMap[name] # NoFile
  /\ Spend("mems")
  /\ LET f == fileMap[name]
     IN IF f = NullFile THEN Crash
        ELSE /\ states' = [states EXCEPT ![f] = Reffed(@)]
             /\ used' = [used EXCEPT ![u] = Opened(kind, f)]
             /\ UNCHANGED <<fileMap, written, mounted, orphans, crashed>>

(* NewWritableFile: a new state for a new name; the state of a name that is  *)
(* there is emptied, under whoever has it open.                              *)
NewWritableFile(u, name) ==
  /\ MayCall /\ used[u] = Nothing
  /\ Spend("mems")
  /\ LET f == fileMap[name]
         new == Len(states) + 1
     IN \/ /\ f = NoFile
           /\ states' = Append(states, Reffed(Reffed(NewState)))
           /\ fileMap' = [fileMap EXCEPT ![name] = new]
           /\ used' = [used EXCEPT ![u] = Opened("write", new)]
           /\ UNCHANGED <<written, mounted, orphans, crashed>>
        \/ f = NullFile /\ Crash
        \/ /\ f > NullFile
           /\ states' = [states EXCEPT ![f] = Reffed(Emptied(@))]
           /\ used' = [[v \in Users |-> IF used[v] # Nothing /\ FileOf(v) = f
                                          THEN [used[v] EXCEPT !.cut = TRUE] ELSE used[v]]
                         EXCEPT ![u] = Opened("write", f)]
           /\ UNCHANGED <<fileMap, written, mounted, orphans, crashed>>

(* NewAppendableFile: a new name is put into the map with a null pointer,    *)
(* and the state made for it, with a reference for the name, never replaces  *)
(* that: what is appended cannot be found again.                             *)
NewAppendableFile(u, name) ==
  /\ MayCall /\ used[u] = Nothing
  /\ Spend("mems")
  /\ LET f == fileMap[name]
         new == Len(states) + 1
     IN \/ /\ f > NullFile
           /\ states' = [states EXCEPT ![f] = Reffed(@)]
           /\ used' = [used EXCEPT ![u] = Opened("write", f)]
           /\ UNCHANGED <<fileMap, orphans>>
        \/ /\ f <= NullFile
           /\ states' = Append(states, Reffed(Reffed(NewState)))
           /\ fileMap' = [fileMap EXCEPT ![name] = NullFile]
           /\ used' = [used EXCEPT ![u] = Opened("write", new)]
           /\ orphans' = orphans \cup {new}
  /\ UNCHANGED <<written, mounted, crashed>>

(* WritableFileImpl::Append; Close, Flush and Sync do nothing. *)
AppendToFile(u, n) ==
  /\ Holds(u, "write")
  /\ Spend("mems")
  /\ states' = [states EXCEPT ![FileOf(u)] = Appended(@, [i \in 1..n |-> written + i])]
  /\ written' = written + n
  /\ UNCHANGED <<fileMap, used, mounted, orphans, crashed>>

(* SequentialFileImpl::Read: on success the position moves. *)
ReadOn(u, n) ==
  /\ Holds(u, "sequential")
  /\ Spend("mems")
  /\ used' = [used EXCEPT ![u].pos = @ + Len(ReadAt(states[FileOf(u)], @, n).data)]
  /\ UNCHANGED <<fileMap, states, written, mounted, orphans, crashed>>

(* SequentialFileImpl::Skip, its first look at the size: an error behind the *)
(* end.                                                                      *)
SkipCheck(u, n) ==
  /\ Holds(u, "sequential")
  /\ used[u].pos <= states[FileOf(u)].size
  /\ Spend("mems")
  /\ used' = [used EXCEPT ![u].skip = n]
  /\ UNCHANGED <<fileMap, states, written, mounted, orphans, crashed>>

(* The second one: no further than the end, unless the file was emptied in   *)
(* between and the difference wraps around.                                  *)
SkipMove(u) ==
  /\ used[u] # Nothing /\ used[u].skip > 0 /\ ~crashed
  /\ LET available == (states[FileOf(u)].size - used[u].pos) % Word
     IN used' = [used EXCEPT ![u].pos = (@ + Min({used[u].skip, available})) % Word, ![u].skip = 0]
  /\ UNCHANGED <<plan, fileMap, states, written, mounted, orphans, crashed>>

(* The file object is deleted. *)
CloseFile(u) ==
  /\ used[u] # Nothing /\ used[u].skip = 0 /\ ~crashed
  /\ states' = [states EXCEPT ![FileOf(u)] = Unreffed(@)]
  /\ used' = [used EXCEPT ![u] = Nothing]
  /\ UNCHANGED <<plan, fileMap, written, mounted, orphans, crashed>>

----------------------------------------------------------------------------
(* Names *)

(* DeleteFileInternal, which does nothing for a name that is not there. *)
DropName(S, f) == IF f = NoFile THEN S ELSE [S EXCEPT ![f] = Unreffed(@)]

DeleteFile(name) ==
  /\ MayCall /\ fileMap[name] # NoFile
  /\ Spend("mems")
  /\ IF fileMap[name] = NullFile THEN Crash
     ELSE /\ states' = DropName(states, fileMap[name])
          /\ fileMap' = [fileMap EXCEPT ![name] = NoFile]
          /\ UNCHANGED <<used, written, mounted, orphans, crashed>>

(* GetFileSize answers the size of the state. *)
GetFileSize(name) ==
  /\ MayCall /\ fileMap[name] = NullFile
  /\ Spend("mems")
  /\ Crash

(* Mutant: the file the target named keeps the reference of its name. *)
RenameOver(src, target) ==
  /\ MayCall /\ src # target /\ fileMap[src] # NoFile
  /\ Spend("mems")
  /\ fileMap' = [fileMap EXCEPT ![target] = fileMap[src], ![src] = NoFile]
  /\ UNCHANGED <<states, used, written, mounted, orphans, crashed>>

(* RenameFile: the file the target named goes.  The database never renames a *)
(* file to itself.                                                           *)
RenameFile(src, target) ==
  /\ MayCall /\ src # target /\ fileMap[src] # NoFile
  /\ Spend("mems")
  /\ IF fileMap[target] = NullFile THEN Crash
     ELSE /\ states' = DropName(states, fileMap[target])
          /\ fileMap' = [fileMap EXCEPT ![target] = fileMap[src], ![src] = NoFile]
          /\ UNCHANGED <<used, written, mounted, orphans, crashed>>

(* ~InMemoryEnv: every name gives its reference back. *)
DeleteEnv ==
  /\ MayCall
  /\ Spend("unmounts")
  /\ IF \E n \in Names : fileMap[n] = NullFile THEN Crash
     ELSE /\ states' = [f \in DOMAIN states |->
                          IF \E n \in Names : fileMap[n] = f THEN Unreffed(states[f]) ELSE states[f]]
          /\ fileMap' = [n \in Names |-> NoFile]
          /\ mounted' = FALSE
          /\ UNCHANGED <<used, written, orphans, crashed>>

FileStep(u) ==
  \/ \E name \in Names, kind \in {"sequential", "random"} : NewReadableFile(u, name, kind)
  \/ \E name \in Names : NewWritableFile(u, name) \/ NewAppendableFile(u, name)
  \/ \E n \in Lengths : AppendToFile(u, n) \/ ReadOn(u, n) \/ SkipCheck(u, n)
  \/ SkipMove(u)
  \/ CloseFile(u)

MemNext ==
  \/ \E u \in Users : FileStep(u)
  \/ \E name \in Names : DeleteFile(name) \/ GetFileSize(name)
  \/ \E src, target \in Names : RenameFile(src, target)
  \/ DeleteEnv

MemInit ==
  /\ fileMap = [n \in Names |-> NoFile]
  /\ states = <<>>
  /\ used = [u \in Users |-> Nothing]
  /\ written = 0
  /\ mounted = TRUE
  /\ orphans = {}
  /\ crashed = FALSE

----------------------------------------------------------------------------
(* The references of a state are its name and its open files, and nothing    *)
(* else but the one of a name that NewAppendableFile forgot: no file is      *)
(* freed under its user and no other is kept for nobody, through renames,    *)
(* deletions and the end of the environment.                                 *)
RefsCounted ==
  \A f \in DOMAIN states :
    states[f].refs = Cardinality({n \in Names : fileMap[n] = f})
                     + Cardinality({u \in Users : used[u] # Nothing /\ FileOf(u) = f})
                     + (IF f \in orphans THEN 1 ELSE 0)

(* Whatever the blocks the bytes lie in, a read of any length at any offset  *)
(* gives what was appended there.                                            *)
ReadsAreRight ==
  \A f \in DOMAIN states : \A offset \in 0..(states[f].size + 1), n \in 0..(states[f].size + 1) :
    ReadAt(states[f], offset, n) =
      IF offset > Len(states[f].bytes) THEN [ok |-> FALSE, data |-> <<>>]
      ELSE [ok |-> TRUE, data |-> SubSeq(states[f].bytes, offset + 1,
                                         Min({offset + n, Len(states[f].bytes)}))]

(* A file is there for as long as anyone can reach it and no longer, and no  *)
(* call follows a null pointer before NewAppendableFile has been called for  *)
(* a name that was not there.                                                *)
MemRefsOK ==
  /\ RefsCounted
  /\ \A n \in Names : fileMap[n] \in DOMAIN states \cup {NoFile, NullFile}
  /\ crashed => orphans # {}

(* A file in memory is what was written to it, and a reader is never behind  *)
(* its end unless the file was emptied under it.                             *)
MemFilesOK ==
  /\ ReadsAreRight
  /\ \A u \in Users : used[u] # Nothing /\ ~used[u].cut => used[u].pos <= states[FileOf(u)].size
=============================================================================
