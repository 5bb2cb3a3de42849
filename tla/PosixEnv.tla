------------------------------ MODULE PosixEnv ------------------------------
(***************************************************************************)
(* The process-wide services of LevelDB's POSIX environment                *)
(* (util/env_posix.cc): the lock file that keeps a database to one         *)
(* instance, the background work queue with its one thread, and the two    *)
(* counters that limit how many memory maps and file descriptors the       *)
(* read-only files may keep.  TableCache builds on this module.            *)
(*                                                                         *)
(* Several processes try to lock one file.  fcntl locks belong to the      *)
(* process and not to the descriptor, and closing ANY descriptor of the    *)
(* file drops them: that is why the code keeps its own table of locked     *)
(* names, and what the model is about.                                     *)
(***************************************************************************)
EXTENDS Integers, Sequences, FiniteSets

CONSTANTS
  Clients,    \* threads that open and close the database
  Home,       \* the process of each client
  Plans,      \* the scenarios: how much of each operation may happen
  MaxMmaps,   \* the limit of mmap_limiter_
  MaxFds,     \* the limit of fd_limiter_
  None

ASSUME LimitsAssumption == MaxMmaps \in Nat /\ MaxFds \in Nat

Procs == {Home[c] : c \in Clients}

(* None stands for nobody. *)
ASSUME OwnerAssumption == None \notin Procs

VARIABLES
  plan,        \* what is left of the scenario
  at,          \* at[c]: where client c is in LockFile or UnlockFile
  locked,      \* locked[p]: the file's name is in locks_ of process p
  owner,       \* the process that holds the fcntl lock, or None
  lapsed,      \* history: a close dropped the lock under a client that holds it
  scheduled,   \* history: the items given to Schedule, in order
  queue,       \* background_work_queue_
  ran,         \* history: the items the background thread has finished
  worker,      \* the background thread: "none", "free", "waiting" or "running"
  current      \* the item it is running, if any

lockVars == <<at, locked, owner, lapsed>>
workVars == <<scheduled, queue, ran, worker, current>>

(* One unit of the scenario's budget for an operation is used up. *)
Spend(what) ==
  /\ plan[what] > 0
  /\ plan' = [plan EXCEPT ![what] = @ - 1]

----------------------------------------------------------------------------
(* The lock file *)

Places == {"out", "opened", "refused", "entered", "failed", "closed",
           "in", "unlocked", "removed"}

Go(c, place) == at' = [at EXCEPT ![c] = place]

(* What closing a descriptor of the lock file does in process p: POSIX drops *)
(* the process's lock on the file, whichever descriptor it was taken with.   *)
Close(p) ==
  /\ owner' = IF owner = p THEN None ELSE owner
  /\ lapsed' = (lapsed \/ (owner = p /\ \E c \in Clients : Home[c] = p /\ at[c] = "in"))

(* LockFile opens the file first. *)
LockOpen(c) ==
  /\ at[c] = "out"
  /\ Spend("locks")
  /\ Go(c, "opened")
  /\ UNCHANGED <<locked, owner, lapsed>>

(* Mutant: the name is looked up and the answer ignored. *)
InsertIgnored(c) ==
  /\ at[c] = "opened"
  /\ locked' = [locked EXCEPT ![Home[c]] = TRUE]
  /\ Go(c, "entered")
  /\ UNCHANGED <<plan, owner, lapsed>>

(* PosixLockTable::Insert: refused if this process has the name already. *)
LockInsert(c) ==
  /\ at[c] = "opened"
  /\ locked' = [locked EXCEPT ![Home[c]] = TRUE]
  /\ Go(c, IF locked[Home[c]] THEN "refused" ELSE "entered")
  /\ UNCHANGED <<plan, owner, lapsed>>

(* "already held by process": the descriptor just opened is closed. *)
LockRefused(c) ==
  /\ at[c] = "refused"
  /\ Close(Home[c])
  /\ Go(c, "out")
  /\ UNCHANGED <<plan, locked>>

(* LockOrUnlock(fd, true): fcntl refuses only what another process holds. *)
LockSet(c) ==
  /\ at[c] = "entered"
  /\ \/ /\ owner \in {None, Home[c]}
        /\ owner' = Home[c]
        /\ Go(c, "in")
     \/ /\ owner \notin {None, Home[c]}
        /\ Go(c, "failed")
        /\ UNCHANGED owner
  /\ UNCHANGED <<plan, locked, lapsed>>

(* The lock is another process's: close, then take the name out again. *)
LockFailed(c) ==
  /\ UNCHANGED plan
  /\ \/ /\ at[c] = "failed"
        /\ Close(Home[c])
        /\ Go(c, "closed")
        /\ UNCHANGED locked
     \/ /\ at[c] = "closed"
        /\ locked' = [locked EXCEPT ![Home[c]] = FALSE]
        /\ Go(c, "out")
        /\ UNCHANGED <<owner, lapsed>>

(* UnlockFile: the fcntl lock goes first, then the name, then the descriptor. *)
Unlock(c) ==
  /\ UNCHANGED plan
  /\ \/ /\ at[c] = "in"
        /\ owner' = IF owner = Home[c] THEN None ELSE owner
        /\ Go(c, "unlocked")
        /\ UNCHANGED <<locked, lapsed>>
     \/ /\ at[c] = "unlocked"
        /\ locked' = [locked EXCEPT ![Home[c]] = FALSE]
        /\ Go(c, "removed")
        /\ UNCHANGED <<owner, lapsed>>
     \/ /\ at[c] = "removed"
        /\ Close(Home[c])
        /\ Go(c, "out")
        /\ UNCHANGED locked

(* fcntl fails to unlock: UnlockFile returns the error, ~DBImpl ignores it,  *)
(* and the name, the lock and the descriptor stay for the process's lifetime. *)
UnlockError(c) ==
  /\ at[c] = "in"
  /\ Spend("errors")
  /\ Go(c, "out")
  /\ UNCHANGED <<locked, owner, lapsed>>

(* A process ends, or is killed: the kernel closes its descriptors. *)
Exit(p) ==
  /\ Spend("exits")
  /\ \E c \in Clients : Home[c] = p /\ at[c] # "out"
  /\ at' = [c \in Clients |-> IF Home[c] = p THEN "out" ELSE at[c]]
  /\ locked' = [locked EXCEPT ![p] = FALSE]
  /\ owner' = IF owner = p THEN None ELSE owner
  /\ UNCHANGED lapsed

LockStep(c) ==
  \/ LockOpen(c)
  \/ LockInsert(c)
  \/ LockRefused(c)
  \/ LockSet(c)
  \/ LockFailed(c)
  \/ Unlock(c)
  \/ UnlockError(c)

LockNext ==
  /\ \/ \E c \in Clients : LockStep(c)
     \/ \E p \in Procs : Exit(p)
  /\ UNCHANGED workVars

----------------------------------------------------------------------------
(* The background thread *)

(* Mutant: the queue's emptiness is tested once the item is in it. *)
SignalTooLate ==
  IF worker = "none" THEN "free" ELSE worker

(* Schedule starts the thread at the first call, and signals it only when   *)
(* the queue is empty: a signal that finds nobody waiting is lost.          *)
Signal ==
  CASE worker = "none" -> "free"
    [] worker = "waiting" /\ queue = <<>> -> "free"
    [] OTHER -> worker

Schedule(item) ==
  /\ Spend("items")
  /\ worker' = Signal
  /\ queue' = Append(queue, item)
  /\ scheduled' = Append(scheduled, item)
  /\ UNCHANGED <<ran, current>>

FrontItem == queue[1]

(* BackgroundThreadMain: under the mutex it waits while the queue is empty,  *)
(* otherwise pops the front; the item itself runs outside the mutex.        *)
WorkerTakes ==
  /\ worker = "free"
  /\ \/ /\ queue = <<>>
        /\ worker' = "waiting"
        /\ UNCHANGED <<queue, current>>
     \/ /\ queue # <<>>
        /\ worker' = "running"
        /\ current' = <<FrontItem>>
        /\ queue' = Tail(queue)
  /\ UNCHANGED <<plan, scheduled, ran>>

WorkerRuns ==
  /\ worker = "running"
  /\ ran' = ran \o current
  /\ worker' = "free"
  /\ current' = <<>>
  /\ UNCHANGED <<plan, scheduled, queue>>

WorkStep == WorkerTakes \/ WorkerRuns

(* Each call schedules a new item. *)
WorkNext ==
  /\ WorkStep \/ Schedule(Len(scheduled) + 1)
  /\ UNCHANGED lockVars

----------------------------------------------------------------------------
EnvInit ==
  /\ plan \in Plans
  /\ at = [c \in Clients |-> "out"]
  /\ locked = [p \in Procs |-> FALSE]
  /\ owner = None
  /\ lapsed = FALSE
  /\ scheduled = <<>>
  /\ queue = <<>>
  /\ ran = <<>>
  /\ worker = "none"
  /\ current = <<>>

EnvTypeOK ==
  /\ at \in [Clients -> Places]
  /\ locked \in [Procs -> BOOLEAN]
  /\ owner \in Procs \cup {None}
  /\ lapsed \in BOOLEAN
  /\ \A i \in 1..Len(queue) : queue[i] \in 1..Len(scheduled)
  /\ worker \in {"none", "free", "waiting", "running"}
  /\ worker = "running" <=> Len(current) = 1

Inside(p) == {c \in Clients : Home[c] = p /\ at[c] = "in"}

(* LockFile lets one instance in.  Within a process the table of names       *)
(* guarantees it whatever happens to the fcntl lock; between processes it    *)
(* holds as long as no close of another descriptor has dropped the lock      *)
(* under its holder: a refused LockFile of the same process does that, and   *)
(* so does the last step of an UnlockFile that the next LockFile overtakes.  *)
OneInstance ==
  /\ \A p \in Procs : Cardinality(Inside(p)) <= 1
  /\ lapsed \/ Cardinality({p \in Procs : Inside(p) # {}}) <= 1

(* Work given to Schedule runs in that order, each item once, none lost      *)
(* between the queue and the thread.                                         *)
WorkInOrder == scheduled = ran \o current \o queue

(* No wake-up is lost: whatever is scheduled is run, although Schedule       *)
(* signals only on an empty queue and the thread may be anywhere in its loop. *)
WorkIsDone == (queue # <<>>) ~> (queue = <<>>)
=============================================================================
