------------------------- MODULE EnvironmentProofs --------------------------
(***************************************************************************)
(* Proofs about the services of the environment: the lock file for any     *)
(* number of threads and processes, the background queue for any number of *)
(* items, the cache of tables for any readers, files and limits, and the   *)
(* references of the files in memory for any names and users.              *)
(***************************************************************************)
EXTENDS Environment, Integers, Sequences, FiniteSets, FiniteSetTheorems, WellFoundedInduction, SequenceTheorems, TLAPS

(* A queue is its head and its tail.                                       *)
LEMMA HeadAndTail ==
    ASSUME NEW S, NEW q \in Seq(S), q # <<>>
    PROVE  <<q[1]>> \o Tail(q) = q
OBVIOUS

(* What an item added to a queue changes.                                  *)
LEMMA AppendFacts ==
    ASSUME NEW S, NEW q \in Seq(S), NEW f \in S
    PROVE  /\ Append(q, f) \in Seq(S) /\ Len(Append(q, f)) = Len(q) + 1 /\ Len(q) \in Nat
           /\ DOMAIN Append(q, f) = 1..(Len(q) + 1) /\ DOMAIN q = 1..Len(q)
           /\ DOMAIN Append(q, f) = DOMAIN q \cup {Len(q) + 1}
           /\ \A i \in DOMAIN q : /\ i \in Nat /\ i < Len(q) + 1
                                  /\ i \in DOMAIN Append(q, f) /\ Append(q, f)[i] = q[i]
           /\ Append(q, f)[Len(q) + 1] = f
<1>1. /\ Append(q, f) \in Seq(S) /\ Len(Append(q, f)) = Len(q) + 1 /\ Len(q) \in Nat
      /\ DOMAIN Append(q, f) = 1..(Len(q) + 1) /\ DOMAIN q = 1..Len(q)
      /\ \A i \in DOMAIN q : Append(q, f)[i] = q[i]
      /\ Append(q, f)[Len(q) + 1] = f
  OBVIOUS
<1> QED  BY <1>1

Distinct(r) == \A i, j \in DOMAIN r : r[i] = r[j] => i = j

-----------------------------------------------------------------------------
(* The lock file.                                                          *)

(* Where a client's name is in the table of its process. *)
Named == {"entered", "failed", "closed", "in", "unlocked"}

LockTypeOK ==
  /\ at \in [Clients -> Places] /\ locked \in [Procs -> BOOLEAN]
  /\ owner \in Procs \cup {None} /\ lapsed \in BOOLEAN

(* The name is entered for one client of a process at a time. *)
NamesInv ==
  /\ \A c \in Clients : at[c] \in Named => locked[Home[c]]
  /\ \A c, d \in Clients : Home[c] = Home[d] /\ at[c] \in Named /\ at[d] \in Named => c = d

(* Unless a close has dropped it, who is in has the lock. *)
OwnerInv == lapsed \/ \A c \in Clients : at[c] = "in" => owner = Home[c]

LockInv == LockTypeOK /\ NamesInv /\ OwnerInv

(* What the process p does to the lock when it closes a descriptor.        *)
LEMMA CloseStep ==
    ASSUME LockInv, NEW c \in Clients, Close(Home[c])
    PROVE  /\ owner' \in Procs \cup {None} /\ lapsed' \in BOOLEAN
           /\ lapsed' \/ \A d \in Clients : at[d] = "in" => owner' = Home[d]
BY DEF LockInv, LockTypeOK, OwnerInv, Close, Procs

(* A step of a client.                                                     *)
LEMMA ClientStep ==
    ASSUME LockInv, NEW c \in Clients, LockStep(c)
    PROVE  LockInv'
<1>1. /\ at \in [Clients -> Places] /\ locked \in [Procs -> BOOLEAN] /\ Home[c] \in Procs
      /\ owner \in Procs \cup {None} /\ lapsed \in BOOLEAN
      /\ \A d \in Clients : Home[d] \in Procs /\ Home[d] # None
  BY OwnerAssumption DEF LockInv, LockTypeOK, Procs
<1> USE DEF LockInv, LockTypeOK, NamesInv, OwnerInv, Go, Places, Named
<1>2. CASE LockOpen(c)
  BY <1>1, <1>2 DEF LockOpen
<1>3. CASE LockInsert(c)
  BY <1>1, <1>3 DEF LockInsert
<1>4. CASE LockRefused(c)
  BY <1>1, <1>4, CloseStep DEF LockRefused
<1>5. CASE LockSet(c)
  BY <1>1, <1>5 DEF LockSet
<1>6. CASE LockFailed(c)
  <2>1. CASE at[c] = "failed" /\ Close(Home[c]) /\ Go(c, "closed") /\ UNCHANGED locked
    BY <1>1, <2>1, CloseStep
  <2>2. CASE /\ at[c] = "closed" /\ locked' = [locked EXCEPT ![Home[c]] = FALSE] /\ Go(c, "out")
             /\ UNCHANGED <<owner, lapsed>>
    BY <1>1, <2>2
  <2> QED  BY <1>6, <2>1, <2>2 DEF LockFailed
<1>7. CASE Unlock(c)
  <2>1. CASE /\ at[c] = "in" /\ owner' = (IF owner = Home[c] THEN None ELSE owner)
             /\ Go(c, "unlocked") /\ UNCHANGED <<locked, lapsed>>
    BY <1>1, <2>1
  <2>2. CASE /\ at[c] = "unlocked" /\ locked' = [locked EXCEPT ![Home[c]] = FALSE]
             /\ Go(c, "removed") /\ UNCHANGED <<owner, lapsed>>
    BY <1>1, <2>2
  <2>3. CASE at[c] = "removed" /\ Close(Home[c]) /\ Go(c, "out") /\ UNCHANGED locked
    BY <1>1, <2>3, CloseStep
  <2> QED  BY <1>7, <2>1, <2>2, <2>3 DEF Unlock
<1>8. CASE UnlockError(c)
  BY <1>1, <1>8 DEF UnlockError
<1> QED  BY <1>2, <1>3, <1>4, <1>5, <1>6, <1>7, <1>8 DEF LockStep

(* The end of a process.                                                   *)
LEMMA ExitStep ==
    ASSUME LockInv, NEW p \in Procs, Exit(p)
    PROVE  LockInv'
<1>1. \A d \in Clients : Home[d] \in Procs
  BY DEF Procs
<1>2. /\ at \in [Clients -> Places] /\ locked \in [Procs -> BOOLEAN]
      /\ owner \in Procs \cup {None} /\ lapsed \in BOOLEAN
      /\ at' = [c \in Clients |-> IF Home[c] = p THEN "out" ELSE at[c]]
      /\ locked' = [locked EXCEPT ![p] = FALSE]
      /\ owner' = (IF owner = p THEN None ELSE owner) /\ lapsed' = lapsed
  BY DEF Exit, LockInv, LockTypeOK
<1>3. LockTypeOK'
  BY <1>2 DEF LockTypeOK, Places
<1>4. \A d \in Clients : at'[d] # "out" => Home[d] # p /\ at'[d] = at[d]
  BY <1>2
<1>5. NamesInv'
  BY <1>1, <1>2, <1>4 DEF LockInv, NamesInv, Named
<1>6. OwnerInv'
  BY <1>2, <1>4 DEF LockInv, OwnerInv
<1> QED  BY <1>3, <1>5, <1>6 DEF LockInv

(* A set whose elements are all equal has at most one.                     *)
LEMMA AtMostOne ==
    ASSUME NEW S, \A x, y \in S : x = y
    PROVE  Cardinality(S) <= 1
<1>1. CASE S = {}
  BY <1>1, FS_EmptySet
<1>2. CASE S # {}
  <2>1. PICK x : S = {x}
    BY <1>2
  <2> QED  BY <2>1, FS_Singleton
<1> QED  BY <1>1, <1>2

(* LockInv is inductive for whatever else the environment does.            *)
LEMMA LockInductive ==
    /\ EnvironmentInit => LockInv
    /\ LockInv /\ [EnvironmentNext]_allVars => LockInv'
<1>1. ASSUME EnvironmentInit  PROVE LockInv
  <2>1. /\ at = [c \in Clients |-> "out"] /\ locked = [p \in Procs |-> FALSE]
        /\ owner = None /\ lapsed = FALSE
    BY <1>1 DEF EnvironmentInit, Init, EnvInit
  <2>2. \A c \in Clients : at[c] = "out"
    BY <2>1
  <2>3. LockTypeOK
    BY <2>1 DEF LockTypeOK, Places
  <2> QED  BY <2>2, <2>3 DEF LockInv, NamesInv, OwnerInv, Named
<1>2. ASSUME LockInv, UNCHANGED lockVars  PROVE LockInv'
  BY <1>2 DEF lockVars, LockInv, LockTypeOK, NamesInv, OwnerInv
<1>3. EnvironmentNext => LockNext \/ UNCHANGED lockVars
  BY DEF EnvironmentNext, Next, TableNext, WorkNext
<1>4. ASSUME LockInv, LockNext  PROVE LockInv'
  BY <1>4, ClientStep, ExitStep DEF LockNext
<1>5. UNCHANGED allVars => UNCHANGED lockVars
  BY DEF allVars, vars
<1> QED  BY <1>1, <1>2, <1>3, <1>4, <1>5

(* However many threads of however many processes open, close, fail and    *)
(* die: LockFile lets one client of a process in, and one process, unless  *)
(* a close of another descriptor has dropped the lock under its holder.    *)
THEOREM OneInstanceIsIn == EnvironmentSpec => []OneInstance
<1>1. LockInv => OneInstance
  <2> SUFFICES ASSUME LockInv  PROVE OneInstance
    OBVIOUS
  <2>1. ASSUME NEW p \in Procs  PROVE Cardinality(Inside(p)) <= 1
    <3>1. \A c, d \in Inside(p) : c = d
      BY DEF LockInv, NamesInv, Named, Inside
    <3> QED  BY <3>1, AtMostOne
  <2>2. ASSUME ~lapsed  PROVE Cardinality({p \in Procs : Inside(p) # {}}) <= 1
    <3>1. \A p, q \in {r \in Procs : Inside(r) # {}} : p = q
      BY <2>2 DEF LockInv, OwnerInv, Inside
    <3> QED  BY <3>1, AtMostOne
  <2> QED  BY <2>1, <2>2 DEF OneInstance
<1> QED  BY <1>1, LockInductive, PTL DEF EnvironmentSpec

-----------------------------------------------------------------------------
(* The background thread.                                                  *)

(* What the thread has taken is what it runs. *)
WorkInv ==
  /\ scheduled \in Seq(Nat) /\ queue \in Seq(Nat) /\ ran \in Seq(Nat)
  /\ worker \in {"none", "free", "waiting", "running"}
  /\ IF worker = "running" THEN \E i \in Nat : current = <<i>> ELSE current = <<>>
  /\ \A i \in 1..Len(queue) : queue[i] \in 1..Len(scheduled)
  /\ WorkInOrder

(* An item is scheduled, taken or finished.                                *)
LEMMA WorkSteps ==
    ASSUME WorkInv, WorkNext
    PROVE  WorkInv'
<1>1. /\ scheduled \in Seq(Nat) /\ queue \in Seq(Nat) /\ ran \in Seq(Nat)
      /\ current \in Seq(Nat) /\ <<>> \in Seq(Nat)
      /\ worker \in {"none", "free", "waiting", "running"}
      /\ scheduled = (ran \o current) \o queue
      /\ Len(scheduled) \in Nat
  BY DEF WorkInv, WorkInOrder
<1>2. ran \o current \in Seq(Nat)
  BY <1>1, ConcatProperties
<1>3. CASE Schedule(Len(scheduled) + 1)
  <2> DEFINE i == Len(scheduled) + 1
  <2>1. /\ worker' = Signal /\ queue' = Append(queue, i) /\ scheduled' = Append(scheduled, i)
        /\ ran' = ran /\ current' = current
    BY <1>3 DEF Schedule
  <2>2. i \in Nat
    BY <1>1
  <2> HIDE DEF i
  <2>3. /\ Signal \in {"none", "free", "waiting", "running"} /\ (Signal = "running" <=> worker = "running")
    BY <1>1 DEF Signal
  <2>4. Append(scheduled, i) = (ran \o current) \o Append(queue, i)
    <3>1. Append(queue, i) = queue \o <<i>> /\ Append(scheduled, i) = scheduled \o <<i>>
      BY <1>1, <2>2, AppendIsConcat
    <3>2. <<i>> \in Seq(Nat)
      BY <2>2
    <3>3. ((ran \o current) \o queue) \o <<i>> = (ran \o current) \o (queue \o <<i>>)
      <4> DEFINE a == ran \o current
                 b == <<i>>
      <4>1. a \in Seq(Nat) /\ b \in Seq(Nat) /\ queue \in Seq(Nat)
        BY <1>1, <1>2, <3>2
      <4> HIDE DEF a, b
      <4>2. (a \o queue) \o b = a \o (queue \o b)
        BY <4>1, ConcatAssociative, SMTT(30)
      <4> QED  BY <4>2 DEF a, b
    <3> QED  BY <1>1, <3>1, <3>3
  <2>5. \A j \in 1..Len(queue') : queue'[j] \in 1..Len(scheduled')
    <3>1. /\ Len(queue') = Len(queue) + 1 /\ Len(scheduled') = Len(scheduled) + 1
          /\ \A j \in 1..Len(queue) : queue'[j] = queue[j]
          /\ queue'[Len(queue) + 1] = i /\ Len(queue) \in Nat
      BY <1>1, <2>1, <2>2, AppendProperties
    <3>2. \A j \in 1..Len(queue) : queue[j] \in 1..Len(scheduled)
      BY DEF WorkInv
    <3>3. i \in 1..Len(scheduled')
      BY <1>1, <3>1 DEF i
    <3>4. \A j \in 1..Len(queue') : j = Len(queue) + 1 \/ j \in 1..Len(queue)
      BY <3>1
    <3>5. \A k \in 1..Len(scheduled) : k \in 1..Len(scheduled')
      BY <1>1, <3>1
    <3> QED  BY <3>1, <3>2, <3>3, <3>4, <3>5
  <2>6. queue' \in Seq(Nat) /\ scheduled' \in Seq(Nat)
    BY <1>1, <2>1, <2>2, AppendProperties
  <2> QED  BY <2>1, <2>3, <2>4, <2>5, <2>6 DEF WorkInv, WorkInOrder
<1>4. CASE WorkerTakes
  <2>1. worker = "free" /\ current = <<>> /\ scheduled' = scheduled /\ ran' = ran
    BY <1>4 DEF WorkerTakes, WorkInv
  <2>2. CASE queue = <<>> /\ worker' = "waiting" /\ UNCHANGED <<queue, current>>
    BY <2>1, <2>2 DEF WorkInv, WorkInOrder
  <2>3. CASE queue # <<>> /\ worker' = "running" /\ current' = <<FrontItem>> /\ queue' = Tail(queue)
    <3> DEFINE x == queue[1]
    <3>1. x \in Nat /\ Tail(queue) \in Seq(Nat) /\ <<x>> \in Seq(Nat)
      BY <1>1, <2>3
    <3>2. queue = <<x>> \o Tail(queue)
      BY <1>1, <2>3, HeadAndTail
    <3>3. (ran \o <<x>>) \o Tail(queue) = ran \o queue
      <4> DEFINE a == Tail(queue)
                 b == <<x>>
      <4>1. a \in Seq(Nat) /\ b \in Seq(Nat) /\ ran \in Seq(Nat)
        BY <1>1, <3>1
      <4> HIDE DEF a, b
      <4>2. (ran \o b) \o a = ran \o (b \o a)
        BY <4>1, ConcatAssociative, SMTT(30)
      <4> QED  BY <3>2, <4>2 DEF a, b
    <3>4. scheduled = ran \o queue
      BY <1>1, <2>1, ConcatEmptySeq
    <3>5. \A j \in 1..Len(queue') : queue'[j] \in 1..Len(scheduled')
      <4>1. \A j \in 1..Len(queue) : queue[j] \in 1..Len(scheduled)
        BY DEF WorkInv
      <4>2. /\ Len(queue') = Len(queue) - 1 /\ Len(queue) \in Nat
            /\ \A j \in 1..Len(queue') : queue'[j] = queue[j + 1]
        BY <1>1, <2>3
      <4> QED  BY <2>1, <4>1, <4>2
    <3> HIDE DEF x
    <3>6. current' = <<x>>
      BY <2>3 DEF FrontItem, x
    <3>7. WorkInOrder'
      BY <2>1, <2>3, <3>3, <3>4, <3>6 DEF WorkInOrder
    <3> QED  BY <1>1, <2>1, <2>3, <3>1, <3>5, <3>6, <3>7 DEF WorkInv
  <2> QED  BY <1>4, <2>2, <2>3 DEF WorkerTakes
<1>5. CASE WorkerRuns
  <2>1. /\ ran' = ran \o current /\ worker' = "free" /\ current' = <<>>
        /\ scheduled' = scheduled /\ queue' = queue
    BY <1>5 DEF WorkerRuns
  <2>2. (ran \o current) \o <<>> = ran \o current
    BY <1>2, ConcatEmptySeq
  <2> QED  BY <1>1, <1>2, <2>1, <2>2 DEF WorkInv, WorkInOrder
<1> QED  BY <1>3, <1>4, <1>5 DEF WorkNext, WorkStep

(* WorkInv is inductive for whatever else the environment does.            *)
LEMMA WorkInductive ==
    /\ EnvironmentInit => WorkInv
    /\ WorkInv /\ [EnvironmentNext]_allVars => WorkInv'
<1>1. ASSUME EnvironmentInit  PROVE WorkInv
  <2>1. /\ scheduled = <<>> /\ queue = <<>> /\ ran = <<>> /\ current = <<>> /\ worker = "none"
    BY <1>1 DEF EnvironmentInit, Init, EnvInit
  <2>2. <<>> \in Seq(Nat) /\ Len(<<>>) = 0
    OBVIOUS
  <2>3. <<>> = (<<>> \o <<>>) \o <<>>
    BY <2>2, ConcatEmptySeq
  <2> QED  BY <2>1, <2>2, <2>3 DEF WorkInv, WorkInOrder
<1>2. ASSUME WorkInv, UNCHANGED workVars  PROVE WorkInv'
  BY <1>2 DEF workVars, WorkInv, WorkInOrder
<1>3. EnvironmentNext => WorkNext \/ UNCHANGED workVars
  BY DEF EnvironmentNext, Next, TableNext, LockNext
<1>4. UNCHANGED allVars => UNCHANGED workVars
  BY DEF allVars, vars
<1> QED  BY <1>1, <1>2, <1>3, <1>4, WorkSteps

-----------------------------------------------------------------------------
(* The cache of tables.                                                    *)

HeldBy(h, e) == {t \in Readers : h[t] = e}
Cached(en) == {e \in DOMAIN en : en[e].inCache}

(* Readers are where they are, with a handle while they use a table. *)
ReadersInv ==
  /\ pc \in [Readers -> Stages] /\ file \in [Readers -> Files] /\ kind \in [Readers -> Kinds]
  /\ \A t \in Readers : IF pc[t] = "using" THEN handle[t] # 0 /\ entries[handle[t]].file = file[t]
                                          ELSE handle[t] = 0
  /\ \A t \in Readers : pc[t] # "idle" => file[t] \notin deleted
  /\ deleted \subseteq Files /\ open \in BOOLEAN

(* The books of a shard: its entries, its hash table, its list of unused     *)
(* entries, its charge, and the handles h that readers have.                 *)
Books(en, tb, lr, us, h) ==
  /\ en \in Seq(Entry) /\ tb \in [Files -> 0..Len(en)] /\ h \in [Readers -> 0..Len(en)]
  /\ lr \in Seq(DOMAIN en) /\ Distinct(lr)
  /\ \A f \in Files : tb[f] # 0 => en[tb[f]].inCache /\ en[tb[f]].file = f
  /\ \A e \in DOMAIN en : en[e].inCache => tb[en[e].file] = e
  /\ \A e \in DOMAIN en : e \in Range(lr) <=> en[e].inCache /\ en[e].refs = 1
  /\ us = Cardinality(Cached(en))
  /\ \A e \in DOMAIN en : en[e].refs = Cardinality(HeldBy(h, e)) + (IF en[e].inCache THEN 1 ELSE 0)

ShardInv == Books(entries, table, lru, usage, handle)

LimitInv == mmaps \in Int /\ fds \in Int /\ LimitsKept

CacheInv == ReadersInv /\ ShardInv /\ LimitInv /\ CacheIsBounded

(* How a count changes when one member comes or goes.                      *)
LEMMA CountMove ==
    ASSUME NEW R, IsFiniteSet(R), NEW P \in SUBSET R, NEW Q \in SUBSET R, NEW x,
           P \ {x} = Q \ {x}
    PROVE  /\ Cardinality(P) \in Nat /\ Cardinality(Q) \in Nat
           /\ Cardinality(Q) = Cardinality(P) + (IF x \in Q THEN 1 ELSE 0) - (IF x \in P THEN 1 ELSE 0)
<1>1. IsFiniteSet(P) /\ IsFiniteSet(Q)
  BY FS_Subset
<1>2. Cardinality(P) \in Nat /\ Cardinality(Q) \in Nat
  BY <1>1, FS_CardinalityType
<1>3. /\ Cardinality(P \ {x}) = IF x \in P THEN Cardinality(P) - 1 ELSE Cardinality(P)
      /\ Cardinality(Q \ {x}) = IF x \in Q THEN Cardinality(Q) - 1 ELSE Cardinality(Q)
  BY <1>1, FS_RemoveElement
<1>4. Cardinality(P \ {x}) = Cardinality(Q \ {x})
  OBVIOUS
<1> HIDE DEF Cardinality
<1> QED  BY <1>2, <1>3, <1>4

(* An entry is unlinked from the list of unused entries.                   *)
LEMMA UnlinkedFacts ==
    ASSUME NEW S, NEW q \in Seq(S), Distinct(q), NEW e
    PROVE  /\ Unlinked(q, e) \in Seq(S) /\ Distinct(Unlinked(q, e))
           /\ Range(Unlinked(q, e)) = Range(q) \ {e}
<1>1. CASE ~\E i \in DOMAIN q : q[i] = e
  BY <1>1 DEF Unlinked, Range
<1>2. CASE \E i \in DOMAIN q : q[i] = e
  <2> DEFINE i == CHOOSE i \in DOMAIN q : q[i] = e
             a == SubSeq(q, 1, i - 1)
             b == SubSeq(q, i + 1, Len(q))
             r == a \o b
  <2>1. i \in 1..Len(q) /\ q[i] = e /\ Len(q) \in Nat /\ DOMAIN q = 1..Len(q)
    BY <1>2
  <2>2. Unlinked(q, e) = r
    BY <1>2 DEF Unlinked, RemoveAt
  <2> HIDE DEF i
  <2>3. /\ a \in Seq(S) /\ Len(a) = i - 1 /\ \A j \in 1..(i - 1) : a[j] = q[j]
    BY <2>1
  <2>4. /\ b \in Seq(S) /\ Len(b) = Len(q) - i /\ \A j \in 1..(Len(q) - i) : b[j] = q[i + j]
    <3>1. i + 1 \in Int /\ Len(q) \in Int /\ \A j \in (i + 1)..Len(q) : q[j] \in S
      BY <2>1
    <3>2. /\ b \in Seq(S) /\ Len(b) = IF i + 1 <= Len(q) THEN Len(q) - (i + 1) + 1 ELSE 0
          /\ \A j \in 1..(Len(q) - (i + 1) + 1) : b[j] = q[i + 1 + j - 1]
      BY <3>1, SubSeqProperties
    <3> HIDE DEF b
    <3>3. /\ Len(b) = Len(q) - i /\ Len(q) - (i + 1) + 1 = Len(q) - i
          /\ \A j \in 1..(Len(q) - i) : i + 1 + j - 1 = i + j
      <4>1. i \in Nat /\ Len(q) \in Nat /\ i <= Len(q)
        BY <2>1
      <4>2. Len(b) = Len(q) - i
        BY <3>2, <4>1
      <4> QED  BY <4>1, <4>2
    <3> QED  BY <3>2, <3>3
  <2> HIDE DEF a, b
  <2>5. /\ r \in Seq(S) /\ Len(r) = Len(a) + Len(b)
        /\ \A j \in 1..(Len(a) + Len(b)) : r[j] = IF j <= Len(a) THEN a[j] ELSE b[j - Len(a)]
    BY <2>3, <2>4, ConcatProperties
  <2> HIDE DEF r
  <2>6. /\ DOMAIN r = 1..(Len(q) - 1)
        /\ \A j \in DOMAIN r : j \in Nat /\ r[j] = IF j < i THEN q[j] ELSE q[j + 1]
    <3>1. DOMAIN r = 1..(Len(q) - 1) /\ Len(a) + Len(b) = Len(q) - 1
      BY <2>1, <2>3, <2>4, <2>5
    <3>2. ASSUME NEW j \in 1..(Len(q) - 1)  PROVE r[j] = IF j < i THEN q[j] ELSE q[j + 1]
      <4>1. CASE j < i
        BY <2>1, <2>3, <2>5, <3>1, <4>1
      <4>2. CASE ~(j < i)
        <5>1. /\ j \in 1..(Len(a) + Len(b)) /\ ~(j <= Len(a)) /\ j - Len(a) \in 1..(Len(q) - i)
              /\ i + (j - Len(a)) = j + 1
          BY <2>1, <2>3, <3>1, <4>2
        <5> QED  BY <2>4, <2>5, <4>2, <5>1
      <4> QED  BY <4>1, <4>2
    <3> QED  BY <2>1, <3>1, <3>2
  <2>7. Distinct(r)
    <3> SUFFICES ASSUME NEW j \in DOMAIN r, NEW k \in DOMAIN r, r[j] = r[k]  PROVE j = k
      BY DEF Distinct
    <3>1. \A x, y \in 1..Len(q) : q[x] = q[y] => x = y
      BY <2>1 DEF Distinct
    <3> QED  BY <2>1, <2>6, <3>1
  <2>8. Range(r) = Range(q) \ {e}
    <3>1. \A x, y \in 1..Len(q) : q[x] = q[y] => x = y
      BY <2>1 DEF Distinct
    <3>2. ASSUME NEW j \in DOMAIN r  PROVE r[j] \in Range(q) \ {e}
      <4>1. CASE j < i
        BY <2>1, <2>6, <3>1, <4>1 DEF Range
      <4>2. CASE ~(j < i)
        BY <2>1, <2>6, <3>1, <4>2 DEF Range
      <4> QED  BY <4>1, <4>2
    <3>3. ASSUME NEW j \in DOMAIN q, q[j] # e  PROVE q[j] \in Range(r)
      <4>1. CASE j < i
        <5>1. j \in DOMAIN r /\ r[j] = q[j]
          BY <2>1, <2>6, <4>1
        <5> QED  BY <5>1 DEF Range
      <4>2. CASE ~(j < i)
        <5>1. j - 1 \in DOMAIN r /\ r[j - 1] = q[j]
          BY <2>1, <2>6, <3>3, <4>2
        <5> QED  BY <5>1 DEF Range
      <4> QED  BY <4>1, <4>2
    <3> QED  BY <3>2, <3>3 DEF Range
  <2> QED  BY <2>2, <2>5, <2>7, <2>8
<1> QED  BY <1>1, <1>2

(* An entry becomes the newest of the unused ones.                         *)
LEMMA AppendedFacts ==
    ASSUME NEW S, NEW q \in Seq(S), Distinct(q), NEW e \in S, e \notin Range(q)
    PROVE  /\ Append(q, e) \in Seq(S) /\ Distinct(Append(q, e))
           /\ Range(Append(q, e)) = Range(q) \cup {e}
<1>1. /\ Append(q, e) \in Seq(S) /\ Len(q) \in Nat
      /\ DOMAIN q = 1..Len(q) /\ DOMAIN Append(q, e) = DOMAIN q \cup {Len(q) + 1}
      /\ \A i \in DOMAIN q : Append(q, e)[i] = q[i]
      /\ Append(q, e)[Len(q) + 1] = e
  BY AppendFacts
<1> DEFINE r == Append(q, e)
<1> HIDE DEF r
<1>2. Range(r) = Range(q) \cup {e}
  <2>1. \A i \in DOMAIN r : r[i] \in Range(q) \cup {e}
    BY <1>1 DEF Range, r
  <2>2. \A i \in DOMAIN q : q[i] \in Range(r)
    BY <1>1 DEF Range, r
  <2>3. e \in Range(r)
    <3>1. Len(q) + 1 \in DOMAIN r /\ r[Len(q) + 1] = e
      BY <1>1 DEF r
    <3> QED  BY <3>1 DEF Range
  <2> QED  BY <2>1, <2>2, <2>3 DEF Range
<1>3. Distinct(r)
  <2>1. \A i \in DOMAIN q : q[i] # e
    BY DEF Range
  <2> QED  BY <1>1, <2>1 DEF Distinct, r
<1> QED  BY <1>1, <1>2, <1>3 DEF r

-----------------------------------------------------------------------------
(* How the books of a shard change.                                        *)

(* What can be read off the books.                                         *)
LEMMA BookFacts ==
    ASSUME NEW en, NEW tb, NEW lr, NEW us, NEW h, Books(en, tb, lr, us, h)
    PROVE  /\ en \in Seq(Entry) /\ Len(en) \in Nat /\ DOMAIN en = 1..Len(en) /\ 0 \notin DOMAIN en
           /\ IsFiniteSet(DOMAIN en)
           /\ \A e \in DOMAIN en : /\ en[e] \in Entry /\ en[e].file \in Files /\ en[e].kind \in Kinds
                                   /\ en[e].refs \in Nat /\ en[e].inCache \in BOOLEAN
           /\ tb \in [Files -> Nat] /\ \A f \in Files : tb[f] # 0 => tb[f] \in DOMAIN en
           /\ lr \in Seq(Nat) /\ Range(lr) \subseteq DOMAIN en
           /\ us \in Nat
           /\ \A e : /\ IsFiniteSet(HeldBy(h, e)) /\ Cardinality(HeldBy(h, e)) \in Nat
                     /\ HeldBy(h, e) \subseteq Readers
<1>1. /\ en \in Seq(Entry) /\ Len(en) \in Nat /\ DOMAIN en = 1..Len(en) /\ 0 \notin DOMAIN en
      /\ \A e \in DOMAIN en : en[e] \in Entry
  BY DEF Books
<1>2. IsFiniteSet(DOMAIN en)
  BY <1>1, FS_Interval
<1>3. \A e \in DOMAIN en : /\ en[e].file \in Files /\ en[e].kind \in Kinds
                           /\ en[e].refs \in Nat /\ en[e].inCache \in BOOLEAN
  BY <1>1 DEF Entry
<1>4. tb \in [Files -> Nat] /\ \A f \in Files : tb[f] # 0 => tb[f] \in DOMAIN en
  BY <1>1 DEF Books
<1>5. lr \in Seq(DOMAIN en)
  BY DEF Books
<1>6. lr \in Seq(Nat)
  <2>1. DOMAIN en \subseteq Nat
    BY <1>1
  <2> QED  BY <1>5, <2>1, SeqMonotonic
<1>7. Range(lr) \subseteq DOMAIN en
  BY <1>5 DEF Range
<1>8. us \in Nat
  <2>1. IsFiniteSet(Cached(en))
    BY <1>2, FS_Subset DEF Cached
  <2> QED  BY <2>1, FS_CardinalityType DEF Books
<1>9. ASSUME NEW e
      PROVE  /\ IsFiniteSet(HeldBy(h, e)) /\ Cardinality(HeldBy(h, e)) \in Nat
             /\ HeldBy(h, e) \subseteq Readers
  <2>1. HeldBy(h, e) \subseteq Readers
    BY DEF HeldBy
  <2>2. IsFiniteSet(HeldBy(h, e))
    BY <2>1, ReadersAssumption, FS_Subset
  <2> QED  BY <2>1, <2>2, FS_CardinalityType
<1> QED  BY <1>1, <1>2, <1>3, <1>4, <1>6, <1>7, <1>8, <1>9

(* Reader t has the handle x in g, and the others have what they have in h. *)
HandlesMove(h, g, t, x) ==
  /\ g[t] = x
  /\ \A u \in Readers : u # t => g[u] = h[u]

(* A handle changes hands.                                                 *)
LEMMA HandleMoves ==
    ASSUME NEW h, NEW g, NEW t \in Readers, NEW x, HandlesMove(h, g, t, x)
    PROVE  \A e : Cardinality(HeldBy(g, e)) = Cardinality(HeldBy(h, e))
                    + (IF e = x THEN 1 ELSE 0) - (IF e = h[t] THEN 1 ELSE 0)
<1>1. g[t] = x /\ \A u \in Readers : u # t => g[u] = h[u]
  BY DEF HandlesMove
<1>2. ASSUME NEW e
      PROVE  Cardinality(HeldBy(g, e)) = Cardinality(HeldBy(h, e))
                      + (IF e = x THEN 1 ELSE 0) - (IF e = h[t] THEN 1 ELSE 0)
  <2> DEFINE P == HeldBy(h, e)
             Q == HeldBy(g, e)
  <2>1. Q \in SUBSET Readers /\ P \in SUBSET Readers
    BY DEF HeldBy
  <2>2. P \ {t} = Q \ {t}
    BY <1>1 DEF HeldBy
  <2>3. (t \in Q <=> e = x) /\ (t \in P <=> e = h[t])
    BY <1>1 DEF HeldBy
  <2> HIDE DEF P, Q
  <2>4. Cardinality(Q) = Cardinality(P) + (IF t \in Q THEN 1 ELSE 0) - (IF t \in P THEN 1 ELSE 0)
    BY <2>1, <2>2, ReadersAssumption, CountMove
  <2>5. Cardinality(Q) = Cardinality(P) + (IF e = x THEN 1 ELSE 0) - (IF e = h[t] THEN 1 ELSE 0)
    BY <2>3, <2>4
  <2> QED  BY <2>5 DEF P, Q
<1> QED  BY <1>2

(* n is en, with r references to entry e.                                  *)
Renewed(en, n, e, r) ==
  /\ n \in Seq(Entry) /\ Len(n) = Len(en) /\ DOMAIN n = DOMAIN en
  /\ \A i \in DOMAIN en :
       /\ n[i].file = en[i].file /\ n[i].kind = en[i].kind /\ n[i].inCache = en[i].inCache
       /\ n[i].refs = IF i = e THEN r ELSE en[i].refs

(* n is en, where the cache has given up its reference to the entries G.   *)
Dropped(en, n, G) ==
  /\ n \in Seq(Entry) /\ Len(n) = Len(en) /\ DOMAIN n = DOMAIN en
  /\ \A i \in DOMAIN en :
       /\ n[i].file = en[i].file /\ n[i].kind = en[i].kind
       /\ i \in G => n[i].refs = en[i].refs - 1 /\ n[i].inCache = FALSE
       /\ i \notin G => n[i].refs = en[i].refs /\ n[i].inCache = en[i].inCache

Same(x, y) == x.file = y.file /\ x.kind = y.kind /\ x.refs = y.refs /\ x.inCache = y.inCache

(* n is en and one more entry.                                             *)
Joined(en, n, x) ==
  /\ n \in Seq(Entry) /\ Len(n) = Len(en) + 1 /\ DOMAIN n = DOMAIN en \cup {Len(n)}
  /\ \A i \in DOMAIN en : Same(n[i], en[i])
  /\ Same(n[Len(n)], x)

(* One entry changes in a sequence.                                        *)
LEMMA EntryChanges ==
    ASSUME NEW en \in Seq(Entry), NEW e \in DOMAIN en, NEW x \in Entry
    PROVE  /\ [en EXCEPT ![e] = x] \in Seq(Entry) /\ Len([en EXCEPT ![e] = x]) = Len(en)
           /\ DOMAIN [en EXCEPT ![e] = x] = DOMAIN en
           /\ \A i \in DOMAIN en : [en EXCEPT ![e] = x][i] = IF i = e THEN x ELSE en[i]
<1>1. DOMAIN en = 1..Len(en)
  OBVIOUS
<1> QED  BY <1>1, ExceptSeq

(* An entry gets other references: the books balance if its handles and    *)
(* the list of the unused entries follow.                                  *)
LEMMA BooksRenewed ==
    ASSUME NEW en, NEW tb, NEW lr, NEW us, NEW h, Books(en, tb, lr, us, h),
           NEW e \in DOMAIN en, NEW r \in Nat, NEW n, Renewed(en, n, e, r),
           NEW q \in Seq(DOMAIN en), Distinct(q),
           Range(q) = (Range(lr) \ {e}) \cup (IF en[e].inCache /\ r = 1 THEN {e} ELSE {}),
           NEW g \in [Readers -> 0..Len(en)],
           \A i \in DOMAIN en : i # e => Cardinality(HeldBy(g, i)) = Cardinality(HeldBy(h, i)),
           r = Cardinality(HeldBy(g, e)) + (IF en[e].inCache THEN 1 ELSE 0)
    PROVE  Books(n, tb, q, us, g)
<1>1. /\ en \in Seq(Entry) /\ Len(en) \in Nat /\ DOMAIN en = 1..Len(en) /\ 0 \notin DOMAIN en
      /\ \A i \in DOMAIN en : en[i].file \in Files /\ en[i].inCache \in BOOLEAN
      /\ \A f \in Files : tb[f] # 0 => tb[f] \in DOMAIN en
  BY BookFacts
<1>2. /\ tb \in [Files -> 0..Len(en)]
      /\ \A f \in Files : tb[f] # 0 => en[tb[f]].inCache /\ en[tb[f]].file = f
      /\ \A i \in DOMAIN en : en[i].inCache => tb[en[i].file] = i
      /\ \A i \in DOMAIN en : i \in Range(lr) <=> en[i].inCache /\ en[i].refs = 1
      /\ us = Cardinality(Cached(en))
      /\ \A i \in DOMAIN en : en[i].refs = Cardinality(HeldBy(h, i)) + (IF en[i].inCache THEN 1 ELSE 0)
  BY DEF Books
<1>3. /\ n \in Seq(Entry) /\ Len(n) = Len(en) /\ DOMAIN n = DOMAIN en
      /\ \A i \in DOMAIN en : n[i].file = en[i].file /\ n[i].inCache = en[i].inCache
      /\ \A i \in DOMAIN en : i # e => n[i].refs = en[i].refs
      /\ n[e].refs = r
  BY DEF Renewed
<1>4. Cached(n) = Cached(en)
  BY <1>3 DEF Cached
<1>5. /\ \A f \in Files : tb[f] # 0 => n[tb[f]].inCache /\ n[tb[f]].file = f
      /\ \A i \in DOMAIN n : n[i].inCache => tb[n[i].file] = i
  BY <1>1, <1>2, <1>3, ZenonT(30)
<1>6. ASSUME NEW i \in DOMAIN n  PROVE i \in Range(q) <=> n[i].inCache /\ n[i].refs = 1
  <2>1. CASE i = e
    BY <1>3, <2>1
  <2>2. CASE i # e
    BY <1>2, <1>3, <1>6, <2>2
  <2> QED  BY <2>1, <2>2
<1>7. ASSUME NEW i \in DOMAIN n
      PROVE  n[i].refs = Cardinality(HeldBy(g, i)) + (IF n[i].inCache THEN 1 ELSE 0)
  <2>1. CASE i = e
    BY <1>3, <2>1
  <2>2. CASE i # e
    BY <1>2, <1>3, <1>7, <2>2
  <2> QED  BY <2>1, <2>2
<1> QED  BY <1>2, <1>3, <1>4, <1>5, <1>6, <1>7 DEF Books

(* Entries leave the cache: their readers keep them.                       *)
LEMMA BooksDropped ==
    ASSUME NEW en, NEW tb, NEW lr, NEW us, NEW h, Books(en, tb, lr, us, h),
           NEW G \in SUBSET Cached(en), NEW n, Dropped(en, n, G),
           NEW m \in [Files -> 0..Len(en)],
           \A f \in Files : m[f] = IF tb[f] \in G THEN 0 ELSE tb[f],
           NEW q \in Seq(DOMAIN en), Distinct(q), Range(q) = Range(lr) \ G
    PROVE  Books(n, m, q, us - Cardinality(G), h)
<1>1. /\ en \in Seq(Entry) /\ Len(en) \in Nat /\ DOMAIN en = 1..Len(en) /\ 0 \notin DOMAIN en
      /\ IsFiniteSet(DOMAIN en)
      /\ \A i \in DOMAIN en : en[i].file \in Files /\ en[i].inCache \in BOOLEAN /\ en[i].refs \in Nat
      /\ \A f \in Files : tb[f] # 0 => tb[f] \in DOMAIN en
      /\ \A i : Cardinality(HeldBy(h, i)) \in Nat
  BY BookFacts
<1>2. /\ h \in [Readers -> 0..Len(en)]
      /\ \A f \in Files : tb[f] # 0 => en[tb[f]].inCache /\ en[tb[f]].file = f
      /\ \A i \in DOMAIN en : en[i].inCache => tb[en[i].file] = i
      /\ \A i \in DOMAIN en : i \in Range(lr) <=> en[i].inCache /\ en[i].refs = 1
      /\ us = Cardinality(Cached(en))
      /\ \A i \in DOMAIN en : en[i].refs = Cardinality(HeldBy(h, i)) + (IF en[i].inCache THEN 1 ELSE 0)
  BY DEF Books
<1>3. /\ n \in Seq(Entry) /\ Len(n) = Len(en) /\ DOMAIN n = DOMAIN en
      /\ \A i \in DOMAIN en :
           /\ n[i].file = en[i].file
           /\ i \in G => n[i].refs = en[i].refs - 1 /\ n[i].inCache = FALSE
           /\ i \notin G => n[i].refs = en[i].refs /\ n[i].inCache = en[i].inCache
  BY DEF Dropped
<1>4. G \subseteq DOMAIN en /\ \A i \in G : en[i].inCache
  BY DEF Cached
<1>5. ASSUME NEW f \in Files, m[f] # 0  PROVE n[m[f]].inCache /\ n[m[f]].file = f
  <2>1. m[f] = tb[f] /\ tb[f] # 0 /\ tb[f] \notin G
    BY <1>5
  <2>2. tb[f] \in DOMAIN en /\ en[tb[f]].inCache /\ en[tb[f]].file = f
    BY <1>1, <1>2, <2>1
  <2> QED  BY <1>3, <2>1, <2>2
<1>6. ASSUME NEW i \in DOMAIN n, n[i].inCache  PROVE m[n[i].file] = i
  <2>1. i \in DOMAIN en /\ i \notin G /\ en[i].inCache
    BY <1>3, <1>6
  <2>2. en[i].file \in Files /\ tb[en[i].file] = i
    BY <1>1, <1>2, <2>1
  <2> QED  BY <1>3, <2>1, <2>2
<1>7. ASSUME NEW i \in DOMAIN n  PROVE i \in Range(q) <=> n[i].inCache /\ n[i].refs = 1
  BY <1>2, <1>3, <1>7, SMTT(30)
<1>8. us - Cardinality(G) = Cardinality(Cached(n))
  <2>1. Cached(n) = Cached(en) \ G /\ Cached(en) \cap G = G
    BY <1>3, <1>4 DEF Cached
  <2>2. IsFiniteSet(Cached(en))
    BY <1>1, FS_Subset DEF Cached
  <2>3. Cardinality(Cached(en) \ G) = Cardinality(Cached(en)) - Cardinality(Cached(en) \cap G)
    BY <2>2, FS_Difference
  <2> QED  BY <1>2, <2>1, <2>3
<1>9. ASSUME NEW i \in DOMAIN n
      PROVE  n[i].refs = Cardinality(HeldBy(h, i)) + (IF n[i].inCache THEN 1 ELSE 0)
  <2>1. CASE i \in G
    <3>1. /\ i \in DOMAIN en /\ en[i].inCache /\ n[i].refs = en[i].refs - 1 /\ n[i].inCache = FALSE
      BY <1>3, <1>4, <2>1
    <3>2. en[i].refs = Cardinality(HeldBy(h, i)) + 1 /\ Cardinality(HeldBy(h, i)) \in Nat
      BY <1>1, <1>2, <3>1
    <3> QED  BY <3>1, <3>2
  <2>2. CASE i \notin G
    BY <1>2, <1>3, <1>9, <2>2, SMTT(30)
  <2> QED  BY <2>1, <2>2
<1> QED  BY <1>2, <1>3, <1>5, <1>6, <1>7, <1>8, <1>9 DEF Books

(* An entry is made for a reader, and is cached or not.                    *)
LEMMA BooksJoined ==
    ASSUME NEW en, NEW tb, NEW lr, NEW us, NEW h, Books(en, tb, lr, us, h),
           NEW x \in Entry, x.refs = IF x.inCache THEN 2 ELSE 1, x.inCache => tb[x.file] = 0,
           NEW n, Joined(en, n, x), NEW t \in Readers, h[t] = 0,
           NEW m \in [Files -> 0..Len(n)],
           \A f \in Files : m[f] = IF x.inCache /\ f = x.file THEN Len(n) ELSE tb[f],
           NEW c \in Nat, c = IF x.inCache THEN 1 ELSE 0,
           NEW g \in [Readers -> 0..Len(n)], HandlesMove(h, g, t, Len(n))
    PROVE  Books(n, m, lr, us + c, g)
<1> DEFINE e == Len(n)
<1>1. /\ en \in Seq(Entry) /\ Len(en) \in Nat /\ DOMAIN en = 1..Len(en) /\ 0 \notin DOMAIN en
      /\ IsFiniteSet(DOMAIN en)
      /\ \A i \in DOMAIN en : en[i].file \in Files /\ en[i].inCache \in BOOLEAN /\ en[i].refs \in Nat
      /\ \A f \in Files : tb[f] # 0 => tb[f] \in DOMAIN en
      /\ \A i : Cardinality(HeldBy(h, i)) \in Nat
  BY BookFacts
<1>2. /\ h \in [Readers -> 0..Len(en)] /\ lr \in Seq(DOMAIN en) /\ Distinct(lr)
      /\ \A f \in Files : tb[f] # 0 => en[tb[f]].inCache /\ en[tb[f]].file = f
      /\ \A i \in DOMAIN en : en[i].inCache => tb[en[i].file] = i
      /\ \A i \in DOMAIN en : i \in Range(lr) <=> en[i].inCache /\ en[i].refs = 1
      /\ us = Cardinality(Cached(en))
      /\ \A i \in DOMAIN en : en[i].refs = Cardinality(HeldBy(h, i)) + (IF en[i].inCache THEN 1 ELSE 0)
  BY DEF Books
<1>3. /\ n \in Seq(Entry) /\ e = Len(en) + 1 /\ DOMAIN n = DOMAIN en \cup {e}
      /\ \A i \in DOMAIN en :
           n[i].file = en[i].file /\ n[i].refs = en[i].refs /\ n[i].inCache = en[i].inCache
      /\ n[e].file = x.file /\ n[e].refs = x.refs /\ n[e].inCache = x.inCache
  BY DEF Joined, Same
<1>4. e \in Nat /\ e # 0 /\ e \notin DOMAIN en /\ e \in 0..e /\ 0..Len(en) \subseteq 0..e
  BY <1>1, <1>3
<1>5. x.file \in Files /\ x.inCache \in BOOLEAN
  BY DEF Entry
<1> HIDE DEF e
<1>6. /\ g \in [Readers -> 0..e]
      /\ \A i : Cardinality(HeldBy(g, i)) = Cardinality(HeldBy(h, i))
                   + (IF i = e THEN 1 ELSE 0) - (IF i = h[t] THEN 1 ELSE 0)
  BY HandleMoves DEF e
<1>7. Cardinality(HeldBy(h, e)) = 0
  <2>1. HeldBy(h, e) = {}
    BY <1>1, <1>2, <1>3 DEF HeldBy
  <2> QED  BY <2>1, FS_EmptySet
<1>8. lr \in Seq(DOMAIN n)
  <2>1. DOMAIN en \subseteq DOMAIN n
    BY <1>3
  <2> QED  BY <1>2, <2>1, SeqMonotonic
<1>9. ASSUME NEW f \in Files, m[f] # 0  PROVE n[m[f]].inCache /\ n[m[f]].file = f
  <2>1. CASE x.inCache /\ f = x.file
    BY <1>3, <2>1 DEF e
  <2>2. CASE ~(x.inCache /\ f = x.file)
    <3>1. m[f] = tb[f] /\ tb[f] # 0 /\ tb[f] \in DOMAIN en
      BY <1>1, <1>9, <2>2
    <3>2. en[tb[f]].inCache /\ en[tb[f]].file = f
      BY <1>2, <3>1
    <3> QED  BY <1>3, <3>1, <3>2
  <2> QED  BY <2>1, <2>2
<1>10. ASSUME NEW i \in DOMAIN n, n[i].inCache  PROVE m[n[i].file] = i
  <2>1. CASE i = e
    BY <1>3, <1>5, <1>10, <2>1 DEF e
  <2>2. CASE i # e
    <3>1. i \in DOMAIN en /\ n[i].file = en[i].file /\ en[i].inCache
      BY <1>3, <1>10, <2>2
    <3>2. en[i].file \in Files /\ tb[en[i].file] = i /\ i # 0
      BY <1>1, <1>2, <3>1
    <3> QED  BY <3>1, <3>2
  <2> QED  BY <2>1, <2>2
<1>11. ASSUME NEW i \in DOMAIN n  PROVE i \in Range(lr) <=> n[i].inCache /\ n[i].refs = 1
  <2>1. CASE i = e
    <3>1. i \notin Range(lr)
      BY <1>2, <1>4, <2>1 DEF Range
    <3> QED  BY <1>3, <2>1, <3>1
  <2>2. CASE i # e
    BY <1>2, <1>3, <1>11, <2>2, SMTT(30)
  <2> QED  BY <2>1, <2>2
<1>12. us + c = Cardinality(Cached(n))
  <2>1. IsFiniteSet(Cached(en))
    BY <1>1, FS_Subset DEF Cached
  <2>2. CASE x.inCache
    <3>1. Cached(n) = Cached(en) \cup {e} /\ e \notin Cached(en)
      BY <1>3, <1>4, <2>2 DEF Cached
    <3>2. Cardinality(Cached(en) \cup {e}) = Cardinality(Cached(en)) + 1
      BY <2>1, <3>1, FS_AddElement
    <3> QED  BY <1>2, <2>2, <3>1, <3>2
  <2>3. CASE ~x.inCache
    <3>1. Cached(n) = Cached(en)
      BY <1>3, <1>4, <2>3 DEF Cached
    <3>2. us \in Nat
      BY BookFacts
    <3> QED  BY <1>2, <2>3, <3>1, <3>2
  <2> QED  BY <2>2, <2>3
<1>13. ASSUME NEW i \in DOMAIN n
       PROVE  n[i].refs = Cardinality(HeldBy(g, i)) + (IF n[i].inCache THEN 1 ELSE 0)
  <2>1. CASE i = e
    <3>1. Cardinality(HeldBy(g, e)) = 1
      BY <1>4, <1>6, <1>7
    <3> QED  BY <1>3, <1>5, <2>1, <3>1
  <2>2. CASE i # e
    <3>1. i \in DOMAIN en /\ i # h[t] /\ Cardinality(HeldBy(h, i)) \in Nat
      BY <1>1, <1>3, <2>2
    <3>2. Cardinality(HeldBy(g, i)) = Cardinality(HeldBy(h, i))
      BY <1>6, <2>2, <3>1
    <3>3. n[i].refs = en[i].refs /\ n[i].inCache = en[i].inCache
      BY <1>3, <3>1
    <3>4. en[i].refs = Cardinality(HeldBy(h, i)) + (IF en[i].inCache THEN 1 ELSE 0)
      BY <1>2, <3>1
    <3> QED  BY <3>2, <3>3, <3>4
  <2> QED  BY <2>1, <2>2
<1> QED  BY <1>2, <1>3, <1>6, <1>8, <1>9, <1>10, <1>11, <1>12, <1>13 DEF Books, e

-----------------------------------------------------------------------------
(* The calls of the cache keep the books.                                  *)

Shards == [entries : Seq(Entry), table : [Files -> Nat], lru : Seq(Nat), usage : Int]

ShardBooks(s, h) == Books(s.entries, s.table, s.lru, s.usage, h)

(* An entry of a sequence gets r references.                               *)
LEMMA RenewedEntry ==
    ASSUME NEW en \in Seq(Entry), NEW e \in DOMAIN en, NEW r \in Nat
    PROVE  Renewed(en, [en EXCEPT ![e] = [@ EXCEPT !.refs = r]], e, r)
<1> DEFINE x == [en[e] EXCEPT !.refs = r]
           n == [en EXCEPT ![e] = x]
<1>1. en[e] \in Entry
  OBVIOUS
<1>2. /\ x \in Entry /\ x.file = en[e].file /\ x.kind = en[e].kind /\ x.refs = r
      /\ x.inCache = en[e].inCache
  BY <1>1 DEF Entry
<1> HIDE DEF x
<1>3. /\ n \in Seq(Entry) /\ Len(n) = Len(en) /\ DOMAIN n = DOMAIN en
      /\ \A i \in DOMAIN en : n[i] = IF i = e THEN x ELSE en[i]
  BY <1>2, EntryChanges
<1> HIDE DEF n
<1>4. Renewed(en, n, e, r)
  BY <1>2, <1>3 DEF Renewed
<1> QED  BY <1>4 DEF n, x

(* Ref by a reader without a handle.                                       *)
LEMMA RefBooks ==
    ASSUME NEW s \in Shards, NEW h, ShardBooks(s, h), NEW t \in Readers, h[t] = 0,
           NEW e \in DOMAIN s.entries, s.entries[e].inCache
    PROVE  /\ ShardBooks(Ref(s, e), [h EXCEPT ![t] = e])
           /\ Renewed(s.entries, Ref(s, e).entries, e, s.entries[e].refs + 1)
           /\ s.entries[e].refs > 0 /\ Ref(s, e).usage = s.usage
<1> DEFINE z == Ref(s, e)
           en == s.entries
           tb == s.table
           lr == s.lru
           us == s.usage
           r == en[e].refs + 1
           n == [en EXCEPT ![e] = [@ EXCEPT !.refs = r]]
           q == Unlinked(lr, e)
           g == [h EXCEPT ![t] = e]
<1>1. en \in Seq(Entry)
  BY DEF Shards
<1>2. z.entries = n /\ z.table = tb /\ z.lru = q /\ z.usage = us
  BY DEF Ref, Shards
<1>3. Books(en, tb, lr, us, h) /\ e \in DOMAIN en /\ en[e].inCache
  BY DEF ShardBooks
<1> HIDE DEF z, en, tb, lr, us
<1>4. /\ Len(en) \in Nat /\ DOMAIN en = 1..Len(en) /\ en[e].refs \in Nat /\ en[e].inCache = TRUE
      /\ \A i : Cardinality(HeldBy(h, i)) \in Nat
  BY <1>3, BookFacts
<1>5. /\ h \in [Readers -> 0..Len(en)] /\ lr \in Seq(DOMAIN en) /\ Distinct(lr)
      /\ en[e].refs = Cardinality(HeldBy(h, e)) + 1
  BY <1>3 DEF Books
<1>6. r \in Nat
  BY <1>4
<1>7. Renewed(en, n, e, r)
  <2> HIDE DEF r
  <2> QED  BY <1>1, <1>3, <1>6, RenewedEntry
<1>8. q \in Seq(DOMAIN en) /\ Distinct(q) /\ Range(q) = Range(lr) \ {e}
  BY <1>5, UnlinkedFacts
<1> HIDE DEF n, q
<1>9. g \in [Readers -> 0..Len(en)] /\ HandlesMove(h, g, t, e)
  BY <1>3, <1>4, <1>5 DEF HandlesMove
<1> HIDE DEF g
<1>10. \A i : Cardinality(HeldBy(g, i)) = Cardinality(HeldBy(h, i))
                + (IF i = e THEN 1 ELSE 0) - (IF i = h[t] THEN 1 ELSE 0)
  BY <1>9, HandleMoves
<1>11. \A i \in DOMAIN en : i # e => Cardinality(HeldBy(g, i)) = Cardinality(HeldBy(h, i))
  BY <1>4, <1>10
<1>12. r = Cardinality(HeldBy(g, e)) + 1 /\ r # 1
  BY <1>3, <1>4, <1>5, <1>10
<1> HIDE DEF r
<1>13. Books(n, tb, q, us, g)
  <2>1. Range(q) = (Range(lr) \ {e}) \cup (IF en[e].inCache /\ r = 1 THEN {e} ELSE {})
    BY <1>8, <1>12
  <2>2. r = Cardinality(HeldBy(g, e)) + (IF en[e].inCache THEN 1 ELSE 0)
    BY <1>4, <1>12
  <2> QED  BY <1>3, <1>6, <1>7, <1>8, <1>9, <1>11, <2>1, <2>2, BooksRenewed
<1>14. en[e].refs > 0
  BY <1>4, <1>5
<1>15. ShardBooks(z, g)
  BY <1>2, <1>13 DEF ShardBooks
<1> QED  BY <1>2, <1>7, <1>14, <1>15 DEF z, g, r, en, us

(* Unref by a reader that gives its handle back.                           *)
LEMMA UnrefBooks ==
    ASSUME NEW s \in Shards, NEW h, ShardBooks(s, h), NEW t \in Readers,
           NEW e \in DOMAIN s.entries, h[t] = e
    PROVE  /\ ShardBooks(Unref(s, e), [h EXCEPT ![t] = 0])
           /\ Renewed(s.entries, Unref(s, e).entries, e, s.entries[e].refs - 1)
           /\ s.entries[e].refs > 0 /\ Unref(s, e).usage = s.usage
<1> DEFINE z == Unref(s, e)
           en == s.entries
           tb == s.table
           lr == s.lru
           us == s.usage
           r == en[e].refs - 1
           n == [en EXCEPT ![e] = [@ EXCEPT !.refs = r]]
           q == IF en[e].inCache /\ en[e].refs = 2 THEN Append(lr, e) ELSE lr
           g == [h EXCEPT ![t] = 0]
<1>1. en \in Seq(Entry)
  BY DEF Shards
<1>2. z.entries = n /\ z.table = tb /\ z.lru = q /\ z.usage = us
  BY DEF Unref, Shards
<1>3. Books(en, tb, lr, us, h) /\ e \in DOMAIN en
  BY DEF ShardBooks
<1> HIDE DEF z, en, tb, lr, us
<1>4. /\ Len(en) \in Nat /\ DOMAIN en = 1..Len(en) /\ en[e].refs \in Nat /\ en[e].inCache \in BOOLEAN
      /\ \A i : Cardinality(HeldBy(h, i)) \in Nat
  BY <1>3, BookFacts
<1>5. /\ h \in [Readers -> 0..Len(en)] /\ lr \in Seq(DOMAIN en) /\ Distinct(lr)
      /\ en[e].refs = Cardinality(HeldBy(h, e)) + (IF en[e].inCache THEN 1 ELSE 0)
      /\ e \in Range(lr) <=> en[e].inCache /\ en[e].refs = 1
  BY <1>3 DEF Books
<1>6. Cardinality(HeldBy(h, e)) > 0
  <2>1. IsFiniteSet(HeldBy(h, e))
    BY <1>3, BookFacts
  <2>2. t \in HeldBy(h, e)
    BY DEF HeldBy
  <2>3. Cardinality(HeldBy(h, e)) # 0
    BY <2>1, <2>2, FS_EmptySet
  <2> QED  BY <1>4, <2>3
<1>7. r \in Nat /\ en[e].refs > 0
  BY <1>4, <1>5, <1>6
<1>8. Renewed(en, n, e, r)
  <2> HIDE DEF r
  <2> QED  BY <1>1, <1>3, <1>7, RenewedEntry
<1>9. e \notin Range(lr)
  BY <1>4, <1>5, <1>6
<1>10. /\ q \in Seq(DOMAIN en) /\ Distinct(q)
       /\ Range(q) = (Range(lr) \ {e}) \cup (IF en[e].inCache /\ r = 1 THEN {e} ELSE {})
  <2>1. r = 1 <=> en[e].refs = 2
    BY <1>4
  <2>2. CASE en[e].inCache /\ en[e].refs = 2
    <3>1. /\ Append(lr, e) \in Seq(DOMAIN en) /\ Distinct(Append(lr, e))
          /\ Range(Append(lr, e)) = Range(lr) \cup {e}
      BY <1>3, <1>5, <1>9, AppendedFacts
    <3> QED  BY <2>1, <2>2, <3>1
  <2>3. CASE ~(en[e].inCache /\ en[e].refs = 2)
    <3> HIDE DEF r
    <3> QED  BY <1>5, <1>9, <2>1, <2>3
  <2> QED  BY <2>2, <2>3
<1> HIDE DEF n, q
<1>11. g \in [Readers -> 0..Len(en)] /\ HandlesMove(h, g, t, 0)
  BY <1>4, <1>5 DEF HandlesMove
<1> HIDE DEF g
<1>12. \A i : Cardinality(HeldBy(g, i)) = Cardinality(HeldBy(h, i))
                + (IF i = 0 THEN 1 ELSE 0) - (IF i = h[t] THEN 1 ELSE 0)
  BY <1>11, HandleMoves
<1>13. \A i \in DOMAIN en : i # e => Cardinality(HeldBy(g, i)) = Cardinality(HeldBy(h, i))
  BY <1>4, <1>12
<1>14. r = Cardinality(HeldBy(g, e)) + (IF en[e].inCache THEN 1 ELSE 0)
  <2>1. e # 0
    BY <1>3, <1>4
  <2>2. Cardinality(HeldBy(g, e)) = Cardinality(HeldBy(h, e)) - 1
    BY <1>4, <1>12, <2>1
  <2> QED  BY <1>4, <1>5, <2>2
<1> HIDE DEF r
<1>15. Books(n, tb, q, us, g)
  BY <1>3, <1>7, <1>8, <1>10, <1>11, <1>13, <1>14, BooksRenewed, SMTT(30)
<1>16. ShardBooks(z, g)
  BY <1>2, <1>15 DEF ShardBooks
<1> QED  BY <1>2, <1>7, <1>8, <1>16 DEF z, g, r, en, us

(* A shard with other entries, another list and another charge.            *)
LEMMA ShardChanged ==
    ASSUME NEW s \in Shards, NEW n, NEW q, NEW u,
           NEW z, z = [s EXCEPT !.entries = n, !.lru = q, !.usage = u]
    PROVE  z = [entries |-> n, table |-> s.table, lru |-> q, usage |-> u]
BY DEF Shards

(* FinishErase: the components of the shard when e has left the hash table. *)
LEMMA FinishEraseParts ==
    ASSUME NEW s \in Shards, NEW e \in DOMAIN s.entries, s.entries[e].refs > 0
    PROVE  /\ Dropped(s.entries, FinishErase(s, e).entries, {e})
           /\ FinishErase(s, e).table = s.table
           /\ FinishErase(s, e).lru = Unlinked(s.lru, e)
           /\ FinishErase(s, e).usage = s.usage - 1
<1> DEFINE z == FinishErase(s, e)
           en == s.entries
           w == [en[e] EXCEPT !.inCache = FALSE]
           x == [w EXCEPT !.refs = @ - 1]
           m == [en EXCEPT ![e] = w]
           n == [en EXCEPT ![e] = x]
           y == [entries |-> m, table |-> s.table, lru |-> Unlinked(s.lru, e), usage |-> s.usage - 1]
<1>1. en \in Seq(Entry) /\ e \in DOMAIN en /\ en[e] \in Entry /\ e # 0
  BY DEF Shards
<1>2. /\ w \in Entry /\ w.file = en[e].file /\ w.kind = en[e].kind /\ w.refs = en[e].refs
      /\ w.inCache = FALSE
  BY <1>1 DEF Entry
<1>3. z = Unref(y, e)
  <2> DEFINE v == [s EXCEPT !.entries[e].inCache = FALSE, !.lru = Unlinked(@, e), !.usage = @ - 1]
  <2>1. v = [s EXCEPT !.entries = m, !.lru = Unlinked(s.lru, e), !.usage = s.usage - 1]
    OBVIOUS
  <2> HIDE DEF v, m
  <2>2. v = [entries |-> m, table |-> s.table, lru |-> Unlinked(s.lru, e), usage |-> s.usage - 1]
    BY <2>1, ShardChanged
  <2>3. v = [s EXCEPT !.entries[e].inCache = FALSE, !.lru = Unlinked(@, e), !.usage = @ - 1]
    BY DEF v
  <2> QED  BY <1>1, <2>2, <2>3 DEF FinishErase, m
<1> HIDE DEF w
<1>4. /\ x \in Entry /\ x.file = en[e].file /\ x.kind = en[e].kind /\ x.refs = en[e].refs - 1
      /\ x.inCache = FALSE
  <2>1. w.refs \in Nat /\ w.refs > 0
    BY <1>2 DEF Entry
  <2> QED  BY <1>2, <2>1 DEF Entry
<1>5. m[e] = w /\ [m EXCEPT ![e] = x] = n
  BY <1>1
<1>6. /\ z.entries = n /\ z.table = s.table /\ z.lru = Unlinked(s.lru, e) /\ z.usage = s.usage - 1
  <2>1. Unref(y, e) = [y EXCEPT !.entries = [m EXCEPT ![e] = x]]
    <3> HIDE DEF m
    <3>1. /\ y.entries = m /\ y.table = s.table /\ y.lru = Unlinked(s.lru, e) /\ y.usage = s.usage - 1
          /\ y.entries[e].inCache = FALSE
      BY <1>2, <1>5
    <3>2. Unref(y, e) = [y EXCEPT !.entries[e].refs = @ - 1, !.lru = @]
      BY <3>1 DEF Unref
    <3> QED  BY <1>5, <3>1, <3>2
  <2> QED  BY <1>3, <1>5, <2>1
<1> HIDE DEF x, z, en
<1>7. /\ n \in Seq(Entry) /\ Len(n) = Len(en) /\ DOMAIN n = DOMAIN en
      /\ \A i \in DOMAIN en : n[i] = IF i = e THEN x ELSE en[i]
  BY <1>1, <1>4, EntryChanges
<1> HIDE DEF n
<1>8. Dropped(en, n, {e})
  BY <1>4, <1>7 DEF Dropped
<1> QED  BY <1>6, <1>8 DEF z, en

Gone(e) == IF e = 0 THEN {} ELSE {e}

(* FinishErase, if there is an entry to erase.                             *)
LEMMA FinishErased ==
    ASSUME NEW s \in Shards, NEW e \in {0} \cup DOMAIN s.entries, e # 0 => s.entries[e].refs > 0
    PROVE  /\ Dropped(s.entries, FinishErase(s, e).entries, Gone(e))
           /\ FinishErase(s, e).table = s.table
           /\ FinishErase(s, e).lru = IF e = 0 THEN s.lru ELSE Unlinked(s.lru, e)
           /\ FinishErase(s, e).usage = s.usage - (IF e = 0 THEN 0 ELSE 1)
<1>1. CASE e = 0
  <2>1. FinishErase(s, e) = s /\ s.entries \in Seq(Entry) /\ s.usage \in Int
    BY <1>1 DEF FinishErase, Shards
  <2>2. Dropped(s.entries, s.entries, Gone(e))
    BY <1>1, <2>1 DEF Dropped, Gone
  <2>3. s.usage - 0 = s.usage
    BY <2>1
  <2> QED  BY <1>1, <2>1, <2>2, <2>3
<1>2. CASE e # 0
  <2>1. e \in DOMAIN s.entries /\ s.entries[e].refs > 0
    BY <1>2
  <2>2. Gone(e) = {e}
    BY <1>2 DEF Gone
  <2> QED  BY <1>2, <2>1, <2>2, FinishEraseParts
<1> QED  BY <1>1, <1>2

(* The list without the entry that is erased.                              *)
LEMMA GoneUnlinked ==
    ASSUME NEW S, NEW q \in Seq(S), Distinct(q), NEW e, 0 \notin S,
           NEW r, r = IF e = 0 THEN q ELSE Unlinked(q, e)
    PROVE  r \in Seq(S) /\ Distinct(r) /\ Range(r) = Range(q) \ Gone(e)
<1>1. CASE e = 0
  BY <1>1 DEF Gone
<1>2. CASE e # 0
  <2>1. r = Unlinked(q, e) /\ Gone(e) = {e}
    BY <1>2 DEF Gone
  <2> QED  BY <2>1, UnlinkedFacts
<1> QED  BY <1>1, <1>2

(* The entry the hash table has for a file.                                *)
LEMMA TableFacts ==
    ASSUME NEW en, NEW tb, NEW lr, NEW us, NEW h, Books(en, tb, lr, us, h), NEW f \in Files
    PROVE  /\ tb[f] \in {0} \cup DOMAIN en /\ tb[f] \in Nat
           /\ tb[f] # 0 => /\ tb[f] \in DOMAIN en
                           /\ en[tb[f]].refs > 0 /\ en[tb[f]].inCache /\ en[tb[f]].file = f
           /\ Gone(tb[f]) \in SUBSET Cached(en)
           /\ Cardinality(Gone(tb[f])) = IF tb[f] = 0 THEN 0 ELSE 1
           /\ \A g \in Files : tb[g] # 0 /\ g # f => tb[g] # tb[f]
           /\ \A g \in Files : tb[g] \in Gone(tb[f]) => g = f
<1>1. /\ tb \in [Files -> Nat] /\ \A g \in Files : tb[g] # 0 => tb[g] \in DOMAIN en
      /\ \A i : Cardinality(HeldBy(h, i)) \in Nat
  BY BookFacts
<1>2. /\ \A g \in Files : tb[g] # 0 => en[tb[g]].inCache /\ en[tb[g]].file = g
      /\ \A i \in DOMAIN en : en[i].refs = Cardinality(HeldBy(h, i)) + (IF en[i].inCache THEN 1 ELSE 0)
  BY DEF Books
<1>3. tb[f] # 0 => en[tb[f]].refs > 0
  BY <1>1, <1>2
<1>4. Gone(tb[f]) \in SUBSET Cached(en)
  BY <1>1, <1>2 DEF Gone, Cached
<1>5. Cardinality(Gone(tb[f])) = IF tb[f] = 0 THEN 0 ELSE 1
  BY FS_EmptySet, FS_Singleton DEF Gone
<1>6. \A g \in Files : tb[g] # 0 /\ g # f => tb[g] # tb[f]
  BY <1>2
<1>7. \A g \in Files : tb[g] \in Gone(tb[f]) => g = f
  BY <1>6 DEF Gone
<1> QED  BY <1>1, <1>2, <1>3, <1>4, <1>5, <1>6, <1>7

(* Erase.                                                                  *)
LEMMA EraseBooks ==
    ASSUME NEW s \in Shards, NEW h, ShardBooks(s, h), NEW f \in Files
    PROVE  /\ ShardBooks(Erase(s, f), h)
           /\ Dropped(s.entries, Erase(s, f).entries, Gone(s.table[f]))
           /\ \A g \in Files : Erase(s, f).table[g] = IF g = f THEN 0 ELSE s.table[g]
           /\ Erase(s, f).lru = IF s.table[f] = 0 THEN s.lru ELSE Unlinked(s.lru, s.table[f])
           /\ Erase(s, f).usage = s.usage - (IF s.table[f] = 0 THEN 0 ELSE 1)
<1> DEFINE z == Erase(s, f)
           y == Mapped(s, f, 0)
           en == s.entries
           tb == s.table
           lr == s.lru
           us == s.usage
           o == tb[f]
<1>1. /\ en \in Seq(Entry) /\ tb \in [Files -> Nat]
  BY DEF Shards
<1>2. /\ y \in Shards /\ y.entries = en /\ y.table = [tb EXCEPT ![f] = 0] /\ y.lru = lr
      /\ y.usage = us
  BY DEF Shards, Mapped
<1>3. z = FinishErase(y, o)
  BY DEF Erase
<1>4. Books(en, tb, lr, us, h)
  BY DEF ShardBooks
<1> HIDE DEF z, y, en, tb, lr, us
<1>5. /\ o \in {0} \cup DOMAIN en /\ (o # 0 => en[o].refs > 0)
      /\ Gone(o) \in SUBSET Cached(en) /\ Cardinality(Gone(o)) = IF o = 0 THEN 0 ELSE 1
      /\ \A g \in Files : tb[g] \in Gone(o) => g = f
      /\ o = 0 \/ o \in Gone(o)
  <2>1. o = 0 \/ o \in Gone(o)
    BY DEF Gone
  <2> QED  BY <1>4, <2>1, TableFacts
<1> HIDE DEF o
<1>6. /\ Dropped(en, z.entries, Gone(o)) /\ z.table = y.table
      /\ z.lru = IF o = 0 THEN lr ELSE Unlinked(lr, o)
      /\ z.usage = us - (IF o = 0 THEN 0 ELSE 1)
  <2>1. o \in {0} \cup DOMAIN y.entries /\ (o # 0 => y.entries[o].refs > 0)
    BY <1>2, <1>5
  <2>2. /\ Dropped(y.entries, FinishErase(y, o).entries, Gone(o)) /\ FinishErase(y, o).table = y.table
        /\ FinishErase(y, o).lru = IF o = 0 THEN y.lru ELSE Unlinked(y.lru, o)
        /\ FinishErase(y, o).usage = y.usage - (IF o = 0 THEN 0 ELSE 1)
    BY <1>2, <2>1, FinishErased
  <2> QED  BY <1>2, <1>3, <2>2
<1>7. \A g \in Files : z.table[g] = IF g = f THEN 0 ELSE tb[g]
  BY <1>1, <1>2, <1>6
<1>8. z.table \in [Files -> 0..Len(en)] /\ \A g \in Files : z.table[g] = IF tb[g] \in Gone(o) THEN 0 ELSE tb[g]
  <2>1. tb \in [Files -> 0..Len(en)] /\ Len(en) \in Nat
    BY <1>4 DEF Books
  <2>2. z.table \in [Files -> 0..Len(en)]
    BY <1>2, <1>6, <2>1
  <2>3. \A g \in Files : tb[g] \in Gone(o) => z.table[g] = 0
    BY <1>5, <1>7
  <2>4. z.table[f] = 0 /\ (tb[f] \notin Gone(o) => tb[f] = 0)
    BY <1>5, <1>7 DEF o
  <2> QED  BY <1>7, <2>2, <2>3, <2>4
<1>9. z.lru \in Seq(DOMAIN en) /\ Distinct(z.lru) /\ Range(z.lru) = Range(lr) \ Gone(o)
  <2>1. lr \in Seq(DOMAIN en) /\ Distinct(lr) /\ 0 \notin DOMAIN en
    BY <1>4 DEF Books
  <2> QED  BY <1>6, <2>1, GoneUnlinked
<1>10. Books(z.entries, z.table, z.lru, us - Cardinality(Gone(o)), h)
  BY <1>4, <1>5, <1>6, <1>8, <1>9, BooksDropped
<1>11. ShardBooks(z, h)
  BY <1>5, <1>6, <1>10 DEF ShardBooks
<1> QED  BY <1>6, <1>7, <1>11 DEF z, en, tb, lr, us, o

(* The n oldest items of a list, and the list of the others.               *)
Oldest(q, n) == {q[i] : i \in 1..n}
Younger(q, n) == SubSeq(q, n + 1, Len(q))

(* How a list is split between the two.                                    *)
LEMMA ListSplit ==
    ASSUME NEW S, NEW q \in Seq(S), Distinct(q), NEW n \in 0..Len(q)
    PROVE  /\ Younger(q, n) \in Seq(S) /\ Distinct(Younger(q, n))
           /\ Range(Younger(q, n)) = Range(q) \ Oldest(q, n)
           /\ Oldest(q, n) \subseteq Range(q) /\ Cardinality(Oldest(q, n)) = n
           /\ n = Len(q) => Range(Younger(q, n)) = {}
<1> DEFINE G == {q[i] : i \in 1..n}
           r == SubSeq(q, n + 1, Len(q))
<1>1. /\ Len(q) \in Nat /\ DOMAIN q = 1..Len(q) /\ n \in Nat /\ n <= Len(q)
      /\ \A i \in 1..Len(q) : q[i] \in S
  OBVIOUS
<1>2. /\ r \in Seq(S) /\ Len(r) = Len(q) - n
      /\ \A i \in 1..(Len(q) - n) : r[i] = q[n + i]
  <2>1. n + 1 \in Int /\ Len(q) \in Int /\ \A i \in (n + 1)..Len(q) : q[i] \in S
    BY <1>1
  <2>2. /\ r \in Seq(S) /\ Len(r) = IF n + 1 <= Len(q) THEN Len(q) - (n + 1) + 1 ELSE 0
        /\ \A i \in 1..(Len(q) - (n + 1) + 1) : r[i] = q[n + 1 + i - 1]
    BY <2>1, SubSeqProperties
  <2> HIDE DEF r
  <2>3. /\ Len(r) = Len(q) - n
        /\ Len(q) - (n + 1) + 1 = Len(q) - n /\ \A i \in 1..(Len(q) - n) : n + 1 + i - 1 = n + i
    <3>1. Len(r) = IF n + 1 <= Len(q) THEN Len(q) - (n + 1) + 1 ELSE 0
      BY <2>2
    <3> DEFINE l == Len(q)
    <3>2. l \in Nat /\ n \in Nat /\ n <= l
      BY <1>1
    <3> HIDE DEF l
    <3>3. (IF n + 1 <= l THEN l - (n + 1) + 1 ELSE 0) = l - n
      BY <3>2
    <3>4. l - (n + 1) + 1 = l - n /\ \A i \in 1..(l - n) : n + 1 + i - 1 = n + i
      BY <3>2
    <3> QED  BY <3>1, <3>3, <3>4 DEF l
  <2> QED  BY <2>2, <2>3
<1> HIDE DEF r
<1>3. DOMAIN r = 1..(Len(q) - n)
  BY <1>2
<1>4. \A x, y \in 1..Len(q) : q[x] = q[y] => x = y
  BY <1>1 DEF Distinct
<1>5. Distinct(r)
  <2> SUFFICES ASSUME NEW j \in DOMAIN r, NEW k \in DOMAIN r, r[j] = r[k]  PROVE j = k
    BY DEF Distinct
  <2>1. n + j \in 1..Len(q) /\ n + k \in 1..Len(q) /\ j \in Int /\ k \in Int
    BY <1>1, <1>3
  <2>2. q[n + j] = q[n + k]
    BY <1>2, <1>3
  <2>3. n + j = n + k
    BY <1>4, <2>1, <2>2
  <2> QED  BY <1>1, <2>1, <2>3
<1>6. Range(r) = Range(q) \ G
  <2>1. ASSUME NEW j \in DOMAIN r  PROVE r[j] \in Range(q) \ G
    <3>1. n + j \in 1..Len(q) /\ j \in Int /\ n + j > n /\ r[j] = q[n + j]
      <4>1. j \in 1..(Len(q) - n)
        BY <1>3
      <4>2. n + j \in 1..Len(q) /\ j \in Int /\ n + j > n
        BY <1>1, <4>1
      <4> QED  BY <1>2, <4>1, <4>2
    <3>2. ASSUME NEW i \in 1..n  PROVE q[i] # q[n + j]
      <4>1. i \in 1..Len(q) /\ i # n + j
        BY <1>1, <3>1
      <4> QED  BY <1>4, <3>1, <4>1
    <3> QED  BY <1>1, <3>1, <3>2 DEF Range
  <2>2. ASSUME NEW j \in DOMAIN q, q[j] \notin G  PROVE q[j] \in Range(r)
    <3>1. j \notin 1..n
      BY <2>2
    <3>2. j - n \in DOMAIN r /\ n + (j - n) = j
      BY <1>1, <1>3, <3>1
    <3>3. r[j - n] = q[j]
      BY <1>2, <1>3, <3>2
    <3> QED  BY <3>2, <3>3 DEF Range
  <2> HIDE DEF G
  <2>3. Range(r) \subseteq Range(q) \ G
    BY <2>1 DEF Range
  <2>4. Range(q) \ G \subseteq Range(r)
    BY <2>2 DEF Range
  <2> QED  BY <2>3, <2>4
<1>7. G \subseteq Range(q)
  BY <1>1 DEF Range
<1>8. Cardinality(G) = n
  <2> DEFINE first == [i \in 1..n |-> q[i]]
  <2>1. \A x, y \in 1..n : q[x] = q[y] => x = y
    BY <1>1, <1>4
  <2>2. first \in Surjection(1..n, G) /\ first \in Injection(1..n, G)
    BY <2>1 DEF Surjection, Injection, IsInjective
  <2>3. IsFiniteSet(1..n) /\ Cardinality(1..n) = n
    BY <1>1, FS_Interval
  <2> HIDE DEF first
  <2>4. Cardinality(G) = Cardinality(1..n)
    BY <2>2, <2>3, FS_Surjection
  <2> QED  BY <2>3, <2>4
<1>9. n = Len(q) => Range(r) = {}
  BY <1>1, <1>3 DEF Range
<1> QED  BY <1>2, <1>5, <1>6, <1>7, <1>8, <1>9 DEF r, Oldest, Younger

(* A function over an initial segment is a sequence.                       *)
LEMMA LenInSeq ==
    ASSUME NEW S, NEW k \in Nat, NEW n \in [1..k -> S]
    PROVE  n \in Seq(S) /\ Len(n) = k
OBVIOUS

(* An entry that is gone.                                                  *)
LEMMA GoneEntry ==
    ASSUME NEW x \in Entry
    PROVE  /\ [x EXCEPT !.refs = 0, !.inCache = FALSE] \in Entry
           /\ [x EXCEPT !.refs = 0, !.inCache = FALSE].file = x.file
           /\ [x EXCEPT !.refs = 0, !.inCache = FALSE].kind = x.kind
           /\ [x EXCEPT !.refs = 0, !.inCache = FALSE].refs = 0
           /\ [x EXCEPT !.refs = 0, !.inCache = FALSE].inCache = FALSE
BY DEF Entry

(* Unused entries leave the cache and are gone.                            *)
LEMMA UnusedDropped ==
    ASSUME NEW en, NEW tb, NEW lr, NEW us, NEW h, Books(en, tb, lr, us, h),
           NEW G \in SUBSET Range(lr), NEW n \in Seq(Entry), Len(n) = Len(en), DOMAIN n = DOMAIN en,
           \A e \in DOMAIN en :
             /\ n[e].file = en[e].file /\ n[e].kind = en[e].kind
             /\ e \in G => n[e].refs = 0 /\ n[e].inCache = FALSE
             /\ e \notin G => n[e].refs = en[e].refs /\ n[e].inCache = en[e].inCache
    PROVE  Dropped(en, n, G) /\ G \in SUBSET Cached(en)
<1>1. \A e \in G : e \in DOMAIN en /\ en[e].inCache /\ en[e].refs = 1
  <2>1. Range(lr) \subseteq DOMAIN en
    BY BookFacts
  <2> QED  BY <2>1 DEF Books
<1>2. Dropped(en, n, G)
  BY <1>1 DEF Dropped
<1> QED  BY <1>1, <1>2 DEF Cached

(* The loop of Insert: it stops at the capacity or when nothing is unused. *)
LEMMA EvictedBooks ==
    ASSUME NEW s, NEW h, ShardBooks(s, h)
    PROVE  /\ ShardBooks(Evicted(s), h)
           /\ Evicted(s).usage <= Capacity \/ Range(Evicted(s).lru) = {}
           /\ \E G \in SUBSET Range(s.lru) : Dropped(s.entries, Evicted(s).entries, G)
<1> DEFINE z == Evicted(s)
           en == s.entries
           tb == s.table
           lr == s.lru
           us == s.usage
           over == us - Capacity
           k == IF over < 0 THEN 0 ELSE IF over > Len(lr) THEN Len(lr) ELSE over
           G == Oldest(lr, k)
           n == [e \in DOMAIN en |->
                   IF e \in G THEN [en[e] EXCEPT !.refs = 0, !.inCache = FALSE] ELSE en[e]]
           m == [f \in Files |-> IF tb[f] \in G THEN 0 ELSE tb[f]]
           q == Younger(lr, k)
<1>1. z.entries = n /\ z.table = m /\ z.lru = q /\ z.usage = us - k
  BY DEF Evicted, Oldest, Younger
<1>2. Books(en, tb, lr, us, h)
  BY DEF ShardBooks
<1> HIDE DEF z, en, tb, lr, us
<1>3. /\ lr \in Seq(DOMAIN en) /\ Distinct(lr) /\ Len(lr) \in Nat /\ us \in Nat
      /\ tb \in [Files -> 0..Len(en)] /\ Len(en) \in Nat
  <2>1. us \in Nat /\ Len(en) \in Nat
    BY <1>2, BookFacts
  <2> QED  BY <1>2, <2>1 DEF Books
<1>4. k \in 0..Len(lr) /\ (us - k <= Capacity \/ k = Len(lr))
  BY <1>3, CapacityAssumption
<1> HIDE DEF k
<1>5. /\ q \in Seq(DOMAIN en) /\ Distinct(q) /\ Range(q) = Range(lr) \ G
      /\ G \subseteq Range(lr) /\ Cardinality(G) = k
      /\ k = Len(lr) => Range(q) = {}
  BY <1>3, <1>4, ListSplit
<1> HIDE DEF G, q
<1>6. Dropped(en, n, G) /\ G \in SUBSET Cached(en)
  <2>1. DOMAIN en = 1..Len(en) /\ Len(en) \in Nat /\ \A e \in DOMAIN en : en[e] \in Entry
    BY <1>2, BookFacts
  <2>2. ASSUME NEW e \in DOMAIN en
        PROVE  /\ n[e] \in Entry /\ n[e].file = en[e].file /\ n[e].kind = en[e].kind
               /\ e \in G => n[e].refs = 0 /\ n[e].inCache = FALSE
               /\ e \notin G => n[e].refs = en[e].refs /\ n[e].inCache = en[e].inCache
    <3>1. CASE e \in G
      <4>1. n[e] = [en[e] EXCEPT !.refs = 0, !.inCache = FALSE]
        BY <3>1
      <4>2. en[e] \in Entry
        BY <2>1
      <4> HIDE DEF n
      <4> QED  BY <3>1, <4>1, <4>2, GoneEntry
    <3>2. CASE e \notin G
      <4>1. n[e] = en[e]
        BY <3>2
      <4> HIDE DEF n
      <4> QED  BY <2>1, <3>2, <4>1
    <3> QED  BY <3>1, <3>2
  <2>3. n \in [1..Len(en) -> Entry] /\ DOMAIN n = DOMAIN en
    <3>1. \A e \in DOMAIN en : (IF e \in G THEN [en[e] EXCEPT !.refs = 0, !.inCache = FALSE]
                                             ELSE en[e]) \in Entry
      <4>1. \A e \in DOMAIN en : [en[e] EXCEPT !.refs = 0, !.inCache = FALSE] \in Entry
        BY <2>1, GoneEntry
      <4> QED  BY <2>1, <4>1
    <3> QED  BY <2>1, <3>1, Zenon
  <2> HIDE DEF n
  <2>4. n \in Seq(Entry) /\ Len(n) = Len(en)
    BY <2>1, <2>3, LenInSeq
  <2>5. G \in SUBSET Range(lr)
    BY <1>5
  <2>6. \A e \in DOMAIN en :
           /\ n[e].file = en[e].file /\ n[e].kind = en[e].kind
           /\ e \in G => n[e].refs = 0 /\ n[e].inCache = FALSE
           /\ e \notin G => n[e].refs = en[e].refs /\ n[e].inCache = en[e].inCache
    BY <2>2
  <2>7. DOMAIN n = DOMAIN en
    BY <2>3
  <2> QED  BY <1>2, <2>4, <2>5, <2>6, <2>7, UnusedDropped
<1> HIDE DEF n
<1>7. m \in [Files -> 0..Len(en)] /\ \A f \in Files : m[f] = IF tb[f] \in G THEN 0 ELSE tb[f]
  BY <1>3
<1> HIDE DEF m
<1>8. Books(n, m, q, us - Cardinality(G), h)
  BY <1>2, <1>5, <1>6, <1>7, BooksDropped
<1>9. ShardBooks(z, h)
  BY <1>1, <1>5, <1>8 DEF ShardBooks
<1>10. z.usage <= Capacity \/ Range(z.lru) = {}
  BY <1>1, <1>4, <1>5
<1> QED  BY <1>1, <1>5, <1>6, <1>9, <1>10 DEF z, en, lr

(* n is en and one more entry, with no more references than there were.    *)
Grown(en, n, f, k) ==
  /\ DOMAIN n = DOMAIN en \cup {Len(en) + 1}
  /\ n[Len(en) + 1].file = f /\ n[Len(en) + 1].kind = k
  /\ \A i \in DOMAIN en :
       n[i].file = en[i].file /\ n[i].kind = en[i].kind /\ n[i].refs <= en[i].refs

(* z is the shard s with the new entry x in its hash table.                *)
Extended(s, z, x) ==
  /\ z.entries = Append(s.entries, x)
  /\ z.table = [s.table EXCEPT ![x.file] = Len(s.entries) + 1]
  /\ z.lru = s.lru
  /\ z.usage = s.usage + 1

(* A shard with another charge.                                            *)
LEMMA ShardCharged ==
    ASSUME NEW s \in Shards, NEW u \in Int
    PROVE  /\ [s EXCEPT !.usage = u] \in Shards /\ [s EXCEPT !.usage = u].entries = s.entries
           /\ [s EXCEPT !.usage = u].lru = s.lru /\ [s EXCEPT !.usage = u].usage = u
           /\ [s EXCEPT !.usage = u].table = s.table
BY DEF Shards

(* A shard with another hash table.                                        *)
LEMMA ShardMapped ==
    ASSUME NEW s \in Shards, NEW f \in Files, NEW e \in Nat
    PROVE  /\ Mapped(s, f, e) \in Shards /\ Mapped(s, f, e).entries = s.entries
           /\ Mapped(s, f, e).lru = s.lru /\ Mapped(s, f, e).usage = s.usage
           /\ Mapped(s, f, e).table = [s.table EXCEPT ![f] = e]
BY DEF Shards, Mapped

(* A shard with other entries.                                             *)
LEMMA ShardEntries ==
    ASSUME NEW s \in Shards, NEW a \in Seq(Entry)
    PROVE  /\ [s EXCEPT !.entries = a] \in Shards /\ [s EXCEPT !.entries = a].entries = a
           /\ [s EXCEPT !.entries = a].lru = s.lru /\ [s EXCEPT !.entries = a].usage = s.usage
           /\ [s EXCEPT !.entries = a].table = s.table
BY DEF Shards

(* What Insert does before it erases the entry it replaces.                *)
LEMMA ShardExtended ==
    ASSUME NEW s \in Shards, NEW x \in Entry
    PROVE  LET y == [s EXCEPT !.entries = Append(@, x)]
               z == [Mapped(y, x.file, Len(s.entries) + 1) EXCEPT !.usage = @ + 1]
           IN z \in Shards /\ Extended(s, z, x)
<1> DEFINE a == Append(s.entries, x)
           e == Len(s.entries) + 1
           y == [s EXCEPT !.entries = Append(@, x)]
           w == Mapped(y, x.file, e)
           z == [w EXCEPT !.usage = @ + 1]
<1>1. a \in Seq(Entry) /\ e \in Nat /\ x.file \in Files /\ s.usage \in Int
  BY DEF Shards, Entry
<1>2. y = [s EXCEPT !.entries = a]
  OBVIOUS
<1> HIDE DEF a, e, y
<1>3. /\ y \in Shards /\ y.entries = a /\ y.lru = s.lru /\ y.usage = s.usage /\ y.table = s.table
  BY <1>1, <1>2, ShardEntries
<1>4. /\ w \in Shards /\ w.entries = a /\ w.lru = s.lru /\ w.usage = s.usage
      /\ w.table = [s.table EXCEPT ![x.file] = e]
  BY <1>1, <1>3, ShardMapped
<1> HIDE DEF w
<1>5. z = [w EXCEPT !.usage = w.usage + 1] /\ w.usage + 1 \in Int
  BY <1>1, <1>4
<1> HIDE DEF z
<1>6. /\ z \in Shards /\ z.entries = a /\ z.lru = s.lru /\ z.usage = s.usage + 1
      /\ z.table = [s.table EXCEPT ![x.file] = e]
  BY <1>4, <1>5, ShardCharged
<1>7. Extended(s, z, x)
  BY <1>6 DEF Extended, a, e
<1> QED  BY <1>6, <1>7 DEF z, w, y, e

(* Insert before it evicts: the old entry of the file has left the cache,  *)
(* and the new one is in it.                                               *)
LEMMA InsertParts ==
    ASSUME NEW s \in Shards, NEW h, ShardBooks(s, h), NEW f \in Files, NEW k \in Kinds,
           NEW x \in Entry, x.inCache = TRUE, x.refs = 2, x.file = f, x.kind = k,
           NEW t \in Readers, h[t] = 0,
           NEW z \in Shards, Extended(s, z, x)
    PROVE  /\ ShardBooks(FinishErase(z, s.table[f]), [h EXCEPT ![t] = Len(s.entries) + 1])
           /\ Grown(s.entries, FinishErase(z, s.table[f]).entries, f, k)
<1> DEFINE v == FinishErase(z, s.table[f])
           w == Erase(s, f)
           en == s.entries
           tb == s.table
           lr == s.lru
           us == s.usage
           o == tb[f]
           a == Append(en, x)
           e == Len(en) + 1
<1>1. /\ en \in Seq(Entry) /\ tb \in [Files -> Nat] /\ Books(en, tb, lr, us, h)
  BY DEF Shards, ShardBooks
<1>2. /\ a \in Seq(Entry) /\ Len(a) = e /\ e \in Nat /\ Len(en) \in Nat
      /\ DOMAIN a = DOMAIN en \cup {e} /\ \A i \in DOMAIN en : a[i] = en[i] /\ i # e
      /\ a[e] = x
  <2> HIDE DEF en
  <2>1. /\ a \in Seq(Entry) /\ Len(a) = e /\ Len(en) \in Nat
        /\ DOMAIN a = DOMAIN en \cup {e} /\ DOMAIN en = 1..Len(en)
        /\ \A i \in DOMAIN en : i \in Nat /\ i < Len(en) + 1 /\ a[i] = en[i]
        /\ a[e] = x
    BY <1>1, AppendFacts
  <2> QED  BY <2>1
<1>3. /\ z \in Shards /\ z.entries = a /\ z.lru = lr /\ z.usage = us + 1
      /\ z.table = [tb EXCEPT ![f] = e]
  BY DEF Extended
<1>4. /\ o \in {0} \cup DOMAIN en /\ o \in Nat
      /\ o # 0 => o \in DOMAIN en /\ en[o].refs > 0 /\ en[o].inCache /\ en[o].file = f
      /\ us \in Nat
  <2> HIDE DEF en, tb, lr, us
  <2> QED  BY <1>1, TableFacts, BookFacts
<1>5. /\ ShardBooks(w, h) /\ Dropped(en, w.entries, Gone(o))
      /\ \A g \in Files : w.table[g] = IF g = f THEN 0 ELSE tb[g]
      /\ w.lru = IF o = 0 THEN lr ELSE Unlinked(lr, o)
      /\ w.usage = us - (IF o = 0 THEN 0 ELSE 1)
  BY EraseBooks
<1> HIDE DEF en, tb, lr, us, o, w, a, e
<1>6. /\ Dropped(a, v.entries, Gone(o)) /\ v.table = [tb EXCEPT ![f] = e]
      /\ v.lru = IF o = 0 THEN lr ELSE Unlinked(lr, o)
      /\ v.usage = us + 1 - (IF o = 0 THEN 0 ELSE 1)
  <2>1. o \in {0} \cup DOMAIN z.entries /\ (o # 0 => z.entries[o].refs > 0)
    BY <1>2, <1>3, <1>4
  <2>2. /\ Dropped(z.entries, FinishErase(z, o).entries, Gone(o)) /\ FinishErase(z, o).table = z.table
        /\ FinishErase(z, o).lru = IF o = 0 THEN z.lru ELSE Unlinked(z.lru, o)
        /\ FinishErase(z, o).usage = z.usage - (IF o = 0 THEN 0 ELSE 1)
    BY <1>3, <2>1, FinishErased
  <2>3. v = FinishErase(z, o)
    BY DEF o, tb
  <2> HIDE DEF v
  <2>4. Dropped(a, v.entries, Gone(o)) /\ v.table = [tb EXCEPT ![f] = e]
    BY <1>3, <2>2, <2>3
  <2>5. v.lru = IF o = 0 THEN lr ELSE Unlinked(lr, o)
    BY <1>3, <2>2, <2>3
  <2>6. v.usage = us + 1 - (IF o = 0 THEN 0 ELSE 1)
    <3>1. v.usage = z.usage - (IF o = 0 THEN 0 ELSE 1)
      BY <2>2, <2>3
    <3>2. z.usage = us + 1
      BY <1>3
    <3> QED  BY <1>4, <3>1, <3>2
  <2> QED  BY <2>4, <2>5, <2>6
<1> HIDE DEF v
<1>7. e \notin Gone(o)
  BY <1>2, <1>4 DEF Gone
<1>8. Joined(w.entries, v.entries, x) /\ Len(v.entries) = e
  <2>1. /\ w.entries \in Seq(Entry) /\ Len(w.entries) = Len(en) /\ DOMAIN w.entries = DOMAIN en
        /\ v.entries \in Seq(Entry) /\ Len(v.entries) = e /\ DOMAIN v.entries = DOMAIN en \cup {e}
    BY <1>2, <1>5, <1>6 DEF Dropped
  <2>2. Same(v.entries[e], x)
    BY <1>2, <1>6, <1>7 DEF Dropped, Same
  <2>3. ASSUME NEW i \in DOMAIN en  PROVE Same(v.entries[i], w.entries[i])
    <3>1. a[i] = en[i] /\ i \in DOMAIN a
      BY <1>2
    <3>2. /\ w.entries[i].file = en[i].file /\ w.entries[i].kind = en[i].kind
          /\ i \in Gone(o) => w.entries[i].refs = en[i].refs - 1 /\ w.entries[i].inCache = FALSE
          /\ i \notin Gone(o) => w.entries[i].refs = en[i].refs /\ w.entries[i].inCache = en[i].inCache
      BY <1>5 DEF Dropped
    <3>3. /\ v.entries[i].file = a[i].file /\ v.entries[i].kind = a[i].kind
          /\ i \in Gone(o) => v.entries[i].refs = a[i].refs - 1 /\ v.entries[i].inCache = FALSE
          /\ i \notin Gone(o) => v.entries[i].refs = a[i].refs /\ v.entries[i].inCache = a[i].inCache
      BY <1>6, <3>1 DEF Dropped
    <3> QED  BY <3>1, <3>2, <3>3 DEF Same
  <2>4. e = Len(w.entries) + 1
    BY <2>1 DEF e
  <2> QED  BY <2>1, <2>2, <2>3, <2>4 DEF Joined
<1>9. /\ v.table \in [Files -> 0..Len(v.entries)]
      /\ \A g \in Files : v.table[g] = IF x.inCache /\ g = x.file THEN Len(v.entries) ELSE w.table[g]
  <2>1. tb \in [Files -> 0..Len(en)]
    BY <1>1 DEF Books
  <2>2. e \in 0..e /\ 0..Len(en) \subseteq 0..e
    BY <1>2 DEF e
  <2>3. v.table \in [Files -> 0..e]
    BY <1>6, <2>1, <2>2
  <2>4. \A g \in Files : v.table[g] = IF g = f THEN e ELSE w.table[g]
    BY <1>1, <1>5, <1>6
  <2> QED  BY <1>8, <2>3, <2>4
<1>10. w.table[x.file] = 0
  BY <1>5
<1>11. Books(w.entries, w.table, w.lru, w.usage, h)
  BY <1>5 DEF ShardBooks
<1>12. ShardBooks(v, [h EXCEPT ![t] = e])
  <2> DEFINE n == v.entries
             m == v.table
             ew == w.entries
             tw == w.table
             qw == w.lru
             uw == w.usage
             g == [h EXCEPT ![t] = e]
             c == 1
  <2>1. /\ Books(ew, tw, qw, uw, h) /\ Joined(ew, n, x) /\ Len(n) = e
        /\ m \in [Files -> 0..Len(n)] /\ tw[x.file] = 0
        /\ \A i \in Files : m[i] = IF x.inCache /\ i = x.file THEN Len(n) ELSE tw[i]
    BY <1>8, <1>9, <1>10, <1>11
  <2>2. (x.refs = IF x.inCache THEN 2 ELSE 1) /\ (c = IF x.inCache THEN 1 ELSE 0) /\ c \in Nat
    OBVIOUS
  <2>3. g \in [Readers -> 0..Len(n)] /\ HandlesMove(h, g, t, Len(n))
    <3>1. h \in [Readers -> 0..Len(en)]
      BY <1>1 DEF Books
    <3>2. e \in 0..e /\ 0..Len(en) \subseteq 0..e
      BY <1>2 DEF e
    <3>3. g \in [Readers -> 0..e] /\ HandlesMove(h, g, t, e)
      BY <3>1, <3>2 DEF HandlesMove
    <3> HIDE DEF g, n
    <3> QED  BY <2>1, <3>3
  <2>4. v.lru = qw /\ v.usage = uw + c
    BY <1>4, <1>5, <1>6
  <2> HIDE DEF n, m, ew, tw, qw, uw, g, c
  <2>5. Books(n, m, qw, uw + c, g)
    BY <2>1, <2>2, <2>3, BooksJoined
  <2> QED  BY <2>4, <2>5 DEF n, m, g, ShardBooks
<1>13. Grown(en, v.entries, f, k)
  <2>1. /\ DOMAIN v.entries = DOMAIN en \cup {e}
        /\ v.entries[e].file = f /\ v.entries[e].kind = k
    <3>1. DOMAIN w.entries = DOMAIN en
      BY <1>5 DEF Dropped
    <3> QED  BY <1>8, <3>1 DEF Joined, Same
  <2>2. ASSUME NEW i \in DOMAIN en
        PROVE  /\ v.entries[i].file = en[i].file /\ v.entries[i].kind = en[i].kind
               /\ v.entries[i].refs <= en[i].refs
    <3>1. en[i].refs \in Nat /\ a[i] = en[i] /\ i \in DOMAIN a
      BY <1>1, <1>2, BookFacts
    <3>2. /\ v.entries[i].file = a[i].file /\ v.entries[i].kind = a[i].kind
          /\ v.entries[i].refs = a[i].refs \/ v.entries[i].refs = a[i].refs - 1
      BY <1>6, <3>1 DEF Dropped
    <3> QED  BY <3>1, <3>2
  <2> QED  BY <2>1, <2>2 DEF Grown, e
<1> QED  BY <1>12, <1>13 DEF v, e, en

(* Insert when nothing is cached: the entry is its reader's alone.         *)
LEMMA InsertUncached ==
    ASSUME NEW s \in Shards, NEW h, ShardBooks(s, h), NEW f \in Files, NEW k \in Kinds,
           NEW x \in Entry, x.inCache = FALSE, x.refs = 1, x.file = f, x.kind = k,
           NEW t \in Readers, h[t] = 0,
           NEW v, v.entries = Append(s.entries, x), v.table = s.table, v.lru = s.lru, v.usage = s.usage
    PROVE  /\ ShardBooks(v, [h EXCEPT ![t] = Len(s.entries) + 1])
           /\ Grown(s.entries, v.entries, f, k)
<1> DEFINE en == s.entries
           tb == s.table
           lr == s.lru
           us == s.usage
           n == Append(en, x)
           e == Len(en) + 1
           g == [h EXCEPT ![t] = e]
           c == 0
<1>1. en \in Seq(Entry) /\ Books(en, tb, lr, us, h)
  BY DEF Shards, ShardBooks
<1>2. v.entries = n /\ v.table = tb /\ v.lru = lr /\ v.usage = us
  OBVIOUS
<1> HIDE DEF en, tb, lr, us
<1>3. /\ n \in Seq(Entry) /\ Len(n) = e /\ e \in Nat /\ Len(en) \in Nat
      /\ DOMAIN n = DOMAIN en \cup {e} /\ \A i \in DOMAIN en : n[i] = en[i]
      /\ n[e] = x
  BY <1>1, AppendFacts
<1> HIDE DEF n
<1>4. Joined(en, n, x)
  BY <1>3 DEF Joined, Same, e
<1>5. e \in 0..e /\ 0..Len(en) \subseteq 0..e
  BY <1>3
<1>6. h \in [Readers -> 0..Len(en)] /\ tb \in [Files -> 0..Len(en)]
  BY <1>1 DEF Books
<1>7. us \in Nat /\ \A i \in DOMAIN en : en[i].refs \in Nat
  BY <1>1, BookFacts
<1>8. Grown(en, n, f, k)
  BY <1>3, <1>7 DEF Grown, e
<1> HIDE DEF e
<1>9. g \in [Readers -> 0..Len(n)] /\ HandlesMove(h, g, t, Len(n))
  <2>1. g \in [Readers -> 0..e] /\ HandlesMove(h, g, t, e)
    BY <1>5, <1>6 DEF HandlesMove
  <2> HIDE DEF g
  <2> QED  BY <1>3, <2>1
<1>10. tb \in [Files -> 0..Len(n)]
  <2>1. tb \in [Files -> 0..e]
    BY <1>5, <1>6
  <2> QED  BY <1>3, <2>1
<1>11. /\ x.refs = IF x.inCache THEN 2 ELSE 1
       /\ c = IF x.inCache THEN 1 ELSE 0
       /\ c \in Nat
       /\ x.inCache => tb[x.file] = 0
       /\ \A i \in Files : tb[i] = IF x.inCache /\ i = x.file THEN Len(n) ELSE tb[i]
  OBVIOUS
<1>12. us + c = us
  BY <1>7
<1> HIDE DEF g, c
<1>13. Books(n, tb, lr, us + c, g)
  BY <1>1, <1>4, <1>9, <1>10, <1>11, BooksJoined
<1>14. ShardBooks(v, g)
  BY <1>2, <1>12, <1>13 DEF ShardBooks
<1> QED  BY <1>2, <1>8, <1>14 DEF g, e, en

(* Insert.                                                                 *)
LEMMA InsertBooks ==
    ASSUME NEW s \in Shards, NEW h, ShardBooks(s, h), NEW f \in Files, NEW k \in Kinds,
           NEW t \in Readers, h[t] = 0
    PROVE  /\ ShardBooks(Insert(s, f, k), [h EXCEPT ![t] = Len(s.entries) + 1])
           /\ Grown(s.entries, Insert(s, f, k).entries, f, k)
           /\ Insert(s, f, k).usage <= Capacity \/ Range(Insert(s, f, k).lru) = {}
<1> DEFINE x == [file |-> f, kind |-> k,
                 refs |-> IF Capacity > 0 THEN 2 ELSE 1, inCache |-> Capacity > 0]
           y == [s EXCEPT !.entries = Append(@, x)]
           w == [Mapped(y, f, Len(s.entries) + 1) EXCEPT !.usage = @ + 1]
           v == IF Capacity = 0 THEN y ELSE FinishErase(w, s.table[f])
           z == Insert(s, f, k)
           g == [h EXCEPT ![t] = Len(s.entries) + 1]
<1>1. z = Evicted(v)
  BY DEF Insert
<1>2. x \in Entry /\ x.file = f /\ x.kind = k
  BY DEF Entry
<1>3. ShardBooks(v, g) /\ Grown(s.entries, v.entries, f, k)
  <2>1. CASE Capacity = 0
    <3>1. x.inCache = FALSE /\ x.refs = 1 /\ v = y
      <4>1. (Capacity > 0) = FALSE
        BY <2>1
      <4>2. x.inCache = FALSE /\ x.refs = 1
        BY <4>1
      <4>3. v = y
        BY <2>1
      <4> QED  BY <4>2, <4>3
    <3>2. Append(s.entries, x) \in Seq(Entry)
      BY <1>2 DEF Shards
    <3> HIDE DEF x
    <3>3. /\ y.entries = Append(s.entries, x) /\ y.table = s.table /\ y.lru = s.lru
          /\ y.usage = s.usage
      BY <3>2 DEF Shards
    <3> HIDE DEF y, v
    <3> QED  BY <1>2, <3>1, <3>3, InsertUncached
  <2>2. CASE Capacity # 0
    <3>1. x.inCache = TRUE /\ x.refs = 2 /\ v = FinishErase(w, s.table[f])
      <4>1. (Capacity > 0) = TRUE
        BY <2>2, CapacityAssumption
      <4>2. x.inCache = TRUE /\ x.refs = 2
        BY <4>1
      <4>3. v = FinishErase(w, s.table[f])
        BY <2>2
      <4> QED  BY <4>2, <4>3
    <3> HIDE DEF x
    <3>2. w \in Shards /\ Extended(s, w, x)
      <4>1. w = [Mapped(y, x.file, Len(s.entries) + 1) EXCEPT !.usage = @ + 1]
        BY <1>2
      <4> QED  BY <1>2, <4>1, ShardExtended
    <3> HIDE DEF w, v
    <3> QED  BY <1>2, <3>1, <3>2, InsertParts
  <2> QED  BY <2>1, <2>2
<1> HIDE DEF v, z
<1>4. /\ ShardBooks(z, g) /\ (z.usage <= Capacity \/ Range(z.lru) = {})
      /\ \E G \in SUBSET Range(v.lru) : Dropped(v.entries, z.entries, G)
  BY <1>1, <1>3, EvictedBooks
<1>5. Grown(s.entries, z.entries, f, k)
  <2>1. PICK G \in SUBSET Range(v.lru) : Dropped(v.entries, z.entries, G)
    BY <1>4
  <2>2. \A i \in DOMAIN v.entries : v.entries[i].refs \in Nat
    BY <1>3, BookFacts DEF ShardBooks
  <2> DEFINE n == z.entries
             a == v.entries
             en == s.entries
  <2>3. /\ DOMAIN n = DOMAIN a
        /\ \A i \in DOMAIN a : /\ n[i].file = a[i].file /\ n[i].kind = a[i].kind
                               /\ n[i].refs = a[i].refs \/ n[i].refs = a[i].refs - 1
    BY <2>1 DEF Dropped
  <2>4. \A i \in DOMAIN a : a[i].refs \in Nat
    BY <2>2
  <2>5. Grown(en, a, f, k) /\ \A i \in DOMAIN en : en[i].refs \in Nat
    BY <1>3, BookFacts DEF ShardBooks
  <2> HIDE DEF n, a, en
  <2>6. \A i \in DOMAIN a : n[i].refs <= a[i].refs
    BY <2>3, <2>4
  <2>7. ASSUME NEW i \in DOMAIN en
        PROVE  n[i].file = en[i].file /\ n[i].kind = en[i].kind /\ n[i].refs <= en[i].refs
    <3>1. /\ i \in DOMAIN a /\ a[i].file = en[i].file /\ a[i].kind = en[i].kind
          /\ a[i].refs <= en[i].refs
      BY <2>5 DEF Grown
    <3>2. n[i].refs \in Int /\ a[i].refs \in Int /\ en[i].refs \in Int
      BY <2>3, <2>4, <2>5, <3>1
    <3> QED  BY <2>3, <2>6, <3>1, <3>2
  <2>8. Grown(en, n, f, k)
    BY <2>3, <2>5, <2>7 DEF Grown
  <2> QED  BY <2>8 DEF n, en
<1> QED  BY <1>4, <1>5 DEF z, g

(* ~LRUCache: with no reader left every cached entry is unused.            *)
LEMMA CloseBooks ==
    ASSUME NEW en, NEW tb, NEW lr, NEW us, NEW h, Books(en, tb, lr, us, h),
           \A t \in Readers : h[t] = 0, NEW n, Dropped(en, n, Range(lr)),
           NEW m \in [Files -> {0}]
    PROVE  Books(n, m, <<>>, 0, h)
<1>1. /\ Len(en) \in Nat /\ DOMAIN en = 1..Len(en) /\ Range(lr) \subseteq DOMAIN en /\ us \in Nat
      /\ \A f \in Files : tb[f] # 0 => tb[f] \in DOMAIN en
      /\ \A e \in DOMAIN en : en[e].inCache \in BOOLEAN
  BY BookFacts
<1>2. /\ \A f \in Files : tb[f] # 0 => en[tb[f]].inCache
      /\ \A e \in DOMAIN en : e \in Range(lr) <=> en[e].inCache /\ en[e].refs = 1
      /\ us = Cardinality(Cached(en))
      /\ \A e \in DOMAIN en : en[e].refs = Cardinality(HeldBy(h, e)) + (IF en[e].inCache THEN 1 ELSE 0)
  BY DEF Books
<1>3. ASSUME NEW e \in DOMAIN en, en[e].inCache  PROVE e \in Range(lr)
  <2>1. HeldBy(h, e) = {}
    BY <1>1 DEF HeldBy
  <2>2. Cardinality(HeldBy(h, e)) = 0
    BY <2>1, FS_EmptySet
  <2>3. en[e].refs = 1
    BY <1>2, <1>3, <2>2
  <2> QED  BY <1>2, <1>3, <2>3
<1>4. Range(lr) = Cached(en)
  BY <1>1, <1>2, <1>3 DEF Cached
<1>5. \A f \in Files : m[f] = IF tb[f] \in Range(lr) THEN 0 ELSE tb[f]
  BY <1>1, <1>2, <1>3
<1>6. m \in [Files -> 0..Len(en)]
  BY <1>1
<1>7. <<>> \in Seq(DOMAIN en) /\ Distinct(<<>>) /\ Range(<<>>) = Range(lr) \ Range(lr)
  BY DEF Distinct, Range
<1> DEFINE G == Range(lr)
           q == <<>>
<1>8. us - Cardinality(G) = 0
  BY <1>1, <1>2, <1>4
<1>9. /\ G \in SUBSET Cached(en) /\ Dropped(en, n, G)
      /\ \A f \in Files : m[f] = IF tb[f] \in G THEN 0 ELSE tb[f]
      /\ q \in Seq(DOMAIN en) /\ Distinct(q) /\ Range(q) = Range(lr) \ G
  BY <1>4, <1>5, <1>7
<1> HIDE DEF G, q
<1>10. Books(n, m, q, us - Cardinality(G), h)
  BY <1>6, <1>9, BooksDropped
<1> QED  BY <1>8, <1>10 DEF q

(* With nothing unused, every cached entry has a reader.                   *)
LEMMA UsersBound ==
    ASSUME NEW en, NEW tb, NEW lr, NEW us, NEW h, Books(en, tb, lr, us, h), Range(lr) = {}
    PROVE  us <= Cardinality(Readers)
<1>1. /\ \A e \in DOMAIN en : en[e].refs \in Nat
      /\ \A e : IsFiniteSet(HeldBy(h, e)) /\ Cardinality(HeldBy(h, e)) \in Nat
  BY BookFacts
<1>2. /\ \A e \in DOMAIN en : e \in Range(lr) <=> en[e].inCache /\ en[e].refs = 1
      /\ us = Cardinality(Cached(en))
      /\ \A e \in DOMAIN en : en[e].refs = Cardinality(HeldBy(h, e)) + (IF en[e].inCache THEN 1 ELSE 0)
  BY DEF Books
<1>3. ASSUME NEW e \in Cached(en)  PROVE \E t \in Readers : h[t] = e
  <2>1. e \in DOMAIN en /\ en[e].inCache
    BY DEF Cached
  <2>2. en[e].refs # 1 /\ en[e].refs = Cardinality(HeldBy(h, e)) + 1
    BY <1>2, <2>1
  <2>3. Cardinality(HeldBy(h, e)) # 0
    BY <2>2
  <2>4. HeldBy(h, e) # {}
    BY <2>3, FS_EmptySet
  <2> QED  BY <2>4 DEF HeldBy
<1> DEFINE user == [e \in Cached(en) |-> CHOOSE t \in Readers : h[t] = e]
<1>4. \A e \in Cached(en) : user[e] \in Readers /\ h[user[e]] = e
  BY <1>3
<1>5. user \in [Cached(en) -> Readers]
  BY <1>4
<1> HIDE DEF user
<1>6. \A d, e \in Cached(en) : user[d] = user[e] => d = e
  BY <1>4
<1>7. user \in Injection(Cached(en), Readers)
  BY <1>5, <1>6 DEF Injection, IsInjective
<1>8. Cardinality(Cached(en)) <= Cardinality(Readers)
  BY <1>7, ReadersAssumption, FS_Injection
<1> QED  BY <1>2, <1>8

-----------------------------------------------------------------------------
(* What the open files hold.                                               *)

HeldEntries(en, k) == {e \in DOMAIN en : en[e].refs > 0 /\ en[e].kind = k}

(* What the deleter gives back is what the entries no longer hold.         *)
LEMMA FreedCount ==
    ASSUME NEW en \in Seq(Entry), NEW n, DOMAIN en \subseteq DOMAIN n,
           \A i \in DOMAIN en : /\ n[i].kind = en[i].kind /\ n[i].refs \in Nat
                                /\ n[i].refs <= en[i].refs,
           NEW k
    PROVE  /\ Freed(en, n, k) \in Nat /\ Cardinality(HeldEntries(en, k)) \in Nat
           /\ IsFiniteSet(HeldEntries(n, k) \cap DOMAIN en)
           /\ Cardinality(HeldEntries(n, k) \cap DOMAIN en)
                = Cardinality(HeldEntries(en, k)) - Freed(en, n, k)
<1> DEFINE H == HeldEntries(en, k)
           F == {e \in DOMAIN en : en[e].refs > 0 /\ n[e].refs = 0 /\ en[e].kind = k}
           K == HeldEntries(n, k) \cap DOMAIN en
<1>1. \A i \in DOMAIN en : en[i].refs \in Nat
  <2>1. \A i \in DOMAIN en : en[i] \in Entry
    OBVIOUS
  <2> QED  BY <2>1 DEF Entry
<1>2. IsFiniteSet(DOMAIN en)
  <2>1. Len(en) \in Nat /\ DOMAIN en = 1..Len(en)
    OBVIOUS
  <2> QED  BY <2>1, FS_Interval
<1>3. IsFiniteSet(H) /\ IsFiniteSet(F)
  BY <1>2, FS_Subset DEF HeldEntries
<1>4. \A i \in DOMAIN en : n[i].refs > 0 <=> en[i].refs > 0 /\ n[i].refs # 0
  BY <1>1
<1>5. K = H \ F /\ H \cap F = F
  BY <1>4 DEF HeldEntries
<1>6. Freed(en, n, k) = Cardinality(F)
  BY DEF Freed
<1> HIDE DEF H, F, K
<1>7. IsFiniteSet(K) /\ Cardinality(K) = Cardinality(H) - Cardinality(F)
  <2>1. IsFiniteSet(H \ F) /\ Cardinality(H \ F) = Cardinality(H) - Cardinality(H \cap F)
    BY <1>3, FS_Difference
  <2> QED  BY <1>5, <2>1
<1>8. Cardinality(F) \in Nat /\ Cardinality(H) \in Nat
  BY <1>3, FS_CardinalityType
<1> QED  BY <1>6, <1>7, <1>8 DEF H, K

OpenedAs(p, kd, k) == {t \in Readers : p[t] = "opened" /\ kd[t] = k}

(* The numbers the limits are about: the maps and descriptors of entries,  *)
(* those of files just opened, and the readers at a stage.                 *)
Ents(k) == Cardinality(HeldEntries(entries, k))
Opn(k) == Cardinality(OpenedAs(pc, kind, k))
Ats(a) == Cardinality(HeldBy(pc, a))

Ledger ==
  /\ mmaps + (Ents("mmap") + Opn("mmap")) + Ats("map") + Ats("undoMmap") = MaxMmaps
  /\ fds + (Ents("fd") + Opn("fd")) + Ats("undoFd") = MaxFds
  /\ (Ents("mmap") + Opn("mmap")) + Ats("map") <= MaxMmaps
  /\ Ents("fd") + Opn("fd") <= MaxFds

(* The limits, in these numbers.                                           *)
LEMMA LimitForm == (LimitsKept <=> Ledger) /\ (LimitsKept' <=> Ledger')
BY DEF LimitsKept, Ledger, Ents, Opn, Ats, HeldEntries, OpenedAs, HeldBy

(* The numbers are numbers.                                                *)
LEMMA CountTypes ==
    ASSUME NEW en \in Seq(Entry), NEW p, NEW kd
    PROVE  /\ \A k : Cardinality(HeldEntries(en, k)) \in Nat
           /\ \A k : Cardinality(OpenedAs(p, kd, k)) \in Nat
           /\ \A a : Cardinality(HeldBy(p, a)) \in Nat
<1>1. IsFiniteSet(DOMAIN en)
  <2>1. Len(en) \in Nat /\ DOMAIN en = 1..Len(en)
    OBVIOUS
  <2> QED  BY <2>1, FS_Interval
<1>2. ASSUME NEW k  PROVE Cardinality(HeldEntries(en, k)) \in Nat
  <2>1. HeldEntries(en, k) \in SUBSET DOMAIN en
    BY DEF HeldEntries
  <2> QED  BY <1>1, <2>1, FS_Subset, FS_CardinalityType
<1>3. ASSUME NEW k  PROVE Cardinality(OpenedAs(p, kd, k)) \in Nat
  <2>1. OpenedAs(p, kd, k) \in SUBSET Readers
    BY DEF OpenedAs
  <2> QED  BY <2>1, ReadersAssumption, FS_Subset, FS_CardinalityType
<1>4. ASSUME NEW a  PROVE Cardinality(HeldBy(p, a)) \in Nat
  <2>1. HeldBy(p, a) \in SUBSET Readers
    BY DEF HeldBy
  <2> QED  BY <2>1, ReadersAssumption, FS_Subset, FS_CardinalityType
<1> QED  BY <1>2, <1>3, <1>4

(* A reader opens a file, or stops being one that has.                     *)
LEMMA OpenedMoves ==
    ASSUME NEW p, NEW q, NEW kd, NEW ke, NEW t \in Readers, NEW b, NEW c,
           HandlesMove(p, q, t, b), HandlesMove(kd, ke, t, c)
    PROVE  \A k : Cardinality(OpenedAs(q, ke, k)) = Cardinality(OpenedAs(p, kd, k))
                    + (IF b = "opened" /\ c = k THEN 1 ELSE 0)
                    - (IF p[t] = "opened" /\ kd[t] = k THEN 1 ELSE 0)
<1> TAKE k
<1> DEFINE P == OpenedAs(p, kd, k)
           Q == OpenedAs(q, ke, k)
<1>1. /\ q[t] = b /\ \A u \in Readers : u # t => q[u] = p[u]
      /\ ke[t] = c /\ \A u \in Readers : u # t => ke[u] = kd[u]
  BY DEF HandlesMove
<1>2. Q \in SUBSET Readers /\ P \in SUBSET Readers
  BY DEF OpenedAs
<1>3. P \ {t} = Q \ {t}
  BY <1>1 DEF OpenedAs
<1>4. (t \in Q <=> b = "opened" /\ c = k) /\ (t \in P <=> p[t] = "opened" /\ kd[t] = k)
  BY <1>1 DEF OpenedAs
<1> HIDE DEF P, Q
<1>5. Cardinality(Q) = Cardinality(P) + (IF t \in Q THEN 1 ELSE 0) - (IF t \in P THEN 1 ELSE 0)
  BY <1>2, <1>3, ReadersAssumption, CountMove
<1>6. Cardinality(Q) = Cardinality(P)
                    + (IF b = "opened" /\ c = k THEN 1 ELSE 0)
                    - (IF p[t] = "opened" /\ kd[t] = k THEN 1 ELSE 0)
  BY <1>4, <1>5
<1> QED  BY <1>6 DEF P, Q

(* Where the numbers of readers go when reader t goes to stage b, with c   *)
(* as the kind of its file.                                                *)
LEMMA ReaderCounts ==
    ASSUME NEW t \in Readers, NEW b, NEW c, HandlesMove(pc, pc', t, b), HandlesMove(kind, kind', t, c)
    PROVE  /\ \A a : Ats(a)' = Ats(a) + (IF a = b THEN 1 ELSE 0) - (IF a = pc[t] THEN 1 ELSE 0)
           /\ \A k : Opn(k)' = Opn(k) + (IF b = "opened" /\ c = k THEN 1 ELSE 0)
                                     - (IF pc[t] = "opened" /\ kind[t] = k THEN 1 ELSE 0)
<1>1. \A a : Cardinality(HeldBy(pc', a)) = Cardinality(HeldBy(pc, a))
               + (IF a = b THEN 1 ELSE 0) - (IF a = pc[t] THEN 1 ELSE 0)
  BY HandleMoves
<1>2. \A k : Cardinality(OpenedAs(pc', kind', k)) = Cardinality(OpenedAs(pc, kind, k))
                    + (IF b = "opened" /\ c = k THEN 1 ELSE 0)
                    - (IF pc[t] = "opened" /\ kind[t] = k THEN 1 ELSE 0)
  BY OpenedMoves
<1>3. (\A a : Ats(a)' = Cardinality(HeldBy(pc', a))) /\ (\A k : Opn(k)' = Cardinality(OpenedAs(pc', kind', k)))
  BY DEF Ats, Opn
<1> QED  BY <1>1, <1>2, <1>3 DEF Ats, Opn

(* What a reader at a stage, with a file of that kind, has of a limit.     *)
HoldsMap(stage, k) == stage = "map" \/ (stage = "opened" /\ k = "mmap")
HoldsFd(stage, k) == stage = "opened" /\ k = "fd"
TakenMap(stage, k) == IF HoldsMap(stage, k) \/ stage = "undoMmap" THEN 1 ELSE 0
TakenFd(stage, k) == IF HoldsFd(stage, k) \/ stage = "undoFd" THEN 1 ELSE 0

(* A limiter gives what is taken, and there is something to give.          *)
LEMMA LedgerMath ==
    ASSUME NEW m \in Int, NEW n \in Int, NEW da \in Int, NEW do \in Int, NEW du \in Int,
           NEW e \in Nat, NEW o \in Nat, NEW a \in Nat, NEW u \in Nat, NEW max \in Nat,
           m + (e + o) + a + u = max, (e + o) + a <= max,
           n + (do + da + du) = m, do + da <= 0 \/ (m > 0 /\ do + da <= 1)
    PROVE  /\ n + (e + (o + do)) + (a + da) + (u + du) = max
           /\ (e + (o + do)) + (a + da) <= max
OBVIOUS

(* A step of a reader that opens a file: it leaves the cache alone, and    *)
(* what it takes it takes from the limiter.                                *)
QuietMove(t, b, c) ==
  /\ b # "using" /\ pc[t] # "using" /\ pc[t] # "idle" /\ At(t, b) /\ kind' = [kind EXCEPT ![t] = c]
  /\ UNCHANGED <<file, handle, cacheVars, deleted, open>>
  /\ mmaps' \in Int /\ mmaps' + TakenMap(b, c) = mmaps + TakenMap(pc[t], kind[t])
  /\ HoldsMap(b, c) => HoldsMap(pc[t], kind[t]) \/ mmaps > 0
  /\ fds' \in Int /\ fds' + TakenFd(b, c) = fds + TakenFd(pc[t], kind[t])
  /\ HoldsFd(b, c) => HoldsFd(pc[t], kind[t]) \/ fds > 0

(* Such a step keeps the invariant.                                        *)
LEMMA QuietStep ==
    ASSUME CacheInv, NEW t \in Readers, NEW b \in Stages, NEW c \in Kinds, QuietMove(t, b, c)
    PROVE  CacheInv'
<1> USE DEF QuietMove
<1>1. /\ entries' = entries /\ table' = table /\ lru' = lru /\ usage' = usage
      /\ file' = file /\ handle' = handle /\ deleted' = deleted /\ open' = open
      /\ pc' = [pc EXCEPT ![t] = b]
  BY DEF cacheVars, At
<1>2. pc \in [Readers -> Stages] /\ kind \in [Readers -> Kinds]
  BY DEF CacheInv, ReadersInv
<1>3. HandlesMove(pc, pc', t, b) /\ HandlesMove(kind, kind', t, c)
  BY <1>1, <1>2 DEF HandlesMove
<1>4. pc' \in [Readers -> Stages] /\ kind' \in [Readers -> Kinds]
  BY <1>1, <1>2
<1>5. ReadersInv'
  <2>1. \A u \in Readers : IF pc'[u] = "using" THEN handle'[u] # 0 /\ entries'[handle'[u]].file = file'[u]
                                               ELSE handle'[u] = 0
    BY <1>1, <1>3 DEF HandlesMove, CacheInv, ReadersInv
  <2>2. \A u \in Readers : pc'[u] # "idle" => file'[u] \notin deleted'
    BY <1>1, <1>3 DEF HandlesMove, CacheInv, ReadersInv
  <2>3. file' \in [Readers -> Files] /\ deleted' \subseteq Files /\ open' \in BOOLEAN
    BY <1>1 DEF CacheInv, ReadersInv
  <2> QED  BY <1>4, <2>1, <2>2, <2>3 DEF ReadersInv
<1>6. ShardInv'
  BY <1>1 DEF CacheInv, ShardInv
<1>7. CacheIsBounded'
  BY <1>1 DEF CacheInv, CacheIsBounded
<1>8. entries \in Seq(Entry)
  BY DEF CacheInv, ShardInv, Books
<1>9. \A k : Ents(k) \in Nat /\ Ents(k)' = Ents(k)
  <2>1. \A k : Ents(k) \in Nat
    BY <1>8, CountTypes DEF Ents
  <2>2. \A k : Ents(k)' = Ents(k)
    BY <1>1 DEF Ents
  <2> QED  BY <2>1, <2>2
<1>10. (\A a : Ats(a) \in Nat) /\ (\A k : Opn(k) \in Nat)
  BY <1>8, CountTypes DEF Ats, Opn
<1>11. /\ \A a : Ats(a)' = Ats(a) + (IF a = b THEN 1 ELSE 0) - (IF a = pc[t] THEN 1 ELSE 0)
       /\ \A k : Opn(k)' = Opn(k) + (IF b = "opened" /\ c = k THEN 1 ELSE 0)
                                     - (IF pc[t] = "opened" /\ kind[t] = k THEN 1 ELSE 0)
  BY <1>3, ReaderCounts, ZenonT(30)
<1>12. Ledger'
  <2> DEFINE A == Ats("map")
             U == Ats("undoMmap")
             V == Ats("undoFd")
             O == Opn("mmap")
             P == Opn("fd")
             E == Ents("mmap")
             F == Ents("fd")
             a0 == pc[t]
             c0 == kind[t]
  <2>1. A \in Nat /\ U \in Nat /\ V \in Nat /\ O \in Nat /\ P \in Nat /\ E \in Nat /\ F \in Nat
    BY <1>9, <1>10
  <2>2. /\ A' = A + (IF b = "map" THEN 1 ELSE 0) - (IF a0 = "map" THEN 1 ELSE 0)
        /\ U' = U + (IF b = "undoMmap" THEN 1 ELSE 0) - (IF a0 = "undoMmap" THEN 1 ELSE 0)
        /\ V' = V + (IF b = "undoFd" THEN 1 ELSE 0) - (IF a0 = "undoFd" THEN 1 ELSE 0)
    BY <1>11
  <2>3. /\ O' = O + (IF b = "opened" /\ c = "mmap" THEN 1 ELSE 0)
                - (IF a0 = "opened" /\ c0 = "mmap" THEN 1 ELSE 0)
        /\ P' = P + (IF b = "opened" /\ c = "fd" THEN 1 ELSE 0)
                - (IF a0 = "opened" /\ c0 = "fd" THEN 1 ELSE 0)
    BY <1>11
  <2>4. E' = E /\ F' = F
    BY <1>9
  <2>5. /\ mmaps \in Int /\ fds \in Int /\ MaxMmaps \in Nat /\ MaxFds \in Nat
        /\ mmaps + (E + O) + A + U = MaxMmaps /\ fds + (F + P) + V = MaxFds
        /\ (E + O) + A <= MaxMmaps /\ F + P <= MaxFds
    BY LimitForm, LimitsAssumption DEF CacheInv, LimitInv, Ledger
  <2> HIDE DEF A, U, V, O, P, E, F, a0, c0
  <2>6. /\ mmaps' + TakenMap(b, c) = mmaps + TakenMap(a0, c0)
        /\ HoldsMap(b, c) => HoldsMap(a0, c0) \/ mmaps > 0
        /\ fds' + TakenFd(b, c) = fds + TakenFd(a0, c0)
        /\ HoldsFd(b, c) => HoldsFd(a0, c0) \/ fds > 0
    BY DEF a0, c0
  <2> DEFINE da == (IF b = "map" THEN 1 ELSE 0) - (IF a0 = "map" THEN 1 ELSE 0)
             du == (IF b = "undoMmap" THEN 1 ELSE 0) - (IF a0 = "undoMmap" THEN 1 ELSE 0)
             dv == (IF b = "undoFd" THEN 1 ELSE 0) - (IF a0 = "undoFd" THEN 1 ELSE 0)
             do == (IF b = "opened" /\ c = "mmap" THEN 1 ELSE 0)
                     - (IF a0 = "opened" /\ c0 = "mmap" THEN 1 ELSE 0)
             dp == (IF b = "opened" /\ c = "fd" THEN 1 ELSE 0)
                     - (IF a0 = "opened" /\ c0 = "fd" THEN 1 ELSE 0)
             z == 0
             m1 == mmaps'
             f1 == fds'
  <2>7. A' = A + da /\ U' = U + du /\ V' = V + dv /\ O' = O + do /\ P' = P + dp
    BY <2>2, <2>3
  <2>8. da \in Int /\ du \in Int /\ dv \in Int /\ do \in Int /\ dp \in Int /\ m1 \in Int /\ f1 \in Int
    OBVIOUS
  <2>9. m1 + (do + da + du) = mmaps /\ (do + da <= 0 \/ (mmaps > 0 /\ do + da <= 1))
    <3> DEFINE x1 == IF b = "map" THEN 1 ELSE 0
               x2 == IF b = "undoMmap" THEN 1 ELSE 0
               x3 == IF b = "opened" /\ c = "mmap" THEN 1 ELSE 0
               y1 == IF a0 = "map" THEN 1 ELSE 0
               y2 == IF a0 = "undoMmap" THEN 1 ELSE 0
               y3 == IF a0 = "opened" /\ c0 = "mmap" THEN 1 ELSE 0
    <3>1. x1 \in Int /\ x2 \in Int /\ x3 \in Int /\ y1 \in Int /\ y2 \in Int /\ y3 \in Int
      OBVIOUS
    <3>2. /\ TakenMap(b, c) = x1 + x2 + x3
          /\ HoldsMap(b, c) => x1 + x3 = 1
          /\ ~HoldsMap(b, c) => x1 + x3 = 0
      BY DEF TakenMap, HoldsMap
    <3>3. /\ TakenMap(a0, c0) = y1 + y2 + y3
          /\ HoldsMap(a0, c0) => y1 + y3 = 1
          /\ ~HoldsMap(a0, c0) => y1 + y3 = 0
      BY DEF TakenMap, HoldsMap
    <3>4. da = x1 - y1 /\ du = x2 - y2 /\ do = x3 - y3
      OBVIOUS
    <3> HIDE DEF x1, x2, x3, y1, y2, y3, da, du, do
    <3>5. m1 + (do + da + du) = mmaps
      <4>1. m1 + (x1 + x2 + x3) = mmaps + (y1 + y2 + y3)
        BY <2>6, <3>2, <3>3
      <4> HIDE DEF m1
      <4> QED  BY <2>5, <2>8, <3>1, <3>4, <4>1
    <3>6. do + da = (x1 + x3) - (y1 + y3)
      BY <3>1, <3>4
    <3> QED  BY <2>6, <3>1, <3>2, <3>3, <3>5, <3>6
  <2>10. f1 + (dp + z + dv) = fds /\ (dp + z <= 0 \/ (fds > 0 /\ dp + z <= 1))
    <3> DEFINE x2 == IF b = "undoFd" THEN 1 ELSE 0
               x3 == IF b = "opened" /\ c = "fd" THEN 1 ELSE 0
               y2 == IF a0 = "undoFd" THEN 1 ELSE 0
               y3 == IF a0 = "opened" /\ c0 = "fd" THEN 1 ELSE 0
    <3>1. x2 \in Int /\ x3 \in Int /\ y2 \in Int /\ y3 \in Int
      OBVIOUS
    <3>2. /\ TakenFd(b, c) = x2 + x3
          /\ HoldsFd(b, c) => x3 = 1
          /\ ~HoldsFd(b, c) => x3 = 0
      BY DEF TakenFd, HoldsFd
    <3>3. /\ TakenFd(a0, c0) = y2 + y3
          /\ HoldsFd(a0, c0) => y3 = 1
          /\ ~HoldsFd(a0, c0) => y3 = 0
      BY DEF TakenFd, HoldsFd
    <3>4. dv = x2 - y2 /\ dp = x3 - y3
      OBVIOUS
    <3> HIDE DEF x2, x3, y2, y3, dv, dp
    <3>5. f1 + (dp + z + dv) = fds
      <4>1. f1 + (x2 + x3) = fds + (y2 + y3)
        BY <2>6, <3>2, <3>3
      <4> HIDE DEF f1
      <4> QED  BY <2>5, <2>8, <3>1, <3>4, <4>1
    <3>6. dp + z = x3 - y3
      BY <3>1, <3>4
    <3> QED  BY <2>6, <3>1, <3>2, <3>3, <3>5, <3>6
  <2>11. fds + (F + P) + z + V = MaxFds /\ (F + P) + z <= MaxFds /\ z \in Nat /\ z \in Int
    BY <2>1, <2>5
  <2> HIDE DEF da, du, dv, do, dp, z, m1, f1
  <2>12. /\ m1 + (E + (O + do)) + (A + da) + (U + du) = MaxMmaps
         /\ (E + (O + do)) + (A + da) <= MaxMmaps
    BY <2>1, <2>5, <2>8, <2>9, LedgerMath
  <2>13. /\ f1 + (F + (P + dp)) + (z + z) + (V + dv) = MaxFds
         /\ (F + (P + dp)) + (z + z) <= MaxFds
    BY <2>1, <2>5, <2>8, <2>10, <2>11, LedgerMath
  <2>14. f1 + (F + (P + dp)) + (V + dv) = MaxFds /\ F + (P + dp) <= MaxFds
    BY <2>1, <2>8, <2>13 DEF z
  <2>15. /\ mmaps' + (E' + O') + A' + U' = MaxMmaps /\ (E' + O') + A' <= MaxMmaps
         /\ fds' + (F' + P') + V' = MaxFds /\ F' + P' <= MaxFds
    BY <2>4, <2>7, <2>12, <2>14 DEF m1, f1
  <2> QED  BY <2>15 DEF Ledger, A, U, V, O, P, E, F
<1> QED  BY <1>5, <1>6, <1>7, <1>12, LimitForm DEF CacheInv, LimitInv

(* The steps that open a file keep the invariant.                          *)
LEMMA OpeningSteps ==
    ASSUME CacheInv, NEW t \in Readers,
           \/ OpenFails(t) \/ AcquireMmap(t) \/ UndoMmap(t) \/ MapFile(t)
           \/ AcquireFd(t) \/ UndoFd(t) \/ TableFails(t)
    PROVE  CacheInv'
<1>1. /\ mmaps \in Int /\ fds \in Int /\ kind \in [Readers -> Kinds] /\ kind[t] \in Kinds
  BY DEF CacheInv, LimitInv, ReadersInv
<1>2. kind = [kind EXCEPT ![t] = kind[t]]
  BY <1>1
<1>3. /\ "idle" \in Stages /\ "map" \in Stages /\ "undoMmap" \in Stages /\ "fd" \in Stages
      /\ "undoFd" \in Stages /\ "opened" \in Stages
      /\ "mmap" \in Kinds /\ "fd" \in Kinds /\ "reopen" \in Kinds
  BY DEF Stages, Kinds
<1> USE DEF TakenMap, TakenFd, HoldsMap, HoldsFd
<1>4. CASE OpenFails(t)
  <2>1. QuietMove(t, "idle", kind[t])
    BY <1>1, <1>2, <1>4 DEF OpenFails, fileVars, QuietMove
  <2> QED  BY <1>1, <1>3, <2>1, QuietStep
<1>5. CASE AcquireMmap(t)
  <2>1. CASE mmaps > 0
    <3>1. QuietMove(t, "map", kind[t])
      BY <1>1, <1>2, <1>5, <2>1 DEF AcquireMmap, QuietMove
    <3> QED  BY <1>1, <1>3, <3>1, QuietStep
  <2>2. CASE ~(mmaps > 0)
    <3>1. QuietMove(t, "undoMmap", kind[t])
      BY <1>1, <1>2, <1>5, <2>2 DEF AcquireMmap, QuietMove
    <3> QED  BY <1>1, <1>3, <3>1, QuietStep
  <2> QED  BY <2>1, <2>2
<1>6. CASE UndoMmap(t)
  <2>1. QuietMove(t, "fd", kind[t])
    BY <1>1, <1>2, <1>6 DEF UndoMmap, QuietMove
  <2> QED  BY <1>1, <1>3, <2>1, QuietStep
<1>7. CASE MapFile(t)
  <2>1. QuietMove(t, "opened", "mmap") \/ QuietMove(t, "idle", kind[t])
    BY <1>1, <1>2, <1>7 DEF MapFile, QuietMove
  <2> QED  BY <1>1, <1>3, <2>1, QuietStep
<1>8. CASE AcquireFd(t)
  <2>1. CASE fds > 0
    <3>1. QuietMove(t, "opened", "fd")
      BY <1>1, <1>2, <1>8, <2>1 DEF AcquireFd, QuietMove
    <3> QED  BY <1>1, <1>3, <3>1, QuietStep
  <2>2. CASE ~(fds > 0)
    <3>1. QuietMove(t, "undoFd", kind[t])
      BY <1>1, <1>2, <1>8, <2>2 DEF AcquireFd, QuietMove
    <3> QED  BY <1>1, <1>3, <3>1, QuietStep
  <2> QED  BY <2>1, <2>2
<1>9. CASE UndoFd(t)
  <2>1. QuietMove(t, "opened", "reopen")
    BY <1>1, <1>2, <1>9 DEF UndoFd, QuietMove
  <2> QED  BY <1>1, <1>3, <2>1, QuietStep
<1>10. CASE TableFails(t)
  <2>1. QuietMove(t, "idle", kind[t])
    BY <1>1, <1>2, <1>10 DEF TableFails, QuietMove
  <2> QED  BY <1>1, <1>3, <2>1, QuietStep
<1> QED  BY <1>4, <1>5, <1>6, <1>7, <1>8, <1>9, <1>10

-----------------------------------------------------------------------------
(* The steps that call the cache.                                          *)

(* The shard of a state.                                                   *)
LEMMA ShardFacts ==
    ASSUME CacheInv
    PROVE  /\ Shard \in Shards /\ ShardBooks(Shard, handle)
           /\ Shard.entries = entries /\ Shard.table = table /\ Shard.lru = lru /\ Shard.usage = usage
           /\ Books(entries, table, lru, usage, handle) /\ entries \in Seq(Entry)
           /\ \A k : Ents(k) \in Nat /\ Opn(k) \in Nat /\ Ats(k) \in Nat
<1>1. Books(entries, table, lru, usage, handle)
  BY DEF CacheInv, ShardInv
<1>2. /\ entries \in Seq(Entry) /\ table \in [Files -> Nat] /\ lru \in Seq(Nat) /\ usage \in Int
  <2>1. usage \in Nat => usage \in Int
    OBVIOUS
  <2> QED  BY <1>1, <2>1, BookFacts
<1>3. Shard.entries = entries /\ Shard.table = table /\ Shard.lru = lru /\ Shard.usage = usage
  BY DEF Shard
<1>4. Shard \in Shards
  BY <1>2 DEF Shard, Shards
<1>5. ShardBooks(Shard, handle)
  BY <1>1, <1>3 DEF ShardBooks
<1>6. \A k : Ents(k) \in Nat /\ Opn(k) \in Nat /\ Ats(k) \in Nat
  BY <1>2, CountTypes DEF Ents, Opn, Ats
<1> QED  BY <1>1, <1>2, <1>3, <1>4, <1>5, <1>6

(* What a call closes it gives back to the limiters.                       *)
LEMMA CallLedger ==
    ASSUME CacheInv, NEW x \in Nat, NEW y \in Nat, mmaps' = mmaps + x, fds' = fds + y,
           Ents("mmap")' \in Nat, Opn("mmap")' \in Nat, Ents("fd")' \in Nat, Opn("fd")' \in Nat,
           Ents("mmap")' + Opn("mmap")' = Ents("mmap") + Opn("mmap") - x,
           Ents("fd")' + Opn("fd")' = Ents("fd") + Opn("fd") - y,
           Ats("map")' = Ats("map"), Ats("undoMmap")' = Ats("undoMmap"), Ats("undoFd")' = Ats("undoFd")
    PROVE  LimitInv'
<1> DEFINE e == Ents("mmap") + Opn("mmap")
           f == Ents("fd") + Opn("fd")
           e1 == Ents("mmap")' + Opn("mmap")'
           f1 == Ents("fd")' + Opn("fd")'
           a == Ats("map")
           u == Ats("undoMmap")
           v == Ats("undoFd")
           m1 == mmaps'
           d1 == fds'
<1>0. \A k : Ents(k) \in Nat /\ Opn(k) \in Nat /\ Ats(k) \in Nat
  BY ShardFacts
<1>1. /\ e \in Nat /\ f \in Nat /\ a \in Nat /\ u \in Nat /\ v \in Nat
  BY <1>0
<1>2. /\ mmaps \in Int /\ fds \in Int /\ MaxMmaps \in Nat /\ MaxFds \in Nat
      /\ mmaps + e + a + u = MaxMmaps /\ fds + f + v = MaxFds /\ e + a <= MaxMmaps /\ f <= MaxFds
  BY LimitForm, LimitsAssumption DEF CacheInv, LimitInv, Ledger
<1>3. e1 = e - x /\ f1 = f - y /\ m1 = mmaps + x /\ d1 = fds + y
  <2>1. Ents("mmap") + (Opn("mmap") - x) = e - x /\ Ents("fd") + (Opn("fd") - y) = f - y
    BY <1>0
  <2> QED  BY <2>1
<1> HIDE DEF e, f, e1, f1, a, u, v, m1, d1
<1>4. /\ m1 + e1 + a + u = MaxMmaps /\ d1 + f1 + v = MaxFds /\ e1 + a <= MaxMmaps /\ f1 <= MaxFds
      /\ m1 \in Int /\ d1 \in Int
  BY <1>1, <1>2, <1>3
<1>5. Ledger' /\ mmaps' \in Int /\ fds' \in Int
  BY <1>4 DEF Ledger, e1, f1, a, u, v, m1, d1
<1> QED  BY <1>5, LimitForm DEF LimitInv

(* n is en with no more references than there were.                        *)
Shrunk(en, n) ==
  /\ n \in Seq(Entry) /\ DOMAIN n = DOMAIN en
  /\ \A i \in DOMAIN en : /\ n[i].file = en[i].file /\ n[i].kind = en[i].kind
                          /\ n[i].refs \in Nat /\ n[i].refs <= en[i].refs

(* A call that only takes references away keeps the limits.                *)
LEMMA ShrinkingLedger ==
    ASSUME CacheInv, Shrunk(entries, entries'),
           mmaps' = mmaps + Freed(entries, entries', "mmap"),
           fds' = fds + Freed(entries, entries', "fd"),
           \A k : Opn(k)' = Opn(k),
           Ats("map")' = Ats("map"), Ats("undoMmap")' = Ats("undoMmap"), Ats("undoFd")' = Ats("undoFd")
    PROVE  LimitInv'
<1> DEFINE x == Freed(entries, entries', "mmap")
           y == Freed(entries, entries', "fd")
<1>1. entries \in Seq(Entry) /\ \A k : Ents(k) \in Nat /\ Opn(k) \in Nat
  BY ShardFacts
<1>2. /\ entries' \in Seq(Entry) /\ DOMAIN entries \subseteq DOMAIN entries' /\ DOMAIN entries' = DOMAIN entries
      /\ \A i \in DOMAIN entries : /\ entries'[i].kind = entries[i].kind
                                   /\ entries'[i].refs \in Nat /\ entries'[i].refs <= entries[i].refs
  BY DEF Shrunk
<1>3. \A k : /\ Freed(entries, entries', k) \in Nat
             /\ Cardinality(HeldEntries(entries', k) \cap DOMAIN entries)
                  = Cardinality(HeldEntries(entries, k)) - Freed(entries, entries', k)
  BY <1>1, <1>2, FreedCount
<1>4. \A k : HeldEntries(entries', k) \cap DOMAIN entries = HeldEntries(entries', k)
  BY <1>2 DEF HeldEntries
<1>5. \A k : Ents(k)' = Ents(k) - Freed(entries, entries', k)
  <2>1. \A k : Ents(k)' = Cardinality(HeldEntries(entries', k))
    BY DEF Ents
  <2> QED  BY <1>3, <1>4, <2>1 DEF Ents
<1>6. \A k : Ents(k)' \in Nat
  BY <1>2, CountTypes DEF Ents
<1>7. mmaps' = mmaps + x /\ fds' = fds + y /\ x \in Nat /\ y \in Nat
  BY <1>3
<1>8. /\ Ents("mmap")' = Ents("mmap") - x /\ Opn("mmap")' = Opn("mmap")
      /\ Ents("fd")' = Ents("fd") - y /\ Opn("fd")' = Opn("fd")
      /\ Ents("mmap")' \in Nat /\ Opn("mmap")' \in Nat /\ Ents("fd")' \in Nat /\ Opn("fd")' \in Nat
  BY <1>1, <1>5, <1>6
<1> HIDE DEF x, y
<1>9. /\ Ents("mmap")' + Opn("mmap")' = Ents("mmap") + Opn("mmap") - x
      /\ Ents("fd")' + Opn("fd")' = Ents("fd") + Opn("fd") - y
  BY <1>1, <1>7, <1>8
<1> QED  BY <1>7, <1>8, <1>9, CallLedger

(* ReleaseTable: the entry stays for its other readers and the cache.      *)
LEMMA ReleaseStep ==
    ASSUME CacheInv, NEW t \in Readers, ReleaseTable(t)
    PROVE  CacheInv'
<1> DEFINE e == handle[t]
           z == Unref(Shard, e)
<1>1. /\ pc[t] = "using" /\ handle' = [handle EXCEPT ![t] = 0] /\ pc' = [pc EXCEPT ![t] = "idle"]
      /\ entries' = z.entries /\ table' = z.table /\ lru' = z.lru /\ usage' = z.usage
      /\ mmaps' = mmaps + Freed(entries, z.entries, "mmap")
      /\ fds' = fds + Freed(entries, z.entries, "fd")
      /\ file' = file /\ kind' = kind /\ deleted' = deleted /\ open' = open
  BY DEF ReleaseTable, Call, SetShard, At
<1>2. /\ pc \in [Readers -> Stages] /\ kind \in [Readers -> Kinds] /\ file \in [Readers -> Files]
      /\ \A u \in Readers : IF pc[u] = "using" THEN handle[u] # 0 /\ entries[handle[u]].file = file[u]
                                                ELSE handle[u] = 0
      /\ \A u \in Readers : pc[u] # "idle" => file[u] \notin deleted
      /\ deleted \subseteq Files /\ open \in BOOLEAN
  BY DEF CacheInv, ReadersInv
<1>3. /\ Shard \in Shards /\ ShardBooks(Shard, handle) /\ Shard.entries = entries
      /\ Shard.usage = usage /\ Books(entries, table, lru, usage, handle) /\ entries \in Seq(Entry)
      /\ \A k : Ents(k) \in Nat /\ Opn(k) \in Nat /\ Ats(k) \in Nat
  BY ShardFacts
<1>4. handle \in [Readers -> 0..Len(entries)] /\ Len(entries) \in Nat /\ DOMAIN entries = 1..Len(entries)
      /\ \A i \in DOMAIN entries : entries[i].refs \in Nat
  <2>1. handle \in [Readers -> 0..Len(entries)]
    BY <1>3 DEF Books
  <2> QED  BY <1>3, <2>1, BookFacts
<1>5. \A u \in Readers : handle[u] # 0 => handle[u] \in DOMAIN entries
  BY <1>4
<1>6. e \in DOMAIN entries
  BY <1>1, <1>2, <1>5
<1>7. /\ ShardBooks(z, [handle EXCEPT ![t] = 0]) /\ Renewed(entries, z.entries, e, entries[e].refs - 1)
      /\ entries[e].refs > 0 /\ z.usage = usage
  <2>1. e \in DOMAIN Shard.entries
    BY <1>3, <1>6
  <2> QED  BY <1>3, <2>1, UnrefBooks
<1> HIDE DEF z, e
<1>8. ShardInv'
  BY <1>1, <1>7 DEF ShardInv, ShardBooks
<1>9. /\ entries' \in Seq(Entry) /\ DOMAIN entries' = DOMAIN entries
      /\ \A i \in DOMAIN entries : /\ entries'[i].file = entries[i].file
                                   /\ entries'[i].kind = entries[i].kind
                                   /\ entries'[i].refs \in Nat /\ entries'[i].refs <= entries[i].refs
  <2> DEFINE n == z.entries
             r == entries[e].refs - 1
  <2>1. r \in Nat /\ r <= entries[e].refs
    BY <1>4, <1>6, <1>7
  <2> HIDE DEF n, r
  <2>2. Renewed(entries, n, e, r)
    BY <1>7 DEF n, r
  <2>3. /\ n \in Seq(Entry) /\ DOMAIN n = DOMAIN entries
        /\ \A i \in DOMAIN entries : /\ n[i].file = entries[i].file /\ n[i].kind = entries[i].kind
                                     /\ n[i].refs = IF i = e THEN r ELSE entries[i].refs
    BY <2>2 DEF Renewed
  <2>4. \A i \in DOMAIN entries : n[i].refs \in Nat /\ n[i].refs <= entries[i].refs
    BY <1>4, <2>1, <2>3
  <2>5. entries' = n
    BY <1>1 DEF n
  <2> QED  BY <2>3, <2>4, <2>5
<1>10. ReadersInv'
  <2>1. pc' \in [Readers -> Stages] /\ pc'[t] = "idle" /\ \A u \in Readers : u # t => pc'[u] = pc[u]
    BY <1>1, <1>2 DEF Stages
  <2>2. handle'[t] = 0 /\ \A u \in Readers : u # t => handle'[u] = handle[u]
    BY <1>1, <1>4
  <2>3. ASSUME NEW u \in Readers
        PROVE  IF pc'[u] = "using" THEN handle'[u] # 0 /\ entries'[handle'[u]].file = file'[u]
                                   ELSE handle'[u] = 0
    <3>1. CASE u = t
      BY <2>1, <2>2, <3>1
    <3>2. CASE u # t
      BY <1>1, <1>2, <1>5, <1>9, <2>1, <2>2, <3>2
    <3> QED  BY <3>1, <3>2
  <2>4. \A u \in Readers : pc'[u] # "idle" => file'[u] \notin deleted'
    BY <1>1, <1>2, <2>1
  <2> QED  BY <1>1, <1>2, <2>1, <2>3, <2>4 DEF ReadersInv
<1>11. CacheIsBounded'
  <2>1. \A i \in DOMAIN entries' : entries'[i].file \in deleted' => entries'[i].refs = 0
    <3>1. \A i \in DOMAIN entries : entries[i].file \in deleted => entries[i].refs = 0
      BY DEF CacheInv, CacheIsBounded
    <3> QED  BY <1>1, <1>4, <1>9, <3>1
  <2>2. usage' <= Capacity \/ usage' <= Cardinality(Readers)
    BY <1>1, <1>7 DEF CacheInv, CacheIsBounded
  <2> QED  BY <2>1, <2>2 DEF CacheIsBounded
<1>12. LimitInv'
  <2>4. /\ \A a : Ats(a)' = Ats(a) + (IF a = "idle" THEN 1 ELSE 0) - (IF a = "using" THEN 1 ELSE 0)
        /\ \A k : Opn(k)' = Opn(k) + 0 - 0
    <3> DEFINE b == "idle"
               c == kind[t]
    <3>1. HandlesMove(pc, pc', t, b) /\ HandlesMove(kind, kind', t, c)
      BY <1>1, <1>2 DEF HandlesMove
    <3>2. b # "opened" /\ pc[t] = "using"
      BY <1>1
    <3> HIDE DEF b, c
    <3>3. /\ \A a : Ats(a)' = Ats(a) + (IF a = b THEN 1 ELSE 0) - (IF a = pc[t] THEN 1 ELSE 0)
          /\ \A k : Opn(k)' = Opn(k) + (IF b = "opened" /\ c = k THEN 1 ELSE 0)
                                     - (IF pc[t] = "opened" /\ kind[t] = k THEN 1 ELSE 0)
      BY <3>1, ReaderCounts
    <3> QED  BY <3>2, <3>3 DEF b
  <2>5. Ats("map")' = Ats("map") /\ Ats("undoMmap")' = Ats("undoMmap") /\ Ats("undoFd")' = Ats("undoFd")
    BY <1>3, <2>4
  <2>6. \A k : Opn(k)' = Opn(k)
    BY <1>3, <2>4
  <2>7. Shrunk(entries, entries')
    BY <1>9 DEF Shrunk
  <2>8. /\ mmaps' = mmaps + Freed(entries, entries', "mmap")
        /\ fds' = fds + Freed(entries, entries', "fd")
    BY <1>1
  <2> QED  BY <2>5, <2>6, <2>7, <2>8, ShrinkingLedger
<1> QED  BY <1>8, <1>10, <1>11, <1>12 DEF CacheInv

(* What a call makes of the entries when the cache gives up references.    *)
LEMMA DroppedShrunk ==
    ASSUME NEW en, NEW tb, NEW lr, NEW us, NEW h, Books(en, tb, lr, us, h),
           NEW G \in SUBSET Cached(en), NEW n, Dropped(en, n, G)
    PROVE  Shrunk(en, n)
<1>1. \A i \in DOMAIN en : /\ en[i].refs \in Nat /\ en[i].inCache \in BOOLEAN
                           /\ Cardinality(HeldBy(h, i)) \in Nat
  BY BookFacts
<1>2. \A i \in DOMAIN en : en[i].refs = Cardinality(HeldBy(h, i)) + (IF en[i].inCache THEN 1 ELSE 0)
  BY DEF Books
<1>3. \A i \in G : i \in DOMAIN en /\ en[i].inCache
  BY DEF Cached
<1>4. \A i \in G : en[i].refs > 0
  BY <1>1, <1>2, <1>3
<1>5. ASSUME NEW i \in DOMAIN en
      PROVE  /\ n[i].file = en[i].file /\ n[i].kind = en[i].kind
             /\ n[i].refs \in Nat /\ n[i].refs <= en[i].refs
  <2>1. /\ n[i].file = en[i].file /\ n[i].kind = en[i].kind
        /\ i \in G => n[i].refs = en[i].refs - 1
        /\ i \notin G => n[i].refs = en[i].refs
    BY DEF Dropped
  <2>2. en[i].refs \in Nat /\ (i \in G => en[i].refs > 0)
    BY <1>1, <1>4
  <2> QED  BY <2>1, <2>2
<1> QED  BY <1>5 DEF Shrunk, Dropped

(* Readers do not move, and their entries keep their files.                *)
LEMMA ReadersStay ==
    ASSUME CacheInv, pc' = pc, file' = file, kind' = kind, handle' = handle,
           Shrunk(entries, entries'), deleted' \subseteq Files, open' \in BOOLEAN,
           \A t \in Readers : pc[t] # "idle" => file[t] \notin deleted'
    PROVE  /\ ReadersInv'
           /\ \A k : Opn(k)' = Opn(k)
           /\ Ats("map")' = Ats("map") /\ Ats("undoMmap")' = Ats("undoMmap") /\ Ats("undoFd")' = Ats("undoFd")
<1>1. Books(entries, table, lru, usage, handle)
  BY ShardFacts
<1>2. \A t \in Readers : handle[t] # 0 => handle[t] \in DOMAIN entries
  BY <1>1 DEF Books
<1>3. \A i \in DOMAIN entries : entries'[i].file = entries[i].file
  BY DEF Shrunk
<1>4. ReadersInv'
  BY <1>2, <1>3 DEF CacheInv, ReadersInv
<1> QED  BY <1>4 DEF Opn, Ats

(* DeleteTable: nobody has an entry of the file, and the cache gives its   *)
(* own up.                                                                 *)
LEMMA DeleteStep ==
    ASSUME CacheInv, NEW f \in Files, DeleteTable(f)
    PROVE  CacheInv'
<1> DEFINE z == Erase(Shard, f)
           o == table[f]
<1>1. /\ \A t \in Readers : pc[t] = "idle" \/ file[t] # f
      /\ entries' = z.entries /\ table' = z.table /\ lru' = z.lru /\ usage' = z.usage
      /\ mmaps' = mmaps + Freed(entries, z.entries, "mmap")
      /\ fds' = fds + Freed(entries, z.entries, "fd")
      /\ deleted' = deleted \cup {f} /\ pc' = pc /\ file' = file /\ kind' = kind /\ handle' = handle
      /\ open' = open
  BY DEF DeleteTable, Call, SetShard, readerVars
<1>2. /\ \A t \in Readers : IF pc[t] = "using" THEN handle[t] # 0 /\ entries[handle[t]].file = file[t]
                                                ELSE handle[t] = 0
      /\ \A t \in Readers : pc[t] # "idle" => file[t] \notin deleted
      /\ deleted \subseteq Files /\ open \in BOOLEAN
  BY DEF CacheInv, ReadersInv
<1>3. /\ Shard \in Shards /\ ShardBooks(Shard, handle) /\ Shard.entries = entries /\ Shard.table = table
      /\ Shard.usage = usage /\ Books(entries, table, lru, usage, handle) /\ entries \in Seq(Entry)
  BY ShardFacts
<1>4. /\ ShardBooks(z, handle) /\ Dropped(entries, z.entries, Gone(o))
      /\ z.table[f] = 0 /\ z.usage = usage - (IF o = 0 THEN 0 ELSE 1)
  BY <1>3, EraseBooks
<1> HIDE DEF z, o
<1>5. ShardInv'
  BY <1>1, <1>4 DEF ShardInv, ShardBooks
<1>6. Shrunk(entries, entries')
  <2>1. Gone(o) \in SUBSET Cached(entries)
    BY <1>3, TableFacts DEF o
  <2>2. Shrunk(entries, z.entries)
    BY <1>3, <1>4, <2>1, DroppedShrunk
  <2> QED  BY <1>1, <2>2
<1>7. /\ ReadersInv'
      /\ \A k : Opn(k)' = Opn(k)
      /\ Ats("map")' = Ats("map") /\ Ats("undoMmap")' = Ats("undoMmap") /\ Ats("undoFd")' = Ats("undoFd")
  BY <1>1, <1>2, <1>6, ReadersStay
<1>8. LimitInv'
  <2>1. /\ mmaps' = mmaps + Freed(entries, entries', "mmap")
        /\ fds' = fds + Freed(entries, entries', "fd")
    BY <1>1
  <2> QED  BY <1>6, <1>7, <2>1, ShrinkingLedger
<1>9. CacheIsBounded'
  <2>1. ASSUME NEW i \in DOMAIN entries', entries'[i].file \in deleted'  PROVE entries'[i].refs = 0
    <3>1. /\ i \in DOMAIN entries /\ entries'[i].file = entries[i].file
          /\ entries'[i].refs \in Nat /\ entries'[i].refs <= entries[i].refs
      BY <1>6 DEF Shrunk
    <3>2. CASE entries[i].file \in deleted
      <4>1. entries[i].refs = 0
        BY <3>1, <3>2 DEF CacheInv, CacheIsBounded
      <4> QED  BY <3>1, <4>1
    <3>3. CASE entries[i].file = f
      <4>1. HeldBy(handle, i) = {}
        <5>1. i # 0
          BY <1>3, <3>1
        <5> QED  BY <1>1, <1>2, <3>3, <5>1 DEF HeldBy
      <4>2. Cardinality(HeldBy(handle, i)) = 0
        BY <4>1, FS_EmptySet
      <4>3. /\ entries'[i].inCache \in BOOLEAN /\ (entries'[i].inCache => table'[entries'[i].file] = i) /\ i # 0
            /\ entries'[i].refs = Cardinality(HeldBy(handle', i)) + (IF entries'[i].inCache THEN 1 ELSE 0)
        <5>1. Books(entries', table', lru', usage', handle')
          BY <1>5 DEF ShardInv
        <5>2. entries'[i].inCache \in BOOLEAN /\ i # 0
          BY <2>1, <5>1, BookFacts
        <5> QED  BY <2>1, <5>1, <5>2 DEF Books
      <4>4. table'[entries'[i].file] = 0
        BY <1>1, <1>4, <3>1, <3>3
      <4>5. ~entries'[i].inCache
        BY <4>3, <4>4
      <4> QED  BY <1>1, <4>2, <4>3, <4>5
    <3> QED  BY <1>1, <2>1, <3>1, <3>2, <3>3
  <2>2. usage' <= Capacity \/ usage' <= Cardinality(Readers)
    <3>1. usage \in Nat /\ usage' = usage - (IF o = 0 THEN 0 ELSE 1)
      BY <1>1, <1>3, <1>4, BookFacts
    <3>2. usage <= Capacity \/ usage <= Cardinality(Readers)
      BY DEF CacheInv, CacheIsBounded
    <3>3. Cardinality(Readers) \in Nat
      BY ReadersAssumption, FS_CardinalityType
    <3> QED  BY <3>1, <3>2, <3>3, CapacityAssumption
  <2> QED  BY <2>1, <2>2 DEF CacheIsBounded
<1> QED  BY <1>5, <1>7, <1>8, <1>9 DEF CacheInv

(* Reader t gets a table of file f, as entry x.                            *)
Arrives(t, f, x) ==
  /\ pc[t] # "using" /\ f \in Files /\ f \notin deleted /\ x # 0
  /\ pc' = [pc EXCEPT ![t] = "using"] /\ file' = [file EXCEPT ![t] = f]
  /\ handle' = [handle EXCEPT ![t] = x] /\ entries'[x].file = f
  /\ kind' = kind /\ deleted' = deleted /\ open' = open
  /\ \A i \in DOMAIN entries : entries'[i].file = entries[i].file

(* Its handle is one of that file, and the other readers keep theirs.      *)
LEMMA ReaderArrives ==
    ASSUME CacheInv, NEW t \in Readers, NEW f, NEW x, Arrives(t, f, x)
    PROVE  /\ ReadersInv'
           /\ Ats("map")' = Ats("map") + 0 - (IF "map" = pc[t] THEN 1 ELSE 0)
           /\ Ats("undoMmap")' = Ats("undoMmap") + 0 - (IF "undoMmap" = pc[t] THEN 1 ELSE 0)
           /\ Ats("undoFd")' = Ats("undoFd") + 0 - (IF "undoFd" = pc[t] THEN 1 ELSE 0)
           /\ \A k : Opn(k)' = Opn(k) + 0 - (IF pc[t] = "opened" /\ kind[t] = k THEN 1 ELSE 0)
<1>1. /\ pc \in [Readers -> Stages] /\ kind \in [Readers -> Kinds] /\ file \in [Readers -> Files]
      /\ \A u \in Readers : IF pc[u] = "using" THEN handle[u] # 0 /\ entries[handle[u]].file = file[u]
                                                ELSE handle[u] = 0
      /\ \A u \in Readers : pc[u] # "idle" => file[u] \notin deleted
      /\ deleted \subseteq Files /\ open \in BOOLEAN
  BY DEF CacheInv, ReadersInv
<1>2. handle \in [Readers -> 0..Len(entries)] /\ \A u \in Readers : handle[u] # 0 => handle[u] \in DOMAIN entries
  <2>1. Books(entries, table, lru, usage, handle)
    BY ShardFacts
  <2> QED  BY <2>1 DEF Books
<1>3. /\ pc' \in [Readers -> Stages] /\ pc'[t] = "using" /\ \A u \in Readers : u # t => pc'[u] = pc[u]
  BY <1>1 DEF Arrives, Stages
<1>4. /\ file' \in [Readers -> Files] /\ file'[t] = f /\ \A u \in Readers : u # t => file'[u] = file[u]
  BY <1>1 DEF Arrives
<1>5. handle'[t] = x /\ \A u \in Readers : u # t => handle'[u] = handle[u]
  BY <1>2 DEF Arrives
<1>6. /\ f \notin deleted /\ x # 0 /\ entries'[x].file = f /\ kind' = kind /\ deleted' = deleted
      /\ open' = open /\ \A i \in DOMAIN entries : entries'[i].file = entries[i].file
  BY DEF Arrives
<1>7. ReadersInv'
  <2>1. ASSUME NEW u \in Readers
        PROVE  IF pc'[u] = "using" THEN handle'[u] # 0 /\ entries'[handle'[u]].file = file'[u]
                                   ELSE handle'[u] = 0
    <3>1. CASE u = t
      BY <1>3, <1>4, <1>5, <1>6, <3>1
    <3>2. CASE u # t
      BY <1>1, <1>2, <1>3, <1>4, <1>5, <1>6, <3>2
    <3> QED  BY <3>1, <3>2
  <2>2. \A u \in Readers : pc'[u] # "idle" => file'[u] \notin deleted'
    BY <1>1, <1>3, <1>4, <1>6
  <2> QED  BY <1>1, <1>3, <1>4, <1>6, <2>1, <2>2 DEF ReadersInv
<1>8. /\ \A a : Ats(a)' = Ats(a) + (IF a = "using" THEN 1 ELSE 0) - (IF a = pc[t] THEN 1 ELSE 0)
      /\ \A k : Opn(k)' = Opn(k) + 0 - (IF pc[t] = "opened" /\ kind[t] = k THEN 1 ELSE 0)
  <2> DEFINE b == "using"
             c == kind[t]
  <2>1. HandlesMove(pc, pc', t, b) /\ HandlesMove(kind, kind', t, c)
    BY <1>3, <1>6 DEF HandlesMove
  <2>2. b # "opened"
    OBVIOUS
  <2> HIDE DEF b, c
  <2>3. /\ \A a : Ats(a)' = Ats(a) + (IF a = b THEN 1 ELSE 0) - (IF a = pc[t] THEN 1 ELSE 0)
        /\ \A k : Opn(k)' = Opn(k) + (IF b = "opened" /\ c = k THEN 1 ELSE 0)
                                   - (IF pc[t] = "opened" /\ kind[t] = k THEN 1 ELSE 0)
    BY <2>1, ReaderCounts
  <2> QED  BY <2>2, <2>3 DEF b
<1> QED  BY <1>7, <1>8

(* Lookup that finds the table: the reader shares the entry.               *)
LEMMA HitStep ==
    ASSUME CacheInv, NEW t \in Readers, NEW f \in Files, Lookup(t, f), table[f] # 0
    PROVE  CacheInv'
<1> DEFINE e == table[f]
           z == Ref(Shard, e)
<1>1. /\ pc[t] = "idle" /\ f \notin deleted /\ file' = [file EXCEPT ![t] = f]
      /\ pc' = [pc EXCEPT ![t] = "using"] /\ handle' = [handle EXCEPT ![t] = e]
      /\ entries' = z.entries /\ table' = z.table /\ lru' = z.lru /\ usage' = z.usage
      /\ kind' = kind /\ deleted' = deleted /\ mmaps' = mmaps /\ fds' = fds /\ open' = open
  BY DEF Lookup, SetShard, At, fileVars
<1>2. /\ Shard \in Shards /\ ShardBooks(Shard, handle) /\ Shard.entries = entries
      /\ Shard.usage = usage /\ Books(entries, table, lru, usage, handle) /\ entries \in Seq(Entry)
      /\ \A k : Ents(k) \in Nat /\ Opn(k) \in Nat /\ Ats(k) \in Nat
  BY ShardFacts
<1>3. /\ e # 0 /\ e \in DOMAIN entries /\ entries[e].inCache /\ entries[e].file = f
      /\ \A i \in DOMAIN entries : entries[i].refs \in Nat
  BY <1>2, TableFacts, BookFacts
<1>4. handle[t] = 0
  BY <1>1 DEF CacheInv, ReadersInv
<1>5. /\ ShardBooks(z, [handle EXCEPT ![t] = e]) /\ Renewed(entries, z.entries, e, entries[e].refs + 1)
      /\ entries[e].refs > 0 /\ z.usage = usage
  <2> HIDE DEF e
  <2>1. e \in DOMAIN Shard.entries /\ Shard.entries[e].inCache
    BY <1>2, <1>3
  <2> QED  BY <1>2, <1>4, <2>1, RefBooks
<1> HIDE DEF z, e
<1>6. ShardInv'
  BY <1>1, <1>5 DEF ShardInv, ShardBooks
<1>7. /\ DOMAIN entries' = DOMAIN entries
      /\ \A i \in DOMAIN entries : /\ entries'[i].file = entries[i].file
                                   /\ entries'[i].kind = entries[i].kind
                                   /\ (i # e => entries'[i].refs = entries[i].refs)
                                   /\ (entries'[i].refs > 0 <=> entries[i].refs > 0)
  <2> DEFINE n == z.entries
             r == entries[e].refs + 1
  <2>1. r > 0
    BY <1>3
  <2> HIDE DEF n, r
  <2>2. Renewed(entries, n, e, r)
    BY <1>5 DEF n, r
  <2>3. /\ DOMAIN n = DOMAIN entries
        /\ \A i \in DOMAIN entries : /\ n[i].file = entries[i].file /\ n[i].kind = entries[i].kind
                                     /\ n[i].refs = IF i = e THEN r ELSE entries[i].refs
    BY <2>2 DEF Renewed
  <2>4. \A i \in DOMAIN entries : n[i].refs > 0 <=> entries[i].refs > 0
    BY <1>5, <2>1, <2>3
  <2>5. entries' = n
    BY <1>1 DEF n
  <2> QED  BY <2>3, <2>4, <2>5
<1>8. Arrives(t, f, e)
  BY <1>1, <1>3, <1>7 DEF Arrives
<1>9. /\ ReadersInv' /\ \A k : Opn(k)' = Opn(k)
      /\ Ats("map")' = Ats("map") /\ Ats("undoMmap")' = Ats("undoMmap") /\ Ats("undoFd")' = Ats("undoFd")
  <2>1. /\ ReadersInv'
        /\ Ats("map")' = Ats("map") + 0 - (IF "map" = pc[t] THEN 1 ELSE 0)
        /\ Ats("undoMmap")' = Ats("undoMmap") + 0 - (IF "undoMmap" = pc[t] THEN 1 ELSE 0)
        /\ Ats("undoFd")' = Ats("undoFd") + 0 - (IF "undoFd" = pc[t] THEN 1 ELSE 0)
        /\ \A k : Opn(k)' = Opn(k) + 0 - (IF pc[t] = "opened" /\ kind[t] = k THEN 1 ELSE 0)
    BY <1>8, ReaderArrives
  <2>2. \A k : Opn(k)' = Opn(k)
    BY <1>1, <1>2, <2>1
  <2>3. Ats("map")' = Ats("map") /\ Ats("undoMmap")' = Ats("undoMmap") /\ Ats("undoFd")' = Ats("undoFd")
    BY <1>1, <1>2, <2>1
  <2> QED  BY <2>1, <2>2, <2>3
<1>10. LimitInv'
  <2>1. \A k : HeldEntries(entries', k) = HeldEntries(entries, k)
    BY <1>7 DEF HeldEntries
  <2>2. \A k : Ents(k)' = Ents(k)
    <3>1. \A k : Ents(k)' = Cardinality(HeldEntries(entries', k))
      BY DEF Ents
    <3> QED  BY <2>1, <3>1 DEF Ents
  <2>3. mmaps \in Int /\ fds \in Int /\ Ledger
    BY LimitForm DEF CacheInv, LimitInv
  <2>4. mmaps' \in Int /\ fds' \in Int /\ Ledger'
    BY <1>1, <1>9, <2>2, <2>3 DEF Ledger
  <2> QED  BY <2>4, LimitForm DEF LimitInv
<1>11. CacheIsBounded'
  <2>1. \A i \in DOMAIN entries : entries[i].file \in deleted => entries[i].refs = 0
    BY DEF CacheInv, CacheIsBounded
  <2>2. \A i \in DOMAIN entries' : entries'[i].file \in deleted' => entries'[i].refs = 0
    BY <1>1, <1>3, <1>7, <2>1
  <2>3. usage' <= Capacity \/ usage' <= Cardinality(Readers)
    BY <1>1, <1>5 DEF CacheInv, CacheIsBounded
  <2> QED  BY <2>2, <2>3 DEF CacheIsBounded
<1> QED  BY <1>6, <1>9, <1>10, <1>11 DEF CacheInv

(* Lookup that does not: the reader goes on to open the file.              *)
LEMMA MissStep ==
    ASSUME CacheInv, NEW t \in Readers, NEW f \in Files, Lookup(t, f), table[f] = 0
    PROVE  CacheInv'
<1>1. /\ pc[t] = "idle" /\ f \notin deleted /\ file' = [file EXCEPT ![t] = f]
      /\ pc' = [pc EXCEPT ![t] = "missed"] /\ handle' = handle
      /\ entries' = entries /\ table' = table /\ lru' = lru /\ usage' = usage
      /\ kind' = kind /\ deleted' = deleted /\ mmaps' = mmaps /\ fds' = fds /\ open' = open
  BY DEF Lookup, At, fileVars, cacheVars
<1>2. /\ pc \in [Readers -> Stages] /\ kind \in [Readers -> Kinds] /\ file \in [Readers -> Files]
      /\ \A u \in Readers : IF pc[u] = "using" THEN handle[u] # 0 /\ entries[handle[u]].file = file[u]
                                                ELSE handle[u] = 0
      /\ \A u \in Readers : pc[u] # "idle" => file[u] \notin deleted
      /\ deleted \subseteq Files /\ open \in BOOLEAN
  BY DEF CacheInv, ReadersInv
<1>3. ReadersInv'
  <2>1. pc' \in [Readers -> Stages] /\ pc'[t] = "missed" /\ \A u \in Readers : u # t => pc'[u] = pc[u]
    BY <1>1, <1>2 DEF Stages
  <2>2. file' \in [Readers -> Files] /\ file'[t] = f /\ \A u \in Readers : u # t => file'[u] = file[u]
    BY <1>1, <1>2
  <2>3. \A u \in Readers : IF pc'[u] = "using" THEN handle'[u] # 0 /\ entries'[handle'[u]].file = file'[u]
                                               ELSE handle'[u] = 0
    BY <1>1, <1>2, <2>1, <2>2
  <2>4. \A u \in Readers : pc'[u] # "idle" => file'[u] \notin deleted'
    BY <1>1, <1>2, <2>1, <2>2
  <2> QED  BY <1>1, <1>2, <2>1, <2>2, <2>3, <2>4 DEF ReadersInv
<1>4. ShardInv' /\ CacheIsBounded'
  BY <1>1 DEF CacheInv, ShardInv, CacheIsBounded
<1>5. LimitInv'
  <2> DEFINE b == "missed"
             c == kind[t]
  <2>1. HandlesMove(pc, pc', t, b) /\ HandlesMove(kind, kind', t, c)
    BY <1>1, <1>2 DEF HandlesMove
  <2> HIDE DEF b, c
  <2>2. /\ \A a : Ats(a)' = Ats(a) + (IF a = b THEN 1 ELSE 0) - (IF a = pc[t] THEN 1 ELSE 0)
        /\ \A k : Opn(k)' = Opn(k) + (IF b = "opened" /\ c = k THEN 1 ELSE 0)
                                   - (IF pc[t] = "opened" /\ kind[t] = k THEN 1 ELSE 0)
    BY <2>1, ReaderCounts
  <2>3. \A k : Ents(k) \in Nat /\ Opn(k) \in Nat /\ Ats(k) \in Nat
    BY ShardFacts
  <2>4. /\ \A k : Opn(k)' = Opn(k)
        /\ Ats("map")' = Ats("map") /\ Ats("undoMmap")' = Ats("undoMmap") /\ Ats("undoFd")' = Ats("undoFd")
    BY <1>1, <2>2, <2>3 DEF b
  <2>5. \A k : Ents(k)' = Ents(k)
    BY <1>1 DEF Ents
  <2>6. mmaps \in Int /\ fds \in Int /\ Ledger
    BY LimitForm DEF CacheInv, LimitInv
  <2>7. mmaps' \in Int /\ fds' \in Int /\ Ledger'
    BY <1>1, <2>4, <2>5, <2>6 DEF Ledger
  <2> QED  BY <2>7, LimitForm DEF LimitInv
<1> QED  BY <1>3, <1>4, <1>5 DEF CacheInv

(* InsertTable: the new entry holds what the reader held, and what the     *)
(* cache drops for it is given back.                                       *)
LEMMA InsertStep ==
    ASSUME CacheInv, NEW t \in Readers, InsertTable(t)
    PROVE  CacheInv'
<1> DEFINE f == file[t]
           k0 == kind[t]
           e == Len(entries) + 1
           z == Insert(Shard, f, k0)
           n == z.entries
<1>1. /\ pc[t] = "opened" /\ pc' = [pc EXCEPT ![t] = "using"] /\ handle' = [handle EXCEPT ![t] = e]
      /\ entries' = n /\ table' = z.table /\ lru' = z.lru /\ usage' = z.usage
      /\ mmaps' = mmaps + Freed(entries, n, "mmap")
      /\ fds' = fds + Freed(entries, n, "fd")
      /\ file' = file /\ kind' = kind /\ deleted' = deleted /\ open' = open
  BY DEF InsertTable, Call, SetShard, At
<1>2. /\ f \in Files /\ k0 \in Kinds /\ handle[t] = 0 /\ f \notin deleted /\ file = [file EXCEPT ![t] = f]
  BY <1>1 DEF CacheInv, ReadersInv
<1>3. /\ Shard \in Shards /\ ShardBooks(Shard, handle) /\ Shard.entries = entries
      /\ Books(entries, table, lru, usage, handle) /\ entries \in Seq(Entry)
      /\ \A k : Ents(k) \in Nat /\ Opn(k) \in Nat /\ Ats(k) \in Nat
  BY ShardFacts
<1>4. /\ Len(entries) \in Nat /\ DOMAIN entries = 1..Len(entries)
      /\ \A i \in DOMAIN entries : entries[i].refs \in Nat
  BY <1>3, BookFacts
<1>5. /\ ShardBooks(z, [handle EXCEPT ![t] = e]) /\ Grown(entries, n, f, k0)
      /\ z.usage <= Capacity \/ Range(z.lru) = {}
  <2> HIDE DEF f, k0
  <2> QED  BY <1>2, <1>3, InsertBooks
<1>6. e \notin DOMAIN entries /\ e # 0 /\ e \in Nat
  BY <1>4
<1>7. ShardInv' /\ Books(entries', table', lru', usage', handle')
  <2> HIDE DEF z, e
  <2> QED  BY <1>1, <1>5 DEF ShardInv, ShardBooks
<1>8. /\ DOMAIN n = DOMAIN entries \cup {e} /\ n[e].file = f /\ n[e].kind = k0
      /\ \A i \in DOMAIN entries :
           n[i].file = entries[i].file /\ n[i].kind = entries[i].kind /\ n[i].refs <= entries[i].refs
  BY <1>5 DEF Grown
<1> HIDE DEF z, n, e, f, k0
<1>9. entries' \in Seq(Entry) /\ \A i \in DOMAIN n : n[i].refs \in Nat
  <2>1. entries' \in Seq(Entry) /\ \A i \in DOMAIN entries' : entries'[i].refs \in Nat
    BY <1>7, BookFacts
  <2> QED  BY <1>1, <2>1
<1>10. Arrives(t, f, e)
  BY <1>1, <1>2, <1>6, <1>8 DEF Arrives
<1>11. /\ ReadersInv'
       /\ Ats("map")' = Ats("map") + 0 - (IF "map" = pc[t] THEN 1 ELSE 0)
       /\ Ats("undoMmap")' = Ats("undoMmap") + 0 - (IF "undoMmap" = pc[t] THEN 1 ELSE 0)
       /\ Ats("undoFd")' = Ats("undoFd") + 0 - (IF "undoFd" = pc[t] THEN 1 ELSE 0)
       /\ \A k : Opn(k)' = Opn(k) + 0 - (IF pc[t] = "opened" /\ kind[t] = k THEN 1 ELSE 0)
  BY <1>10, ReaderArrives
<1>12. n[e].refs > 0
  <2>1. e \in DOMAIN entries'
    BY <1>1, <1>8
  <2>2. /\ entries'[e].refs = Cardinality(HeldBy(handle', e)) + (IF entries'[e].inCache THEN 1 ELSE 0)
    BY <1>7, <2>1 DEF Books
  <2>3. IsFiniteSet(HeldBy(handle', e)) /\ Cardinality(HeldBy(handle', e)) \in Nat
    BY <1>7, BookFacts
  <2>4. handle'[t] = e
    <3>1. handle \in [Readers -> 0..Len(entries)]
      BY <1>3 DEF Books
    <3> QED  BY <1>1, <3>1
  <2>5. Cardinality(HeldBy(handle', e)) # 0
    <3>1. t \in HeldBy(handle', e)
      BY <2>4 DEF HeldBy
    <3> QED  BY <2>3, <3>1, FS_EmptySet
  <2>6. entries'[e].refs > 0
    <3> DEFINE c == Cardinality(HeldBy(handle', e))
    <3>1. c \in Nat /\ c # 0
      BY <2>3, <2>5
    <3> HIDE DEF c
    <3> QED  BY <2>2, <3>1 DEF c
  <2> QED  BY <1>1, <2>6
<1>13. \A k : /\ Freed(entries, n, k) \in Nat
              /\ IsFiniteSet(HeldEntries(n, k) \cap DOMAIN entries)
              /\ Cardinality(HeldEntries(n, k) \cap DOMAIN entries) = Ents(k) - Freed(entries, n, k)
  <2>1. DOMAIN entries \subseteq DOMAIN n
    BY <1>8
  <2>2. \A i \in DOMAIN entries : /\ n[i].kind = entries[i].kind /\ n[i].refs \in Nat
                                  /\ n[i].refs <= entries[i].refs
    BY <1>8, <1>9
  <2> QED  BY <1>3, <2>1, <2>2, FreedCount DEF Ents
<1>14. ASSUME NEW k
       PROVE  Ents(k)' = (Ents(k) - Freed(entries, n, k)) + (IF k0 = k THEN 1 ELSE 0)
  <2> DEFINE K == HeldEntries(n, k) \cap DOMAIN entries
             H == HeldEntries(n, k)
  <2>1. Ents(k)' = Cardinality(H)
    BY <1>1 DEF Ents
  <2>2. CASE k0 = k
    <3>1. H = K \cup {e} /\ e \notin K
      BY <1>6, <1>8, <1>12, <2>2 DEF HeldEntries
    <3> HIDE DEF H, K
    <3>2. IsFiniteSet(K) /\ Cardinality(K) = Ents(k) - Freed(entries, n, k)
      BY <1>13 DEF K
    <3>3. Cardinality(H) = Cardinality(K) + 1
      BY <3>1, <3>2, FS_AddElement
    <3> QED  BY <2>1, <2>2, <3>2, <3>3
  <2>3. CASE k0 # k
    <3>1. H = K
      BY <1>8, <2>3 DEF HeldEntries
    <3> HIDE DEF H, K
    <3>2. Ents(k) \in Nat /\ Freed(entries, n, k) \in Nat
      BY <1>3, <1>13
    <3>3. Cardinality(K) = Ents(k) - Freed(entries, n, k)
      BY <1>13 DEF K
    <3> QED  BY <2>1, <2>3, <3>1, <3>2, <3>3
  <2> QED  BY <2>2, <2>3
<1>15. LimitInv'
  <2> DEFINE x == Freed(entries, n, "mmap")
             y == Freed(entries, n, "fd")
             dm == IF k0 = "mmap" THEN 1 ELSE 0
             df == IF k0 = "fd" THEN 1 ELSE 0
  <2>1. x \in Nat /\ y \in Nat /\ dm \in Nat /\ df \in Nat
    BY <1>13
  <2>2. mmaps' = mmaps + x /\ fds' = fds + y
    BY <1>1
  <2>3. /\ Ents("mmap")' = (Ents("mmap") - x) + dm /\ Ents("fd")' = (Ents("fd") - y) + df
    BY <1>14
  <2>4. /\ Opn("mmap")' = Opn("mmap") + 0 - dm /\ Opn("fd")' = Opn("fd") + 0 - df
    BY <1>1, <1>11 DEF k0
  <2>5. /\ Ats("map")' = Ats("map") /\ Ats("undoMmap")' = Ats("undoMmap") /\ Ats("undoFd")' = Ats("undoFd")
    BY <1>1, <1>3, <1>11
  <2>6. Ents("mmap")' \in Nat /\ Opn("mmap")' \in Nat /\ Ents("fd")' \in Nat /\ Opn("fd")' \in Nat
    BY <1>9, CountTypes DEF Ents, Opn
  <2> HIDE DEF x, y, dm, df
  <2>7. /\ Ents("mmap")' + Opn("mmap")' = Ents("mmap") + Opn("mmap") - x
        /\ Ents("fd")' + Opn("fd")' = Ents("fd") + Opn("fd") - y
    <3>1. ASSUME NEW a \in Nat, NEW b \in Nat, NEW c \in Nat, NEW d \in Nat
          PROVE  ((a - c) + d) + (b + 0 - d) = a + b - c
      OBVIOUS
    <3>2. Ents("mmap") \in Nat /\ Opn("mmap") \in Nat /\ Ents("fd") \in Nat /\ Opn("fd") \in Nat
      BY <1>3
    <3> QED  BY <2>1, <2>3, <2>4, <3>1, <3>2
  <2> QED  BY <2>1, <2>2, <2>5, <2>6, <2>7, CallLedger
<1>16. CacheIsBounded'
  <2>1. ASSUME NEW i \in DOMAIN n, n[i].file \in deleted  PROVE n[i].refs = 0
    <3>1. i \in DOMAIN entries /\ n[i].file = entries[i].file /\ n[i].refs <= entries[i].refs
      BY <1>2, <1>8, <2>1
    <3>2. entries[i].refs = 0
      BY <2>1, <3>1 DEF CacheInv, CacheIsBounded
    <3> QED  BY <1>9, <3>1, <3>2
  <2>2. usage' <= Capacity \/ usage' <= Cardinality(Readers)
    <3>1. CASE Range(lru') = {}
      BY <1>7, <3>1, UsersBound
    <3> QED  BY <1>1, <1>5, <3>1
  <2> QED  BY <1>1, <2>1, <2>2 DEF CacheIsBounded
<1> QED  BY <1>7, <1>11, <1>15, <1>16 DEF CacheInv

(* CloseCache: with no reader in, the cache gives every entry up.          *)
LEMMA CacheCloses ==
    ASSUME CacheInv, CloseCache
    PROVE  CacheInv'
<1> DEFINE G == Range(lru)
           n == [i \in DOMAIN entries |-> IF i \in G
                   THEN [entries[i] EXCEPT !.refs = @ - 1, !.inCache = FALSE] ELSE entries[i]]
           m == [f \in Files |-> 0]
<1>1. /\ \A t \in Readers : pc[t] = "idle"
      /\ entries' = n /\ table' = m /\ lru' = <<>> /\ usage' = 0
      /\ mmaps' = mmaps + Freed(entries, n, "mmap")
      /\ fds' = fds + Freed(entries, n, "fd")
      /\ deleted' = deleted /\ pc' = pc /\ file' = file /\ kind' = kind /\ handle' = handle
      /\ open' = FALSE
  BY DEF CloseCache, Call, SetShard, Shard, readerVars
<1>2. /\ deleted \subseteq Files /\ \A t \in Readers : handle[t] = 0
  BY <1>1 DEF CacheInv, ReadersInv
<1>3. Books(entries, table, lru, usage, handle) /\ entries \in Seq(Entry)
  BY ShardFacts
<1>4. /\ Len(entries) \in Nat /\ DOMAIN entries = 1..Len(entries) /\ G \subseteq DOMAIN entries
      /\ \A i \in DOMAIN entries : entries[i] \in Entry /\ entries[i].refs \in Nat
  BY <1>3, BookFacts
<1>5. \A i \in G : entries[i].inCache /\ entries[i].refs = 1
  BY <1>3, <1>4 DEF Books
<1> HIDE DEF G
<1>6. ASSUME NEW i \in DOMAIN entries
      PROVE  /\ n[i] \in Entry /\ n[i].file = entries[i].file /\ n[i].kind = entries[i].kind
             /\ i \in G => n[i].refs = 0 /\ n[i].inCache = FALSE
             /\ i \notin G => n[i].refs = entries[i].refs /\ n[i].inCache = entries[i].inCache
  <2>1. CASE i \in G
    <3>1. entries[i].refs - 1 = 0
      BY <1>5, <2>1
    <3>2. n[i] = [entries[i] EXCEPT !.refs = 0, !.inCache = FALSE]
      BY <2>1, <3>1
    <3>3. entries[i] \in Entry
      BY <1>4
    <3> HIDE DEF n
    <3> QED  BY <2>1, <3>2, <3>3, GoneEntry
  <2>2. CASE i \notin G
    BY <1>4, <2>2
  <2> QED  BY <2>1, <2>2
<1>7. n \in Seq(Entry) /\ Len(n) = Len(entries) /\ DOMAIN n = DOMAIN entries
  <2>1. n \in [1..Len(entries) -> Entry]
    BY <1>4, <1>6
  <2>2. DOMAIN n = DOMAIN entries
    OBVIOUS
  <2> HIDE DEF n
  <2> QED  BY <1>4, <2>1, <2>2, LenInSeq
<1>8. m \in [Files -> {0}]
  OBVIOUS
<1> HIDE DEF n, m
<1>9. Dropped(entries, n, G) /\ G \in SUBSET Cached(entries)
  <2>1. G \in SUBSET Range(lru)
    BY DEF G
  <2>2. \A i \in DOMAIN entries :
          /\ n[i].file = entries[i].file /\ n[i].kind = entries[i].kind
          /\ i \in G => n[i].refs = 0 /\ n[i].inCache = FALSE
          /\ i \notin G => n[i].refs = entries[i].refs /\ n[i].inCache = entries[i].inCache
    BY <1>6
  <2> QED  BY <1>3, <1>7, <2>1, <2>2, UnusedDropped
<1>10. Books(n, m, <<>>, 0, handle)
  <2>1. Dropped(entries, n, Range(lru))
    BY <1>9 DEF G
  <2> QED  BY <1>2, <1>3, <1>8, <2>1, CloseBooks
<1>11. ShardInv'
  BY <1>1, <1>10 DEF ShardInv
<1>12. Shrunk(entries, entries')
  <2>1. Shrunk(entries, n)
    BY <1>3, <1>9, DroppedShrunk
  <2> QED  BY <1>1, <2>1
<1>13. /\ ReadersInv'
       /\ \A k : Opn(k)' = Opn(k)
       /\ Ats("map")' = Ats("map") /\ Ats("undoMmap")' = Ats("undoMmap") /\ Ats("undoFd")' = Ats("undoFd")
  <2>1. deleted' \subseteq Files /\ open' \in BOOLEAN /\ \A t \in Readers : pc[t] # "idle" => file[t] \notin deleted'
    BY <1>1, <1>2
  <2> QED  BY <1>1, <1>12, <2>1, ReadersStay
<1>14. LimitInv'
  <2>1. /\ mmaps' = mmaps + Freed(entries, entries', "mmap")
        /\ fds' = fds + Freed(entries, entries', "fd")
    BY <1>1
  <2> QED  BY <1>12, <1>13, <2>1, ShrinkingLedger
<1>15. CacheIsBounded'
  <2>1. ASSUME NEW i \in DOMAIN entries', entries'[i].file \in deleted'  PROVE entries'[i].refs = 0
    <3>1. /\ i \in DOMAIN entries /\ entries'[i].file = entries[i].file
          /\ entries'[i].refs \in Nat /\ entries'[i].refs <= entries[i].refs
      BY <1>12 DEF Shrunk
    <3>2. entries[i].refs = 0
      BY <1>1, <2>1, <3>1 DEF CacheInv, CacheIsBounded
    <3> QED  BY <3>1, <3>2
  <2>2. usage' <= Capacity
    BY <1>1, CapacityAssumption
  <2> QED  BY <2>1, <2>2 DEF CacheIsBounded
<1> QED  BY <1>11, <1>13, <1>14, <1>15 DEF CacheInv

-----------------------------------------------------------------------------
(* The invariant of the cache.                                             *)

(* No reader, no table, and the limiters full.                             *)
LEMMA CacheStarts == ASSUME EnvironmentInit  PROVE CacheInv
<1>1. /\ pc = [t \in Readers |-> "idle"] /\ file = [t \in Readers |-> CHOOSE f \in Files : TRUE]
      /\ kind = [t \in Readers |-> "reopen"] /\ handle = [t \in Readers |-> 0]
      /\ entries = <<>> /\ table = [f \in Files |-> 0] /\ lru = <<>> /\ usage = 0
      /\ deleted = {} /\ mmaps = MaxMmaps /\ fds = MaxFds /\ open = TRUE
  BY DEF EnvironmentInit, Init
<1>2. entries \in Seq(Entry) /\ Len(entries) = 0 /\ DOMAIN entries = {}
  BY <1>1
<1>3. Cardinality({}) = 0
  BY FS_EmptySet
<1>4. ReadersInv
  <2>1. file \in [Readers -> Files]
    <3>1. (CHOOSE f \in Files : TRUE) \in Files
      BY ReadersAssumption
    <3> QED  BY <1>1, <3>1
  <2> QED  BY <1>1, <2>1 DEF ReadersInv, Stages, Kinds
<1>5. ShardInv
  <2>1. table \in [Files -> 0..Len(entries)] /\ handle \in [Readers -> 0..Len(entries)]
    BY <1>1, <1>2
  <2>2. lru \in Seq(DOMAIN entries) /\ Distinct(lru)
    BY <1>1 DEF Distinct
  <2>3. usage = Cardinality(Cached(entries))
    <3>1. Cached(entries) = {}
      BY <1>2 DEF Cached
    <3> QED  BY <1>1, <1>3, <3>1
  <2>4. \A f \in Files : table[f] = 0
    BY <1>1
  <2> QED  BY <1>2, <2>1, <2>2, <2>3, <2>4 DEF ShardInv, Books
<1>6. LimitInv
  <2>1. \A k : Ents(k) = 0
    <3>1. \A k : HeldEntries(entries, k) = {}
      BY <1>2 DEF HeldEntries
    <3> QED  BY <1>3, <3>1 DEF Ents
  <2>2. \A k : Opn(k) = 0
    <3>1. \A k : OpenedAs(pc, kind, k) = {}
      BY <1>1 DEF OpenedAs
    <3> QED  BY <1>3, <3>1 DEF Opn
  <2>3. Ats("map") = 0 /\ Ats("undoMmap") = 0 /\ Ats("undoFd") = 0
    <3>1. HeldBy(pc, "map") = {} /\ HeldBy(pc, "undoMmap") = {} /\ HeldBy(pc, "undoFd") = {}
      BY <1>1 DEF HeldBy
    <3> QED  BY <1>3, <3>1 DEF Ats
  <2>4. Ledger /\ mmaps \in Int /\ fds \in Int
    BY <1>1, <2>1, <2>2, <2>3, LimitsAssumption DEF Ledger
  <2> QED  BY <2>4, LimitForm DEF LimitInv
<1>7. CacheIsBounded
  BY <1>1, <1>2, CapacityAssumption DEF CacheIsBounded
<1> QED  BY <1>4, <1>5, <1>6, <1>7 DEF CacheInv

(* CacheInv is inductive for whatever else the environment does.           *)
LEMMA CacheInductive ==
    /\ EnvironmentInit => CacheInv
    /\ CacheInv /\ [EnvironmentNext]_allVars => CacheInv'
<1>1. ASSUME CacheInv, UNCHANGED tableVars  PROVE CacheInv'
  <2>1. /\ pc' = pc /\ file' = file /\ kind' = kind /\ handle' = handle /\ entries' = entries
        /\ table' = table /\ lru' = lru /\ usage' = usage /\ deleted' = deleted
        /\ mmaps' = mmaps /\ fds' = fds /\ open' = open
    BY <1>1 DEF tableVars, readerVars, cacheVars, fileVars
  <2>2. ReadersInv' /\ ShardInv' /\ CacheIsBounded'
    BY <1>1, <2>1 DEF CacheInv, ReadersInv, ShardInv, CacheIsBounded
  <2>3. LimitInv'
    <3>1. \A k : Ents(k)' = Ents(k) /\ Opn(k)' = Opn(k) /\ Ats(k)' = Ats(k)
      BY <2>1 DEF Ents, Opn, Ats
    <3>2. mmaps \in Int /\ fds \in Int /\ Ledger
      BY <1>1, LimitForm DEF CacheInv, LimitInv
    <3>3. mmaps' \in Int /\ fds' \in Int /\ Ledger'
      BY <2>1, <3>1, <3>2 DEF Ledger
    <3> QED  BY <3>3, LimitForm DEF LimitInv
  <2> QED  BY <2>2, <2>3 DEF CacheInv
<1>2. ASSUME CacheInv, NEW t \in Readers, ReaderStep(t)  PROVE CacheInv'
  BY <1>2, HitStep, MissStep, OpeningSteps, InsertStep, ReleaseStep DEF ReaderStep
<1>3. ASSUME CacheInv, TableNext  PROVE CacheInv'
  BY <1>2, <1>3, DeleteStep, CacheCloses DEF TableNext
<1>4. EnvironmentNext => TableNext \/ UNCHANGED tableVars
  BY DEF EnvironmentNext, Next
<1>5. UNCHANGED allVars => UNCHANGED tableVars
  BY DEF allVars, vars
<1> QED  BY <1>1, <1>3, <1>4, <1>5, CacheStarts

(* No table is closed under its reader and none is kept open for nobody:   *)
(* for any number of readers, files and any capacity, the references of    *)
(* an LRUHandle are its readers' and the cache's own, whatever Ref, Unref, *)
(* FinishErase, the eviction of Insert and ~LRUCache do in between.        *)
THEOREM ReadersAreKept == EnvironmentSpec => []ReadersKeepTables
<1>1. CacheInv => ReadersKeepTables
  BY DEF CacheInv, ShardInv, Books, ReadersKeepTables, HeldBy
<1> QED  BY <1>1, CacheInductive, PTL DEF EnvironmentSpec

(* The books of the environment balance: the items of Schedule run in      *)
(* order and once, the limiters allow what the open files and the readers  *)
(* inside Acquire do not hold, however many readers race for them, the     *)
(* assertions of util/cache.cc hold, a deleted table is closed, and the    *)
(* cache outgrows its capacity only by what its readers use.               *)
THEOREM BooksAreBalanced == EnvironmentSpec => []BooksBalance
<1>1. LockInv /\ WorkInv => EnvTypeOK
  <2> SUFFICES ASSUME LockInv, WorkInv  PROVE EnvTypeOK
    OBVIOUS
  <2>1. worker = "running" <=> Len(current) = 1
    <3>1. CASE worker = "running"
      <4>1. PICK j \in Nat : current = <<j>>
        BY <3>1 DEF WorkInv
      <4> QED  BY <3>1, <4>1
    <3>2. CASE worker # "running"
      <4>1. current = <<>>
        BY <3>2 DEF WorkInv
      <4>2. Len(current) = 0
        BY <4>1
      <4> QED  BY <3>2, <4>2
    <3> QED  BY <3>1, <3>2
  <2> QED  BY <2>1 DEF EnvTypeOK, LockInv, LockTypeOK, WorkInv
<1>2. EnvTypeOK /\ CacheInv => TypeOK
  <2> SUFFICES ASSUME EnvTypeOK, CacheInv  PROVE TypeOK
    OBVIOUS
  <2>1. Books(entries, table, lru, usage, handle)
    BY DEF CacheInv, ShardInv
  <2>2. \A e \in DOMAIN entries : entries[e] \in Entry
    BY <2>1, BookFacts
  <2>3. \A t \in Readers : handle[t] \in IF pc[t] = "using" THEN DOMAIN entries ELSE {0}
    <3>1. \A t \in Readers : IF pc[t] = "using" THEN handle[t] # 0 ELSE handle[t] = 0
      BY DEF CacheInv, ReadersInv
    <3>2. handle \in [Readers -> 0..Len(entries)] /\ entries \in Seq(Entry)
      BY <2>1 DEF Books
    <3> QED  BY <3>1, <3>2
  <2>4. /\ \A f \in Files : table[f] # 0 => entries[table[f]].inCache /\ entries[table[f]].file = f
        /\ \A e \in DOMAIN entries : e \in Range(lru) <=> entries[e].inCache /\ entries[e].refs = 1
        /\ usage = Cardinality({e \in DOMAIN entries : entries[e].inCache})
    BY <2>1 DEF Books, Cached
  <2>5. /\ pc \in [Readers -> Stages] /\ file \in [Readers -> Files] /\ kind \in [Readers -> Kinds]
        /\ deleted \subseteq Files /\ open \in BOOLEAN
    BY DEF CacheInv, ReadersInv
  <2> QED  BY <2>2, <2>3, <2>4, <2>5 DEF TypeOK
<1>3. WorkInv /\ CacheInv => WorkInOrder /\ LimitsKept /\ CacheIsBounded
  BY DEF WorkInv, CacheInv, LimitInv
<1>4. LockInv /\ WorkInv /\ CacheInv => BooksBalance
  BY <1>1, <1>2, <1>3 DEF BooksBalance
<1> QED  BY <1>4, LockInductive, WorkInductive, CacheInductive, PTL DEF EnvironmentSpec
-----------------------------------------------------------------------------
(* The files of the environment in memory.                                 *)

(* A FileState: it has its references, whatever its bytes are.             *)
Counted(s) == "refs" \in DOMAIN s

(* An open file of one of the first n states.                              *)
OpenOn(o, n) ==
    /\ "kind" \in DOMAIN o /\ "file" \in DOMAIN o
    /\ o.kind \in {"write", "sequential", "random"} /\ o.file \in 1..n

NamesOf(fm, f) == {n \in Names : fm[n] = f}
UsersOf(us, f) == {u \in Users : us[u] # Nothing /\ us[u].file = f}
ListOf(S) == S \in Seq(Range(S))
Forgotten(os, f) == IF f \in os THEN 1 ELSE 0

StatesInv ==
    /\ ListOf(states)
    /\ \A f \in 1..Len(states) : Counted(states[f])

(* No two names lead to one file: ~InMemoryEnv gives back one reference    *)
(* for each.                                                               *)
FileMapInv ==
    /\ fileMap \in [Names -> -1..Len(states)]
    /\ \A m, n \in Names : fileMap[m] = fileMap[n] /\ fileMap[m] > 0 => m = n

HolderInv ==
    /\ used = [u \in Users |-> used[u]]
    /\ \A u \in Users : used[u] = Nothing \/ OpenOn(used[u], Len(states))

(* A null pointer in the map comes from NewAppendableFile.                 *)
OrphanInv ==
    /\ orphans \subseteq 1..Len(states)
    /\ crashed \/ (\E n \in Names : fileMap[n] = NullFile) => orphans # {}

RefsInv ==
    \A f \in 1..Len(states) :
        states[f].refs = Cardinality(NamesOf(fileMap, f)) + Cardinality(UsersOf(used, f))
                         + Forgotten(orphans, f)

MemInv == StatesInv /\ FileMapInv /\ HolderInv /\ OrphanInv /\ RefsInv

(* The invariant gives the property that is checked.                       *)
LEMMA MemImplies == MemInv => MemRefsOK
<1> SUFFICES ASSUME MemInv  PROVE MemRefsOK
  OBVIOUS
<1>1. DOMAIN states = 1..Len(states) /\ Len(states) \in Nat
  BY DEF MemInv, StatesInv, ListOf
<1>2. RefsCounted
  BY <1>1 DEF MemInv, RefsInv, RefsCounted, NamesOf, UsersOf, FileOf, Forgotten
<1>3. \A n \in Names : fileMap[n] \in DOMAIN states \cup {NoFile, NullFile}
  BY <1>1 DEF MemInv, FileMapInv, NoFile, NullFile
<1> QED  BY <1>2, <1>3 DEF MemInv, OrphanInv, MemRefsOK

(* Ref, Unref and Truncate count as they should.                           *)
LEMMA RefFacts ==
    ASSUME NEW s, Counted(s), s.refs \in Int
    PROVE  /\ Counted(Reffed(s)) /\ Reffed(s).refs = s.refs + 1
           /\ Counted(Unreffed(s)) /\ Unreffed(s).refs = s.refs - 1
           /\ Counted(Emptied(s)) /\ Emptied(s).refs = s.refs
<1>1. Counted(Emptied(s)) /\ Emptied(s).refs = s.refs
  BY DEF Counted, Emptied
<1>2. Counted(Reffed(s)) /\ Reffed(s).refs = s.refs + 1
  BY DEF Counted, Reffed
<1>3. Counted(Unreffed(s)) /\ Unreffed(s).refs = s.refs - 1
  <2>1. CASE s.refs = 1
    BY <1>1, <2>1 DEF Counted, Unreffed
  <2>2. CASE s.refs # 1
    BY <2>2 DEF Counted, Unreffed
  <2> QED  BY <2>1, <2>2
<1> QED  BY <1>1, <1>2, <1>3

(* Append leaves the references alone.                                     *)
LEMMA AppendedRefs ==
    ASSUME NEW s, Counted(s), NEW data
    PROVE  Counted(Appended(s, data)) /\ Appended(s, data).refs = s.refs
<1> DEFINE end == AppendRounds(s, data)
<1>1. Appended(s, data) = [s EXCEPT !.blocks = end.blocks, !.size = end.size, !.bytes = @ \o data]
  BY DEF Appended
<1> HIDE DEF end
<1> QED  BY <1>1 DEF Counted

(* A function on 1..n is a list.                                           *)
LEMMA IsList ==
    ASSUME NEW n \in Nat, NEW T, T = [g \in 1..n |-> T[g]]
    PROVE  ListOf(T) /\ Len(T) = n
<1>1. DOMAIN T = 1..n
  OBVIOUS
<1> DEFINE R == Range(T)
<1>2. \A g \in 1..n : T[g] \in R
  BY <1>1 DEF Range
<1> HIDE DEF R
<1>3. T \in [1..n -> R]
  BY <1>2
<1>4. T \in Seq(R) /\ Len(T) = n
  BY <1>3
<1> QED  BY <1>4 DEF R, ListOf

(* The list of states with a new one.                                     *)
LEMMA StatesGrow ==
    ASSUME NEW S, ListOf(S), NEW e, NEW T, T = Append(S, e)
    PROVE  /\ ListOf(T) /\ Len(T) = Len(S) + 1
           /\ \A g \in 1..Len(S) : T[g] = S[g]
           /\ T[Len(S) + 1] = e
<1>1. Len(S) \in Nat /\ DOMAIN S = 1..Len(S) /\ S = [g \in 1..Len(S) |-> S[g]]
  BY DEF ListOf
<1> DEFINE A == Range(S) \cup {e}
<1>2. S \in [1..Len(S) -> A]
  BY <1>1 DEF ListOf
<1>3. S \in Seq(A) /\ e \in A
  BY <1>1, <1>2, SeqDef
<1>4. /\ T \in Seq(A) /\ Len(T) = Len(S) + 1 /\ DOMAIN T = 1..Len(S) + 1
      /\ \A g \in 1..Len(S) : T[g] = S[g]
      /\ T[Len(S) + 1] = e
  BY <1>3, AppendProperties
<1>5. T = [g \in 1..Len(S) + 1 |-> T[g]] /\ Len(S) + 1 \in Nat
  <2>1. ASSUME NEW B, NEW q \in Seq(B)  PROVE q = [g \in 1..Len(q) |-> q[g]]
    OBVIOUS
  <2> HIDE DEF A
  <2>2. T = [g \in 1..Len(T) |-> T[g]]
    BY <1>4, <2>1
  <2>3. Len(T) = Len(S) + 1
    BY <1>4
  <2>4. Len(S) + 1 \in Nat
    BY <1>1
  <2> QED  BY <2>2, <2>3, <2>4, Zenon
<1>6. ListOf(T)
  BY <1>5, IsList
<1> QED  BY <1>4, <1>6

(* How the counts change with what one name leads to ...                   *)
LEMMA NameMove ==
    ASSUME NEW fm, NEW fn, NEW n \in Names, NEW f,
           \A m \in Names \ {n} : m \in NamesOf(fn, f) <=> m \in NamesOf(fm, f)
    PROVE  /\ Cardinality(NamesOf(fm, f)) \in Nat /\ Cardinality(NamesOf(fn, f)) \in Nat
           /\ Cardinality(NamesOf(fn, f)) = Cardinality(NamesOf(fm, f))
                + (IF n \in NamesOf(fn, f) THEN 1 ELSE 0)
                - (IF n \in NamesOf(fm, f) THEN 1 ELSE 0)
<1> DEFINE P == NamesOf(fm, f)
           Q == NamesOf(fn, f)
<1>1. /\ P \in SUBSET Names /\ Q \in SUBSET Names /\ P \ {n} = Q \ {n}
  BY DEF NamesOf
<1> HIDE DEF P, Q
<1>2. /\ Cardinality(P) \in Nat /\ Cardinality(Q) \in Nat
      /\ Cardinality(Q) = Cardinality(P) + (IF n \in Q THEN 1 ELSE 0) - (IF n \in P THEN 1 ELSE 0)
  BY <1>1, MemEnvAssumption, CountMove
<1> QED  BY <1>1, <1>2 DEF P, Q

(* ... and with what one user has open.                                    *)
LEMMA UserMove ==
    ASSUME NEW us, NEW ut, NEW u \in Users, NEW f,
           \A v \in Users \ {u} : v \in UsersOf(ut, f) <=> v \in UsersOf(us, f)
    PROVE  /\ Cardinality(UsersOf(us, f)) \in Nat /\ Cardinality(UsersOf(ut, f)) \in Nat
           /\ Cardinality(UsersOf(ut, f)) = Cardinality(UsersOf(us, f))
                + (IF u \in UsersOf(ut, f) THEN 1 ELSE 0)
                - (IF u \in UsersOf(us, f) THEN 1 ELSE 0)
<1> DEFINE P == UsersOf(us, f)
           Q == UsersOf(ut, f)
<1>1. /\ P \in SUBSET Users /\ Q \in SUBSET Users /\ P \ {u} = Q \ {u}
  BY DEF UsersOf
<1> HIDE DEF P, Q
<1>2. /\ Cardinality(P) \in Nat /\ Cardinality(Q) \in Nat
      /\ Cardinality(Q) = Cardinality(P) + (IF u \in Q THEN 1 ELSE 0) - (IF u \in P THEN 1 ELSE 0)
  BY <1>1, MemEnvAssumption, CountMove
<1> QED  BY <1>1, <1>2 DEF P, Q

(* The counts are numbers.                                                 *)
LEMMA CountsAreNats ==
    ASSUME NEW f
    PROVE  /\ Cardinality(NamesOf(fileMap, f)) \in Nat /\ Cardinality(UsersOf(used, f)) \in Nat
           /\ Forgotten(orphans, f) \in Nat
<1>1. IsFiniteSet(NamesOf(fileMap, f)) /\ IsFiniteSet(UsersOf(used, f))
  BY MemEnvAssumption, FS_Subset DEF NamesOf, UsersOf
<1> QED  BY <1>1, FS_CardinalityType DEF Forgotten

-----------------------------------------------------------------------------
(* Steps of the files in memory.                                           *)

(* A step that moves no reference.                                         *)
LEMMA QuietFiles ==
    ASSUME MemInv, fileMap' = fileMap, orphans' = orphans,
           ListOf(states'), Len(states') = Len(states),
           \A f \in 1..Len(states) : Counted(states'[f]) /\ states'[f].refs = states[f].refs,
           used' = [u \in Users |-> used'[u]],
           \A u \in Users : \/ used[u] = Nothing /\ used'[u] = Nothing
                            \/ /\ used[u] # Nothing /\ OpenOn(used'[u], Len(states))
                               /\ used'[u].file = used[u].file,
           crashed' => orphans # {}
    PROVE  MemInv'
<1>1. \A u \in Users : OpenOn(used'[u], Len(states)) => used'[u] # Nothing
  BY DEF OpenOn, Nothing
<1>2. \A f : UsersOf(used', f) = UsersOf(used, f) /\ NamesOf(fileMap', f) = NamesOf(fileMap, f)
  BY <1>1 DEF UsersOf, NamesOf
<1>3. RefsInv'
  BY <1>2 DEF MemInv, RefsInv
<1>4. StatesInv' /\ FileMapInv' /\ HolderInv' /\ OrphanInv'
  BY DEF MemInv, StatesInv, FileMapInv, HolderInv, OrphanInv
<1> QED  BY <1>3, <1>4 DEF MemInv

(* A user opens a file that is there, or closes its own.                   *)
LEMMA HolderStep ==
    ASSUME MemInv, NEW u \in Users, NEW f \in 1..Len(states), NEW d \in {1, -1},
           fileMap' = fileMap, orphans' = orphans, crashed' = crashed,
           ListOf(states'), Len(states') = Len(states),
           \A g \in 1..Len(states) :
               /\ Counted(states'[g])
               /\ states'[g].refs = IF g = f THEN states[g].refs + d ELSE states[g].refs,
           used' = [v \in Users |-> used'[v]],
           \A v \in Users \ {u} : \/ used[v] = Nothing /\ used'[v] = Nothing
                                  \/ /\ used[v] # Nothing /\ OpenOn(used'[v], Len(states))
                                     /\ used'[v].file = used[v].file,
           \/ d = 1 /\ used[u] = Nothing /\ OpenOn(used'[u], Len(states)) /\ used'[u].file = f
           \/ d = -1 /\ used[u] # Nothing /\ used[u].file = f /\ used'[u] = Nothing
    PROVE  MemInv'
<1>1. \A v \in Users : OpenOn(used'[v], Len(states)) => used'[v] # Nothing
  BY DEF OpenOn, Nothing
<1>2. ASSUME NEW g \in 1..Len(states)
      PROVE  states'[g].refs = Cardinality(NamesOf(fileMap', g)) + Cardinality(UsersOf(used', g))
                               + Forgotten(orphans', g)
  <2>1. \A v \in Users \ {u} : v \in UsersOf(used', g) <=> v \in UsersOf(used, g)
    BY <1>1 DEF UsersOf
  <2>2. /\ Cardinality(UsersOf(used, g)) \in Nat
        /\ Cardinality(UsersOf(used', g)) = Cardinality(UsersOf(used, g))
             + (IF u \in UsersOf(used', g) THEN 1 ELSE 0)
             - (IF u \in UsersOf(used, g) THEN 1 ELSE 0)
    BY <2>1, UserMove
  <2>3. states[g].refs = Cardinality(NamesOf(fileMap, g)) + Cardinality(UsersOf(used, g))
                         + Forgotten(orphans, g)
    BY DEF MemInv, RefsInv
  <2>4. Cardinality(NamesOf(fileMap, g)) \in Nat /\ Forgotten(orphans, g) \in Nat
    BY CountsAreNats
  <2> DEFINE a == Cardinality(NamesOf(fileMap, g))
             b == Cardinality(UsersOf(used, g))
             c == Forgotten(orphans, g)
             e == Cardinality(UsersOf(used', g))
  <2> HIDE DEF a, b, c, e
  <2>5. /\ a \in Nat /\ b \in Nat /\ c \in Nat /\ states[g].refs = a + b + c
        /\ e = b + (IF u \in UsersOf(used', g) THEN 1 ELSE 0) - (IF u \in UsersOf(used, g) THEN 1 ELSE 0)
    BY <2>2, <2>3, <2>4 DEF a, b, c, e
  <2>6. /\ u \in UsersOf(used', g) <=> d = 1 /\ g = f
        /\ u \in UsersOf(used, g) <=> d = -1 /\ g = f
    BY <1>1 DEF UsersOf
  <2>7. states'[g].refs = a + e + c
    <3>1. CASE g = f
      <4>1. states'[g].refs = states[g].refs + d
        BY <3>1
      <4>2. e = b + d
        BY <2>5, <2>6, <3>1
      <4>3. d \in Int
        OBVIOUS
      <4> QED  BY <2>5, <4>1, <4>2, <4>3
    <3>2. CASE g # f
      <4>1. states'[g].refs = states[g].refs
        BY <3>2
      <4>2. e = b
        BY <2>5, <2>6, <3>2
      <4> QED  BY <2>5, <4>1, <4>2
    <3> QED  BY <3>1, <3>2
  <2> QED  BY <2>7 DEF a, c, e
<1>3. RefsInv'
  BY <1>2 DEF RefsInv
<1>4. StatesInv' /\ FileMapInv' /\ OrphanInv'
  BY DEF MemInv, StatesInv, FileMapInv, OrphanInv
<1>5. HolderInv'
  BY DEF MemInv, HolderInv
<1> QED  BY <1>3, <1>4, <1>5 DEF MemInv

(* A state is made for a user and a name: the map has it, or the name is   *)
(* forgotten.                                                              *)
LEMMA NewStateStep ==
    ASSUME MemInv, NEW u \in Users, NEW name \in Names, NEW x, x = Len(states) + 1,
           used[u] = Nothing, fileMap[name] <= 0,
           ListOf(states'), Len(states') = x,
           \A g \in 1..Len(states) : states'[g] = states[g],
           Counted(states'[x]), states'[x].refs = 2,
           used' = [v \in Users |-> used'[v]], used'[u] = Opened("write", x),
           \A v \in Users \ {u} : used'[v] = used[v],
           \/ fileMap' = [fileMap EXCEPT ![name] = x] /\ orphans' = orphans
           \/ fileMap' = [fileMap EXCEPT ![name] = NullFile] /\ orphans' = orphans \cup {x},
           crashed' = crashed
    PROVE  MemInv'
<1>1. Len(states) \in Nat
  BY DEF MemInv, StatesInv, ListOf
<1>2. StatesInv'
  BY <1>1 DEF MemInv, StatesInv
<1>3. /\ fileMap \in [Names -> -1..Len(states)] /\ used = [v \in Users |-> used[v]]
      /\ orphans \subseteq 1..Len(states)
      /\ \A v \in Users : used[v] = Nothing \/ OpenOn(used[v], Len(states))
  BY DEF MemInv, FileMapInv, HolderInv, OrphanInv
<1>4. /\ \A m \in Names \ {name} : fileMap'[m] = fileMap[m]
      /\ fileMap'[name] \in {0, x} /\ fileMap' \in [Names -> -1..x]
      /\ fileMap'[name] = x <=> x \notin orphans'
      /\ orphans' = orphans \/ orphans' = orphans \cup {x}
  <2>1. x \in Nat /\ x # 0 /\ x \notin orphans /\ -1..Len(states) \subseteq -1..x /\ x \in -1..x /\ 0 \in -1..x
    BY <1>1, <1>3
  <2>2. CASE fileMap' = [fileMap EXCEPT ![name] = x] /\ orphans' = orphans
    BY <1>3, <2>1, <2>2
  <2>3. CASE fileMap' = [fileMap EXCEPT ![name] = NullFile] /\ orphans' = orphans \cup {x}
    <3>1. fileMap' = [fileMap EXCEPT ![name] = 0]
      BY <2>3 DEF NullFile
    <3> QED  BY <1>3, <2>1, <2>3, <3>1
  <2> QED  BY <2>2, <2>3
<1>5. FileMapInv'
  BY <1>1, <1>3, <1>4 DEF MemInv, FileMapInv
<1>6. /\ used'[u] = Opened("write", x) /\ OpenOn(used'[u], x) /\ used'[u] # Nothing /\ used'[u].file = x
      /\ \A v \in Users \ {u} : used'[v] = used[v]
      /\ used' = [v \in Users |-> used'[v]]
  <2>1. Opened("write", x) # Nothing /\ OpenOn(Opened("write", x), x) /\ Opened("write", x).file = x
    BY <1>1 DEF Opened, OpenOn, Nothing
  <2> QED  BY <1>3, <2>1
<1>7. HolderInv'
  <2>1. \A v \in Users : OpenOn(used[v], Len(states)) => OpenOn(used[v], x)
    BY <1>1 DEF OpenOn
  <2> QED  BY <1>1, <1>3, <1>6, <2>1 DEF HolderInv
<1>8. OrphanInv'
  BY <1>1, <1>3, <1>4 DEF MemInv, OrphanInv, NullFile
<1>9. ASSUME NEW g \in 1..x
       PROVE  states'[g].refs = Cardinality(NamesOf(fileMap', g)) + Cardinality(UsersOf(used', g))
                                + Forgotten(orphans', g)
  <2> DEFINE a == Cardinality(NamesOf(fileMap, g))
             b == Cardinality(UsersOf(used, g))
             c == Forgotten(orphans, g)
             a2 == Cardinality(NamesOf(fileMap', g))
             b2 == Cardinality(UsersOf(used', g))
             c2 == Forgotten(orphans', g)
  <2>1. /\ a \in Nat /\ a2 \in Nat
        /\ a2 = a + (IF fileMap'[name] = g THEN 1 ELSE 0) - (IF fileMap[name] = g THEN 1 ELSE 0)
    <3>1. \A m \in Names \ {name} : m \in NamesOf(fileMap', g) <=> m \in NamesOf(fileMap, g)
      BY <1>4 DEF NamesOf
    <3>2. /\ Cardinality(NamesOf(fileMap, g)) \in Nat /\ Cardinality(NamesOf(fileMap', g)) \in Nat
          /\ Cardinality(NamesOf(fileMap', g)) = Cardinality(NamesOf(fileMap, g))
               + (IF name \in NamesOf(fileMap', g) THEN 1 ELSE 0)
               - (IF name \in NamesOf(fileMap, g) THEN 1 ELSE 0)
      BY <3>1, NameMove
    <3>3. /\ name \in NamesOf(fileMap', g) <=> fileMap'[name] = g
          /\ name \in NamesOf(fileMap, g) <=> fileMap[name] = g
      BY DEF NamesOf
    <3> QED  BY <3>2, <3>3
  <2>2. /\ b \in Nat /\ b2 \in Nat
        /\ b2 = b + (IF used'[u] # Nothing /\ used'[u].file = g THEN 1 ELSE 0)
                  - (IF used[u] # Nothing /\ used[u].file = g THEN 1 ELSE 0)
    <3>1. \A v \in Users \ {u} : v \in UsersOf(used', g) <=> v \in UsersOf(used, g)
      BY <1>6 DEF UsersOf
    <3>2. /\ Cardinality(UsersOf(used, g)) \in Nat /\ Cardinality(UsersOf(used', g)) \in Nat
          /\ Cardinality(UsersOf(used', g)) = Cardinality(UsersOf(used, g))
               + (IF u \in UsersOf(used', g) THEN 1 ELSE 0)
               - (IF u \in UsersOf(used, g) THEN 1 ELSE 0)
      BY <3>1, UserMove
    <3>3. /\ b \in Nat /\ b2 \in Nat
          /\ b2 = b + (IF u \in UsersOf(used', g) THEN 1 ELSE 0) - (IF u \in UsersOf(used, g) THEN 1 ELSE 0)
      BY <3>2
    <3> HIDE DEF b, b2
    <3> QED  BY <3>3 DEF UsersOf
  <2>3. c \in Nat /\ c2 = IF g = x /\ g \in orphans' THEN 1 ELSE c
    BY <1>1, <1>3, <1>4 DEF Forgotten
  <2>4. CASE g = x
    <3>1. NamesOf(fileMap, g) = {} /\ UsersOf(used, g) = {} /\ g \notin orphans
      <4>1. \A m \in Names : fileMap[m] # g
        BY <1>1, <1>3, <2>4
      <4>2. \A v \in Users : used[v] = Nothing \/ used[v].file # g
        BY <1>1, <1>3, <2>4 DEF OpenOn
      <4> QED  BY <1>1, <1>3, <2>4, <4>1, <4>2 DEF NamesOf, UsersOf
    <3>2. a = 0 /\ b = 0 /\ c = 0
      BY <3>1, FS_EmptySet DEF Forgotten
    <3> HIDE DEF a, b, c, a2, b2, c2
    <3>3. b2 = 1
      BY <1>6, <2>2, <2>4, <3>2
    <3>4. a2 + c2 = 1
      BY <1>1, <1>4, <2>1, <2>3, <2>4, <3>2
    <3>5. states'[g].refs = a2 + b2 + c2
      BY <2>1, <2>3, <2>4, <3>2, <3>3, <3>4
    <3> QED  BY <3>5 DEF a2, b2, c2
  <2>5. CASE g # x
    <3>1. g \in 1..Len(states) /\ states'[g] = states[g]
      BY <1>1, <2>5
    <3>2. states[g].refs = a + b + c
      BY <3>1 DEF MemInv, RefsInv
    <3> HIDE DEF a, b, c, a2, b2, c2
    <3>3. a2 = a
      BY <1>3, <1>4, <2>1, <2>5, <3>1
    <3>4. b2 = b
      BY <1>6, <2>2, <2>5
    <3>5. states'[g].refs = a2 + b2 + c2
      BY <2>3, <2>5, <3>1, <3>2, <3>3, <3>4
    <3> QED  BY <3>5 DEF a2, b2, c2
  <2> QED  BY <2>4, <2>5
<1>10. RefsInv'
  BY <1>1, <1>9 DEF RefsInv
<1> QED  BY <1>2, <1>5, <1>7, <1>8, <1>10 DEF MemInv

(* Names come to lead elsewhere, and the states they leave lose a          *)
(* reference.                                                              *)
LEMMA NamesStep ==
    ASSUME MemInv, used' = used, orphans' = orphans, crashed' = crashed,
           ListOf(states'), Len(states') = Len(states),
           fileMap' \in [Names -> -1..Len(states)],
           \A m, n \in Names : fileMap'[m] = fileMap'[n] /\ fileMap'[m] > 0 => m = n,
           (\E n \in Names : fileMap'[n] = NullFile) => \E n \in Names : fileMap[n] = NullFile,
           \A g \in 1..Len(states) :
               /\ Counted(states'[g])
               /\ Cardinality(NamesOf(fileMap', g)) \in Nat
               /\ states'[g].refs = states[g].refs - Cardinality(NamesOf(fileMap, g))
                                    + Cardinality(NamesOf(fileMap', g))
    PROVE  MemInv'
<1>1. ASSUME NEW g \in 1..Len(states)
      PROVE  states'[g].refs = Cardinality(NamesOf(fileMap', g)) + Cardinality(UsersOf(used', g))
                               + Forgotten(orphans', g)
  <2> DEFINE a == Cardinality(NamesOf(fileMap, g))
             b == Cardinality(UsersOf(used, g))
             c == Forgotten(orphans, g)
             a2 == Cardinality(NamesOf(fileMap', g))
  <2>1. /\ a \in Nat /\ b \in Nat /\ c \in Nat /\ a2 \in Nat
        /\ states'[g].refs = states[g].refs - a + a2
    BY CountsAreNats
  <2>2. states[g].refs = a + b + c
    BY DEF MemInv, RefsInv
  <2> HIDE DEF a, b, c, a2
  <2>3. states'[g].refs = a2 + b + c
    BY <2>1, <2>2
  <2> QED  BY <2>3 DEF a2, b, c
<1>2. RefsInv'
  BY <1>1 DEF RefsInv
<1>3. StatesInv' /\ HolderInv'
  BY DEF MemInv, StatesInv, HolderInv
<1>4. FileMapInv' /\ OrphanInv'
  BY DEF MemInv, FileMapInv, OrphanInv
<1> QED  BY <1>2, <1>3, <1>4 DEF MemInv

(* A call that follows a null pointer changes nothing else.                *)
LEMMA CrashStep ==
    ASSUME MemInv, Crash, \E n \in Names : fileMap[n] = NullFile
    PROVE  MemInv'
<1>1. orphans # {}
  BY DEF MemInv, OrphanInv
<1>2. /\ fileMap' = fileMap /\ states' = states /\ used' = used /\ orphans' = orphans
  BY DEF Crash
<1> QED  BY <1>1, <1>2
         DEF MemInv, StatesInv, FileMapInv, HolderInv, OrphanInv, RefsInv, UsersOf, NamesOf, Forgotten

(* What the invariant says of the file a user holds, and of one that a     *)
(* name leads to.                                                          *)
LEMMA HeldFile ==
    ASSUME MemInv
    PROVE  /\ Len(states) \in Nat /\ DOMAIN states = 1..Len(states) /\ ListOf(states)
           /\ \A f \in 1..Len(states) : Counted(states[f]) /\ states[f].refs \in Nat
           /\ \A u \in Users : used[u] # Nothing => OpenOn(used[u], Len(states))
           /\ \A n \in Names : fileMap[n] > 0 => fileMap[n] \in 1..Len(states)
           /\ \A n \in Names : fileMap[n] \in Int /\ fileMap[n] >= -1
           /\ used = [u \in Users |-> used[u]]
<1>1. \A f \in 1..Len(states) : states[f].refs \in Nat
  BY CountsAreNats DEF MemInv, RefsInv
<1> QED  BY <1>1 DEF MemInv, StatesInv, HolderInv, FileMapInv, ListOf

(* NewSequentialFile, NewRandomAccessFile and the other calls that open a  *)
(* file which is there: e is its state with a reference more.              *)
LEMMA OpenStep ==
    ASSUME MemInv, NEW u \in Users, NEW f \in 1..Len(states), NEW e, used[u] = Nothing,
           Counted(e), e.refs = states[f].refs + 1,
           states' = [g \in 1..Len(states) |-> states'[g]],
           \A g \in 1..Len(states) : states'[g] = IF g = f THEN e ELSE states[g],
           NEW how \in {"write", "sequential", "random"},
           used' = [v \in Users |-> used'[v]], used'[u] = Opened(how, f),
           \A v \in Users \ {u} : \/ used[v] = Nothing /\ used'[v] = Nothing
                                  \/ /\ used[v] # Nothing /\ OpenOn(used'[v], Len(states))
                                     /\ used'[v].file = used[v].file,
           UNCHANGED <<fileMap, orphans, crashed>>
    PROVE  MemInv'
<1>1. /\ Len(states) \in Nat /\ ListOf(states)
      /\ \A g \in 1..Len(states) : Counted(states[g])
  BY HeldFile
<1>2. ListOf(states') /\ Len(states') = Len(states)
  BY <1>1, IsList
<1>3. \A g \in 1..Len(states) :
         /\ Counted(states'[g])
         /\ states'[g].refs = IF g = f THEN states[g].refs + 1 ELSE states[g].refs
  BY <1>1, <1>2
<1>4. OpenOn(used'[u], Len(states)) /\ used'[u].file = f
  BY DEF Opened, OpenOn
<1>5. fileMap' = fileMap /\ orphans' = orphans /\ crashed' = crashed
  OBVIOUS
<1> HIDE DEF OpenOn
<1> QED  BY <1>2, <1>3, <1>4, <1>5, HolderStep

(* One of them ends: the file object is deleted.                           *)
LEMMA CloseFileStep ==
    ASSUME MemInv, NEW u \in Users, CloseFile(u)
    PROVE  MemInv'
<1> DEFINE f == FileOf(u)
<1>1. /\ Len(states) \in Nat /\ DOMAIN states = 1..Len(states)
      /\ \A g \in 1..Len(states) : Counted(states[g]) /\ states[g].refs \in Nat
      /\ \A v \in Users : used[v] # Nothing => OpenOn(used[v], Len(states))
      /\ used = [v \in Users |-> used[v]]
  BY HeldFile
<1>2. /\ used[u] # Nothing /\ states' = [states EXCEPT ![f] = Unreffed(states[f])]
      /\ used' = [used EXCEPT ![u] = Nothing]
      /\ fileMap' = fileMap /\ orphans' = orphans /\ crashed' = crashed
  BY DEF CloseFile
<1>3. f \in 1..Len(states) /\ used[u].file = f
  BY <1>1, <1>2 DEF OpenOn, FileOf
<1> HIDE DEF f
<1>4. /\ states' = [g \in 1..Len(states) |-> states'[g]]
      /\ \A g \in 1..Len(states) : states'[g] = IF g = f THEN Unreffed(states[f]) ELSE states[g]
  BY <1>1, <1>2, <1>3
<1>5. ListOf(states') /\ Len(states') = Len(states)
  BY <1>1, <1>4, IsList
<1>6. Counted(Unreffed(states[f])) /\ Unreffed(states[f]).refs = states[f].refs + (-1)
  BY <1>1, <1>3, RefFacts
<1>7. \A g \in 1..Len(states) :
         /\ Counted(states'[g])
         /\ states'[g].refs = IF g = f THEN states[g].refs + (-1) ELSE states[g].refs
  BY <1>1, <1>4, <1>6
<1>8. /\ used' = [v \in Users |-> used'[v]] /\ used'[u] = Nothing
      /\ \A v \in Users \ {u} : used'[v] = used[v]
  BY <1>1, <1>2
<1>9. \A v \in Users \ {u} : \/ used[v] = Nothing /\ used'[v] = Nothing
                             \/ /\ used[v] # Nothing /\ OpenOn(used'[v], Len(states))
                                /\ used'[v].file = used[v].file
  BY <1>1, <1>8
<1> QED  BY <1>2, <1>3, <1>7, <1>8, <1>9, <1>5, HolderStep

(* NewSequentialFile and NewRandomAccessFile.                              *)
LEMMA ReadableStep ==
    ASSUME MemInv, NEW u \in Users, NEW name \in Names, NEW how \in {"sequential", "random"},
           NewReadableFile(u, name, how)
    PROVE  MemInv'
<1> DEFINE f == fileMap[name]
<1>1. CASE f = NullFile
  BY <1>1, CrashStep DEF NewReadableFile
<1>2. CASE f # NullFile
  <2>1. /\ Len(states) \in Nat /\ DOMAIN states = 1..Len(states)
        /\ \A g \in 1..Len(states) : Counted(states[g]) /\ states[g].refs \in Nat
        /\ \A v \in Users : used[v] # Nothing => OpenOn(used[v], Len(states))
        /\ used = [v \in Users |-> used[v]]
    BY HeldFile
  <2>2. /\ used[u] = Nothing /\ states' = [states EXCEPT ![f] = Reffed(states[f])]
        /\ used' = [used EXCEPT ![u] = Opened(how, f)]
        /\ UNCHANGED <<fileMap, orphans, crashed>> /\ f # NoFile
    BY <1>2 DEF NewReadableFile
  <2>3. f \in 1..Len(states)
    BY <1>2, <2>2 DEF MemInv, FileMapInv, NullFile, NoFile
  <2> HIDE DEF f
  <2>4. Counted(Reffed(states[f])) /\ Reffed(states[f]).refs = states[f].refs + 1
    BY <2>1, <2>3, RefFacts
  <2>5. /\ states' = [g \in 1..Len(states) |-> states'[g]]
        /\ \A g \in 1..Len(states) : states'[g] = IF g = f THEN Reffed(states[f]) ELSE states[g]
    BY <2>1, <2>2, <2>3
  <2>6. used[u] = Nothing /\ UNCHANGED <<fileMap, orphans, crashed>>
    BY <2>2
  <2>7. /\ used' = [v \in Users |-> used'[v]] /\ used'[u] = Opened(how, f)
        /\ \A v \in Users \ {u} : used'[v] = used[v]
    BY <2>1, <2>2
  <2>8. \A v \in Users \ {u} : \/ used[v] = Nothing /\ used'[v] = Nothing
                               \/ /\ used[v] # Nothing /\ OpenOn(used'[v], Len(states))
                                  /\ used'[v].file = used[v].file
    BY <2>1, <2>7
  <2> QED  BY <2>3, <2>4, <2>7, <2>8, <2>5, <2>6, OpenStep
<1> QED  BY <1>1, <1>2

(* A state with two references, for a file and its name.                   *)
LEMMA StateMade ==
    ASSUME MemInv, states' = Append(states, Reffed(Reffed(NewState)))
    PROVE  /\ ListOf(states') /\ Len(states') = Len(states) + 1
           /\ \A g \in 1..Len(states) : states'[g] = states[g]
           /\ Counted(states'[Len(states) + 1]) /\ states'[Len(states) + 1].refs = 2
<1> DEFINE new == Reffed(Reffed(NewState))
<1>1. Counted(new) /\ new.refs = 2
  <2>1. Counted(NewState) /\ NewState.refs = 0
    BY DEF Counted, NewState
  <2>2. Counted(Reffed(NewState)) /\ Reffed(NewState).refs = 1
    BY <2>1, RefFacts
  <2> HIDE DEF new
  <2>3. Counted(new) /\ new.refs = Reffed(NewState).refs + 1
    BY <2>2, RefFacts DEF new
  <2> QED  BY <2>2, <2>3
<1> HIDE DEF new
<1>2. ListOf(states) /\ states' = Append(states, new)
  BY HeldFile DEF new
<1>3. /\ ListOf(states') /\ Len(states') = Len(states) + 1
      /\ \A g \in 1..Len(states) : states'[g] = states[g]
      /\ states'[Len(states) + 1] = new
  BY <1>2, StatesGrow
<1> QED  BY <1>1, <1>3

(* NewWritableFile.                                                        *)
LEMMA WritableStep ==
    ASSUME MemInv, NEW u \in Users, NEW name \in Names, NewWritableFile(u, name)
    PROVE  MemInv'
<1> DEFINE f == fileMap[name]
           x == Len(states) + 1
<1>1. /\ Len(states) \in Nat /\ DOMAIN states = 1..Len(states) /\ f \in Int
      /\ \A g \in 1..Len(states) : Counted(states[g]) /\ states[g].refs \in Nat
      /\ \A v \in Users : used[v] # Nothing => OpenOn(used[v], Len(states))
      /\ used = [v \in Users |-> used[v]] /\ (f > 0 => f \in 1..Len(states))
  BY HeldFile
<1>2. CASE /\ f = NoFile
           /\ states' = Append(states, Reffed(Reffed(NewState)))
           /\ fileMap' = [fileMap EXCEPT ![name] = x]
           /\ used' = [used EXCEPT ![u] = Opened("write", x)]
           /\ UNCHANGED <<orphans, crashed>>
  <2>1. /\ ListOf(states') /\ Len(states') = x
        /\ \A g \in 1..Len(states) : states'[g] = states[g]
        /\ Counted(states'[x]) /\ states'[x].refs = 2
    BY <1>2, StateMade
  <2>2. /\ used' = [v \in Users |-> used'[v]] /\ used'[u] = Opened("write", x)
        /\ \A v \in Users \ {u} : used'[v] = used[v]
    BY <1>1, <1>2
  <2>3. used[u] = Nothing /\ f <= 0 /\ crashed' = crashed /\ orphans' = orphans
    BY <1>2 DEF NewWritableFile, NoFile
  <2>4. fileMap' = [fileMap EXCEPT ![name] = x]
    BY <1>2
  <2> HIDE DEF x
  <2> QED  BY <2>1, <2>2, <2>3, <2>4, NewStateStep DEF x
<1>3. CASE f = NullFile /\ Crash
  BY <1>3, CrashStep
<1>4. CASE /\ f > NullFile
           /\ states' = [states EXCEPT ![f] = Reffed(Emptied(states[f]))]
           /\ used' = [[v \in Users |-> IF used[v] # Nothing /\ FileOf(v) = f
                                          THEN [used[v] EXCEPT !.cut = TRUE] ELSE used[v]]
                         EXCEPT ![u] = Opened("write", f)]
           /\ UNCHANGED <<fileMap, orphans, crashed>>
  <2>1. f \in 1..Len(states)
    BY <1>1, <1>4 DEF NullFile
  <2> HIDE DEF f
  <2>2. Counted(Emptied(states[f])) /\ Emptied(states[f]).refs = states[f].refs
    BY <1>1, <2>1, RefFacts
  <2>3. Counted(Reffed(Emptied(states[f]))) /\ Reffed(Emptied(states[f])).refs = states[f].refs + 1
    BY <1>1, <2>1, <2>2, RefFacts
  <2>4. /\ states' = [g \in 1..Len(states) |-> states'[g]]
        /\ \A g \in 1..Len(states) :
              states'[g] = IF g = f THEN Reffed(Emptied(states[f])) ELSE states[g]
    BY <1>1, <1>4, <2>1
  <2>5. /\ used' = [v \in Users |-> used'[v]] /\ used'[u] = Opened("write", f)
        /\ \A v \in Users \ {u} : used'[v] = used[v] \/ used'[v] = [used[v] EXCEPT !.cut = TRUE]
        /\ \A v \in Users \ {u} : used[v] = Nothing => used'[v] = used[v]
    BY <1>4
  <2>6. \A v \in Users \ {u} : \/ used[v] = Nothing /\ used'[v] = Nothing
                               \/ /\ used[v] # Nothing /\ OpenOn(used'[v], Len(states))
                                  /\ used'[v].file = used[v].file
    <3> SUFFICES ASSUME NEW v \in Users \ {u}, used[v] # Nothing
                 PROVE  OpenOn(used'[v], Len(states)) /\ used'[v].file = used[v].file
      BY <2>5
    <3>1. OpenOn(used[v], Len(states))
      BY <1>1
    <3>2. CASE used'[v] = used[v]
      BY <3>1, <3>2
    <3>3. CASE used'[v] = [used[v] EXCEPT !.cut = TRUE]
      BY <3>1, <3>3 DEF OpenOn
    <3> QED  BY <2>5, <3>2, <3>3
  <2>7. used[u] = Nothing /\ UNCHANGED <<fileMap, orphans, crashed>>
    BY <1>4 DEF NewWritableFile
  <2> QED  BY <2>1, <2>3, <2>4, <2>5, <2>6, <2>7, OpenStep
<1> QED  BY <1>2, <1>3, <1>4 DEF NewWritableFile

(* NewAppendableFile.                                                      *)
LEMMA AppendableStep ==
    ASSUME MemInv, NEW u \in Users, NEW name \in Names, NewAppendableFile(u, name)
    PROVE  MemInv'
<1> DEFINE f == fileMap[name]
           x == Len(states) + 1
<1>1. /\ Len(states) \in Nat /\ DOMAIN states = 1..Len(states) /\ f \in Int
      /\ \A g \in 1..Len(states) : Counted(states[g]) /\ states[g].refs \in Nat
      /\ \A v \in Users : used[v] # Nothing => OpenOn(used[v], Len(states))
      /\ used = [v \in Users |-> used[v]] /\ (f > 0 => f \in 1..Len(states))
  BY HeldFile
<1>2. CASE /\ f > NullFile
           /\ states' = [states EXCEPT ![f] = Reffed(states[f])]
           /\ used' = [used EXCEPT ![u] = Opened("write", f)]
           /\ UNCHANGED <<fileMap, orphans, crashed>>
  <2>1. f \in 1..Len(states)
    BY <1>1, <1>2 DEF NullFile
  <2> HIDE DEF f
  <2>2. Counted(Reffed(states[f])) /\ Reffed(states[f]).refs = states[f].refs + 1
    BY <1>1, <2>1, RefFacts
  <2>3. /\ states' = [g \in 1..Len(states) |-> states'[g]]
        /\ \A g \in 1..Len(states) : states'[g] = IF g = f THEN Reffed(states[f]) ELSE states[g]
    BY <1>1, <1>2, <2>1
  <2>4. /\ used' = [v \in Users |-> used'[v]] /\ used'[u] = Opened("write", f)
        /\ \A v \in Users \ {u} : used'[v] = used[v]
    BY <1>1, <1>2
  <2>5. \A v \in Users \ {u} : \/ used[v] = Nothing /\ used'[v] = Nothing
                               \/ /\ used[v] # Nothing /\ OpenOn(used'[v], Len(states))
                                  /\ used'[v].file = used[v].file
    BY <1>1, <2>4
  <2>6. used[u] = Nothing /\ UNCHANGED <<fileMap, orphans, crashed>>
    BY <1>2 DEF NewAppendableFile
  <2> QED  BY <2>1, <2>2, <2>3, <2>4, <2>5, <2>6, OpenStep
<1>3. CASE /\ f <= NullFile
           /\ states' = Append(states, Reffed(Reffed(NewState)))
           /\ fileMap' = [fileMap EXCEPT ![name] = NullFile]
           /\ used' = [used EXCEPT ![u] = Opened("write", x)]
           /\ orphans' = orphans \cup {x} /\ crashed' = crashed
  <2>1. /\ ListOf(states') /\ Len(states') = x
        /\ \A g \in 1..Len(states) : states'[g] = states[g]
        /\ Counted(states'[x]) /\ states'[x].refs = 2
    BY <1>3, StateMade
  <2>2. /\ used' = [v \in Users |-> used'[v]] /\ used'[u] = Opened("write", x)
        /\ \A v \in Users \ {u} : used'[v] = used[v]
    BY <1>1, <1>3
  <2>3. used[u] = Nothing /\ f <= 0 /\ crashed' = crashed /\ orphans' = orphans \cup {x}
    BY <1>3 DEF NewAppendableFile, NullFile
  <2>4. fileMap' = [fileMap EXCEPT ![name] = NullFile]
    BY <1>3
  <2> HIDE DEF x
  <2> QED  BY <2>1, <2>2, <2>3, <2>4, NewStateStep DEF x
<1> QED  BY <1>2, <1>3 DEF NewAppendableFile

(* Append, Read and Skip move no reference.                                *)
LEMMA ByteSteps ==
    ASSUME MemInv, NEW u \in Users,
           \/ \E n \in Lengths : AppendToFile(u, n) \/ ReadOn(u, n) \/ SkipCheck(u, n)
           \/ SkipMove(u)
    PROVE  MemInv'
<1>1. /\ Len(states) \in Nat /\ DOMAIN states = 1..Len(states) /\ ListOf(states)
      /\ \A g \in 1..Len(states) : Counted(states[g])
      /\ \A v \in Users : used[v] # Nothing => OpenOn(used[v], Len(states))
      /\ used = [v \in Users |-> used[v]]
  BY HeldFile
<1>2. /\ used[u] # Nothing /\ ~crashed
      /\ fileMap' = fileMap /\ orphans' = orphans /\ crashed' = crashed
  <2>1. used[u].kind = "write" \/ used[u].kind = "sequential" => used[u] # Nothing
    BY DEF Nothing
  <2>2. CASE \E n \in Lengths : AppendToFile(u, n)
    BY <2>1, <2>2 DEF AppendToFile, Holds
  <2>3. CASE \E n \in Lengths : ReadOn(u, n)
    BY <2>1, <2>3 DEF ReadOn, Holds
  <2>4. CASE \E n \in Lengths : SkipCheck(u, n)
    BY <2>1, <2>4 DEF SkipCheck, Holds
  <2>5. CASE SkipMove(u)
    BY <2>5 DEF SkipMove
  <2> QED  BY <2>2, <2>3, <2>4, <2>5
<1>3. OpenOn(used[u], Len(states))
  BY <1>1, <1>2
<1>4. ASSUME NEW n \in Lengths, AppendToFile(u, n)  PROVE MemInv'
  <2> DEFINE f == FileOf(u)
             e == Appended(states[f], [i \in 1..n |-> written + i])
  <2>1. f \in 1..Len(states)
    BY <1>3 DEF OpenOn, FileOf
  <2>2. Counted(e) /\ e.refs = states[f].refs
    BY <1>1, <2>1, AppendedRefs
  <2>3. used' = used /\ states' = [states EXCEPT ![f] = e]
    BY <1>4 DEF AppendToFile
  <2> HIDE DEF f, e
  <2>4. /\ states' = [g \in 1..Len(states) |-> states'[g]]
        /\ \A g \in 1..Len(states) : states'[g] = IF g = f THEN e ELSE states[g]
    BY <1>1, <2>1, <2>3
  <2>5. ListOf(states') /\ Len(states') = Len(states)
    BY <1>1, <2>4, IsList
  <2>6. \A g \in 1..Len(states) : Counted(states'[g]) /\ states'[g].refs = states[g].refs
    BY <1>1, <2>2, <2>4
  <2>7. \A v \in Users : \/ used[v] = Nothing /\ used'[v] = Nothing
                         \/ /\ used[v] # Nothing /\ OpenOn(used'[v], Len(states))
                            /\ used'[v].file = used[v].file
    BY <1>1, <2>3
  <2>8. used' = [v \in Users |-> used'[v]]
    BY <1>1, <2>3
  <2> QED  BY <1>2, <2>5, <2>6, <2>7, <2>8, QuietFiles
<1>5. ASSUME NEW o, used' = [used EXCEPT ![u] = o], OpenOn(o, Len(states)), o.file = used[u].file,
             states' = states
      PROVE  MemInv'
  <2>1. used' = [v \in Users |-> used'[v]] /\ \A v \in Users : used'[v] = IF v = u THEN o ELSE used[v]
    BY <1>1, <1>5
  <2>2. \A v \in Users : \/ used[v] = Nothing /\ used'[v] = Nothing
                         \/ /\ used[v] # Nothing /\ OpenOn(used'[v], Len(states))
                            /\ used'[v].file = used[v].file
    BY <1>1, <1>2, <1>5, <2>1
  <2>3. /\ ListOf(states') /\ Len(states') = Len(states)
        /\ \A g \in 1..Len(states) : Counted(states'[g]) /\ states'[g].refs = states[g].refs
    BY <1>1, <1>5
  <2> QED  BY <1>2, <2>1, <2>2, <2>3, QuietFiles
<1>6. ASSUME NEW n \in Lengths, ReadOn(u, n)  PROVE MemInv'
  <2> DEFINE p == used[u].pos + Len(ReadAt(states[FileOf(u)], used[u].pos, n).data)
             o == [used[u] EXCEPT !.pos = p]
  <2>1. used' = [used EXCEPT ![u] = o] /\ states' = states
    BY <1>6 DEF ReadOn
  <2> HIDE DEF p
  <2>2. OpenOn(o, Len(states)) /\ o.file = used[u].file
    BY <1>3 DEF OpenOn
  <2> HIDE DEF o
  <2> QED  BY <1>5, <2>1, <2>2
<1>7. ASSUME NEW n \in Lengths, SkipCheck(u, n)  PROVE MemInv'
  <2> DEFINE o == [used[u] EXCEPT !.skip = n]
  <2>1. used' = [used EXCEPT ![u] = o] /\ states' = states
    BY <1>7 DEF SkipCheck
  <2>2. OpenOn(o, Len(states)) /\ o.file = used[u].file
    BY <1>3 DEF OpenOn
  <2> HIDE DEF o
  <2> QED  BY <1>5, <2>1, <2>2
<1>8. ASSUME SkipMove(u)  PROVE MemInv'
  <2> DEFINE available == (states[FileOf(u)].size - used[u].pos) % Word
             p == (used[u].pos + Min({used[u].skip, available})) % Word
             o == [used[u] EXCEPT !.pos = p, !.skip = 0]
  <2>1. used' = [used EXCEPT ![u].pos = p, ![u].skip = 0] /\ states' = states
    BY <1>8 DEF SkipMove
  <2> HIDE DEF p
  <2>2. used' = [used EXCEPT ![u] = o]
    BY <1>1, <2>1
  <2>3. OpenOn(o, Len(states)) /\ o.file = used[u].file
    BY <1>3 DEF OpenOn
  <2> HIDE DEF o
  <2> QED  BY <1>5, <2>1, <2>2, <2>3
<1> QED  BY <1>4, <1>6, <1>7, <1>8

(* A name is taken from the map, and another may take its file over.       *)
LEMMA NameSteps ==
    ASSUME MemInv,
           \/ \E name \in Names : DeleteFile(name) \/ GetFileSize(name)
           \/ \E src, target \in Names : RenameFile(src, target)
    PROVE  MemInv'
<1>1. /\ Len(states) \in Nat /\ DOMAIN states = 1..Len(states) /\ ListOf(states)
      /\ \A g \in 1..Len(states) : Counted(states[g]) /\ states[g].refs \in Nat
      /\ fileMap \in [Names -> -1..Len(states)]
      /\ \A m, n \in Names : fileMap[m] = fileMap[n] /\ fileMap[m] > 0 => m = n
  BY HeldFile DEF MemInv, FileMapInv
<1>2. ASSUME NEW f \in -1..Len(states), f # NullFile, states' = DropName(states, f)
      PROVE  /\ ListOf(states') /\ Len(states') = Len(states)
             /\ \A g \in 1..Len(states) :
                   /\ Counted(states'[g])
                   /\ states'[g].refs = states[g].refs - (IF g = f THEN 1 ELSE 0)
  <2>1. CASE f = NoFile
    BY <1>1, <1>2, <2>1 DEF DropName, NoFile
  <2>2. CASE f # NoFile
    <3>1. f \in 1..Len(states) /\ states' = [states EXCEPT ![f] = Unreffed(states[f])]
      BY <1>1, <1>2, <2>2 DEF DropName, NoFile, NullFile
    <3>2. Counted(Unreffed(states[f])) /\ Unreffed(states[f]).refs = states[f].refs - 1
      BY <1>1, <3>1, RefFacts
    <3>3. /\ states' = [g \in 1..Len(states) |-> states'[g]]
          /\ \A g \in 1..Len(states) : states'[g] = IF g = f THEN Unreffed(states[f]) ELSE states[g]
      BY <1>1, <3>1
    <3>4. ListOf(states') /\ Len(states') = Len(states)
      BY <1>1, <3>3, IsList
    <3> QED  BY <1>1, <3>2, <3>3, <3>4
  <2> QED  BY <2>1, <2>2
<1>3. ASSUME NEW name \in Names, DeleteFile(name)  PROVE MemInv'
  <2> DEFINE f == fileMap[name]
  <2>1. CASE f = NullFile
    BY <1>3, <2>1, CrashStep DEF DeleteFile
  <2>2. CASE f # NullFile
    <3>1. /\ states' = DropName(states, f) /\ fileMap' = [fileMap EXCEPT ![name] = -1]
          /\ used' = used /\ orphans' = orphans /\ crashed' = crashed
      BY <1>3, <2>2 DEF DeleteFile, NoFile
    <3>2. f \in -1..Len(states)
      BY <1>1
    <3>3. /\ fileMap'[name] = -1 /\ \A m \in Names \ {name} : fileMap'[m] = fileMap[m]
          /\ fileMap' \in [Names -> -1..Len(states)]
      BY <1>1, <3>1
    <3>4. /\ \A m, n \in Names : fileMap'[m] = fileMap'[n] /\ fileMap'[m] > 0 => m = n
          /\ (\E n \in Names : fileMap'[n] = NullFile) => \E n \in Names : fileMap[n] = NullFile
      BY <1>1, <3>3, SMTT(30) DEF NullFile
    <3>5. /\ ListOf(states') /\ Len(states') = Len(states)
          /\ \A g \in 1..Len(states) :
                /\ Counted(states'[g])
                /\ states'[g].refs = states[g].refs - (IF g = f THEN 1 ELSE 0)
      BY <1>2, <2>2, <3>1, <3>2
    <3>6. ASSUME NEW g \in 1..Len(states)
          PROVE  /\ Cardinality(NamesOf(fileMap', g)) \in Nat
                 /\ states'[g].refs = states[g].refs - Cardinality(NamesOf(fileMap, g))
                                      + Cardinality(NamesOf(fileMap', g))
      <4> DEFINE a == Cardinality(NamesOf(fileMap, g))
                 b == Cardinality(NamesOf(fileMap', g))
      <4>1. /\ a \in Nat /\ b \in Nat
            /\ b = a + (IF fileMap'[name] = g THEN 1 ELSE 0) - (IF fileMap[name] = g THEN 1 ELSE 0)
        <5>1. \A m \in Names \ {name} : m \in NamesOf(fileMap', g) <=> m \in NamesOf(fileMap, g)
          BY <3>3 DEF NamesOf
        <5>2. /\ Cardinality(NamesOf(fileMap, g)) \in Nat /\ Cardinality(NamesOf(fileMap', g)) \in Nat
              /\ Cardinality(NamesOf(fileMap', g)) = Cardinality(NamesOf(fileMap, g))
                   + (IF name \in NamesOf(fileMap', g) THEN 1 ELSE 0)
                   - (IF name \in NamesOf(fileMap, g) THEN 1 ELSE 0)
          BY <5>1, NameMove
        <5>3. /\ name \in NamesOf(fileMap', g) <=> fileMap'[name] = g
              /\ name \in NamesOf(fileMap, g) <=> fileMap[name] = g
          BY DEF NamesOf
        <5> QED  BY <5>2, <5>3
      <4> HIDE DEF a, b
      <4>2. states'[g].refs = states[g].refs - a + b
        BY <1>1, <3>3, <3>5, <4>1, SMTT(30)
      <4> QED  BY <4>1, <4>2 DEF a, b
    <3> QED  BY <3>1, <3>3, <3>4, <3>5, <3>6, NamesStep
  <2> QED  BY <2>1, <2>2
<1>4. ASSUME NEW name \in Names, GetFileSize(name)  PROVE MemInv'
  BY <1>4, CrashStep DEF GetFileSize
<1>5. ASSUME NEW src \in Names, NEW target \in Names, RenameFile(src, target)  PROVE MemInv'
  <2> DEFINE f == fileMap[target]
             h == fileMap[src]
             mid == [fileMap EXCEPT ![target] = h]
  <2>1. CASE f = NullFile
    BY <1>5, <2>1, CrashStep DEF RenameFile
  <2>2. CASE f # NullFile
    <3>1. /\ states' = DropName(states, f) /\ fileMap' = [fileMap EXCEPT ![target] = h, ![src] = -1]
          /\ used' = used /\ orphans' = orphans /\ crashed' = crashed /\ src # target
      BY <1>5, <2>2 DEF RenameFile, NoFile
    <3>2. f \in -1..Len(states) /\ h \in -1..Len(states)
      BY <1>1
    <3>3. /\ fileMap'[src] = -1 /\ fileMap'[target] = h
          /\ \A m \in Names \ {src, target} : fileMap'[m] = fileMap[m]
          /\ fileMap' \in [Names -> -1..Len(states)]
      <4>1. fileMap \in [Names -> -1..Len(states)] /\ Len(states) \in Nat
        BY <1>1
      <4>2. DOMAIN fileMap' = Names /\ fileMap' = [m \in Names |-> fileMap'[m]]
        BY <3>1, <4>1
      <4>3. fileMap'[src] = -1 /\ fileMap'[target] = h
        BY <3>1, <4>1
      <4>4. \A m \in Names \ {src, target} : fileMap'[m] = fileMap[m]
        BY <3>1, <4>1
      <4>5. -1 \in -1..Len(states)
        BY <4>1
      <4> HIDE DEF h
      <4>6. \A m \in Names : fileMap'[m] \in -1..Len(states)
        BY <3>2, <4>1, <4>3, <4>4, <4>5
      <4> QED  BY <4>2, <4>3, <4>4, <4>6
    <3>4. /\ \A m, n \in Names : fileMap'[m] = fileMap'[n] /\ fileMap'[m] > 0 => m = n
          /\ (\E n \in Names : fileMap'[n] = NullFile) => \E n \in Names : fileMap[n] = NullFile
      BY <1>1, <3>1, <3>3 DEF NullFile
    <3>5. /\ ListOf(states') /\ Len(states') = Len(states)
          /\ \A g \in 1..Len(states) :
                /\ Counted(states'[g])
                /\ states'[g].refs = states[g].refs - (IF g = f THEN 1 ELSE 0)
      BY <1>2, <2>2, <3>1, <3>2
    <3>6. /\ mid[target] = h /\ mid[src] = h /\ \A m \in Names \ {target} : mid[m] = fileMap[m]
          /\ \A m \in Names \ {src} : fileMap'[m] = mid[m]
      BY <1>1, <3>1, <3>3
    <3> HIDE DEF mid
    <3>7. ASSUME NEW g \in 1..Len(states)
          PROVE  /\ Cardinality(NamesOf(fileMap', g)) \in Nat
                 /\ states'[g].refs = states[g].refs - Cardinality(NamesOf(fileMap, g))
                                      + Cardinality(NamesOf(fileMap', g))
      <4> DEFINE a == Cardinality(NamesOf(fileMap, g))
                 b == Cardinality(NamesOf(mid, g))
                 c == Cardinality(NamesOf(fileMap', g))
      <4>1. /\ a \in Nat /\ b \in Nat
            /\ b = a + (IF mid[target] = g THEN 1 ELSE 0) - (IF fileMap[target] = g THEN 1 ELSE 0)
        <5>1. \A m \in Names \ {target} : m \in NamesOf(mid, g) <=> m \in NamesOf(fileMap, g)
          BY <3>6 DEF NamesOf
        <5>2. /\ Cardinality(NamesOf(fileMap, g)) \in Nat /\ Cardinality(NamesOf(mid, g)) \in Nat
              /\ Cardinality(NamesOf(mid, g)) = Cardinality(NamesOf(fileMap, g))
                   + (IF target \in NamesOf(mid, g) THEN 1 ELSE 0)
                   - (IF target \in NamesOf(fileMap, g) THEN 1 ELSE 0)
          BY <5>1, NameMove
        <5>3. /\ target \in NamesOf(mid, g) <=> mid[target] = g
              /\ target \in NamesOf(fileMap, g) <=> fileMap[target] = g
          BY DEF NamesOf
        <5> QED  BY <5>2, <5>3
      <4>2. /\ c \in Nat
            /\ c = b + (IF fileMap'[src] = g THEN 1 ELSE 0) - (IF mid[src] = g THEN 1 ELSE 0)
        <5>1. \A m \in Names \ {src} : m \in NamesOf(fileMap', g) <=> m \in NamesOf(mid, g)
          BY <3>6 DEF NamesOf
        <5>2. /\ Cardinality(NamesOf(mid, g)) \in Nat /\ Cardinality(NamesOf(fileMap', g)) \in Nat
              /\ Cardinality(NamesOf(fileMap', g)) = Cardinality(NamesOf(mid, g))
                   + (IF src \in NamesOf(fileMap', g) THEN 1 ELSE 0)
                   - (IF src \in NamesOf(mid, g) THEN 1 ELSE 0)
          BY <5>1, NameMove
        <5>3. /\ src \in NamesOf(fileMap', g) <=> fileMap'[src] = g
              /\ src \in NamesOf(mid, g) <=> mid[src] = g
          BY DEF NamesOf
        <5> QED  BY <5>2, <5>3
      <4> HIDE DEF a, b, c
      <4>3. states'[g].refs = states[g].refs - a + c
        <5>1. c = a - (IF g = f THEN 1 ELSE 0)
          <6>1. fileMap'[src] # g
            BY <1>1, <3>3
          <6>2. c = b - (IF h = g THEN 1 ELSE 0) /\ b = a + (IF h = g THEN 1 ELSE 0) - (IF f = g THEN 1 ELSE 0)
            BY <3>6, <4>1, <4>2, <6>1
          <6> HIDE DEF h, f
          <6> QED  BY <4>1, <4>2, <6>2, SMTT(30)
        <5>2. states'[g].refs = states[g].refs - (IF g = f THEN 1 ELSE 0) /\ states[g].refs \in Nat
          BY <1>1, <3>5
        <5> HIDE DEF f
        <5> QED  BY <4>1, <4>2, <5>1, <5>2, SMTT(30)
      <4> QED  BY <4>2, <4>3 DEF a, c
    <3> QED  BY <3>1, <3>3, <3>4, <3>5, <3>7, NamesStep
  <2> QED  BY <2>1, <2>2
<1> QED  BY <1>3, <1>4, <1>5

(* ~InMemoryEnv: each file that has a name loses one reference, and it has *)
(* one name.                                                               *)
LEMMA DeleteEnvStep ==
    ASSUME MemInv, DeleteEnv
    PROVE  MemInv'
<1>1. CASE \E n \in Names : fileMap[n] = NullFile
  BY <1>1, CrashStep DEF DeleteEnv
<1>2. CASE ~\E n \in Names : fileMap[n] = NullFile
  <2> DEFINE Led(g) == \E n \in Names : fileMap[n] = g
  <2>1. /\ Len(states) \in Nat /\ DOMAIN states = 1..Len(states)
        /\ \A g \in 1..Len(states) : Counted(states[g]) /\ states[g].refs \in Nat
        /\ \A m, n \in Names : fileMap[m] = fileMap[n] /\ fileMap[m] > 0 => m = n
    BY HeldFile DEF MemInv, FileMapInv
  <2>2. /\ states' = [g \in DOMAIN states |-> IF Led(g) THEN Unreffed(states[g]) ELSE states[g]]
        /\ fileMap' = [n \in Names |-> -1]
        /\ used' = used /\ orphans' = orphans /\ crashed' = crashed
    BY <1>2 DEF DeleteEnv, NoFile
  <2>3. /\ states' = [g \in 1..Len(states) |-> states'[g]]
        /\ \A g \in 1..Len(states) : states'[g] = IF Led(g) THEN Unreffed(states[g]) ELSE states[g]
    BY <2>1, <2>2
  <2>4. ListOf(states') /\ Len(states') = Len(states)
    BY <2>1, <2>3, IsList
  <2>5. /\ fileMap' \in [Names -> -1..Len(states)] /\ \A n \in Names : fileMap'[n] = -1
    BY <2>1, <2>2
  <2>6. /\ \A m, n \in Names : fileMap'[m] = fileMap'[n] /\ fileMap'[m] > 0 => m = n
        /\ (\E n \in Names : fileMap'[n] = NullFile) => \E n \in Names : fileMap[n] = NullFile
    BY <2>5 DEF NullFile
  <2>7. ASSUME NEW g \in 1..Len(states)
        PROVE  /\ Counted(states'[g])
               /\ Cardinality(NamesOf(fileMap', g)) \in Nat
               /\ states'[g].refs = states[g].refs - Cardinality(NamesOf(fileMap, g))
                                    + Cardinality(NamesOf(fileMap', g))
    <3>1. NamesOf(fileMap', g) = {}
      BY <2>1, <2>5 DEF NamesOf
    <3>2. Cardinality(NamesOf(fileMap', g)) = 0
      BY <3>1, FS_EmptySet
    <3>3. CASE Led(g)
      <4>1. PICK n \in Names : fileMap[n] = g
        BY <3>3
      <4>2. NamesOf(fileMap, g) = {n}
        BY <2>1, <4>1 DEF NamesOf
      <4>3. Cardinality(NamesOf(fileMap, g)) = 1
        BY <4>2, FS_Singleton
      <4>4. Counted(Unreffed(states[g])) /\ Unreffed(states[g]).refs = states[g].refs - 1
        BY <2>1, RefFacts
      <4> QED  BY <2>1, <2>3, <3>2, <3>3, <4>3, <4>4
    <3>4. CASE ~Led(g)
      <4>1. NamesOf(fileMap, g) = {}
        BY <3>4 DEF NamesOf
      <4>2. Cardinality(NamesOf(fileMap, g)) = 0
        BY <4>1, FS_EmptySet
      <4> QED  BY <2>1, <2>3, <3>2, <3>4, <4>2
    <3> QED  BY <3>3, <3>4
  <2>8. used' = used /\ orphans' = orphans /\ crashed' = crashed
    BY <2>2
  <2> QED  BY <2>4, <2>5, <2>6, <2>7, <2>8, NamesStep
<1> QED  BY <1>1, <1>2

(* The files of the environment in memory through every step.              *)
LEMMA MemInductive ==
    /\ EnvironmentInit => MemInv
    /\ MemInv /\ [EnvironmentNext]_allVars => MemInv'
<1>1. ASSUME EnvironmentInit  PROVE MemInv
  <2>1. /\ fileMap = [n \in Names |-> -1] /\ states = <<>> /\ used = [u \in Users |-> Nothing]
        /\ orphans = {} /\ crashed = FALSE
    BY <1>1 DEF EnvironmentInit, MemInit, NoFile
  <2>2. Len(states) = 0 /\ 1..Len(states) = {}
    BY <2>1
  <2>3. ListOf(states)
    BY <2>1 DEF ListOf
  <2> QED  BY <2>1, <2>2, <2>3
           DEF MemInv, StatesInv, FileMapInv, HolderInv, OrphanInv, RefsInv, NullFile
<1>2. ASSUME MemInv, UNCHANGED memVars  PROVE MemInv'
  BY <1>2 DEF memVars, MemInv, StatesInv, FileMapInv, HolderInv, OrphanInv, RefsInv
<1>3. ASSUME MemInv, MemNext  PROVE MemInv'
  BY <1>3, ReadableStep, WritableStep, AppendableStep, ByteSteps, CloseFileStep, NameSteps,
     DeleteEnvStep DEF MemNext, FileStep
<1>4. EnvironmentNext => MemNext \/ UNCHANGED memVars
  BY DEF EnvironmentNext
<1>5. UNCHANGED allVars => UNCHANGED memVars
  BY DEF allVars
<1> QED  BY <1>1, <1>2, <1>3, <1>4, <1>5

(* For any names, users and lengths, a FileState of the environment in     *)
(* memory is freed with the last of its name and its open files and not    *)
(* before, through NewWritableFile over a file in use, renames, deletions  *)
(* and ~InMemoryEnv; and a null pointer is followed only after             *)
(* NewAppendableFile has put one in the map.                               *)
THEOREM FilesAreCounted == EnvironmentSpec => []MemRefsOK
  BY MemImplies, MemInductive, PTL DEF EnvironmentSpec
=============================================================================
